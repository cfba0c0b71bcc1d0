---------------------------- MODULE NetworkClient ----------------------------
(***************************************************************************)
(* The bridge's socket client (src/bcbridge/NetworkClient.{h,cpp}).        *)
(*                                                                         *)
(* Two threads share one object: the thread that owns the client ("main",  *)
(* which calls open(), write() and close()) and the thread that runs the   *)
(* Boost.Asio io_service ("io", which runs the handlers).  write() queues a *)
(* message in mWriteBuf and starts an async_write of the front only when   *)
(* the queue was empty; handler_write pops the front and starts the next.  *)
(* mInternalMutex covers the push and the pop, and nothing else: the test  *)
(* for emptiness, front() and the socket are used outside it.              *)
(*                                                                         *)
(* One action is one stretch of code between two points where the other    *)
(* thread can observe something: a lock, an unlock, or an unlocked access  *)
(* to mWriteBuf, mSocket or mOpen.  Undefined behaviour (front or pop of    *)
(* an empty list, a write from a freed node, a second delete) is recorded   *)
(* in ub and ends the behaviour: after it the program may do anything.      *)
(***************************************************************************)
EXTENDS Naturals, Sequences

CONSTANTS MaxWrites,  \* bound: calls of write() in a behaviour
          Pieces,     \* send() calls that async_write needs for one message
          MaxPackets  \* bound: packets the peer sends

ASSUME BoundsAssumption ==
  /\ MaxWrites \in Nat
  /\ Pieces \in Nat \ {0}
  /\ MaxPackets \in Nat

VARIABLES
  pc,               \* where each thread is
  inClose,          \* whether a thread's do_close() was called by close()
  mOpen,            \* the flag that open() returns
  mWriteBuf,        \* the list: msg is the index of the write() that pushed it,
                    \* filled is FALSE between push_back("") and back() = msg
  mInternalMutex,   \* the thread that holds it, or "free"
  writeInProgress,  \* write()'s local write_in_progress
  written,          \* calls of write() so far
  socket,           \* the TCP connection as this end knows it
  ops,              \* Asio: async_writes under way, in the order they get the socket
  receiving,        \* Asio: an async_receive is under way
  ready,            \* Asio: handlers whose operation completed, in order
  packets,          \* packets received so far
  wire,             \* the pieces of messages put on the connection, in order
  threadFreed,      \* whether "delete mIOThread" ran
  ub                \* the undefined behaviours met

bufferVars == <<mWriteBuf, mInternalMutex, writeInProgress, written>>
asioVars   == <<ops, receiving, ready>>
peerVars   == <<packets, wire>>
vars == <<pc, inClose, mOpen, bufferVars, socket, asioVars, peerVars, threadFreed, ub>>

Threads == {"main", "io"}
Labels == {"wait", "out", "fill", "start", "run", "callback", "callback error", "pop",
           "check", "front", "close socket", "clear open", "delete thread", "closed"}
UndefinedBehaviours == {"front of empty list", "pop of empty list",
                        "write from a freed node", "thread deleted twice"}
Entry == [msg : 1..MaxWrites, filled : BOOLEAN]
WriteOp == [msg : 1..MaxWrites, left : 0..Pieces]
Handler == [kind : {"connect", "read", "write"}, error : BOOLEAN]
Sent == [msg : 1..MaxWrites, piece : 1..Pieces]

\* Thread t is at l, and no undefined behaviour was met.
At(t, l) == pc[t] = l /\ ub = {}
Goto(t, l) == pc' = [pc EXCEPT ![t] = l]
Completion(kind, error) == [kind |-> kind, error |-> error]
\* A write operation refers to the string in the list node it was started on.
Allocated(m) == \E i \in 1..Len(mWriteBuf) : mWriteBuf[i].msg = m

Init ==
  /\ pc = [t \in Threads |-> IF t = "main" THEN "wait" ELSE "run"]
  /\ inClose = [t \in Threads |-> FALSE]
  /\ mOpen = FALSE
  /\ mWriteBuf = <<>> /\ mInternalMutex = "free"
  /\ writeInProgress = FALSE /\ written = 0
  /\ socket = "connecting"
  /\ ops = <<>> /\ receiving = FALSE /\ ready = <<>>
  /\ packets = 0 /\ wire = <<>>
  /\ threadFreed = FALSE
  /\ ub = {}
-----------------------------------------------------------------------------
(* The owner's thread. *)

\* The owner polls open() until the connection stands, and only then writes.
SeesOpen ==
  /\ At("main", "wait") /\ mOpen
  /\ Goto("main", "out")
  /\ UNCHANGED <<inClose, mOpen, bufferVars, socket, asioVars, peerVars, threadFreed, ub>>

\* Mutant: push_front(msg) instead of push_back.
WritePushFront ==
  /\ At("main", "out") /\ written < MaxWrites
  /\ mInternalMutex = "free"
  /\ mInternalMutex' = "main"
  /\ writeInProgress' = (mWriteBuf # <<>>)
  /\ written' = written + 1
  /\ mWriteBuf' = <<[msg |-> written', filled |-> TRUE]>> \o mWriteBuf
  /\ Goto("main", "fill")
  /\ UNCHANGED <<inClose, mOpen, socket, asioVars, peerVars, threadFreed, ub>>

\* write(): lock, read write_in_progress, push_back("").
WritePush ==
  /\ At("main", "out") /\ written < MaxWrites
  /\ mInternalMutex = "free"
  /\ mInternalMutex' = "main"
  /\ writeInProgress' = (mWriteBuf # <<>>)
  /\ written' = written + 1
  /\ mWriteBuf' = Append(mWriteBuf, [msg |-> written', filled |-> FALSE])
  /\ Goto("main", "fill")
  /\ UNCHANGED <<inClose, mOpen, socket, asioVars, peerVars, threadFreed, ub>>

\* Mutant: the test of write_in_progress inverted.
WriteFillInverted ==
  /\ At("main", "fill")
  /\ mWriteBuf' = [mWriteBuf EXCEPT ![Len(mWriteBuf)].filled = TRUE]
  /\ mInternalMutex' = "free"
  /\ Goto("main", IF writeInProgress THEN "start" ELSE "out")
  /\ UNCHANGED <<inClose, mOpen, writeInProgress, written, socket, asioVars,
                 peerVars, threadFreed, ub>>

\* write(): back() = msg with its end-of-message byte, unlock.
WriteFill ==
  /\ At("main", "fill")
  /\ mWriteBuf' = [mWriteBuf EXCEPT ![Len(mWriteBuf)].filled = TRUE]
  /\ mInternalMutex' = "free"
  /\ Goto("main", IF writeInProgress THEN "out" ELSE "start")
  /\ UNCHANGED <<inClose, mOpen, writeInProgress, written, socket, asioVars,
                 peerVars, threadFreed, ub>>

\* Mutant: one byte too many is read from the string.
SizePlusOne(entry) == IF entry.filled THEN Pieces + 1 ELSE 0

\* What size() says of a queued string.
Size(entry) == IF entry.filled THEN Pieces ELSE 0

\* async_write of front(): on a socket that is not connected it fails at once;
\* the length is the one front() has now, 0 for a string not yet filled.
AsyncWriteFront ==
  IF mWriteBuf = <<>>
  THEN /\ ub' = ub \cup {"front of empty list"}
       /\ UNCHANGED <<ops, ready>>
  ELSE /\ IF socket = "connected"
          THEN /\ ops' = Append(ops, [msg  |-> Head(mWriteBuf).msg,
                                      left |-> Size(Head(mWriteBuf))])
               /\ UNCHANGED ready
          ELSE /\ ready' = Append(ready, Completion("write", TRUE))
               /\ UNCHANGED ops
       /\ UNCHANGED ub

\* write(): "Request to write if we aren't already", after the unlock.
WriteStart ==
  /\ At("main", "start")
  /\ AsyncWriteFront
  /\ Goto("main", "out")
  /\ UNCHANGED <<inClose, mOpen, bufferVars, socket, receiving, peerVars, threadFreed>>

\* close() is entered; its first effect is do_close() on the caller's thread.
BeginClose(t, l) ==
  /\ At(t, l)
  /\ inClose' = [inClose EXCEPT ![t] = TRUE]
  /\ Goto(t, "close socket")
  /\ UNCHANGED <<mOpen, bufferVars, socket, asioVars, peerVars, threadFreed, ub>>

\* The handlers of the operations under way, when these fail.
Aborted == [i \in 1..Len(ops) |-> Completion("write", TRUE)]
             \o (IF receiving THEN <<Completion("read", TRUE)>> ELSE <<>>)

\* do_close(): mSocket.close() makes every operation under way fail.
CloseSocket(t) ==
  /\ At(t, "close socket")
  /\ socket' = "closed"
  /\ ready' = ready \o Aborted
  /\ ops' = <<>> /\ receiving' = FALSE
  /\ Goto(t, "clear open")
  /\ UNCHANGED <<inClose, mOpen, bufferVars, peerVars, threadFreed, ub>>

\* do_close(): mOpen = false, and back to close() or to the io_service.
ClearOpen(t) ==
  /\ At(t, "clear open")
  /\ mOpen' = FALSE
  /\ Goto(t, IF inClose[t] THEN "delete thread" ELSE "run")
  /\ UNCHANGED <<inClose, bufferVars, socket, asioVars, peerVars, threadFreed, ub>>

\* close(): delete mIOThread, without join and without resetting the pointer.
DeleteThread(t) ==
  /\ At(t, "delete thread")
  /\ IF threadFreed
     THEN ub' = ub \cup {"thread deleted twice"} /\ UNCHANGED threadFreed
     ELSE threadFreed' = TRUE /\ UNCHANGED ub
  /\ Goto(t, "closed")
  /\ UNCHANGED <<inClose, mOpen, bufferVars, socket, asioVars, peerVars>>
-----------------------------------------------------------------------------
(* The io thread: io_service::run takes the next completed handler. *)

TakeHandler(kind, error) ==
  /\ At("io", "run") /\ ready # <<>>
  /\ Head(ready) = Completion(kind, error)

\* async_receive: on a socket that is not connected it fails at once.
Receive(queue) ==
  IF socket = "connected"
  THEN receiving' = TRUE /\ ready' = queue
  ELSE ready' = Append(queue, Completion("read", TRUE)) /\ UNCHANGED receiving

\* handler_connect without error.  Its error branch cannot run: infinite_connect
\* makes async_connect retry for ever, and nothing closes the socket meanwhile.
HandlerConnect ==
  /\ TakeHandler("connect", FALSE)
  /\ Receive(Tail(ready))
  /\ mOpen' = TRUE
  /\ UNCHANGED <<pc, inClose, bufferVars, socket, ops, peerVars, threadFreed, ub>>

\* handler_read up to the call of the owner's callback.
HandlerRead(error) ==
  /\ TakeHandler("read", error)
  /\ ready' = Tail(ready)
  /\ Goto("io", IF error THEN "callback error" ELSE "callback")
  /\ UNCHANGED <<inClose, mOpen, bufferVars, socket, ops, receiving, peerVars, threadFreed, ub>>

\* Mutant: no further packet is asked for.
AsyncReceiveNot ==
  /\ At("io", "callback") \/ At("io", "callback error")
  /\ Goto("io", "run")
  /\ UNCHANGED <<inClose, mOpen, bufferVars, socket, asioVars, peerVars, threadFreed, ub>>

\* handler_read after the callback: ask for another packet, even after an error.
AsyncReceive ==
  /\ At("io", "callback") \/ At("io", "callback error")
  /\ Receive(ready)
  /\ Goto("io", "run")
  /\ UNCHANGED <<inClose, mOpen, bufferVars, socket, ops, peerVars, threadFreed, ub>>

\* handler_write: on to the pop, or to do_close() on an error.
HandlerWrite(error) ==
  /\ TakeHandler("write", error)
  /\ ready' = Tail(ready)
  /\ Goto("io", IF error THEN "close socket" ELSE "pop")
  /\ UNCHANGED <<inClose, mOpen, bufferVars, socket, ops, receiving, peerVars, threadFreed, ub>>

\* Mutants: pop_front without the lock; pop_front forgotten.
PopFrontUnlocked ==
  /\ At("io", "pop")
  /\ IF mWriteBuf = <<>>
     THEN ub' = ub \cup {"pop of empty list"} /\ UNCHANGED mWriteBuf
     ELSE mWriteBuf' = Tail(mWriteBuf) /\ UNCHANGED ub
  /\ Goto("io", "check")
  /\ UNCHANGED <<inClose, mOpen, mInternalMutex, writeInProgress, written, socket,
                 asioVars, peerVars, threadFreed>>

PopFrontForgotten ==
  /\ At("io", "pop") /\ mInternalMutex = "free"
  /\ Goto("io", "check")
  /\ UNCHANGED <<inClose, mOpen, bufferVars, socket, asioVars, peerVars, threadFreed, ub>>

\* handler_write: lock, pop_front, unlock.
PopFront ==
  /\ At("io", "pop") /\ mInternalMutex = "free"
  /\ IF mWriteBuf = <<>>
     THEN ub' = ub \cup {"pop of empty list"} /\ UNCHANGED mWriteBuf
     ELSE mWriteBuf' = Tail(mWriteBuf) /\ UNCHANGED ub
  /\ Goto("io", "check")
  /\ UNCHANGED <<inClose, mOpen, mInternalMutex, writeInProgress, written, socket,
                 asioVars, peerVars, threadFreed>>

\* Mutants: the test is size() > 1; the test is inverted.
CheckMoreThanOne ==
  /\ At("io", "check")
  /\ Goto("io", IF Len(mWriteBuf) <= 1 THEN "run" ELSE "front")
  /\ UNCHANGED <<inClose, mOpen, bufferVars, socket, asioVars, peerVars, threadFreed, ub>>

CheckInverted ==
  /\ At("io", "check")
  /\ Goto("io", IF mWriteBuf = <<>> THEN "front" ELSE "run")
  /\ UNCHANGED <<inClose, mOpen, bufferVars, socket, asioVars, peerVars, threadFreed, ub>>

\* handler_write: mWriteBuf.empty(), read without the lock.
CheckEmpty ==
  /\ At("io", "check")
  /\ Goto("io", IF mWriteBuf = <<>> THEN "run" ELSE "front")
  /\ UNCHANGED <<inClose, mOpen, bufferVars, socket, asioVars, peerVars, threadFreed, ub>>

\* handler_write: async_write of the next message.
WriteNext ==
  /\ At("io", "front")
  /\ AsyncWriteFront
  /\ Goto("io", "run")
  /\ UNCHANGED <<inClose, mOpen, bufferVars, socket, receiving, peerVars, threadFreed>>
-----------------------------------------------------------------------------
(* Asio and the network. *)

Connect ==
  /\ socket = "connecting" /\ ub = {}
  /\ socket' = "connected"
  /\ ready' = Append(ready, Completion("connect", FALSE))
  /\ UNCHANGED <<pc, inClose, mOpen, bufferVars, ops, receiving, peerVars, threadFreed, ub>>

\* The write at the head sends a piece and, unless it is done, queues again.
Transfer ==
  /\ ops # <<>> /\ socket = "connected" /\ ub = {}
  /\ LET op == Head(ops) IN
       IF op.left > 0 /\ ~Allocated(op.msg)
       THEN /\ ub' = ub \cup {"write from a freed node"}
            /\ UNCHANGED <<ops, ready, wire>>
       ELSE /\ wire' = IF op.left = 0 THEN wire
                       ELSE Append(wire, [msg |-> op.msg, piece |-> Pieces - op.left + 1])
            /\ IF op.left <= 1
               THEN /\ ops' = Tail(ops)
                    /\ ready' = Append(ready, Completion("write", FALSE))
               ELSE /\ ops' = Append(Tail(ops), [op EXCEPT !.left = @ - 1])
                    /\ UNCHANGED ready
            /\ UNCHANGED ub
  /\ UNCHANGED <<pc, inClose, mOpen, bufferVars, socket, receiving, packets, threadFreed>>

PeerSends ==
  /\ receiving /\ socket = "connected" /\ packets < MaxPackets /\ ub = {}
  /\ packets' = packets + 1
  /\ receiving' = FALSE
  /\ ready' = Append(ready, Completion("read", FALSE))
  /\ UNCHANGED <<pc, inClose, mOpen, bufferVars, socket, ops, wire, threadFreed, ub>>

\* The peer goes away: what is under way fails, mOpen does not notice.
PeerResets ==
  /\ socket = "connected" /\ ub = {}
  /\ socket' = "reset"
  /\ ready' = ready \o Aborted
  /\ ops' = <<>> /\ receiving' = FALSE
  /\ UNCHANGED <<pc, inClose, mOpen, bufferVars, peerVars, threadFreed, ub>>
-----------------------------------------------------------------------------
Write == WritePush \/ WriteFill \/ WriteStart
DoClose(t) == CloseSocket(t) \/ ClearOpen(t) \/ DeleteThread(t)
Owner == SeesOpen \/ Write \/ BeginClose("main", "out") \/ DoClose("main")

WriteChain == \/ \E e \in BOOLEAN : HandlerWrite(e)
              \/ PopFront \/ CheckEmpty \/ WriteNext
IoService == \/ HandlerConnect \/ WriteChain \/ DoClose("io")
             \/ \E e \in BOOLEAN : HandlerRead(e)
             \/ AsyncReceive
Network == Connect \/ Transfer \/ PeerSends \/ PeerResets

Next == Owner \/ IoService \/ Network

\* The scheduler runs both threads and the kernel drains the socket; the owner
\* need not call anything, and the peer need not answer, send or go away.
Fairness == /\ WF_vars(IoService)
            /\ WF_vars(Transfer)
            /\ WF_vars(WriteFill \/ WriteStart \/ DoClose("main"))

Spec == Init /\ [][Next]_vars
FairSpec == Spec /\ Fairness
-----------------------------------------------------------------------------
(* Properties. *)

TypeOK ==
  /\ pc \in [Threads -> Labels]
  /\ inClose \in [Threads -> BOOLEAN]
  /\ mOpen \in BOOLEAN
  /\ mWriteBuf \in Seq(Entry)
  /\ mInternalMutex \in {"free", "main"}
  /\ writeInProgress \in BOOLEAN
  /\ written \in 0..MaxWrites
  /\ socket \in {"connecting", "connected", "reset", "closed"}
  /\ ops \in Seq(WriteOp)
  /\ receiving \in BOOLEAN
  /\ ready \in Seq(Handler)
  /\ packets \in 0..MaxPackets
  /\ wire \in Seq(Sent)
  /\ threadFreed \in BOOLEAN
  /\ ub \subseteq UndefinedBehaviours

\* The places of the handlers in a queue that belong to the writes, and to the
\* receives: the handler of the connection starts the first receive.
Writes(queue) == {i \in 1..Len(queue) : queue[i].kind = "write"}
Reads(queue) == {i \in 1..Len(queue) : queue[i].kind # "write"}

\* Somebody is bound to look at mWriteBuf again: a write is under way or
\* completed, handler_write is between its pop and its next async_write, or
\* write() found the queue empty and has still to start the first write.
WriteChainAlive ==
  \/ ops # <<>>
  \/ Writes(ready) # {}
  \/ pc["io"] \in {"pop", "check", "front"}
  \/ pc["main"] \in {"fill", "start"} /\ ~writeInProgress

\* No lost wake-up between write() and handler_write: while the connection
\* stands, a message in mWriteBuf always has somebody who will send or pop it,
\* although handler_write tests empty() after it gave up the lock.
NoStrandedMessage ==
  ub = {} /\ socket = "connected" /\ mWriteBuf # <<>> => WriteChainAlive

\* handler_write never pops the string that write() is still filling: that is
\* what mInternalMutex is held for over push_back and back() = msg.
NoTornPop ==
  [][Len(mWriteBuf') < Len(mWriteBuf) => Head(mWriteBuf).filled]_vars

\* The io thread handles a packet, or closes because of one.
Handling == pc["io"] \in {"callback", "callback error"} \/ inClose["io"]

\* There is one read buffer: once connected exactly one receive is under way,
\* completed or being handled.  Never two at once, and never none, or the
\* peer's answers and its hang-up would go unnoticed and io_service::run would
\* return for want of work.
OneReceiveChain ==
  /\ \A i, j \in Reads(ready) : i = j
  /\ ~(receiving /\ Handling)
  /\ receiving \/ Handling => Reads(ready) = {}
  /\ receiving \/ Handling \/ Reads(ready) # {} <=> socket # "connecting"

\* However the starts of the two threads interleave, a message never reaches
\* the connection before one that was written earlier.
NoOvertaking ==
  \A i, j \in 1..Len(wire) :
    i < j /\ wire[i].piece = 1 /\ wire[j].piece = 1 => wire[i].msg <= wire[j].msg

\* "Request to write if we aren't already" (write()): one async_write at a time.
OneWriteInProgress ==
  /\ Len(ops) <= 1 /\ \A i, j \in Writes(ready) : i = j
  /\ ops # <<>> => Writes(ready) = {}

\* Every queued message leaves the queue while the connection stands.
QueueDrains ==
  (mWriteBuf # <<>>) ~> (mWriteBuf = <<>> \/ socket # "connected" \/ ub # {})
=============================================================================
