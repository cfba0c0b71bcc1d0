---------------------------- MODULE Bridge_proofs ----------------------------
(***************************************************************************)
(* Proofs about the socket client and the reactive bridge.                  *)
(*                                                                         *)
(* Of the client, for every number of writes, pieces and packets: its types, *)
(* that no queued message is left without somebody who will send it, that no *)
(* string is popped while it is being filled, that there is one receive at a *)
(* time, and the order of messages.                                        *)
(*                                                                         *)
(* Of the bridge, for every set of laws and every bound: the invariants of   *)
(* the client hold in it, oClingo is blamed only when it hung up, no message *)
(* composed after the bridge began to close reaches oClingo, and with a user *)
(* who waits for the prompt the bridge implements the observation channel.   *)
(***************************************************************************)
EXTENDS Bridge, SequenceTheorems, FiniteSetTheorems, WellFoundedInduction, TLAPS

(* What the helpers return. *)

LEMMA GotoType ==
  ASSUME NEW t \in Threads, NEW l \in Labels, pc \in [Threads -> Labels], Goto(t, l)
  PROVE  pc' \in [Threads -> Labels]
  BY DEF Goto

LEMMA CompletionIsHandler ==
  ASSUME NEW kind \in {"connect", "read", "write"}, NEW error \in BOOLEAN
  PROVE  Completion(kind, error) \in Handler
  BY DEF Completion, Handler

\* A handler that completes joins the end of the queue.
LEMMA CompletionQueues ==
  ASSUME NEW queue \in Seq(Handler),
         NEW kind \in {"connect", "read", "write"}, NEW error \in BOOLEAN
  PROVE  Append(queue, Completion(kind, error)) \in Seq(Handler)
  BY CompletionIsHandler, AppendProperties

LEMMA Singleton ==
  ASSUME NEW S, NEW e \in S
  PROVE  <<e>> \in Seq(S)
  OBVIOUS

\* What a closing or broken connection completes with.
LEMMA AbortedType ==
  ASSUME ops \in Seq(WriteOp), receiving \in BOOLEAN
  PROVE  Aborted \in Seq(Handler)
<1> DEFINE writes == [i \in 1..Len(ops) |-> Completion("write", TRUE)]
           reads == IF receiving THEN <<Completion("read", TRUE)>> ELSE <<>>
<1>1. writes \in Seq(Handler)
  <2>1. Len(ops) \in Nat
    BY LenProperties
  <2>2. writes \in [1..Len(ops) -> Handler]
    BY CompletionIsHandler
  <2> QED BY <2>1, <2>2, SeqDef
<1>2. reads \in Seq(Handler)
  BY CompletionIsHandler, Singleton, EmptySeq
<1>3. writes \o reads \in Seq(Handler)
  BY <1>1, <1>2, ConcatProperties
<1> QED BY <1>3 DEF Aborted

\* The handlers queued when what was under way fails.
LEMMA AbortQueues ==
  ASSUME TypeOK
  PROVE  ready \o Aborted \in Seq(Handler)
  BY AbortedType, ConcatProperties DEF TypeOK

LEMMA ReceiveType ==
  ASSUME NEW queue \in Seq(Handler), TypeOK, Receive(queue)
  PROVE  receiving' \in BOOLEAN /\ ready' \in Seq(Handler)
<1>1. receiving' \in BOOLEAN
  BY Zenon DEF TypeOK, Receive
<1>2. Append(queue, Completion("read", TRUE)) \in Seq(Handler)
  BY CompletionQueues
<1>3. ready' \in Seq(Handler)
  BY <1>2 DEF Receive
<1> QED BY <1>1, <1>3

LEMMA TakeHandlerType ==
  ASSUME TypeOK, NEW kind, NEW error, TakeHandler(kind, error)
  PROVE  Tail(ready) \in Seq(Handler)
  BY HeadTailProperties DEF TypeOK, TakeHandler

LEMMA AsyncWriteType ==
  ASSUME TypeOK, AsyncWriteFront
  PROVE  /\ ops' \in Seq(WriteOp)
         /\ ready' \in Seq(Handler)
         /\ ub' \subseteq UndefinedBehaviours
<1>1. CASE mWriteBuf = <<>>
  BY <1>1 DEF TypeOK, AsyncWriteFront, UndefinedBehaviours
<1>2. CASE mWriteBuf # <<>>
  <2> DEFINE op == [msg |-> Head(mWriteBuf).msg, left |-> Size(Head(mWriteBuf))]
  <2>1. Head(mWriteBuf) \in Entry
    BY <1>2, HeadTailProperties DEF TypeOK
  <2>2. Size(Head(mWriteBuf)) \in 0..Pieces
    BY <2>1, BoundsAssumption DEF Size, Entry
  <2>3. op \in WriteOp
    BY <2>1, <2>2 DEF Entry, WriteOp
  <2>4. Append(ops, op) \in Seq(WriteOp)
    BY <2>3, AppendProperties DEF TypeOK
  <2>5. Append(ready, Completion("write", TRUE)) \in Seq(Handler)
    BY CompletionQueues DEF TypeOK
  <2>6. ops' \in Seq(WriteOp)
    BY <1>2, <2>4 DEF TypeOK, AsyncWriteFront
  <2>7. ready' \in Seq(Handler)
    BY <1>2, <2>5 DEF TypeOK, AsyncWriteFront
  <2>8. ub' \subseteq UndefinedBehaviours
    BY <1>2 DEF TypeOK, AsyncWriteFront
  <2> QED BY <2>6, <2>7, <2>8
<1> QED BY <1>1, <1>2
-----------------------------------------------------------------------------
(* Types. *)

LEMMA TypeInit == Init => TypeOK
<1> SUFFICES ASSUME Init PROVE TypeOK
  OBVIOUS
<1>1. pc \in [Threads -> Labels]
  BY DEF Init, Threads, Labels
<1>2. inClose \in [Threads -> BOOLEAN]
  BY DEF Init
<1>3. /\ mWriteBuf \in Seq(Entry) /\ ops \in Seq(WriteOp)
      /\ ready \in Seq(Handler) /\ wire \in Seq(Sent)
  BY EmptySeq DEF Init
<1>4. /\ mOpen \in BOOLEAN /\ writeInProgress \in BOOLEAN
      /\ receiving \in BOOLEAN /\ threadFreed \in BOOLEAN
  BY DEF Init
<1>5. /\ mInternalMutex \in {"free", "main"}
      /\ written \in 0..MaxWrites
      /\ socket \in {"connecting", "connected", "reset", "closed"}
      /\ packets \in 0..MaxPackets
  BY BoundsAssumption DEF Init
<1>6. ub \subseteq UndefinedBehaviours
  BY DEF Init
<1> QED BY <1>1, <1>2, <1>3, <1>4, <1>5, <1>6, Zenon DEF TypeOK

\* A step of the kernel finishes the first write or sends one piece of it and
\* puts it behind the others: a write under way is not lost on the way.
LEMMA TransferKeepsOps ==
  ASSUME TypeOK, Transfer
  PROVE  /\ ops' \in Seq(WriteOp)
         /\ \/ ready' = Append(ready, Completion("write", FALSE))
            \/ ready' = ready /\ Len(ops') > 0
<1> DEFINE op == Head(ops)
           rest == [op EXCEPT !.left = @ - 1]
<1>1. ops \in Seq(WriteOp) /\ ops # <<>>
  BY Zenon DEF TypeOK, Transfer
<1>2. op \in WriteOp /\ Tail(ops) \in Seq(WriteOp)
  BY <1>1, HeadTailProperties
<1>3. Len(ops) > 0
  BY <1>1, EmptySeq
<1>4. ~(op.left <= 1) => rest \in WriteOp
  <2>1. op.left \in 0..Pieces
    BY <1>2 DEF WriteOp
  <2>2. ~(op.left <= 1) => op.left - 1 \in 0..Pieces
    BY <2>1, BoundsAssumption
  <2> QED BY <1>2, <2>2 DEF WriteOp
<1>5. ~(op.left <= 1) => /\ Append(Tail(ops), rest) \in Seq(WriteOp)
                         /\ Len(Append(Tail(ops), rest)) = Len(Tail(ops)) + 1
  BY <1>2, <1>4, AppendProperties
<1>6. Len(Tail(ops)) \in Nat
  BY <1>2, LenProperties
<1>7. CASE ops' = ops /\ ready' = ready
  BY <1>1, <1>3, <1>7
<1>8. CASE ops' = Tail(ops) /\ ready' = Append(ready, Completion("write", FALSE))
  BY <1>2, <1>8
<1>9. CASE ~(op.left <= 1) /\ ops' = Append(Tail(ops), rest) /\ ready' = ready
  <2>1. ops' \in Seq(WriteOp) /\ Len(ops') = Len(Tail(ops)) + 1
    BY <1>5, <1>9, Zenon
  <2>2. Len(ops') > 0
    BY <1>6, <2>1
  <2> QED BY <1>9, <2>1, <2>2, Zenon
<1>10. \/ ops' = ops /\ ready' = ready
       \/ ops' = Tail(ops) /\ ready' = Append(ready, Completion("write", FALSE))
       \/ ~(op.left <= 1) /\ ops' = Append(Tail(ops), rest) /\ ready' = ready
  BY Zenon DEF Transfer
<1> QED BY <1>7, <1>8, <1>9, <1>10, Zenon

\* One step for each action: what the action changes has its type.
LEMMA TypeNext == TypeOK /\ [Next]_vars => TypeOK'
<1> SUFFICES ASSUME TypeOK, [Next]_vars PROVE TypeOK'
  OBVIOUS
<1> USE DEF bufferVars, asioVars, peerVars
<1>1. CASE SeesOpen
  <2>1. pc' \in [Threads -> Labels]
    BY <1>1, GotoType DEF TypeOK, SeesOpen, Threads, Labels
  <2> QED BY <1>1, <2>1, Zenon DEF TypeOK, SeesOpen
<1>2. CASE WritePush
  <2>1. pc' \in [Threads -> Labels]
    BY <1>2, GotoType DEF TypeOK, WritePush, Threads, Labels
  <2>2. written' \in 1..MaxWrites
    BY <1>2, BoundsAssumption DEF TypeOK, WritePush
  <2>3. [msg |-> written', filled |-> FALSE] \in Entry
    BY <2>2 DEF Entry
  <2>4. Append(mWriteBuf, [msg |-> written', filled |-> FALSE]) \in Seq(Entry)
    BY <2>3, AppendProperties DEF TypeOK
  <2>5. mWriteBuf' \in Seq(Entry)
    BY <1>2, <2>4 DEF WritePush
  <2>6. writeInProgress' \in BOOLEAN /\ mInternalMutex' \in {"free", "main"}
    BY <1>2 DEF WritePush
  <2>7. written' \in 0..MaxWrites
    BY <2>2
  <2> QED BY <1>2, <2>1, <2>5, <2>6, <2>7, Zenon DEF TypeOK, WritePush
<1>3. CASE WriteFill
  <2>1. pc' \in [Threads -> Labels]
    BY <1>3, GotoType DEF TypeOK, WriteFill, Threads, Labels
  <2>2. mWriteBuf' \in Seq(Entry)
    <3> DEFINE n == Len(mWriteBuf)
               e == [mWriteBuf[n] EXCEPT !.filled = TRUE]
    <3>1. mWriteBuf' = [mWriteBuf EXCEPT ![n] = e]
      BY <1>3 DEF WriteFill
    <3>2. CASE mWriteBuf = <<>>
      <4>1. mWriteBuf' = mWriteBuf
        BY <3>1, <3>2
      <4> QED BY <4>1 DEF TypeOK
    <3>3. CASE mWriteBuf # <<>>
      <4>1. n \in 1..Len(mWriteBuf) /\ mWriteBuf[n] \in Entry
        BY <3>3 DEF TypeOK
      <4>2. e \in Entry
        BY <4>1 DEF Entry
      <4> HIDE DEF n, e
      <4> QED BY <3>1, <4>1, <4>2, ExceptSeq DEF TypeOK
    <3> QED BY <3>2, <3>3
  <2>3. mInternalMutex' \in {"free", "main"}
    BY <1>3 DEF WriteFill
  <2> QED BY <1>3, <2>1, <2>2, <2>3, Zenon DEF TypeOK, WriteFill
<1>4. CASE WriteStart
  <2>1. pc' \in [Threads -> Labels]
    BY <1>4, GotoType DEF TypeOK, WriteStart, Threads, Labels
  <2>2. ops' \in Seq(WriteOp) /\ ready' \in Seq(Handler) /\ ub' \subseteq UndefinedBehaviours
    BY <1>4, AsyncWriteType DEF WriteStart
  <2> QED BY <1>4, <2>1, <2>2, Zenon DEF TypeOK, WriteStart
<1>5. CASE BeginClose("main", "out")
  <2>1. pc' \in [Threads -> Labels]
    BY <1>5, GotoType DEF TypeOK, BeginClose, Threads, Labels
  <2>2. inClose' \in [Threads -> BOOLEAN]
    BY <1>5 DEF TypeOK, BeginClose
  <2> QED BY <1>5, <2>1, <2>2, Zenon DEF TypeOK, BeginClose
<1>6. ASSUME NEW t \in Threads, CloseSocket(t) PROVE TypeOK'
  <2>1. pc' \in [Threads -> Labels]
    BY <1>6, GotoType DEF TypeOK, CloseSocket, Labels
  <2>2. ready' \in Seq(Handler) /\ ops' \in Seq(WriteOp)
    BY <1>6, AbortQueues, EmptySeq DEF CloseSocket
  <2>3. receiving' \in BOOLEAN /\ socket' \in {"connecting", "connected", "reset", "closed"}
    BY <1>6 DEF CloseSocket
  <2> QED BY <1>6, <2>1, <2>2, <2>3, Zenon DEF TypeOK, CloseSocket
<1>7. ASSUME NEW t \in Threads, ClearOpen(t) PROVE TypeOK'
  <2>1. pc' \in [Threads -> Labels]
    BY <1>7, GotoType DEF TypeOK, ClearOpen, Labels
  <2> QED BY <1>7, <2>1, Zenon DEF TypeOK, ClearOpen
<1>8. ASSUME NEW t \in Threads, DeleteThread(t) PROVE TypeOK'
  <2>1. pc' \in [Threads -> Labels]
    BY <1>8, GotoType DEF TypeOK, DeleteThread, Labels
  <2>2. ub' \subseteq UndefinedBehaviours /\ threadFreed' \in BOOLEAN
    BY <1>8 DEF TypeOK, DeleteThread, UndefinedBehaviours
  <2> QED BY <1>8, <2>1, <2>2, Zenon DEF TypeOK, DeleteThread
<1>9. CASE HandlerConnect
  <2>1. ready' \in Seq(Handler) /\ receiving' \in BOOLEAN
    BY <1>9, TakeHandlerType, ReceiveType DEF HandlerConnect
  <2> QED BY <1>9, <2>1, Zenon DEF TypeOK, HandlerConnect
<1>10. ASSUME NEW e \in BOOLEAN, HandlerRead(e) PROVE TypeOK'
  <2>1. pc' \in [Threads -> Labels]
    BY <1>10, GotoType DEF TypeOK, HandlerRead, Threads, Labels
  <2>2. ready' \in Seq(Handler)
    BY <1>10, TakeHandlerType DEF HandlerRead
  <2> QED BY <1>10, <2>1, <2>2, Zenon DEF TypeOK, HandlerRead
<1>11. CASE AsyncReceive
  <2>1. pc' \in [Threads -> Labels]
    BY <1>11, GotoType DEF TypeOK, AsyncReceive, Threads, Labels
  <2>2. ready \in Seq(Handler)
    BY DEF TypeOK
  <2>3. ready' \in Seq(Handler) /\ receiving' \in BOOLEAN
    BY <1>11, <2>2, ReceiveType DEF AsyncReceive
  <2> QED BY <1>11, <2>1, <2>3, Zenon DEF TypeOK, AsyncReceive
<1>12. ASSUME NEW e \in BOOLEAN, HandlerWrite(e) PROVE TypeOK'
  <2>1. pc' \in [Threads -> Labels]
    BY <1>12, GotoType DEF TypeOK, HandlerWrite, Threads, Labels
  <2>2. ready' \in Seq(Handler)
    BY <1>12, TakeHandlerType DEF HandlerWrite
  <2> QED BY <1>12, <2>1, <2>2, Zenon DEF TypeOK, HandlerWrite
<1>13. CASE PopFront
  <2>1. pc' \in [Threads -> Labels]
    BY <1>13, GotoType DEF TypeOK, PopFront, Threads, Labels
  <2>2. mWriteBuf' \in Seq(Entry)
    BY <1>13, HeadTailProperties DEF TypeOK, PopFront
  <2>3. ub' \subseteq UndefinedBehaviours
    BY <1>13 DEF TypeOK, PopFront, UndefinedBehaviours
  <2> QED BY <1>13, <2>1, <2>2, <2>3, Zenon DEF TypeOK, PopFront
<1>14. CASE CheckEmpty
  <2>1. pc' \in [Threads -> Labels]
    BY <1>14, GotoType DEF TypeOK, CheckEmpty, Threads, Labels
  <2> QED BY <1>14, <2>1, Zenon DEF TypeOK, CheckEmpty
<1>15. CASE WriteNext
  <2>1. pc' \in [Threads -> Labels]
    BY <1>15, GotoType DEF TypeOK, WriteNext, Threads, Labels
  <2>2. ops' \in Seq(WriteOp) /\ ready' \in Seq(Handler) /\ ub' \subseteq UndefinedBehaviours
    BY <1>15, AsyncWriteType DEF WriteNext
  <2> QED BY <1>15, <2>1, <2>2, Zenon DEF TypeOK, WriteNext
<1>16. CASE Connect
  <2>1. ready' \in Seq(Handler)
    BY <1>16, CompletionQueues DEF TypeOK, Connect
  <2>2. socket' \in {"connecting", "connected", "reset", "closed"}
    BY <1>16 DEF Connect
  <2> QED BY <1>16, <2>1, <2>2, Zenon DEF TypeOK, Connect
<1>17. CASE Transfer
  <2> DEFINE op == Head(ops)
  <2>1. op \in WriteOp /\ Tail(ops) \in Seq(WriteOp)
    BY <1>17, HeadTailProperties DEF TypeOK, Transfer
  <2>2. ready' \in Seq(Handler)
    <3>1. Append(ready, Completion("write", FALSE)) \in Seq(Handler)
      BY CompletionQueues DEF TypeOK
    <3> QED BY <1>17, <3>1 DEF TypeOK, Transfer
  <2>3. ops' \in Seq(WriteOp)
    BY <1>17, TransferKeepsOps
  <2>4. wire' \in Seq(Sent)
    <3> DEFINE piece == [msg |-> op.msg, piece |-> Pieces - op.left + 1]
    <3>1. op.left # 0 => piece \in Sent
      BY <2>1, BoundsAssumption DEF WriteOp, Sent
    <3>2. op.left # 0 => Append(wire, piece) \in Seq(Sent)
      BY <3>1, AppendProperties DEF TypeOK
    <3> QED BY <1>17, <3>2 DEF TypeOK, Transfer
  <2>5. ub' \subseteq UndefinedBehaviours
    BY <1>17 DEF TypeOK, Transfer, UndefinedBehaviours
  <2> QED BY <1>17, <2>2, <2>3, <2>4, <2>5, Zenon DEF TypeOK, Transfer
<1>18. CASE PeerSends
  <2>1. ready' \in Seq(Handler)
    BY <1>18, CompletionQueues DEF TypeOK, PeerSends
  <2>2. packets' \in 0..MaxPackets
    BY <1>18, BoundsAssumption DEF TypeOK, PeerSends
  <2>3. receiving' \in BOOLEAN
    BY <1>18 DEF PeerSends
  <2> QED BY <1>18, <2>1, <2>2, <2>3, Zenon DEF TypeOK, PeerSends
<1>19. CASE PeerResets
  <2>1. ready' \in Seq(Handler) /\ ops' \in Seq(WriteOp)
    BY <1>19, AbortQueues, EmptySeq DEF PeerResets
  <2>2. receiving' \in BOOLEAN /\ socket' \in {"connecting", "connected", "reset", "closed"}
    BY <1>19 DEF PeerResets
  <2> QED BY <1>19, <2>1, <2>2, Zenon DEF TypeOK, PeerResets
<1>20. CASE UNCHANGED vars
  BY <1>20, Zenon DEF TypeOK, vars
<1> QED
  BY <1>1, <1>2, <1>3, <1>4, <1>5, <1>6, <1>7, <1>8, <1>9, <1>10, <1>11, <1>12, <1>13,
     <1>14, <1>15, <1>16, <1>17, <1>18, <1>19, <1>20
  DEF Next, Owner, Write, DoClose, IoService, WriteChain, Network, Threads

\* Every variable of the client keeps its type, whatever the bounds are.
THEOREM TypeSafety == Spec => []TypeOK
<1> QED BY TypeInit, TypeNext, PTL DEF Spec
-----------------------------------------------------------------------------
(* Queues of handlers. *)

LEMMA AppendKeepsWrite ==
  ASSUME NEW queue \in Seq(Handler), NEW h \in Handler,
         Writes(queue) # {} \/ h.kind = "write"
  PROVE  Writes(Append(queue, h)) # {}
<1>1. Len(Append(queue, h)) = Len(queue) + 1 /\ Len(queue) \in Nat
  BY AppendProperties, LenProperties
<1>2. CASE Writes(queue) # {}
  <2>1. PICK i \in 1..Len(queue) : queue[i].kind = "write"
    BY <1>2 DEF Writes
  <2>2. Append(queue, h)[i] = queue[i] /\ i \in 1..Len(Append(queue, h))
    BY <1>1, AppendProperties
  <2> QED BY <2>1, <2>2 DEF Writes
<1>3. CASE h.kind = "write"
  <2>1. Append(queue, h)[Len(queue) + 1] = h /\ Len(queue) + 1 \in 1..Len(Append(queue, h))
    BY <1>1, AppendProperties
  <2> QED BY <1>3, <2>1 DEF Writes
<1> QED BY <1>2, <1>3

LEMMA TailKeepsWrite ==
  ASSUME NEW queue \in Seq(Handler), queue # <<>>, Head(queue).kind # "write",
         Writes(queue) # {}
  PROVE  Writes(Tail(queue)) # {}
<1>1. PICK i \in 1..Len(queue) : queue[i].kind = "write"
  BY DEF Writes
<1>2. i # 1
  BY <1>1, HeadTailProperties
<1>3. i - 1 \in 1..Len(Tail(queue)) /\ Tail(queue)[i - 1] = queue[i]
  BY <1>1, <1>2, HeadTailProperties
<1> QED BY <1>1, <1>3 DEF Writes

\* An error in the queue of handlers is an old one or the one just queued.
Failures(queue) == {i \in 1..Len(queue) : queue[i].error}

LEMMA AppendFailures ==
  ASSUME NEW queue \in Seq(Handler), NEW h \in Handler,
         Failures(Append(queue, h)) # {}
  PROVE  Failures(queue) # {} \/ h.error
<1>1. PICK i \in 1..Len(Append(queue, h)) : Append(queue, h)[i].error
  BY DEF Failures
<1>2. CASE i \in 1..Len(queue)
  BY <1>1, <1>2, AppendProperties DEF Failures
<1>3. CASE i = Len(queue) + 1
  BY <1>1, <1>3, AppendProperties
<1> QED BY <1>2, <1>3, AppendProperties

LEMMA TailFailures ==
  ASSUME NEW queue \in Seq(Handler), queue # <<>>, Failures(Tail(queue)) # {}
  PROVE  Failures(queue) # {}
<1>1. PICK i \in 1..Len(Tail(queue)) : Tail(queue)[i].error
  BY DEF Failures
<1>2. i + 1 \in 1..Len(queue) /\ queue[i + 1] = Tail(queue)[i]
  BY HeadTailProperties
<1> QED BY <1>1, <1>2 DEF Failures
-----------------------------------------------------------------------------
(* No lost wake-up. *)

\* An operation fails only on a connection that is gone, so handler_write
\* leaves a message behind only when nobody can send it.
FailuresMeanDown == Failures(ready) # {} => socket \in {"reset", "closed"}

\* Before the connection stands nobody has anything to do.
IdleUntilConnected ==
  socket = "connecting" => /\ mWriteBuf = <<>> /\ ready = <<>> /\ ~mOpen
                           /\ pc["main"] = "wait" /\ pc["io"] = "run"

WakeInv == TypeOK /\ FailuresMeanDown /\ IdleUntilConnected /\ NoStrandedMessage

LEMMA WakeInit == Init => WakeInv
<1> SUFFICES ASSUME Init PROVE WakeInv
  OBVIOUS
<1>1. FailuresMeanDown
  BY DEF Init, FailuresMeanDown, Failures
<1>2. IdleUntilConnected
  BY DEF Init, IdleUntilConnected, Threads
<1>3. NoStrandedMessage
  BY DEF Init, NoStrandedMessage
<1> QED BY <1>1, <1>2, <1>3, TypeInit DEF WakeInv

\* Until the connection stands, the only thing that can happen is Connect.
LEMMA ConnectingStops ==
  ASSUME TypeOK, IdleUntilConnected, [Next]_vars, socket = "connecting"
  PROVE  Connect \/ UNCHANGED vars
<1>1. ready = <<>> /\ ~mOpen /\ pc["main"] = "wait" /\ pc["io"] = "run"
  BY DEF IdleUntilConnected
<1>2. ~Owner
  BY <1>1 DEF Owner, SeesOpen, Write, WritePush, WriteFill, WriteStart, BeginClose,
              DoClose, CloseSocket, ClearOpen, DeleteThread, At
<1>3. ~IoService
  BY <1>1 DEF IoService, HandlerConnect, HandlerRead, HandlerWrite, TakeHandler, WriteChain,
              PopFront, CheckEmpty, WriteNext, AsyncReceive,
              DoClose, CloseSocket, ClearOpen, DeleteThread, At
<1>4. ~Transfer /\ ~PeerSends /\ ~PeerResets
  BY DEF Transfer, PeerSends, PeerResets
<1> QED BY <1>2, <1>3, <1>4 DEF Next, Network

LEMMA IdleNext ==
  ASSUME TypeOK, IdleUntilConnected, [Next]_vars
  PROVE  IdleUntilConnected'
<1> SUFFICES ASSUME socket' = "connecting" PROVE IdleUntilConnected'
  BY DEF IdleUntilConnected
<1>1. socket = "connecting"
  BY Zenon DEF Next, Owner, SeesOpen, Write, WritePush, WriteFill, WriteStart, BeginClose,
     DoClose, CloseSocket, ClearOpen, DeleteThread, IoService, HandlerConnect, HandlerRead,
     HandlerWrite, WriteChain, PopFront, CheckEmpty, WriteNext, AsyncReceive, Network,
     Connect, Transfer, PeerSends, PeerResets, vars
<1>2. ~Connect
  BY DEF Connect
<1>3. UNCHANGED vars
  BY <1>1, <1>2, ConnectingStops
<1> QED BY <1>3, Zenon DEF IdleUntilConnected, vars, bufferVars, asioVars

\* While the connection stands a step leaves the queue of handlers alone, takes
\* the first, or adds one that did not fail.
LEMMA QueueStep ==
  ASSUME TypeOK, [Next]_vars, socket = "connected", socket' = "connected"
  PROVE  \/ ready' = ready
         \/ ready # <<>> /\ ready' = Tail(ready)
         \/ ready' = Append(ready, Completion("read", FALSE))
         \/ ready' = Append(ready, Completion("write", FALSE))
<1> USE DEF bufferVars, asioVars, peerVars
<1>1. CASE Owner
  <2>1. \A t \in Threads : ~CloseSocket(t)
    BY DEF CloseSocket
  <2>2. WriteStart => ready' = ready
    BY DEF WriteStart, AsyncWriteFront
  <2> QED BY <1>1, <2>1, <2>2, Zenon DEF Owner, SeesOpen, Write, WritePush, WriteFill,
             BeginClose, DoClose, ClearOpen, DeleteThread, Threads
<1>2. CASE IoService
  <2>1. ~CloseSocket("io")
    BY DEF CloseSocket
  <2>2. WriteNext \/ AsyncReceive => ready' = ready
    BY DEF WriteNext, AsyncWriteFront, AsyncReceive, Receive
  <2>3. HandlerConnect => ready # <<>> /\ ready' = Tail(ready)
    BY DEF HandlerConnect, TakeHandler, Receive
  <2>4. ASSUME NEW e \in BOOLEAN, HandlerRead(e) \/ HandlerWrite(e)
        PROVE  ready # <<>> /\ ready' = Tail(ready)
    BY <2>4, Zenon DEF HandlerRead, HandlerWrite, TakeHandler
  <2> QED BY <1>2, <2>1, <2>2, <2>3, <2>4, Zenon DEF IoService, WriteChain, PopFront,
             CheckEmpty, DoClose, ClearOpen, DeleteThread
<1>3. CASE Network
  BY <1>3, Zenon DEF Network, Connect, Transfer, PeerSends, PeerResets
<1>4. CASE UNCHANGED vars
  BY <1>4 DEF vars
<1> QED BY <1>1, <1>2, <1>3, <1>4 DEF Next

\* A connection that is up after a step was up before it, or was connecting.
LEMMA DownStaysDown ==
  ASSUME TypeOK, [Next]_vars, socket' = "connected"
  PROVE  socket \in {"connecting", "connected"}
  BY Zenon DEF Next, Owner, SeesOpen, Write, WritePush, WriteFill, WriteStart, BeginClose,
     DoClose, CloseSocket, ClearOpen, DeleteThread, IoService, HandlerConnect, HandlerRead,
     HandlerWrite, WriteChain, PopFront, CheckEmpty, WriteNext, AsyncReceive, Network,
     Connect, Transfer, PeerSends, PeerResets, vars

LEMMA FailuresNext ==
  ASSUME TypeOK, FailuresMeanDown, IdleUntilConnected, [Next]_vars
  PROVE  FailuresMeanDown'
<1> SUFFICES ASSUME socket' \notin {"reset", "closed"} PROVE Failures(ready') = {}
  BY DEF FailuresMeanDown
<1>1. ready' \in Seq(Handler)
  BY TypeNext DEF TypeOK
<1>2. socket' \in {"connecting", "connected"}
  BY TypeNext DEF TypeOK
<1>3. CASE socket = "connecting"
  <2>1. ready = <<>>
    BY <1>3 DEF IdleUntilConnected
  <2>2. CASE Connect
    <3>1. ready' = <<Completion("connect", FALSE)>>
      BY <2>1, <2>2 DEF Connect
    <3> QED BY <3>1 DEF Failures, Completion
  <2>3. CASE UNCHANGED vars
    BY <2>1, <2>3 DEF vars, asioVars, Failures
  <2> QED BY <1>3, <2>2, <2>3, ConnectingStops
<1>4. CASE socket' = "connecting"
  <2>1. IdleUntilConnected'
    BY IdleNext
  <2>2. ready' = <<>>
    BY <1>4, <2>1 DEF IdleUntilConnected
  <2> QED BY <2>2 DEF Failures
<1>5. CASE socket = "connected" /\ socket' = "connected"
  <2>1. Failures(ready) = {} /\ ready \in Seq(Handler)
    BY <1>5 DEF FailuresMeanDown, TypeOK
  <2>2. CASE ready # <<>> /\ ready' = Tail(ready)
    BY <2>1, <2>2, TailFailures
  <2>3. ASSUME NEW kind \in {"read", "write"}, ready' = Append(ready, Completion(kind, FALSE))
        PROVE  Failures(ready') = {}
    <3>1. Completion(kind, FALSE) \in Handler /\ ~Completion(kind, FALSE).error
      BY DEF Completion, Handler
    <3> QED BY <2>1, <2>3, <3>1, AppendFailures
  <2>4. CASE ready' = ready
    BY <2>1, <2>4
  <2> QED BY <1>5, <2>2, <2>3, <2>4, QueueStep
<1>6. socket' = "connected" => socket \in {"connecting", "connected"}
  BY DownStaysDown
<1> QED BY <1>2, <1>3, <1>4, <1>5, <1>6

\* While the connection stands, starting a write leaves one under way.
LEMMA AsyncWriteStarts ==
  ASSUME TypeOK, AsyncWriteFront, socket = "connected", ub' = {}
  PROVE  ops' # <<>>
<1>1. mWriteBuf # <<>>
  BY DEF AsyncWriteFront
<1>2. ops' = Append(ops, [msg |-> Head(mWriteBuf).msg, left |-> Size(Head(mWriteBuf))])
  BY <1>1 DEF AsyncWriteFront
<1> QED BY <1>2, AppendProperties DEF TypeOK

LEMMA WakeNext ==
  ASSUME TypeOK, FailuresMeanDown, IdleUntilConnected, NoStrandedMessage, [Next]_vars
  PROVE  NoStrandedMessage'
<1> SUFFICES ASSUME ub' = {}, socket' = "connected", mWriteBuf' # <<>>
             PROVE  WriteChainAlive'
  BY DEF NoStrandedMessage
<1> USE DEF bufferVars, asioVars, peerVars
<1>1. socket = "connected"
  <2>1. socket # "connecting"
    <3> SUFFICES ASSUME socket = "connecting" PROVE FALSE
      OBVIOUS
    <3>1. mWriteBuf' = mWriteBuf
      BY ConnectingStops DEF Connect, vars
    <3> QED BY <3>1 DEF IdleUntilConnected
  <2> QED BY <2>1, DownStaysDown
<1>2. ready \in Seq(Handler)
  BY DEF TypeOK
<1>3. ub = {} => (mWriteBuf # <<>> => WriteChainAlive)
  BY <1>1 DEF NoStrandedMessage
<1>4. CASE Owner
  <2>1. CASE SeesOpen
    BY <1>3, <2>1 DEF SeesOpen, At, Goto, TypeOK, WriteChainAlive, Threads
  <2>2. CASE WritePush
    <3>1. pc'["main"] = "fill" /\ pc'["io"] = pc["io"]
      BY <2>2 DEF WritePush, Goto, TypeOK, Threads
    <3>2. CASE mWriteBuf = <<>>
      BY <2>2, <3>1, <3>2 DEF WritePush, WriteChainAlive
    <3>3. CASE mWriteBuf # <<>>
      BY <1>3, <2>2, <3>1, <3>3 DEF WritePush, At, WriteChainAlive
    <3> QED BY <3>2, <3>3
  <2>3. CASE WriteFill
    <3>1. pc'["main"] = (IF writeInProgress THEN "out" ELSE "start") /\ pc'["io"] = pc["io"]
      BY <2>3 DEF WriteFill, Goto, TypeOK, Threads
    <3>2. mWriteBuf # <<>>
      BY <2>3 DEF WriteFill
    <3> QED BY <1>3, <2>3, <3>1, <3>2 DEF WriteFill, At, WriteChainAlive
  <2>4. CASE WriteStart
    BY <1>1, <2>4, AsyncWriteStarts DEF WriteStart, WriteChainAlive
  <2>5. CASE BeginClose("main", "out")
    BY <1>3, <2>5 DEF BeginClose, At, Goto, TypeOK, WriteChainAlive, Threads
  <2>6. CASE CloseSocket("main")
    BY <2>6 DEF CloseSocket
  <2>7. CASE ClearOpen("main")
    BY <1>3, <2>7 DEF ClearOpen, At, Goto, TypeOK, WriteChainAlive, Threads
  <2>8. CASE DeleteThread("main")
    BY <1>3, <2>8 DEF DeleteThread, At, Goto, TypeOK, WriteChainAlive, Threads
  <2> QED BY <1>4, <2>1, <2>2, <2>3, <2>4, <2>5, <2>6, <2>7, <2>8
          DEF Owner, Write, DoClose
<1>5. CASE IoService
  <2>1. CASE HandlerConnect
    <3>1. ready # <<>> /\ Head(ready).kind # "write" /\ ready' = Tail(ready)
      BY <1>1, <2>1 DEF HandlerConnect, TakeHandler, Completion, Receive
    <3>2. Writes(ready) # {} => Writes(ready') # {}
      BY <1>2, <3>1, TailKeepsWrite
    <3> QED BY <1>3, <2>1, <3>2 DEF HandlerConnect, TakeHandler, At, WriteChainAlive
  <2>2. ASSUME NEW e \in BOOLEAN, HandlerRead(e) PROVE WriteChainAlive'
    <3>1. ready # <<>> /\ Head(ready) = Completion("read", e) /\ ready' = Tail(ready)
      BY <2>2, Zenon DEF HandlerRead, TakeHandler
    <3>2. Head(ready).kind # "write"
      BY <3>1 DEF Completion
    <3>3. Writes(ready) # {} => Writes(ready') # {}
      BY <1>2, <3>1, <3>2, TailKeepsWrite
    <3>4. pc'["main"] = pc["main"] /\ pc["io"] = "run"
      BY <2>2 DEF HandlerRead, TakeHandler, At, Goto, TypeOK, Threads
    <3> QED BY <1>3, <2>2, <3>3, <3>4 DEF HandlerRead, TakeHandler, At, WriteChainAlive
  <2>3. ASSUME NEW e \in BOOLEAN, HandlerWrite(e) PROVE WriteChainAlive'
    <3>1. ~e
      <4>1. ready # <<>> /\ Head(ready) = Completion("write", e)
        BY <2>3, Zenon DEF HandlerWrite, TakeHandler
      <4>2. Failures(ready) = {}
        BY <1>1 DEF FailuresMeanDown
      <4>3. 1 \in 1..Len(ready) /\ ready[1] = Head(ready)
        BY <1>2, <4>1, HeadTailProperties
      <4>4. ~Head(ready).error
        BY <4>2, <4>3 DEF Failures
      <4> QED BY <4>1, <4>4 DEF Completion
    <3>2. pc'["io"] = "pop"
      BY <2>3, <3>1 DEF HandlerWrite, Goto, TypeOK, Threads
    <3> QED BY <3>2 DEF WriteChainAlive
  <2>4. CASE PopFront
    <3>1. pc'["io"] = "check"
      BY <2>4 DEF PopFront, Goto, TypeOK, Threads
    <3> QED BY <3>1 DEF WriteChainAlive
  <2>5. CASE CheckEmpty
    <3>1. pc'["io"] = "front"
      BY <2>5 DEF CheckEmpty, Goto, TypeOK, Threads
    <3> QED BY <3>1 DEF WriteChainAlive
  <2>6. CASE WriteNext
    BY <1>1, <2>6, AsyncWriteStarts DEF WriteNext, WriteChainAlive
  <2>7. CASE AsyncReceive
    <3>1. ready' = ready
      BY <1>1, <2>7 DEF AsyncReceive, Receive
    <3>2. pc'["main"] = pc["main"] /\ pc["io"] \in {"callback", "callback error"}
      BY <2>7 DEF AsyncReceive, At, Goto, TypeOK, Threads
    <3> QED BY <1>3, <2>7, <3>1, <3>2 DEF AsyncReceive, At, WriteChainAlive
  <2>8. CASE CloseSocket("io")
    BY <2>8 DEF CloseSocket
  <2>9. CASE ClearOpen("io")
    BY <1>3, <2>9 DEF ClearOpen, At, Goto, TypeOK, WriteChainAlive, Threads
  <2>10. CASE DeleteThread("io")
    BY <1>3, <2>10 DEF DeleteThread, At, Goto, TypeOK, WriteChainAlive, Threads
  <2> QED BY <1>5, <2>1, <2>2, <2>3, <2>4, <2>5, <2>6, <2>7, <2>8, <2>9, <2>10
          DEF IoService, WriteChain, DoClose
<1>6. CASE Network
  <2>1. CASE Connect
    BY <1>1, <2>1 DEF Connect
  <2>2. CASE Transfer
    <3>1. CASE ready' = Append(ready, Completion("write", FALSE))
      <4>1. /\ Completion("write", FALSE) \in Handler
            /\ Completion("write", FALSE).kind = "write"
        BY DEF Completion, Handler
      <4> QED BY <1>2, <3>1, <4>1, AppendKeepsWrite DEF WriteChainAlive
    <3>2. CASE Len(ops') > 0
      <4>1. ops' # <<>>
        BY <3>2
      <4> QED BY <4>1 DEF WriteChainAlive
    <3> QED BY <1>1, <2>2, <3>1, <3>2, TransferKeepsOps
  <2>3. CASE PeerSends
    <3>1. Completion("read", FALSE) \in Handler
      BY DEF Completion, Handler
    <3>2. Writes(ready) # {} => Writes(ready') # {}
      BY <1>2, <2>3, <3>1, AppendKeepsWrite DEF PeerSends
    <3> QED BY <1>3, <2>3, <3>2 DEF PeerSends, WriteChainAlive
  <2>4. CASE PeerResets
    BY <2>4 DEF PeerResets
  <2> QED BY <1>6, <2>1, <2>2, <2>3, <2>4 DEF Network
<1>7. CASE UNCHANGED vars
  BY <1>3, <1>7 DEF vars, WriteChainAlive
<1> QED BY <1>4, <1>5, <1>6, <1>7 DEF Next

\* No lost wake-up between write() and handler_write, for any number of
\* messages: while the connection stands, a queued message always has somebody
\* who will send or pop it.
THEOREM NoLostWakeup == Spec => []NoStrandedMessage
<1>1. WakeInv /\ [Next]_vars => WakeInv'
  <2> SUFFICES ASSUME WakeInv, [Next]_vars PROVE WakeInv'
    OBVIOUS
  <2>1. TypeOK /\ FailuresMeanDown /\ IdleUntilConnected /\ NoStrandedMessage
    BY DEF WakeInv
  <2> QED BY <2>1, TypeNext, FailuresNext, IdleNext, WakeNext DEF WakeInv
<1>2. WakeInv => NoStrandedMessage
  BY DEF WakeInv
<1> QED BY WakeInit, <1>1, <1>2, PTL DEF Spec
-----------------------------------------------------------------------------
(* The lock. *)

\* write() holds mInternalMutex exactly while the last string is unfilled.
LockInv ==
  /\ mInternalMutex = "main" <=> pc["main"] = "fill"
  /\ \A i \in 1..Len(mWriteBuf) :
       ~mWriteBuf[i].filled => pc["main"] = "fill" /\ i = Len(mWriteBuf)

LEMMA LockInit == Init => LockInv
  BY DEF Init, LockInv, Threads

LEMMA LockNext ==
  ASSUME TypeOK, LockInv, [Next]_vars
  PROVE  LockInv'
<1> USE DEF bufferVars, asioVars, peerVars
<1>1. CASE WritePush
  <2>1. pc'["main"] = "fill" /\ mInternalMutex' = "main"
    BY <1>1 DEF WritePush, Goto, TypeOK, Threads
  <2>2. \A i \in 1..Len(mWriteBuf) : mWriteBuf[i].filled
    BY <1>1 DEF WritePush, At, LockInv
  <2>3. mWriteBuf \in Seq(Entry)
    BY DEF TypeOK
  <2>4. mWriteBuf' = Append(mWriteBuf, [msg |-> written', filled |-> FALSE])
    BY <1>1 DEF WritePush
  <2>5. \A i \in 1..Len(mWriteBuf') : ~mWriteBuf'[i].filled => i = Len(mWriteBuf')
    BY <2>2, <2>3, <2>4
  <2> QED BY <2>1, <2>5 DEF LockInv
<1>2. CASE WriteFill
  <2> DEFINE n == Len(mWriteBuf)
  <2>1. pc'["main"] # "fill" /\ mInternalMutex' = "free"
    BY <1>2 DEF WriteFill, Goto, TypeOK, Threads
  <2>2. mWriteBuf \in Seq(Entry)
    BY DEF TypeOK
  <2>3. mWriteBuf' = [mWriteBuf EXCEPT ![n].filled = TRUE]
    BY <1>2 DEF WriteFill
  <2>4. \A i \in 1..n : i # n => mWriteBuf[i].filled
    BY DEF LockInv
  <2>5. Len(mWriteBuf') = n
    BY <2>2, <2>3
  <2>6. ASSUME NEW i \in 1..n PROVE mWriteBuf'[i].filled
    <3>1. CASE i = n
      <4>1. mWriteBuf[n] \in Entry
        BY <2>2, <2>6, <3>1
      <4> QED BY <2>2, <2>3, <2>6, <3>1, <4>1 DEF Entry
    <3>2. CASE i # n
      BY <2>2, <2>3, <2>4, <2>6, <3>2
    <3> QED BY <3>1, <3>2
  <2> QED BY <2>1, <2>5, <2>6 DEF LockInv
<1>3. CASE PopFront
  <2>1. pc'["main"] = pc["main"] /\ pc["main"] # "fill" /\ mInternalMutex' = "free"
    BY <1>3 DEF PopFront, Goto, TypeOK, Threads, LockInv
  <2>2. \A i \in 1..Len(mWriteBuf) : mWriteBuf[i].filled
    BY <2>1 DEF LockInv
  <2>3. \A i \in 1..Len(mWriteBuf') : mWriteBuf'[i].filled
    <3>1. CASE mWriteBuf = <<>>
      BY <1>3, <2>2, <3>1 DEF PopFront
    <3>2. CASE mWriteBuf # <<>>
      <4>1. mWriteBuf' = Tail(mWriteBuf) /\ mWriteBuf \in Seq(Entry)
        BY <1>3, <3>2 DEF PopFront, TypeOK
      <4>2. \A i \in 1..Len(Tail(mWriteBuf)) :
              Tail(mWriteBuf)[i] = mWriteBuf[i + 1] /\ i + 1 \in 1..Len(mWriteBuf)
        BY <3>2, <4>1, HeadTailProperties
      <4> QED BY <2>2, <4>1, <4>2
    <3> QED BY <3>1, <3>2
  <2> QED BY <2>1, <2>3 DEF LockInv
<1>4. CASE UNCHANGED <<mWriteBuf, mInternalMutex>>
           /\ (pc'["main"] = "fill" <=> pc["main"] = "fill")
  BY <1>4 DEF LockInv
<1>5. ~WritePush /\ ~WriteFill /\ ~PopFront => UNCHANGED <<mWriteBuf, mInternalMutex>>
  BY Zenon DEF Next, Owner, SeesOpen, Write, WriteStart, BeginClose,
     DoClose, CloseSocket, ClearOpen, DeleteThread, IoService, HandlerConnect, HandlerRead,
     HandlerWrite, WriteChain, CheckEmpty, WriteNext, AsyncReceive, Network,
     Connect, Transfer, PeerSends, PeerResets, vars
<1>6. ~WritePush /\ ~WriteFill => (pc'["main"] = "fill" <=> pc["main"] = "fill")
  <2>1. Owner /\ ~WritePush /\ ~WriteFill => pc["main"] # "fill" /\ pc'["main"] # "fill"
    BY DEF Owner, SeesOpen, Write, WriteStart, BeginClose, DoClose, CloseSocket, ClearOpen,
           DeleteThread, At, Goto, TypeOK, Threads
  <2>2. IoService => pc'["main"] = pc["main"]
    BY DEF IoService, HandlerConnect, HandlerRead, HandlerWrite, WriteChain, PopFront,
           CheckEmpty, WriteNext, AsyncReceive, DoClose, CloseSocket, ClearOpen,
           DeleteThread, Goto, TypeOK, Threads
  <2>3. Network \/ UNCHANGED vars => pc' = pc
    BY Zenon DEF Network, Connect, Transfer, PeerSends, PeerResets, vars
  <2> QED BY <2>1, <2>2, <2>3 DEF Next
<1> QED BY <1>1, <1>2, <1>3, <1>4, <1>5, <1>6

\* handler_write never pops the string that write() is still filling.
THEOREM PopsAreWhole == Spec => NoTornPop
<1> DEFINE Whole == Len(mWriteBuf') < Len(mWriteBuf) => Head(mWriteBuf).filled
<1>1. TypeOK /\ LockInv /\ [Next]_vars => [Whole]_vars
  <2> SUFFICES ASSUME TypeOK, LockInv, [Next]_vars, Len(mWriteBuf') < Len(mWriteBuf)
               PROVE  Head(mWriteBuf).filled
    OBVIOUS
  <2>1. mWriteBuf \in Seq(Entry)
    BY DEF TypeOK
  <2>2. PopFront
    <3>1. ~WritePush
      <4>1. WritePush => Len(mWriteBuf') = Len(mWriteBuf) + 1
        BY <2>1, AppendProperties DEF WritePush
      <4> QED BY <2>1, <4>1
    <3>2. ~WriteFill
      <4>1. WriteFill => Len(mWriteBuf') = Len(mWriteBuf)
        BY <2>1 DEF WriteFill
      <4> QED BY <2>1, <4>1
    <3>3. mWriteBuf' # mWriteBuf
      BY <2>1
    <3> QED BY <3>1, <3>2, <3>3, Zenon DEF Next, Owner, SeesOpen, Write, WriteStart, BeginClose,
            DoClose, CloseSocket, ClearOpen, DeleteThread, IoService, HandlerConnect,
            HandlerRead, HandlerWrite, WriteChain, CheckEmpty, WriteNext, AsyncReceive,
            Network, Connect, Transfer, PeerSends, PeerResets, vars, bufferVars
  <2>3. mWriteBuf # <<>>
    <3>1. mWriteBuf' # mWriteBuf
      BY <2>1
    <3> QED BY <2>2, <3>1 DEF PopFront
  <2>4. mInternalMutex # "main"
    BY <2>2 DEF PopFront
  <2>5. mWriteBuf[1].filled
    BY <2>1, <2>3, <2>4 DEF LockInv
  <2> QED BY <2>1, <2>3, <2>5
<1>2. TypeOK /\ LockInv /\ [Next]_vars => TypeOK' /\ LockInv'
  BY TypeNext, LockNext
<1> QED BY TypeInit, LockInit, <1>1, <1>2, PTL DEF Spec, NoTornPop

-----------------------------------------------------------------------------
(* The two chains: there is one receive at a time and never none, and messages *)
(* reach the connection in the order they were written.                      *)

(* The receives in a queue of handlers. *)

LEMMA AppendReads ==
  ASSUME NEW queue \in Seq(Handler), NEW h \in Handler
  PROVE  Reads(Append(queue, h)) =
           Reads(queue) \cup (IF h.kind # "write" THEN {Len(queue) + 1} ELSE {})
<1>1. /\ Len(Append(queue, h)) = Len(queue) + 1 /\ Len(queue) \in Nat
      /\ Append(queue, h)[Len(queue) + 1] = h
      /\ \A i \in 1..Len(queue) : Append(queue, h)[i] = queue[i]
  BY AppendProperties, LenProperties
<1>2. 1..(Len(queue) + 1) = 1..Len(queue) \cup {Len(queue) + 1}
  BY <1>1
<1> QED BY <1>1, <1>2 DEF Reads

LEMMA TailReads ==
  ASSUME NEW queue \in Seq(Handler), queue # <<>>
  PROVE  Reads(queue) =
           {i + 1 : i \in Reads(Tail(queue))} \cup (IF Head(queue).kind # "write" THEN {1} ELSE {})
<1>1. /\ Len(queue) \in Nat /\ Len(queue) > 0
      /\ Len(Tail(queue)) = Len(queue) - 1
      /\ \A i \in 1..Len(Tail(queue)) : Tail(queue)[i] = queue[i + 1]
      /\ Head(queue) = queue[1]
  BY HeadTailProperties, LenProperties, EmptySeq
<1>2. ASSUME NEW i \in Reads(queue)
      PROVE  i \in {k + 1 : k \in Reads(Tail(queue))}
               \/ (i = 1 /\ Head(queue).kind # "write")
  <2>1. CASE i = 1
    BY <1>1, <1>2, <2>1 DEF Reads
  <2>2. CASE i # 1
    <3>1. i - 1 \in 1..Len(Tail(queue)) /\ queue[i].kind # "write" /\ i = (i - 1) + 1
      BY <1>1, <1>2, <2>2 DEF Reads
    <3>2. Tail(queue)[i - 1] = queue[i]
      BY <1>1, <3>1
    <3>3. i - 1 \in Reads(Tail(queue))
      BY <3>1, <3>2 DEF Reads
    <3> QED BY <3>1, <3>3
  <2> QED BY <2>1, <2>2
<1>3. \A k \in Reads(Tail(queue)) : k + 1 \in Reads(queue)
  BY <1>1 DEF Reads
<1>4. Head(queue).kind # "write" => 1 \in Reads(queue)
  BY <1>1 DEF Reads
<1> QED BY <1>2, <1>3, <1>4

LEMMA Concatenation ==
  ASSUME NEW r \in Seq(Handler), NEW s \in Seq(Handler)
  PROVE  /\ Len(r \o s) = Len(r) + Len(s)
         /\ \A i \in 1..Len(r) + Len(s) :
              (r \o s)[i] = IF i <= Len(r) THEN r[i] ELSE s[i - Len(r)]
  BY ConcatProperties

LEMMA FunctionIsSeq ==
  ASSUME NEW S, NEW n \in Nat, NEW f \in [1..n -> S]
  PROVE  f \in Seq(S) /\ Len(f) = n
<1>1. f \in Seq(S)
  BY SeqDef
<1>2. DOMAIN f = 1..n
  OBVIOUS
<1> QED BY <1>1, <1>2, LenProperties

\* What fails when the connection goes: the writes under way, and last the
\* receive if there is one.
LEMMA AbortElement ==
  ASSUME TypeOK
  PROVE  /\ Len(ready \o Aborted) = Len(ready) + Len(ops) + (IF receiving THEN 1 ELSE 0)
         /\ \A i \in 1..Len(ready \o Aborted) :
              \/ i <= Len(ready) /\ (ready \o Aborted)[i] = ready[i]
              \/ /\ i > Len(ready) /\ i <= Len(ready) + Len(ops)
                 /\ (ready \o Aborted)[i] = Completion("write", TRUE)
              \/ /\ receiving /\ i = Len(ready) + Len(ops) + 1
                 /\ (ready \o Aborted)[i] = Completion("read", TRUE)
<1> DEFINE writes == [i \in 1..Len(ops) |-> Completion("write", TRUE)]
           reads == IF receiving THEN <<Completion("read", TRUE)>> ELSE <<>>
<1>1. Len(ops) \in Nat /\ Len(ready) \in Nat /\ ready \in Seq(Handler)
  BY LenProperties DEF TypeOK
<1>2. writes \in Seq(Handler) /\ Len(writes) = Len(ops)
  <2>1. writes \in [1..Len(ops) -> Handler]
    BY CompletionIsHandler
  <2> HIDE DEF writes
  <2> QED BY <1>1, <2>1, FunctionIsSeq, Zenon
<1>3. \A i \in 1..Len(ops) : writes[i] = Completion("write", TRUE)
  OBVIOUS
<1>4. reads \in Seq(Handler)
  BY CompletionIsHandler, Singleton, EmptySeq
<1>5. Len(reads) = (IF receiving THEN 1 ELSE 0) /\ Len(reads) \in Nat
  OBVIOUS
<1>6. receiving => reads[1] = Completion("read", TRUE)
  OBVIOUS
<1>7. Aborted = writes \o reads
  BY DEF Aborted
<1> HIDE DEF writes, reads
<1>8. /\ Aborted \in Seq(Handler) /\ Len(Aborted) = Len(ops) + Len(reads)
      /\ \A i \in 1..Len(ops) + Len(reads) :
           Aborted[i] = IF i <= Len(ops) THEN writes[i] ELSE reads[i - Len(ops)]
  <2>1. /\ writes \o reads \in Seq(Handler)
        /\ Len(writes \o reads) = Len(writes) + Len(reads)
        /\ \A i \in 1..Len(writes) + Len(reads) :
             (writes \o reads)[i] = IF i <= Len(writes) THEN writes[i] ELSE reads[i - Len(writes)]
    BY <1>2, <1>4, ConcatProperties
  <2> QED BY <1>2, <1>7, <2>1
<1>9. /\ Len(ready \o Aborted) = Len(ready) + Len(Aborted)
      /\ \A i \in 1..Len(ready) + Len(Aborted) :
           (ready \o Aborted)[i] = IF i <= Len(ready) THEN ready[i] ELSE Aborted[i - Len(ready)]
  BY <1>1, <1>8, Concatenation
<1>10. Len(ready \o Aborted) = Len(ready) + Len(ops) + Len(reads)
  <2>1. Len(ready \o Aborted) = Len(ready) + (Len(ops) + Len(reads))
    BY <1>8, <1>9
  <2>2. \A a, b, c \in Nat : a + (b + c) = a + b + c
    OBVIOUS
  <2> QED BY <1>1, <1>5, <2>1, <2>2
<1>11. ASSUME NEW i \in 1..Len(ready) + Len(ops) + Len(reads)
       PROVE  \/ i <= Len(ready) /\ (ready \o Aborted)[i] = ready[i]
              \/ /\ i > Len(ready) /\ i <= Len(ready) + Len(ops)
                 /\ (ready \o Aborted)[i] = Completion("write", TRUE)
              \/ /\ receiving /\ i = Len(ready) + Len(ops) + 1
                 /\ (ready \o Aborted)[i] = Completion("read", TRUE)
  <2>1. (ready \o Aborted)[i] = IF i <= Len(ready) THEN ready[i] ELSE Aborted[i - Len(ready)]
    BY <1>9, <1>10, <1>11
  <2>2. CASE i <= Len(ready)
    BY <2>1, <2>2
  <2>3. CASE i > Len(ready) /\ i <= Len(ready) + Len(ops)
    <3>1. i - Len(ready) \in 1..Len(ops)
      BY <1>1, <1>11, <2>3
    <3>2. i - Len(ready) \in 1..Len(ops) + Len(reads) /\ i - Len(ready) <= Len(ops)
      BY <1>1, <1>5, <3>1
    <3>3. Aborted[i - Len(ready)] = writes[i - Len(ready)]
      BY <1>8, <3>2
    <3>4. ~(i <= Len(ready))
      BY <1>1, <1>11, <2>3
    <3> QED BY <1>3, <2>1, <2>3, <3>1, <3>3, <3>4
  <2>4. CASE i > Len(ready) + Len(ops)
    <3>1. receiving /\ i = Len(ready) + Len(ops) + 1 /\ i - Len(ready) - Len(ops) = 1
      BY <1>1, <1>5, <1>11, <2>4
    <3>2. i - Len(ready) \in 1..Len(ops) + Len(reads) /\ ~(i - Len(ready) <= Len(ops))
      BY <1>1, <1>5, <3>1
    <3>3. Aborted[i - Len(ready)] = reads[1]
      BY <1>8, <3>1, <3>2
    <3>4. ~(i <= Len(ready))
      BY <1>1, <1>11, <2>4
    <3> QED BY <1>6, <2>1, <3>1, <3>3, <3>4
  <2>5. \/ i <= Len(ready)
        \/ i > Len(ready) /\ i <= Len(ready) + Len(ops)
        \/ i > Len(ready) + Len(ops)
    BY <1>1, <1>11
  <2> QED BY <2>2, <2>3, <2>4, <2>5
<1> QED BY <1>5, <1>10, <1>11

LEMMA AbortReads ==
  ASSUME TypeOK
  PROVE  /\ ~receiving => Reads(ready \o Aborted) = Reads(ready)
         /\ receiving => \E n : Reads(ready \o Aborted) = Reads(ready) \cup {n}
<1> DEFINE queue == ready \o Aborted
           n == Len(ready) + Len(ops) + 1
<1>1. Len(ops) \in Nat /\ Len(ready) \in Nat
  BY LenProperties DEF TypeOK
<1>2. Completion("write", TRUE).kind = "write" /\ Completion("read", TRUE).kind # "write"
  BY DEF Completion
<1>3. /\ Len(queue) = Len(ready) + Len(ops) + (IF receiving THEN 1 ELSE 0)
      /\ \A i \in 1..Len(queue) :
           \/ i <= Len(ready) /\ queue[i] = ready[i]
           \/ /\ i > Len(ready) /\ i <= Len(ready) + Len(ops)
              /\ queue[i] = Completion("write", TRUE)
           \/ receiving /\ i = n /\ queue[i] = Completion("read", TRUE)
  BY AbortElement
<1> HIDE DEF queue
<1>4. ASSUME NEW i \in Reads(queue) PROVE i \in Reads(ready) \/ (receiving /\ i = n)
  <2>1. i \in 1..Len(queue) /\ queue[i].kind # "write"
    BY <1>4 DEF Reads
  <2>2. i >= 1 /\ i \in Nat
    BY <1>1, <1>3, <2>1
  <2>3. CASE i <= Len(ready) /\ queue[i] = ready[i]
    <3>1. i \in 1..Len(ready)
      BY <1>1, <2>2, <2>3
    <3> QED BY <2>1, <2>3, <3>1 DEF Reads
  <2>4. CASE queue[i] = Completion("write", TRUE)
    BY <1>2, <2>1, <2>4
  <2>5. CASE receiving /\ i = n
    BY <2>5
  <2> HIDE DEF n
  <2> QED BY <1>3, <2>1, <2>3, <2>4, <2>5
<1>5. ASSUME NEW i \in Reads(ready) PROVE i \in Reads(queue)
  <2>1. i \in 1..Len(ready) /\ ready[i].kind # "write"
    BY <1>5 DEF Reads
  <2>2. i \in 1..Len(queue) /\ ~(i > Len(ready)) /\ i # n
    BY <1>1, <1>3, <2>1
  <2> HIDE DEF n
  <2>3. queue[i] = ready[i]
    BY <1>3, <2>2
  <2> QED BY <2>1, <2>2, <2>3 DEF Reads
<1>6. receiving => n \in Reads(queue)
  <2> SUFFICES ASSUME receiving PROVE n \in Reads(queue)
    OBVIOUS
  <2>1. n \in 1..Len(queue) /\ ~(n <= Len(ready)) /\ ~(n <= Len(ready) + Len(ops))
    BY <1>1, <1>3
  <2> HIDE DEF n
  <2> QED BY <1>2, <1>3, <2>1 DEF Reads
<1> HIDE DEF n
<1>7. ~receiving => Reads(queue) = Reads(ready)
  BY <1>4, <1>5
<1>8. receiving => Reads(queue) = Reads(ready) \cup {n}
  BY <1>4, <1>5, <1>6
<1> QED BY <1>7, <1>8 DEF queue

-----------------------------------------------------------------------------
(* One receive at a time. *)

\* Once the io thread is in close() it never goes back to the io_service.
CloseIsLast ==
  inClose["io"] => pc["io"] \in {"close socket", "clear open", "delete thread", "closed"}

ReceiveInv == TypeOK /\ IdleUntilConnected /\ CloseIsLast /\ OneReceiveChain

LEMMA ReceiveInit == Init => ReceiveInv
<1> SUFFICES ASSUME Init PROVE ReceiveInv
  OBVIOUS
<1>1. IdleUntilConnected
  BY DEF Init, IdleUntilConnected, Threads
<1>2. CloseIsLast
  BY DEF Init, CloseIsLast, Threads
<1>3. OneReceiveChain
  BY DEF Init, OneReceiveChain, Handling, Reads, Threads
<1> QED BY TypeInit, <1>1, <1>2, <1>3 DEF ReceiveInv

\* In the client alone only the owner calls close().
LEMMA WhoCloses ==
  ASSUME TypeOK, [Next]_vars
  PROVE  inClose'["io"] = inClose["io"]
<1>1. CASE BeginClose("main", "out")
  BY <1>1 DEF BeginClose, TypeOK, Threads
<1>2. ~BeginClose("main", "out") => inClose' = inClose
  BY Zenon DEF Next, Owner, SeesOpen, Write, WritePush, WriteFill, WriteStart,
     DoClose, CloseSocket, ClearOpen, DeleteThread, IoService, HandlerConnect, HandlerRead,
     HandlerWrite, WriteChain, PopFront, CheckEmpty, WriteNext, AsyncReceive, Network,
     Connect, Transfer, PeerSends, PeerResets, vars
<1> QED BY <1>1, <1>2

\* The owner does not move the io thread.
LEMMA OwnerLeavesIo ==
  ASSUME TypeOK, Owner
  PROVE  pc'["io"] = pc["io"]
  BY DEF Owner, SeesOpen, Write, WritePush, WriteFill, WriteStart, BeginClose, DoClose,
         CloseSocket, ClearOpen, DeleteThread, Goto, TypeOK, Threads

LEMMA CloseIsLastNext ==
  ASSUME TypeOK, CloseIsLast, [Next]_vars
  PROVE  CloseIsLast'
<1>1. inClose'["io"] = inClose["io"]
  BY WhoCloses
<1>2. CASE Owner
  BY <1>1, <1>2, OwnerLeavesIo DEF CloseIsLast
<1>3. CASE IoService /\ ~DoClose("io")
  <2>1. ~inClose["io"]
    BY <1>3 DEF CloseIsLast, IoService, HandlerConnect, HandlerRead, HandlerWrite, TakeHandler,
                WriteChain, PopFront, CheckEmpty, WriteNext, AsyncReceive, At
  <2> QED BY <1>1, <2>1 DEF CloseIsLast
<1>4. CASE DoClose("io")
  BY <1>1, <1>4 DEF CloseIsLast, DoClose, CloseSocket, ClearOpen, DeleteThread, Goto,
                    TypeOK, Threads
<1>5. CASE Network \/ UNCHANGED vars
  <2>1. pc' = pc
    BY <1>5, Zenon DEF Network, Connect, Transfer, PeerSends, PeerResets, vars
  <2> QED BY <1>1, <2>1 DEF CloseIsLast
<1> QED BY <1>2, <1>3, <1>4, <1>5 DEF Next

\* Starting a write adds no receive.
LEMMA AsyncWriteReads ==
  ASSUME TypeOK, AsyncWriteFront
  PROVE  Reads(ready') = Reads(ready)
<1>1. ready \in Seq(Handler)
  BY DEF TypeOK
<1>2. /\ Completion("write", TRUE) \in Handler
      /\ Completion("write", TRUE).kind = "write"
  BY DEF Completion, Handler
<1>3. Reads(Append(ready, Completion("write", TRUE))) = Reads(ready)
  BY <1>1, <1>2, AppendReads
<1>4. ready' = ready \/ ready' = Append(ready, Completion("write", TRUE))
  BY DEF AsyncWriteFront
<1> QED BY <1>3, <1>4

\* When the connection goes, the receive under way becomes a completed one.
LEMMA AbortKeepsChain ==
  ASSUME TypeOK, OneReceiveChain, socket # "connecting", socket' # "connecting",
         ready' = ready \o Aborted, receiving' = FALSE, Handling' <=> Handling
  PROVE  OneReceiveChain'
<1>1. CASE receiving
  <2>1. Reads(ready) = {} /\ ~Handling
    BY <1>1 DEF OneReceiveChain
  <2>2. PICK n : Reads(ready') = {n}
    BY <1>1, <2>1, AbortReads
  <2> QED BY <2>1, <2>2 DEF OneReceiveChain
<1>2. CASE ~receiving
  <2>1. Reads(ready') = Reads(ready)
    BY <1>2, AbortReads
  <2> QED BY <1>2, <2>1 DEF OneReceiveChain
<1> QED BY <1>1, <1>2

LEMMA ReceiveNext ==
  ASSUME TypeOK, IdleUntilConnected, CloseIsLast, OneReceiveChain, [Next]_vars
  PROVE  OneReceiveChain'
<1> USE DEF bufferVars, asioVars, peerVars
<1>1. ready \in Seq(Handler)
  BY DEF TypeOK
<1>2. inClose'["io"] = inClose["io"]
  BY WhoCloses
<1>3. ASSUME Handling' <=> Handling, receiving' = receiving, Reads(ready') = Reads(ready),
             socket' = "connecting" <=> socket = "connecting"
      PROVE  OneReceiveChain'
  BY <1>3 DEF OneReceiveChain
<1>4. CASE Connect
  <2>1. ready = <<>> /\ Reads(ready) = {} /\ ~receiving /\ ~Handling
    BY <1>4 DEF Connect, IdleUntilConnected, OneReceiveChain
  <2>2. ready' = <<Completion("connect", FALSE)>> /\ ~receiving' /\ socket' = "connected"
    BY <1>4, <2>1 DEF Connect
  <2>3. Reads(ready') = {1}
    BY <2>2 DEF Reads, Completion
  <2>4. ~Handling'
    BY <1>4, <2>1 DEF Connect, Handling
  <2> QED BY <2>2, <2>3, <2>4 DEF OneReceiveChain
<1>5. CASE Owner
  <2>1. pc'["io"] = pc["io"]
    BY <1>5, OwnerLeavesIo
  <2>2. Handling' <=> Handling
    BY <1>2, <2>1 DEF Handling
  <2>3. CASE CloseSocket("main")
    <3>1. socket # "connecting"
      BY <2>3 DEF CloseSocket, IdleUntilConnected, At
    <3> QED BY <2>2, <2>3, <3>1, AbortKeepsChain DEF CloseSocket
  <2>4. CASE WriteStart
    <3>1. Reads(ready') = Reads(ready)
      BY <2>4, AsyncWriteReads DEF WriteStart
    <3> QED BY <1>3, <2>2, <2>4, <3>1 DEF WriteStart
  <2>5. CASE ~CloseSocket("main") /\ ~WriteStart
    <3>1. receiving' = receiving /\ ready' = ready /\ socket' = socket
      BY <1>5, <2>5, Zenon DEF Owner, SeesOpen, Write, WritePush, WriteFill, BeginClose,
         DoClose, ClearOpen, DeleteThread
    <3> QED BY <1>3, <2>2, <3>1
  <2> QED BY <2>3, <2>4, <2>5
<1>6. CASE IoService
  <2>1. socket # "connecting"
    <3>1. socket = "connecting" => Connect \/ UNCHANGED vars
      BY ConnectingStops
    <3>2. socket = "connecting" => ready = <<>> /\ pc["io"] = "run"
      BY DEF IdleUntilConnected
    <3> QED BY <1>6, <3>2 DEF IoService, HandlerConnect, HandlerRead, HandlerWrite, TakeHandler,
            WriteChain, PopFront, CheckEmpty, WriteNext, AsyncReceive,
            DoClose, CloseSocket, ClearOpen, DeleteThread, At
  <2>2. CASE HandlerConnect
    <3>1. ready # <<>> /\ Head(ready).kind # "write" /\ pc' = pc /\ socket' = socket
          /\ inClose' = inClose
      BY <2>2 DEF HandlerConnect, TakeHandler, Completion
    <3>2. Reads(Tail(ready)) = {} /\ ~receiving /\ ~Handling
      <4>1. 1 \in Reads(ready)
        BY <1>1, <3>1, TailReads
      <4>2. ASSUME NEW i \in Reads(Tail(ready)) PROVE FALSE
        <5>1. i + 1 \in Reads(ready) /\ i \in Nat /\ i > 0
          BY <1>1, <3>1, TailReads, HeadTailProperties DEF Reads
        <5> QED BY <4>1, <5>1 DEF OneReceiveChain
      <4> QED BY <4>1, <4>2 DEF OneReceiveChain
    <3>3. ~Handling'
      BY <3>1, <3>2 DEF Handling
    <3>4. Receive(Tail(ready))
      BY <2>2 DEF HandlerConnect
    <3> QED
      <4>1. CASE socket = "connected"
        <5>1. receiving' /\ Reads(ready') = {}
          BY <3>2, <3>4, <4>1 DEF Receive
        <5> QED BY <2>1, <3>1, <3>3, <5>1 DEF OneReceiveChain
      <4>2. CASE socket # "connected"
        <5>1. ~receiving' /\ ready' = Append(Tail(ready), Completion("read", TRUE))
          BY <3>2, <3>4, <4>2 DEF Receive
        <5>2. Tail(ready) \in Seq(Handler)
          BY <1>1, <3>1, HeadTailProperties
        <5>3. Completion("read", TRUE) \in Handler /\ Completion("read", TRUE).kind # "write"
          BY DEF Completion, Handler
        <5>4. Reads(ready') = {Len(Tail(ready)) + 1}
          BY <3>2, <5>1, <5>2, <5>3, AppendReads
        <5> QED BY <2>1, <3>1, <3>3, <5>1, <5>4 DEF OneReceiveChain
      <4> QED BY <4>1, <4>2
  <2>3. ASSUME NEW e \in BOOLEAN, HandlerRead(e) PROVE OneReceiveChain'
    <3>1. ready # <<>> /\ Head(ready) = Completion("read", e) /\ ready' = Tail(ready)
      BY <2>3, Zenon DEF HandlerRead, TakeHandler
    <3>2. Head(ready).kind # "write"
      BY <3>1 DEF Completion
    <3>3. 1 \in Reads(ready)
      BY <1>1, <3>1, <3>2, TailReads
    <3>4. ASSUME NEW i \in Reads(Tail(ready)) PROVE FALSE
      <4>1. i + 1 \in Reads(ready) /\ i \in Nat /\ i > 0
        BY <1>1, <3>1, TailReads, HeadTailProperties DEF Reads
      <4> QED BY <3>3, <4>1 DEF OneReceiveChain
    <3>5. ~receiving
      BY <3>3 DEF OneReceiveChain
    <3>6. Handling'
      BY <2>3 DEF HandlerRead, Goto, Handling, TypeOK, Threads
    <3>7. receiving' = receiving /\ socket' = socket
      BY <2>3, Zenon DEF HandlerRead
    <3> QED BY <2>1, <3>1, <3>4, <3>5, <3>6, <3>7 DEF OneReceiveChain
  <2>4. CASE AsyncReceive
    <3>1. Handling
      BY <2>4 DEF AsyncReceive, At, Handling
    <3>2. ~receiving /\ Reads(ready) = {}
      BY <3>1 DEF OneReceiveChain
    <3>3. ~Handling' /\ socket' = socket
      BY <1>2, <2>4 DEF AsyncReceive, At, Goto, Handling, CloseIsLast, TypeOK, Threads
    <3>4. CASE socket = "connected"
      <4>1. receiving' /\ ready' = ready
        BY <2>4, <3>4 DEF AsyncReceive, Receive
      <4> QED BY <2>1, <3>2, <3>3, <4>1 DEF OneReceiveChain
    <3>5. CASE socket # "connected"
      <4>1. ~receiving' /\ ready' = Append(ready, Completion("read", TRUE))
        BY <2>4, <3>2, <3>5 DEF AsyncReceive, Receive
      <4>2. Completion("read", TRUE) \in Handler /\ Completion("read", TRUE).kind # "write"
        BY DEF Completion, Handler
      <4>3. Reads(ready') = {Len(ready) + 1}
        BY <1>1, <3>2, <4>1, <4>2, AppendReads
      <4> QED BY <2>1, <3>3, <4>1, <4>3 DEF OneReceiveChain
    <3> QED BY <3>4, <3>5
  <2>5. ASSUME NEW e \in BOOLEAN, HandlerWrite(e) PROVE OneReceiveChain'
    <3>1. ready # <<>> /\ Head(ready) = Completion("write", e) /\ ready' = Tail(ready)
      BY <2>5, Zenon DEF HandlerWrite, TakeHandler
    <3>2. Head(ready).kind = "write"
      BY <3>1 DEF Completion
    <3>3. Reads(ready) = {i + 1 : i \in Reads(Tail(ready))}
      BY <1>1, <3>1, <3>2, TailReads
    <3>4. \A i \in Reads(Tail(ready)) : i \in Nat
      BY <1>1, <3>1, HeadTailProperties DEF Reads
    <3>5. ASSUME NEW i \in Reads(ready'), NEW j \in Reads(ready') PROVE i = j
      <4>1. i + 1 \in Reads(ready) /\ j + 1 \in Reads(ready)
        BY <3>1, <3>3
      <4> QED BY <3>1, <3>4, <4>1 DEF OneReceiveChain
    <3>6. Reads(ready') = {} <=> Reads(ready) = {}
      BY <3>1, <3>3
    <3>7. ~(pc["io"] \in {"callback", "callback error"})
          /\ ~(pc'["io"] \in {"callback", "callback error"})
      BY <2>5 DEF HandlerWrite, TakeHandler, At, Goto, TypeOK, Threads
    <3>8. Handling' <=> Handling
      BY <1>2, <3>7 DEF Handling
    <3>9. receiving' = receiving /\ socket' = socket
      BY <2>5, Zenon DEF HandlerWrite
    <3> QED BY <3>5, <3>6, <3>8, <3>9 DEF OneReceiveChain
  <2>6. CASE PopFront \/ CheckEmpty \/ WriteNext \/ DoClose("io")
    <3>1. pc["io"] \notin {"callback", "callback error"}
          /\ pc'["io"] \notin {"callback", "callback error"}
      BY <2>6 DEF PopFront, CheckEmpty, WriteNext, DoClose, CloseSocket, ClearOpen,
                  DeleteThread, At, Goto, TypeOK, Threads
    <3>2. Handling' <=> Handling
      BY <1>2, <3>1 DEF Handling
    <3>3. CASE CloseSocket("io")
      BY <2>1, <3>2, <3>3, AbortKeepsChain DEF CloseSocket
    <3>4. CASE WriteNext
      <4>1. Reads(ready') = Reads(ready)
        BY <3>4, AsyncWriteReads DEF WriteNext
      <4> QED BY <1>3, <3>2, <3>4, <4>1 DEF WriteNext
    <3>5. CASE PopFront \/ CheckEmpty \/ ClearOpen("io") \/ DeleteThread("io")
      <4>1. receiving' = receiving /\ ready' = ready /\ socket' = socket
        BY <3>5, Zenon DEF PopFront, CheckEmpty, ClearOpen, DeleteThread
      <4> QED BY <1>3, <3>2, <4>1
    <3> QED BY <2>6, <3>3, <3>4, <3>5 DEF DoClose
  <2> QED BY <1>6, <2>2, <2>3, <2>4, <2>5, <2>6 DEF IoService, WriteChain
<1>7. CASE Transfer
  <2>1. ready' = ready \/ ready' = Append(ready, Completion("write", FALSE))
    BY <1>7, TransferKeepsOps
  <2>2. Completion("write", FALSE) \in Handler /\ Completion("write", FALSE).kind = "write"
    BY DEF Completion, Handler
  <2>3. Reads(ready') = Reads(ready)
    BY <1>1, <2>1, <2>2, AppendReads
  <2>4. Handling' <=> Handling
    BY <1>7 DEF Transfer, Handling
  <2> QED BY <1>3, <1>7, <2>3, <2>4 DEF Transfer
<1>8. CASE PeerSends
  <2>1. Reads(ready) = {} /\ ~Handling /\ socket # "connecting"
    BY <1>8 DEF PeerSends, OneReceiveChain
  <2>2. /\ ~receiving' /\ ready' = Append(ready, Completion("read", FALSE))
        /\ socket' = socket /\ (Handling' <=> Handling)
    BY <1>8 DEF PeerSends, Handling
  <2>3. Completion("read", FALSE) \in Handler /\ Completion("read", FALSE).kind # "write"
    BY DEF Completion, Handler
  <2>4. Reads(ready') = {Len(ready) + 1}
    BY <1>1, <2>1, <2>2, <2>3, AppendReads
  <2> QED BY <2>1, <2>2, <2>4 DEF OneReceiveChain
<1>9. CASE PeerResets
  <2>1. socket # "connecting" /\ socket' # "connecting" /\ (Handling' <=> Handling)
    BY <1>9 DEF PeerResets, Handling
  <2> QED BY <1>9, <2>1, AbortKeepsChain DEF PeerResets
<1>10. CASE UNCHANGED vars
  BY <1>3, <1>10 DEF vars, Handling
<1> QED BY <1>4, <1>5, <1>6, <1>7, <1>8, <1>9, <1>10 DEF Next, Network

\* Once connected exactly one receive is under way, completed or being handled,
\* whatever fails: the answers and the hang-up of the peer are always noticed.
THEOREM ReceivesNeverStop == Spec => []OneReceiveChain
<1>1. ReceiveInv /\ [Next]_vars => ReceiveInv'
  <2> SUFFICES ASSUME ReceiveInv, [Next]_vars PROVE ReceiveInv'
    OBVIOUS
  <2>1. TypeOK /\ IdleUntilConnected /\ CloseIsLast /\ OneReceiveChain
    BY DEF ReceiveInv
  <2> QED BY <2>1, TypeNext, IdleNext, CloseIsLastNext, ReceiveNext DEF ReceiveInv
<1>2. ReceiveInv => OneReceiveChain
  BY DEF ReceiveInv
<1> QED BY ReceiveInit, <1>1, <1>2, PTL DEF Spec
-----------------------------------------------------------------------------
(* Messages in order. *)

\* What is sent from now on is m or was written after it.
Past(m) == m <= written /\ \A k \in 1..Len(mWriteBuf) : m <= mWriteBuf[k].msg

QueueInOrder ==
  /\ \A k \in 1..Len(mWriteBuf) : mWriteBuf[k].msg <= written
  /\ \A j, k \in 1..Len(mWriteBuf) : j < k => mWriteBuf[j].msg <= mWriteBuf[k].msg

\* Several writes may be under way: those that have not begun wait in order,
\* behind what is on the connection.
OpsInOrder ==
  /\ \A i \in 1..Len(ops) : Past(ops[i].msg)
  /\ \A i, j \in 1..Len(ops) :
       i < j /\ ops[i].left = Pieces /\ ops[j].left = Pieces => ops[i].msg <= ops[j].msg

WireInOrder ==
  /\ \A i \in 1..Len(wire) : Past(wire[i].msg)
  /\ \A i \in 1..Len(wire), j \in 1..Len(ops) :
       wire[i].piece = 1 /\ ops[j].left = Pieces => wire[i].msg <= ops[j].msg

OrderInv == QueueInOrder /\ OpsInOrder /\ WireInOrder /\ NoOvertaking

LEMMA OrderInit == Init => OrderInv
  BY DEF Init, OrderInv, QueueInOrder, OpsInOrder, WireInOrder, NoOvertaking

LEMMA AppendElement ==
  ASSUME NEW S, NEW s \in Seq(S), NEW e \in S, NEW i \in 1..Len(Append(s, e))
  PROVE  \/ i \in 1..Len(s) /\ Append(s, e)[i] = s[i]
         \/ i = Len(s) + 1 /\ Append(s, e)[i] = e
  BY AppendProperties, LenProperties

LEMMA TailElement ==
  ASSUME NEW S, NEW s \in Seq(S), s # <<>>, NEW i \in 1..Len(Tail(s))
  PROVE  i + 1 \in 1..Len(s) /\ Tail(s)[i] = s[i + 1]
  BY HeadTailProperties, LenProperties

LEMMA HeadIsFirst ==
  ASSUME NEW S, NEW s \in Seq(S), s # <<>>
  PROVE  1 \in 1..Len(s) /\ Head(s) = s[1]
  BY HeadTailProperties, LenProperties, EmptySeq

\* The numbers of messages are naturals.
LEMMA MessagesAreNumbers ==
  ASSUME TypeOK
  PROVE  /\ written \in Nat /\ MaxWrites \in Nat
         /\ \A k \in 1..Len(mWriteBuf) : mWriteBuf[k].msg \in Nat
         /\ \A i \in 1..Len(ops) : ops[i].msg \in Nat /\ ops[i].left \in 0..Pieces
         /\ \A i \in 1..Len(wire) : wire[i].msg \in Nat /\ wire[i].piece \in 1..Pieces
<1>1. written \in Nat /\ MaxWrites \in Nat
  BY BoundsAssumption DEF TypeOK
<1>2. ASSUME NEW k \in 1..Len(mWriteBuf) PROVE mWriteBuf[k].msg \in Nat
  <2>1. mWriteBuf[k] \in Entry
    BY ElementOfSeq DEF TypeOK
  <2> QED BY <2>1 DEF Entry
<1>3. ASSUME NEW i \in 1..Len(ops) PROVE ops[i].msg \in Nat /\ ops[i].left \in 0..Pieces
  <2>1. ops[i] \in WriteOp
    BY ElementOfSeq DEF TypeOK
  <2> QED BY <2>1 DEF WriteOp
<1>4. ASSUME NEW i \in 1..Len(wire) PROVE wire[i].msg \in Nat /\ wire[i].piece \in 1..Pieces
  <2>1. wire[i] \in Sent
    BY ElementOfSeq DEF TypeOK
  <2> QED BY <2>1 DEF Sent
<1> QED BY <1>1, <1>2, <1>3, <1>4

\* A step of the queue of messages leaves it in order, and what is past stays past.
QueueStepInOrder ==
  QueueInOrder' /\ \A m \in Nat : Past(m) => (Past(m))'

LEMMA PushInOrder ==
  ASSUME TypeOK, QueueInOrder, WritePush
  PROVE  QueueStepInOrder
<1> DEFINE e == [msg |-> written + 1, filled |-> FALSE]
<1>1. mWriteBuf \in Seq(Entry)
  BY DEF TypeOK
<1>2. e \in Entry
  BY MessagesAreNumbers DEF Entry, WritePush, TypeOK
<1>3. mWriteBuf' = Append(mWriteBuf, e) /\ written' = written + 1
  BY DEF WritePush
<1>4. Len(mWriteBuf) \in Nat
  BY <1>1, LenProperties
<1>5. ASSUME NEW k \in 1..Len(mWriteBuf')
      PROVE  \/ k \in 1..Len(mWriteBuf) /\ mWriteBuf'[k].msg = mWriteBuf[k].msg
             \/ k = Len(mWriteBuf) + 1 /\ mWriteBuf'[k].msg = written + 1
  <2>1. \/ k \in 1..Len(mWriteBuf) /\ mWriteBuf'[k] = mWriteBuf[k]
        \/ k = Len(mWriteBuf) + 1 /\ mWriteBuf'[k] = e
    BY <1>1, <1>2, <1>3, <1>5, AppendElement
  <2> QED BY <2>1
<1> HIDE DEF e
<1>6. QueueInOrder'
  <2>1. ASSUME NEW k \in 1..Len(mWriteBuf') PROVE mWriteBuf'[k].msg <= written'
    BY <1>3, <1>5, MessagesAreNumbers DEF QueueInOrder
  <2>2. ASSUME NEW j \in 1..Len(mWriteBuf'), NEW k \in 1..Len(mWriteBuf'), j < k
        PROVE  mWriteBuf'[j].msg <= mWriteBuf'[k].msg
    <3>1. j \in 1..Len(mWriteBuf) /\ mWriteBuf'[j].msg = mWriteBuf[j].msg
      <4>1. k <= Len(mWriteBuf) + 1
        BY <1>4, <1>5
      <4> QED BY <1>4, <1>5, <2>2, <4>1
    <3>2. mWriteBuf[j].msg <= written /\ mWriteBuf[j].msg \in Nat
      BY <3>1, MessagesAreNumbers DEF QueueInOrder
    <3>3. CASE k = Len(mWriteBuf) + 1 /\ mWriteBuf'[k].msg = written + 1
      BY <3>1, <3>2, <3>3, MessagesAreNumbers
    <3>4. CASE k \in 1..Len(mWriteBuf) /\ mWriteBuf'[k].msg = mWriteBuf[k].msg
      BY <2>2, <3>1, <3>4 DEF QueueInOrder
    <3> QED BY <1>5, <3>3, <3>4
  <2> QED BY <2>1, <2>2 DEF QueueInOrder
<1>7. ASSUME NEW m \in Nat, Past(m) PROVE (Past(m))'
  <2>1. m <= written'
    BY <1>3, <1>7, MessagesAreNumbers DEF Past
  <2>2. ASSUME NEW k \in 1..Len(mWriteBuf') PROVE m <= mWriteBuf'[k].msg
    BY <1>3, <1>5, <1>7, <2>1 DEF Past
  <2> QED BY <2>1, <2>2 DEF Past
<1> QED BY <1>6, <1>7 DEF QueueStepInOrder

LEMMA FillInOrder ==
  ASSUME TypeOK, QueueInOrder, WriteFill
  PROVE  QueueStepInOrder
<1> DEFINE n == Len(mWriteBuf)
<1>1. mWriteBuf \in Seq(Entry) /\ written' = written
  BY DEF TypeOK, WriteFill, bufferVars
<1>2. mWriteBuf' = [mWriteBuf EXCEPT ![n].filled = TRUE]
  BY DEF WriteFill
<1>3. Len(mWriteBuf') = n
  BY <1>1, <1>2
<1>4. ASSUME NEW k \in 1..n PROVE mWriteBuf'[k].msg = mWriteBuf[k].msg
  <2>1. mWriteBuf[k] \in Entry
    BY <1>1, ElementOfSeq
  <2> QED BY <1>1, <1>2, <2>1 DEF Entry
<1> HIDE DEF n
<1>5. QueueInOrder'
  BY <1>1, <1>3, <1>4 DEF QueueInOrder, n
<1>6. \A m \in Nat : Past(m) => (Past(m))'
  BY <1>1, <1>3, <1>4 DEF Past, n
<1> QED BY <1>5, <1>6 DEF QueueStepInOrder

LEMMA PopInOrder ==
  ASSUME TypeOK, QueueInOrder, PopFront
  PROVE  QueueStepInOrder
<1>1. mWriteBuf \in Seq(Entry) /\ written' = written
  BY DEF TypeOK, PopFront
<1>2. CASE mWriteBuf = <<>>
  <2>1. mWriteBuf' = mWriteBuf
    BY <1>2 DEF PopFront
  <2> QED BY <1>1, <2>1 DEF QueueStepInOrder, QueueInOrder, Past
<1>3. CASE mWriteBuf # <<>>
  <2>1. mWriteBuf' = Tail(mWriteBuf)
    BY <1>3 DEF PopFront
  <2>2. ASSUME NEW k \in 1..Len(mWriteBuf')
        PROVE  k + 1 \in 1..Len(mWriteBuf) /\ mWriteBuf'[k] = mWriteBuf[k + 1]
    BY <1>1, <1>3, <2>1, <2>2, TailElement
  <2>3. QueueInOrder'
    <3>1. ASSUME NEW j \in 1..Len(mWriteBuf'), NEW k \in 1..Len(mWriteBuf'), j < k
          PROVE  mWriteBuf'[j].msg <= mWriteBuf'[k].msg
      <4>1. j + 1 < k + 1
        BY <3>1
      <4> QED BY <2>2, <4>1 DEF QueueInOrder
    <3>2. ASSUME NEW k \in 1..Len(mWriteBuf') PROVE mWriteBuf'[k].msg <= written'
      BY <1>1, <2>2 DEF QueueInOrder
    <3> QED BY <3>1, <3>2 DEF QueueInOrder
  <2>4. \A m \in Nat : Past(m) => (Past(m))'
    BY <1>1, <2>2 DEF Past
  <2> QED BY <2>3, <2>4 DEF QueueStepInOrder
<1> QED BY <1>2, <1>3

\* A write that starts is for the oldest message of the queue, behind all
\* that was started before.
LEMMA StartInOrder ==
  ASSUME TypeOK, OrderInv, AsyncWriteFront, UNCHANGED <<bufferVars, wire>>
  PROVE  OrderInv'
<1> USE DEF bufferVars
<1> DEFINE op == [msg |-> Head(mWriteBuf).msg, left |-> Size(Head(mWriteBuf))]
<1>1. \A m : Past(m) <=> (Past(m))'
  BY DEF Past
<1>2. QueueInOrder' /\ NoOvertaking'
  BY DEF OrderInv, QueueInOrder, NoOvertaking
<1>3. CASE ops' = ops
  BY <1>1, <1>2, <1>3 DEF OrderInv, OpsInOrder, WireInOrder
<1>4. CASE mWriteBuf # <<>> /\ ops' = Append(ops, op)
  <2>1. mWriteBuf \in Seq(Entry) /\ ops \in Seq(WriteOp)
    BY DEF TypeOK
  <2>2. 1 \in 1..Len(mWriteBuf) /\ op.msg = mWriteBuf[1].msg /\ op.msg \in Nat
    BY <1>4, <2>1, HeadIsFirst, MessagesAreNumbers
  <2>3. op \in WriteOp
    <3>1. Head(mWriteBuf) \in Entry
      BY <1>4, <2>1, HeadTailProperties
    <3> QED BY <3>1, BoundsAssumption DEF Entry, WriteOp, Size
  <2>4. ASSUME NEW i \in 1..Len(ops')
        PROVE  \/ i \in 1..Len(ops) /\ ops'[i] = ops[i]
               \/ i = Len(ops) + 1 /\ ops'[i] = op
    BY <1>4, <2>1, <2>3, <2>4, AppendElement
  <2>5. Past(op.msg)
    <3>1. op.msg <= written
      BY <2>2 DEF OrderInv, QueueInOrder
    <3>2. ASSUME NEW k \in 1..Len(mWriteBuf) PROVE op.msg <= mWriteBuf[k].msg
      BY <2>2 DEF OrderInv, QueueInOrder
    <3> QED BY <3>1, <3>2 DEF Past
  <2>6. \A m : Past(m) => m <= op.msg
    BY <2>2 DEF Past
  <2> HIDE DEF op
  <2>7. ASSUME NEW i \in 1..Len(ops') PROVE (Past(ops[i].msg))'
    BY <1>1, <2>4, <2>5 DEF OrderInv, OpsInOrder
  <2>8. ASSUME NEW i \in 1..Len(ops'), NEW j \in 1..Len(ops'), i < j,
               ops'[i].left = Pieces, ops'[j].left = Pieces
        PROVE  ops'[i].msg <= ops'[j].msg
    <3>1. Len(ops) \in Nat
      BY <2>1, LenProperties
    <3>2. i \in 1..Len(ops) /\ ops'[i] = ops[i]
      BY <2>4, <2>8, <3>1
    <3>3. CASE j \in 1..Len(ops) /\ ops'[j] = ops[j]
      BY <2>8, <3>2, <3>3 DEF OrderInv, OpsInOrder
    <3>4. CASE ops'[j] = op
      BY <2>6, <3>2, <3>4 DEF OrderInv, OpsInOrder
    <3> QED BY <2>4, <3>3, <3>4
  <2>9. ASSUME NEW i \in 1..Len(wire'), NEW j \in 1..Len(ops'),
               wire'[i].piece = 1, ops'[j].left = Pieces
        PROVE  wire'[i].msg <= ops'[j].msg
    <3>1. wire' = wire
      OBVIOUS
    <3>2. CASE j \in 1..Len(ops) /\ ops'[j] = ops[j]
      BY <2>9, <3>1, <3>2 DEF OrderInv, WireInOrder
    <3>3. CASE ops'[j] = op
      BY <2>6, <2>9, <3>1, <3>3 DEF OrderInv, WireInOrder
    <3> QED BY <2>4, <3>2, <3>3
  <2>10. ASSUME NEW i \in 1..Len(wire') PROVE (Past(wire[i].msg))'
    BY <1>1, <2>10 DEF OrderInv, WireInOrder
  <2>11. OpsInOrder' /\ WireInOrder'
    BY <2>7, <2>8, <2>9, <2>10 DEF OpsInOrder, WireInOrder
  <2> QED BY <1>2, <2>11 DEF OrderInv
<1> QED BY <1>3, <1>4 DEF AsyncWriteFront

\* A piece sent is of the write that has waited longest.
LEMMA TransferInOrder ==
  ASSUME TypeOK, OrderInv, Transfer
  PROVE  OrderInv'
<1> USE DEF bufferVars
<1> DEFINE op == Head(ops)
           rest == [op EXCEPT !.left = @ - 1]
           piece == [msg |-> op.msg, piece |-> Pieces - op.left + 1]
<1>1. ops \in Seq(WriteOp) /\ ops # <<>> /\ wire \in Seq(Sent)
  BY Zenon DEF TypeOK, Transfer
<1>2. op = ops[1] /\ 1 \in 1..Len(ops) /\ op \in WriteOp
  BY <1>1, HeadIsFirst, HeadTailProperties
<1>3. op.msg \in 1..MaxWrites /\ op.left \in 0..Pieces
  BY <1>2 DEF WriteOp
<1>4. \A m : Past(m) <=> (Past(m))'
  BY DEF Past, Transfer
<1>5. QueueInOrder'
  BY DEF OrderInv, QueueInOrder, Transfer
<1>6. CASE ops' = ops /\ wire' = wire
  BY <1>4, <1>5, <1>6 DEF OrderInv, OpsInOrder, WireInOrder, NoOvertaking
<1>7. CASE /\ wire' = (IF op.left = 0 THEN wire ELSE Append(wire, piece))
           /\ \/ op.left <= 1 /\ ops' = Tail(ops)
              \/ ~(op.left <= 1) /\ ops' = Append(Tail(ops), rest)
  <2>1. Tail(ops) \in Seq(WriteOp)
    BY <1>1, HeadTailProperties
  <2>2. ~(op.left <= 1) => rest \in WriteOp /\ rest.msg = op.msg /\ rest.left # Pieces
    BY <1>2, <1>3, BoundsAssumption DEF WriteOp
  <2>3. op.left # 0 => piece \in Sent
    BY <1>3, BoundsAssumption DEF Sent
  <2>4. piece.msg = op.msg /\ (piece.piece = 1 => op.left = Pieces)
    BY <1>3, BoundsAssumption
  <2> HIDE DEF op, rest, piece
  <2>5. ASSUME NEW i \in 1..Len(ops')
        PROVE  \/ i + 1 \in 1..Len(ops) /\ i \in 1..Len(Tail(ops)) /\ ops'[i] = ops[i + 1]
               \/ i = Len(Tail(ops)) + 1 /\ ops'[i].msg = op.msg /\ ops'[i].left # Pieces
    <3>1. CASE ops' = Tail(ops)
      BY <1>1, <2>5, <3>1, TailElement
    <3>2. CASE ~(op.left <= 1) /\ ops' = Append(Tail(ops), rest)
      <4>1. \/ i \in 1..Len(Tail(ops)) /\ ops'[i] = Tail(ops)[i]
            \/ i = Len(Tail(ops)) + 1 /\ ops'[i] = rest
        BY <2>1, <2>2, <2>5, <3>2, AppendElement
      <4>2. CASE i \in 1..Len(Tail(ops)) /\ ops'[i] = Tail(ops)[i]
        BY <1>1, <4>2, TailElement
      <4>3. CASE i = Len(Tail(ops)) + 1 /\ ops'[i] = rest
        BY <2>2, <3>2, <4>3
      <4> QED BY <4>1, <4>2, <4>3
    <3> QED BY <1>7, <3>1, <3>2
  <2>6. ASSUME NEW i \in 1..Len(wire')
        PROVE  \/ i \in 1..Len(wire) /\ wire'[i] = wire[i]
               \/ i = Len(wire) + 1 /\ wire'[i] = piece
    <3>1. CASE wire' = wire
      BY <2>6, <3>1
    <3>2. CASE op.left # 0 /\ wire' = Append(wire, piece)
      BY <1>1, <2>3, <2>6, <3>2, AppendElement
    <3> QED BY <1>7, <3>1, <3>2
  <2>7. ASSUME NEW i \in 1..Len(ops') PROVE (Past(ops[i].msg))'
    BY <1>2, <1>4, <2>5 DEF OrderInv, OpsInOrder
  <2>8. ASSUME NEW i \in 1..Len(ops'), NEW j \in 1..Len(ops'), i < j,
               ops'[i].left = Pieces, ops'[j].left = Pieces
        PROVE  ops'[i].msg <= ops'[j].msg
    <3>1. /\ i + 1 \in 1..Len(ops) /\ ops'[i] = ops[i + 1]
          /\ j + 1 \in 1..Len(ops) /\ ops'[j] = ops[j + 1]
      BY <2>5, <2>8
    <3>2. i + 1 < j + 1
      BY <2>8
    <3> QED BY <2>8, <3>1, <3>2 DEF OrderInv, OpsInOrder
  <2>9. ASSUME NEW i \in 1..Len(wire') PROVE (Past(wire[i].msg))'
    BY <1>2, <1>4, <2>4, <2>6 DEF OrderInv, OpsInOrder, WireInOrder
  <2>10. ASSUME NEW i \in 1..Len(wire'), NEW j \in 1..Len(ops'),
                wire'[i].piece = 1, ops'[j].left = Pieces
         PROVE  wire'[i].msg <= ops'[j].msg
    <3>1. j + 1 \in 1..Len(ops) /\ ops'[j] = ops[j + 1] /\ 1 < j + 1
      BY <2>5, <2>10
    <3>2. CASE i \in 1..Len(wire) /\ wire'[i] = wire[i]
      BY <2>10, <3>1, <3>2 DEF OrderInv, WireInOrder
    <3>3. CASE wire'[i] = piece
      BY <1>2, <2>4, <2>10, <3>1, <3>3 DEF OrderInv, OpsInOrder
    <3> QED BY <2>6, <3>2, <3>3
  <2>11. ASSUME NEW i \in 1..Len(wire'), NEW j \in 1..Len(wire'), i < j,
                wire'[i].piece = 1, wire'[j].piece = 1
         PROVE  wire'[i].msg <= wire'[j].msg
    <3>1. Len(wire) \in Nat
      BY <1>1, LenProperties
    <3>2. i \in 1..Len(wire) /\ wire'[i] = wire[i]
      BY <2>6, <2>11, <3>1
    <3>3. CASE j \in 1..Len(wire) /\ wire'[j] = wire[j]
      BY <2>11, <3>2, <3>3 DEF OrderInv, NoOvertaking
    <3>4. CASE wire'[j] = piece
      BY <1>2, <2>4, <2>11, <3>2, <3>4 DEF OrderInv, WireInOrder
    <3> QED BY <2>6, <3>3, <3>4
  <2>12. OpsInOrder' /\ WireInOrder' /\ NoOvertaking'
    BY <2>7, <2>8, <2>9, <2>10, <2>11 DEF OpsInOrder, WireInOrder, NoOvertaking
  <2> QED BY <1>5, <2>12 DEF OrderInv
<1> QED BY <1>6, <1>7, Zenon DEF Transfer

LEMMA OrderNext ==
  ASSUME TypeOK, OrderInv, [Next]_vars
  PROVE  OrderInv'
<1>1. CASE WritePush \/ WriteFill \/ PopFront
  <2>1. QueueStepInOrder
    BY <1>1, PushInOrder, FillInOrder, PopInOrder DEF OrderInv
  <2>2. ops' = ops /\ wire' = wire
    BY <1>1, Zenon DEF WritePush, WriteFill, PopFront, asioVars, peerVars
  <2>3. /\ \A i \in 1..Len(ops) : ops[i].msg \in Nat
        /\ \A i \in 1..Len(wire) : wire[i].msg \in Nat
    BY MessagesAreNumbers
  <2>4. OpsInOrder' /\ WireInOrder' /\ NoOvertaking'
    BY <2>1, <2>2, <2>3 DEF QueueStepInOrder, OrderInv, OpsInOrder, WireInOrder, NoOvertaking
  <2> QED BY <2>1, <2>4 DEF QueueStepInOrder, OrderInv
<1>2. CASE WriteStart \/ WriteNext
  <2>1. AsyncWriteFront /\ UNCHANGED <<bufferVars, wire>>
    BY <1>2, Zenon DEF WriteStart, WriteNext, peerVars, bufferVars
  <2> QED BY <2>1, StartInOrder
<1>3. CASE Transfer
  BY <1>3, TransferInOrder
<1>4. CASE CloseSocket("main") \/ CloseSocket("io") \/ PeerResets
  <2>1. ops' = <<>> /\ UNCHANGED <<bufferVars, wire>>
    BY <1>4, Zenon DEF CloseSocket, PeerResets, peerVars, bufferVars
  <2> QED BY <2>1 DEF OrderInv, QueueInOrder, OpsInOrder, WireInOrder, NoOvertaking, Past, bufferVars
<1>5. CASE UNCHANGED <<bufferVars, ops, wire>>
  BY <1>5 DEF OrderInv, QueueInOrder, OpsInOrder, WireInOrder, NoOvertaking, Past, bufferVars
<1>6. \/ WritePush \/ WriteFill \/ PopFront \/ WriteStart \/ WriteNext \/ Transfer
      \/ CloseSocket("main") \/ CloseSocket("io") \/ PeerResets
      \/ UNCHANGED <<bufferVars, ops, wire>>
  BY Zenon DEF Next, Owner, SeesOpen, Write, BeginClose, DoClose, ClearOpen, DeleteThread,
     IoService, HandlerConnect, HandlerRead, HandlerWrite, WriteChain, CheckEmpty,
     AsyncReceive, Network, Connect, PeerSends, vars, bufferVars, asioVars, peerVars
<1> QED BY <1>1, <1>2, <1>3, <1>4, <1>5, <1>6

\* However the starts of the two threads interleave, and for any number of
\* messages, none reaches the connection before one that was written earlier.
THEOREM MessagesInOrder == Spec => []NoOvertaking
<1>1. TypeOK /\ OrderInv /\ [Next]_vars => TypeOK' /\ OrderInv'
  BY TypeNext, OrderNext
<1>2. OrderInv => NoOvertaking
  BY DEF OrderInv
<1> QED BY TypeInit, OrderInit, <1>1, <1>2, PTL DEF Spec

-----------------------------------------------------------------------------
(* The client inside the bridge. *)

ClientInv == /\ TypeOK /\ IdleUntilConnected /\ FailuresMeanDown
             /\ CloseIsLast /\ OneReceiveChain /\ OrderInv

\* close() entered from where the client alone does not enter it.
BridgeCloses == \/ BeginClose("main", "closed")
                \/ BeginClose("io", "callback") \/ BeginClose("io", "callback error")

\* A step of the bridge is one of the client, or enters close().
LEMMA BridgeStep ==
  ASSUME [BridgeNext]_bridgeVars
  PROVE  [Next]_vars \/ BridgeCloses
<1>1. CASE User \/ UNCHANGED bridgeVars
  BY <1>1, Zenon DEF User, EndOfInput, ReadStep, ReadOther, ReadEnd, ReadLaw, GetLine, bridgeVars
<1>2. CASE Main
  <2>1. CASE RunTest \/ LeaveModule \/ LaunchFails \/ (\E ok \in BOOLEAN : Translate(ok))
             \/ Exit("main")
    BY <2>1, Zenon DEF RunTest, TestLoop, LeaveModule, LaunchFails, Translate, Exit
  <2>2. CASE RunConnected \/ Send \/ FinishWrite \/ RunClose \/ CloseStep("main")
    BY <2>2, Zenon DEF RunConnected, Send, FinishWrite, RunClose, DriverClose, CloseStep,
       Next, Owner, Write
  <2>3. CASE Unwind
    BY <2>3, Zenon DEF Unwind, Next, Owner, BridgeCloses
  <2> QED BY <1>2, <2>1, <2>2, <2>3 DEF Main
<1>3. CASE Io
  <2>1. CASE HandlerStep \/ CloseStep("io") \/ Exit("io")
    BY <2>1, Zenon DEF HandlerStep, CloseStep, Exit, Next, IoService
  <2>2. CASE PacketArrived \/ PacketError
    BY <2>2, Zenon DEF PacketArrived, PacketError, DriverClose, Next, IoService, BridgeCloses
  <2> QED BY <1>3, <2>1, <2>2 DEF Io
<1>4. CASE SocketStep \/ OclingoAnswers \/ OclingoHangsUp
  BY <1>4, Zenon DEF SocketStep, OclingoAnswers, OclingoHangsUp, Next, Network
<1> QED BY <1>1, <1>2, <1>3, <1>4 DEF BridgeNext

\* Entering close() changes nothing but where the thread is.
LEMMA ClosesKeepClient ==
  ASSUME ClientInv, BridgeCloses
  PROVE  ClientInv'
<1> USE DEF bufferVars, asioVars, peerVars
<1>1. PICK t \in Threads, l \in {"closed", "callback", "callback error"} :
        BeginClose(t, l) /\ (t = "io" <=> l # "closed")
  BY DEF BridgeCloses, Threads
<1>2. TypeOK
  BY DEF ClientInv
<1>3. /\ pc[t] = l /\ pc' = [pc EXCEPT ![t] = "close socket"]
      /\ inClose' = [inClose EXCEPT ![t] = TRUE]
      /\ UNCHANGED <<mOpen, mWriteBuf, mInternalMutex, writeInProgress, written, socket, ops,
                     receiving, ready, packets, wire, threadFreed, ub>>
  BY <1>1, Zenon DEF BeginClose, At, Goto
<1>4. TypeOK'
  <2>1. pc' \in [Threads -> Labels]
    BY <1>2, <1>3 DEF TypeOK, Labels
  <2>2. inClose' \in [Threads -> BOOLEAN]
    BY <1>2, <1>3 DEF TypeOK
  <2> QED BY <1>2, <1>3, <2>1, <2>2, Zenon DEF TypeOK
<1>5. IdleUntilConnected' /\ FailuresMeanDown'
  BY <1>1, <1>2, <1>3 DEF ClientInv, IdleUntilConnected, FailuresMeanDown, TypeOK, Threads
<1>6. CloseIsLast'
  BY <1>2, <1>3 DEF ClientInv, CloseIsLast, TypeOK, Threads
<1>7. Handling' <=> Handling
  BY <1>1, <1>2, <1>3 DEF Handling, TypeOK, Threads
<1>8. OneReceiveChain' /\ OrderInv'
  BY <1>3, <1>7 DEF ClientInv, OneReceiveChain, OrderInv, QueueInOrder, OpsInOrder, WireInOrder,
                    NoOvertaking, Past
<1> QED BY <1>4, <1>5, <1>6, <1>8 DEF ClientInv

LEMMA ClientInit == Init => ClientInv
<1> SUFFICES ASSUME Init PROVE ClientInv
  OBVIOUS
<1>1. WakeInv /\ ReceiveInv /\ OrderInv
  BY WakeInit, ReceiveInit, OrderInit
<1> QED BY <1>1 DEF ClientInv, WakeInv, ReceiveInv

LEMMA ClientNext ==
  ASSUME ClientInv, [BridgeNext]_bridgeVars
  PROVE  ClientInv'
<1>1. CASE [Next]_vars
  BY <1>1, TypeNext, IdleNext, FailuresNext, CloseIsLastNext, ReceiveNext, OrderNext DEF ClientInv
<1>2. CASE BridgeCloses
  BY <1>2, ClosesKeepClient
<1> QED BY <1>1, <1>2, BridgeStep

\* The bridge keeps what the client promises: one receive at a time and never
\* none, and messages in order.
THEOREM BridgeKeepsClient == BridgeSpec => [](OneReceiveChain /\ NoOvertaking)
<1>1. BridgeInit => ClientInv
  BY ClientInit DEF BridgeInit
<1>2. ClientInv => OneReceiveChain /\ NoOvertaking
  BY DEF ClientInv, OrderInv
<1> QED BY <1>1, <1>2, ClientNext, PTL DEF BridgeSpec
-----------------------------------------------------------------------------
(* Packets and prompts. *)

\* The packets in a queue of handlers that the driver has not seen.
Unseen(queue) == {i \in 1..Len(queue) : queue[i].kind = "read" /\ ~queue[i].error}

LEMMA AppendUnseen ==
  ASSUME NEW queue \in Seq(Handler), NEW h \in Handler, h.kind = "read" => h.error,
         Unseen(Append(queue, h)) # {}
  PROVE  Unseen(queue) # {}
<1>1. PICK i \in 1..Len(Append(queue, h)) :
        Append(queue, h)[i].kind = "read" /\ ~Append(queue, h)[i].error
  BY DEF Unseen
<1>2. i \in 1..Len(queue) /\ Append(queue, h)[i] = queue[i]
  BY <1>1, AppendElement
<1> QED BY <1>1, <1>2 DEF Unseen

LEMMA TailUnseen ==
  ASSUME NEW queue \in Seq(Handler), queue # <<>>, Unseen(Tail(queue)) # {}
  PROVE  Unseen(queue) # {}
<1>1. PICK i \in 1..Len(Tail(queue)) :
        Tail(queue)[i].kind = "read" /\ ~Tail(queue)[i].error
  BY DEF Unseen
<1>2. i + 1 \in 1..Len(queue) /\ Tail(queue)[i] = queue[i + 1]
  BY TailElement
<1> QED BY <1>1, <1>2 DEF Unseen

LEMMA AbortUnseen ==
  ASSUME TypeOK, Unseen(ready \o Aborted) # {}
  PROVE  Unseen(ready) # {}
<1>1. PICK i \in 1..Len(ready \o Aborted) :
        (ready \o Aborted)[i].kind = "read" /\ ~(ready \o Aborted)[i].error
  BY DEF Unseen
<1>2. i <= Len(ready) /\ (ready \o Aborted)[i] = ready[i]
  BY <1>1, AbortElement DEF Completion
<1>3. i \in 1..Len(ready)
  BY <1>2, LenProperties DEF TypeOK
<1> QED BY <1>1, <1>2, <1>3 DEF Unseen

\* Only the peer adds a packet to the queue.
LEMMA UnseenStep ==
  ASSUME TypeOK, [Next]_vars, ~PeerSends, Unseen(ready') # {}
  PROVE  Unseen(ready) # {}
<1> USE DEF bufferVars, asioVars, peerVars
<1> DEFINE New == {Completion("write", TRUE), Completion("write", FALSE),
                   Completion("read", TRUE), Completion("connect", FALSE)}
<1>1. ready \in Seq(Handler)
  BY DEF TypeOK
<1>2. \A h \in New : h \in Handler /\ (h.kind = "read" => h.error)
  <2>1. \A h \in New : h \in Handler
    BY CompletionIsHandler
  <2>2. \A h \in New : h.kind = "read" => h.error
    BY DEF Completion
  <2> QED BY <2>1, <2>2
<1> HIDE DEF New
<1>3. ready # <<>> => Tail(ready) \in Seq(Handler)
  BY <1>1, HeadTailProperties
<1>4. \/ ready' = ready
      \/ ready # <<>> /\ ready' = Tail(ready)
      \/ \E h \in New : ready' = Append(ready, h)
      \/ ready # <<>> /\ \E h \in New : ready' = Append(Tail(ready), h)
      \/ ready' = ready \o Aborted
  <2>1. AsyncWriteFront => ready' = ready \/ ready' = Append(ready, Completion("write", TRUE))
    BY DEF AsyncWriteFront
  <2>2. \A q : Receive(q) => ready' = q \/ ready' = Append(q, Completion("read", TRUE))
    BY DEF Receive
  <2>3. CASE HandlerConnect
    BY <2>2, <2>3, Zenon DEF HandlerConnect, TakeHandler, New
  <2>4. CASE AsyncReceive
    BY <2>2, <2>4, Zenon DEF AsyncReceive, New
  <2>5. CASE WriteStart \/ WriteNext
    BY <2>1, <2>5, Zenon DEF WriteStart, WriteNext, New
  <2>6. CASE Transfer
    BY <2>6, Zenon DEF Transfer, New
  <2>7. CASE Connect
    BY <2>7, Zenon DEF Connect, New
  <2>8. CASE \E e \in BOOLEAN : HandlerRead(e) \/ HandlerWrite(e)
    BY <2>8, Zenon DEF HandlerRead, HandlerWrite, TakeHandler
  <2>9. CASE CloseSocket("main") \/ CloseSocket("io") \/ PeerResets
    BY <2>9, Zenon DEF CloseSocket, PeerResets
  <2>10. CASE SeesOpen \/ WritePush \/ WriteFill \/ BeginClose("main", "out") \/ ClearOpen("main")
              \/ ClearOpen("io") \/ DeleteThread("main") \/ DeleteThread("io") \/ PopFront
              \/ CheckEmpty \/ UNCHANGED vars
    BY <2>10, Zenon DEF SeesOpen, WritePush, WriteFill, BeginClose, ClearOpen, DeleteThread,
       PopFront, CheckEmpty, vars
  <2> QED BY <2>3, <2>4, <2>5, <2>6, <2>7, <2>8, <2>9, <2>10, Zenon
          DEF Next, Owner, Write, DoClose, IoService, WriteChain, Network
<1>5. CASE \E h \in New : ready' = Append(ready, h)
  BY <1>1, <1>2, <1>5, AppendUnseen
<1>6. CASE ready # <<>> /\ \E h \in New : ready' = Append(Tail(ready), h)
  BY <1>1, <1>2, <1>3, <1>6, AppendUnseen, TailUnseen
<1> QED BY <1>1, <1>4, <1>5, <1>6, TailUnseen, AbortUnseen

\* An answer is displayed once: every prompt has its packet, and a packet that
\* the driver has not seen has no prompt.
PromptsBehind ==
  /\ prompts <= packets
  /\ pc["io"] = "callback" \/ Unseen(ready) # {} => prompts < packets
-----------------------------------------------------------------------------
(* Types of the driver. *)

\* The step of a module is a number: the least bound of the times of its laws.
Bounds(laws) == {n \in Nat : \A l \in laws : TimeOf(l) <= n}

LEMMA TimeIsNat == \A l \in Laws : TimeOf(l) \in Nat
  BY BridgeAssumption DEF TimeOf

LEMMA LeastBound ==
  ASSUME NEW T, T \subseteq Nat, T # {}
  PROVE  \E n \in T : \A m \in T : n <= m
<1>1. IsWellFoundedOn(OpToRel(<, Nat), Nat)
  BY NatLessThanWellFounded
<1>2. PICK n \in T : \A m \in T : ~(<<m, n>> \in OpToRel(<, Nat))
  BY <1>1, WFMin
<1>3. ASSUME NEW m \in T, m < n PROVE <<m, n>> \in OpToRel(<, Nat)
  BY <1>3 DEF OpToRel
<1>4. ASSUME NEW m \in T PROVE n <= m
  <2>1. ~(m < n)
    BY <1>2, <1>3
  <2>2. m \in Nat /\ n \in Nat
    OBVIOUS
  <2> QED BY <2>1, <2>2
<1> QED BY <1>4

LEMMA StepIsNat ==
  ASSUME NEW laws \in SUBSET Laws, Bounds(laws) # {}
  PROVE  StepOf(laws) \in Nat
<1>1. PICK n \in Bounds(laws) : \A m \in Bounds(laws) : n <= m
  BY LeastBound DEF Bounds
<1>2. n \in Nat /\ \A l \in laws : TimeOf(l) <= n
  BY <1>1 DEF Bounds
<1>3. \A l \in laws : TimeOf(l) \in Nat
  BY TimeIsNat
<1>4. n \in {0} \cup {TimeOf(l) : l \in laws}
  <2> SUFFICES ASSUME n # 0, n \notin {TimeOf(l) : l \in laws} PROVE FALSE
    OBVIOUS
  <2>1. n - 1 \in Nat
    BY <1>2
  <2>2. \A l \in laws : TimeOf(l) <= n - 1
    BY <1>2, <1>3
  <2>3. n - 1 \in Bounds(laws)
    BY <2>1, <2>2 DEF Bounds
  <2> QED BY <1>1, <1>2, <2>3
<1>5. \E k \in {0} \cup {TimeOf(l) : l \in laws} : \A l \in laws : TimeOf(l) <= k
  BY <1>2, <1>4
<1>6. StepOf(laws) \in {0} \cup {TimeOf(l) : l \in laws}
  BY <1>5, Zenon DEF StepOf
<1> QED BY <1>3, <1>6

DriverTypes ==
  /\ at \in {"connect", "outer", "read outer", "inner", "read inner", "module",
             "translate", "send", "write", "close", "unwind", "destroy", "exit"}
  /\ mClosing \in BOOLEAN /\ lines \in 0..MaxLines /\ module \subseteq Laws
  /\ sent \in Seq([step : Nat, stop : BOOLEAN])
  /\ prompts \in Nat
  /\ code \in [Threads -> {0, 1}]
  /\ {reported, peerGone, threw} \subseteq BOOLEAN
  /\ exit \in {"running", "0", "1"}

BridgeTypeInv == /\ ClientInv /\ DriverTypes
                 /\ Bounds(module) # {}
                 /\ PromptsBehind

LEMMA BridgeTypeInit == BridgeInit => BridgeTypeInv
<1> SUFFICES ASSUME BridgeInit PROVE BridgeTypeInv
  OBVIOUS
<1>1. ClientInv /\ Init
  BY ClientInit DEF BridgeInit
<1>2. lines \in 0..MaxLines /\ prompts \in Nat /\ code \in [Threads -> {0, 1}]
  BY BridgeAssumption, BoundsAssumption DEF BridgeInit
<1>3. sent \in Seq([step : Nat, stop : BOOLEAN])
  BY EmptySeq DEF BridgeInit
<1>4. DriverTypes
  BY <1>2, <1>3 DEF BridgeInit, DriverTypes
<1>5. 0 \in Bounds(module)
  BY DEF BridgeInit, Bounds
<1>6. PromptsBehind
  BY <1>1 DEF BridgeInit, Init, PromptsBehind, Unseen, Threads
<1> QED BY <1>1, <1>4, <1>5, <1>6 DEF BridgeTypeInv

\* One law more has a bound too.
LEMMA ModuleBound ==
  ASSUME BridgeTypeInv, [BridgeNext]_bridgeVars
  PROVE  module' \subseteq Laws /\ Bounds(module') # {}
<1>1. module \subseteq Laws /\ Bounds(module) # {}
  BY DEF BridgeTypeInv, DriverTypes
<1>2. CASE module' = module
  BY <1>1, <1>2
<1>3. CASE module' = {}
  <2>1. 0 \in Bounds(module')
    BY <1>3 DEF Bounds
  <2> QED BY <1>3, <2>1
<1>4. ASSUME NEW law \in Laws, module' = module \cup {law}
      PROVE  module' \subseteq Laws /\ Bounds(module') # {}
  <2>1. PICK n \in Bounds(module) : TRUE
    BY <1>1
  <2>2. n \in Nat /\ \A l \in module : TimeOf(l) <= n
    BY <2>1 DEF Bounds
  <2>3. TimeOf(law) \in Nat /\ \A l \in module : TimeOf(l) \in Nat
    BY <1>1, TimeIsNat
  <2>4. n + TimeOf(law) \in Nat /\ \A l \in module \cup {law} : TimeOf(l) <= n + TimeOf(law)
    BY <2>2, <2>3
  <2>5. n + TimeOf(law) \in Bounds(module')
    BY <1>4, <2>4 DEF Bounds
  <2> QED BY <1>1, <1>4, <2>5
<1>5. \/ module' = module \/ module' = {}
      \/ \E law \in Laws : module' = module \cup {law}
  BY Zenon DEF BridgeNext, User, EndOfInput, ReadStep, ReadOther, ReadEnd, ReadLaw, Main,
     RunConnected, RunTest, TestLoop, LeaveModule, Translate, LaunchFails, Send, FinishWrite,
     RunClose, Unwind, CloseStep, Exit, Io, HandlerStep, PacketArrived, PacketError,
     SocketStep, OclingoAnswers, OclingoHangsUp, bridgeVars, driverVars, clientOnly
<1> QED BY <1>2, <1>3, <1>4, <1>5

LEMMA LinesBound == MaxLines \in Nat
<1>1. 2 * MaxWrites \in Nat
  BY BoundsAssumption
<1> QED BY <1>1, BridgeAssumption

LEMMA PacketsAreNumbers ==
  ASSUME packets \in 0..MaxPackets
  PROVE  packets \in Nat /\ (\A n \in Nat : n <= packets => n \in 0..MaxPackets)
  BY BoundsAssumption

LEMMA PromptsNext ==
  ASSUME BridgeTypeInv, [BridgeNext]_bridgeVars
  PROVE  PromptsBehind' /\ prompts' \in Nat
<1>1. TypeOK /\ packets \in Nat /\ prompts \in Nat
  <2>1. TypeOK /\ DriverTypes
    BY DEF BridgeTypeInv, ClientInv
  <2>2. packets \in 0..MaxPackets
    BY <2>1 DEF TypeOK
  <2> QED BY <2>1, <2>2, PacketsAreNumbers DEF DriverTypes
<1>2. prompts <= packets /\ (pc["io"] = "callback" \/ Unseen(ready) # {} => prompts < packets)
  BY DEF BridgeTypeInv, PromptsBehind
<1>3. CASE OclingoAnswers
  <2>1. prompts' = prompts /\ packets' = packets + 1
    BY <1>3 DEF OclingoAnswers, PeerSends, driverVars
  <2> QED BY <1>1, <1>2, <2>1 DEF PromptsBehind
<1>4. CASE PacketArrived
  <2>1. prompts' = prompts + 1 /\ pc["io"] = "callback" /\ packets' = packets
    BY <1>4 DEF PacketArrived, DriverClose, BeginClose, AsyncReceive, peerVars
  <2>2. Handling
    BY <2>1 DEF Handling
  <2>3. Reads(ready) = {}
    BY <2>2 DEF BridgeTypeInv, ClientInv, OneReceiveChain
  <2>4. Unseen(ready) = {}
    BY <2>3 DEF Reads, Unseen
  <2>5. prompts' \in Nat /\ prompts' <= packets'
    <3>1. prompts < packets
      BY <1>2, <2>1
    <3> QED BY <1>1, <2>1, <3>1
  <2>6. CASE AsyncReceive
    <3>1. pc'["io"] = "run"
      BY <1>1, <2>6 DEF AsyncReceive, Goto, TypeOK, Threads
    <3>2. [Next]_vars /\ ~PeerSends
      <4>1. [Next]_vars
        BY <2>6 DEF Next, IoService
      <4>2. packets' # packets + 1
        BY <1>1, <2>1
      <4> QED BY <4>1, <4>2 DEF PeerSends
    <3>3. Unseen(ready') = {}
      BY <1>1, <2>4, <3>2, UnseenStep
    <3> QED BY <2>5, <3>1, <3>3 DEF PromptsBehind
  <2>7. CASE BeginClose("io", "callback")
    <3>1. ready' = ready
      BY <2>7 DEF BeginClose, asioVars
    <3>2. pc'["io"] = "close socket"
      BY <1>1, <2>7 DEF BeginClose, Goto, TypeOK, Threads
    <3> QED BY <2>4, <2>5, <3>1, <3>2 DEF PromptsBehind
  <2> QED BY <1>4, <2>6, <2>7 DEF PacketArrived, DriverClose
<1>5. CASE ~OclingoAnswers /\ ~PacketArrived
  <2>1. prompts' = prompts
    BY <1>5, Zenon DEF BridgeNext, User, EndOfInput, ReadStep, ReadOther, ReadEnd, ReadLaw, GetLine,
       Main, RunConnected, RunTest, TestLoop, LeaveModule, Translate, LaunchFails, Send, FinishWrite,
       RunClose, Unwind, CloseStep, Exit, Io, HandlerStep, PacketError,
       SocketStep, OclingoHangsUp, bridgeVars, driverVars, clientOnly
  <2>2. BridgeCloses \/ ([Next]_vars /\ ~PeerSends)
    <3>1. CASE packets' # packets + 1
      BY <3>1, BridgeStep DEF PeerSends
    <3>2. CASE packets' = packets + 1
      <4>1. packets' # packets
        BY <1>1, <3>2
      <4> QED BY <1>5, <4>1, Zenon DEF BridgeNext, User, EndOfInput, ReadStep, ReadOther, ReadEnd,
              ReadLaw, GetLine, Main, RunConnected, SeesOpen, RunTest, TestLoop, LeaveModule,
              Translate, LaunchFails, Send, WritePush, FinishWrite, WriteFill, WriteStart,
              RunClose, DriverClose, BeginClose, Unwind, CloseStep, DoClose, CloseSocket,
              ClearOpen, DeleteThread, Exit, Io, HandlerStep, HandlerConnect, WriteChain,
              HandlerWrite, PopFront, CheckEmpty, WriteNext, HandlerRead, PacketError,
              SocketStep, Connect, Transfer, OclingoHangsUp, PeerResets,
              bridgeVars, vars, peerVars
    <3> QED BY <3>1, <3>2
  <2>3. packets' = packets
    <3>1. BridgeCloses => packets' = packets
      BY Zenon DEF BridgeCloses, BeginClose, peerVars
    <3>2. [Next]_vars /\ ~PeerSends => packets' = packets
      BY Zenon DEF Next, Owner, SeesOpen, Write, WritePush, WriteFill, WriteStart, BeginClose,
         DoClose, CloseSocket, ClearOpen, DeleteThread, IoService, HandlerConnect, HandlerRead,
         HandlerWrite, WriteChain, PopFront, CheckEmpty, WriteNext, AsyncReceive, Network,
         Connect, Transfer, PeerResets, vars, peerVars
    <3> QED BY <2>2, <3>1, <3>2
  <2>4. Unseen(ready') # {} => Unseen(ready) # {}
    <3>1. BridgeCloses => ready' = ready
      BY Zenon DEF BridgeCloses, BeginClose, asioVars
    <3> QED BY <1>1, <2>2, <3>1, UnseenStep
  <2>5. pc'["io"] = "callback" => pc["io"] = "callback" \/ Unseen(ready) # {}
    <3>1. ASSUME NEW e \in BOOLEAN, HandlerRead(e), pc'["io"] = "callback"
          PROVE  Unseen(ready) # {}
      <4>1. ~e
        BY <1>1, <3>1 DEF HandlerRead, Goto, TypeOK, Threads
      <4>2. ready # <<>> /\ Head(ready) = Completion("read", e)
        BY <3>1, Zenon DEF HandlerRead, TakeHandler
      <4>3. 1 \in 1..Len(ready) /\ ready[1] = Head(ready)
        BY <1>1, <4>2, HeadIsFirst DEF TypeOK
      <4>4. ready[1].kind = "read" /\ ~ready[1].error
        BY <4>1, <4>2, <4>3 DEF Completion
      <4> QED BY <4>3, <4>4 DEF Unseen
    <3>2. BridgeCloses \/ Owner \/ DoClose("io") \/ HandlerConnect \/ WriteChain \/ AsyncReceive
            => (pc'["io"] = "callback" => pc["io"] = "callback")
      <4>1. Owner => pc'["io"] = pc["io"]
        BY <1>1, OwnerLeavesIo
      <4>2. BridgeCloses => pc'["io"] = pc["io"] \/ pc'["io"] = "close socket"
        BY <1>1 DEF BridgeCloses, BeginClose, Goto, TypeOK, Threads
      <4>3. DoClose("io") \/ HandlerConnect \/ WriteChain \/ AsyncReceive
              => pc'["io"] = pc["io"] \/ pc'["io"] # "callback"
        BY <1>1 DEF DoClose, CloseSocket, ClearOpen, DeleteThread, HandlerConnect, WriteChain,
                    HandlerWrite, PopFront, CheckEmpty, WriteNext, AsyncReceive, Goto,
                    TypeOK, Threads
      <4> QED BY <4>1, <4>2, <4>3
    <3>3. Network \/ UNCHANGED vars => pc' = pc
      BY Zenon DEF Network, Connect, Transfer, PeerSends, PeerResets, vars
    <3> QED BY <2>2, <3>1, <3>2, <3>3 DEF Next, IoService
  <2> QED BY <1>1, <1>2, <2>1, <2>3, <2>4, <2>5 DEF PromptsBehind
<1> QED BY <1>3, <1>4, <1>5

LEMMA DriverTypesNext ==
  ASSUME BridgeTypeInv, [BridgeNext]_bridgeVars
  PROVE  DriverTypes'
<1> DEFINE Message == [step : Nat, stop : BOOLEAN]
<1>1. DriverTypes /\ TypeOK
  BY DEF BridgeTypeInv, ClientInv
<1>2. module' \subseteq Laws /\ prompts' \in Nat
  BY ModuleBound, PromptsNext
<1>3. lines' \in 0..MaxLines
  <2>1. \A l : GetLine(l) => lines' \in 0..MaxLines
    <3>1. lines \in 0..MaxLines /\ MaxLines \in Nat
      BY <1>1, LinesBound DEF DriverTypes
    <3>2. lines < MaxLines => lines + 1 \in 0..MaxLines
      BY <3>1
    <3> QED BY <3>2 DEF GetLine
  <2>2. EndOfInput => lines' \in 0..MaxLines
    <3>1. MaxLines \in 0..MaxLines
      BY LinesBound
    <3> QED BY <3>1 DEF EndOfInput
  <2>3. User \/ lines' = lines
    BY Zenon DEF BridgeNext, Main, RunConnected, RunTest, TestLoop, LeaveModule, Translate,
       LaunchFails, Send, FinishWrite, RunClose, Unwind, CloseStep, Exit, Io, HandlerStep,
       PacketArrived, PacketError, SocketStep, OclingoAnswers, OclingoHangsUp,
       bridgeVars, driverVars, clientOnly
  <2> QED BY <1>1, <2>1, <2>2, <2>3
          DEF User, ReadStep, ReadOther, ReadEnd, ReadLaw, DriverTypes
<1>4. sent' \in Seq(Message)
  <2>1. CASE Send
    <3>1. [step |-> StepOf(module), stop |-> mClosing] \in Message
      BY <1>1, StepIsNat DEF BridgeTypeInv, DriverTypes
    <3>2. sent \in Seq(Message)
      BY <1>1 DEF DriverTypes
    <3>3. Append(sent, [step |-> StepOf(module), stop |-> mClosing]) \in Seq(Message)
      BY <3>1, <3>2, AppendProperties
    <3> QED BY <2>1, <3>3 DEF Send
  <2>2. CASE ~Send
    <3>1. sent' = sent
      BY <2>2, Zenon DEF BridgeNext, User, EndOfInput, ReadStep, ReadOther, ReadEnd, ReadLaw, GetLine,
         Main, RunConnected, RunTest, TestLoop, LeaveModule, Translate, LaunchFails, FinishWrite,
         RunClose, Unwind, CloseStep, Exit, Io, HandlerStep, PacketArrived, PacketError,
         SocketStep, OclingoAnswers, OclingoHangsUp, bridgeVars, driverVars, clientOnly
    <3> QED BY <1>1, <3>1 DEF DriverTypes
  <2> QED BY <2>1, <2>2
<1>5. code' \in [Threads -> {0, 1}]
  <2>1. \/ code' = code
        \/ \E t \in Threads, c \in {0, 1} : code' = [code EXCEPT ![t] = c]
    <3>1. PacketError => \E c \in {0, 1} : code' = [code EXCEPT !["io"] = c]
      BY DEF PacketError, DriverClose
    <3>2. PacketArrived => code' = code \/ code' = [code EXCEPT !["io"] = 0]
      BY Zenon DEF PacketArrived, DriverClose
    <3>3. RunClose => code' = [code EXCEPT !["main"] = 0]
      BY Zenon DEF RunClose, DriverClose
    <3>4. LaunchFails => code' = [code EXCEPT !["main"] = 1]
      BY Zenon DEF LaunchFails
    <3>5. ~PacketError /\ ~PacketArrived /\ ~RunClose /\ ~LaunchFails => code' = code
      BY Zenon DEF BridgeNext, User, EndOfInput, ReadStep, ReadOther, ReadEnd, ReadLaw, GetLine,
         Main, RunConnected, RunTest, TestLoop, LeaveModule, Translate, Send, FinishWrite,
         Unwind, CloseStep, Exit, Io, HandlerStep, SocketStep, OclingoAnswers, OclingoHangsUp,
         bridgeVars, driverVars, clientOnly
    <3> QED BY <3>1, <3>2, <3>3, <3>4, <3>5 DEF Threads
  <2> QED BY <1>1, <2>1 DEF DriverTypes
<1>6. mClosing' \in BOOLEAN
  <2>1. \/ mClosing' = mClosing \/ mClosing' = TRUE
        \/ \E done \in BOOLEAN : mClosing' = (mClosing \/ done)
    BY Zenon DEF BridgeNext, User, EndOfInput, ReadStep, ReadOther, ReadEnd, ReadLaw, GetLine,
       Main, RunConnected, RunTest, TestLoop, LeaveModule, Translate, LaunchFails, Send, FinishWrite,
       RunClose, DriverClose, Unwind, CloseStep, Exit, Io, HandlerStep, PacketArrived, PacketError,
       SocketStep, OclingoAnswers, OclingoHangsUp, bridgeVars, driverVars, clientOnly
  <2> QED BY <1>1, <2>1 DEF DriverTypes
<1>7. reported' \in BOOLEAN /\ peerGone' \in BOOLEAN /\ threw' \in BOOLEAN
  <2>1. reported' = reported \/ reported' = (reported \/ ~mClosing)
    BY Zenon DEF BridgeNext, User, EndOfInput, ReadStep, ReadOther, ReadEnd, ReadLaw, GetLine,
       Main, RunConnected, RunTest, TestLoop, LeaveModule, Translate, LaunchFails, Send, FinishWrite,
       RunClose, Unwind, CloseStep, Exit, Io, HandlerStep, PacketArrived, PacketError,
       SocketStep, OclingoAnswers, OclingoHangsUp, bridgeVars, driverVars, clientOnly
  <2>2. (peerGone' = peerGone \/ peerGone' = TRUE) /\ (threw' = threw \/ threw' = TRUE)
    BY Zenon DEF BridgeNext, User, EndOfInput, ReadStep, ReadOther, ReadEnd, ReadLaw, GetLine,
       Main, RunConnected, RunTest, TestLoop, LeaveModule, Translate, LaunchFails, Send, FinishWrite,
       RunClose, Unwind, CloseStep, Exit, Io, HandlerStep, PacketArrived, PacketError,
       SocketStep, OclingoAnswers, OclingoHangsUp, bridgeVars, driverVars, clientOnly
  <2> QED BY <1>1, <2>1, <2>2 DEF DriverTypes
<1>8. exit' \in {"running", "0", "1"}
  <2>1. exit' = exit \/ exit' \in {"0", "1"}
    BY DEF BridgeNext, User, EndOfInput, ReadStep, ReadOther, ReadEnd, ReadLaw, GetLine,
       Main, RunConnected, RunTest, TestLoop, LeaveModule, Translate, LaunchFails, Send, FinishWrite,
       RunClose, Unwind, CloseStep, Exit, Io, HandlerStep, PacketArrived, PacketError,
       SocketStep, OclingoAnswers, OclingoHangsUp, bridgeVars, driverVars, clientOnly
  <2> QED BY <1>1, <2>1 DEF DriverTypes
<1>9. at' \in {"connect", "outer", "read outer", "inner", "read inner", "module",
               "translate", "send", "write", "close", "unwind", "destroy", "exit"}
  <2>1. CASE User
    BY <2>1 DEF User, EndOfInput, ReadStep, ReadOther, ReadEnd, ReadLaw
  <2>2. CASE Main
    BY <1>1, <2>2 DEF Main, RunConnected, RunTest, TestLoop, LeaveModule, Translate, LaunchFails,
       Send, FinishWrite, RunClose, Unwind, CloseStep, Exit, driverVars, DriverTypes
  <2>3. CASE ~User /\ ~Main
    <3>1. at' = at
      BY <2>3, Zenon DEF BridgeNext, Io, HandlerStep, CloseStep, Exit, PacketArrived, PacketError,
         SocketStep, OclingoAnswers, OclingoHangsUp, bridgeVars, driverVars
    <3> QED BY <1>1, <3>1 DEF DriverTypes
  <2> QED BY <2>1, <2>2, <2>3
<1> QED BY <1>2, <1>3, <1>4, <1>5, <1>6, <1>7, <1>8, <1>9 DEF DriverTypes

LEMMA BridgeTypeNext ==
  ASSUME BridgeTypeInv, [BridgeNext]_bridgeVars
  PROVE  BridgeTypeInv'
  BY ClientNext, DriverTypesNext, ModuleBound, PromptsNext DEF BridgeTypeInv

\* Every variable of the bridge keeps its type; that an answer is displayed for a
\* packet that came, once, is what bounds the prompts.
THEOREM BridgeTypeSafety == BridgeSpec => []BridgeTypeOK
<1>1. BridgeTypeInv => BridgeTypeOK
  <2> SUFFICES ASSUME BridgeTypeInv PROVE BridgeTypeOK
    OBVIOUS
  <2>1. TypeOK /\ DriverTypes /\ prompts <= packets
    BY DEF BridgeTypeInv, ClientInv, PromptsBehind
  <2>2. prompts \in 0..MaxPackets
    <3>1. packets \in 0..MaxPackets /\ prompts \in Nat
      BY <2>1 DEF TypeOK, DriverTypes
    <3> QED BY <2>1, <3>1, PacketsAreNumbers
  <2> QED BY <2>1, <2>2, Zenon DEF BridgeTypeOK, DriverTypes
<1> QED BY BridgeTypeInit, BridgeTypeNext, <1>1, PTL DEF BridgeSpec
-----------------------------------------------------------------------------
(* Who ends the connection. *)

Down == socket \in {"reset", "closed"}
Ending == \/ Down \/ pc["io"] = "callback error"
          \/ \E t \in Threads : pc[t] = "close socket"
Reason == mClosing \/ peerGone \/ threw

\* The connection ends, or a thread is about to end it, for a reason.
BlameInv ==
  /\ Ending => Reason
  /\ at \in {"unwind", "destroy"} => threw
  /\ BlameHasCause

\* What failed, failed because the connection was down.
LEMMA ErrorsMeanDown ==
  ASSUME ClientInv, NEW kind, TakeHandler(kind, TRUE)
  PROVE  Down
<1>1. ready \in Seq(Handler) /\ ready # <<>> /\ Head(ready) = Completion(kind, TRUE)
  BY DEF ClientInv, TypeOK, TakeHandler
<1>2. 1 \in 1..Len(ready) /\ ready[1].error
  BY <1>1, HeadIsFirst DEF Completion
<1>3. Failures(ready) # {}
  BY <1>2 DEF Failures
<1> QED BY <1>3 DEF ClientInv, FailuresMeanDown, Down

LEMMA DownStays ==
  ASSUME TypeOK, [BridgeNext]_bridgeVars, Down
  PROVE  Down'
<1>1. BridgeCloses => socket' = socket
  BY Zenon DEF BridgeCloses, BeginClose
<1>2. ASSUME [Next]_vars PROVE socket' = socket \/ socket' \in {"reset", "closed"}
  <2>1. ~Connect
    BY DEF Connect, Down
  <2>2. CASE CloseSocket("main") \/ CloseSocket("io") \/ PeerResets
    BY <2>2 DEF CloseSocket, PeerResets
  <2>3. CASE ~CloseSocket("main") /\ ~CloseSocket("io") /\ ~PeerResets
    BY <1>2, <2>1, <2>3, Zenon DEF Next, Owner, SeesOpen, Write, WritePush, WriteFill, WriteStart,
       BeginClose, DoClose, ClearOpen, DeleteThread, IoService, HandlerConnect, HandlerRead,
       HandlerWrite, WriteChain, PopFront, CheckEmpty, WriteNext, AsyncReceive, Network,
       Transfer, PeerSends, vars
  <2> QED BY <2>2, <2>3
<1> QED BY <1>1, <1>2, BridgeStep DEF Down

\* A reason is never taken back.
LEMMA ReasonsStay ==
  ASSUME [BridgeNext]_bridgeVars
  PROVE  /\ mClosing => mClosing'
         /\ peerGone => peerGone'
         /\ threw => threw'
<1>1. \/ mClosing' = mClosing \/ mClosing' = TRUE
      \/ \E done \in BOOLEAN : mClosing' = (mClosing \/ done)
  BY Zenon DEF BridgeNext, User, EndOfInput, ReadStep, ReadOther, ReadEnd, ReadLaw, GetLine,
     Main, RunConnected, RunTest, TestLoop, LeaveModule, Translate, LaunchFails, Send, FinishWrite,
     RunClose, DriverClose, Unwind, CloseStep, Exit, Io, HandlerStep, PacketArrived, PacketError,
     SocketStep, OclingoAnswers, OclingoHangsUp, bridgeVars, driverVars, clientOnly
<1>2. (peerGone' = peerGone \/ peerGone' = TRUE) /\ (threw' = threw \/ threw' = TRUE)
  BY Zenon DEF BridgeNext, User, EndOfInput, ReadStep, ReadOther, ReadEnd, ReadLaw, GetLine,
     Main, RunConnected, RunTest, TestLoop, LeaveModule, Translate, LaunchFails, Send, FinishWrite,
     RunClose, Unwind, CloseStep, Exit, Io, HandlerStep, PacketArrived, PacketError,
     SocketStep, OclingoAnswers, OclingoHangsUp, bridgeVars, driverVars, clientOnly
<1>3. mClosing => mClosing'
  <2>1. CASE mClosing' = mClosing
    BY <2>1, Zenon
  <2>2. CASE mClosing' = TRUE
    BY <2>2
  <2>3. ASSUME NEW done \in BOOLEAN, mClosing' = (mClosing \/ done)
        PROVE  mClosing => mClosing'
    BY <2>3, Zenon
  <2> QED BY <1>1, <2>1, <2>2, <2>3, Zenon
<1>4. peerGone => peerGone'
  BY <1>2, Zenon
<1>5. threw => threw'
  BY <1>2, Zenon
<1> QED BY <1>3, <1>4, <1>5

\* How the connection can come to its end.
LEMMA EndingStep ==
  ASSUME BridgeTypeInv, [BridgeNext]_bridgeVars, Ending'
  PROVE  Ending \/ mClosing' \/ peerGone' \/ at \in {"unwind", "destroy"}
<1>1. TypeOK
  BY DEF BridgeTypeInv, ClientInv
<1> SUFFICES ASSUME ~Ending, ~mClosing', ~peerGone', at \notin {"unwind", "destroy"}
             PROVE  FALSE
  OBVIOUS
<1>2. ~RunClose /\ ~Unwind /\ ~OclingoHangsUp
  BY Zenon DEF RunClose, DriverClose, Unwind, RunAt, OclingoHangsUp
<1>3. pc["main"] # "close socket" /\ pc["io"] \notin {"close socket", "callback error"}
  BY DEF Ending, Threads
<1>4. ~PacketError
  BY <1>3 DEF PacketError
<1>5. \A t \in Threads : ~CloseSocket(t)
  BY DEF Ending, CloseSocket, At
<1>6. \A kind : ~TakeHandler(kind, TRUE)
  BY ErrorsMeanDown DEF BridgeTypeInv, Ending
<1>7. /\ pc'["main"] # "close socket" /\ pc'["io"] \notin {"close socket", "callback error"}
      /\ socket' = socket \/ socket' = "connected"
  <2>1. CASE User \/ RunTest \/ LeaveModule \/ LaunchFails \/ (\E ok \in BOOLEAN : Translate(ok))
             \/ Exit("main") \/ Exit("io") \/ UNCHANGED bridgeVars
    <3>1. pc' = pc /\ socket' = socket
      BY <2>1, Zenon DEF User, EndOfInput, ReadStep, ReadOther, ReadEnd, ReadLaw, GetLine, RunTest,
         TestLoop, LeaveModule, LaunchFails, Translate, Exit, bridgeVars, vars
    <3> QED BY <1>3, <3>1
  <2>2. CASE RunConnected \/ Send \/ FinishWrite
    BY <1>1, <1>3, <2>2 DEF RunConnected, SeesOpen, Send, WritePush, FinishWrite, WriteFill,
       WriteStart, Goto, TypeOK, Threads
  <2>3. ASSUME NEW t \in Threads, CloseStep(t)
        PROVE  /\ pc'["main"] # "close socket" /\ pc'["io"] \notin {"close socket", "callback error"}
               /\ socket' = socket \/ socket' = "connected"
    BY <1>1, <1>3, <1>5, <2>3 DEF CloseStep, DoClose, ClearOpen, DeleteThread, Goto, TypeOK, Threads
  <2>4. CASE HandlerStep
    <3>1. CASE HandlerConnect \/ PopFront \/ CheckEmpty \/ WriteNext
      BY <1>1, <1>3, <3>1 DEF HandlerConnect, PopFront, CheckEmpty, WriteNext, Goto, TypeOK, Threads
    <3>2. ASSUME NEW e \in BOOLEAN, HandlerRead(e) \/ HandlerWrite(e)
          PROVE  /\ pc'["main"] # "close socket"
                 /\ pc'["io"] \notin {"close socket", "callback error"}
                 /\ socket' = socket
      <4>1. ~e
        BY <1>6, <3>2, Zenon DEF HandlerRead, HandlerWrite
      <4> QED BY <1>1, <1>3, <3>2, <4>1 DEF HandlerRead, HandlerWrite, Goto, TypeOK, Threads
    <3> QED BY <2>4, <3>1, <3>2 DEF HandlerStep, WriteChain
  <2>5. CASE PacketArrived
    <3>1. AsyncReceive
      BY <2>5 DEF PacketArrived, DriverClose
    <3> QED BY <1>1, <1>3, <3>1 DEF AsyncReceive, Goto, TypeOK, Threads
  <2>6. CASE SocketStep \/ OclingoAnswers
    BY <1>3, <2>6, Zenon DEF SocketStep, Connect, Transfer, OclingoAnswers, PeerSends
  <2> QED BY <1>2, <1>4, <2>1, <2>2, <2>3, <2>4, <2>5, <2>6 DEF BridgeNext, Main, Io, Threads
<1> QED BY <1>7 DEF Ending, Down, Threads

LEMMA BlameNext ==
  ASSUME BridgeTypeInv, BlameInv, [BridgeNext]_bridgeVars
  PROVE  BlameInv'
<1>1. Ending' => Reason'
  BY EndingStep, ReasonsStay DEF BlameInv, Reason
<1>2. at' \in {"unwind", "destroy"} => threw'
  <2>1. CASE LaunchFails
    BY <2>1 DEF LaunchFails
  <2>2. CASE Unwind
    BY <2>2, ReasonsStay DEF Unwind, RunAt, BlameInv
  <2>3. CASE ~LaunchFails /\ ~Unwind
    <3>1. at' = at \/ at' \notin {"unwind", "destroy"}
      BY <2>3 DEF BridgeNext, User, EndOfInput, ReadStep, ReadOther, ReadEnd, ReadLaw, GetLine,
         Main, RunConnected, RunTest, TestLoop, LeaveModule, Translate, Send, FinishWrite,
         RunClose, CloseStep, Exit, Io, HandlerStep, PacketArrived, PacketError,
         SocketStep, OclingoAnswers, OclingoHangsUp, bridgeVars, driverVars
    <3> QED BY <3>1, ReasonsStay DEF BlameInv
  <2> QED BY <2>1, <2>2, <2>3
<1>3. BlameHasCause'
  <2>1. CASE PacketError
    <3>1. Ending /\ reported' = (reported \/ ~mClosing)
      BY <2>1 DEF PacketError, Ending
    <3> QED BY <3>1, ReasonsStay DEF BlameInv, BlameHasCause, Reason
  <2>2. CASE ~PacketError
    <3>1. reported' = reported
      BY <2>2, Zenon DEF BridgeNext, User, EndOfInput, ReadStep, ReadOther, ReadEnd, ReadLaw, GetLine,
         Main, RunConnected, RunTest, TestLoop, LeaveModule, Translate, LaunchFails, Send,
         FinishWrite, RunClose, Unwind, CloseStep, Exit, Io, HandlerStep, PacketArrived,
         SocketStep, OclingoAnswers, OclingoHangsUp, bridgeVars, driverVars, clientOnly
    <3> QED BY <3>1, ReasonsStay DEF BlameInv, BlameHasCause
  <2> QED BY <2>1, <2>2
<1> QED BY <1>1, <1>2, <1>3 DEF BlameInv

\* The bridge reports that oClingo closed the connection only if it did, or if
\* run() ended by an exception, whatever the laws and however the threads meet.
THEOREM BlameAlwaysHasCause == BridgeSpec => []BlameHasCause
<1>1. BridgeInit => BlameInv
  BY DEF BridgeInit, Init, BlameInv, BlameHasCause, Ending, Down, Threads
<1>2. BridgeTypeInv /\ BlameInv /\ [BridgeNext]_bridgeVars => BridgeTypeInv' /\ BlameInv'
  BY BridgeTypeNext, BlameNext
<1>3. BlameInv => BlameHasCause
  BY DEF BlameInv
<1> QED BY BridgeTypeInit, <1>1, <1>2, <1>3, PTL DEF BridgeSpec
-----------------------------------------------------------------------------
(* Closing while a module is being translated. *)

\* mClosing is tested before the translation; what sets it until send() does so
\* because the connection is down, so a message with the mark is never sent.
ClosingInv ==
  /\ pc["io"] = "callback error" => Down
  /\ mClosing /\ at \in {"translate", "send"} => Down
  /\ Len(sent) = written
  /\ (\E k \in 1..Len(sent) : sent[k].stop) => Down
  /\ NothingSentAfterClosing

LEMMA WireNames ==
  ASSUME BridgeTypeInv, ClosingInv, NEW i \in 1..Len(wire)
  PROVE  wire[i].msg \in 1..Len(sent)
<1>1. TypeOK /\ OrderInv
  BY DEF BridgeTypeInv, ClientInv
<1>2. wire[i] \in Sent
  BY <1>1, ElementOfSeq DEF TypeOK
<1>3. wire[i].msg \in Nat /\ wire[i].msg >= 1
  BY <1>2, BoundsAssumption DEF Sent
<1>4. wire[i].msg <= written /\ written \in Nat
  BY <1>1, MessagesAreNumbers DEF OrderInv, WireInOrder, Past
<1>5. wire[i].msg \in 1..written
  BY <1>3, <1>4
<1> QED BY <1>5 DEF ClosingInv

LEMMA ClosingNext ==
  ASSUME BridgeTypeInv, ClosingInv, [BridgeNext]_bridgeVars
  PROVE  ClosingInv'
<1> DEFINE Message == [step : Nat, stop : BOOLEAN]
           message == [step |-> StepOf(module), stop |-> mClosing]
<1>1. TypeOK /\ (Down => Down') /\ sent \in Seq(Message)
  BY DownStays DEF BridgeTypeInv, ClientInv, DriverTypes
<1>2. pc'["io"] = "callback error" => Down'
  <2>1. CASE HandlerRead(TRUE)
    BY <1>1, <2>1, ErrorsMeanDown DEF HandlerRead, BridgeTypeInv
  <2>2. CASE ~HandlerRead(TRUE)
    <3>1. ASSUME NEW e \in BOOLEAN, HandlerRead(e) PROVE pc'["io"] # "callback error"
      <4>1. ~e
        BY <2>2, <3>1
      <4> QED BY <1>1, <3>1, <4>1 DEF HandlerRead, Goto, TypeOK, Threads
    <3>2. Owner => pc'["io"] = pc["io"]
      BY <1>1, OwnerLeavesIo
    <3>3. BridgeCloses => pc'["io"] = pc["io"] \/ pc'["io"] = "close socket"
      BY <1>1 DEF BridgeCloses, BeginClose, Goto, TypeOK, Threads
    <3>4. DoClose("io") \/ HandlerConnect \/ WriteChain \/ AsyncReceive
            => pc'["io"] = pc["io"] \/ pc'["io"] # "callback error"
      BY <1>1 DEF DoClose, CloseSocket, ClearOpen, DeleteThread, HandlerConnect, WriteChain,
                  HandlerWrite, PopFront, CheckEmpty, WriteNext, AsyncReceive, Goto,
                  TypeOK, Threads
    <3>5. Network \/ UNCHANGED vars => pc' = pc
      BY Zenon DEF Network, Connect, Transfer, PeerSends, PeerResets, vars
    <3> QED BY <1>1, <3>1, <3>2, <3>3, <3>4, <3>5, BridgeStep DEF Next, IoService, ClosingInv
  <2> QED BY <2>1, <2>2
<1>3. mClosing' /\ at' \in {"translate", "send"} => Down'
  <2>1. CASE PacketError
    BY <1>1, <2>1 DEF PacketError, ClosingInv
  <2>2. CASE PacketArrived
    <3>1. at' = at /\ (mClosing' => mClosing)
      BY <2>2, Zenon DEF PacketArrived
    <3> QED BY <1>1, <3>1 DEF ClosingInv
  <2>3. CASE User
    BY <2>3 DEF User, EndOfInput, ReadStep, ReadOther, ReadEnd, ReadLaw
  <2>4. CASE LeaveModule
    <3>1. mClosing' = mClosing /\ at' = (IF mClosing THEN "outer" ELSE "translate")
      BY <2>4 DEF LeaveModule, clientOnly
    <3> QED BY <3>1
  <2>5. CASE \E ok \in BOOLEAN : Translate(ok)
    <3>1. mClosing' = mClosing /\ at = "translate"
      BY <2>5 DEF Translate, RunAt, clientOnly
    <3> QED BY <1>1, <3>1 DEF ClosingInv
  <2>6. CASE Main /\ ~LeaveModule /\ ~(\E ok \in BOOLEAN : Translate(ok))
    <3>1. at' \notin {"translate", "send"} \/ (at' = at /\ mClosing' = mClosing)
      BY <2>6 DEF Main, RunConnected, RunTest, TestLoop, LaunchFails, Send, FinishWrite,
         RunClose, Unwind, CloseStep, Exit, driverVars
    <3> QED BY <1>1, <3>1 DEF ClosingInv
  <2>7. CASE ~User /\ ~Main /\ ~PacketError /\ ~PacketArrived
    <3>1. at' = at /\ mClosing' = mClosing
      BY <2>7, Zenon DEF BridgeNext, Io, HandlerStep, CloseStep, Exit, SocketStep,
         OclingoAnswers, OclingoHangsUp, bridgeVars, driverVars
    <3> QED BY <1>1, <3>1 DEF ClosingInv
  <2> QED BY <2>1, <2>2, <2>3, <2>4, <2>5, <2>6, <2>7
<1>4. CASE Send
  <2>1. message \in Message
    BY <1>1, StepIsNat DEF BridgeTypeInv, DriverTypes
  <2>2. sent' = Append(sent, message) /\ written' = written + 1 /\ wire' = wire
    BY <1>4, Zenon DEF Send, WritePush, peerVars
  <2>3. /\ Len(sent') = Len(sent) + 1
        /\ \A k \in 1..Len(sent) : sent'[k] = sent[k]
    BY <1>1, <2>1, <2>2, AppendProperties
  <2>4. message.stop => Down
    BY <1>4 DEF Send, RunAt, ClosingInv
  <2> HIDE DEF message
  <2>5. (\E k \in 1..Len(sent') : sent'[k].stop) => Down'
    <3> SUFFICES ASSUME NEW k \in 1..Len(sent'), sent'[k].stop PROVE Down
      BY <1>1
    <3>1. \/ k \in 1..Len(sent) /\ sent'[k] = sent[k]
          \/ sent'[k] = message
      BY <1>1, <2>1, <2>2, AppendElement
    <3> QED BY <2>4, <3>1 DEF ClosingInv
  <2>6. NothingSentAfterClosing'
    BY <2>2, <2>3, WireNames DEF ClosingInv, NothingSentAfterClosing
  <2> QED BY <1>2, <1>3, <2>2, <2>3, <2>5, <2>6 DEF ClosingInv
<1>5. CASE ~Send
  <2>1. sent' = sent
    BY <1>5, Zenon DEF BridgeNext, User, EndOfInput, ReadStep, ReadOther, ReadEnd, ReadLaw, GetLine,
       Main, RunConnected, RunTest, TestLoop, LeaveModule, Translate, LaunchFails, FinishWrite,
       RunClose, Unwind, CloseStep, Exit, Io, HandlerStep, PacketArrived, PacketError,
       SocketStep, OclingoAnswers, OclingoHangsUp, bridgeVars, driverVars, clientOnly
  <2>2. written' = written
    BY <1>5, Zenon DEF BridgeNext, User, EndOfInput, ReadStep, ReadOther, ReadEnd, ReadLaw, GetLine,
       Main, RunConnected, SeesOpen, RunTest, TestLoop, LeaveModule, Translate, LaunchFails,
       FinishWrite, WriteFill, WriteStart, RunClose, DriverClose, BeginClose, Unwind, CloseStep,
       DoClose, CloseSocket, ClearOpen, DeleteThread, Exit, Io, HandlerStep, HandlerConnect,
       WriteChain, HandlerWrite, PopFront, CheckEmpty, WriteNext, HandlerRead, AsyncReceive,
       PacketArrived, PacketError, SocketStep, Connect, Transfer, OclingoAnswers, PeerSends,
       OclingoHangsUp, PeerResets, bridgeVars, vars, bufferVars
  <2>3. NothingSentAfterClosing'
    <3>1. CASE wire' = wire
      BY <2>1, <3>1 DEF ClosingInv, NothingSentAfterClosing
    <3>2. CASE wire' # wire
      <4>1. Transfer
        <5>1. BridgeCloses => wire' = wire
          BY Zenon DEF BridgeCloses, BeginClose, peerVars
        <5>2. [Next]_vars /\ ~Transfer => wire' = wire
          BY Zenon DEF Next, Owner, SeesOpen, Write, WritePush, WriteFill, WriteStart, BeginClose,
             DoClose, CloseSocket, ClearOpen, DeleteThread, IoService, HandlerConnect, HandlerRead,
             HandlerWrite, WriteChain, PopFront, CheckEmpty, WriteNext, AsyncReceive, Network,
             Connect, PeerSends, PeerResets, vars, peerVars
        <5> QED BY <3>2, <5>1, <5>2, BridgeStep
      <4>2. ~Down
        BY <4>1 DEF Transfer, Down
      <4>3. \A k \in 1..Len(sent') : ~sent'[k].stop
        BY <2>1, <4>2 DEF ClosingInv
      <4>4. \A i \in 1..Len(wire') : wire'[i].msg \in 1..Len(sent')
        <5>1. TypeOK' /\ OrderInv'
          BY BridgeTypeNext DEF BridgeTypeInv, ClientInv
        <5>2. ASSUME NEW i \in 1..Len(wire') PROVE wire'[i].msg \in 1..written'
          <6>1. wire'[i] \in Sent
            BY <5>1, ElementOfSeq DEF TypeOK
          <6>2. wire'[i].msg \in Nat /\ wire'[i].msg >= 1
            BY <6>1, BoundsAssumption DEF Sent
          <6>3. wire'[i].msg <= written' /\ written' \in 0..MaxWrites
            BY <5>1 DEF OrderInv, WireInOrder, Past, TypeOK
          <6> QED BY <6>2, <6>3, BoundsAssumption
        <5> QED BY <2>1, <2>2, <5>2 DEF ClosingInv
      <4> QED BY <4>3, <4>4 DEF NothingSentAfterClosing
    <3> QED BY <3>1, <3>2
  <2> QED BY <1>1, <1>2, <1>3, <2>1, <2>2, <2>3 DEF ClosingInv
<1> QED BY <1>4, <1>5

\* No message composed after the bridge began to close reaches oClingo, although
\* either thread may set mClosing between run()'s test of it and send().
THEOREM NothingFollowsClosing == BridgeSpec => []NothingSentAfterClosing
<1>1. BridgeInit => ClosingInv
  BY DEF BridgeInit, Init, ClosingInv, NothingSentAfterClosing, Threads
<1>2. BridgeTypeInv /\ ClosingInv /\ [BridgeNext]_bridgeVars => BridgeTypeInv' /\ ClosingInv'
  BY BridgeTypeNext, ClosingNext
<1>3. ClosingInv => NothingSentAfterClosing
  BY DEF ClosingInv
<1> QED BY BridgeTypeInit, <1>1, <1>2, <1>3, PTL DEF BridgeSpec

-----------------------------------------------------------------------------
(* A user who waits for the prompt: the parts of the client that no lock covers *)
(* never meet, one message is under way at a time, and what oClingo receives is  *)
(* what the observation channel promises.                                       *)
(*                                                                             *)
(* The argument: a message is written only when every one before it was         *)
(* answered; an answer comes after its message was received whole; and the       *)
(* handler of the answer runs after the one that pops the message, because       *)
(* the io thread takes the completed handlers in order.                         *)

(* Writes and packets in a queue of handlers. *)

NoWrite(queue) == Writes(queue) = {}
OneWrite(queue) == \A i, j \in Writes(queue) : i = j
OnlyFailed(queue) == \A i \in Writes(queue) : queue[i].error
\* A write that succeeded, before every packet the driver has not seen.
SentFirst(queue) == \E i \in Writes(queue) : ~queue[i].error /\ \A j \in Unseen(queue) : i < j

\* The element at i of a longer queue is one of the old ones or the new one.
LEMMA Longer ==
  ASSUME NEW q \in Seq(Handler), NEW h \in Handler
  PROVE  /\ Writes(q) \subseteq 1..Len(q) /\ Unseen(q) \subseteq 1..Len(q)
         /\ h.kind # "write" => Writes(Append(q, h)) = Writes(q)
         /\ h.kind = "write" => Writes(Append(q, h)) = Writes(q) \cup {Len(q) + 1}
         /\ ~(h.kind = "read" /\ ~h.error) => Unseen(Append(q, h)) = Unseen(q)
         /\ h.kind = "read" => Unseen(Append(q, h)) \subseteq Unseen(q) \cup {Len(q) + 1}
         /\ \A i \in 1..Len(q) : Append(q, h)[i] = q[i]
         /\ Append(q, h)[Len(q) + 1] = h
<1>1. /\ Len(Append(q, h)) = Len(q) + 1 /\ Len(q) \in Nat
      /\ \A i \in 1..Len(q) : Append(q, h)[i] = q[i]
      /\ Append(q, h)[Len(q) + 1] = h
  BY AppendProperties, LenProperties
<1>2. 1..Len(q) + 1 = 1..Len(q) \cup {Len(q) + 1}
  BY <1>1
<1> QED BY <1>1, <1>2 DEF Writes, Unseen

\* A handler that is neither a write nor a packet changes nothing.
LEMMA AppendOther ==
  ASSUME NEW q \in Seq(Handler), NEW h \in Handler,
         h.kind # "write", h.kind = "read" => h.error
  PROVE  /\ NoWrite(Append(q, h)) <=> NoWrite(q)
         /\ OneWrite(q) => OneWrite(Append(q, h))
         /\ OnlyFailed(q) => OnlyFailed(Append(q, h))
         /\ SentFirst(q) => SentFirst(Append(q, h))
<1>1. Writes(Append(q, h)) = Writes(q) /\ Unseen(Append(q, h)) = Unseen(q)
  BY Longer
<1>2. \A i \in Writes(q) : i \in 1..Len(q)
  BY Longer
<1>3. \A i \in Writes(q) : Append(q, h)[i] = q[i]
  BY <1>2, Longer
<1> QED BY <1>1, <1>3 DEF NoWrite, OneWrite, OnlyFailed, SentFirst

\* A packet is queued behind a write that is there.
LEMMA AppendPacket ==
  ASSUME NEW q \in Seq(Handler), NEW h \in Handler, h.kind = "read"
  PROVE  /\ NoWrite(Append(q, h)) <=> NoWrite(q)
         /\ OneWrite(q) => OneWrite(Append(q, h))
         /\ OnlyFailed(q) => OnlyFailed(Append(q, h))
         /\ SentFirst(q) => SentFirst(Append(q, h))
<1>1. Writes(Append(q, h)) = Writes(q)
  BY Longer
<1>2. Unseen(Append(q, h)) \subseteq Unseen(q) \cup {Len(q) + 1}
  BY Longer
<1>3. \A i \in Writes(q) : i \in 1..Len(q) /\ i < Len(q) + 1
  BY Longer, LenProperties
<1>4. \A i \in 1..Len(q) : Append(q, h)[i] = q[i]
  BY Longer
<1>5. SentFirst(q) => SentFirst(Append(q, h))
  <2> SUFFICES ASSUME SentFirst(q) PROVE SentFirst(Append(q, h))
    OBVIOUS
  <2>1. PICK i \in Writes(q) : ~q[i].error /\ \A j \in Unseen(q) : i < j
    BY DEF SentFirst
  <2> QED BY <1>1, <1>2, <1>3, <1>4, <2>1 DEF SentFirst
<1> QED BY <1>1, <1>3, <1>4, <1>5 DEF NoWrite, OneWrite, OnlyFailed

\* The only write, which failed, or which is queued before any packet.
LEMMA AppendWrite ==
  ASSUME NEW q \in Seq(Handler), NEW h \in Handler, h.kind = "write", NoWrite(q)
  PROVE  /\ ~NoWrite(Append(q, h)) /\ OneWrite(Append(q, h))
         /\ h.error => OnlyFailed(Append(q, h))
         /\ ~h.error /\ Unseen(q) = {} => SentFirst(Append(q, h))
<1>1. Writes(Append(q, h)) = {Len(q) + 1} /\ Append(q, h)[Len(q) + 1] = h
  BY Longer DEF NoWrite
<1>2. Unseen(Append(q, h)) = Unseen(q)
  BY Longer
<1> QED BY <1>1, <1>2 DEF NoWrite, OneWrite, OnlyFailed, SentFirst

LEMMA TailQueue ==
  ASSUME NEW q \in Seq(Handler), q # <<>>
  PROVE  /\ Tail(q) \in Seq(Handler)
         /\ \A i \in Writes(Tail(q)) : i + 1 \in Writes(q) /\ Tail(q)[i] = q[i + 1] /\ i \in Nat \ {0}
         /\ \A i \in Unseen(Tail(q)) : i + 1 \in Unseen(q) /\ i \in Nat
         /\ Head(q) = q[1] /\ 1 \in 1..Len(q)
         /\ Head(q).kind # "write" => \A i \in Writes(q) : i - 1 \in Writes(Tail(q))
<1>1. /\ Tail(q) \in Seq(Handler) /\ Len(q) \in Nat \ {0} /\ Len(Tail(q)) = Len(q) - 1
      /\ \A i \in 1..Len(Tail(q)) : Tail(q)[i] = q[i + 1]
      /\ Head(q) = q[1]
  BY HeadTailProperties, LenProperties, EmptySeq
<1>2. \A i \in 1..Len(Tail(q)) : i \in Nat \ {0} /\ i + 1 \in 1..Len(q)
  BY <1>1
<1>3. \A i \in 1..Len(q) : i # 1 => i - 1 \in 1..Len(Tail(q)) /\ (i - 1) + 1 = i
  BY <1>1
<1>4. ASSUME Head(q).kind # "write", NEW i \in Writes(q) PROVE i - 1 \in Writes(Tail(q))
  <2>1. i \in 1..Len(q) /\ q[i].kind = "write" /\ i # 1
    BY <1>1, <1>4 DEF Writes
  <2> QED BY <1>1, <1>3, <2>1 DEF Writes
<1> QED BY <1>1, <1>2, <1>4 DEF Writes, Unseen

\* A handler that is no write is taken: it was no packet if a write is first.
LEMMA TailOther ==
  ASSUME NEW q \in Seq(Handler), q # <<>>, Head(q).kind # "write"
  PROVE  /\ NoWrite(Tail(q)) <=> NoWrite(q)
         /\ OneWrite(q) => OneWrite(Tail(q))
         /\ OnlyFailed(q) => OnlyFailed(Tail(q))
         /\ SentFirst(q) => SentFirst(Tail(q)) /\ ~(Head(q).kind = "read" /\ ~Head(q).error)
<1>1. NoWrite(Tail(q)) <=> NoWrite(q)
  BY TailQueue DEF NoWrite
<1>2. OneWrite(q) => OneWrite(Tail(q))
  <2> SUFFICES ASSUME OneWrite(q), NEW i \in Writes(Tail(q)), NEW j \in Writes(Tail(q)) PROVE i = j
    BY DEF OneWrite
  <2>1. i + 1 = j + 1 /\ i \in Nat /\ j \in Nat
    BY TailQueue DEF OneWrite
  <2> QED BY <2>1
<1>3. OnlyFailed(q) => OnlyFailed(Tail(q))
  BY TailQueue DEF OnlyFailed
<1>4. ASSUME SentFirst(q)
      PROVE  SentFirst(Tail(q)) /\ ~(Head(q).kind = "read" /\ ~Head(q).error)
  <2>1. PICK i \in Writes(q) : ~q[i].error /\ \A j \in Unseen(q) : i < j
    BY <1>4 DEF SentFirst
  <2>2. i - 1 \in Writes(Tail(q)) /\ i \in Nat /\ i # 0
    BY TailQueue, LenProperties DEF Writes
  <2>3. ~Tail(q)[i - 1].error
    <3> DEFINE k == i - 1
    <3>1. Tail(q)[k] = q[k + 1]
      BY <2>2, TailQueue
    <3>2. k + 1 = i
      BY <2>2
    <3> QED BY <2>1, <3>1, <3>2
  <2>4. \A j \in Unseen(Tail(q)) : i - 1 < j
    <3> SUFFICES ASSUME NEW j \in Unseen(Tail(q)) PROVE i - 1 < j
      OBVIOUS
    <3>1. i < j + 1 /\ j \in Nat
      BY <2>1, TailQueue
    <3> QED BY <2>2, <3>1
  <2>5. ASSUME Head(q).kind = "read", ~Head(q).error PROVE FALSE
    <3>1. 1 \in Unseen(q)
      BY <2>5, TailQueue DEF Unseen
    <3> QED BY <2>1, <2>2, <3>1
  <2> QED BY <2>2, <2>3, <2>4, <2>5 DEF SentFirst
<1> QED BY <1>1, <1>2, <1>3, <1>4

\* The only write is taken.
LEMMA TailWrite ==
  ASSUME NEW q \in Seq(Handler), q # <<>>, Head(q).kind = "write", OneWrite(q)
  PROVE  /\ NoWrite(Tail(q)) /\ ~NoWrite(q)
         /\ OnlyFailed(q) => Head(q).error
         /\ SentFirst(q) => ~Head(q).error
<1>1. 1 \in Writes(q) /\ Head(q) = q[1]
  BY TailQueue DEF Writes
<1>2. \A i \in Writes(q) : i = 1
  BY <1>1 DEF OneWrite
<1>3. \A i \in Writes(Tail(q)) : FALSE
  BY <1>2, TailQueue
<1> QED BY <1>1, <1>2, <1>3 DEF NoWrite, OnlyFailed, SentFirst

\* What is queued when the connection goes and at most one write was under way.
LEMMA AbortQueue ==
  ASSUME TypeOK
  PROVE  /\ ops = <<>> =>
              /\ NoWrite(ready) => NoWrite(ready \o Aborted)
              /\ OneWrite(ready) => OneWrite(ready \o Aborted)
              /\ OnlyFailed(ready) => OnlyFailed(ready \o Aborted)
              /\ SentFirst(ready) => SentFirst(ready \o Aborted)
         /\ Len(ops) = 1 /\ NoWrite(ready) =>
              OneWrite(ready \o Aborted) /\ OnlyFailed(ready \o Aborted)
<1> DEFINE queue == ready \o Aborted
<1>1. /\ Len(queue) = Len(ready) + Len(ops) + (IF receiving THEN 1 ELSE 0)
      /\ \A i \in 1..Len(queue) :
           \/ i <= Len(ready) /\ queue[i] = ready[i]
           \/ /\ i > Len(ready) /\ i <= Len(ready) + Len(ops)
              /\ queue[i] = [kind |-> "write", error |-> TRUE]
           \/ receiving /\ queue[i] = [kind |-> "read", error |-> TRUE]
  BY AbortElement DEF Completion
<1>2. Len(ready) \in Nat /\ Len(ops) \in Nat /\ (ops = <<>> => Len(ops) = 0)
  BY LenProperties DEF TypeOK
<1>3. 1..Len(ready) \subseteq 1..Len(queue)
  BY <1>1, <1>2
<1>4. \A i \in 1..Len(ready) : queue[i] = ready[i]
  BY <1>1, <1>2, <1>3
<1> HIDE DEF queue
<1>5. CASE ops = <<>>
  <2>1. \A i \in 1..Len(queue) : queue[i].kind = "write" => i \in 1..Len(ready)
    BY <1>1, <1>2, <1>5
  <2>2. \A i \in 1..Len(queue) : queue[i].kind = "read" /\ ~queue[i].error => i \in 1..Len(ready)
    BY <1>1, <1>2, <1>5
  <2>3. Writes(queue) = Writes(ready) /\ \A i \in Writes(ready) : queue[i] = ready[i]
    BY <1>3, <1>4, <2>1 DEF Writes
  <2>4. Unseen(queue) = Unseen(ready)
    BY <1>3, <1>4, <2>2 DEF Unseen
  <2>5. Len(ops) # 1
    BY <1>2, <1>5
  <2> QED BY <2>3, <2>4, <2>5 DEF NoWrite, OneWrite, OnlyFailed, SentFirst, queue
<1>6. CASE Len(ops) = 1
  <2> SUFFICES ASSUME NoWrite(ready) PROVE OneWrite(queue) /\ OnlyFailed(queue)
    BY <1>2, <1>6 DEF queue
  <2>1. \A i \in 1..Len(ready) : ready[i].kind # "write"
    BY DEF NoWrite, Writes
  <2>2. \A i \in Writes(queue) : i = Len(ready) + 1 /\ queue[i].error
    BY <1>1, <1>2, <1>6, <2>1 DEF Writes
  <2> QED BY <2>2 DEF OneWrite, OnlyFailed
<1> QED BY <1>2, <1>5, <1>6
-----------------------------------------------------------------------------
(* The messages that oClingo received. *)

Count == Cardinality(Ends)

LEMMA CountType ==
  ASSUME TypeOK
  PROVE  IsFiniteSet(Ends) /\ Count \in Nat
<1>1. IsFiniteSet(1..Len(wire))
  BY LenProperties, FS_Interval DEF TypeOK
<1>2. Ends \subseteq 1..Len(wire)
  BY DEF Ends
<1>3. IsFiniteSet(Ends)
  BY <1>1, <1>2, FS_Subset
<1> QED BY <1>3, FS_CardinalityType DEF Count

LEMMA CountStays ==
  ASSUME wire' = wire
  PROVE  Ends' = Ends /\ Count' = Count
  BY DEF Ends, Count

\* Only the last piece of a message makes one more.
LEMMA CountGrows ==
  ASSUME TypeOK, NEW e \in Sent, wire' = Append(wire, e)
  PROVE  /\ e.piece = Pieces => Ends' = Ends \cup {Len(wire) + 1} /\ Count' = Count + 1
         /\ e.piece # Pieces => Ends' = Ends /\ Count' = Count
<1>1. wire \in Seq(Sent)
  BY DEF TypeOK
<1>2. /\ Len(wire') = Len(wire) + 1 /\ Len(wire) \in Nat
      /\ \A i \in 1..Len(wire) : wire'[i] = wire[i]
      /\ wire'[Len(wire) + 1] = e
  BY <1>1, AppendProperties, LenProperties
<1>3. 1..Len(wire') = 1..Len(wire) \cup {Len(wire) + 1} /\ Len(wire) + 1 \notin Ends
  BY <1>2 DEF Ends
<1>4. CASE e.piece = Pieces
  <2>1. Ends' = Ends \cup {Len(wire) + 1}
    BY <1>2, <1>3, <1>4 DEF Ends
  <2>2. Cardinality(Ends \cup {Len(wire) + 1}) = Cardinality(Ends) + 1
    BY <1>3, CountType, FS_AddElement
  <2> QED BY <1>4, <2>1, <2>2 DEF Count
<1>5. CASE e.piece # Pieces
  <2>1. Ends' = Ends
    BY <1>2, <1>3, <1>5 DEF Ends
  <2> QED BY <1>5, <2>1 DEF Count
<1> QED BY <1>4, <1>5
-----------------------------------------------------------------------------
(* One message under way: it is being started, sent, reported or popped. *)

Starting == pc["main"] \in {"fill", "start"}
Popping == pc["io"] \in {"pop", "check"}

OneMessage == mWriteBuf = <<>> \/ (Len(mWriteBuf) = 1 /\ mWriteBuf[1].msg = written)

\* Until the message is popped and that is noticed, the user has no prompt.
Unanswered == mWriteBuf # <<>> \/ pc["io"] = "check" => prompts + 1 = written

StartHolds ==
  Starting => /\ mWriteBuf # <<>> /\ ops = <<>> /\ NoWrite(ready) /\ ~Popping
              /\ Count < written
              /\ pc["main"] = "fill" => ~writeInProgress
              /\ pc["main"] = "start" => mWriteBuf[1].filled

SendHolds ==
  ops # <<>> => /\ mWriteBuf # <<>> /\ NoWrite(ready) /\ ~Popping
                /\ Len(ops) = 1 /\ ops[1].msg = written /\ ops[1].left >= 1
                /\ Count < written

ReportHolds ==
  /\ OneWrite(ready)
  /\ ~NoWrite(ready) => mWriteBuf # <<>> /\ ~Popping
  /\ OnlyFailed(ready) \/ Count = written

PopHolds ==
  /\ pc["io"] = "pop" => mWriteBuf # <<>>
  /\ pc["io"] = "check" => mWriteBuf = <<>>
  /\ pc["io"] # "front"

\* No answer to the message is handled before the message is popped.
AnswerAfter ==
  mWriteBuf # <<>> => \/ Count < written
                      \/ pc["io"] = "pop"
                      \/ pc["io"] # "callback" /\ SentFirst(ready)

PaceClient ==
  /\ ub \subseteq {"thread deleted twice"}
  /\ packets <= Count /\ Count <= written
  /\ OneMessage /\ Unanswered
  /\ StartHolds /\ SendHolds /\ ReportHolds /\ PopHolds
  /\ AnswerAfter

\* The state in which a step of the client begins.
PaceState == TypeOK /\ PromptsBehind /\ prompts \in Nat /\ PaceClient

LEMMA Numbers ==
  ASSUME TypeOK
  PROVE  written \in Nat /\ packets \in Nat /\ Count \in Nat
  BY CountType, BoundsAssumption DEF TypeOK

\* What a queue keeps of the writes in it.
Kept(old, new) ==
  /\ NoWrite(old) => NoWrite(new)
  /\ OneWrite(old) => OneWrite(new)
  /\ OnlyFailed(old) => OnlyFailed(new)
  /\ SentFirst(old) => SentFirst(new)

\* Steps that only move a thread or queue something that is no write.
LEMMA PaceMoves ==
  ASSUME PaceState, Kept(ready, ready'),
         UNCHANGED <<mWriteBuf, written, writeInProgress, ops, wire>>,
         packets' <= Count,
         prompts' = prompts \/ (mWriteBuf = <<>> /\ pc'["io"] # "check"),
         pc'["main"] = pc["main"] \/ pc'["main"] \notin {"fill", "start"},
         \/ pc'["io"] = pc["io"]
         \/ pc["io"] \notin {"pop", "check", "front"} /\ pc'["io"] \notin {"pop", "check", "front"},
         pc'["io"] = "callback" => mWriteBuf = <<>> \/ Count < written \/ pc["io"] = "callback",
         ub' \subseteq {"thread deleted twice"}
  PROVE  PaceClient'
<1>1. Count' = Count
  BY CountStays
<1>2. OneMessage' /\ Unanswered'
  BY DEF PaceState, PaceClient, OneMessage, Unanswered, PopHolds
<1>3. Popping' => Popping
  BY DEF Popping
<1>4. Starting' => Starting /\ pc'["main"] = pc["main"]
  BY DEF Starting
<1>5. StartHolds' /\ SendHolds'
  BY <1>1, <1>3, <1>4 DEF PaceState, PaceClient, StartHolds, SendHolds, Kept
<1>6. ReportHolds' /\ PopHolds'
  BY <1>1, <1>3 DEF PaceState, PaceClient, ReportHolds, PopHolds, Kept
<1>7. AnswerAfter'
  BY <1>1 DEF PaceState, PaceClient, AnswerAfter, Kept
<1> QED BY <1>1, <1>2, <1>5, <1>6, <1>7 DEF PaceState, PaceClient
-----------------------------------------------------------------------------
(* The steps of a write. *)

\* A message is pushed when all before it were answered: nothing is under way.
LEMMA PacePush ==
  ASSUME PaceState, WritePush, prompts >= written, prompts' = prompts
  PROVE  PaceClient'
<1> USE DEF asioVars, peerVars
<1>1. /\ TypeOK /\ written \in Nat /\ packets \in Nat /\ Count \in Nat /\ prompts \in Nat
      /\ prompts <= packets /\ packets <= Count /\ Count <= written
  BY Numbers DEF PaceState, PromptsBehind, PaceClient
<1>2. prompts = written /\ Count = written /\ packets = written
  BY <1>1
<1>3. mWriteBuf = <<>> /\ pc["io"] # "check"
  <2>1. Unanswered
    BY DEF PaceState, PaceClient
  <2>2. prompts + 1 # written
    BY <1>1, <1>2
  <2> QED BY <2>1, <2>2 DEF Unanswered
<1>4. NoWrite(ready) /\ ops = <<>> /\ ~Popping
  BY <1>3 DEF PaceState, PaceClient, SendHolds, ReportHolds, PopHolds, Popping
<1>5. /\ written' = written + 1 /\ ~writeInProgress'
      /\ mWriteBuf' = Append(mWriteBuf, [msg |-> written + 1, filled |-> FALSE])
      /\ pc' = [pc EXCEPT !["main"] = "fill"]
      /\ UNCHANGED <<ops, ready, packets, wire, ub>>
  BY <1>3, Zenon DEF WritePush, Goto
<1>6. Len(mWriteBuf') = 1 /\ mWriteBuf'[1].msg = written' /\ mWriteBuf' # <<>>
  BY <1>3, <1>5
<1>7. pc'["io"] = pc["io"] /\ pc'["main"] = "fill"
  BY <1>1, <1>5 DEF TypeOK, Threads
<1>8. Count' = Count
  BY <1>5, CountStays
<1>9. Count' < written' /\ prompts' + 1 = written'
  BY <1>1, <1>2, <1>5, <1>8
<1>10. OneMessage' /\ Unanswered' /\ AnswerAfter'
  BY <1>6, <1>9 DEF OneMessage, Unanswered, AnswerAfter
<1>11. StartHolds' /\ SendHolds'
  BY <1>4, <1>5, <1>6, <1>7, <1>9 DEF StartHolds, SendHolds, Popping
<1>12. ReportHolds' /\ PopHolds'
  BY <1>4, <1>5, <1>6, <1>7 DEF PaceState, PaceClient, ReportHolds, PopHolds, Popping, NoWrite, OnlyFailed
<1>13. packets' <= Count' /\ Count' <= written' /\ ub' \subseteq {"thread deleted twice"}
  <2>1. packets' <= Count' /\ Count' <= written'
    BY <1>1, <1>2, <1>5, <1>8
  <2>2. ub' = {}
    BY <1>5 DEF WritePush, At
  <2> QED BY <2>1, <2>2
<1> QED BY <1>10, <1>11, <1>12, <1>13 DEF PaceClient

LEMMA PaceFill ==
  ASSUME PaceState, WriteFill, prompts' = prompts
  PROVE  PaceClient'
<1> USE DEF asioVars, peerVars
<1>1. TypeOK /\ Starting /\ pc["main"] = "fill"
  BY DEF PaceState, WriteFill, At, Starting
<1>2. /\ mWriteBuf # <<>> /\ ops = <<>> /\ NoWrite(ready) /\ ~Popping /\ Count < written
      /\ ~writeInProgress /\ OneMessage
  BY <1>1 DEF PaceState, PaceClient, StartHolds
<1>3. Len(mWriteBuf) = 1 /\ mWriteBuf[1].msg = written
  BY <1>2 DEF OneMessage
<1>4. /\ mWriteBuf' = [mWriteBuf EXCEPT ![Len(mWriteBuf)].filled = TRUE]
      /\ pc' = [pc EXCEPT !["main"] = "start"]
      /\ UNCHANGED <<written, writeInProgress, ops, ready, packets, wire, ub>>
  BY <1>2, Zenon DEF WriteFill, Goto
<1>5. mWriteBuf' # <<>> /\ Len(mWriteBuf') = 1 /\ mWriteBuf'[1].msg = written /\ mWriteBuf'[1].filled
  <2>0. mWriteBuf \in Seq(Entry) /\ 1 \in 1..Len(mWriteBuf)
    BY <1>1, <1>3 DEF TypeOK
  <2>1. mWriteBuf \in Seq(Entry) /\ mWriteBuf[1] \in Entry
    BY <2>0, ElementOfSeq
  <2>2. mWriteBuf' = [mWriteBuf EXCEPT ![1].filled = TRUE]
    BY <1>3, <1>4
  <2>3. Len(mWriteBuf') = 1 /\ DOMAIN mWriteBuf = 1..1
    BY <1>3, <2>1, <2>2, ExceptSeq
  <2>4. mWriteBuf'[1] = [mWriteBuf[1] EXCEPT !.filled = TRUE]
    BY <2>2, <2>3
  <2>5. mWriteBuf' # <<>>
    BY <2>3, EmptySeq
  <2> QED BY <1>3, <2>1, <2>3, <2>4, <2>5 DEF Entry
<1>6. pc'["io"] = pc["io"] /\ pc'["main"] = "start"
  BY <1>1, <1>4 DEF TypeOK, Threads
<1>7. Count' = Count
  BY <1>4, CountStays
<1>8. OneMessage' /\ Unanswered' /\ AnswerAfter'
  BY <1>2, <1>4, <1>5, <1>6, <1>7 DEF PaceState, PaceClient, OneMessage, Unanswered, AnswerAfter
<1>9. StartHolds' /\ SendHolds'
  BY <1>2, <1>4, <1>5, <1>6, <1>7 DEF StartHolds, SendHolds, Popping
<1>10. ReportHolds' /\ PopHolds'
  BY <1>2, <1>4, <1>5, <1>6, <1>7 DEF PaceState, PaceClient, ReportHolds, PopHolds, Popping
<1> QED BY <1>4, <1>7, <1>8, <1>9, <1>10 DEF PaceState, PaceClient

\* The message is there and filled: the write starts, or fails on a connection
\* that is gone.
LEMMA PaceStart ==
  ASSUME PaceState, WriteStart, prompts' = prompts
  PROVE  PaceClient'
<1> USE DEF bufferVars, peerVars
<1>1. TypeOK /\ Starting /\ pc["main"] = "start" /\ ready \in Seq(Handler) /\ ops \in Seq(WriteOp)
  BY DEF PaceState, WriteStart, At, Starting, TypeOK
<1>2. /\ mWriteBuf # <<>> /\ ops = <<>> /\ NoWrite(ready) /\ ~Popping /\ Count < written
      /\ mWriteBuf[1].filled /\ OneMessage
  BY <1>1 DEF PaceState, PaceClient, StartHolds
<1>3. Len(mWriteBuf) = 1 /\ mWriteBuf[1].msg = written
  BY <1>2 DEF OneMessage
<1>4. Head(mWriteBuf) = mWriteBuf[1]
  BY <1>1, <1>2, HeadTailProperties DEF TypeOK
<1>5. /\ AsyncWriteFront /\ pc' = [pc EXCEPT !["main"] = "out"]
      /\ UNCHANGED <<mWriteBuf, written, writeInProgress, packets, wire>>
  BY Zenon DEF WriteStart, Goto
<1>6. pc'["io"] = pc["io"] /\ pc'["main"] = "out"
  BY <1>1, <1>5 DEF TypeOK, Threads
<1>7. Count' = Count
  BY <1>5, CountStays
<1>8. OneMessage' /\ Unanswered' /\ AnswerAfter' /\ PopHolds' /\ StartHolds' /\ ~Popping'
  BY <1>2, <1>5, <1>6, <1>7 DEF PaceState, PaceClient, OneMessage, Unanswered, AnswerAfter, PopHolds,
     StartHolds, Starting, Popping
<1>9. ub' = ub
  BY <1>2, <1>5 DEF AsyncWriteFront
<1>10. CASE socket = "connected"
  <2>1. ready' = ready /\ ops' = Append(ops, [msg |-> written, left |-> Pieces])
    BY <1>2, <1>3, <1>4, <1>5, <1>10 DEF AsyncWriteFront, Size
  <2>2. Len(ops') = 1 /\ ops'[1] = [msg |-> written, left |-> Pieces] /\ ops' # <<>>
    BY <1>2, <2>1
  <2>3. SendHolds'
    BY <1>2, <1>5, <1>7, <1>8, <2>1, <2>2, BoundsAssumption DEF SendHolds
  <2>4. ReportHolds'
    BY <1>2, <1>5, <1>7, <1>8, <2>1 DEF PaceState, PaceClient, ReportHolds
  <2> QED BY <1>5, <1>7, <1>8, <1>9, <2>3, <2>4 DEF PaceState, PaceClient
<1>11. CASE socket # "connected"
  <2>1. ops' = ops /\ ready' = Append(ready, Completion("write", TRUE))
    BY <1>2, <1>5, <1>11 DEF AsyncWriteFront
  <2>2. ~NoWrite(ready') /\ OneWrite(ready') /\ OnlyFailed(ready')
    BY <1>1, <1>2, <2>1, AppendWrite, CompletionIsHandler DEF Completion
  <2>3. SendHolds' /\ ReportHolds'
    BY <1>2, <1>5, <1>8, <2>1, <2>2 DEF SendHolds, ReportHolds
  <2> QED BY <1>5, <1>7, <1>8, <1>9, <2>3 DEF PaceState, PaceClient
<1> QED BY <1>10, <1>11

\* The connection goes: the write under way, if any, fails.
LEMMA PaceAbort ==
  ASSUME PaceState, ready' = ready \o Aborted, ops' = <<>>,
         UNCHANGED <<mWriteBuf, written, writeInProgress, packets, wire, prompts, ub>>,
         pc'["main"] = pc["main"] \/ pc'["main"] \notin {"fill", "start"},
         \/ pc'["io"] = pc["io"]
         \/ pc["io"] \notin {"pop", "check", "front"}
            /\ pc'["io"] \notin {"pop", "check", "front", "callback"}
  PROVE  PaceClient'
<1>1. TypeOK /\ Count' = Count
  BY CountStays DEF PaceState
<1>2. CASE ops = <<>>
  <2>1. Kept(ready, ready')
    BY <1>1, <1>2, AbortQueue DEF Kept
  <2>2. packets' <= Count /\ ub' \subseteq {"thread deleted twice"}
    BY DEF PaceState, PaceClient
  <2> QED BY <1>2, <2>1, <2>2, PaceMoves
<1>3. CASE ops # <<>>
  <2>1. /\ mWriteBuf # <<>> /\ NoWrite(ready) /\ ~Popping /\ Len(ops) = 1 /\ Count < written
        /\ ~Starting
    BY <1>3 DEF PaceState, PaceClient, SendHolds, StartHolds
  <2>2. OneWrite(ready') /\ OnlyFailed(ready')
    BY <1>1, <2>1, AbortQueue
  <2>3. ~Popping' /\ ~Starting'
    BY <2>1 DEF Popping, Starting
  <2>4. OneMessage' /\ Unanswered' /\ AnswerAfter'
    BY <1>1, <2>1 DEF PaceState, PaceClient, OneMessage, Unanswered, AnswerAfter
  <2>5. StartHolds' /\ SendHolds' /\ ReportHolds' /\ PopHolds'
    BY <1>1, <2>1, <2>2, <2>3 DEF PaceState, PaceClient, StartHolds, SendHolds, ReportHolds, PopHolds, Popping
  <2> QED BY <1>1, <2>4, <2>5 DEF PaceState, PaceClient
<1> QED BY <1>2, <1>3

\* handler_write runs for the one message, before any answer to it.
LEMMA PaceHandler ==
  ASSUME PaceState, NEW e \in BOOLEAN, HandlerWrite(e), prompts' = prompts
  PROVE  PaceClient'
<1> USE DEF bufferVars, peerVars
<1>1. TypeOK /\ ready \in Seq(Handler) /\ ready # <<>> /\ Head(ready) = Completion("write", e)
  BY Zenon DEF PaceState, TypeOK, HandlerWrite, TakeHandler
<1>2. Head(ready).kind = "write" /\ Head(ready).error = e
  BY <1>1 DEF Completion
<1>3. OneWrite(ready)
  BY DEF PaceState, PaceClient, ReportHolds
<1>4. /\ ~NoWrite(ready) /\ NoWrite(Tail(ready))
      /\ OnlyFailed(ready) => e
      /\ SentFirst(ready) => ~e
  BY <1>1, <1>2, <1>3, TailWrite
<1>5. /\ mWriteBuf # <<>> /\ ops = <<>> /\ ~Starting
      /\ ~e => Count = written
  BY <1>4 DEF PaceState, PaceClient, ReportHolds, SendHolds, StartHolds
<1>6. /\ ready' = Tail(ready) /\ pc["io"] = "run"
      /\ pc' = [pc EXCEPT !["io"] = IF e THEN "close socket" ELSE "pop"]
      /\ UNCHANGED <<mWriteBuf, written, writeInProgress, ops, packets, wire, ub>>
  BY Zenon DEF HandlerWrite, TakeHandler, At, Goto
<1>7. pc'["main"] = pc["main"] /\ pc'["io"] = IF e THEN "close socket" ELSE "pop"
  BY <1>1, <1>6 DEF TypeOK, Threads
<1>8. Count' = Count
  BY <1>6, CountStays
<1>9. e => Count < written
  <2> SUFFICES ASSUME e PROVE Count < written
    OBVIOUS
  <2>1. AnswerAfter /\ pc["io"] # "pop"
    BY <1>6 DEF PaceState, PaceClient
  <2> QED BY <1>4, <1>5, <2>1 DEF AnswerAfter
<1>10. NoWrite(ready') /\ OneWrite(ready') /\ OnlyFailed(ready')
  BY <1>4, <1>6 DEF NoWrite, OneWrite, OnlyFailed
<1>11. OneMessage' /\ Unanswered' /\ AnswerAfter'
  BY <1>5, <1>6, <1>7, <1>8, <1>9 DEF PaceState, PaceClient, OneMessage, Unanswered, AnswerAfter
<1>12. StartHolds' /\ SendHolds' /\ ReportHolds'
  BY <1>5, <1>6, <1>7, <1>10 DEF StartHolds, SendHolds, ReportHolds, Starting
<1>13. PopHolds'
  <2>1. mWriteBuf' # <<>> /\ pc'["io"] \in {"close socket", "pop"}
    BY <1>5, <1>6, <1>7
  <2> QED BY <2>1 DEF PopHolds
<1> QED BY <1>6, <1>8, <1>11, <1>12, <1>13 DEF PaceState, PaceClient

\* There is a message to pop, and none after it: no next write is started.
LEMMA PacePop ==
  ASSUME PaceState, PopFront \/ CheckEmpty, prompts' = prompts
  PROVE  PaceClient'
<1> USE DEF bufferVars, asioVars, peerVars
<1>1. TypeOK /\ Popping
  BY DEF PaceState, PopFront, CheckEmpty, At, Popping
<1>2. ops = <<>> /\ NoWrite(ready) /\ ~Starting /\ PopHolds /\ OneMessage /\ Unanswered
  BY <1>1 DEF PaceState, PaceClient, StartHolds, SendHolds, ReportHolds
<1>3. OneWrite(ready) /\ OnlyFailed(ready)
  BY <1>2 DEF NoWrite, OneWrite, OnlyFailed
<1>4. UNCHANGED <<written, writeInProgress, ops, ready, packets, wire>>
  BY Zenon DEF PopFront, CheckEmpty
<1>5. Count' = Count
  BY <1>4, CountStays
<1>6. CASE PopFront
  <2>1. pc["io"] = "pop" /\ mWriteBuf # <<>>
    BY <1>2, <1>6 DEF PopFront, At, PopHolds
  <2>2. mWriteBuf' = Tail(mWriteBuf) /\ ub' = ub /\ pc' = [pc EXCEPT !["io"] = "check"]
    BY <1>6, <2>1, Zenon DEF PopFront, Goto
  <2>3. mWriteBuf' = <<>>
    <3>1. mWriteBuf \in Seq(Entry) /\ Len(mWriteBuf) = 1
      BY <1>1, <1>2, <2>1 DEF TypeOK, OneMessage
    <3>2. Tail(mWriteBuf) \in Seq(Entry) /\ Len(Tail(mWriteBuf)) = 0
      BY <2>1, <3>1, HeadTailProperties
    <3> QED BY <2>2, <3>2, EmptySeq
  <2>4. pc'["main"] = pc["main"] /\ pc'["io"] = "check"
    BY <1>1, <2>2 DEF TypeOK, Threads
  <2>5. OneMessage' /\ Unanswered' /\ AnswerAfter'
    BY <1>2, <1>4, <2>1, <2>3 DEF OneMessage, Unanswered, AnswerAfter
  <2>6. StartHolds' /\ SendHolds' /\ ReportHolds' /\ PopHolds'
    BY <1>2, <1>3, <1>4, <2>3, <2>4 DEF StartHolds, SendHolds, ReportHolds, PopHolds, Starting
  <2> QED BY <1>4, <1>5, <2>2, <2>5, <2>6 DEF PaceState, PaceClient
<1>7. CASE CheckEmpty
  <2>1. pc["io"] = "check" /\ mWriteBuf = <<>>
    BY <1>2, <1>7 DEF CheckEmpty, At, PopHolds
  <2>2. mWriteBuf' = <<>> /\ ub' = ub /\ pc' = [pc EXCEPT !["io"] = "run"]
    BY <1>7, <2>1, Zenon DEF CheckEmpty, Goto
  <2>3. pc'["main"] = pc["main"] /\ pc'["io"] = "run"
    BY <1>1, <2>2 DEF TypeOK, Threads
  <2>4. OneMessage' /\ Unanswered' /\ AnswerAfter'
    BY <2>2, <2>3 DEF OneMessage, Unanswered, AnswerAfter
  <2>5. StartHolds' /\ SendHolds' /\ ReportHolds' /\ PopHolds'
    BY <1>2, <1>3, <1>4, <2>2, <2>3 DEF StartHolds, SendHolds, ReportHolds, PopHolds, Starting
  <2> QED BY <1>4, <1>5, <2>2, <2>4, <2>5 DEF PaceState, PaceClient
<1> QED BY <1>6, <1>7

\* A piece of the message leaves; with the last one oClingo can answer, but its
\* answer will be queued behind the handler of the write.
LEMMA PaceTransfer ==
  ASSUME PaceState, Transfer, prompts' = prompts
  PROVE  PaceClient'
<1> USE DEF bufferVars
<1> DEFINE op == Head(ops)
           e == [msg |-> op.msg, piece |-> Pieces - op.left + 1]
<1>1. /\ TypeOK /\ ops \in Seq(WriteOp) /\ ready \in Seq(Handler) /\ ops # <<>>
      /\ written \in Nat /\ packets \in Nat /\ Count \in Nat /\ prompts \in Nat
  BY Numbers DEF PaceState, TypeOK, Transfer
<1>2. /\ mWriteBuf # <<>> /\ NoWrite(ready) /\ ~Popping /\ ~Starting /\ Len(ops) = 1
      /\ ops[1].msg = written /\ ops[1].left >= 1 /\ Count < written
  BY <1>1 DEF PaceState, PaceClient, SendHolds, StartHolds
<1>3. op = ops[1] /\ Tail(ops) = <<>> /\ op \in WriteOp
  <2>1. Tail(ops) \in Seq(WriteOp) /\ Len(Tail(ops)) = 0 /\ op = ops[1] /\ op \in WriteOp
    BY <1>1, <1>2, HeadTailProperties
  <2> QED BY <2>1, EmptySeq
<1>4. op.msg = written /\ op.left >= 1 /\ op.left \in 1..Pieces /\ op.msg \in 1..MaxWrites
  BY <1>2, <1>3, BoundsAssumption DEF WriteOp
<1>5. Allocated(op.msg)
  <2>1. Len(mWriteBuf) = 1 /\ mWriteBuf[1].msg = written
    BY <1>2 DEF PaceState, PaceClient, OneMessage
  <2> QED BY <1>4, <2>1 DEF Allocated
<1>6. e \in Sent /\ (e.piece = Pieces <=> op.left = 1)
  <2>1. Pieces - op.left + 1 \in 1..Pieces /\ (Pieces - op.left + 1 = Pieces <=> op.left = 1)
    BY <1>4, BoundsAssumption
  <2> QED BY <1>4, <2>1 DEF Sent
<1>7. /\ wire' = Append(wire, e) /\ ub' = ub
      /\ op.left <= 1 => ops' = Tail(ops) /\ ready' = Append(ready, Completion("write", FALSE))
      /\ ~(op.left <= 1) =>
           ops' = Append(Tail(ops), [op EXCEPT !.left = @ - 1]) /\ ready' = ready
      /\ UNCHANGED <<pc, mWriteBuf, written, writeInProgress, packets>>
  <2>1. op.left # 0
    BY <1>4
  <2> QED BY <1>5, <2>1, Zenon DEF Transfer
<1> HIDE DEF op, e
<1>8. prompts + 1 = written /\ prompts <= packets /\ packets <= Count
  BY <1>2 DEF PaceState, PaceClient, Unanswered, PromptsBehind
<1>9. Count + 1 = written /\ ~(prompts < packets)
  BY <1>1, <1>2, <1>8
<1>10. Unseen(ready) = {} /\ pc["io"] # "callback"
  BY <1>9 DEF PaceState, PromptsBehind
<1>11. ~Popping' /\ ~Starting' /\ OneMessage' /\ Unanswered' /\ PopHolds' /\ StartHolds'
  BY <1>2, <1>7 DEF PaceState, PaceClient, Popping, Starting, OneMessage, Unanswered, PopHolds,
     StartHolds
<1>12. CASE op.left = 1
  <2>0. op.left <= 1
    BY <1>12
  <2>1. ops' = <<>> /\ ready' = Append(ready, Completion("write", FALSE))
    BY <1>3, <1>7, <2>0, Zenon
  <2>2. Count' = written'
    BY <1>1, <1>6, <1>7, <1>9, <1>12, CountGrows
  <2>3. OneWrite(ready') /\ SentFirst(ready')
    BY <1>1, <1>2, <1>10, <2>1, AppendWrite, CompletionIsHandler DEF Completion
  <2>4. SendHolds' /\ ReportHolds' /\ AnswerAfter'
    BY <1>2, <1>7, <1>10, <1>11, <2>1, <2>2, <2>3 DEF SendHolds, ReportHolds, AnswerAfter
  <2>5. packets' <= Count' /\ Count' <= written'
    BY <1>1, <1>7, <1>8, <1>9, <2>2
  <2> QED BY <1>7, <1>11, <2>4, <2>5 DEF PaceState, PaceClient
<1>13. CASE op.left # 1
  <2>1. op.left > 1 /\ ~(op.left <= 1)
    BY <1>4, <1>13
  <2>2. ops' = Append(<<>>, [op EXCEPT !.left = @ - 1]) /\ ready' = ready
    BY <1>3, <1>7, <2>1, Zenon
  <2>3. Len(ops') = 1 /\ ops' # <<>> /\ ops'[1] = [op EXCEPT !.left = @ - 1]
    BY <2>2
  <2>4. ops'[1].msg = written /\ ops'[1].left >= 1
    BY <1>3, <1>4, <2>1, <2>3 DEF WriteOp
  <2>5. Count' = Count
    BY <1>1, <1>6, <1>7, <1>13, CountGrows
  <2>6. SendHolds' /\ ReportHolds' /\ AnswerAfter'
    BY <1>2, <1>7, <1>11, <2>2, <2>3, <2>4, <2>5 DEF PaceState, PaceClient, SendHolds, ReportHolds, AnswerAfter
  <2> QED BY <1>7, <1>11, <2>5, <2>6 DEF PaceState, PaceClient
<1> QED BY <1>12, <1>13
-----------------------------------------------------------------------------
(* The other steps of the client. *)

LEMMA KeptQueues ==
  ASSUME TypeOK, NEW q \in Seq(Handler), NEW h \in Handler, h.kind # "write"
  PROVE  /\ Kept(q, q) /\ Kept(q, Append(q, h))
         /\ q # <<>> /\ Head(q).kind # "write" =>
              /\ Tail(q) \in Seq(Handler)
              /\ Kept(q, Tail(q)) /\ Kept(q, Append(Tail(q), h))
<1>1. Kept(q, Append(q, h))
  <2>1. CASE h.kind = "read"
    BY <2>1, AppendPacket DEF Kept
  <2>2. CASE h.kind # "read"
    BY <2>2, AppendOther DEF Kept
  <2> QED BY <2>1, <2>2
<1>2. ASSUME q # <<>>, Head(q).kind # "write"
      PROVE  Tail(q) \in Seq(Handler) /\ Kept(q, Tail(q)) /\ Kept(q, Append(Tail(q), h))
  <2>1. Tail(q) \in Seq(Handler) /\ Kept(q, Tail(q))
    BY <1>2, TailOther, TailQueue DEF Kept
  <2>2. Kept(Tail(q), Append(Tail(q), h))
    <3>1. CASE h.kind = "read"
      BY <2>1, <3>1, AppendPacket DEF Kept
    <3>2. CASE h.kind # "read"
      BY <2>1, <3>2, AppendOther DEF Kept
    <3> QED BY <3>1, <3>2
  <2> QED BY <2>1, <2>2 DEF Kept
<1> QED BY <1>1, <1>2 DEF Kept

\* What a step of the client does to the queue of handlers: no write in it goes.
LEMMA StepKeeps ==
  ASSUME TypeOK
  PROVE  /\ HandlerConnect => Kept(ready, ready')
         /\ \A e \in BOOLEAN : HandlerRead(e) => Kept(ready, ready')
         /\ AsyncReceive => Kept(ready, ready')
         /\ Connect => Kept(ready, ready')
         /\ PeerSends => Kept(ready, ready')
         /\ ready' = ready => Kept(ready, ready')
<1>1. ready \in Seq(Handler)
  BY DEF TypeOK
<1>2. \A k \in {"connect", "read"}, e \in BOOLEAN :
        Completion(k, e) \in Handler /\ Completion(k, e).kind = k
  BY CompletionIsHandler DEF Completion
<1>3. \A k \in {"connect", "read"}, e \in BOOLEAN : Kept(ready, Append(ready, Completion(k, e)))
  BY <1>1, <1>2, KeptQueues
<1>4. ASSUME NEW k \in {"connect", "read"}, NEW e \in BOOLEAN, TakeHandler(k, e)
      PROVE  /\ Kept(ready, Tail(ready))
             /\ Kept(ready, Append(Tail(ready), Completion("read", TRUE)))
  <2>1. ready # <<>> /\ Head(ready) = Completion(k, e)
    BY <1>4, Zenon DEF TakeHandler
  <2>2. Head(ready).kind # "write"
    BY <1>2, <2>1
  <2> QED BY <1>1, <1>2, <2>1, <2>2, KeptQueues
<1>5. HandlerConnect => Kept(ready, ready')
  <2> SUFFICES ASSUME HandlerConnect PROVE Kept(ready, ready')
    OBVIOUS
  <2>1. TakeHandler("connect", FALSE)
    BY DEF HandlerConnect
  <2>2. ready' = Tail(ready) \/ ready' = Append(Tail(ready), Completion("read", TRUE))
    BY Zenon DEF HandlerConnect, Receive
  <2> QED BY <1>4, <2>1, <2>2
<1>6. \A e \in BOOLEAN : HandlerRead(e) => Kept(ready, ready')
  <2> SUFFICES ASSUME NEW e \in BOOLEAN, HandlerRead(e) PROVE Kept(ready, ready')
    OBVIOUS
  <2>1. TakeHandler("read", e) /\ ready' = Tail(ready)
    BY Zenon DEF HandlerRead
  <2> QED BY <1>4, <2>1
<1>7. ready' = ready => Kept(ready, ready')
  BY DEF Kept
<1>8. AsyncReceive => Kept(ready, ready')
  <2>1. AsyncReceive => ready' = ready \/ ready' = Append(ready, Completion("read", TRUE))
    BY Zenon DEF AsyncReceive, Receive
  <2> QED BY <1>3, <1>7, <2>1
<1>9. Connect => Kept(ready, ready')
  BY <1>3, Zenon DEF Connect
<1>10. PeerSends => Kept(ready, ready')
  BY <1>3, Zenon DEF PeerSends
<1> QED BY <1>5, <1>6, <1>7, <1>8, <1>9, <1>10

\* The part of the client that a step of its thread t leaves alone.
LEMMA PaceThread ==
  ASSUME PaceState, NEW t \in Threads, prompts' = prompts,
         \/ ClearOpen(t) \/ DeleteThread(t) \/ SeesOpen \/ UNCHANGED vars
         \/ \E l \in {"out", "closed", "callback", "callback error"} : BeginClose(t, l)
  PROVE  PaceClient'
<1> USE DEF bufferVars, asioVars, peerVars
<1>1. UNCHANGED <<mWriteBuf, written, writeInProgress, ops, ready, packets, wire>>
  BY Zenon DEF ClearOpen, DeleteThread, SeesOpen, BeginClose, vars
<1>2. TypeOK /\ Kept(ready, ready')
  BY <1>1, StepKeeps DEF PaceState
<1>3. /\ pc'["main"] = pc["main"] \/ pc'["main"] \notin {"fill", "start"}
      /\ \/ pc'["io"] = pc["io"]
         \/ /\ pc["io"] \notin {"pop", "check", "front"}
            /\ pc'["io"] \notin {"pop", "check", "front", "callback"}
  <2>1. CASE UNCHANGED vars
    BY <2>1 DEF vars
  <2>2. CASE SeesOpen
    BY <1>2, <2>2 DEF SeesOpen, At, Goto, TypeOK, Threads
  <2>3. CASE ClearOpen(t) \/ DeleteThread(t)
    BY <1>2, <2>3 DEF ClearOpen, DeleteThread, At, Goto, TypeOK, Threads
  <2>4. CASE \E l \in {"out", "closed", "callback", "callback error"} : BeginClose(t, l)
    BY <1>2, <2>4 DEF BeginClose, At, Goto, TypeOK, Threads
  <2> QED BY <2>1, <2>2, <2>3, <2>4
<1>4. ub' \subseteq {"thread deleted twice"}
  <2>1. ub \subseteq {"thread deleted twice"}
    BY DEF PaceState, PaceClient
  <2>2. ub' = ub \/ ub' = ub \cup {"thread deleted twice"}
    BY Zenon DEF ClearOpen, DeleteThread, SeesOpen, BeginClose, vars
  <2> QED BY <2>1, <2>2
<1>5. packets' <= Count
  BY <1>1 DEF PaceState, PaceClient
<1> QED BY <1>1, <1>2, <1>3, <1>4, <1>5, PaceMoves

LEMMA PaceClosing ==
  ASSUME PaceState, prompts' = prompts,
         PeerResets \/ \E t \in Threads : CloseSocket(t)
  PROVE  PaceClient'
<1> USE DEF bufferVars, asioVars, peerVars
<1>1. /\ ready' = ready \o Aborted /\ ops' = <<>>
      /\ UNCHANGED <<mWriteBuf, written, writeInProgress, packets, wire, ub>>
  BY Zenon DEF PeerResets, CloseSocket
<1>2. TypeOK
  BY DEF PaceState
<1>3. /\ pc'["main"] = pc["main"] \/ pc'["main"] \notin {"fill", "start"}
      /\ \/ pc'["io"] = pc["io"]
         \/ /\ pc["io"] \notin {"pop", "check", "front"}
            /\ pc'["io"] \notin {"pop", "check", "front", "callback"}
  <2>1. CASE PeerResets
    BY <2>1 DEF PeerResets
  <2>2. ASSUME NEW t \in Threads, CloseSocket(t)
        PROVE  /\ pc'["main"] = pc["main"] \/ pc'["main"] \notin {"fill", "start"}
               /\ \/ pc'["io"] = pc["io"]
                  \/ /\ pc["io"] \notin {"pop", "check", "front"}
                     /\ pc'["io"] \notin {"pop", "check", "front", "callback"}
    BY <1>2, <2>2 DEF CloseSocket, At, Goto, TypeOK, Threads
  <2> QED BY <2>1, <2>2
<1> QED BY <1>1, <1>3, PaceAbort

\* The packet that is handed to the driver answers the last message: that one
\* was popped, or is not on the connection yet.
LEMMA AnswerIsLast ==
  ASSUME PaceState, pc["io"] = "callback" \/ Unseen(ready) # {}, mWriteBuf # <<>>
  PROVE  pc["io"] # "callback" /\ Count = written
<1>1. written \in Nat /\ packets \in Nat /\ Count \in Nat /\ prompts \in Nat
  BY Numbers DEF PaceState
<1>2. prompts < packets /\ packets <= Count /\ Count <= written /\ prompts + 1 = written
  BY DEF PaceState, PromptsBehind, PaceClient, Unanswered
<1>3. Count = written
  BY <1>1, <1>2
<1>4. ~(Count < written)
  BY <1>1, <1>3
<1> QED BY <1>3, <1>4 DEF PaceState, PaceClient, AnswerAfter

LEMMA PaceRead ==
  ASSUME PaceState, NEW e \in BOOLEAN, HandlerRead(e), prompts' = prompts
  PROVE  PaceClient'
<1> USE DEF bufferVars, asioVars, peerVars
<1>1. TypeOK /\ ready \in Seq(Handler) /\ ready # <<>> /\ Head(ready) = Completion("read", e)
  BY Zenon DEF PaceState, TypeOK, HandlerRead, TakeHandler
<1>2. Head(ready).kind = "read" /\ Head(ready).error = e
  BY <1>1 DEF Completion
<1>3. /\ UNCHANGED <<mWriteBuf, written, writeInProgress, ops, packets, wire, ub>>
      /\ pc["io"] = "run" /\ pc' = [pc EXCEPT !["io"] = IF e THEN "callback error" ELSE "callback"]
  BY Zenon DEF HandlerRead, TakeHandler, At, Goto
<1>4. /\ pc'["main"] = pc["main"]
      /\ pc'["io"] \in {"callback", "callback error"} /\ (pc'["io"] = "callback" => ~e)
  BY <1>1, <1>3 DEF TypeOK, Threads
<1>5. Kept(ready, ready')
  BY <1>1, StepKeeps
<1>6. pc'["io"] = "callback" => mWriteBuf = <<>> \/ Count < written
  <2> SUFFICES ASSUME ~e, mWriteBuf # <<>> PROVE Count < written
    BY <1>4
  <2>1. AnswerAfter /\ pc["io"] # "pop"
    BY <1>3 DEF PaceState, PaceClient
  <2>2. ~SentFirst(ready)
    BY <1>1, <1>2, TailOther
  <2> QED BY <2>1, <2>2 DEF AnswerAfter
<1>7. packets' <= Count /\ ub' \subseteq {"thread deleted twice"}
  BY <1>3 DEF PaceState, PaceClient
<1> QED BY <1>3, <1>4, <1>5, <1>6, <1>7, PaceMoves

LEMMA PacePacket ==
  ASSUME PaceState, PacketArrived
  PROVE  PaceClient'
<1> USE DEF bufferVars, asioVars, peerVars
<1>1. TypeOK /\ pc["io"] = "callback"
  BY DEF PaceState, PacketArrived
<1>2. mWriteBuf = <<>>
  BY <1>1, AnswerIsLast
<1>3. AsyncReceive \/ BeginClose("io", "callback")
  BY Zenon DEF PacketArrived, DriverClose
<1>4. UNCHANGED <<mWriteBuf, written, writeInProgress, ops, packets, wire, ub>>
  BY <1>3, Zenon DEF AsyncReceive, BeginClose
<1>5. pc'["main"] = pc["main"] /\ pc'["io"] \in {"run", "close socket"}
  BY <1>1, <1>3 DEF AsyncReceive, BeginClose, Goto, TypeOK, Threads
<1>6. Kept(ready, ready')
  <2>1. BeginClose("io", "callback") => ready' = ready
    BY Zenon DEF BeginClose
  <2> QED BY <1>1, <1>3, <2>1, StepKeeps
<1>7. packets' <= Count /\ ub' \subseteq {"thread deleted twice"}
  BY <1>4 DEF PaceState, PaceClient
<1> QED BY <1>1, <1>2, <1>4, <1>5, <1>6, <1>7, PaceMoves

LEMMA PaceNetwork ==
  ASSUME PaceState, HandlerConnect \/ Connect \/ OclingoAnswers, prompts' = prompts
  PROVE  PaceClient'
<1> USE DEF bufferVars, asioVars, peerVars
<1>1. TypeOK /\ packets \in Nat /\ Count \in Nat /\ packets <= Count
  BY Numbers DEF PaceState, PaceClient
<1>2. OclingoAnswers => PeerSends
  BY DEF OclingoAnswers
<1>3. Kept(ready, ready')
  BY <1>1, <1>2, StepKeeps
<1>4. UNCHANGED <<pc, mWriteBuf, written, writeInProgress, ops, wire, ub>>
  BY <1>2, Zenon DEF HandlerConnect, Connect, PeerSends
<1>5. packets' <= Count
  <2>1. CASE OclingoAnswers
    <3>1. packets < Count /\ packets' = packets + 1
      BY <2>1 DEF OclingoAnswers, PeerSends, Count
    <3> QED BY <1>1, <3>1
  <2>2. CASE HandlerConnect \/ Connect
    <3>1. packets' = packets
      BY <2>2, Zenon DEF HandlerConnect, Connect
    <3> QED BY <1>1, <3>1
  <2> QED BY <2>1, <2>2
<1>6. ub' \subseteq {"thread deleted twice"}
  BY <1>4 DEF PaceState, PaceClient
<1> QED BY <1>3, <1>4, <1>5, <1>6, PaceMoves
-----------------------------------------------------------------------------
(* The driver: it composes a module only when all before it were answered. *)

Composing == {"inner", "read inner", "module", "translate", "send"}

PaceDriver ==
  /\ Len(sent) = written
  /\ at \in Composing => prompts >= written
  /\ pc["main"] = "wait" => written = 0

PaceInv == BridgeTypeInv /\ PaceClient /\ PaceDriver

LEMMA PaceDriverNext ==
  ASSUME Paced, BridgeTypeInv, PaceDriver, [BridgeNext]_bridgeVars
  PROVE  PaceDriver'
<1> USE DEF bufferVars, asioVars, peerVars
<1>1. /\ TypeOK /\ prompts \in Nat /\ written \in Nat
      /\ sent \in Seq([step : Nat, stop : BOOLEAN])
  BY Numbers DEF BridgeTypeInv, ClientInv, DriverTypes
<1>2. CASE Send
  <2>1. /\ written' = written + 1 /\ at' = "write"
        /\ sent' = Append(sent, [step |-> StepOf(module), stop |-> mClosing])
        /\ pc' = [pc EXCEPT !["main"] = "fill"]
    BY <1>2, Zenon DEF Send, WritePush, Goto
  <2>2. Len(sent') = Len(sent) + 1
    BY <1>1, <2>1
  <2>3. pc'["main"] = "fill"
    BY <1>1, <2>1 DEF TypeOK, Threads
  <2> QED BY <2>1, <2>2, <2>3 DEF PaceDriver, Composing
<1>3. CASE ~Send
  <2>1. sent' = sent /\ written' = written
    BY <1>3, Zenon DEF BridgeNext, User, EndOfInput, ReadStep, ReadOther, ReadEnd, ReadLaw, GetLine,
       Main, RunConnected, SeesOpen, RunTest, TestLoop, LeaveModule, Translate, LaunchFails,
       FinishWrite, WriteFill, WriteStart, RunClose, DriverClose, BeginClose, Unwind, CloseStep,
       DoClose, CloseSocket, ClearOpen, DeleteThread, Exit, Io, HandlerStep, HandlerConnect,
       WriteChain, HandlerWrite, PopFront, CheckEmpty, WriteNext, HandlerRead, PacketArrived,
       AsyncReceive, PacketError, SocketStep, Connect, Transfer, OclingoAnswers, PeerSends,
       OclingoHangsUp, PeerResets, bridgeVars, vars, driverVars, clientOnly
  <2>2. prompts' = prompts \/ prompts' = prompts + 1
    BY Zenon DEF BridgeNext, User, EndOfInput, ReadStep, ReadOther, ReadEnd, ReadLaw, GetLine,
       Main, RunConnected, RunTest, TestLoop, LeaveModule, Translate, LaunchFails, Send, FinishWrite,
       RunClose, Unwind, CloseStep, Exit, Io, HandlerStep, PacketArrived, PacketError,
       SocketStep, OclingoAnswers, OclingoHangsUp, bridgeVars, driverVars, clientOnly
  <2>3. prompts' >= prompts
    BY <1>1, <2>2
  <2>4. CASE ReadStep
    <3>1. prompts >= Len(sent)
      BY <2>4 DEF ReadStep, GetLine
    <3> QED BY <1>1, <2>1, <2>3, <3>1, <2>4 DEF PaceDriver, ReadStep, GetLine, vars
  <2>5. CASE ~ReadStep
    <3>1. at' \in Composing => at \in Composing
      BY <1>3, <2>5 DEF BridgeNext, User, EndOfInput, ReadOther, ReadEnd, ReadLaw, GetLine,
         Main, RunConnected, RunTest, TestLoop, LeaveModule, Translate, LaunchFails,
         FinishWrite, RunClose, Unwind, CloseStep, Exit, Io, HandlerStep, PacketArrived,
         PacketError, SocketStep, OclingoAnswers, OclingoHangsUp, RunAt, bridgeVars, driverVars,
         clientOnly, Composing
    <3>2. at' \in Composing => prompts' >= written'
      BY <1>1, <2>1, <2>2, <3>1 DEF PaceDriver
    <3>3. pc'["main"] = "wait" => pc["main"] = "wait"
      <4>1. CASE BridgeCloses
        BY <1>1, <4>1 DEF BridgeCloses, BeginClose, Goto, TypeOK, Threads
      <4>2. CASE [Next]_vars
        BY <1>1, <4>2 DEF Next, Owner, SeesOpen, Write, WritePush, WriteFill, WriteStart, BeginClose,
           DoClose, CloseSocket, ClearOpen, DeleteThread, IoService, HandlerConnect, HandlerRead,
           HandlerWrite, WriteChain, PopFront, CheckEmpty, WriteNext, AsyncReceive, Network,
           Connect, Transfer, PeerSends, PeerResets, vars, Goto, TypeOK, Threads
      <4> QED BY <4>1, <4>2, BridgeStep
    <3> QED BY <2>1, <3>2, <3>3 DEF PaceDriver
  <2> QED BY <2>4, <2>5
<1> QED BY <1>2, <1>3

LEMMA PaceClientNext ==
  ASSUME PaceInv, [BridgeNext]_bridgeVars
  PROVE  PaceClient'
<1>1. PaceState /\ "main" \in Threads /\ "io" \in Threads
  BY DEF PaceInv, BridgeTypeInv, ClientInv, DriverTypes, PaceState, Threads
<1>2. CASE User \/ UNCHANGED bridgeVars
  <2>1. UNCHANGED vars /\ prompts' = prompts
    BY <1>2, Zenon DEF User, EndOfInput, ReadStep, ReadOther, ReadEnd, ReadLaw, GetLine,
       bridgeVars, driverVars
  <2> QED BY <1>1, <2>1, PaceThread
<1>3. CASE RunTest \/ LeaveModule \/ LaunchFails \/ (\E ok \in BOOLEAN : Translate(ok))
           \/ Exit("main") \/ Exit("io")
  <2>1. UNCHANGED vars /\ prompts' = prompts
    BY <1>3, Zenon DEF RunTest, TestLoop, LeaveModule, LaunchFails, Translate, Exit, clientOnly
  <2> QED BY <1>1, <2>1, PaceThread
<1>4. CASE RunConnected
  <2>1. SeesOpen /\ prompts' = prompts
    BY <1>4, Zenon DEF RunConnected, clientOnly
  <2> QED BY <1>1, <2>1, PaceThread
<1>5. CASE RunClose \/ Unwind
  <2>1. BeginClose("main", "out") \/ BeginClose("main", "closed")
    BY <1>5, Zenon DEF RunClose, DriverClose, Unwind
  <2>2. prompts' = prompts
    BY <1>5, Zenon DEF RunClose, Unwind, clientOnly
  <2> QED BY <1>1, <2>1, <2>2, PaceThread
<1>6. CASE PacketError
  <2>1. BeginClose("io", "callback error") /\ prompts' = prompts
    BY <1>6, Zenon DEF PacketError, DriverClose
  <2> QED BY <1>1, <2>1, PaceThread
<1>7. CASE Send
  <2>1. WritePush /\ prompts' = prompts /\ prompts >= written
    BY <1>7 DEF Send, RunAt, PaceInv, PaceDriver, Composing
  <2> QED BY <1>1, <2>1, PacePush
<1>8. CASE FinishWrite
  <2>1. (WriteFill \/ WriteStart) /\ prompts' = prompts
    BY <1>8, Zenon DEF FinishWrite, clientOnly
  <2> QED BY <1>1, <2>1, PaceFill, PaceStart
<1>9. ASSUME NEW t \in Threads, CloseStep(t)
      PROVE  PaceClient'
  <2>1. (CloseSocket(t) \/ ClearOpen(t) \/ DeleteThread(t)) /\ prompts' = prompts
    BY <1>9, Zenon DEF CloseStep, DoClose, driverVars
  <2> QED BY <1>1, <2>1, PaceThread, PaceClosing
<1>10. CASE HandlerStep
  <2>1. /\ HandlerConnect \/ WriteChain \/ \E e \in BOOLEAN : HandlerRead(e)
        /\ prompts' = prompts
    BY <1>10, Zenon DEF HandlerStep, driverVars
  <2>2. ~WriteNext
    BY <1>1 DEF WriteNext, At, PaceState, PaceClient, PopHolds
  <2> QED BY <1>1, <2>1, <2>2, PaceNetwork, PaceRead, PaceHandler, PacePop DEF WriteChain
<1>11. CASE SocketStep
  <2>1. (Connect \/ Transfer) /\ prompts' = prompts
    BY <1>11, Zenon DEF SocketStep, driverVars
  <2> QED BY <1>1, <2>1, PaceNetwork, PaceTransfer
<1>12. CASE OclingoAnswers
  <2>1. prompts' = prompts
    BY <1>12, Zenon DEF OclingoAnswers, driverVars
  <2> QED BY <1>1, <1>12, <2>1, PaceNetwork
<1>13. CASE OclingoHangsUp
  <2>1. PeerResets /\ prompts' = prompts
    BY <1>13, Zenon DEF OclingoHangsUp
  <2> QED BY <1>1, <2>1, PaceClosing
<1>14. CASE PacketArrived
  BY <1>1, <1>14, PacePacket
<1> QED BY <1>1, <1>2, <1>3, <1>4, <1>5, <1>6, <1>7, <1>8, <1>9, <1>10, <1>11, <1>12, <1>13, <1>14, Zenon
        DEF BridgeNext, Main, Io

LEMMA PaceInit == BridgeInit => PaceInv
<1> SUFFICES ASSUME BridgeInit PROVE PaceInv
  OBVIOUS
<1>1. BridgeTypeInv /\ TypeOK
  BY BridgeTypeInit DEF BridgeTypeInv, ClientInv
<1>2. /\ mWriteBuf = <<>> /\ ops = <<>> /\ ready = <<>> /\ wire = <<>> /\ ub = {}
      /\ pc["main"] = "wait" /\ pc["io"] = "run" /\ written = 0 /\ packets = 0
      /\ sent = <<>> /\ at = "connect"
  BY DEF BridgeInit, Init, Threads
<1>3. Count = 0
  <2>1. Ends = {}
    BY <1>2 DEF Ends
  <2> QED BY <2>1, FS_EmptySet DEF Count
<1>4. NoWrite(ready) /\ OneWrite(ready) /\ OnlyFailed(ready)
  BY <1>2 DEF NoWrite, OneWrite, OnlyFailed, Writes
<1>5. PaceClient
  BY <1>2, <1>3, <1>4 DEF PaceClient, OneMessage, Unanswered, StartHolds, SendHolds, ReportHolds,
     PopHolds, AnswerAfter, Starting
<1>6. PaceDriver
  BY <1>2 DEF PaceDriver, Composing
<1> QED BY <1>1, <1>5, <1>6 DEF PaceInv

LEMMA PaceNext == Paced /\ PaceInv /\ [BridgeNext]_bridgeVars => PaceInv'
  BY BridgeTypeNext, PaceClientNext, PaceDriverNext DEF PaceInv

\* The unlocked accesses of the two threads to mWriteBuf never meet (handler_write,
\* write()) as long as the user of run() waits for the prompt: no string is read
\* off an empty list or from a freed node.
THEOREM PacedBufferIsSafe ==
  ASSUME Paced
  PROVE  BridgeSpec => []BufferSafe
<1>1. PaceInv => BufferSafe
  BY DEF PaceInv, PaceClient, BufferSafe
<1>2. PaceInv /\ [BridgeNext]_bridgeVars => PaceInv'
  BY PaceNext
<1> QED BY <1>1, <1>2, PaceInit, PTL DEF BridgeSpec

\* "Request to write if we aren't already" (write()) holds for such a user.
THEOREM PacedWritesAlone ==
  ASSUME Paced
  PROVE  BridgeSpec => []OneWriteInProgress
<1>1. PaceInv => OneWriteInProgress
  <2> SUFFICES ASSUME PaceInv PROVE OneWriteInProgress
    OBVIOUS
  <2>1. SendHolds /\ ReportHolds
    BY DEF PaceInv, PaceClient
  <2>2. Len(ops) <= 1
    <3>1. ops = <<>> => Len(ops) = 0
      OBVIOUS
    <3>2. ops # <<>> => Len(ops) = 1
      BY <2>1 DEF SendHolds
    <3>3. Len(ops) = 0 \/ Len(ops) = 1
      BY <3>1, <3>2, Zenon
    <3> QED BY <3>3
  <2>3. \A i, j \in Writes(ready) : i = j
    BY <2>1 DEF ReportHolds, OneWrite
  <2>4. ops # <<>> => Writes(ready) = {}
    BY <2>1 DEF SendHolds, NoWrite
  <2> QED BY <2>2, <2>3, <2>4 DEF OneWriteInProgress
<1>2. PaceInv /\ [BridgeNext]_bridgeVars => PaceInv'
  BY PaceNext
<1> QED BY <1>1, <1>2, PaceInit, PTL DEF BridgeSpec
-----------------------------------------------------------------------------
(* Cutting a wire at the ends of the messages on it. *)

EndsIn(w) == {i \in 1..Len(w) : w[i].piece = Pieces}
UpTo(S, i) == {j \in S : j <= i}
EndAt(S, k) == IF k = 0 THEN 0 ELSE CHOOSE i \in S : Cardinality(UpTo(S, i)) = k
Cut(w) == [k \in 1..Cardinality(EndsIn(w)) |->
             SubSeq(w, EndAt(EndsIn(w), k - 1) + 1, EndAt(EndsIn(w), k))]
\* The k-th number of S is there, and the k-th.
Numbered(S) == \A k \in 1..Cardinality(S) :
                 EndAt(S, k) \in S /\ Cardinality(UpTo(S, EndAt(S, k))) = k

LEMMA CutIsReceived ==
  /\ Ends = EndsIn(wire) /\ Received = Cut(wire)
  /\ Ends' = EndsIn(wire') /\ Received' = Cut(wire')
<1>1. Ends = EndsIn(wire) /\ Ends' = EndsIn(wire')
  BY DEF Ends, EndsIn
<1>2. Received = Cut(wire)
  BY <1>1 DEF Received, Cut, EndOf, EndAt, UpTo
<1>3. Received' = Cut(wire')
  BY <1>1 DEF Received, Cut, EndOf, EndAt, UpTo
<1> QED BY <1>1, <1>2, <1>3

LEMMA EndAtIs ==
  ASSUME NEW S, IsFiniteSet(S), S \subseteq Nat, NEW i \in S, NEW k, k # 0,
         Cardinality(UpTo(S, i)) = k
  PROVE  EndAt(S, k) = i
<1>1. ASSUME NEW a \in S, NEW b \in S, a < b
      PROVE  Cardinality(UpTo(S, a)) # Cardinality(UpTo(S, b))
  <2>0. a \in Nat /\ b \in Nat /\ \A j \in S : j \in Nat
    OBVIOUS
  <2>1. UpTo(S, a) \subseteq UpTo(S, b) /\ b \in UpTo(S, b) /\ b \notin UpTo(S, a)
    <3>1. \A j \in S : j <= a => j <= b
      BY <1>1, <2>0
    <3>2. b <= b /\ ~(b <= a)
      BY <1>1, <2>0
    <3> QED BY <3>1, <3>2, Zenon DEF UpTo
  <2>2. IsFiniteSet(UpTo(S, b))
    BY FS_Subset DEF UpTo
  <2> QED BY <2>1, <2>2, FS_Subset
<1>2. \A a \in S : Cardinality(UpTo(S, a)) = k => a = i
  <2> SUFFICES ASSUME NEW a \in S, Cardinality(UpTo(S, a)) = k PROVE a = i
    OBVIOUS
  <2>1. ~(a < i) /\ ~(i < a)
    BY <1>1
  <2> QED BY <2>1
<1> QED BY <1>2 DEF EndAt

\* A number above all of S is the next one.
LEMMA NextEnd ==
  ASSUME NEW S, IsFiniteSet(S), S \subseteq Nat, NEW m \in Nat, \A s \in S : s < m, Numbered(S)
  PROVE  /\ Cardinality(S) \in Nat /\ Cardinality(S \cup {m}) = Cardinality(S) + 1
         /\ Numbered(S \cup {m})
         /\ EndAt(S \cup {m}, Cardinality(S) + 1) = m
         /\ \A k \in 0..Cardinality(S) : EndAt(S \cup {m}, k) = EndAt(S, k)
<1> DEFINE T == S \cup {m}
           n == Cardinality(S)
<1>1. n \in Nat /\ IsFiniteSet(T) /\ Cardinality(T) = n + 1 /\ T \subseteq Nat
  <2>1. m \notin S
    OBVIOUS
  <2> QED BY <2>1, FS_AddElement, FS_CardinalityType
<1>2. UpTo(T, m) = T
  <2>1. \A j \in T : j <= m
    OBVIOUS
  <2> HIDE DEF T
  <2> QED BY <2>1, Zenon DEF UpTo
<1>3. EndAt(T, n + 1) = m
  <2>1. n + 1 # 0
    BY <1>1
  <2>2. m \in T /\ Cardinality(UpTo(T, m)) = n + 1
    BY <1>1, <1>2
  <2> HIDE DEF T, n
  <2> QED BY <1>1, <2>1, <2>2, EndAtIs
<1>4. ASSUME NEW k \in 1..n
      PROVE  EndAt(T, k) = EndAt(S, k) /\ EndAt(T, k) \in S /\ Cardinality(UpTo(T, EndAt(T, k))) = k
  <2> DEFINE i == EndAt(S, k)
  <2>1. i \in S /\ Cardinality(UpTo(S, i)) = k
    BY Zenon DEF Numbered
  <2> HIDE DEF i, n
  <2>2. i \in T /\ k # 0 /\ ~(m <= i)
    <3>1. i \in Nat /\ i < m
      BY <2>1
    <3>2. k # 0
      BY <1>1
    <3> QED BY <2>1, <3>1, <3>2
  <2>3. UpTo(T, i) = UpTo(S, i)
    BY <2>2, Zenon DEF UpTo
  <2> HIDE DEF T
  <2>4. EndAt(T, k) = i
    BY <1>1, <2>1, <2>2, <2>3, EndAtIs
  <2> QED BY <2>1, <2>3, <2>4 DEF i
<1>5. EndAt(T, 0) = EndAt(S, 0)
  BY DEF EndAt
<1>6. Numbered(T)
  <2> SUFFICES ASSUME NEW k \in 1..n + 1
               PROVE  EndAt(T, k) \in T /\ Cardinality(UpTo(T, EndAt(T, k))) = k
    BY <1>1 DEF Numbered
  <2>1. CASE k = n + 1
    BY <1>1, <1>2, <1>3, <2>1
  <2>2. CASE k # n + 1
    <3>1. k \in 1..n
      BY <1>1, <2>2
    <3> QED BY <1>4, <3>1
  <2> QED BY <2>1, <2>2
<1>7. \A k \in 0..n : EndAt(T, k) = EndAt(S, k)
  <2> SUFFICES ASSUME NEW k \in 0..n PROVE EndAt(T, k) = EndAt(S, k)
    OBVIOUS
  <2>1. k = 0 \/ k \in 1..n
    BY <1>1
  <2> QED BY <1>4, <1>5, <2>1
<1> QED BY <1>1, <1>3, <1>6, <1>7

\* What was cut off stays as it is when the wire grows.
LEMMA OldPieces ==
  ASSUME NEW w \in Seq(Sent), NEW e \in Sent, NEW a \in Nat, NEW b \in Nat, b <= Len(w)
  PROVE  SubSeq(Append(w, e), a + 1, b) = SubSeq(w, a + 1, b)
<1>1. /\ Len(w) \in Nat /\ \A i \in 1..Len(w) : w[i] \in Sent
      /\ \A i \in 1..Len(w) : Append(w, e)[i] = w[i]
  BY AppendProperties, LenProperties, ElementOfSeq
<1>2. \A i \in a + 1..b : i \in 1..Len(w)
  BY <1>1
<1>3. \A i \in a + 1..b : w[i] \in Sent /\ Append(w, e)[i] \in Sent
  BY <1>1, <1>2
<1> DEFINE s == SubSeq(Append(w, e), a + 1, b)
           t == SubSeq(w, a + 1, b)
           n == IF a + 1 <= b THEN b - (a + 1) + 1 ELSE 0
<1>4. /\ s \in Seq(Sent) /\ Len(s) = n
      /\ \A i \in 1..b - (a + 1) + 1 : s[i] = Append(w, e)[a + 1 + i - 1]
  BY <1>3, SubSeqProperties
<1>5. /\ t \in Seq(Sent) /\ Len(t) = n
      /\ \A i \in 1..b - (a + 1) + 1 : t[i] = w[a + 1 + i - 1]
  BY <1>3, SubSeqProperties
<1>6. \A i \in 1..Len(s) : s[i] = t[i]
  <2> SUFFICES ASSUME NEW i \in 1..Len(s) PROVE s[i] = t[i]
    OBVIOUS
  <2>1. i \in 1..b - (a + 1) + 1 /\ a + 1 + i - 1 \in 1..Len(w)
    BY <1>1, <1>4
  <2> HIDE DEF s, t
  <2> QED BY <1>1, <1>4, <1>5, <2>1
<1> HIDE DEF s, t, n
<1>7. s = t
  BY <1>4, <1>5, <1>6, SeqEqual
<1> QED BY <1>7 DEF s, t

\* A piece that is not the last of its message changes nothing that was cut off;
\* with the last one there is a message more.
LEMMA CutGrows ==
  ASSUME NEW w \in Seq(Sent), NEW e \in Sent, Numbered(EndsIn(w))
  PROVE  LET old == EndsIn(w)
             new == EndsIn(Append(w, e))
             n   == Cardinality(old)
         IN /\ n \in Nat /\ Numbered(new)
            /\ e.piece # Pieces => new = old /\ Cut(Append(w, e)) = Cut(w)
            /\ e.piece = Pieces =>
                 /\ Cardinality(new) = n + 1 /\ EndAt(new, n + 1) = Len(w) + 1
                 /\ Cut(Append(w, e)) =
                      [k \in 1..n + 1 |->
                         IF k = n + 1 THEN SubSeq(Append(w, e), EndAt(old, n) + 1, Len(w) + 1)
                         ELSE Cut(w)[k]]
<1> DEFINE old == EndsIn(w)
           v == Append(w, e)
           new == EndsIn(v)
           n == Cardinality(old)
<1>1. /\ Len(v) = Len(w) + 1 /\ Len(w) \in Nat
      /\ \A i \in 1..Len(w) : v[i] = w[i]
      /\ v[Len(w) + 1] = e
  BY AppendProperties, LenProperties
<1>2. 1..Len(v) = 1..Len(w) \cup {Len(w) + 1}
  BY <1>1
<1>3. old \subseteq 1..Len(w) /\ IsFiniteSet(old)
  <2>1. IsFiniteSet(1..Len(w))
    BY <1>1, FS_Interval
  <2> QED BY <2>1, FS_Subset DEF EndsIn
<1>4. old \subseteq Nat /\ Len(w) + 1 \in Nat /\ \A i \in old : i < Len(w) + 1
  BY <1>1, <1>3
<1>5. n \in Nat
  BY <1>3, FS_CardinalityType
<1>6. \A k \in 0..n : EndAt(old, k) \in Nat /\ EndAt(old, k) <= Len(w)
  <2> SUFFICES ASSUME NEW k \in 0..n PROVE EndAt(old, k) \in Nat /\ EndAt(old, k) <= Len(w)
    OBVIOUS
  <2>1. CASE k = 0
    BY <1>1, <2>1 DEF EndAt
  <2>2. CASE k # 0
    <3>1. k \in 1..n
      BY <1>5, <2>2
    <3>2. EndAt(old, k) \in old
      BY <3>1, Zenon DEF Numbered
    <3>3. EndAt(old, k) \in 1..Len(w)
      BY <1>3, <3>2, Zenon
    <3> HIDE DEF old
    <3> QED BY <1>1, <3>3
  <2> QED BY <2>1, <2>2
<1>7. \A k \in 1..n : SubSeq(v, EndAt(old, k - 1) + 1, EndAt(old, k))
                        = SubSeq(w, EndAt(old, k - 1) + 1, EndAt(old, k))
  <2> SUFFICES ASSUME NEW k \in 1..n
               PROVE  SubSeq(v, EndAt(old, k - 1) + 1, EndAt(old, k))
                        = SubSeq(w, EndAt(old, k - 1) + 1, EndAt(old, k))
    OBVIOUS
  <2>1. k \in 0..n /\ k - 1 \in 0..n
    BY <1>5
  <2> QED BY <1>6, <2>1, OldPieces
<1>8. ASSUME e.piece # Pieces
      PROVE  new = old /\ Cut(v) = Cut(w)
  <2>1. new = old
    BY <1>1, <1>2, <1>8 DEF EndsIn
  <2> QED BY <1>7, <2>1 DEF Cut
<1>9. ASSUME e.piece = Pieces
      PROVE  /\ Cardinality(new) = n + 1 /\ EndAt(new, n + 1) = Len(w) + 1 /\ Numbered(new)
             /\ Cut(v) = [k \in 1..n + 1 |->
                            IF k = n + 1 THEN SubSeq(v, EndAt(old, n) + 1, Len(w) + 1)
                            ELSE Cut(w)[k]]
  <2>1. new = old \cup {Len(w) + 1}
    BY <1>1, <1>2, <1>9 DEF EndsIn
  <2>2. /\ Cardinality(new) = n + 1 /\ Numbered(new) /\ EndAt(new, n + 1) = Len(w) + 1
        /\ \A k \in 0..n : EndAt(new, k) = EndAt(old, k)
    <3>1. Numbered(old)
      OBVIOUS
    <3> HIDE DEF new, old, n
    <3>2. /\ Cardinality(old \cup {Len(w) + 1}) = Cardinality(old) + 1
          /\ Numbered(old \cup {Len(w) + 1})
          /\ EndAt(old \cup {Len(w) + 1}, Cardinality(old) + 1) = Len(w) + 1
          /\ \A k \in 0..Cardinality(old) : EndAt(old \cup {Len(w) + 1}, k) = EndAt(old, k)
      BY <1>3, <1>4, <3>1, NextEnd
    <3> QED BY <2>1, <3>2 DEF n
  <2>3. \A k \in 1..n + 1 :
          SubSeq(v, EndAt(new, k - 1) + 1, EndAt(new, k))
            = IF k = n + 1 THEN SubSeq(v, EndAt(old, n) + 1, Len(w) + 1) ELSE Cut(w)[k]
    <3> SUFFICES ASSUME NEW k \in 1..n + 1
                 PROVE  SubSeq(v, EndAt(new, k - 1) + 1, EndAt(new, k))
                          = IF k = n + 1 THEN SubSeq(v, EndAt(old, n) + 1, Len(w) + 1)
                            ELSE Cut(w)[k]
      OBVIOUS
    <3>1. k - 1 \in 0..n
      BY <1>5
    <3>2. CASE k = n + 1
      <4>1. k - 1 = n
        BY <1>5, <3>2
      <4> QED BY <2>2, <3>1, <3>2, <4>1, Zenon
    <3>3. CASE k # n + 1
      <4>1. k \in 1..n /\ k \in 0..n
        BY <1>5, <3>3
      <4>2. Cut(w)[k] = SubSeq(w, EndAt(old, k - 1) + 1, EndAt(old, k))
        BY <4>1, Zenon DEF Cut
      <4> QED BY <1>7, <2>2, <3>1, <3>3, <4>1, <4>2, Zenon
    <3> QED BY <3>2, <3>3
  <2>4. Cut(v) = [k \in 1..n + 1 |-> SubSeq(v, EndAt(new, k - 1) + 1, EndAt(new, k))]
    BY <2>2, Zenon DEF Cut
  <2> HIDE DEF v, new, old, n
  <2>5. Cut(v) = [k \in 1..n + 1 |->
                    IF k = n + 1 THEN SubSeq(v, EndAt(old, n) + 1, Len(w) + 1) ELSE Cut(w)[k]]
    BY <2>3, <2>4
  <2> QED BY <2>2, <2>5
<1>10. Numbered(new)
  BY <1>8, <1>9, Zenon
<1> QED BY <1>5, <1>8, <1>9, <1>10, Zenon
LEMMA AppendFunction ==
  ASSUME NEW S, NEW n \in Nat, NEW f \in [1..n -> S], NEW e \in S
  PROVE  Append(f, e) = [k \in 1..n + 1 |-> IF k = n + 1 THEN e ELSE f[k]]
<1> DEFINE g == [k \in 1..n + 1 |-> IF k = n + 1 THEN e ELSE f[k]]
<1>1. f \in Seq(S) /\ Len(f) = n
  BY FunctionIsSeq
<1>2. /\ Append(f, e) \in Seq(S) /\ Len(Append(f, e)) = n + 1
      /\ \A k \in 1..n : Append(f, e)[k] = f[k]
      /\ Append(f, e)[n + 1] = e
  BY <1>1, AppendProperties
<1>3. g \in [1..n + 1 -> S]
  <2>1. \A k \in 1..n + 1 : k = n + 1 \/ k \in 1..n
    OBVIOUS
  <2> QED BY <2>1
<1>4. g \in Seq(S) /\ Len(g) = n + 1
  <2> HIDE DEF g
  <2>1. n + 1 \in Nat
    OBVIOUS
  <2> QED BY <1>3, <2>1, FunctionIsSeq
<1>5. \A k \in 1..n + 1 : Append(f, e)[k] = g[k]
  <2> SUFFICES ASSUME NEW k \in 1..n + 1 PROVE Append(f, e)[k] = g[k]
    OBVIOUS
  <2>1. k = n + 1 \/ (k \in 1..n /\ k # n + 1)
    OBVIOUS
  <2> QED BY <1>2, <2>1
<1> HIDE DEF g
<1>6. Append(f, e) = g
  BY <1>2, <1>4, <1>5, SeqEqual
<1> QED BY <1>6 DEF g
-----------------------------------------------------------------------------
(* What oClingo received is the messages written, whole and in order, and a  *)
(* part of the one being sent.                                               *)

Sending == IF ops # <<>> THEN Pieces - ops[1].left ELSE 0
Cuts == EndAt(Ends, Count)

ChannelInv ==
  /\ Numbered(Ends)
  /\ Received = [k \in 1..Count |-> Channel!Whole(k)]
  /\ socket \in {"connecting", "connected"} =>
       /\ Len(wire) = Cuts + Sending
       /\ \A i \in 1..Sending : wire[Cuts + i] = [msg |-> written, piece |-> i]

\* The piece that leaves belongs to the last message written.
LEMMA PieceSent ==
  ASSUME PaceState, Transfer
  PROVE  /\ socket = "connected" /\ UNCHANGED <<socket, written, ub>>
         /\ Count + 1 = written /\ ops # <<>> /\ ops[1].left \in 1..Pieces
         /\ written \in 1..MaxWrites
         /\ wire' = Append(wire, [msg |-> written, piece |-> Pieces - ops[1].left + 1])
         /\ ops[1].left = 1 => ops' = <<>>
         /\ ops[1].left # 1 => ops' # <<>> /\ ops'[1].left = ops[1].left - 1
<1> USE DEF bufferVars
<1> DEFINE op == Head(ops)
           e == [msg |-> op.msg, piece |-> Pieces - op.left + 1]
<1>1. /\ TypeOK /\ ops \in Seq(WriteOp) /\ ops # <<>> /\ socket = "connected"
      /\ written \in Nat /\ packets \in Nat /\ Count \in Nat /\ prompts \in Nat
  BY Numbers DEF PaceState, TypeOK, Transfer
<1>2. /\ mWriteBuf # <<>> /\ Len(ops) = 1 /\ ops[1].msg = written /\ ops[1].left >= 1
      /\ Count < written
  BY <1>1 DEF PaceState, PaceClient, SendHolds
<1>3. op = ops[1] /\ Tail(ops) = <<>> /\ op \in WriteOp
  <2>1. Tail(ops) \in Seq(WriteOp) /\ Len(Tail(ops)) = 0 /\ op = ops[1] /\ op \in WriteOp
    BY <1>1, <1>2, HeadTailProperties
  <2> QED BY <2>1, EmptySeq
<1>4. op.msg = written /\ op.left >= 1 /\ op.left \in 1..Pieces /\ op.msg \in 1..MaxWrites
  BY <1>2, <1>3, BoundsAssumption DEF WriteOp
<1>5. Allocated(op.msg)
  <2>1. Len(mWriteBuf) = 1 /\ mWriteBuf[1].msg = written
    BY <1>2 DEF PaceState, PaceClient, OneMessage
  <2> QED BY <1>4, <2>1 DEF Allocated
<1>6. /\ wire' = Append(wire, e) /\ UNCHANGED <<socket, written, ub>>
      /\ op.left <= 1 => ops' = Tail(ops)
      /\ ~(op.left <= 1) => ops' = Append(Tail(ops), [op EXCEPT !.left = @ - 1])
  <2>1. op.left # 0
    BY <1>4
  <2> QED BY <1>5, <2>1, Zenon DEF Transfer
<1>7. prompts + 1 = written /\ prompts <= packets /\ packets <= Count
  BY <1>2 DEF PaceState, PaceClient, Unanswered, PromptsBehind
<1>8. Count + 1 = written
  BY <1>1, <1>2, <1>7
<1> HIDE DEF op
<1>9. op.left = 1 => ops' = <<>>
  <2>1. op.left = 1 => op.left <= 1
    OBVIOUS
  <2> QED BY <1>3, <1>6, <2>1, Zenon
<1>10. op.left # 1 => ops' # <<>> /\ ops'[1].left = op.left - 1
  <2> SUFFICES ASSUME op.left # 1 PROVE ops' # <<>> /\ ops'[1].left = op.left - 1
    OBVIOUS
  <2>1. ~(op.left <= 1)
    BY <1>4
  <2>2. ops' = Append(<<>>, [op EXCEPT !.left = @ - 1])
    BY <1>3, <1>6, <2>1, Zenon
  <2>3. ops' # <<>> /\ ops'[1] = [op EXCEPT !.left = @ - 1]
    BY <2>2
  <2> QED BY <1>3, <2>3 DEF WriteOp
<1> QED BY <1>1, <1>3, <1>4, <1>6, <1>8, <1>9, <1>10

LEMMA ChannelTransfer ==
  ASSUME PaceState, ChannelInv, Transfer
  PROVE  /\ ChannelInv' /\ Count < written
         /\ \/ Received' = Received
            \/ Received' = Append(Received, Channel!Whole(Count + 1))
<1> DEFINE left == ops[1].left
           e == [msg |-> written, piece |-> Pieces - left + 1]
           v == Append(wire, e)
<1>1. /\ wire \in Seq(Sent) /\ Count \in Nat /\ written \in Nat /\ Len(wire) \in Nat
  BY Numbers, LenProperties DEF PaceState, TypeOK
<1>2. /\ socket = "connected" /\ UNCHANGED <<socket, written>>
      /\ Count + 1 = written /\ ops # <<>> /\ left \in 1..Pieces /\ written \in 1..MaxWrites
      /\ wire' = v
      /\ left = 1 => ops' = <<>>
      /\ left # 1 => ops' # <<>> /\ ops'[1].left = left - 1
  BY PieceSent
<1>3. Pieces \in Nat \ {0}
  BY BoundsAssumption
<1>4. e \in Sent /\ (e.piece = Pieces <=> left = 1) /\ e.piece = Pieces - left + 1 /\ e.msg = written
  <2> HIDE DEF left
  <2>1. Pieces - left + 1 \in 1..Pieces /\ (Pieces - left + 1 = Pieces <=> left = 1)
    BY <1>2, <1>3
  <2> QED BY <1>2, <2>1 DEF Sent
<1>5. /\ Len(wire') = Len(wire) + 1
      /\ \A i \in 1..Len(wire) : wire'[i] = wire[i]
      /\ wire'[Len(wire) + 1] = e
  BY <1>1, <1>2, <1>4, AppendProperties
<1>6. /\ Sending = Pieces - left /\ Len(wire) = Cuts + Sending
      /\ \A i \in 1..Sending : wire[Cuts + i] = [msg |-> written, piece |-> i]
  BY <1>2 DEF ChannelInv, Sending
<1>7. /\ Ends = EndsIn(wire) /\ Received = Cut(wire) /\ Ends' = EndsIn(v) /\ Received' = Cut(v)
      /\ Count = Cardinality(EndsIn(wire)) /\ Count' = Cardinality(EndsIn(v))
  BY <1>2, CutIsReceived DEF Count
<1>8. Numbered(EndsIn(wire)) /\ Received = [k \in 1..Count |-> Channel!Whole(k)]
  BY <1>7 DEF ChannelInv
<1> HIDE DEF left, e, v
<1>9. /\ Numbered(EndsIn(v))
      /\ left # 1 => EndsIn(v) = EndsIn(wire) /\ Cut(v) = Cut(wire)
      /\ left = 1 =>
           /\ Cardinality(EndsIn(v)) = Count + 1 /\ EndAt(EndsIn(v), Count + 1) = Len(wire) + 1
           /\ Cut(v) = [k \in 1..Count + 1 |->
                          IF k = Count + 1 THEN SubSeq(v, Cuts + 1, Len(wire) + 1)
                          ELSE Cut(wire)[k]]
  BY <1>1, <1>4, <1>7, <1>8, CutGrows DEF v, Cuts
<1>10. Cuts \in Nat /\ Cuts + Sending = Len(wire) /\ Sending + left = Pieces
  <2>1. Cuts \in Nat
    <3>1. CASE Count = 0
      BY <3>1 DEF Cuts, EndAt
    <3>2. CASE Count # 0
      <4>1. Count \in 1..Count
        BY <1>1, <3>2
      <4>2. Cuts \in Ends
        BY <1>7, <1>8, <4>1, Zenon DEF Numbered, Cuts
      <4>3. Ends \subseteq 1..Len(wire)
        BY DEF Ends
      <4> QED BY <1>1, <4>2, <4>3
    <3> QED BY <3>1, <3>2
  <2> QED BY <1>2, <1>3, <1>6, <2>1
<1>11. CASE left # 1
  <2>1. Count' = Count /\ Ends' = Ends /\ Received' = Received
    BY <1>7, <1>9, <1>11
  <2>2. Sending' = Pieces - (left - 1) /\ Sending' = Sending + 1
    <3>1. Sending' = Pieces - (left - 1)
      BY <1>2, <1>11 DEF Sending
    <3> QED BY <1>2, <1>3, <1>6, <3>1
  <2>3. Cuts' = Cuts /\ Sending \in Nat
    BY <1>2, <1>3, <1>6, <2>1 DEF Cuts
  <2>4. Len(wire') = Cuts + Sending'
    BY <1>5, <1>10, <2>2, <2>3
  <2>5. \A i \in 1..Sending' : wire'[Cuts + i] = [msg |-> written, piece |-> i]
    <3> SUFFICES ASSUME NEW i \in 1..Sending + 1
                 PROVE  wire'[Cuts + i] = [msg |-> written, piece |-> i]
      BY <2>2
    <3>1. CASE i = Sending + 1
      <4>1. Cuts + i = Len(wire) + 1 /\ Pieces - left + 1 = i
        BY <1>2, <1>3, <1>6, <1>10, <2>3, <3>1
      <4> QED BY <1>5, <4>1 DEF e
    <3>2. CASE i # Sending + 1
      <4>1. i \in 1..Sending /\ Cuts + i \in 1..Len(wire)
        BY <1>10, <2>3, <3>2
      <4> QED BY <1>5, <1>6, <4>1
    <3> QED BY <3>1, <3>2
  <2>6. Numbered(Ends') /\ Received' = [k \in 1..Count' |-> Channel!Whole(k)]
    BY <1>7, <1>8, <1>9, <2>1
  <2>7. ChannelInv'
    BY <1>2, <2>3, <2>4, <2>5, <2>6 DEF ChannelInv, Numbered, EndAt, UpTo, Channel!Whole
  <2> QED BY <1>1, <1>2, <2>1, <2>7
<1>12. CASE left = 1
  <2>1. Count' = Count + 1 /\ Cuts' = Len(wire) + 1 /\ Sending' = 0
    BY <1>2, <1>7, <1>9, <1>12 DEF Cuts, Sending
  <2>2. SubSeq(v, Cuts + 1, Len(wire) + 1) = Channel!Whole(Count + 1)
    <3> DEFINE s == SubSeq(v, Cuts + 1, Len(wire) + 1)
               t == Channel!Whole(Count + 1)
    <3>1. Len(wire) + 1 = Cuts + Pieces /\ Sending = Pieces - 1
      <4>1. Sending = Pieces - 1
        BY <1>6, <1>12
      <4> QED BY <1>1, <1>3, <1>10, <4>1
    <3>2. \A i \in 1..Pieces : v[Cuts + i] = [msg |-> written, piece |-> i]
      <4> SUFFICES ASSUME NEW i \in 1..Pieces PROVE v[Cuts + i] = [msg |-> written, piece |-> i]
        OBVIOUS
      <4>1. CASE i = Pieces
        <5>1. Cuts + i = Len(wire) + 1 /\ Pieces - left + 1 = i
          BY <1>3, <1>12, <3>1, <4>1
        <5> QED BY <1>2, <1>5, <5>1 DEF e
      <4>2. CASE i # Pieces
        <5>1. i \in 1..Sending /\ Cuts + i \in 1..Len(wire)
          BY <1>3, <1>10, <3>1, <4>2
        <5> QED BY <1>2, <1>5, <1>6, <5>1
      <4> QED BY <4>1, <4>2
    <3>3. \A i \in Cuts + 1..Len(wire) + 1 : v[i] \in Sent
      <4> SUFFICES ASSUME NEW i \in Cuts + 1..Len(wire) + 1 PROVE v[i] \in Sent
        OBVIOUS
      <4>1. i \in 1..Len(wire) + 1
        BY <1>1, <1>10
      <4>2. v \in Seq(Sent) /\ Len(v) = Len(wire) + 1
        BY <1>1, <1>2, <1>4, <1>5, AppendProperties DEF v
      <4> QED BY <4>1, <4>2, ElementOfSeq
    <3>4. /\ s \in Seq(Sent) /\ Len(s) = Pieces
          /\ \A i \in 1..Pieces : s[i] = v[Cuts + i]
      <4> HIDE DEF s
      <4>1. /\ s \in Seq(Sent)
            /\ Len(s) = IF Cuts + 1 <= Len(wire) + 1 THEN Len(wire) + 1 - (Cuts + 1) + 1 ELSE 0
            /\ \A i \in 1..Len(wire) + 1 - (Cuts + 1) + 1 : s[i] = v[Cuts + 1 + i - 1]
        BY <1>1, <1>10, <3>3, SubSeqProperties DEF s
      <4>2. Len(wire) + 1 - (Cuts + 1) + 1 = Pieces /\ Cuts + 1 <= Len(wire) + 1
        BY <1>1, <1>3, <1>10, <3>1
      <4>3. \A i \in 1..Pieces : Cuts + 1 + i - 1 = Cuts + i
        BY <1>10
      <4> QED BY <4>1, <4>2, <4>3
    <3>5. t = [i \in 1..Pieces |-> [msg |-> written, piece |-> i]]
      BY <1>2 DEF Channel!Whole
    <3>6. t \in [1..Pieces -> Sent] /\ \A i \in 1..Pieces : t[i] = [msg |-> written, piece |-> i]
      <4> HIDE DEF t
      <4> QED BY <1>2, <3>5 DEF Sent
    <3>7. t \in Seq(Sent) /\ Len(t) = Pieces
      <4> HIDE DEF t
      <4> QED BY <1>3, <3>6, FunctionIsSeq
    <3> HIDE DEF s, t
    <3>8. s = t
      BY <3>2, <3>4, <3>6, <3>7, SeqEqual
    <3> QED BY <3>8 DEF s, t
  <2>3. Received' = [k \in 1..Count + 1 |->
                       IF k = Count + 1 THEN Channel!Whole(Count + 1) ELSE Received[k]]
    BY <1>7, <1>9, <1>12, <2>2
  <2>4. Received' = Append(Received, Channel!Whole(Count + 1))
    <3> DEFINE S == {Channel!Whole(k) : k \in 1..Count + 1}
    <3>1. Channel!Whole(Count + 1) \in S /\ \A k \in 1..Count : Channel!Whole(k) \in S
      BY <1>1
    <3>2. Received \in [1..Count -> S]
      <4> HIDE DEF S
      <4> QED BY <1>8, <3>1
    <3> HIDE DEF S
    <3> QED BY <1>1, <2>3, <3>1, <3>2, AppendFunction
  <2>5. Received' = [k \in 1..Count' |-> Channel!Whole(k)]
    <3>1. \A k \in 1..Count + 1 :
            Channel!Whole(k) = IF k = Count + 1 THEN Channel!Whole(Count + 1) ELSE Received[k]
      <4> SUFFICES ASSUME NEW k \in 1..Count + 1, k # Count + 1
                   PROVE  Channel!Whole(k) = Received[k]
        OBVIOUS
      <4>1. k \in 1..Count
        BY <1>1
      <4> QED BY <1>8, <4>1, Zenon
    <3> QED BY <2>1, <2>3, <3>1
  <2>6. Len(wire') = Cuts' + Sending' /\ 1..Sending' = {}
    BY <1>1, <1>5, <2>1
  <2>7. Numbered(Ends')
    BY <1>7, <1>9
  <2>8. ChannelInv'
    BY <1>2, <2>5, <2>6, <2>7 DEF ChannelInv, Numbered, EndAt, UpTo, Channel!Whole
  <2>9. Count < written
    BY <1>1, <1>2
  <2> QED BY <2>4, <2>8, <2>9
<1> QED BY <1>11, <1>12
\* No step but Transfer puts anything on the wire or takes part of a message off.
LEMMA WireStays ==
  ASSUME PaceInv, [BridgeNext]_bridgeVars, ~Transfer
  PROVE  /\ wire' = wire
         /\ socket' \in {"connecting", "connected"} =>
              /\ socket \in {"connecting", "connected"}
              /\ Sending' = Sending /\ (Sending = 0 \/ written' = written)
<1> USE DEF bufferVars, asioVars, peerVars
<1>1. /\ TypeOK /\ prompts \in Nat /\ written \in Nat /\ ops \in Seq(WriteOp)
      /\ Pieces \in Nat
  BY Numbers, BoundsAssumption DEF PaceInv, BridgeTypeInv, ClientInv, DriverTypes, TypeOK
<1>2. wire' = wire
  <2>1. CASE [Next]_vars
    BY <2>1, Zenon DEF Next, Owner, SeesOpen, Write, WritePush, WriteFill, WriteStart, BeginClose,
       DoClose, CloseSocket, ClearOpen, DeleteThread, IoService, HandlerConnect, HandlerRead,
       HandlerWrite, WriteChain, PopFront, CheckEmpty, WriteNext, AsyncReceive, Network,
       Connect, PeerSends, PeerResets, vars
  <2>2. CASE BridgeCloses
    BY <2>2, Zenon DEF BridgeCloses, BeginClose
  <2> QED BY <2>1, <2>2, BridgeStep
<1>3. Send => Sending = 0 /\ ops' = ops /\ socket' = socket
  <2> SUFFICES ASSUME Send PROVE Sending = 0 /\ ops' = ops /\ socket' = socket
    OBVIOUS
  <2>1. at = "send" /\ ops' = ops /\ socket' = socket
    BY Zenon DEF Send, RunAt, WritePush
  <2>2. prompts >= written
    BY <2>1 DEF PaceInv, PaceDriver, Composing
  <2>3. mWriteBuf = <<>>
    <3>1. ~(prompts + 1 = written)
      BY <1>1, <2>2
    <3> QED BY <3>1 DEF PaceInv, PaceClient, Unanswered
  <2>4. ops = <<>>
    BY <2>3 DEF PaceInv, PaceClient, SendHolds
  <2> QED BY <2>1, <2>4 DEF Sending
<1>4. ~Send => written' = written
  BY Zenon DEF BridgeNext, User, EndOfInput, ReadStep, ReadOther, ReadEnd, ReadLaw, GetLine,
     Main, RunConnected, SeesOpen, RunTest, TestLoop, LeaveModule, Translate, LaunchFails,
     FinishWrite, WriteFill, WriteStart, RunClose, DriverClose, BeginClose, Unwind, CloseStep,
     DoClose, CloseSocket, ClearOpen, DeleteThread, Exit, Io, HandlerStep, HandlerConnect,
     WriteChain, HandlerWrite, PopFront, CheckEmpty, WriteNext, HandlerRead, PacketArrived,
     AsyncReceive, PacketError, SocketStep, Connect, OclingoAnswers, PeerSends,
     OclingoHangsUp, PeerResets, bridgeVars, vars, driverVars, clientOnly
<1>5. WriteStart => Sending' = Sending /\ socket' = socket
  <2> SUFFICES ASSUME WriteStart PROVE Sending' = Sending /\ socket' = socket
    OBVIOUS
  <2>1. pc["main"] = "start" /\ socket' = socket /\ AsyncWriteFront
    BY Zenon DEF WriteStart, At
  <2>2. mWriteBuf # <<>> /\ mWriteBuf[1].filled /\ ops = <<>>
    BY <2>1 DEF PaceInv, PaceClient, StartHolds, Starting
  <2>3. Head(mWriteBuf).filled
    <3>1. mWriteBuf \in Seq(Entry) /\ Head(mWriteBuf) = mWriteBuf[1]
      BY <1>1, <2>2, HeadIsFirst DEF TypeOK
    <3> QED BY <2>2, <3>1
  <2>4. ops' = ops \/ ops' = Append(<<>>, [msg |-> Head(mWriteBuf).msg, left |-> Pieces])
    <3>1. Size(Head(mWriteBuf)) = Pieces
      BY <2>3 DEF Size
    <3> QED BY <2>1, <2>2, <3>1, Zenon DEF AsyncWriteFront
  <2>5. CASE ops' = Append(<<>>, [msg |-> Head(mWriteBuf).msg, left |-> Pieces])
    <3>1. ops' # <<>> /\ ops'[1].left = Pieces
      BY <2>5
    <3> QED BY <1>1, <2>1, <2>2, <3>1 DEF Sending
  <2>6. CASE ops' = ops
    BY <2>1, <2>6 DEF Sending
  <2> QED BY <2>4, <2>5, <2>6
<1>6. \/ WriteStart
      \/ socket' \in {"closed", "reset"}
      \/ ops' = ops /\ (socket' = socket \/ Connect)
  <2>1. ~WriteNext
    BY DEF WriteNext, At, PaceInv, PaceClient, PopHolds
  <2>2. CASE [Next]_vars
    <3>1. CASE PeerResets \/ \E t \in Threads : CloseSocket(t)
      BY <3>1 DEF PeerResets, CloseSocket
    <3>2. CASE ~(PeerResets \/ \E t \in Threads : CloseSocket(t))
      BY <2>1, <2>2, <3>2, Zenon DEF Next, Owner, SeesOpen, Write, WritePush, WriteFill, BeginClose,
         DoClose, ClearOpen, DeleteThread, IoService, HandlerConnect, HandlerRead,
         HandlerWrite, WriteChain, PopFront, CheckEmpty, AsyncReceive, Network,
         Connect, PeerSends, vars, Threads
    <3> QED BY <3>1, <3>2
  <2>3. CASE BridgeCloses
    BY <2>3, Zenon DEF BridgeCloses, BeginClose
  <2> QED BY <2>2, <2>3, BridgeStep
<1>7. ASSUME socket' \in {"connecting", "connected"}
      PROVE  socket \in {"connecting", "connected"} /\ Sending' = Sending
  <2>1. CASE WriteStart
    BY <1>5, <1>7, <2>1
  <2>2. CASE ops' = ops /\ (socket' = socket \/ Connect)
    BY <1>7, <2>2 DEF Sending, Connect
  <2> QED BY <1>6, <1>7, <2>1, <2>2
<1> QED BY <1>2, <1>3, <1>4, <1>7

LEMMA ChannelNext ==
  ASSUME PaceInv, ChannelInv, [BridgeNext]_bridgeVars
  PROVE  ChannelInv'
<1>1. CASE Transfer
  BY <1>1, ChannelTransfer DEF PaceInv, BridgeTypeInv, ClientInv, DriverTypes, PaceState
<1>2. CASE ~Transfer
  <2>1. wire' = wire /\ Ends' = Ends /\ Count' = Count /\ Cuts' = Cuts
    BY <1>2, WireStays, CountStays DEF Cuts
  <2>2. Received' = Received
    BY <2>1, CutIsReceived
  <2>3. Numbered(Ends') /\ Received' = [k \in 1..Count' |-> Channel!Whole(k)]
    BY <2>1, <2>2 DEF ChannelInv
  <2>4. socket' \in {"connecting", "connected"} =>
          /\ Len(wire') = Cuts' + Sending'
          /\ \A i \in 1..Sending' : wire'[Cuts' + i] = [msg |-> written', piece |-> i]
    <3> SUFFICES ASSUME socket' \in {"connecting", "connected"}
                 PROVE  /\ Len(wire') = Cuts' + Sending'
                        /\ \A i \in 1..Sending' : wire'[Cuts' + i] = [msg |-> written', piece |-> i]
      OBVIOUS
    <3>1. Sending' = Sending /\ (Sending = 0 \/ written' = written)
          /\ socket \in {"connecting", "connected"}
      BY <1>2, WireStays
    <3>2. /\ Len(wire) = Cuts + Sending
          /\ \A i \in 1..Sending : wire[Cuts + i] = [msg |-> written, piece |-> i]
      BY <3>1 DEF ChannelInv
    <3>3. Sending = 0 => 1..Sending = {}
      OBVIOUS
    <3> QED BY <2>1, <3>1, <3>2, <3>3
  <2> QED BY <2>3, <2>4 DEF ChannelInv, Numbered, EndAt, UpTo, Channel!Whole
<1> QED BY <1>1, <1>2

LEMMA ChannelInit == BridgeInit => ChannelInv /\ Channel!Init
<1> SUFFICES ASSUME BridgeInit PROVE ChannelInv /\ Channel!Init
  OBVIOUS
<1>1. wire = <<>> /\ ops = <<>> /\ sent = <<>> /\ socket = "connecting"
  BY DEF BridgeInit, Init
<1>2. Ends = {} /\ Count = 0
  <2>1. Ends = {}
    BY <1>1 DEF Ends
  <2> QED BY <2>1, FS_EmptySet DEF Count
<1>3. Received = <<>> /\ Received = [k \in 1..Count |-> Channel!Whole(k)]
  BY <1>2 DEF Received, Count
<1>4. Cuts = 0 /\ Sending = 0 /\ Numbered(Ends)
  BY <1>1, <1>2 DEF Cuts, EndAt, Sending, Numbered, Count
<1>5. ChannelInv
  BY <1>1, <1>3, <1>4 DEF ChannelInv
<1> QED BY <1>1, <1>3, <1>5 DEF Channel!Init

\* What the connection and the process were, they do not become again.
LEMMA StandingFalls ==
  ASSUME [BridgeNext]_bridgeVars
  PROVE  /\ Running' => Running
         /\ socket' = "connected" => socket = "connected" \/ (SocketStep /\ Connect)
<1> USE DEF bufferVars, asioVars, peerVars
<1>1. ub \subseteq ub'
  <2>1. CASE [Next]_vars
    BY <2>1, Zenon DEF Next, Owner, SeesOpen, Write, WritePush, WriteFill, WriteStart,
       AsyncWriteFront, BeginClose, DoClose, CloseSocket, ClearOpen, DeleteThread, IoService,
       HandlerConnect, HandlerRead, HandlerWrite, WriteChain, PopFront, CheckEmpty, WriteNext,
       AsyncReceive, Network, Connect, Transfer, PeerSends, PeerResets, vars
  <2>2. CASE BridgeCloses
    BY <2>2, Zenon DEF BridgeCloses, BeginClose
  <2> QED BY <2>1, <2>2, BridgeStep
<1>2. exit' = exit \/ exit' = "0" \/ exit' = "1"
  BY Zenon DEF BridgeNext, User, EndOfInput, ReadStep, ReadOther, ReadEnd, ReadLaw, GetLine,
     Main, RunConnected, RunTest, TestLoop, LeaveModule, Translate, LaunchFails, Send, FinishWrite,
     RunClose, Unwind, CloseStep, Exit, Io, HandlerStep, PacketArrived, PacketError,
     SocketStep, OclingoAnswers, OclingoHangsUp, bridgeVars, driverVars, clientOnly
<1>3. Running' => Running
  BY <1>1, <1>2 DEF Running
<1>4. CASE SocketStep
  BY <1>3, <1>4, Zenon DEF SocketStep, Connect, Transfer
<1>5. CASE ~SocketStep
  <2>1. CASE OclingoHangsUp \/ \E t \in Threads : CloseStep(t) /\ CloseSocket(t)
    <3>1. socket' \in {"reset", "closed"}
      BY <2>1 DEF OclingoHangsUp, PeerResets, CloseSocket
    <3> QED BY <1>3, <3>1
  <2>2. CASE ~(OclingoHangsUp \/ \E t \in Threads : CloseStep(t) /\ CloseSocket(t))
    <3>1. socket' = socket
      BY <1>5, <2>2, Zenon DEF BridgeNext, User, EndOfInput, ReadStep, ReadOther, ReadEnd, ReadLaw,
         GetLine, Main, RunConnected, SeesOpen, RunTest, TestLoop, LeaveModule, Translate,
         LaunchFails, Send, WritePush, FinishWrite, WriteFill, WriteStart, RunClose, DriverClose,
         BeginClose, Unwind, CloseStep, DoClose, ClearOpen, DeleteThread, Exit, Io, HandlerStep,
         HandlerConnect, WriteChain, HandlerWrite, PopFront, CheckEmpty, WriteNext, HandlerRead,
         PacketArrived, AsyncReceive, PacketError, OclingoAnswers, PeerSends, bridgeVars, vars,
         driverVars, clientOnly, Threads
    <3> QED BY <1>3, <3>1
  <2> QED BY <2>1, <2>2
<1> QED BY <1>4, <1>5

\* The steps that the channel sees.
LEMMA ChannelSubmit ==
  ASSUME PaceInv, Send
  PROVE  Channel!Submit
<1>1. /\ sent' = Append(sent, [step |-> StepOf(module), stop |-> mClosing])
      /\ UNCHANGED <<wire, socket, ub, exit>>
  BY Zenon DEF Send, WritePush, peerVars
<1>2. sent \in Seq([step : Nat, stop : BOOLEAN])
  BY DEF PaceInv, BridgeTypeInv, DriverTypes
<1>3. Len(sent') = Len(sent) + 1
  BY <1>1, <1>2
<1>4. Received' = Received
  BY <1>1, CutIsReceived
<1>5. (socket = "connected" /\ Running)' = (socket = "connected" /\ Running)
  BY <1>1 DEF Running
<1> QED BY <1>3, <1>4, <1>5 DEF Channel!Submit

LEMMA ChannelEstablish ==
  ASSUME PaceInv, SocketStep, Connect
  PROVE  Channel!Establish
<1>1. /\ UNCHANGED <<wire, sent, ub, exit>>
      /\ socket = "connecting" /\ socket' = "connected" /\ Running
  BY Zenon DEF SocketStep, Connect, peerVars, driverVars
<1>2. pc["main"] = "wait"
  BY <1>1 DEF PaceInv, BridgeTypeInv, ClientInv, IdleUntilConnected
<1>3. Len(sent) = 0 /\ Len(sent') = Len(sent)
  BY <1>1, <1>2 DEF PaceInv, PaceDriver
<1>4. Received' = Received
  BY <1>1, CutIsReceived
<1>5. (socket = "connected" /\ Running)' = TRUE /\ ~(socket = "connected" /\ Running)
  BY <1>1 DEF Running
<1> QED BY <1>3, <1>4, <1>5 DEF Channel!Establish

LEMMA ChannelDeliver ==
  ASSUME PaceInv, ChannelInv, SocketStep, Transfer
  PROVE  Channel!Deliver \/ UNCHANGED Channel!vars
<1>1. PaceState /\ Count \in Nat /\ Len(sent) = written
  BY Numbers DEF PaceInv, PaceDriver, BridgeTypeInv, ClientInv, DriverTypes, PaceState
<1>2. /\ UNCHANGED <<sent, exit>> /\ Running
  BY Zenon DEF SocketStep, driverVars
<1>3. socket = "connected" /\ UNCHANGED <<socket, ub>>
  BY <1>1, PieceSent
<1>4. /\ Count < written
      /\ Received' = Received \/ Received' = Append(Received, Channel!Whole(Count + 1))
  BY <1>1, ChannelTransfer
<1>5. Len(Received) = Count
  <2>1. Received = [k \in 1..Count |-> Channel!Whole(k)]
    BY DEF ChannelInv
  <2> QED BY <1>1, <2>1
<1>6. /\ (socket = "connected" /\ Running) = TRUE
      /\ (socket = "connected" /\ Running)' = (socket = "connected" /\ Running)
      /\ Len(sent') = Len(sent)
  BY <1>2, <1>3 DEF Running
<1> QED BY <1>1, <1>3, <1>2, <1>4, <1>5, <1>6 DEF Channel!Deliver, Channel!vars

\* Every step of the bridge is a step of the channel or changes nothing of it.
LEMMA ChannelStep ==
  ASSUME PaceInv, ChannelInv, [BridgeNext]_bridgeVars
  PROVE  [Channel!Next]_Channel!vars
<1> USE DEF bufferVars, asioVars, peerVars
<1>1. CASE Send
  BY <1>1, ChannelSubmit DEF Channel!Next
<1>2. CASE SocketStep
  <2>1. CASE Connect
    BY <1>2, <2>1, ChannelEstablish DEF Channel!Next
  <2>2. CASE Transfer
    BY <1>2, <2>2, ChannelDeliver DEF Channel!Next
  <2> QED BY <1>2, <2>1, <2>2 DEF SocketStep
<1>3. CASE ~Send /\ ~SocketStep
  <2>1. sent' = sent
    BY <1>3, Zenon DEF BridgeNext, User, EndOfInput, ReadStep, ReadOther, ReadEnd, ReadLaw, GetLine,
       Main, RunConnected, RunTest, TestLoop, LeaveModule, Translate, LaunchFails, FinishWrite,
       RunClose, Unwind, CloseStep, Exit, Io, HandlerStep, PacketArrived, PacketError,
       OclingoAnswers, OclingoHangsUp, bridgeVars, driverVars, clientOnly
  <2>2. wire' = wire
    BY <1>3, Zenon DEF BridgeNext, User, EndOfInput, ReadStep, ReadOther, ReadEnd, ReadLaw, GetLine,
       Main, RunConnected, SeesOpen, RunTest, TestLoop, LeaveModule, Translate, LaunchFails,
       FinishWrite, WriteFill, WriteStart, RunClose, DriverClose, BeginClose, Unwind, CloseStep,
       DoClose, CloseSocket, ClearOpen, DeleteThread, Exit, Io, HandlerStep, HandlerConnect,
       WriteChain, HandlerWrite, PopFront, CheckEmpty, WriteNext, HandlerRead, PacketArrived,
       AsyncReceive, PacketError, OclingoAnswers, PeerSends, OclingoHangsUp, PeerResets,
       bridgeVars, vars, driverVars
  <2>3. Received' = Received /\ Len(sent') = Len(sent)
    BY <2>1, <2>2, CutIsReceived
  <2>4. (socket = "connected" /\ Running)' => (socket = "connected" /\ Running)
    BY <1>3, StandingFalls
  <2>5. CASE (socket = "connected" /\ Running) /\ ~(socket = "connected" /\ Running)'
    BY <2>3, <2>5 DEF Channel!Next, Channel!HangUp
  <2>6. CASE ~((socket = "connected" /\ Running) /\ ~(socket = "connected" /\ Running)')
    <3>1. (socket = "connected" /\ Running)' = (socket = "connected" /\ Running)
      BY <2>4, <2>6
    <3> QED BY <2>3, <3>1 DEF Channel!vars
  <2> QED BY <2>5, <2>6
<1> QED BY <1>1, <1>2, <1>3

\* With a user who waits for the prompt the bridge implements the observation
\* channel (run(), send(), write(), handler_write): every module it sends reaches
\* oClingo whole, once and in order, for as long as the connection stands.  That a
\* module sent does arrive is checked by TLC, with the fairness of the channel.
THEOREM BridgeImplementsChannel ==
  ASSUME Paced
  PROVE  BridgeSpec => Channel!Safety
<1>1. PaceInv /\ ChannelInv /\ [BridgeNext]_bridgeVars => PaceInv' /\ ChannelInv'
  BY PaceNext, ChannelNext
<1>2. PaceInv /\ ChannelInv /\ [BridgeNext]_bridgeVars => [Channel!Next]_Channel!vars
  BY ChannelStep
<1>3. BridgeInit => PaceInv /\ ChannelInv /\ Channel!Init
  BY PaceInit, ChannelInit
<1> QED BY <1>1, <1>2, <1>3, PTL DEF BridgeSpec, Channel!Safety
=============================================================================
