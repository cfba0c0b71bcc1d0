------------------------------- MODULE Bridge -------------------------------
(***************************************************************************)
(* The reactive bridge (src/bcbridge/Driver.{h,cpp}) on top of its socket   *)
(* client: run() reads an observation stream from standard input on the     *)
(* main thread and sends each module to oClingo; processOclingoPacket() is  *)
(* the client's callback and runs on the io thread.  Both share mClosing    *)
(* and call Driver::close(), with no lock.                                  *)
(*                                                                         *)
(* A law is what run() reads off a statement: its time, whether its head    *)
(* holds an action constant and whether the parser and the translator       *)
(* accept it.  oClingo (external) answers every whole message with a packet. *)
(***************************************************************************)
EXTENDS NetworkClient, FiniteSets

CONSTANTS Laws,      \* the statements a user may type: [at, action, good]
          MaxLines,  \* bound: lines read from standard input
          Paced      \* whether the user waits for the prompt after a module

ASSUME BridgeAssumption ==
  /\ Laws \subseteq [at : Nat, action : BOOLEAN, good : BOOLEAN]
  /\ MaxLines \in 0..2 * MaxWrites
  /\ Paced \in BOOLEAN

VARIABLES
  at,         \* where run() is
  mClosing,   \* whether it has been requested that the connection be closed
  lines,      \* lines read so far
  module,     \* the laws of the module being read
  sent,       \* the messages handed to write(), each with its step and end marker
  prompts,    \* answers displayed, each with the prompt for the next module
  code,       \* the exit code with which a thread entered close()
  reported,   \* whether "closed remotely" was reported
  peerGone,   \* whether oClingo hung up (history)
  threw,      \* whether run() ended by an exception
  exit        \* the exit code of the process, or "running"

driverVars == <<at, mClosing, lines, module, sent, prompts, code, reported, peerGone, threw, exit>>
bridgeVars == <<vars, driverVars>>
clientOnly == <<mClosing, lines, module, sent, prompts, code, reported, peerGone, threw, exit>>

BridgeInit ==
  /\ Init
  /\ at = "connect" /\ mClosing = FALSE
  /\ lines = 0 /\ module = {} /\ sent = <<>> /\ prompts = 0
  /\ code = [t \in Threads |-> 0] /\ reported = FALSE
  /\ peerGone = FALSE /\ threw = FALSE
  /\ exit = "running"

Running == ub = {} /\ exit = "running"
\* run() is at l and the process lives.
RunAt(l) == at = l /\ Running
-----------------------------------------------------------------------------
(* run(), on the main thread. *)

RunConnected ==
  /\ RunAt("connect") /\ SeesOpen
  /\ at' = "outer"
  /\ UNCHANGED clientOnly

\* The tests of a loop before getline: what they saw may be stale when it returns.
TestLoop(loop, reading, past) ==
  /\ RunAt(loop)
  /\ at' = IF ~mClosing /\ mOpen THEN reading ELSE past
  /\ UNCHANGED <<vars, clientOnly>>

RunTest == TestLoop("outer", "read outer", "close") \/ TestLoop("inner", "read inner", "module")

\* A paced user types only when every module sent has been answered.
GetLine(loop) ==
  /\ RunAt(loop) /\ lines < MaxLines
  /\ Paced => prompts >= Len(sent)
  /\ lines' = lines + 1
  /\ UNCHANGED <<vars, sent, prompts, code, reported, peerGone, threw, exit>>

\* Standard input ends; it stays ended.
EndOfInput ==
  /\ \/ RunAt("read outer") /\ at' = "close"
     \/ RunAt("read inner") /\ at' = "module"
  /\ lines' = MaxLines
  /\ UNCHANGED <<vars, mClosing, module, sent, prompts, code, reported, peerGone, threw, exit>>

ReadStep ==
  /\ GetLine("read outer")
  /\ at' = "inner" /\ module' = {}
  /\ UNCHANGED mClosing

\* "#done." outside a module; any other line there is ignored with an error.
ReadOther(done) ==
  /\ GetLine("read outer")
  /\ mClosing' = (mClosing \/ done)
  /\ at' = "outer"
  /\ UNCHANGED module

ReadLaw(law) ==
  /\ GetLine("read inner")
  /\ module' = module \cup {law}
  /\ at' = "inner"
  /\ UNCHANGED mClosing

\* "#endstep.", or "#done." inside a module, which also asks to close.
ReadEnd(done) ==
  /\ GetLine("read inner")
  /\ mClosing' = (mClosing \/ done)
  /\ at' = "module"
  /\ UNCHANGED module

\* The step of a module: the last time of its laws, one later for actions.
TimeOf(law) == IF law.action THEN law.at + 1 ELSE law.at
StepOf(laws) ==
  CHOOSE n \in {0} \cup {TimeOf(l) : l \in laws} : \A l \in laws : TimeOf(l) <= n

\* Mutant: without "if (mClosing) continue".
LeaveModuleAnyway ==
  /\ RunAt("module")
  /\ at' = "translate"
  /\ UNCHANGED <<vars, clientOnly>>

\* When the inner loop is left a module is dropped if the bridge is closing, and
\* translated otherwise: also when the input or the connection ended inside it.
LeaveModule ==
  /\ RunAt("module")
  /\ at' = IF mClosing THEN "outer" ELSE "translate"
  /\ UNCHANGED <<vars, clientOnly>>

Accepted == \A law \in module : law.good

\* Parser, translator and f2lp; on an error "the module will be ignored".
Translate(f2lpOk) ==
  /\ RunAt("translate")
  /\ at' = IF module = {} \/ (Accepted /\ f2lpOk) THEN "send" ELSE "outer"
  /\ UNCHANGED <<vars, clientOnly>>

\* Launching f2lp throws (it is not on the path): run() returns 1 and main() too.
LaunchFails ==
  /\ RunAt("translate") /\ module # {} /\ Accepted
  /\ threw' = TRUE
  /\ code' = [code EXCEPT !["main"] = 1]
  /\ at' = "unwind"
  /\ UNCHANGED <<vars, mClosing, lines, module, sent, prompts, reported, peerGone, exit>>

\* send(): the message ends with "#stop." if the io thread began to close meanwhile.
Send ==
  /\ RunAt("send") /\ WritePush
  /\ sent' = Append(sent, [step |-> StepOf(module), stop |-> mClosing])
  /\ at' = "write"
  /\ UNCHANGED <<mClosing, lines, module, prompts, code, reported, peerGone, threw, exit>>

FinishWrite ==
  /\ RunAt("write") /\ (WriteFill \/ WriteStart)
  /\ at' = IF pc'["main"] = "out" THEN "outer" ELSE "write"
  /\ UNCHANGED clientOnly

\* Mutant: mClosing is not set.
DriverCloseSilently(t, l, c) ==
  /\ code' = [code EXCEPT ![t] = c]
  /\ BeginClose(t, l)
  /\ UNCHANGED mClosing

\* Driver::close(c) on thread t, which is at l: mClosing = true, then the client's close().
DriverClose(t, l, c) ==
  /\ mClosing' = TRUE
  /\ code' = [code EXCEPT ![t] = c]
  /\ BeginClose(t, l)

RunClose ==
  /\ RunAt("close") /\ DriverClose("main", "out", 0)
  /\ at' = "exit"
  /\ UNCHANGED <<lines, module, sent, prompts, reported, peerGone, threw, exit>>

\* After an exception ~Driver() closes an open client without setting mClosing,
\* and the release of mClient runs ~NetworkClient(), which closes it again.
Unwind ==
  \/ /\ RunAt("unwind")
     /\ at' = IF mOpen THEN "destroy" ELSE "exit"
     /\ BeginClose("main", "out")
     /\ UNCHANGED clientOnly
  \/ /\ RunAt("destroy") /\ BeginClose("main", "closed")
     /\ at' = "exit"
     /\ UNCHANGED clientOnly

CloseStep(t) ==
  /\ Running /\ DoClose(t)
  /\ UNCHANGED driverVars

\* exit(code), on the thread that closed; main() returning ends the process too.
Exit(t) ==
  /\ pc[t] = "closed" /\ Running /\ (t = "main" => at = "exit")
  /\ exit' = IF code[t] = 0 THEN "0" ELSE "1"
  /\ UNCHANGED <<vars, at, mClosing, lines, module, sent, prompts, code, reported, peerGone, threw>>
-----------------------------------------------------------------------------
(* processOclingoPacket(), on the io thread, called by handler_read. *)

\* Mutant: the prompt is displayed twice for an answer.
PacketPromptsTwice ==
  /\ pc["io"] = "callback" /\ Running
  /\ prompts' = prompts + 2
  /\ IF mClosing
     THEN DriverClose("io", "callback", 0)
     ELSE AsyncReceive /\ UNCHANGED <<mClosing, code>>
  /\ UNCHANGED <<at, lines, module, sent, reported, peerGone, threw, exit>>

PacketArrived ==
  /\ pc["io"] = "callback" /\ Running
  /\ prompts' = prompts + 1
  /\ IF mClosing
     THEN DriverClose("io", "callback", 0)
     ELSE AsyncReceive /\ UNCHANGED <<mClosing, code>>
  /\ UNCHANGED <<at, lines, module, sent, reported, peerGone, threw, exit>>

\* Mutant: an error is reported and nothing else.
PacketErrorReportsOnly ==
  /\ pc["io"] = "callback error" /\ Running
  /\ reported' = (reported \/ ~mClosing)
  /\ AsyncReceive
  /\ UNCHANGED <<at, mClosing, lines, module, sent, prompts, code, peerGone, threw, exit>>

PacketError ==
  /\ pc["io"] = "callback error" /\ Running
  /\ reported' = (reported \/ ~mClosing)
  /\ DriverClose("io", "callback error", IF mClosing THEN 0 ELSE 1)
  /\ UNCHANGED <<at, lines, module, sent, prompts, peerGone, threw, exit>>

HandlerStep ==
  /\ Running
  /\ HandlerConnect \/ WriteChain \/ \E e \in BOOLEAN : HandlerRead(e)
  /\ UNCHANGED driverVars

\* Where the messages that oClingo received end.
Ends == {i \in 1..Len(wire) : wire[i].piece = Pieces}

\* oClingo answers each end of message it received.
OclingoAnswers ==
  /\ Running
  /\ packets < Cardinality(Ends)
  /\ PeerSends
  /\ UNCHANGED driverVars

OclingoHangsUp ==
  /\ Running /\ PeerResets
  /\ peerGone' = TRUE
  /\ UNCHANGED <<at, mClosing, lines, module, sent, prompts, code, reported, threw, exit>>

SocketStep == Running /\ (Connect \/ Transfer) /\ UNCHANGED driverVars
-----------------------------------------------------------------------------
User == \/ EndOfInput \/ ReadStep
        \/ \E done \in BOOLEAN : ReadOther(done) \/ ReadEnd(done)
        \/ \E law \in Laws : ReadLaw(law)

Main == \/ RunConnected \/ RunTest \/ LeaveModule
        \/ \E ok \in BOOLEAN : Translate(ok)
        \/ LaunchFails \/ Send \/ FinishWrite \/ RunClose \/ Unwind
        \/ CloseStep("main") \/ Exit("main")

Io == HandlerStep \/ CloseStep("io") \/ PacketArrived \/ PacketError \/ Exit("io")

BridgeNext == User \/ Main \/ Io \/ SocketStep \/ OclingoAnswers \/ OclingoHangsUp

\* Both threads are scheduled and the socket drains; the user need not type,
\* and oClingo need not accept, answer or hang up.
BridgeFairness ==
  /\ WF_bridgeVars(Main)
  /\ WF_bridgeVars(Io)
  /\ WF_bridgeVars(Running /\ Transfer /\ UNCHANGED driverVars)

BridgeSpec == BridgeInit /\ [][BridgeNext]_bridgeVars
FairBridgeSpec == BridgeSpec /\ BridgeFairness
-----------------------------------------------------------------------------
(* Properties. *)

BridgeTypeOK ==
  /\ TypeOK
  /\ at \in {"connect", "outer", "read outer", "inner", "read inner", "module",
             "translate", "send", "write", "close", "unwind", "destroy", "exit"}
  /\ mClosing \in BOOLEAN /\ lines \in 0..MaxLines /\ module \subseteq Laws
  /\ sent \in Seq([step : Nat, stop : BOOLEAN])
  /\ prompts \in 0..MaxPackets
  /\ code \in [Threads -> {0, 1}]
  /\ {reported, peerGone, threw} \subseteq BOOLEAN
  /\ exit \in {"running", "0", "1"}

\* With a user who waits for the prompt the unlocked parts of the client never
\* meet: no access to an empty list or a freed node.
BufferSafe == ub \subseteq {"thread deleted twice"}

\* The bridge says that oClingo closed the connection only if oClingo hung up or run()
\* ended by an exception: the reads that a close() of run() or of the io thread aborts
\* find mClosing set. After an exception ~Driver() closes without setting it, and
\* then oClingo is blamed although it did not hang up.
BlameHasCause == reported => peerGone \/ threw

\* mClosing is set by either thread between run()'s test of it and send(): still
\* no message composed after that ("stop") reaches oClingo, because the io thread
\* starts to close only when the connection is gone.
NothingSentAfterClosing ==
  \A i \in 1..Len(wire) : ~sent[wire[i].msg].stop

\* Whoever starts closing, run(), the io thread or an exception, and whatever the other
\* thread does (the main thread may sit in getline for ever), the process ends, unless
\* mIOThread is deleted twice first, after which anything may happen: the two closes of
\* an exception always do so when the client was open.
CloseEnds == (mClosing \/ threw \/ socket = "reset") ~> ~Running

\* The messages oClingo sees: the pieces up to each end-of-message byte.
EndOf(k) == IF k = 0 THEN 0
            ELSE CHOOSE i \in Ends : Cardinality({j \in Ends : j <= i}) = k
Received == [k \in 1..Cardinality(Ends) |-> SubSeq(wire, EndOf(k - 1) + 1, EndOf(k))]

Channel == INSTANCE ObservationChannel WITH
  submitted <- Len(sent),
  received <- Received,
  standing <- socket = "connected" /\ Running

\* With a paced user the bridge implements the observation channel.
ImplementsChannel == Channel!Spec

\* mIOThread is deleted once, whichever threads close the client.
ThreadDeletedOnce == "thread deleted twice" \notin ub
=============================================================================
