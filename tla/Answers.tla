------------------------------ MODULE Answers ------------------------------
(***************************************************************************)
(* How answer sets reach the user.  A formatter (TransitionFormatter.r2c,    *)
(* PredicateParser.cpp) reads one line of predicates into a path of time     *)
(* steps (TransitionPath.cpp, Timestep.cpp) and prints it.  Two programs use  *)
(* it: as2transition (main.cpp), which walks through the output of a solver   *)
(* word by word, and the bridge (Driver.cpp), which gets it from oClingo in   *)
(* packets and looks for markers inside each.                                *)
(*                                                                         *)
(* A text is a sequence of pieces: words, line ends and predicates.  A       *)
(* predicate has a form, a time or Timeless, a sign that decides whether the  *)
(* configuration shows it, and a key, its place in the order of predicates.   *)
(***************************************************************************)
EXTENDS Naturals, Sequences, FiniteSets, SequencesExt

CONSTANTS Piece,           \* the pieces a text is made of
          Programs,        \* subset of {"as2transition", "bridge"}
          Runs,            \* what a solver may find: sequences of [answered, holds]
          Texts(_, _),     \* the texts it may print of that, for each program
          Timeless,        \* Predicate::TIMELESS
          ShowMask,        \* Config: the signs that are shown
          SeparateActions, \* Config: actions after the external fluents
          MaxPacket,       \* the size of the read buffer, in pieces
          MarkersWhole     \* packets end with lines, and hold lines of one step

\* What is read: predicates have a place and a time, and the solver prints its
\* markers, `Answer:' and `Step:', at the start of a line that goes on, and only
\* if it found something.
Markers == {"Answer:", "Step:"}
ASSUME AnswersAssumption ==
  /\ Programs \subseteq {"as2transition", "bridge"} /\ MaxPacket \in Nat
  /\ Timeless \notin Nat
  /\ [is |-> "newline"] \in Piece
  /\ \A p \in Piece : p.is = "predicate" => p.key \in Nat /\ p.time \in Nat \cup {Timeless}
  /\ \A q \in Programs, r \in Runs : Texts(q, r) \subseteq Seq(Piece)
  /\ \A r \in Runs : \A t \in Texts("as2transition", r) :
       /\ (\E i \in DOMAIN r : r[i].answered) <=> \E i \in 1..Len(t) : t[i].is \in Markers
       /\ \A i \in 1..Len(t) : t[i].is \in Markers =>
            i # Len(t) /\ (i = 1 \/ t[i - 1] = [is |-> "newline"])

VARIABLES program,
          found,       \* the answers of the solver, for reference
          given,       \* its text
          text,        \* the part of it that was not read yet
          mOclingoOut, \* bridge: the text collected
          word,        \* as2transition: strTempString, if the loop has one
          out,         \* what was printed: lines copied, and paths
          solutionNum,
          exit         \* as2transition: its exit code, 0 while it runs

vars == <<program, found, given, text, mOclingoOut, word, out, solutionNum, exit>>

-----------------------------------------------------------------------------
(* The formatter *)

Word(w) == [is |-> w]
Newline == Word("newline")

\* The pieces before the first one in ws, and those behind it.
Upto(s, ws) == SelectInSeq(s, LAMBDA p : p \in ws)
Before(s, ws) == IF Upto(s, ws) = 0 THEN s ELSE SubSeq(s, 1, Upto(s, ws) - 1)
After(s, ws) == IF Upto(s, ws) = 0 THEN <<>> ELSE SubSeq(s, Upto(s, ws) + 1, Len(s))
Line(s) == Before(s, {Newline})
Lines(s) == After(s, {Newline})

\* The parser takes predicates and stops at the first other piece, but the words
\* of a torn marker are predicates without a value to it.
NoPredicate(p) == p.is \notin {"predicate", "End of"}
Bare == [is |-> "predicate", form |-> "unknown", time |-> Timeless, sign |-> "unknown", key |-> 0]
Predicates(line) ==
  LET stop == SelectInSeq(line, NoPredicate)
      good == IF stop = 0 THEN line ELSE SubSeq(line, 1, stop - 1)
  IN  [i \in DOMAIN good |-> IF good[i].is = "predicate" THEN good[i] ELSE Bare]

\* The type is stored before it is corrected for an external constant.
ConstType(p) ==
  CASE p.form \in {"action", "external action"} -> "action"
    [] OTHER -> "fluent"

EmptyStep == [constants |-> <<>>, fluent |-> <<>>, extFluent |-> <<>>, action |-> <<>>,
              extAction |-> <<>>]
EmptyPath == [timeless |-> EmptyStep, steps |-> <<>>]

\* Mutant: new predicates go to the end.
InsertLast(list, p) == Append(list, p)

\* insert(): before the first predicate that is not smaller.
Insert(list, p) ==
  LET at == SelectInSeq(list, LAMBDA q : q.key >= p.key)
  IN  IF at = 0 THEN Append(list, p) ELSE InsertAt(list, at, p)

AddToStep(step, p) ==
  [step EXCEPT !.constants = Insert(@, p), ![ConstType(p)] = Insert(@, p)]

\* Steps up to the predicate's own are made when it is the first so late.
AddToPath(path, p) ==
  IF p.time = Timeless THEN [path EXCEPT !.timeless = AddToStep(@, p)]
  ELSE LET longer == [t \in 1..(IF p.time < Len(path.steps) THEN Len(path.steps)
                                ELSE p.time + 1) |->
                        IF t <= Len(path.steps) THEN path.steps[t] ELSE EmptyStep]
       IN  [path EXCEPT !.steps = [longer EXCEPT ![p.time + 1] = AddToStep(@, p)]]

\* One line is read.  A line of predicates, as TextsAssumption has them, is read to
\* its end; the code leaves one that holds a syntax error there.
Path(s) ==
  LET line == Predicates(Line(s))
      path[n \in 0..Len(line)] == IF n = 0 THEN EmptyPath ELSE AddToPath(path[n - 1], line[n])
  IN  path[Len(line)]

\* The elements of a list at some of its places, in order.
Only(list, places) ==
  LET upTo[n \in 0..Len(list)] ==
        IF n = 0 THEN <<>>
        ELSE IF n \in places THEN Append(upTo[n - 1], list[n]) ELSE upTo[n - 1]
  IN  upTo[Len(list)]

\* What the mask does not hide of a list.
Visible(list) == {i \in DOMAIN list : list[i].sign \in ShowMask}
Shown(list) == Only(list, Visible(list))

\* Timestep::output(): the lists in turn.
StepOutput(step) ==
  Shown(step.fluent) \o (IF SeparateActions THEN <<>> ELSE Shown(step.action))
    \o Shown(step.extFluent) \o (IF SeparateActions THEN Shown(step.action) ELSE <<>>)
    \o Shown(step.extAction)

PathOutput(path) ==
  [what |-> "path",
   timeless |-> IF path.timeless.constants = <<>> THEN <<>> ELSE <<StepOutput(path.timeless)>>,
   steps |-> [t \in DOMAIN path.steps |-> StepOutput(path.steps[t])]]
Copied(line) == [what |-> "line", line |-> line]

-----------------------------------------------------------------------------
(* What the solver prints *)

Answered(runs) == Only(runs, {i \in DOMAIN runs : runs[i].answered})

\* Where the answers are marked in a text for as2transition: one marker for each,
\* in their order, and the predicates are the line behind the marker's.
AnswerPlaces(t, runs) ==
  {at \in [DOMAIN Answered(runs) -> DOMAIN t] :
     /\ \A j, k \in DOMAIN at : j < k => at[j] < at[k]
     /\ {i \in DOMAIN t : t[i].is \in Markers} = {at[k] : k \in DOMAIN at}
     /\ \A k \in DOMAIN at : Line(Lines(SubSeq(t, at[k] + 1, Len(t)))) = Answered(runs)[k].holds}

\* A step of oClingo: its header, the answer if there is one, and its end.
AnswerLine(run) == IF run.answered THEN Append(run.holds, Newline) ELSE <<>>
StepText(run) ==
  <<Word("Step:"), Word("number"), Newline>> \o AnswerLine(run)
    \o <<Word("End of"), Word("Step."), Newline>>

\* Where the steps begin in a text for the bridge, which has nothing else.
StepPlaces(t, runs) ==
  {at \in [1..(Len(runs) + 1) -> 1..(Len(t) + 1)] :
     /\ at[1] = 1 /\ at[Len(runs) + 1] = Len(t) + 1
     /\ \A k \in DOMAIN runs : SubSeq(t, at[k], at[k + 1] - 1) = StepText(runs[k])}

\* An answer holds predicates, each once, and oClingo's one of a step.
ASSUME TextsAssumption ==
  /\ \A r \in Runs :
       /\ r \in Seq([answered : BOOLEAN, holds : Seq(Piece)])
       /\ \A i \in DOMAIN r : /\ IsInjective(r[i].holds)
                              /\ \A p \in ToSet(r[i].holds) : p.is = "predicate"
  /\ \A r \in Runs : \A t \in Texts("as2transition", r) : AnswerPlaces(t, r) # {}
  /\ \A r \in Runs : \A t \in Texts("bridge", r) :
       /\ StepPlaces(t, r) # {}
       /\ \A i \in DOMAIN r : r[i].answered => \E p \in ToSet(r[i].holds) : p.time # Timeless

-----------------------------------------------------------------------------
(* as2transition *)

Headers == {"clasp", "Reading", "Solving", "cmodels", "Program", "Calling", "smodels"}

\* in >> word: line ends are skipped, and a word that touches the end of the
\* input ends the loop before it was looked at.
ReadWord ==
  /\ program = "as2transition" /\ exit = 0 /\ word = ""
  /\ LET skip == SelectInSeq(text, LAMBDA p : p # Newline)
         rest == IF skip = 0 THEN <<>> ELSE SubSeq(text, skip, Len(text))
     IN  IF Len(rest) <= 1
         THEN /\ text' = <<>> /\ UNCHANGED word
              /\ exit' = IF solutionNum > 0 THEN 101 ELSE 100
         ELSE /\ word' = Head(rest).is /\ text' = Tail(rest)
              /\ UNCHANGED exit
  /\ UNCHANGED <<program, found, given, mOclingoOut, out, solutionNum>>

SkipHeader ==
  /\ word \in Headers
  /\ text' = Lines(text) /\ word' = ""
  /\ UNCHANGED <<program, found, given, mOclingoOut, out, solutionNum, exit>>

\* Mutant: only the answers of clasp are counted.
ShowAnswerOfClasp ==
  /\ word \in Markers
  /\ solutionNum' = IF word = "Step:" THEN solutionNum + 1 ELSE solutionNum
  /\ out' = (IF word = "Answer:" THEN Append(out, Copied(<<Word("Solution:")>> \o Line(text)))
             ELSE out) \o <<PathOutput(Path(Lines(text)))>>
  /\ text' = Lines(Lines(text)) /\ word' = ""
  /\ UNCHANGED <<program, found, given, mOclingoOut, exit>>

\* The rest of the line is copied behind `Solution:' for clasp, dropped for
\* oClingo; the next line is the answer set.
ShowAnswer ==
  /\ word \in Markers
  /\ solutionNum' = solutionNum + 1
  /\ out' = (IF word = "Answer:" THEN Append(out, Copied(<<Word("Solution:")>> \o Line(text)))
             ELSE out) \o <<PathOutput(Path(Lines(text)))>>
  /\ text' = Lines(Lines(text)) /\ word' = ""
  /\ UNCHANGED <<program, found, given, mOclingoOut, exit>>

CopyLine ==
  /\ word \notin Headers \cup Markers \cup {""}
  /\ out' = Append(out, Copied(<<Word(word)>> \o Line(text)))
  /\ text' = Lines(text) /\ word' = ""
  /\ UNCHANGED <<program, found, given, mOclingoOut, solutionNum, exit>>

-----------------------------------------------------------------------------
(* The bridge *)

\* displayTransition() prints a path that has steps.
Displayed(s) == IF Path(s).steps = <<>> THEN <<>> ELSE <<PathOutput(Path(s))>>

\* `End of Step.' is found when its words are in one packet.
EndAt(s) == Upto(s, {Word("End of")})
HasEnd(s) == EndAt(s) \in 1..(Len(s) - 1)

\* Mutant: the text collected is not dropped when a new step begins.
PacketOnTop(packet) ==
  LET header == \E i \in DOMAIN packet : packet[i] = Word("Step:")
      msg == IF header THEN Lines(After(packet, {Word("Step:")})) ELSE packet
  IN  IF HasEnd(msg)
      THEN /\ out' = out \o Displayed(mOclingoOut \o Before(msg, {Word("End of")}) \o <<Newline>>)
           /\ mOclingoOut' = SubSeq(msg, EndAt(msg) + 2, Len(msg))
      ELSE out' = out /\ mOclingoOut' = mOclingoOut \o msg

\* processOclingoPacket(): a new step first flushes what was collected, and drops
\* what came before it in the packet.  `Step:' stands for both headers the code
\* looks for: `Input:' is treated in the same way.
Packet(packet) ==
  LET header == \E i \in DOMAIN packet : packet[i] = Word("Step:")
      msg == IF header THEN Lines(After(packet, {Word("Step:")})) ELSE packet
      flushed == IF header THEN Displayed(Append(mOclingoOut, Newline)) ELSE <<>>
      pending == IF header THEN <<>> ELSE mOclingoOut
  IN  IF HasEnd(msg)
      THEN /\ out' = out \o flushed
                       \o Displayed(pending \o Before(msg, {Word("End of")}) \o <<Newline>>)
           /\ mOclingoOut' = SubSeq(msg, EndAt(msg) + 2, Len(msg))
      ELSE out' = out \o flushed /\ mOclingoOut' = pending \o msg

\* Where the network may cut: with MarkersWhole, not in a header or a marker, and
\* not so that a step begins inside a packet.
Whole(packet) ==
  /\ packet[Len(packet)].is \notin {"End of", "Step:"}
  /\ \A i \in DOMAIN packet : packet[i] = Word("Step:") =>
       /\ \A j \in 1..(i - 1) : packet[j] = Newline
       /\ \E j \in i..Len(packet) : packet[j] = Newline

PacketArrived ==
  /\ program = "bridge"
  /\ \E n \in 1..MaxPacket :
       /\ n <= Len(text)
       /\ MarkersWhole => Whole(SubSeq(text, 1, n))
       /\ Packet(SubSeq(text, 1, n))
       /\ text' = SubSeq(text, n + 1, Len(text))
  /\ UNCHANGED <<program, found, given, word, solutionNum, exit>>

-----------------------------------------------------------------------------
Init ==
  /\ program \in Programs /\ found \in Runs
  /\ given \in Texts(program, found) /\ text = given
  /\ mOclingoOut = <<>> /\ word = "" /\ out = <<>>
  /\ solutionNum = 0 /\ exit = 0

\* as2transition has exited, or oClingo says no more.
Done == (exit # 0 \/ (program = "bridge" /\ text = <<>>)) /\ UNCHANGED vars

Next == ReadWord \/ SkipHeader \/ ShowAnswer \/ CopyLine \/ PacketArrived \/ Done

Spec == Init /\ [][Next]_vars

-----------------------------------------------------------------------------
(* Properties *)

Times(answer) == {answer[i].time : i \in DOMAIN answer} \ {Timeless}

\* The lists say what the answer holds at the time, each predicate once.
Says(list, answer, time) ==
  /\ IsInjective(list)
  /\ ToSet(list) = {answer[i] : i \in {i \in Visible(answer) : answer[i].time = time}}

\* The path has the steps of the answer and no more.
Shows(path, answer) ==
  /\ DOMAIN path.steps = {t + 1 : t \in UNION {0..t : t \in Times(answer)}}
  /\ \A t \in DOMAIN path.steps : Says(path.steps[t], answer, t - 1)
  /\ \A i \in DOMAIN path.timeless : Says(path.timeless[i], answer, Timeless)
  /\ path.timeless = <<>> => \A i \in DOMAIN answer : answer[i].time # Timeless

Paths == Only(out, {i \in DOMAIN out : out[i].what = "path"})

\* How many runs are over, as far as the text was read.
Over ==
  IF program = "bridge"
  THEN LET left == {i \in DOMAIN text : text[i] = Word("Step.")} IN Len(found) - Cardinality(left)
  ELSE IF exit = 0 THEN 0 ELSE Len(found)

\* However the solver orders the predicates, and the network cuts the text without
\* tearing a marker (MarkersWhole), the answers are shown, each once, in order, as
\* soon as their end has come, and nothing of an answer is lost, shown twice or
\* shown under another step.
AnswersShown ==
  program = "bridge" \/ exit # 0 =>
    LET answers == Answered(SubSeq(found, 1, Over))
    IN  /\ Len(Paths) = Len(answers)
        /\ \A i \in DOMAIN answers : Shows(Paths[i], answers[i].holds)

InOrder(list) ==
  \A j, k \in DOMAIN list : j < k =>
    \/ ConstType(list[j]) = "fluent" /\ ConstType(list[k]) = "action"
    \/ ConstType(list[j]) = ConstType(list[k]) /\ list[j].key <= list[k].key

\* A step is listed in the order of its predicates, in whichever order they came,
\* and actions apart from fluents.
ListedInOrder ==
  \A i \in DOMAIN out : out[i].what = "path" => \A t \in DOMAIN out[i].steps : InOrder(out[i].steps[t])

\* as2transition tells the orchestrator by its exit code whether there was an
\* answer.
ExitCodeTells == exit # 0 => (exit = 101 <=> \E i \in DOMAIN found : found[i].answered)
=============================================================================
