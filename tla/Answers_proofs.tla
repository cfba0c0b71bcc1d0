---------------------------- MODULE Answers_proofs ----------------------------
(***************************************************************************)
(* Proofs about the way of an answer to the user, for every text, every run *)
(* of a solver and every cut of the network: a step is listed in order, the  *)
(* exit code of as2transition tells whether there was an answer, and every   *)
(* answer is shown, once, whole and in its place.                            *)
(***************************************************************************)
EXTENDS Answers, Recursion_proofs, SequenceTheorems, FiniteSetTheorems, TLAPS

-----------------------------------------------------------------------------
(* The first element of a sequence that passes a test. *)

LEMMA FirstIndex ==
  ASSUME NEW N \in Nat, NEW I \in SUBSET (1..N), NEW k, k = IF I # {} THEN Min(I) ELSE 0
  PROVE  k \in 0..N /\ (k = 0 <=> I = {}) /\ (k # 0 => k \in I) /\ \A i \in I : k <= i
<1>1. CASE I = {}
  BY <1>1
<1>2. CASE I # {}
  <2>1. I \in SUBSET Nat
    OBVIOUS
  <2>2. \E n \in I : \A i \in I : n <= i
    BY <1>2, <2>1, LeastNumber
  <2>3. k = CHOOSE x \in I : \A y \in I : x <= y
    BY <1>2 DEF Min
  <2>4. k \in I /\ \A i \in I : k <= i
    BY <2>2, <2>3
  <2> QED BY <2>4
<1> QED BY <1>1, <1>2

LEMMA FirstOf ==
  ASSUME NEW s \in Seq(Piece), NEW ws
  PROVE  /\ Upto(s, ws) \in 0..Len(s)
         /\ Upto(s, ws) = 0 => \A i \in 1..Len(s) : s[i] \notin ws
         /\ Upto(s, ws) # 0 => s[Upto(s, ws)] \in ws
         /\ \A i \in 1..Len(s) : s[i] \in ws => Upto(s, ws) # 0 /\ Upto(s, ws) <= i
<1> DEFINE I == {i \in 1..Len(s) : s[i] \in ws}
           k == Upto(s, ws)
<1>1. k = IF I # {} THEN Min(I) ELSE 0
  BY DEF Upto, SelectInSeq
<1>2. I \in SUBSET (1..Len(s)) /\ Len(s) \in Nat
  OBVIOUS
<1>3. k \in 0..Len(s) /\ (k = 0 <=> I = {}) /\ (k # 0 => k \in I) /\ \A i \in I : k <= i
  <2> HIDE DEF I, k
  <2> QED BY <1>1, <1>2, FirstIndex
<1> QED BY <1>3

LEMMA Below ==
  ASSUME NEW n \in Nat, NEW x \in Nat, x <= n - 1
  PROVE  x < n /\ x <= n
OBVIOUS

LEMMA EndInStep ==
  ASSUME NEW a \in Nat, NEW b \in Nat, a + 6 <= b
  PROVE  b - 2 \in a..(b - 1)
OBVIOUS

LEMMA SameEnd ==
  ASSUME NEW a \in Nat, NEW b \in Nat, a - 2 = b - 2
  PROVE  a = b
OBVIOUS

\* A part of a text is a text.
LEMMA Parts ==
  ASSUME NEW S, NEW s \in Seq(S), NEW a \in Nat, NEW b \in Nat, a > 0, b <= Len(s)
  PROVE  /\ SubSeq(s, a, b) \in Seq(S)
         /\ Len(SubSeq(s, a, b)) = IF a <= b THEN b - a + 1 ELSE 0
         /\ \A i \in 1..Len(SubSeq(s, a, b)) :
              SubSeq(s, a, b)[i] = s[a + i - 1] /\ a + i - 1 \in a..b /\ a + i - 1 \in 1..Len(s)
  BY SubSeqProperties

LEMMA FirstPart ==
  ASSUME NEW S, NEW s \in Seq(S), NEW b \in Nat, b <= Len(s)
  PROVE  /\ SubSeq(s, 1, b) \in Seq(S) /\ Len(SubSeq(s, 1, b)) = b
         /\ \A i \in 1..Len(SubSeq(s, 1, b)) : SubSeq(s, 1, b)[i] = s[1 + i - 1]
  BY SubSeqProperties

LEMMA PartsOfTexts ==
  ASSUME NEW s \in Seq(Piece), NEW ws
  PROVE  Before(s, ws) \in Seq(Piece) /\ After(s, ws) \in Seq(Piece)
<1>1. Upto(s, ws) \in 0..Len(s) /\ Len(s) \in Nat
  BY FirstOf
<1>2. CASE Upto(s, ws) = 0
  BY <1>2 DEF Before, After
<1>3. CASE Upto(s, ws) # 0
  <2>1. Upto(s, ws) - 1 \in Nat /\ Upto(s, ws) - 1 <= Len(s) /\ Upto(s, ws) + 1 \in Nat
        /\ Upto(s, ws) + 1 > 0
    BY <1>1, <1>3
  <2>2. SubSeq(s, 1, Upto(s, ws) - 1) \in Seq(Piece)
    BY <2>1, Parts
  <2>3. SubSeq(s, Upto(s, ws) + 1, Len(s)) \in Seq(Piece)
    BY <1>1, <2>1, Parts
  <2> QED BY <1>3, <2>2, <2>3 DEF Before, After
<1> QED BY <1>2, <1>3

LEMMA LinesOfTexts ==
  ASSUME NEW s \in Seq(Piece)
  PROVE  Line(s) \in Seq(Piece) /\ Lines(s) \in Seq(Piece)
  BY PartsOfTexts DEF Line, Lines

-----------------------------------------------------------------------------
(* The markers that as2transition counts. *)

Marks(s) == {i \in 1..Len(s) : s[i].is \in Markers}
\* Each is at the start of a line, which goes on.
LineStarts(s) ==
  \A i \in Marks(s) : i # Len(s) /\ (i > 1 => s[i - 1] = Newline)

LEMMA NewlineIsNoMarker == Newline.is \notin Markers /\ Newline \in Piece
  BY AnswersAssumption DEF Newline, Word, Markers

\* A part of a text that begins at a and goes to its end.
LEMMA EndOfText ==
  ASSUME NEW s \in Seq(Piece), NEW a \in 1..(Len(s) + 1), NEW e, e = SubSeq(s, a, Len(s))
  PROVE  /\ e \in Seq(Piece) /\ Len(e) = Len(s) - a + 1
         /\ \A i \in Marks(e) : a + i - 1 \in Marks(s)
         /\ \A i \in Marks(s) : i >= a => i - a + 1 \in Marks(e)
         /\ LineStarts(s) => LineStarts(e)
<1>1. /\ Len(s) \in Nat /\ a \in Nat /\ a > 0
      /\ e \in Seq(Piece) /\ Len(e) = IF a <= Len(s) THEN Len(s) - a + 1 ELSE 0
      /\ \A i \in 1..Len(e) : e[i] = s[a + i - 1] /\ a + i - 1 \in 1..Len(s)
  BY Parts
<1>2. Len(e) = Len(s) - a + 1
  BY <1>1
<1>3. \A i \in Marks(e) : a + i - 1 \in Marks(s)
  BY <1>1 DEF Marks
<1>4. ASSUME NEW i \in Marks(s), i >= a PROVE i - a + 1 \in Marks(e)
  <2>1. i \in 1..Len(s) /\ s[i].is \in Markers
    BY DEF Marks
  <2>2. i - a + 1 \in 1..Len(e) /\ a + (i - a + 1) - 1 = i
    BY <1>1, <1>2, <1>4, <2>1
  <2>3. e[i - a + 1] = s[i]
    BY <1>1, <2>2
  <2> QED BY <2>1, <2>2, <2>3 DEF Marks
<1>5. ASSUME LineStarts(s), NEW i \in Marks(e)
      PROVE  i # Len(e) /\ (i > 1 => e[i - 1] = Newline)
  <2>1. a + i - 1 \in Marks(s) /\ i \in 1..Len(e)
    BY <1>3 DEF Marks
  <2>2. a + i - 1 # Len(s)
    BY <1>5, <2>1 DEF LineStarts
  <2>3. i # Len(e)
    BY <1>1, <1>2, <2>1, <2>2
  <2>4. ASSUME i > 1 PROVE e[i - 1] = Newline
    <3>1. a + i - 1 > 1 /\ i - 1 \in 1..Len(e) /\ (a + i - 1) - 1 = a + (i - 1) - 1
      BY <1>1, <2>1, <2>4
    <3>2. s[(a + i - 1) - 1] = Newline
      BY <1>5, <2>1, <3>1 DEF LineStarts
    <3> QED BY <1>1, <3>1, <3>2
  <2> QED BY <2>3, <2>4
<1> QED BY <1>1, <1>2, <1>3, <1>4, <1>5 DEF LineStarts

\* The end of a line drops no marker, unless the line began with it.
LEMMA LinesKeepMarkers ==
  ASSUME NEW s \in Seq(Piece), LineStarts(s), 1 \notin Marks(s)
  PROVE  LineStarts(Lines(s)) /\ (Marks(Lines(s)) = {} <=> Marks(s) = {})
<1> DEFINE u == Upto(s, {Newline})
<1>1. /\ u \in 0..Len(s) /\ Len(s) \in Nat
      /\ \A i \in 1..Len(s) : s[i] \in {Newline} => u # 0 /\ u <= i
  BY FirstOf
<1>2. ASSUME NEW i \in Marks(s) PROVE u # 0 /\ u < i
  <2>1. i \in 1..Len(s) /\ i # 1
    BY DEF Marks
  <2>2. i - 1 \in 1..Len(s) /\ s[i - 1] = Newline
    BY <2>1 DEF LineStarts
  <2>3. u # 0 /\ u <= i - 1
    BY <1>1, <2>2
  <2> QED BY <1>1, <2>1, <2>3
<1>3. CASE u = 0
  <2>1. Lines(s) = <<>>
    BY <1>3 DEF Lines, After
  <2>2. Marks(s) = {}
    BY <1>2, <1>3
  <2>3. Len(Lines(s)) = 0 /\ 1..0 = {}
    BY <2>1
  <2>4. Marks(Lines(s)) = {}
    BY <2>3 DEF Marks
  <2> QED BY <2>2, <2>4 DEF LineStarts
<1>4. CASE u # 0
  <2>1. Lines(s) = SubSeq(s, u + 1, Len(s))
    BY <1>4 DEF Lines, After
  <2>2. u + 1 \in 1..(Len(s) + 1)
    BY <1>1
  <2>3. /\ \A i \in Marks(Lines(s)) : (u + 1) + i - 1 \in Marks(s)
        /\ \A i \in Marks(s) : i >= u + 1 => i - (u + 1) + 1 \in Marks(Lines(s))
        /\ LineStarts(Lines(s))
    <3> HIDE DEF u
    <3> QED BY <2>1, <2>2, EndOfText
  <2>4. ASSUME NEW i \in Marks(s) PROVE i >= u + 1
    <3>1. i \in 1..Len(s)
      BY DEF Marks
    <3>2. u < i
      BY <1>2
    <3> QED BY <1>1, <3>1, <3>2
  <2>5. ASSUME Marks(s) # {} PROVE Marks(Lines(s)) # {}
    <3>1. PICK i : i \in Marks(s)
      BY <2>5
    <3> QED BY <2>3, <2>4, <3>1
  <2>6. ASSUME Marks(Lines(s)) # {} PROVE Marks(s) # {}
    <3>1. PICK i : i \in Marks(Lines(s))
      BY <2>6
    <3> QED BY <2>3, <3>1
  <2>7. Marks(Lines(s)) = {} <=> Marks(s) = {}
    BY <2>5, <2>6, Zenon
  <2> QED BY <2>3, <2>7
<1> QED BY <1>3, <1>4

-----------------------------------------------------------------------------
(* The texts. *)

TypeInv ==
  /\ program \in Programs /\ found \in Runs
  /\ text \in Seq(Piece) /\ mOclingoOut \in Seq(Piece)
  /\ word \in {p.is : p \in Piece} \cup {""}
  /\ solutionNum \in Nat /\ exit \in {0, 100, 101}

LEMMA TypeInit == Init => TypeInv
<1> SUFFICES ASSUME Init PROVE TypeInv
  OBVIOUS
<1>1. Texts(program, found) \subseteq Seq(Piece)
  BY AnswersAssumption DEF Init
<1>2. text \in Seq(Piece)
  BY <1>1 DEF Init
<1>3. mOclingoOut \in Seq(Piece) /\ word \in {p.is : p \in Piece} \cup {""}
  <2>1. mOclingoOut \in Seq(Piece)
    <3>1. <<>> \in Seq(Piece)
      OBVIOUS
    <3> QED BY <3>1, Zenon DEF Init
  <2>2. word \in {p.is : p \in Piece} \cup {""}
    BY Zenon DEF Init
  <2> QED BY <2>1, <2>2
<1>4. program \in Programs /\ found \in Runs /\ solutionNum \in Nat /\ exit \in {0, 100, 101}
  BY DEF Init
<1> QED BY <1>2, <1>3, <1>4 DEF TypeInv

\* What ReadWord leaves of the text: the words behind the line ends.
FirstWord(s) == SelectInSeq(s, LAMBDA p : p # Newline)
Rest(s) == IF FirstWord(s) = 0 THEN <<>> ELSE SubSeq(s, FirstWord(s), Len(s))

LEMMA SkipLineEnds ==
  ASSUME NEW s \in Seq(Piece)
  PROVE  /\ FirstWord(s) \in 0..Len(s)
         /\ FirstWord(s) # 0 => s[FirstWord(s)] # Newline
         /\ \A i \in 1..Len(s) : s[i] # Newline => FirstWord(s) # 0 /\ FirstWord(s) <= i
<1> DEFINE I == {i \in 1..Len(s) : s[i] # Newline}
<1>1. FirstWord(s) = IF I # {} THEN Min(I) ELSE 0
  BY DEF FirstWord, SelectInSeq
<1>2. I \in SUBSET (1..Len(s)) /\ Len(s) \in Nat
  OBVIOUS
<1>3. /\ FirstWord(s) \in 0..Len(s) /\ (FirstWord(s) # 0 => FirstWord(s) \in I)
      /\ (FirstWord(s) = 0 <=> I = {}) /\ \A i \in I : FirstWord(s) <= i
  <2> HIDE DEF I
  <2> QED BY <1>1, <1>2, FirstIndex
<1> QED BY <1>3

LEMMA RestOfText ==
  ASSUME NEW s \in Seq(Piece)
  PROVE  /\ Rest(s) \in Seq(Piece)
         /\ Rest(s) # <<>> => Rest(s)[1] # Newline
         /\ LineStarts(s) => /\ LineStarts(Rest(s))
                             /\ Marks(Rest(s)) = {} <=> Marks(s) = {}
<1> DEFINE skip == FirstWord(s)
<1>1. /\ skip \in 0..Len(s) /\ Len(s) \in Nat
      /\ skip # 0 => s[skip] # Newline
      /\ \A i \in 1..Len(s) : s[i] # Newline => skip # 0 /\ skip <= i
  BY SkipLineEnds
<1>2. Rest(s) = IF skip = 0 THEN <<>> ELSE SubSeq(s, skip, Len(s))
  BY DEF Rest
<1> HIDE DEF skip
<1>3. ASSUME NEW i \in Marks(s) PROVE i \in 1..Len(s) /\ skip # 0 /\ skip <= i
  <2>1. i \in 1..Len(s) /\ s[i] # Newline
    BY NewlineIsNoMarker DEF Marks
  <2> QED BY <1>1, <2>1
<1>4. CASE skip = 0
  <2>1. Rest(s) = <<>> /\ Len(Rest(s)) = 0 /\ 1..0 = {}
    BY <1>2, <1>4
  <2>2. Marks(Rest(s)) = {} /\ Marks(s) = {}
    BY <1>3, <1>4, <2>1 DEF Marks
  <2> QED BY <2>1, <2>2 DEF LineStarts
<1>5. CASE skip # 0
  <2>1. Rest(s) = SubSeq(s, skip, Len(s)) /\ skip \in 1..(Len(s) + 1)
    BY <1>1, <1>2, <1>5
  <2>2. /\ Rest(s) \in Seq(Piece) /\ Len(Rest(s)) = Len(s) - skip + 1
        /\ \A i \in Marks(Rest(s)) : skip + i - 1 \in Marks(s)
        /\ \A i \in Marks(s) : i >= skip => i - skip + 1 \in Marks(Rest(s))
        /\ LineStarts(s) => LineStarts(Rest(s))
    BY <2>1, EndOfText
  <2>3. Rest(s)[1] # Newline
    BY <1>1, <1>5, <2>1
  <2>4. ASSUME Marks(s) # {} PROVE Marks(Rest(s)) # {}
    <3>1. PICK i : i \in Marks(s)
      BY <2>4
    <3>2. i >= skip
      BY <1>1, <1>3, <3>1
    <3> QED BY <2>2, <3>1, <3>2
  <2>5. ASSUME Marks(Rest(s)) # {} PROVE Marks(s) # {}
    <3>1. PICK i : i \in Marks(Rest(s))
      BY <2>5
    <3> QED BY <2>2, <3>1
  <2>6. Marks(Rest(s)) = {} <=> Marks(s) = {}
    BY <2>4, <2>5, Zenon
  <2> QED BY <2>2, <2>3, <2>6
<1> QED BY <1>4, <1>5

\* ReadWord, in terms of that.
LEMMA ReadsRest ==
  ASSUME ReadWord
  PROVE  /\ program = "as2transition" /\ exit = 0 /\ word = ""
         /\ \/ /\ Len(Rest(text)) <= 1 /\ text' = <<>> /\ word' = word
               /\ exit' = IF solutionNum > 0 THEN 101 ELSE 100
            \/ /\ ~(Len(Rest(text)) <= 1)
               /\ word' = Head(Rest(text)).is /\ text' = Tail(Rest(text)) /\ exit' = exit
         /\ UNCHANGED <<program, found, given, mOclingoOut, out, solutionNum>>
  BY DEF ReadWord, Rest, FirstWord, SelectInSeq

\* The pieces after a word that was read.
LEMMA TailOfText ==
  ASSUME NEW s \in Seq(Piece), s # <<>>
  PROVE  /\ Head(s) = s[1] /\ s[1] \in Piece /\ Len(s) \in Nat /\ Len(s) > 0
         /\ Tail(s) \in Seq(Piece) /\ Tail(s) = SubSeq(s, 2, Len(s))
  BY HeadTailProperties, EmptySeq

\* What the bridge keeps of a packet, and what it passes on.
Message(packet) ==
  IF \E i \in DOMAIN packet : packet[i] = Word("Step:")
  THEN Lines(After(packet, {Word("Step:")})) ELSE packet
Pending(packet) ==
  IF \E i \in DOMAIN packet : packet[i] = Word("Step:") THEN <<>> ELSE mOclingoOut
Flushed(packet) ==
  IF \E i \in DOMAIN packet : packet[i] = Word("Step:")
  THEN Displayed(Append(mOclingoOut, Newline)) ELSE <<>>
Finished(packet) ==
  Pending(packet) \o Before(Message(packet), {Word("End of")}) \o <<Newline>>

LEMMA PacketTaken ==
  ASSUME NEW packet, Packet(packet)
  PROVE  IF HasEnd(Message(packet))
         THEN /\ out' = out \o Flushed(packet) \o Displayed(Finished(packet))
              /\ mOclingoOut' = SubSeq(Message(packet), EndAt(Message(packet)) + 2,
                                       Len(Message(packet)))
         ELSE out' = out \o Flushed(packet) /\ mOclingoOut' = Pending(packet) \o Message(packet)
<1>1. CASE \E i \in DOMAIN packet : packet[i] = Word("Step:")
  BY <1>1, Zenon DEF Packet, Message, Pending, Flushed, Finished
<1>2. CASE ~ \E i \in DOMAIN packet : packet[i] = Word("Step:")
  BY <1>2, Zenon DEF Packet, Message, Pending, Flushed, Finished
<1> QED BY <1>1, <1>2

LEMMA PacketParts ==
  ASSUME NEW packet \in Seq(Piece), mOclingoOut \in Seq(Piece)
  PROVE  /\ Message(packet) \in Seq(Piece) /\ Pending(packet) \in Seq(Piece)
         /\ Append(mOclingoOut, Newline) \in Seq(Piece) /\ Finished(packet) \in Seq(Piece)
<1>1. /\ After(packet, {Word("Step:")}) \in Seq(Piece)
      /\ Lines(After(packet, {Word("Step:")})) \in Seq(Piece)
  BY PartsOfTexts, LinesOfTexts
<1>2. Message(packet) \in Seq(Piece)
  BY <1>1 DEF Message
<1>3. <<>> \in Seq(Piece) /\ Newline \in Piece
  BY NewlineIsNoMarker
<1>4. Pending(packet) \in Seq(Piece)
  BY <1>3 DEF Pending
<1>5. Before(Message(packet), {Word("End of")}) \in Seq(Piece)
  BY <1>2, PartsOfTexts
<1>6. Finished(packet) \in Seq(Piece)
  <2>1. \A a, b, c \in Seq(Piece) : a \o b \o c \in Seq(Piece)
    OBVIOUS
  <2>2. <<Newline>> \in Seq(Piece)
    BY <1>3
  <2> QED BY <1>4, <1>5, <2>1, <2>2, Zenon DEF Finished
<1> QED BY <1>2, <1>3, <1>4, <1>6

LEMMA PacketKeepsText ==
  ASSUME NEW packet \in Seq(Piece), mOclingoOut \in Seq(Piece), Packet(packet)
  PROVE  mOclingoOut' \in Seq(Piece)
<1> DEFINE msg == Message(packet)
<1>1. msg \in Seq(Piece) /\ Pending(packet) \in Seq(Piece) /\ Len(msg) \in Nat
  BY PacketParts
<1>2. CASE HasEnd(msg)
  <2>1. mOclingoOut' = SubSeq(msg, EndAt(msg) + 2, Len(msg))
    BY <1>2, PacketTaken
  <2>2. EndAt(msg) + 2 \in Nat /\ EndAt(msg) + 2 > 0
    BY <1>1, <1>2 DEF HasEnd
  <2> HIDE DEF msg
  <2> QED BY <1>1, <2>1, <2>2, Parts
<1>3. CASE ~HasEnd(msg)
  <2>1. mOclingoOut' = Pending(packet) \o msg
    BY <1>3, PacketTaken
  <2> QED BY <1>1, <2>1
<1> QED BY <1>2, <1>3

\* Only the first piece is read.
LEMMA AfterFirst ==
  ASSUME NEW s \in Seq(Piece), s # <<>>, LineStarts(s), s[1] # Newline, NEW e, e = Tail(s)
  PROVE  /\ LineStarts(e) /\ 1 \notin Marks(e)
         /\ Marks(s) # {} <=> s[1].is \in Markers \/ Marks(e) # {}
<1>1. Len(s) \in Nat /\ Len(s) > 0 /\ e = SubSeq(s, 2, Len(s))
  BY TailOfText
<1> DEFINE a == 2
<1>2. a \in 1..(Len(s) + 1) /\ e = SubSeq(s, a, Len(s))
  BY <1>1
<1> HIDE DEF a
<1>3. /\ \A i \in Marks(e) : a + i - 1 \in Marks(s)
      /\ \A i \in Marks(s) : i >= a => i - a + 1 \in Marks(e)
      /\ LineStarts(e)
  BY <1>2, EndOfText
<1>4. 2 \notin Marks(s)
  BY <1>1 DEF LineStarts
<1>5. 1 \notin Marks(e)
  BY <1>3, <1>4 DEF a
<1>6. 1 \in Marks(s) <=> s[1].is \in Markers
  BY <1>1 DEF Marks
<1>7. ASSUME Marks(s) # {} PROVE 1 \in Marks(s) \/ Marks(e) # {}
  <2>1. PICK i : i \in Marks(s)
    BY <1>7
  <2>2. i \in 1..Len(s)
    BY <2>1 DEF Marks
  <2>3. CASE i = 1
    BY <2>1, <2>3
  <2>4. CASE i # 1
    <3>1. i >= a
      BY <1>1, <2>2, <2>4 DEF a
    <3> QED BY <1>3, <2>1, <3>1
  <2> QED BY <2>3, <2>4
<1>8. ASSUME Marks(e) # {} PROVE Marks(s) # {}
  <2>1. PICK i : i \in Marks(e)
    BY <1>8
  <2> QED BY <1>3, <2>1
<1>9. Marks(s) # {} <=> 1 \in Marks(s) \/ Marks(e) # {}
  BY <1>7, <1>8, Zenon
<1> QED BY <1>3, <1>5, <1>6, <1>9, Zenon

LEMMA TypeStep == TypeInv /\ [Next]_vars => TypeInv'
<1> SUFFICES ASSUME TypeInv, [Next]_vars PROVE TypeInv'
  OBVIOUS
<1>0. text \in Seq(Piece) /\ mOclingoOut \in Seq(Piece)
  BY DEF TypeInv
<1>1. CASE ReadWord
  <2>1. Rest(text) \in Seq(Piece)
    BY <1>0, RestOfText
  <2>2. CASE Len(Rest(text)) <= 1
    <3>1. text' = <<>> /\ word' = word /\ exit' \in {100, 101}
      BY <1>1, <2>2, ReadsRest
    <3>2. UNCHANGED <<program, found, mOclingoOut, solutionNum>>
      BY <1>1, ReadsRest
    <3>3. text' \in Seq(Piece) /\ exit' \in {0, 100, 101}
      BY <3>1
    <3>4. word' \in {p.is : p \in Piece} \cup {""}
      BY <3>1, Zenon DEF TypeInv
    <3>5. program' \in Programs /\ found' \in Runs /\ solutionNum' \in Nat
      BY <3>2 DEF TypeInv
    <3>6. mOclingoOut' \in Seq(Piece)
      BY <1>0, <3>2
    <3> QED BY <3>3, <3>4, <3>5, <3>6, Zenon DEF TypeInv
  <2>3. CASE ~(Len(Rest(text)) <= 1)
    <3>1. word' = Head(Rest(text)).is /\ text' = Tail(Rest(text)) /\ exit' = exit
      BY <1>1, <2>3, ReadsRest
    <3>2. UNCHANGED <<program, found, mOclingoOut, solutionNum>>
      BY <1>1, ReadsRest
    <3>3. Rest(text) # <<>>
      BY <2>3
    <3>4. Head(Rest(text)) \in Piece /\ text' \in Seq(Piece)
      BY <2>1, <3>1, <3>3, TailOfText
    <3>5. word' \in {p.is : p \in Piece} \cup {""}
      BY <3>1, <3>4
    <3>6. program' \in Programs /\ found' \in Runs /\ solutionNum' \in Nat /\ exit' \in {0, 100, 101}
      BY <3>1, <3>2 DEF TypeInv
    <3>7. mOclingoOut' \in Seq(Piece)
      BY <1>0, <3>2
    <3> QED BY <3>4, <3>5, <3>6, <3>7, Zenon DEF TypeInv
  <2> QED BY <2>2, <2>3
<1>2. CASE SkipHeader \/ ShowAnswer \/ CopyLine
  <2>1. Lines(text) \in Seq(Piece) /\ Lines(Lines(text)) \in Seq(Piece)
    BY <1>0, LinesOfTexts
  <2>2. text' \in {Lines(text), Lines(Lines(text))} /\ solutionNum' \in {solutionNum, solutionNum + 1}
        /\ word' = "" /\ UNCHANGED <<program, found, mOclingoOut, exit>>
    BY <1>2 DEF SkipHeader, ShowAnswer, CopyLine
  <2>3. text' \in Seq(Piece)
    BY <2>1, <2>2, Zenon
  <2>4. solutionNum' \in Nat
    <3>1. solutionNum \in Nat /\ solutionNum' \in {solutionNum, solutionNum + 1}
      BY <2>2, Zenon DEF TypeInv
    <3> QED BY <3>1
  <2> QED BY <2>2, <2>3, <2>4, Zenon DEF TypeInv
<1>3. CASE PacketArrived
  <2>1. PICK n \in 1..MaxPacket :
          n <= Len(text) /\ Packet(SubSeq(text, 1, n)) /\ text' = SubSeq(text, n + 1, Len(text))
    BY <1>3 DEF PacketArrived
  <2>2. n \in Nat /\ n > 0 /\ Len(text) \in Nat
    BY <1>0, AnswersAssumption
  <2>3. SubSeq(text, 1, n) \in Seq(Piece) /\ text' \in Seq(Piece)
    BY <1>0, <2>1, <2>2, Parts
  <2>4. mOclingoOut' \in Seq(Piece)
    BY <1>0, <2>1, <2>3, PacketKeepsText
  <2>5. UNCHANGED <<program, found, word, solutionNum, exit>>
    BY <1>3 DEF PacketArrived
  <2> QED BY <2>3, <2>4, <2>5 DEF TypeInv
<1>4. CASE UNCHANGED vars
  BY <1>4 DEF TypeInv, vars
<1> QED BY <1>1, <1>2, <1>3, <1>4, Zenon DEF Next, Done

-----------------------------------------------------------------------------
(* The exit code. *)

AnswerFound == \E i \in DOMAIN found : found[i].answered

\* While as2transition runs, there was an answer if one was counted, is about to
\* be, or is marked in the text that is left; a marker is never the end of it.
CountInv ==
  /\ AnswerFound <=> solutionNum > 0 \/ word \in Markers \/ Marks(text) # {}
  /\ solutionNum > 0 \/ (LineStarts(text) /\ (1 \in Marks(text) => word = ""))

ExitInv ==
  /\ TypeInv
  /\ program = "bridge" => word = "" /\ exit = 0
  /\ program = "as2transition" /\ exit = 0 => CountInv
  /\ exit # 0 => word = "" /\ (exit = 101 <=> AnswerFound)

LEMMA ExitInit == Init => ExitInv
<1> SUFFICES ASSUME Init PROVE ExitInv
  OBVIOUS
<1>1. TypeInv
  BY TypeInit
<1>2. ASSUME program = "as2transition" PROVE CountInv
  <2>1. found \in Runs /\ text \in Texts("as2transition", found) /\ word = "" /\ solutionNum = 0
    BY <1>2 DEF Init
  <2>2. (\E i \in DOMAIN found : found[i].answered) <=> \E i \in 1..Len(text) : text[i].is \in Markers
    BY <2>1, AnswersAssumption
  <2>3. \A i \in 1..Len(text) : text[i].is \in Markers =>
          i # Len(text) /\ (i = 1 \/ text[i - 1] = [is |-> "newline"])
    BY <2>1, AnswersAssumption
  <2>4. AnswerFound <=> Marks(text) # {}
    BY <2>2 DEF AnswerFound, Marks
  <2>5. LineStarts(text)
    BY <2>3 DEF LineStarts, Marks, Newline, Word
  <2>6. "" \notin Markers /\ ~(0 > 0)
    BY DEF Markers
  <2> QED BY <2>1, <2>4, <2>5, <2>6 DEF CountInv
<1> QED BY <1>1, <1>2 DEF Init, ExitInv

LEMMA ExitStep == ExitInv /\ [Next]_vars => ExitInv'
<1> SUFFICES ASSUME ExitInv, [Next]_vars PROVE ExitInv'
  OBVIOUS
<1>0. TypeInv /\ TypeInv' /\ text \in Seq(Piece) /\ solutionNum \in Nat
  BY TypeStep DEF ExitInv, TypeInv
<1>a. "" \notin Markers /\ "" \notin Headers /\ Headers \cap Markers = {}
  BY DEF Markers, Headers
<1>1. CASE ReadWord
  <2>1. /\ program = "as2transition" /\ exit = 0 /\ word = "" /\ CountInv
        /\ UNCHANGED <<program, found, solutionNum>>
    BY <1>1, ReadsRest DEF ExitInv
  <2>2. /\ Rest(text) \in Seq(Piece)
        /\ Rest(text) # <<>> => Rest(text)[1] # Newline
        /\ LineStarts(text) => LineStarts(Rest(text)) /\ (Marks(Rest(text)) = {} <=> Marks(text) = {})
    BY <1>0, RestOfText
  <2>3. CASE Len(Rest(text)) <= 1
    <3>1. word' = "" /\ exit' = IF solutionNum > 0 THEN 101 ELSE 100
      BY <1>1, <2>1, <2>3, ReadsRest
    <3>2. ASSUME ~(solutionNum > 0), AnswerFound PROVE FALSE
      <4>1. word \notin Markers
        BY <1>a, <2>1
      <4>2. Marks(text) # {} /\ LineStarts(text)
        BY <2>1, <3>2, <4>1, Zenon DEF CountInv
      <4>3. Marks(Rest(text)) # {} /\ LineStarts(Rest(text))
        BY <2>2, <4>2, Zenon
      <4>4. PICK i : i \in Marks(Rest(text))
        BY <4>3
      <4>5. i # Len(Rest(text))
        BY <4>3, <4>4 DEF LineStarts
      <4>6. i \in 1..Len(Rest(text))
        BY <4>4 DEF Marks
      <4>7. Len(Rest(text)) \in Nat
        BY <2>2
      <4> QED BY <2>3, <4>5, <4>6, <4>7
    <3>3. solutionNum > 0 <=> AnswerFound
      BY <2>1, <3>2, Zenon DEF CountInv
    <3>4. AnswerFound' <=> AnswerFound
      BY <2>1 DEF AnswerFound
    <3>5. exit' # 0 /\ (exit' = 101 <=> solutionNum > 0)
      <4>1. CASE solutionNum > 0
        <5>1. exit' = 101
          BY <3>1, <4>1, Zenon
        <5> QED BY <4>1, <5>1
      <4>2. CASE ~(solutionNum > 0)
        <5>1. exit' = 100
          BY <3>1, <4>2, Zenon
        <5>2. exit' # 0 /\ exit' # 101
          BY <5>1
        <5> QED BY <4>2, <5>2, Zenon
      <4> QED BY <4>1, <4>2
    <3>6. program' # "bridge"
      BY <2>1
    <3> QED BY <1>0, <3>1, <3>3, <3>4, <3>5, <3>6, Zenon DEF ExitInv
  <2>4. CASE ~(Len(Rest(text)) <= 1)
    <3>1. word' = Head(Rest(text)).is /\ text' = Tail(Rest(text)) /\ exit' = exit
      BY <1>1, <2>4, ReadsRest
    <3>2. Rest(text) # <<>> /\ Len(Rest(text)) \in Nat
      BY <2>2, <2>4
    <3>3. word' = Rest(text)[1].is
      BY <2>2, <3>1, <3>2, TailOfText
    <3>6. ASSUME ~(solutionNum > 0)
          PROVE  /\ LineStarts(text') /\ 1 \notin Marks(text')
                 /\ AnswerFound <=> word' \in Markers \/ Marks(text') # {}
      <4>1. LineStarts(text) /\ LineStarts(Rest(text))
        BY <2>1, <2>2, <3>6 DEF CountInv
      <4>2. word \notin Markers
        BY <1>a, <2>1
      <4>3. AnswerFound <=> Marks(Rest(text)) # {}
        BY <2>1, <2>2, <3>6, <4>1, <4>2, Zenon DEF CountInv
      <4>4. /\ LineStarts(text') /\ 1 \notin Marks(text')
            /\ Marks(Rest(text)) # {} <=> Rest(text)[1].is \in Markers \/ Marks(text') # {}
        BY <2>2, <3>1, <3>2, <4>1, AfterFirst
      <4> QED BY <3>3, <4>3, <4>4, Zenon
    <3>7. AnswerFound' <=> AnswerFound
      BY <2>1 DEF AnswerFound
    <3>8. CountInv'
      BY <2>1, <3>6, <3>7 DEF CountInv
    <3> QED BY <1>0, <2>1, <3>1, <3>8 DEF ExitInv
  <2> QED BY <2>3, <2>4
<1>2. CASE SkipHeader \/ CopyLine
  <2>1. word \notin Markers \cup {""} /\ text' = Lines(text) /\ word' = ""
        /\ UNCHANGED <<program, found, solutionNum, exit>>
    BY <1>2, <1>a DEF SkipHeader, CopyLine
  <2>2. program = "as2transition" /\ exit = 0 /\ CountInv
    BY <1>0, <2>1, AnswersAssumption DEF ExitInv, TypeInv
  <2>3. AnswerFound' <=> AnswerFound
    BY <2>1 DEF AnswerFound
  <2>4. CountInv'
    <3>1. CASE solutionNum > 0
      BY <2>1, <2>2, <2>3, <3>1 DEF CountInv
    <3>2. CASE ~(solutionNum > 0)
      <4>1. LineStarts(text) /\ 1 \notin Marks(text) /\ (AnswerFound <=> Marks(text) # {})
        BY <2>1, <2>2, <3>2 DEF CountInv
      <4>2. LineStarts(text') /\ (Marks(text') = {} <=> Marks(text) = {})
        BY <1>0, <2>1, <4>1, LinesKeepMarkers
      <4>3. solutionNum' = solutionNum /\ word' \notin Markers
        BY <1>a, <2>1
      <4> QED BY <2>1, <2>3, <3>2, <4>1, <4>2, <4>3 DEF CountInv
    <3> QED BY <3>1, <3>2
  <2> QED BY <1>0, <2>1, <2>2, <2>4 DEF ExitInv
<1>3. CASE ShowAnswer
  <2>1. word \in Markers /\ solutionNum' = solutionNum + 1 /\ word' = ""
        /\ UNCHANGED <<program, found, exit>>
    BY <1>3 DEF ShowAnswer
  <2>2. program = "as2transition" /\ exit = 0 /\ CountInv
    <3>1. word # ""
      BY <1>a, <2>1
    <3>2. program \in {"as2transition", "bridge"}
      BY <1>0, AnswersAssumption DEF TypeInv
    <3>3. program = "as2transition" /\ exit = 0
      BY <3>1, <3>2 DEF ExitInv
    <3> QED BY <3>3, Zenon DEF ExitInv
  <2>3. AnswerFound'
    BY <2>1, <2>2 DEF AnswerFound, CountInv
  <2>4. solutionNum' > 0
    <3>1. solutionNum \in Nat /\ solutionNum' = solutionNum + 1
      BY <1>0, <2>1, Zenon
    <3> QED BY <3>1
  <2>5. CountInv'
    BY <2>3, <2>4 DEF CountInv
  <2> QED BY <1>0, <2>1, <2>2, <2>5 DEF ExitInv
<1>4. CASE PacketArrived
  <2>1. program = "bridge" /\ UNCHANGED <<program, word, exit>>
    BY <1>4 DEF PacketArrived
  <2> QED BY <1>0, <2>1 DEF ExitInv
<1>5. CASE UNCHANGED vars
  BY <1>0, <1>5 DEF ExitInv, CountInv, AnswerFound, vars
<1> QED BY <1>1, <1>2, <1>3, <1>4, <1>5, Zenon DEF Next, Done

\* The exit code of as2transition says whether the solver found an answer,
\* whatever it printed beside the answers: CountInv is needed because the loop
\* counts a marker one word after it was read, and leaves without a look at the
\* last word of the text.
THEOREM ExitCodeAlwaysTells == Spec => []ExitCodeTells
<1>1. ExitInv => ExitCodeTells
  BY DEF ExitInv, ExitCodeTells, AnswerFound
<1> QED BY ExitInit, ExitStep, <1>1, PTL DEF Spec

-----------------------------------------------------------------------------
(* The elements of a list at some of its places. *)

\* The list of those up to each place.
Collects(g, S, list, places) ==
  /\ g \in [0..Len(list) -> Seq(S)] /\ g[0] = <<>>
  /\ \A n \in 1..Len(list) : g[n] = IF n \in places THEN Append(g[n - 1], list[n]) ELSE g[n - 1]

LEMMA OnlyCollects ==
  ASSUME NEW S, NEW list \in Seq(S), NEW places
  PROVE  \E g : Collects(g, S, list, places) /\ Only(list, places) = g[Len(list)]
<1> DEFINE N == Len(list)
           more(l, n) == IF n \in places THEN Append(l, list[n]) ELSE l
           Def(g) == [n \in 0..N |-> IF n = 0 THEN <<>>
                                     ELSE IF n \in places THEN Append(g[n - 1], list[n])
                                     ELSE g[n - 1]]
           upTo == CHOOSE g : g = Def(g)
           e == <<>>
           T == Seq(S)
           step == [n \in 1..N |-> [x \in T |-> more(x, n)]]
<1>1. Only(list, places) = upTo[N]
  BY DEF Only
<1>2. N \in Nat /\ \A n \in 1..N : list[n] \in S
  OBVIOUS
<1> HIDE DEF N
<1>4. /\ step \in [1..N -> [T -> T]] /\ e \in T
      /\ \A n \in 1..N, x \in T : step[n][x] = more(x, n)
  BY <1>2
<1> HIDE DEF step
<1>5. \E g : Iterates(g, T, e, N, step)
  <2> HIDE DEF T, e
  <2> QED BY <1>2, <1>4, Iteration
<1>6. PICK g : g \in [0..N -> T] /\ g[0] = e /\ \A n \in 1..N : g[n] = step[n][g[n - 1]]
  BY <1>5 DEF Iterates
<1>7. \A n \in 1..N : n - 1 \in 0..N /\ n \in 0..N /\ n # 0
  BY <1>2
<1>8. \A n \in 1..N : g[n] = more(g[n - 1], n)
  <2>1. \A n \in 1..N : g[n - 1] \in T
    BY <1>6, <1>7
  <2> QED BY <1>4, <1>6, <2>1
<1>9. g = Def(g)
  <2>1. \A n \in 0..N : n = 0 \/ n \in 1..N
    BY <1>2
  <2>2. \A n \in 0..N : g[n] = IF n = 0 THEN <<>>
                               ELSE IF n \in places THEN Append(g[n - 1], list[n])
                               ELSE g[n - 1]
    BY <1>6, <1>8, <2>1
  <2> QED BY <1>6, <2>2
<1>10. upTo = Def(upTo)
  BY <1>9
<1> HIDE DEF upTo
<1>11. upTo[0] = <<>> /\ \A n \in 1..N : upTo[n] = more(upTo[n - 1], n)
  <2>1. \A n \in 0..N : upTo[n] = IF n = 0 THEN <<>>
                                  ELSE IF n \in places THEN Append(upTo[n - 1], list[n])
                                  ELSE upTo[n - 1]
    BY <1>10
  <2>2. 0 \in 0..N
    BY <1>2
  <2> QED BY <1>7, <2>1, <2>2
<1> DEFINE I == {n \in 0..N : upTo[n] = g[n]}
<1>12. 0 \in I
  BY <1>2, <1>6, <1>11
<1>13. ASSUME NEW n \in 1..N, n - 1 \in I PROVE n \in I
  BY <1>7, <1>8, <1>11, <1>13
<1>14. 0..N \subseteq I
  <2> HIDE DEF I
  <2> QED BY <1>2, <1>12, <1>13, Climb
<1>15. upTo[N] = g[N]
  BY <1>2, <1>14
<1> QED BY <1>1, <1>6, <1>8, <1>15 DEF Collects, N

\* Where its elements were.
Picks(f, r, list, places) ==
  /\ f \in [1..Len(r) -> 1..Len(list)]
  /\ \A j, k \in 1..Len(r) : j < k => f[j] < f[k]
  /\ \A j \in 1..Len(r) : f[j] \in places /\ r[j] = list[f[j]]
  /\ \A i \in 1..Len(list) : i \in places => \E j \in 1..Len(r) : f[j] = i

LEMMA OnlyPicks ==
  ASSUME NEW S, NEW list \in Seq(S), NEW places
  PROVE  Only(list, places) \in Seq(S) /\ \E f : Picks(f, Only(list, places), list, places)
<1> DEFINE N == Len(list)
<1>1. PICK g : Collects(g, S, list, places) /\ Only(list, places) = g[N]
  BY OnlyCollects
<1>2. /\ N \in Nat /\ g \in [0..N -> Seq(S)] /\ g[0] = <<>>
      /\ \A n \in 1..N : g[n] = IF n \in places THEN Append(g[n - 1], list[n]) ELSE g[n - 1]
      /\ \A n \in 1..N : n \in 0..N /\ n - 1 \in 0..N /\ list[n] \in S
  BY <1>1 DEF Collects
<1> HIDE DEF N
<1> DEFINE Good(f, n) ==
             /\ f \in [1..Len(g[n]) -> 1..N]
             /\ \A j, k \in 1..Len(g[n]) : j < k => f[j] < f[k]
             /\ \A j \in 1..Len(g[n]) : f[j] \in places /\ f[j] <= n /\ g[n][j] = list[f[j]]
             /\ \A i \in 1..n : i \in places => \E j \in 1..Len(g[n]) : f[j] = i
           I == {n \in 0..N : \E f : Good(f, n)}
<1>3. 0 \in I
  <2>1. 0 \in 0..N /\ Len(g[0]) = 0
    BY <1>2
  <2> DEFINE f == [j \in 1..0 |-> 1]
  <2>2. f \in [1..0 -> 1..N]
    OBVIOUS
  <2>3. Good(f, 0)
    BY <2>1, <2>2
  <2> HIDE DEF Good
  <2> QED BY <2>1, <2>3
<1>4. ASSUME NEW n \in 1..N, n - 1 \in I PROVE n \in I
  <2> DEFINE l == g[n - 1]
             r == g[n]
  <2>0. n \in 0..N /\ n \in Nat /\ n - 1 \in 0..N /\ l \in Seq(S) /\ r \in Seq(S) /\ Len(l) \in Nat
    BY <1>2
  <2>1. PICK f : Good(f, n - 1)
    BY <1>4
  <2>2. /\ f \in [1..Len(l) -> 1..N]
        /\ \A j, k \in 1..Len(l) : j < k => f[j] < f[k]
        /\ \A j \in 1..Len(l) : f[j] \in places /\ f[j] <= n - 1 /\ l[j] = list[f[j]]
        /\ \A i \in 1..(n - 1) : i \in places => \E j \in 1..Len(l) : f[j] = i
    BY <2>1
  <2>3. r = IF n \in places THEN Append(l, list[n]) ELSE l
    BY <1>2
  <2> SUFFICES \E h : /\ h \in [1..Len(r) -> 1..N]
                      /\ \A j, k \in 1..Len(r) : j < k => h[j] < h[k]
                      /\ \A j \in 1..Len(r) : h[j] \in places /\ h[j] <= n /\ r[j] = list[h[j]]
                      /\ \A i \in 1..n : i \in places => \E j \in 1..Len(r) : h[j] = i
    BY <2>0
  <2> HIDE DEF l, r, Good
  <2>4. CASE n \notin places
    <3>1. r = l
      BY <2>3, <2>4
    <3>2. \A i \in 1..n : i \in places => i \in 1..(n - 1)
      BY <2>0, <2>4
    <3>3. \A j \in 1..Len(l) : f[j] <= n
      BY <2>0, <2>2
    <3> QED BY <2>2, <3>1, <3>2, <3>3
  <2>5. CASE n \in places
    <3>1. r = Append(l, list[n]) /\ list[n] \in S
      BY <1>2, <2>3, <2>5
    <3>2. Len(r) = Len(l) + 1 /\ r[Len(l) + 1] = list[n] /\ \A j \in 1..Len(l) : r[j] = l[j]
      BY <2>0, <3>1
    <3> DEFINE h == [j \in 1..Len(r) |-> IF j = Len(r) THEN n ELSE f[j]]
    <3>3. \A j \in 1..Len(r) : j = Len(r) \/ (j \in 1..Len(l) /\ j # Len(r))
      BY <2>0, <3>2
    <3>4. \A j \in 1..Len(l) : j \in 1..Len(r) /\ j # Len(r)
      BY <2>0, <3>2
    <3>5. Len(r) \in 1..Len(r)
      BY <2>0, <3>2
    <3>6. /\ h[Len(r)] = n /\ \A j \in 1..Len(l) : h[j] = f[j]
          /\ h \in [1..Len(r) -> 1..N]
      BY <2>2, <3>3, <3>4, <3>5
    <3> HIDE DEF h
    <3>7. \A j, k \in 1..Len(r) : j < k => h[j] < h[k]
      <4> SUFFICES ASSUME NEW j \in 1..Len(r), NEW k \in 1..Len(r), j < k PROVE h[j] < h[k]
        OBVIOUS
      <4>1. j \in 1..Len(l)
        BY <2>0, <3>2, <3>3
      <4>2. CASE k = Len(r)
        <5>1. f[j] <= n - 1 /\ f[j] \in 1..N
          BY <2>2, <4>1
        <5>3. f[j] \in Nat
          BY <5>1
        <5>2. f[j] < n
          BY <2>0, <5>1, <5>3, Below
        <5> QED BY <3>6, <4>1, <4>2, <5>2
      <4>3. CASE k # Len(r)
        BY <2>2, <3>3, <3>6, <4>1, <4>3
      <4> QED BY <4>2, <4>3
    <3>8. \A j \in 1..Len(r) : h[j] \in places /\ h[j] <= n /\ r[j] = list[h[j]]
      <4> SUFFICES ASSUME NEW j \in 1..Len(r) PROVE h[j] \in places /\ h[j] <= n /\ r[j] = list[h[j]]
        OBVIOUS
      <4>1. CASE j = Len(r)
        BY <2>0, <2>5, <3>2, <3>6, <4>1
      <4>2. CASE j # Len(r)
        <5>1. j \in 1..Len(l) /\ f[j] <= n - 1 /\ f[j] \in 1..N
          BY <2>2, <3>3, <4>2
        <5>3. f[j] \in Nat
          BY <5>1
        <5>2. f[j] <= n
          BY <2>0, <5>1, <5>3, Below
        <5> QED BY <2>2, <3>2, <3>6, <5>1, <5>2
      <4> QED BY <4>1, <4>2
    <3>9. \A i \in 1..n : i \in places => \E j \in 1..Len(r) : h[j] = i
      <4> SUFFICES ASSUME NEW i \in 1..n, i \in places PROVE \E j \in 1..Len(r) : h[j] = i
        OBVIOUS
      <4>1. CASE i = n
        BY <3>5, <3>6, <4>1
      <4>2. CASE i # n
        <5>1. i \in 1..(n - 1)
          BY <2>0, <4>2
        <5>2. PICK j \in 1..Len(l) : f[j] = i
          BY <2>2, <5>1
        <5> QED BY <3>4, <3>6, <5>2
      <4> QED BY <4>1, <4>2
    <3> QED BY <3>6, <3>7, <3>8, <3>9
  <2> QED BY <2>4, <2>5
<1>5. 0..N \subseteq I
  <2> HIDE DEF I
  <2> QED BY <1>2, <1>3, <1>4, Climb
<1>6. N \in I
  <2> HIDE DEF I
  <2> QED BY <1>2, <1>5
<1>7. PICK f : Good(f, N)
  <2> HIDE DEF Good
  <2> QED BY <1>6
<1>8. Picks(f, g[N], list, places)
  BY <1>7 DEF Picks, N
<1>9. g[N] \in Seq(S)
  BY <1>2
<1> QED BY <1>1, <1>8, <1>9

\* One more element.
LEMMA OnlyNext ==
  ASSUME NEW S, NEW list \in Seq(S), NEW x \in S, NEW places, NEW before,
         \A n \in 1..Len(list) : n \in before <=> n \in places
  PROVE  Only(Append(list, x), places) =
           IF Len(list) + 1 \in places THEN Append(Only(list, before), x) ELSE Only(list, before)
<1> DEFINE N == Len(list)
           more == Append(list, x)
<1>1. /\ more \in Seq(S) /\ Len(more) = N + 1 /\ more[N + 1] = x
      /\ N \in Nat /\ \A n \in 1..N : more[n] = list[n]
  OBVIOUS
<1>2. PICK g : Collects(g, S, list, before) /\ Only(list, before) = g[N]
  BY OnlyCollects
<1> HIDE DEF more
<1>3. PICK h : Collects(h, S, more, places) /\ Only(more, places) = h[Len(more)]
  BY <1>1, OnlyCollects
<1>4. /\ g[0] = <<>>
      /\ \A n \in 1..N : g[n] = IF n \in before THEN Append(g[n - 1], list[n]) ELSE g[n - 1]
  BY <1>2 DEF Collects
<1>5. /\ h[0] = <<>>
      /\ \A n \in 1..(N + 1) : h[n] = IF n \in places THEN Append(h[n - 1], more[n]) ELSE h[n - 1]
  BY <1>1, <1>3 DEF Collects
<1> HIDE DEF N
<1> DEFINE I == {n \in 0..N : g[n] = h[n]}
<1>6. 0 \in I
  BY <1>1, <1>4, <1>5
<1>7. ASSUME NEW n \in 1..N, n - 1 \in I PROVE n \in I
  <2>1. n \in 1..(N + 1) /\ n \in 0..N
    BY <1>1
  <2>2. n \in before <=> n \in places
    BY DEF N
  <2>3. g[n - 1] = h[n - 1] /\ more[n] = list[n]
    BY <1>1, <1>7
  <2> QED BY <1>4, <1>5, <2>1, <2>2, <2>3
<1>8. 0..N \subseteq I
  <2> HIDE DEF I
  <2> QED BY <1>1, <1>6, <1>7, Climb
<1>9. g[N] = h[N]
  BY <1>1, <1>8
<1>10. h[N + 1] = IF N + 1 \in places THEN Append(h[N], more[N + 1]) ELSE h[N]
  <2>1. N + 1 \in 1..(N + 1) /\ (N + 1) - 1 = N
    BY <1>1
  <2> QED BY <1>5, <2>1
<1> QED BY <1>1, <1>2, <1>3, <1>9, <1>10 DEF more, N

-----------------------------------------------------------------------------
(* Lists of predicates. *)

Predicate == {p \in Piece \cup {Bare} : p.is = "predicate"}

LEMMA PredicateType ==
  ASSUME NEW p \in Predicate
  PROVE  p.key \in Nat /\ p.time \in Nat \cup {Timeless} /\ ConstType(p) \in {"fluent", "action"}
<1>1. CASE p = Bare
  BY <1>1 DEF Bare, ConstType
<1>2. CASE p \in Piece
  BY <1>2, AnswersAssumption DEF Predicate, ConstType
<1> QED BY <1>1, <1>2 DEF Predicate

\* In the order of their keys, and of one type.
Sorted(type) ==
  {l \in Seq(Predicate) : /\ \A i \in 1..Len(l) : ConstType(l[i]) = type
                          /\ \A j, k \in 1..Len(l) : j < k => l[j].key <= l[k].key}

LEMMA Inserted ==
  ASSUME NEW S, NEW s \in Seq(S), NEW e \in S, NEW at \in 1..Len(s), NEW r, r = InsertAt(s, at, e)
  PROVE  /\ r \in Seq(S) /\ Len(r) = Len(s) + 1 /\ r[at] = e
         /\ \A i \in 1..Len(r) : i < at => i \in 1..Len(s) /\ r[i] = s[i]
         /\ \A i \in 1..Len(r) : i > at => i - 1 \in 1..Len(s) /\ r[i] = s[i - 1]
<1> DEFINE a == SubSeq(s, 1, at - 1)
           c == SubSeq(s, at, Len(s))
<1>0. Len(s) \in Nat /\ at \in Nat /\ at > 0 /\ at <= Len(s) /\ at - 1 \in Nat
  OBVIOUS
<1>1. /\ a \in Seq(S) /\ Len(a) = at - 1
      /\ \A i \in 1..Len(a) : a[i] = s[i]
  BY <1>0, SubSeqProperties
<1>2. /\ c \in Seq(S) /\ Len(c) = Len(s) - at + 1
      /\ \A i \in 1..Len(c) : c[i] = s[at + i - 1]
  BY <1>0, SubSeqProperties
<1>3. r = a \o <<e>> \o c
  BY DEF InsertAt
<1> HIDE DEF a, c
<1>4. /\ r \in Seq(S) /\ Len(r) = Len(a) + 1 + Len(c)
      /\ \A i \in 1..Len(r) :
           r[i] = IF i <= Len(a) THEN a[i] ELSE IF i = Len(a) + 1 THEN e ELSE c[i - (Len(a) + 1)]
  <2>1. /\ a \o <<e>> \in Seq(S) /\ Len(a \o <<e>>) = Len(a) + 1
        /\ \A i \in 1..(Len(a) + 1) : (a \o <<e>>)[i] = IF i <= Len(a) THEN a[i] ELSE e
    BY <1>1
  <2> DEFINE b == a \o <<e>>
  <2>2. r = b \o c
    BY <1>3
  <2> HIDE DEF b
  <2>3. b \in Seq(S) /\ Len(b) = Len(a) + 1
    BY <2>1 DEF b
  <2>4. /\ r \in Seq(S) /\ Len(r) = Len(b) + Len(c)
        /\ \A i \in 1..Len(r) : r[i] = IF i <= Len(b) THEN b[i] ELSE c[i - Len(b)]
    <3>1. /\ b \o c \in Seq(S) /\ Len(b \o c) = Len(b) + Len(c)
          /\ \A i \in 1..(Len(b) + Len(c)) :
               (b \o c)[i] = IF i <= Len(b) THEN b[i] ELSE c[i - Len(b)]
      BY <1>2, <2>3, ConcatProperties
    <3> QED BY <2>2, <3>1
  <2>5. \A i \in 1..(Len(a) + 1) : b[i] = IF i <= Len(a) THEN a[i] ELSE e
    BY <2>1 DEF b
  <2>6. ASSUME NEW i \in 1..Len(r)
        PROVE  r[i] = IF i <= Len(a) THEN a[i] ELSE IF i = Len(a) + 1 THEN e ELSE c[i - (Len(a) + 1)]
    <3>1. Len(a) \in Nat
      BY <1>1
    <3>2. CASE i <= Len(b)
      <4>1. i \in 1..(Len(a) + 1) /\ r[i] = b[i]
        BY <2>3, <2>4, <3>1, <3>2
      <4>2. ~(i <= Len(a)) => i = Len(a) + 1
        BY <3>1, <4>1
      <4> QED BY <2>5, <4>1, <4>2
    <3>3. CASE ~(i <= Len(b))
      <4>1. r[i] = c[i - (Len(a) + 1)] /\ ~(i <= Len(a)) /\ i # Len(a) + 1
        BY <2>3, <2>4, <3>1, <3>3
      <4> QED BY <4>1
    <3> QED BY <3>2, <3>3
  <2> QED BY <2>3, <2>4, <2>6
<1>5. Len(r) = Len(s) + 1
  BY <1>0, <1>1, <1>2, <1>4
<1>6. r[at] = e
  <2>1. at \in 1..Len(r) /\ ~(at <= Len(a)) /\ at = Len(a) + 1
    BY <1>0, <1>1, <1>5
  <2> QED BY <1>4, <2>1
<1>7. ASSUME NEW i \in 1..Len(r), i < at PROVE i \in 1..Len(s) /\ r[i] = s[i]
  <2>1. i \in 1..Len(s) /\ i \in 1..Len(a) /\ i <= Len(a)
    BY <1>0, <1>1, <1>7
  <2> QED BY <1>1, <1>4, <2>1
<1>8. ASSUME NEW i \in 1..Len(r), i > at PROVE i - 1 \in 1..Len(s) /\ r[i] = s[i - 1]
  <2>1. i - 1 \in 1..Len(s) /\ ~(i <= Len(a)) /\ i # Len(a) + 1
    BY <1>0, <1>1, <1>5, <1>8
  <2>2. i - (Len(a) + 1) \in 1..Len(c) /\ at + (i - (Len(a) + 1)) - 1 = i - 1
    BY <1>0, <1>1, <1>2, <1>5, <1>8
  <2>3. r[i] = c[i - (Len(a) + 1)]
    BY <1>4, <2>1
  <2> QED BY <1>2, <2>1, <2>2, <2>3
<1> QED BY <1>4, <1>5, <1>6, <1>7, <1>8

FirstNotSmaller(list, p) == SelectInSeq(list, LAMBDA q : q.key >= p.key)

LEMMA PlaceOf ==
  ASSUME NEW list \in Seq(Predicate), NEW p, NEW at, at = FirstNotSmaller(list, p)
  PROVE  /\ at \in 0..Len(list)
         /\ at = 0 => \A i \in 1..Len(list) : ~(list[i].key >= p.key)
         /\ at # 0 => list[at].key >= p.key
         /\ \A i \in 1..Len(list) : i < at => ~(list[i].key >= p.key)
<1> DEFINE I == {i \in 1..Len(list) : list[i].key >= p.key}
<1>1. at = IF I # {} THEN Min(I) ELSE 0
  BY DEF FirstNotSmaller, SelectInSeq
<1>2. I \in SUBSET (1..Len(list)) /\ Len(list) \in Nat
  OBVIOUS
<1>3. at \in 0..Len(list) /\ (at = 0 <=> I = {}) /\ (at # 0 => at \in I) /\ \A i \in I : at <= i
  <2> HIDE DEF I
  <2> QED BY <1>1, <1>2, FirstIndex
<1>4. ASSUME NEW i \in 1..Len(list), i < at PROVE ~(list[i].key >= p.key)
  <2>1. ~(at <= i)
    BY <1>3, <1>4
  <2> QED BY <1>3, <2>1
<1> QED BY <1>3, <1>4

LEMMA InsertCases ==
  ASSUME NEW list, NEW p
  PROVE  Insert(list, p) = IF FirstNotSmaller(list, p) = 0 THEN Append(list, p)
                           ELSE InsertAt(list, FirstNotSmaller(list, p), p)
  BY DEF Insert, FirstNotSmaller, SelectInSeq

LEMMA InsertPredicate ==
  ASSUME NEW list \in Seq(Predicate), NEW p \in Predicate
  PROVE  Insert(list, p) \in Seq(Predicate)
<1> DEFINE at == FirstNotSmaller(list, p)
<1>1. at \in 0..Len(list)
  BY PlaceOf
<1>2. Insert(list, p) = IF at = 0 THEN Append(list, p) ELSE InsertAt(list, at, p)
  BY InsertCases
<1> HIDE DEF at
<1>3. Append(list, p) \in Seq(Predicate)
  OBVIOUS
<1>4. ASSUME at # 0 PROVE InsertAt(list, at, p) \in Seq(Predicate)
  <2>1. at \in 1..Len(list)
    BY <1>1, <1>4
  <2> QED BY <2>1, Inserted
<1> QED BY <1>2, <1>3, <1>4

\* A list stays sorted.
LEMMA InsertSorts ==
  ASSUME NEW type, NEW list \in Sorted(type), NEW p \in Predicate, ConstType(p) = type
  PROVE  Insert(list, p) \in Sorted(type)
<1> DEFINE at == FirstNotSmaller(list, p)
           r == Insert(list, p)
<1>0. /\ list \in Seq(Predicate) /\ Len(list) \in Nat
      /\ \A i \in 1..Len(list) : ConstType(list[i]) = type /\ list[i] \in Predicate
      /\ \A j, k \in 1..Len(list) : j < k => list[j].key <= list[k].key
  BY DEF Sorted
<1>1. /\ at \in 0..Len(list)
      /\ at = 0 => \A i \in 1..Len(list) : ~(list[i].key >= p.key)
      /\ at # 0 => list[at].key >= p.key
      /\ \A i \in 1..Len(list) : i < at => ~(list[i].key >= p.key)
  BY <1>0, PlaceOf
<1>2. r = IF at = 0 THEN Append(list, p) ELSE InsertAt(list, at, p)
  BY InsertCases
<1>3. p.key \in Nat /\ \A i \in 1..Len(list) : list[i].key \in Nat
  BY <1>0, PredicateType
<1>4. r \in Seq(Predicate)
  BY <1>0, InsertPredicate
<1> HIDE DEF at, r
<1>5. CASE at = 0
  <2>1. Len(r) = Len(list) + 1 /\ r[Len(list) + 1] = p /\ \A i \in 1..Len(list) : r[i] = list[i]
    BY <1>0, <1>2, <1>5
  <2>2. \A i \in 1..Len(r) : i \in 1..Len(list) \/ i = Len(list) + 1
    BY <1>0, <2>1
  <2>3. \A i \in 1..Len(r) : ConstType(r[i]) = type
    BY <1>0, <2>1, <2>2
  <2>4. ASSUME NEW j \in 1..Len(r), NEW k \in 1..Len(r), j < k PROVE r[j].key <= r[k].key
    <3>1. j \in 1..Len(list) /\ r[j] = list[j]
      BY <1>0, <2>1, <2>2, <2>4
    <3>2. CASE k \in 1..Len(list)
      BY <1>0, <2>1, <2>4, <3>1, <3>2
    <3>3. CASE k = Len(list) + 1
      <4>1. r[k] = p /\ ~(list[j].key >= p.key) /\ list[j].key \in Nat
        BY <1>1, <1>3, <1>5, <2>1, <3>1, <3>3
      <4> QED BY <1>3, <3>1, <4>1
    <3> QED BY <2>2, <3>2, <3>3
  <2> QED BY <1>4, <2>3, <2>4 DEF Sorted, r
<1>6. CASE at # 0
  <2>1. at \in 1..Len(list) /\ r = InsertAt(list, at, p)
    BY <1>1, <1>2, <1>6
  <2>2. /\ Len(r) = Len(list) + 1 /\ r[at] = p
        /\ \A i \in 1..Len(r) : i < at => i \in 1..Len(list) /\ r[i] = list[i]
        /\ \A i \in 1..Len(r) : i > at => i - 1 \in 1..Len(list) /\ r[i] = list[i - 1]
    BY <1>0, <2>1, Inserted
  <2>3. \A i \in 1..Len(r) : i < at \/ i = at \/ i > at
    BY <2>1
  <2>4. \A i \in 1..Len(r) : ConstType(r[i]) = type
    BY <1>0, <2>2, <2>3
  <2>5. ASSUME NEW i \in 1..Len(list), i >= at PROVE p.key <= list[i].key
    <3>1. list[at].key >= p.key /\ list[at].key \in Nat /\ list[i].key \in Nat
      BY <1>1, <1>3, <1>6, <2>1
    <3>2. i = at \/ list[at].key <= list[i].key
      BY <1>0, <2>1, <2>5
    <3> QED BY <1>3, <3>1, <3>2
  <2>6. ASSUME NEW i \in 1..Len(list), i < at PROVE list[i].key <= p.key
    <3>1. ~(list[i].key >= p.key) /\ list[i].key \in Nat
      BY <1>1, <1>3, <2>6
    <3> QED BY <1>3, <3>1
  <2>7. ASSUME NEW j \in 1..Len(r), NEW k \in 1..Len(r), j < k PROVE r[j].key <= r[k].key
    <3>1. CASE k < at
      <4>1. j < at
        BY <2>1, <2>7, <3>1
      <4> QED BY <1>0, <2>2, <2>7, <3>1, <4>1
    <3>2. CASE k = at
      <4>1. j \in 1..Len(list) /\ r[j] = list[j] /\ j < at
        BY <2>2, <2>7, <3>2
      <4> QED BY <2>2, <2>6, <3>2, <4>1
    <3>3. CASE k > at
      <4>1. k - 1 \in 1..Len(list) /\ r[k] = list[k - 1]
        BY <2>2, <3>3
      <4>2. CASE j < at
        <5>1. j \in 1..Len(list) /\ r[j] = list[j] /\ j < k - 1
          BY <2>1, <2>2, <3>3, <4>2
        <5> QED BY <1>0, <4>1, <5>1
      <4>3. CASE j = at
        <5>1. k - 1 >= at
          BY <2>1, <3>3
        <5> QED BY <2>2, <2>5, <4>1, <4>3, <5>1
      <4>4. CASE j > at
        <5>1. j - 1 \in 1..Len(list) /\ r[j] = list[j - 1] /\ j - 1 < k - 1
          BY <2>2, <2>7, <4>4
        <5> QED BY <1>0, <4>1, <5>1
      <4> QED BY <2>3, <4>2, <4>3, <4>4
    <3> QED BY <2>3, <3>1, <3>2, <3>3
  <2> QED BY <1>4, <2>4, <2>7 DEF Sorted, r
<1> QED BY <1>5, <1>6

-----------------------------------------------------------------------------
(* Steps and paths. *)

StepSet == [constants : Seq(Predicate), fluent : Sorted("fluent"), extFluent : {<<>>},
            action : Sorted("action"), extAction : {<<>>}]
PathSet == [timeless : StepSet, steps : Seq(StepSet)]

LEMMA EmptyIsSorted == \A type : <<>> \in Sorted(type)
  BY DEF Sorted

LEMMA EmptyIsStep == EmptyStep \in StepSet
<1>1. <<>> \in Seq(Predicate) /\ <<>> \in Sorted("fluent") /\ <<>> \in Sorted("action")
  BY EmptyIsSorted
<1> QED BY <1>1 DEF EmptyStep, StepSet

LEMMA EmptyIsPath == EmptyPath \in PathSet
  BY EmptyIsStep DEF EmptyPath, PathSet

LEMMA StepWithPredicate ==
  ASSUME NEW step \in StepSet, NEW p \in Predicate
  PROVE  AddToStep(step, p) \in StepSet
<1>0. /\ step.constants \in Seq(Predicate) /\ step.fluent \in Sorted("fluent")
      /\ step.action \in Sorted("action") /\ step.extFluent = <<>> /\ step.extAction = <<>>
  BY DEF StepSet
<1>1. Insert(step.constants, p) \in Seq(Predicate)
  BY <1>0, InsertPredicate
<1>2. CASE ConstType(p) = "fluent"
  <2>1. Insert(step.fluent, p) \in Sorted("fluent")
    BY <1>0, <1>2, InsertSorts
  <2>2. AddToStep(step, p) =
          [step EXCEPT !.constants = Insert(step.constants, p), !.fluent = Insert(step.fluent, p)]
    BY <1>2 DEF AddToStep, StepSet
  <2> QED BY <1>1, <2>1, <2>2 DEF StepSet
<1>3. CASE ConstType(p) = "action"
  <2>1. Insert(step.action, p) \in Sorted("action")
    BY <1>0, <1>3, InsertSorts
  <2>2. AddToStep(step, p) =
          [step EXCEPT !.constants = Insert(step.constants, p), !.action = Insert(step.action, p)]
    BY <1>3 DEF AddToStep, StepSet
  <2> QED BY <1>1, <2>1, <2>2 DEF StepSet
<1> QED BY <1>2, <1>3, PredicateType

LEMMA PathWithPredicate ==
  ASSUME NEW path \in PathSet, NEW p \in Predicate
  PROVE  AddToPath(path, p) \in PathSet
<1>0. path.timeless \in StepSet /\ path.steps \in Seq(StepSet) /\ Len(path.steps) \in Nat
  BY DEF PathSet
<1>1. CASE p.time = Timeless
  <2>1. AddToStep(path.timeless, p) \in StepSet
    BY <1>0, StepWithPredicate
  <2>2. AddToPath(path, p) = [path EXCEPT !.timeless = AddToStep(path.timeless, p)]
    BY <1>1 DEF AddToPath
  <2> QED BY <2>1, <2>2 DEF PathSet
<1>2. CASE p.time # Timeless
  <2> DEFINE n == IF p.time < Len(path.steps) THEN Len(path.steps) ELSE p.time + 1
             longer == [t \in 1..n |-> IF t <= Len(path.steps) THEN path.steps[t] ELSE EmptyStep]
             at == p.time + 1
             more == [longer EXCEPT ![at] = AddToStep(longer[at], p)]
  <2>1. p.time \in Nat
    BY <1>2, PredicateType
  <2>2. n \in Nat /\ at \in 1..n
    BY <1>0, <2>1
  <2>3. AddToPath(path, p) = [path EXCEPT !.steps = more]
    BY <1>2 DEF AddToPath
  <2> HIDE DEF n, at
  <2>4. ASSUME NEW t \in 1..n PROVE longer[t] \in StepSet
    <3>1. CASE t <= Len(path.steps)
      <4>1. t \in 1..Len(path.steps)
        BY <1>0, <2>2, <3>1
      <4>2. path.steps[t] \in StepSet
        BY <1>0, <4>1
      <4> QED BY <3>1, <4>2
    <3>2. CASE ~(t <= Len(path.steps))
      BY <3>2, EmptyIsStep
    <3> QED BY <3>1, <3>2
  <2>5. longer \in [1..n -> StepSet]
    BY <2>4
  <2> HIDE DEF longer
  <2>6. AddToStep(longer[at], p) \in StepSet
    BY <2>2, <2>5, StepWithPredicate
  <2>7. more \in [1..n -> StepSet]
    BY <2>2, <2>5, <2>6
  <2> HIDE DEF more
  <2>8. more \in Seq(StepSet)
    BY <2>2, <2>7
  <2> QED BY <1>0, <2>3, <2>8 DEF PathSet
<1> QED BY <1>1, <1>2

NotPredicateAt(line) == SelectInSeq(line, NoPredicate)
Read(line) == IF NotPredicateAt(line) = 0 THEN line ELSE SubSeq(line, 1, NotPredicateAt(line) - 1)

LEMMA PredicatesOfLine ==
  ASSUME NEW line \in Seq(Piece)
  PROVE  Predicates(line) \in Seq(Predicate)
<1> DEFINE stop == NotPredicateAt(line)
           I == {i \in 1..Len(line) : NoPredicate(line[i])}
           good == Read(line)
<1>1. stop = IF I # {} THEN Min(I) ELSE 0
  BY DEF NotPredicateAt, SelectInSeq
<1>2. I \in SUBSET (1..Len(line)) /\ Len(line) \in Nat
  OBVIOUS
<1>3. stop \in 0..Len(line)
  <2> HIDE DEF I, stop
  <2> QED BY <1>1, <1>2, FirstIndex
<1>4. good = IF stop = 0 THEN line ELSE SubSeq(line, 1, stop - 1)
  BY DEF Read
<1>5. Predicates(line) =
        [i \in DOMAIN good |-> IF good[i].is = "predicate" THEN good[i] ELSE Bare]
  BY DEF Predicates, Read, NotPredicateAt, SelectInSeq
<1> HIDE DEF stop, good
<1>6. good \in Seq(Piece)
  <2>1. CASE stop = 0
    BY <1>4, <2>1
  <2>2. CASE stop # 0
    <3>1. stop - 1 \in Nat /\ stop - 1 <= Len(line)
      BY <1>2, <1>3, <2>2
    <3>2. SubSeq(line, 1, stop - 1) \in Seq(Piece)
      BY <3>1, Parts
    <3> QED BY <1>4, <2>2, <3>2
  <2> QED BY <2>1, <2>2
<1>7. DOMAIN good = 1..Len(good) /\ Len(good) \in Nat /\ \A i \in 1..Len(good) : good[i] \in Piece
  BY <1>6
<1>8. Bare \in Predicate
  BY DEF Predicate, Bare
<1>9. \A i \in 1..Len(good) :
        (IF good[i].is = "predicate" THEN good[i] ELSE Bare) \in Predicate
  BY <1>7, <1>8 DEF Predicate
<1>10. Predicates(line) \in [1..Len(good) -> Predicate]
  BY <1>5, <1>7, <1>9
<1> QED BY <1>7, <1>10

\* The path of a line is made predicate by predicate.
Grows(g, line) ==
  /\ g \in [0..Len(line) -> PathSet] /\ g[0] = EmptyPath
  /\ \A n \in 1..Len(line) : g[n] = AddToPath(g[n - 1], line[n])

LEMMA PathGrows ==
  ASSUME NEW s \in Seq(Piece)
  PROVE  \E g : Grows(g, Predicates(Line(s))) /\ Path(s) = g[Len(Predicates(Line(s)))]
<1> DEFINE line == Predicates(Line(s))
           N == Len(line)
           Def(g) == [n \in 0..N |-> IF n = 0 THEN EmptyPath ELSE AddToPath(g[n - 1], line[n])]
           path == CHOOSE g : g = Def(g)
           step == [n \in 1..N |-> [x \in PathSet |-> AddToPath(x, line[n])]]
<1>1. Path(s) = path[N]
  BY DEF Path
<1>2. line \in Seq(Predicate) /\ N \in Nat /\ \A n \in 1..N : line[n] \in Predicate
  <2>1. line \in Seq(Predicate)
    BY LinesOfTexts, PredicatesOfLine
  <2> HIDE DEF line
  <2> QED BY <2>1
<1> HIDE DEF line, N
<1>3. /\ step \in [1..N -> [PathSet -> PathSet]]
      /\ \A n \in 1..N, x \in PathSet : step[n][x] = AddToPath(x, line[n])
  BY <1>2, PathWithPredicate
<1> HIDE DEF step
<1>4. PICK g : Iterates(g, PathSet, EmptyPath, N, step)
  BY <1>2, <1>3, EmptyIsPath, Iteration
<1>5. g \in [0..N -> PathSet] /\ g[0] = EmptyPath /\ \A n \in 1..N : g[n] = step[n][g[n - 1]]
  BY <1>4 DEF Iterates
<1>6. \A n \in 1..N : n - 1 \in 0..N /\ n \in 0..N /\ n # 0
  BY <1>2
<1>7. \A n \in 1..N : g[n] = AddToPath(g[n - 1], line[n])
  <2>1. \A n \in 1..N : g[n - 1] \in PathSet
    BY <1>5, <1>6
  <2> QED BY <1>3, <1>5, <2>1
<1>8. g = Def(g)
  <2>1. \A n \in 0..N : n = 0 \/ n \in 1..N
    BY <1>2
  <2>2. \A n \in 0..N : g[n] = IF n = 0 THEN EmptyPath ELSE AddToPath(g[n - 1], line[n])
    BY <1>5, <1>7, <2>1
  <2> QED BY <1>5, <2>2
<1>9. path = Def(path)
  BY <1>8
<1> HIDE DEF path
<1>10. path[0] = EmptyPath /\ \A n \in 1..N : path[n] = AddToPath(path[n - 1], line[n])
  <2>1. \A n \in 0..N : path[n] = IF n = 0 THEN EmptyPath ELSE AddToPath(path[n - 1], line[n])
    BY <1>9
  <2>2. 0 \in 0..N
    BY <1>2
  <2> QED BY <1>6, <2>1, <2>2
<1> DEFINE I == {n \in 0..N : path[n] = g[n]}
<1>11. 0 \in I
  BY <1>2, <1>5, <1>10
<1>12. ASSUME NEW n \in 1..N, n - 1 \in I PROVE n \in I
  BY <1>6, <1>7, <1>10, <1>12
<1>13. 0..N \subseteq I
  <2> HIDE DEF I
  <2> QED BY <1>2, <1>11, <1>12, Climb
<1>14. path[N] = g[N]
  BY <1>2, <1>13
<1> QED BY <1>1, <1>5, <1>7, <1>14 DEF Grows, N, line

\* It is a path of sorted steps.
LEMMA PathOfText ==
  ASSUME NEW s \in Seq(Piece)
  PROVE  Path(s) \in PathSet
<1>1. PICK g : Grows(g, Predicates(Line(s))) /\ Path(s) = g[Len(Predicates(Line(s)))]
  BY PathGrows
<1>2. Predicates(Line(s)) \in Seq(Predicate)
  BY LinesOfTexts, PredicatesOfLine
<1>3. Len(Predicates(Line(s))) \in 0..Len(Predicates(Line(s)))
  BY <1>2, LenProperties
<1> QED BY <1>1, <1>3 DEF Grows

-----------------------------------------------------------------------------
(* What a path holds. *)

\* The list r is another one with p at a place.
HasAt(r, list, p, at) ==
  /\ r[at] = p
  /\ \A i \in 1..Len(r) : i < at => i \in 1..Len(list) /\ r[i] = list[i]
  /\ \A i \in 1..Len(r) : i > at => i - 1 \in 1..Len(list) /\ r[i] = list[i - 1]

LEMMA InsertPlace ==
  ASSUME NEW list \in Seq(Predicate), NEW p \in Predicate, NEW r, r = Insert(list, p)
  PROVE  /\ r \in Seq(Predicate) /\ Len(r) = Len(list) + 1
         /\ \E at \in 1..Len(r) : HasAt(r, list, p, at)
<1> DEFINE at == FirstNotSmaller(list, p)
<1>1. at \in 0..Len(list) /\ Len(list) \in Nat
  BY PlaceOf
<1>2. r = IF at = 0 THEN Append(list, p) ELSE InsertAt(list, at, p)
  BY InsertCases
<1> HIDE DEF at
<1>3. CASE at = 0
  <2>1. r = Append(list, p)
    BY <1>2, <1>3
  <2>2. /\ r \in Seq(Predicate) /\ Len(r) = Len(list) + 1 /\ r[Len(list) + 1] = p
        /\ \A i \in 1..Len(list) : r[i] = list[i]
    BY <2>1
  <2>3. /\ Len(list) + 1 \in 1..Len(r)
        /\ \A i \in 1..Len(r) : i < Len(list) + 1 => i \in 1..Len(list)
        /\ \A i \in 1..Len(r) : ~(i > Len(list) + 1)
    BY <1>1, <2>2
  <2> QED BY <2>2, <2>3 DEF HasAt
<1>4. CASE at # 0
  <2>1. at \in 1..Len(list) /\ r = InsertAt(list, at, p)
    BY <1>1, <1>2, <1>4
  <2>2. /\ r \in Seq(Predicate) /\ Len(r) = Len(list) + 1 /\ r[at] = p
        /\ \A i \in 1..Len(r) : i < at => i \in 1..Len(list) /\ r[i] = list[i]
        /\ \A i \in 1..Len(r) : i > at => i - 1 \in 1..Len(list) /\ r[i] = list[i - 1]
    BY <2>1, Inserted
  <2>3. at \in 1..Len(r)
    BY <1>1, <2>1, <2>2
  <2> QED BY <2>2, <2>3 DEF HasAt
<1> QED BY <1>3, <1>4

\* An insertion adds the predicate, and loses and doubles nothing.
LEMMA InsertAdds ==
  ASSUME NEW list \in Seq(Predicate), NEW p \in Predicate, NEW r, r = Insert(list, p)
  PROVE  /\ ToSet(r) = ToSet(list) \cup {p}
         /\ IsInjective(list) /\ p \notin ToSet(list) => IsInjective(r)
<1>0. /\ list \in Seq(Predicate) /\ Len(list) \in Nat /\ DOMAIN list = 1..Len(list)
      /\ r \in Seq(Predicate) /\ DOMAIN r = 1..Len(r) /\ Len(r) = Len(list) + 1
  BY InsertPlace
<1>a. PICK at \in 1..Len(r) : HasAt(r, list, p, at)
  BY InsertPlace
<1>1. /\ r[at] = p
      /\ \A i \in 1..Len(r) : i < at => i \in 1..Len(list) /\ r[i] = list[i]
      /\ \A i \in 1..Len(r) : i > at => i - 1 \in 1..Len(list) /\ r[i] = list[i - 1]
  BY <1>a DEF HasAt
<1>2. \A i \in 1..Len(r) : i < at \/ i = at \/ i > at
  BY <1>0
<1>3. ASSUME NEW x \in ToSet(r) PROVE x \in ToSet(list) \cup {p}
  <2>1. PICK i \in 1..Len(r) : x = r[i]
    BY <1>0, <1>3 DEF ToSet
  <2>2. CASE i < at
    BY <1>0, <1>1, <2>1, <2>2 DEF ToSet
  <2>3. CASE i = at
    BY <1>1, <2>1, <2>3
  <2>4. CASE i > at
    BY <1>0, <1>1, <2>1, <2>4 DEF ToSet
  <2> QED BY <1>2, <2>2, <2>3, <2>4
<1>4. ASSUME NEW x \in ToSet(list) PROVE x \in ToSet(r)
  <2>1. PICK i \in 1..Len(list) : x = list[i]
    BY <1>0, <1>4 DEF ToSet
  <2>2. CASE i < at
    <3>1. i \in 1..Len(r) /\ r[i] = x
      BY <1>0, <1>1, <2>1, <2>2
    <3> QED BY <1>0, <3>1 DEF ToSet
  <2>3. CASE ~(i < at)
    <3>1. i + 1 \in 1..Len(r) /\ i + 1 > at /\ (i + 1) - 1 = i
      BY <1>0, <2>3
    <3>2. r[i + 1] = x
      BY <1>1, <2>1, <3>1
    <3> QED BY <1>0, <3>1, <3>2 DEF ToSet
  <2> QED BY <2>2, <2>3
<1>5. p \in ToSet(r)
  BY <1>0, <1>1 DEF ToSet
<1>6. ASSUME IsInjective(list), p \notin ToSet(list) PROVE IsInjective(r)
  <2>1. \A i \in 1..Len(list) : list[i] # p
    BY <1>0, <1>6 DEF ToSet
  <2>2. \A i, j \in 1..Len(list) : list[i] = list[j] => i = j
    BY <1>0, <1>6 DEF IsInjective
  <2>3. \A i \in 1..Len(r) : i # at => r[i] # p
    BY <1>1, <1>2, <2>1
  <2> SUFFICES ASSUME NEW i \in 1..Len(r), NEW j \in 1..Len(r), r[i] = r[j] PROVE i = j
    BY <1>0 DEF IsInjective
  <2>4. i = at <=> j = at
    BY <1>1, <2>3
  <2>5. CASE i < at /\ j < at
    BY <1>1, <2>2, <2>5
  <2>6. CASE i > at /\ j > at
    <3>1. i - 1 = j - 1
      BY <1>1, <2>2, <2>6
    <3> QED BY <1>0, <3>1
  <2>7. CASE i < at /\ j > at
    <3>1. i = j - 1
      BY <1>1, <2>2, <2>7
    <3> QED BY <1>0, <2>7, <3>1
  <2>8. CASE i > at /\ j < at
    <3>1. i - 1 = j
      BY <1>1, <2>2, <2>8
    <3> QED BY <1>0, <2>8, <3>1
  <2> QED BY <1>2, <2>4, <2>5, <2>6, <2>7, <2>8
<1> QED BY <1>3, <1>4, <1>5, <1>6

OfType(H, type) == {p \in H : ConstType(p) = type}
\* A step holds a set of predicates, each once and under its type.
HoldsStep(step, H) ==
  /\ IsInjective(step.fluent) /\ ToSet(step.fluent) = OfType(H, "fluent")
  /\ IsInjective(step.action) /\ ToSet(step.action) = OfType(H, "action")
  /\ step.constants = <<>> <=> H = {}

LEMMA EmptyHolds == HoldsStep(EmptyStep, {})
  BY DEF HoldsStep, EmptyStep, IsInjective, ToSet, OfType

LEMMA StepGains ==
  ASSUME NEW step \in StepSet, NEW H \in SUBSET Predicate, HoldsStep(step, H),
         NEW p \in Predicate, p \notin H
  PROVE  HoldsStep(AddToStep(step, p), H \cup {p})
<1>0. /\ step.constants \in Seq(Predicate) /\ step.fluent \in Seq(Predicate)
      /\ step.action \in Seq(Predicate)
  BY DEF StepSet, Sorted
<1>1. Insert(step.constants, p) # <<>>
  <2>1. Insert(step.constants, p) \in Seq(Predicate) /\ Len(Insert(step.constants, p)) = Len(step.constants) + 1
    BY <1>0, InsertPlace
  <2>2. Len(step.constants) \in Nat
    BY <1>0
  <2> QED BY <2>1, <2>2
<1>2. CASE ConstType(p) = "fluent"
  <2>1. AddToStep(step, p) =
          [step EXCEPT !.constants = Insert(step.constants, p), !.fluent = Insert(step.fluent, p)]
    BY <1>2 DEF AddToStep, StepSet
  <2>2. p \notin ToSet(step.fluent)
    BY DEF HoldsStep, OfType
  <2>3. /\ ToSet(Insert(step.fluent, p)) = OfType(H, "fluent") \cup {p}
        /\ IsInjective(Insert(step.fluent, p))
    BY <1>0, <2>2, InsertAdds DEF HoldsStep
  <2>4. /\ OfType(H \cup {p}, "fluent") = OfType(H, "fluent") \cup {p}
        /\ OfType(H \cup {p}, "action") = OfType(H, "action")
    BY <1>2 DEF OfType
  <2>5. /\ AddToStep(step, p).fluent = Insert(step.fluent, p)
        /\ AddToStep(step, p).action = step.action
        /\ AddToStep(step, p).constants = Insert(step.constants, p)
    BY <2>1 DEF StepSet
  <2> QED BY <1>1, <2>3, <2>4, <2>5 DEF HoldsStep
<1>3. CASE ConstType(p) = "action"
  <2>1. AddToStep(step, p) =
          [step EXCEPT !.constants = Insert(step.constants, p), !.action = Insert(step.action, p)]
    BY <1>3 DEF AddToStep, StepSet
  <2>2. p \notin ToSet(step.action)
    BY DEF HoldsStep, OfType
  <2>3. /\ ToSet(Insert(step.action, p)) = OfType(H, "action") \cup {p}
        /\ IsInjective(Insert(step.action, p))
    BY <1>0, <2>2, InsertAdds DEF HoldsStep
  <2>4. /\ OfType(H \cup {p}, "action") = OfType(H, "action") \cup {p}
        /\ OfType(H \cup {p}, "fluent") = OfType(H, "fluent")
    BY <1>3 DEF OfType
  <2>5. /\ AddToStep(step, p).action = Insert(step.action, p)
        /\ AddToStep(step, p).fluent = step.fluent
        /\ AddToStep(step, p).constants = Insert(step.constants, p)
    BY <2>1 DEF StepSet
  <2> QED BY <1>1, <2>3, <2>4, <2>5 DEF HoldsStep
<1> QED BY <1>2, <1>3, PredicateType

AtTime(H, time) == {p \in H : p.time = time}
\* A path holds a set of predicates, each at its time, and ends with the last.
HoldsPath(path, H) ==
  /\ HoldsStep(path.timeless, AtTime(H, Timeless))
  /\ \A t \in 1..Len(path.steps) : HoldsStep(path.steps[t], AtTime(H, t - 1))
  /\ \A p \in H : p.time # Timeless => p.time < Len(path.steps)
  /\ Len(path.steps) # 0 => \E p \in H : p.time # Timeless /\ p.time = Len(path.steps) - 1

LEMMA EmptyPathHolds == HoldsPath(EmptyPath, {})
<1>1. EmptyPath.timeless = EmptyStep /\ Len(EmptyPath.steps) = 0 /\ AtTime({}, Timeless) = {}
  BY DEF EmptyPath, AtTime
<1> QED BY <1>1, EmptyHolds DEF HoldsPath

LEMMA PathGains ==
  ASSUME NEW path \in PathSet, NEW H \in SUBSET Predicate, HoldsPath(path, H),
         NEW p \in Predicate, p \notin H
  PROVE  HoldsPath(AddToPath(path, p), H \cup {p})
<1> DEFINE G == H \cup {p}
           r == AddToPath(path, p)
<1>0. path.timeless \in StepSet /\ path.steps \in Seq(StepSet) /\ Len(path.steps) \in Nat
  BY DEF PathSet
<1>a. /\ \A time : AtTime(G, time) = IF p.time = time THEN AtTime(H, time) \cup {p} ELSE AtTime(H, time)
      /\ \A time : AtTime(H, time) \in SUBSET Predicate /\ p \notin AtTime(H, time)
  BY DEF AtTime
<1>1. CASE p.time = Timeless
  <2>1. r = [path EXCEPT !.timeless = AddToStep(path.timeless, p)]
    BY <1>1 DEF AddToPath
  <2>2. r.timeless = AddToStep(path.timeless, p) /\ r.steps = path.steps
    BY <2>1 DEF PathSet
  <2>3. HoldsStep(r.timeless, AtTime(H, Timeless) \cup {p})
    BY <1>0, <1>a, <2>2, StepGains DEF HoldsPath
  <2>4. \A t \in 1..Len(path.steps) : t - 1 # Timeless
    BY <1>0, AnswersAssumption
  <2>5. \A t \in 1..Len(path.steps) : HoldsStep(path.steps[t], AtTime(G, t - 1))
    <3> SUFFICES ASSUME NEW t \in 1..Len(path.steps)
                 PROVE  HoldsStep(path.steps[t], AtTime(G, t - 1))
      OBVIOUS
    <3> HIDE DEF G
    <3>1. AtTime(G, t - 1) = AtTime(H, t - 1)
      BY <1>1, <1>a, <2>4
    <3>2. HoldsStep(path.steps[t], AtTime(H, t - 1))
      BY DEF HoldsPath
    <3> QED BY <3>1, <3>2
  <2> HIDE DEF r
  <2>6. HoldsStep(r.timeless, AtTime(G, Timeless))
    BY <1>1, <1>a, <2>3
  <2>7. \A q \in G : q.time # Timeless => q.time < Len(r.steps)
    BY <1>1, <2>2 DEF HoldsPath
  <2>8. Len(r.steps) # 0 => \E q \in G : q.time # Timeless /\ q.time = Len(r.steps) - 1
    BY <2>2 DEF HoldsPath
  <2> HIDE DEF G
  <2>9. HoldsPath(r, G)
    BY <2>2, <2>5, <2>6, <2>7, <2>8 DEF HoldsPath
  <2> QED BY <2>9 DEF r, G
<1>2. CASE p.time # Timeless
  <2> DEFINE N == Len(path.steps)
             n == IF p.time < N THEN N ELSE p.time + 1
             longer == [t \in 1..n |-> IF t <= Len(path.steps) THEN path.steps[t] ELSE EmptyStep]
             at == p.time + 1
             more == [longer EXCEPT ![at] = AddToStep(longer[at], p)]
  <2>1. p.time \in Nat
    BY <1>2, PredicateType
  <2>2. n \in Nat /\ N \in Nat /\ at \in 1..n /\ N <= n /\ (n = N \/ n = at)
    BY <1>0, <2>1
  <2>3. r = [path EXCEPT !.steps = more]
    BY <1>2 DEF AddToPath
  <2>4. ASSUME NEW t \in 1..n
        PROVE  longer[t] \in StepSet /\ HoldsStep(longer[t], AtTime(H, t - 1))
    <3> HIDE DEF n
    <3>1. CASE t <= N
      <4>1. t \in 1..N /\ longer[t] = path.steps[t]
        BY <2>2, <3>1
      <4>2. path.steps[t] \in StepSet
        BY <1>0, <4>1
      <4> QED BY <4>1, <4>2 DEF HoldsPath
    <3>2. CASE ~(t <= N)
      <4>1. longer[t] = EmptyStep
        BY <3>2
      <4>2. ASSUME NEW q \in H, q.time = t - 1 PROVE FALSE
        <5>1. t - 1 # Timeless /\ t - 1 \in Nat
          BY <2>2, AnswersAssumption
        <5>2. q.time < N
          BY <4>2, <5>1 DEF HoldsPath
        <5> QED BY <2>2, <3>2, <4>2, <5>2
      <4>3. AtTime(H, t - 1) = {}
        BY <4>2 DEF AtTime
      <4> HIDE DEF longer
      <4> QED BY <4>1, <4>3, EmptyHolds, EmptyIsStep
    <3> QED BY <3>1, <3>2
  <2> HIDE DEF n
  <2>5. DOMAIN longer = 1..n
    OBVIOUS
  <2> HIDE DEF longer
  <2>6. /\ DOMAIN more = 1..n /\ more[at] = AddToStep(longer[at], p)
        /\ \A t \in 1..n : t # at => more[t] = longer[t]
    BY <2>2, <2>5
  <2>7. r.steps = more /\ r.timeless = path.timeless
    BY <2>3 DEF PathSet
  <2> HIDE DEF more, r
  <2>8. Len(more) = n
    <3>1. r \in PathSet
      BY PathWithPredicate DEF r
    <3>2. more \in Seq(StepSet)
      BY <2>7, <3>1 DEF PathSet
    <3>3. DOMAIN more = 1..Len(more) /\ Len(more) \in Nat
      BY <3>2
    <3>4. 1..n = 1..Len(more)
      BY <2>6, <3>3
    <3>5. n \in 1..Len(more) /\ Len(more) \in 1..n
      <4>1. n \in 1..n
        BY <2>2
      <4>2. Len(more) \in 1..Len(more)
        BY <3>3, <3>4, <4>1
      <4> QED BY <3>4, <4>1, <4>2
    <3> DEFINE m == Len(more)
    <3>6. n \in 1..m /\ m \in 1..n /\ m \in Nat /\ n \in Nat
      BY <2>2, <3>3, <3>5, Zenon
    <3> HIDE DEF m
    <3>7. m = n
      BY <3>6
    <3> QED BY <3>7 DEF m
  <2>9. ASSUME NEW t \in 1..n PROVE HoldsStep(more[t], AtTime(G, t - 1))
    <3>1. CASE t = at
      <4>1. t - 1 = p.time
        BY <2>1, <3>1
      <4>2. AtTime(G, t - 1) = AtTime(H, t - 1) \cup {p}
        BY <1>a, <4>1
      <4>3. longer[t] \in StepSet /\ HoldsStep(longer[t], AtTime(H, t - 1))
        BY <2>4
      <4>4. HoldsStep(AddToStep(longer[t], p), AtTime(H, t - 1) \cup {p})
        BY <1>a, <4>3, StepGains
      <4> QED BY <2>6, <3>1, <4>2, <4>4
    <3>2. CASE t # at
      <4>1. t - 1 # p.time
        BY <2>1, <2>2, <3>2
      <4>2. AtTime(G, t - 1) = AtTime(H, t - 1)
        BY <1>a, <4>1
      <4> QED BY <2>4, <2>6, <3>2, <4>2
    <3> QED BY <3>1, <3>2
  <2>10. AtTime(G, Timeless) = AtTime(H, Timeless)
    BY <1>2, <1>a
  <2>11. ASSUME NEW q \in G, q.time # Timeless PROVE q.time < n
    <3>1. CASE q = p
      BY <2>1, <2>2, <3>1
    <3>2. CASE q \in H
      <4>1. q.time < N /\ q.time \in Nat
        BY <2>11, <3>2, PredicateType DEF HoldsPath
      <4> QED BY <2>2, <4>1
    <3> QED BY <3>1, <3>2
  <2>12. \E q \in G : q.time # Timeless /\ q.time = n - 1
    <3>1. CASE n = N
      <4>1. N # 0
        BY <2>2, <3>1
      <4>2. PICK q \in H : q.time # Timeless /\ q.time = N - 1
        BY <4>1 DEF HoldsPath
      <4> QED BY <3>1, <4>2
    <3>2. CASE n = at
      <4>1. p.time = n - 1
        BY <2>1, <3>2
      <4> QED BY <1>2, <4>1
    <3> QED BY <2>2, <3>1, <3>2
  <2> HIDE DEF G
  <2>13. HoldsPath(r, G)
    <3>1. HoldsStep(r.timeless, AtTime(G, Timeless))
      BY <2>7, <2>10 DEF HoldsPath
    <3> QED BY <2>7, <2>8, <2>9, <2>11, <2>12, <3>1 DEF HoldsPath
  <2> QED BY <2>13 DEF r, G
<1> QED BY <1>1, <1>2

\* The path of a line holds what the line says, by induction over it.
LEMMA PathHolds ==
  ASSUME NEW s \in Seq(Piece), NEW line, line = Predicates(Line(s)), IsInjective(line)
  PROVE  HoldsPath(Path(s), ToSet(line))
<1> DEFINE N == Len(line)
           Part(n) == {line[i] : i \in 1..n}
<1>1. PICK g : Grows(g, line) /\ Path(s) = g[N]
  BY PathGrows
<1>2. line \in Seq(Predicate)
  BY LinesOfTexts, PredicatesOfLine
<1>3. /\ N \in Nat /\ DOMAIN line = 1..N /\ \A n \in 1..N : line[n] \in Predicate
      /\ \A i, j \in 1..N : line[i] = line[j] => i = j
  BY <1>2 DEF IsInjective
<1>4. /\ g \in [0..N -> PathSet] /\ g[0] = EmptyPath
      /\ \A n \in 1..N : g[n] = AddToPath(g[n - 1], line[n])
  BY <1>1 DEF Grows
<1> HIDE DEF N
<1> DEFINE I == {n \in 0..N : HoldsPath(g[n], Part(n))}
<1>5. 0 \in I
  <2>1. Part(0) = {} /\ 0 \in 0..N
    BY <1>3
  <2> QED BY <1>4, <2>1, EmptyPathHolds
<1>6. ASSUME NEW n \in 1..N, n - 1 \in I PROVE n \in I
  <2>1. n \in 0..N /\ n - 1 \in 0..N /\ n \in Nat /\ \A i \in 1..n : i \in 1..N
    BY <1>3
  <2>2. \A i \in 1..(n - 1) : i \in 1..N /\ i # n
    BY <2>1
  <2>3. Part(n - 1) \in SUBSET Predicate /\ line[n] \notin Part(n - 1)
    BY <1>3, <2>2
  <2>4. Part(n) = Part(n - 1) \cup {line[n]}
    <3>1. \A i \in 1..n : i = n \/ i \in 1..(n - 1)
      BY <2>1
    <3>2. n \in 1..n /\ \A i \in 1..(n - 1) : i \in 1..n
      BY <2>1
    <3> QED BY <3>1, <3>2
  <2>5. HoldsPath(g[n - 1], Part(n - 1)) /\ g[n - 1] \in PathSet /\ line[n] \in Predicate
    BY <1>3, <1>4, <1>6, <2>1
  <2> HIDE DEF Part
  <2>6. HoldsPath(AddToPath(g[n - 1], line[n]), Part(n - 1) \cup {line[n]})
    BY <2>3, <2>5, PathGains
  <2> QED BY <1>4, <2>1, <2>4, <2>6
<1>7. 0..N \subseteq I
  <2> HIDE DEF I
  <2> QED BY <1>3, <1>5, <1>6, Climb
<1>8. HoldsPath(g[N], Part(N))
  <2> HIDE DEF Part
  <2>1. N \in 0..N
    BY <1>3
  <2> QED BY <1>7, <2>1
<1>9. Part(N) = ToSet(line)
  BY <1>3 DEF ToSet
<1> QED BY <1>1, <1>8, <1>9

-----------------------------------------------------------------------------
(* What the mask shows. *)

\* A mask keeps the order of a list, and shows what it does not hide.
LEMMA ShownOfList ==
  ASSUME NEW list \in Seq(Predicate)
  PROVE  /\ Shown(list) \in Seq(Predicate)
         /\ \E f : Picks(f, Shown(list), list, Visible(list))
  BY OnlyPicks DEF Shown

LEMMA ShownIsSorted ==
  ASSUME NEW type, NEW list \in Sorted(type)
  PROVE  Shown(list) \in Sorted(type) /\ (list = <<>> => Shown(list) = <<>>)
<1> DEFINE r == Shown(list)
<1>1. /\ list \in Seq(Predicate) /\ Len(list) \in Nat
      /\ \A i \in 1..Len(list) : ConstType(list[i]) = type
      /\ \A j, k \in 1..Len(list) : j < k => list[j].key <= list[k].key
  BY DEF Sorted
<1>2. r \in Seq(Predicate) /\ \E f : Picks(f, r, list, Visible(list))
  BY <1>1, ShownOfList
<1>3. PICK f : Picks(f, r, list, Visible(list))
  BY <1>2
<1> HIDE DEF r
<1>4. /\ f \in [1..Len(r) -> 1..Len(list)] /\ Len(r) \in Nat
      /\ \A j, k \in 1..Len(r) : j < k => f[j] < f[k]
      /\ \A j \in 1..Len(r) : f[j] \in 1..Len(list) /\ r[j] = list[f[j]]
  BY <1>2, <1>3 DEF Picks
<1>5. \A j \in 1..Len(r) : ConstType(r[j]) = type
  BY <1>1, <1>4
<1>6. \A j, k \in 1..Len(r) : j < k => r[j].key <= r[k].key
  BY <1>1, <1>4
<1>7. r \in Sorted(type)
  BY <1>2, <1>5, <1>6 DEF Sorted
<1>8. ASSUME list = <<>> PROVE r = <<>>
  <2>1. 1..Len(list) = {}
    BY <1>8
  <2>2. ~(1 \in 1..Len(r))
    BY <1>4, <2>1
  <2>3. Len(r) = 0
    BY <1>4, <2>2
  <2> QED BY <1>2, <2>3, EmptySeq
<1> QED BY <1>7, <1>8 DEF r

-----------------------------------------------------------------------------
(* What is printed. *)

OrderedList == {l \in Seq(Predicate) : InOrder(l)}

LEMMA FluentsThenActions ==
  ASSUME NEW f \in Sorted("fluent"), NEW a \in Sorted("action")
  PROVE  f \o a \in OrderedList
<1> DEFINE l == f \o a
<1>1. /\ f \in Seq(Predicate) /\ Len(f) \in Nat /\ a \in Seq(Predicate) /\ Len(a) \in Nat
      /\ \A i \in 1..Len(f) : ConstType(f[i]) = "fluent"
      /\ \A i \in 1..Len(a) : ConstType(a[i]) = "action"
      /\ \A j, k \in 1..Len(f) : j < k => f[j].key <= f[k].key
      /\ \A j, k \in 1..Len(a) : j < k => a[j].key <= a[k].key
  BY DEF Sorted
<1>2. /\ l \in Seq(Predicate) /\ Len(l) = Len(f) + Len(a) /\ DOMAIN l = 1..Len(l)
      /\ \A i \in 1..(Len(f) + Len(a)) : l[i] = IF i <= Len(f) THEN f[i] ELSE a[i - Len(f)]
  BY <1>1, ConcatProperties
<1> HIDE DEF l
<1>3. \A i \in 1..Len(l) : i <= Len(f) => i \in 1..Len(f) /\ l[i] = f[i]
  BY <1>1, <1>2
<1>4. \A i \in 1..Len(l) : ~(i <= Len(f)) => i - Len(f) \in 1..Len(a) /\ l[i] = a[i - Len(f)]
  BY <1>1, <1>2
<1>5. ASSUME NEW j \in DOMAIN l, NEW k \in DOMAIN l, j < k
      PROVE  \/ ConstType(l[j]) = "fluent" /\ ConstType(l[k]) = "action"
             \/ ConstType(l[j]) = ConstType(l[k]) /\ l[j].key <= l[k].key
  <2>0. j \in 1..Len(l) /\ k \in 1..Len(l)
    BY <1>2
  <2>1. CASE k <= Len(f)
    <3>1. j <= Len(f)
      BY <1>1, <1>2, <1>5, <2>0, <2>1
    <3> QED BY <1>1, <1>3, <1>5, <2>0, <2>1, <3>1
  <2>2. CASE ~(k <= Len(f)) /\ j <= Len(f)
    BY <1>1, <1>3, <1>4, <2>0, <2>2
  <2>3. CASE ~(k <= Len(f)) /\ ~(j <= Len(f))
    <3>1. /\ j - Len(f) \in 1..Len(a) /\ l[j] = a[j - Len(f)]
          /\ k - Len(f) \in 1..Len(a) /\ l[k] = a[k - Len(f)]
      BY <1>4, <2>0, <2>3
    <3>2. j - Len(f) < k - Len(f)
      BY <1>1, <1>2, <1>5, <2>0
    <3> QED BY <1>1, <3>1, <3>2
  <2> QED BY <2>1, <2>2, <2>3
<1> QED BY <1>2, <1>5 DEF OrderedList, InOrder, l

LEMMA StepOutputs ==
  ASSUME NEW step \in StepSet
  PROVE  /\ StepOutput(step) = Shown(step.fluent) \o Shown(step.action)
         /\ Shown(step.fluent) \in Sorted("fluent") /\ Shown(step.action) \in Sorted("action")
<1> DEFINE f == Shown(step.fluent)
           a == Shown(step.action)
<1>1. /\ step.fluent \in Sorted("fluent") /\ step.action \in Sorted("action")
      /\ step.extFluent \in Sorted("fluent") /\ step.extFluent = <<>>
      /\ step.extAction \in Sorted("action") /\ step.extAction = <<>>
  BY EmptyIsSorted DEF StepSet
<1>2. /\ f \in Sorted("fluent") /\ a \in Sorted("action")
      /\ Shown(step.extFluent) = <<>> /\ Shown(step.extAction) = <<>>
  BY <1>1, ShownIsSorted
<1>3. StepOutput(step) = IF SeparateActions THEN f \o <<>> \o <<>> \o a \o <<>>
                         ELSE f \o a \o <<>> \o <<>> \o <<>>
  BY <1>2 DEF StepOutput
<1> HIDE DEF f, a
<1>4. f \in Seq(Predicate) /\ a \in Seq(Predicate)
  BY <1>2 DEF Sorted
<1>5. \A l \in Seq(Predicate) : l \o <<>> = l
  BY ConcatEmptySeq
<1>6. f \o a \in Seq(Predicate)
  BY <1>4
<1>7. StepOutput(step) = f \o a
  BY <1>3, <1>4, <1>5, <1>6
<1> QED BY <1>2, <1>7 DEF f, a

LEMMA StepIsOrdered ==
  ASSUME NEW step \in StepSet
  PROVE  StepOutput(step) \in OrderedList
  BY StepOutputs, FluentsThenActions

-----------------------------------------------------------------------------
(* What is printed shows what the path holds. *)

\* What a mask shows of a list: each predicate once, if it was there once.
LEMMA ShownSays ==
  ASSUME NEW list \in Seq(Predicate), IsInjective(list), NEW r, r = Shown(list)
  PROVE  /\ r \in Seq(Predicate) /\ IsInjective(r)
         /\ ToSet(r) = {p \in ToSet(list) : p.sign \in ShowMask}
<1>1. r \in Seq(Predicate) /\ \E f : Picks(f, r, list, Visible(list))
  BY ShownOfList
<1>2. PICK f : Picks(f, r, list, Visible(list))
  BY <1>1
<1>3. DOMAIN list = 1..Len(list) /\ Len(list) \in Nat /\ DOMAIN r = 1..Len(r) /\ Len(r) \in Nat
  BY <1>1
<1>4. /\ \A j \in 1..Len(r) : f[j] \in 1..Len(list) /\ f[j] \in Visible(list) /\ r[j] = list[f[j]]
      /\ \A j, k \in 1..Len(r) : j < k => f[j] < f[k]
      /\ \A i \in 1..Len(list) : i \in Visible(list) => \E j \in 1..Len(r) : f[j] = i
  BY <1>2 DEF Picks
<1>5. \A i \in 1..Len(list) : i \in Visible(list) <=> list[i].sign \in ShowMask
  BY <1>3 DEF Visible
<1>6. ASSUME NEW j \in 1..Len(r), NEW k \in 1..Len(r), r[j] = r[k] PROVE j = k
  <2>1. f[j] = f[k]
    BY <1>3, <1>4, <1>6 DEF IsInjective
  <2>2. f[j] \in Nat /\ f[k] \in Nat /\ ~(j < k) /\ ~(k < j)
    BY <1>3, <1>4, <2>1
  <2> QED BY <1>3, <2>2
<1>7. ASSUME NEW p \in ToSet(r) PROVE p \in ToSet(list) /\ p.sign \in ShowMask
  <2>1. PICK j \in 1..Len(r) : p = r[j]
    BY <1>3, <1>7 DEF ToSet
  <2> QED BY <1>3, <1>4, <1>5, <2>1 DEF ToSet
<1>8. ASSUME NEW p \in ToSet(list), p.sign \in ShowMask PROVE p \in ToSet(r)
  <2>1. PICK i \in 1..Len(list) : p = list[i]
    BY <1>3, <1>8 DEF ToSet
  <2>2. PICK j \in 1..Len(r) : f[j] = i
    BY <1>4, <1>5, <1>8, <2>1
  <2> QED BY <1>3, <1>4, <2>1, <2>2 DEF ToSet
<1> QED BY <1>1, <1>3, <1>6, <1>7, <1>8 DEF IsInjective

\* A step says what it holds.
LEMMA StepSays ==
  ASSUME NEW step \in StepSet, NEW answer \in Seq(Predicate), NEW time,
         HoldsStep(step, AtTime(ToSet(answer), time))
  PROVE  Says(StepOutput(step), answer, time)
<1> DEFINE f == Shown(step.fluent)
           a == Shown(step.action)
           l == StepOutput(step)
           H == AtTime(ToSet(answer), time)
<1>1. l = f \o a /\ f \in Sorted("fluent") /\ a \in Sorted("action")
  BY StepOutputs
<1>2. step.fluent \in Seq(Predicate) /\ step.action \in Seq(Predicate)
  BY DEF StepSet, Sorted
<1>3. /\ f \in Seq(Predicate) /\ IsInjective(f)
      /\ ToSet(f) = {p \in OfType(H, "fluent") : p.sign \in ShowMask}
  BY <1>2, ShownSays DEF HoldsStep
<1>4. /\ a \in Seq(Predicate) /\ IsInjective(a)
      /\ ToSet(a) = {p \in OfType(H, "action") : p.sign \in ShowMask}
  BY <1>2, ShownSays DEF HoldsStep
<1> HIDE DEF f, a, l, H
<1>5. /\ DOMAIN f = 1..Len(f) /\ Len(f) \in Nat /\ DOMAIN a = 1..Len(a) /\ Len(a) \in Nat
      /\ DOMAIN l = 1..(Len(f) + Len(a))
      /\ \A i \in 1..(Len(f) + Len(a)) : l[i] = IF i <= Len(f) THEN f[i] ELSE a[i - Len(f)]
  <2>1. l \in Seq(Predicate) /\ Len(l) = Len(f) + Len(a)
    BY <1>1, <1>3, <1>4, ConcatProperties
  <2> QED BY <1>1, <1>3, <1>4, <2>1, ConcatProperties
<1>6. \A i \in DOMAIN l : \/ i \in 1..Len(f) /\ l[i] = f[i]
                          \/ i > Len(f) /\ i - Len(f) \in 1..Len(a) /\ l[i] = a[i - Len(f)]
  BY <1>5
<1>7. /\ \A i \in 1..Len(f) : ConstType(f[i]) = "fluent"
      /\ \A i \in 1..Len(a) : ConstType(a[i]) = "action"
  BY <1>1 DEF Sorted
<1>8. IsInjective(l)
  <2> SUFFICES ASSUME NEW i \in DOMAIN l, NEW j \in DOMAIN l, l[i] = l[j] PROVE i = j
    BY DEF IsInjective
  <2>1. CASE i \in 1..Len(f) /\ l[i] = f[i] /\ j \in 1..Len(f) /\ l[j] = f[j]
    BY <1>3, <1>5, <2>1 DEF IsInjective
  <2>2. CASE /\ i > Len(f) /\ i - Len(f) \in 1..Len(a) /\ l[i] = a[i - Len(f)]
             /\ j > Len(f) /\ j - Len(f) \in 1..Len(a) /\ l[j] = a[j - Len(f)]
    <3>1. i - Len(f) = j - Len(f)
      BY <1>4, <1>5, <2>2 DEF IsInjective
    <3> QED BY <1>5, <3>1
  <2>3. CASE /\ i \in 1..Len(f) /\ l[i] = f[i]
             /\ j > Len(f) /\ j - Len(f) \in 1..Len(a) /\ l[j] = a[j - Len(f)]
    BY <1>7, <2>3
  <2>4. CASE /\ j \in 1..Len(f) /\ l[j] = f[j]
             /\ i > Len(f) /\ i - Len(f) \in 1..Len(a) /\ l[i] = a[i - Len(f)]
    BY <1>7, <2>4
  <2> QED BY <1>6, <2>1, <2>2, <2>3, <2>4
<1>9. ToSet(l) = ToSet(f) \cup ToSet(a)
  <2>1. ASSUME NEW p \in ToSet(l) PROVE p \in ToSet(f) \cup ToSet(a)
    <3>1. PICK i \in DOMAIN l : p = l[i]
      BY <2>1 DEF ToSet
    <3> QED BY <1>5, <1>6, <3>1 DEF ToSet
  <2>2. ASSUME NEW p \in ToSet(f) PROVE p \in ToSet(l)
    <3>1. PICK i \in 1..Len(f) : p = f[i]
      BY <1>5, <2>2 DEF ToSet
    <3>2. i \in DOMAIN l /\ l[i] = p
      BY <1>5, <3>1
    <3> QED BY <3>2 DEF ToSet
  <2>3. ASSUME NEW p \in ToSet(a) PROVE p \in ToSet(l)
    <3>1. PICK i \in 1..Len(a) : p = a[i]
      BY <1>5, <2>3 DEF ToSet
    <3>2. i + Len(f) \in DOMAIN l /\ ~(i + Len(f) <= Len(f)) /\ (i + Len(f)) - Len(f) = i
      BY <1>5, <3>1
    <3>3. l[i + Len(f)] = p
      BY <1>5, <3>1, <3>2
    <3> QED BY <3>2, <3>3 DEF ToSet
  <2> QED BY <2>1, <2>2, <2>3
<1>10. \A p \in H : ConstType(p) \in {"fluent", "action"}
  <2>1. \A p \in H : p \in Predicate
    BY DEF H, AtTime, ToSet
  <2> QED BY <2>1, PredicateType
<1>11. ToSet(l) = {p \in H : p.sign \in ShowMask}
  BY <1>3, <1>4, <1>9, <1>10 DEF OfType
<1>12. {p \in H : p.sign \in ShowMask} =
         {answer[i] : i \in {i \in Visible(answer) : answer[i].time = time}}
  BY DEF H, AtTime, ToSet, Visible
<1> QED BY <1>8, <1>11, <1>12 DEF Says, l

\* A path that holds an answer shows it.
LEMMA PathShows ==
  ASSUME NEW path \in PathSet, NEW answer \in Seq(Predicate), HoldsPath(path, ToSet(answer))
  PROVE  Shows(PathOutput(path), answer)
<1> DEFINE N == Len(path.steps)
           o == PathOutput(path)
<1>1. /\ path.timeless \in StepSet /\ path.steps \in Seq(StepSet) /\ N \in Nat
      /\ DOMAIN path.steps = 1..N /\ \A t \in 1..N : path.steps[t] \in StepSet
  BY DEF PathSet
<1>2. /\ DOMAIN answer = 1..Len(answer)
      /\ \A i \in DOMAIN answer : answer[i] \in Predicate /\ answer[i] \in ToSet(answer)
      /\ \A p \in ToSet(answer) : \E i \in DOMAIN answer : p = answer[i]
  BY DEF ToSet
<1>3. /\ o.timeless = IF path.timeless.constants = <<>> THEN <<>> ELSE <<StepOutput(path.timeless)>>
      /\ DOMAIN o.steps = 1..N /\ \A t \in 1..N : o.steps[t] = StepOutput(path.steps[t])
  BY <1>1 DEF PathOutput
<1> HIDE DEF o
<1>4. \A t \in 1..N : Says(o.steps[t], answer, t - 1)
  BY <1>1, <1>3, StepSays DEF HoldsPath
<1>5. Says(StepOutput(path.timeless), answer, Timeless)
  BY <1>1, StepSays DEF HoldsPath
<1>6. path.timeless.constants = <<>> <=> AtTime(ToSet(answer), Timeless) = {}
  BY DEF HoldsPath, HoldsStep
<1>7. DOMAIN o.steps = {t + 1 : t \in UNION {0..t : t \in Times(answer)}}
  <2>1. \A t \in Times(answer) : t \in Nat /\ t < N
    <3>1. ASSUME NEW t \in Times(answer) PROVE t \in Nat /\ t < N
      <4>1. PICK i \in DOMAIN answer : t = answer[i].time /\ t # Timeless
        BY <3>1 DEF Times
      <4>2. answer[i].time < N /\ answer[i].time \in Nat
        BY <1>2, <4>1, PredicateType DEF HoldsPath
      <4> QED BY <4>1, <4>2
    <3> QED BY <3>1
  <2>2. N # 0 => N - 1 \in Times(answer)
    <3>1. ASSUME N # 0 PROVE N - 1 \in Times(answer)
      <4>1. PICK p \in ToSet(answer) : p.time # Timeless /\ p.time = N - 1
        BY <3>1 DEF HoldsPath
      <4>2. PICK i \in DOMAIN answer : p = answer[i]
        BY <1>2
      <4> QED BY <4>1, <4>2 DEF Times
    <3> QED BY <3>1
  <2>3. ASSUME NEW n \in 1..N PROVE n \in {t + 1 : t \in UNION {0..t : t \in Times(answer)}}
    <3>1. N - 1 \in Times(answer) /\ n - 1 \in 0..(N - 1) /\ (n - 1) + 1 = n
      BY <1>1, <2>2
    <3>2. n - 1 \in UNION {0..t : t \in Times(answer)}
      BY <3>1
    <3> QED BY <3>1, <3>2
  <2>4. ASSUME NEW n \in {t + 1 : t \in UNION {0..t : t \in Times(answer)}} PROVE n \in 1..N
    <3>1. PICK u \in Times(answer) : \E t \in 0..u : n = t + 1
      BY <2>4
    <3>2. u \in Nat /\ u < N
      BY <2>1
    <3> QED BY <1>1, <3>1, <3>2
  <2> QED BY <1>3, <2>3, <2>4
<1>8. CASE path.timeless.constants = <<>>
  <2>1. o.timeless = <<>>
    BY <1>3, <1>8
  <2>2. \A i \in DOMAIN answer : answer[i].time # Timeless
    BY <1>2, <1>6, <1>8 DEF AtTime
  <2>3. \A i \in DOMAIN o.timeless : Says(o.timeless[i], answer, Timeless)
    BY <2>1
  <2>4. \A t \in DOMAIN o.steps : Says(o.steps[t], answer, t - 1)
    BY <1>3, <1>4
  <2> QED BY <1>7, <2>2, <2>3, <2>4 DEF Shows, o
<1>9. CASE path.timeless.constants # <<>>
  <2>1. o.timeless = <<StepOutput(path.timeless)>>
    BY <1>3, <1>9
  <2>2. o.timeless # <<>>
    BY <2>1
  <2>3. \A i \in DOMAIN o.timeless : Says(o.timeless[i], answer, Timeless)
    <3>1. \A i \in DOMAIN o.timeless : o.timeless[i] = StepOutput(path.timeless)
      BY <2>1
    <3> QED BY <1>5, <3>1
  <2>4. \A t \in DOMAIN o.steps : Says(o.steps[t], answer, t - 1)
    BY <1>3, <1>4
  <2> QED BY <1>7, <2>2, <2>3, <2>4 DEF Shows, o
<1> QED BY <1>8, <1>9

\* A line of predicates is read whole.
LEMMA LineOfPredicates ==
  ASSUME NEW line \in Seq(Piece), \A p \in ToSet(line) : p.is = "predicate"
  PROVE  Predicates(line) = line /\ line \in Seq(Predicate)
<1> DEFINE I == {i \in 1..Len(line) : NoPredicate(line[i])}
<1>1. DOMAIN line = 1..Len(line) /\ \A i \in 1..Len(line) : line[i].is = "predicate" /\ line[i] \in Piece
  BY DEF ToSet
<1>2. I = {}
  BY <1>1 DEF NoPredicate
<1>3. NotPredicateAt(line) = 0
  BY <1>2 DEF NotPredicateAt, SelectInSeq
<1>4. Read(line) = line
  BY <1>3 DEF Read
<1>5. Predicates(line) =
        [i \in DOMAIN line |-> IF line[i].is = "predicate" THEN line[i] ELSE Bare]
  BY <1>4 DEF Predicates, Read, NotPredicateAt, SelectInSeq
<1>6. Predicates(line) = [i \in DOMAIN line |-> line[i]]
  BY <1>1, <1>5
<1>7. \A i \in 1..Len(line) : line[i] \in Predicate
  BY <1>1 DEF Predicate
<1>8. [i \in DOMAIN line |-> line[i]] = line /\ line \in Seq(Predicate)
  BY <1>1, <1>7
<1> QED BY <1>6, <1>8

\* So a text whose first line is an answer makes a path that shows it, and the
\* bridge displays it if it has steps.
LEMMA AnswerShown ==
  ASSUME NEW s \in Seq(Piece), NEW holds \in Seq(Piece), Line(s) = holds,
         IsInjective(holds), \A p \in ToSet(holds) : p.is = "predicate"
  PROVE  /\ Shows(PathOutput(Path(s)), holds) /\ PathOutput(Path(s)).what = "path"
         /\ (\E p \in ToSet(holds) : p.time # Timeless) => Displayed(s) = <<PathOutput(Path(s))>>
<1>1. Predicates(holds) = holds /\ holds \in Seq(Predicate)
  BY LineOfPredicates
<1>2. HoldsPath(Path(s), ToSet(holds)) /\ Path(s) \in PathSet
  <2>1. holds = Predicates(Line(s))
    BY <1>1
  <2> QED BY <2>1, PathHolds, PathOfText
<1>3. Shows(PathOutput(Path(s)), holds)
  BY <1>1, <1>2, PathShows
<1>4. ASSUME NEW p \in ToSet(holds), p.time # Timeless PROVE Path(s).steps # <<>>
  <2>1. p.time < Len(Path(s).steps) /\ p \in Predicate
    BY <1>1, <1>2, <1>4 DEF HoldsPath, ToSet
  <2>2. p.time \in Nat
    BY <1>4, <2>1, PredicateType
  <2>3. Len(Path(s).steps) # 0
    BY <1>2, <2>1, <2>2 DEF PathSet
  <2> QED BY <2>3
<1> QED BY <1>3, <1>4 DEF Displayed, PathOutput

-----------------------------------------------------------------------------
(* What is printed is in order. *)

PathItem == [what : {"path"}, timeless : Seq(OrderedList), steps : Seq(OrderedList)]
LineItem ==
  [what : {"line"}, line : Seq(Piece \cup {Word("Solution:")} \cup {Word(p.is) : p \in Piece})]

LEMMA PathIsItem ==
  ASSUME NEW path \in PathSet
  PROVE  PathOutput(path) \in PathItem
<1>1. path.timeless \in StepSet /\ path.steps \in Seq(StepSet)
  BY DEF PathSet
<1>2. StepOutput(path.timeless) \in OrderedList
  BY <1>1, StepIsOrdered
<1>3. <<StepOutput(path.timeless)>> \in Seq(OrderedList) /\ <<>> \in Seq(OrderedList)
  BY <1>2
<1>4. DOMAIN path.steps = 1..Len(path.steps) /\ Len(path.steps) \in Nat
      /\ \A t \in 1..Len(path.steps) : path.steps[t] \in StepSet
  BY <1>1
<1>5. \A t \in 1..Len(path.steps) : StepOutput(path.steps[t]) \in OrderedList
  BY <1>4, StepIsOrdered
<1>6. [t \in DOMAIN path.steps |-> StepOutput(path.steps[t])] \in [1..Len(path.steps) -> OrderedList]
  BY <1>4, <1>5
<1>7. [t \in DOMAIN path.steps |-> StepOutput(path.steps[t])] \in Seq(OrderedList)
  BY <1>4, <1>6
<1> DEFINE steps == [t \in DOMAIN path.steps |-> StepOutput(path.steps[t])]
           timeless == IF path.timeless.constants = <<>> THEN <<>> ELSE <<StepOutput(path.timeless)>>
<1>8. PathOutput(path) = [what |-> "path", timeless |-> timeless, steps |-> steps]
  BY DEF PathOutput
<1>9. timeless \in Seq(OrderedList)
  BY <1>3
<1>10. steps \in Seq(OrderedList)
  BY <1>7
<1> HIDE DEF steps, timeless
<1> QED BY <1>8, <1>9, <1>10 DEF PathItem

LEMMA TextIsItem ==
  ASSUME NEW s \in Seq(Piece)
  PROVE  PathOutput(Path(s)) \in PathItem /\ Displayed(s) \in Seq(PathItem)
<1>1. PathOutput(Path(s)) \in PathItem
  BY PathOfText, PathIsItem
<1>2. <<PathOutput(Path(s))>> \in Seq(PathItem) /\ <<>> \in Seq(PathItem)
  BY <1>1
<1> QED BY <1>1, <1>2 DEF Displayed

\* Lines copied, and paths whose steps are in order.
OutInv == TypeInv /\ out \in Seq(LineItem \cup PathItem)

LEMMA OutStep == OutInv /\ [Next]_vars => OutInv'
<1> DEFINE Item == LineItem \cup PathItem
           Copy == Piece \cup {Word("Solution:")} \cup {Word(p.is) : p \in Piece}
<1> SUFFICES ASSUME OutInv, [Next]_vars PROVE OutInv'
  OBVIOUS
<1>0. TypeInv /\ TypeInv' /\ text \in Seq(Piece) /\ mOclingoOut \in Seq(Piece) /\ out \in Seq(Item)
  BY TypeStep DEF OutInv, TypeInv
<1>1. CASE ReadWord \/ SkipHeader \/ UNCHANGED vars
  <2>1. out' = out
    BY <1>1, ReadsRest DEF SkipHeader, vars
  <2> QED BY <1>0, <2>1 DEF OutInv
<1>a. Line(text) \in Seq(Piece) /\ Lines(text) \in Seq(Piece)
  BY <1>0, LinesOfTexts
<1>b. \A w : Word(w) \in Copy => Copied(<<Word(w)>> \o Line(text)) \in Item
  <2> SUFFICES ASSUME NEW w, Word(w) \in Copy PROVE Copied(<<Word(w)>> \o Line(text)) \in LineItem
    OBVIOUS
  <2>1. Line(text) \in Seq(Copy)
    BY <1>a
  <2>2. <<Word(w)>> \in Seq(Copy)
    OBVIOUS
  <2> HIDE DEF Copy
  <2>3. <<Word(w)>> \o Line(text) \in Seq(Copy)
    BY <2>1, <2>2
  <2> QED BY <2>3 DEF Copied, LineItem, Copy
<1> HIDE DEF Item, Copy
<1>2. CASE ShowAnswer
  <2>1. out' = (IF word = "Answer:" THEN Append(out, Copied(<<Word("Solution:")>> \o Line(text)))
                ELSE out) \o <<PathOutput(Path(Lines(text)))>>
    BY <1>2 DEF ShowAnswer
  <2>2. PathOutput(Path(Lines(text))) \in Item
    BY <1>a, TextIsItem DEF Item
  <2>3. Word("Solution:") \in Copy
    BY DEF Copy
  <2>4. Copied(<<Word("Solution:")>> \o Line(text)) \in Item
    BY <1>b, <2>3
  <2> DEFINE c == Copied(<<Word("Solution:")>> \o Line(text))
             o == PathOutput(Path(Lines(text)))
             before == IF word = "Answer:" THEN Append(out, c) ELSE out
  <2>5. out' = before \o <<o>>
    BY <2>1
  <2>6. c \in Item /\ o \in Item
    BY <2>2, <2>4
  <2> HIDE DEF c, o
  <2>7. before \in Seq(Item)
    BY <1>0, <2>6
  <2> HIDE DEF before
  <2>8. out' \in Seq(Item)
    BY <2>5, <2>6, <2>7
  <2> QED BY <1>0, <2>8 DEF OutInv, Item
<1>3. CASE CopyLine
  <2>1. out' = Append(out, Copied(<<Word(word)>> \o Line(text))) /\ word # ""
    BY <1>3 DEF CopyLine
  <2>2. Word(word) \in Copy
    <3>1. PICK p \in Piece : word = p.is
      BY <1>0, <2>1 DEF TypeInv
    <3> QED BY <3>1, Zenon DEF Copy
  <2>3. Copied(<<Word(word)>> \o Line(text)) \in Item
    BY <1>b, <2>2
  <2> DEFINE c == Copied(<<Word(word)>> \o Line(text))
  <2>a. out' = Append(out, c) /\ c \in Item
    BY <2>1, <2>3
  <2> HIDE DEF c
  <2>4. out' \in Seq(Item)
    BY <1>0, <2>a
  <2> QED BY <1>0, <2>4 DEF OutInv, Item
<1>4. CASE PacketArrived
  <2>1. PICK n \in 1..MaxPacket : n <= Len(text) /\ Packet(SubSeq(text, 1, n))
    BY <1>4 DEF PacketArrived
  <2> DEFINE packet == SubSeq(text, 1, n)
  <2>2. n \in Nat /\ n > 0 /\ Len(text) \in Nat
    BY <1>0, AnswersAssumption
  <2>3. packet \in Seq(Piece)
    BY <1>0, <2>1, <2>2, Parts
  <2>4. Packet(packet)
    BY <2>1
  <2> HIDE DEF packet
  <2>5. /\ Append(mOclingoOut, Newline) \in Seq(Piece) /\ Finished(packet) \in Seq(Piece)
    BY <1>0, <2>3, PacketParts
  <2>6. Displayed(Append(mOclingoOut, Newline)) \in Seq(PathItem) /\ Displayed(Finished(packet)) \in Seq(PathItem)
    BY <2>5, TextIsItem
  <2>7. \A l \in Seq(PathItem) : l \in Seq(Item)
    BY DEF Item
  <2>8. Flushed(packet) \in Seq(Item) /\ Displayed(Finished(packet)) \in Seq(Item)
    <3>1. <<>> \in Seq(Item)
      OBVIOUS
    <3> QED BY <2>6, <2>7, <3>1 DEF Flushed
  <2>9. \A a, b, c \in Seq(Item) : a \o b \in Seq(Item) /\ a \o b \o c \in Seq(Item)
    OBVIOUS
  <2>10. out' \in {out \o Flushed(packet), out \o Flushed(packet) \o Displayed(Finished(packet))}
    BY <2>4, PacketTaken
  <2>11. out' \in Seq(Item)
    BY <1>0, <2>8, <2>9, <2>10
  <2> QED BY <1>0, <2>11 DEF OutInv, Item
<1> QED BY <1>1, <1>2, <1>3, <1>4, Zenon DEF Next, Done

\* In whichever order the solver gives its predicates, each step is printed in
\* their order, fluents before actions.  That a list of one type stays sorted
\* under insertion, that a path only has such lists, by induction over the line,
\* and that hiding some of a list keeps the order of the rest, by induction over
\* the list, make every path that is ever printed one of ordered steps.
THEOREM AlwaysListedInOrder == Spec => []ListedInOrder
<1>1. Init => OutInv
  <2>1. <<>> \in Seq(LineItem \cup PathItem)
    OBVIOUS
  <2> QED BY <2>1, TypeInit, Zenon DEF Init, OutInv
<1>2. OutInv => ListedInOrder
  <2> SUFFICES ASSUME OutInv, NEW i \in DOMAIN out, out[i].what = "path", NEW t \in DOMAIN out[i].steps
               PROVE  InOrder(out[i].steps[t])
    BY DEF ListedInOrder
  <2>1. out[i] \in LineItem \cup PathItem
    BY DEF OutInv
  <2>2. out[i] \in PathItem
    BY <2>1 DEF LineItem
  <2>3. out[i].steps \in Seq(OrderedList)
    BY <2>2 DEF PathItem
  <2>4. out[i].steps[t] \in OrderedList
    <3> DEFINE l == out[i].steps
    <3> HIDE DEF l
    <3>1. l \in Seq(OrderedList) /\ t \in DOMAIN l
      BY <2>3 DEF l
    <3>2. l[t] \in OrderedList
      BY <3>1
    <3> QED BY <3>2 DEF l
  <2> QED BY <2>4 DEF OrderedList
<1> QED BY <1>1, <1>2, OutStep, PTL DEF Spec

-----------------------------------------------------------------------------
(* What as2transition shows. *)

Run == [answered : BOOLEAN, holds : Seq(Piece)]

LEMMA RunsOf ==
  ASSUME NEW r \in Runs
  PROVE  /\ r \in Seq(Run) /\ DOMAIN r = 1..Len(r) /\ Len(r) \in Nat
         /\ \A i \in 1..Len(r) : /\ r[i] \in Run /\ IsInjective(r[i].holds)
                                 /\ \A p \in ToSet(r[i].holds) : p.is = "predicate"
<1>1. r \in Seq(Run)
  BY TextsAssumption DEF Run
<1>2. DOMAIN r = 1..Len(r) /\ Len(r) \in Nat /\ \A i \in 1..Len(r) : r[i] \in Run
  BY <1>1
<1> QED BY <1>1, <1>2, TextsAssumption

LEMMA AnswersOf ==
  ASSUME NEW r \in Runs, NEW a, a = Answered(r)
  PROVE  /\ a \in Seq(Run) /\ DOMAIN a = 1..Len(a) /\ Len(a) \in Nat
         /\ \A i \in 1..Len(a) : /\ a[i] \in Run /\ a[i].answered /\ IsInjective(a[i].holds)
                                 /\ \A p \in ToSet(a[i].holds) : p.is = "predicate"
<1> DEFINE I == {i \in DOMAIN r : r[i].answered}
<1>1. r \in Seq(Run)
  BY RunsOf
<1>2. a = Only(r, I)
  BY DEF Answered
<1>3. a \in Seq(Run) /\ \E f : Picks(f, a, r, I)
  <2> HIDE DEF I
  <2> QED BY <1>1, <1>2, OnlyPicks
<1>4. DOMAIN a = 1..Len(a) /\ Len(a) \in Nat /\ \A i \in 1..Len(a) : a[i] \in Run
  BY <1>3
<1>5. PICK f : Picks(f, a, r, I)
  BY <1>3
<1>6. \A i \in 1..Len(a) : f[i] \in 1..Len(r) /\ f[i] \in I /\ a[i] = r[f[i]]
  BY <1>5 DEF Picks
<1>7. \A i \in 1..Len(a) : /\ a[i].answered /\ IsInjective(a[i].holds)
                           /\ \A p \in ToSet(a[i].holds) : p.is = "predicate"
  BY <1>6, RunsOf
<1> QED BY <1>3, <1>4, <1>7

\* The paths among what was printed.
PathsOf(o) == Only(o, {i \in DOMAIN o : o[i].what = "path"})

LEMMA PathsNext ==
  ASSUME NEW S, NEW o \in Seq(S), NEW x \in S
  PROVE  PathsOf(Append(o, x)) = IF x.what = "path" THEN Append(PathsOf(o), x) ELSE PathsOf(o)
<1> DEFINE more == Append(o, x)
           I == {i \in DOMAIN o : o[i].what = "path"}
           J == {i \in DOMAIN more : more[i].what = "path"}
<1>1. /\ more \in Seq(S) /\ DOMAIN more = 1..(Len(o) + 1) /\ more[Len(o) + 1] = x
      /\ Len(o) \in Nat /\ DOMAIN o = 1..Len(o) /\ \A n \in 1..Len(o) : more[n] = o[n]
  OBVIOUS
<1> HIDE DEF more
<1>2. \A n \in 1..Len(o) : n \in 1..(Len(o) + 1)
  BY <1>1
<1>3. \A n \in 1..Len(o) : n \in I <=> n \in J
  BY <1>1, <1>2
<1>4. Len(o) + 1 \in J <=> x.what = "path"
  BY <1>1
<1> HIDE DEF I, J
<1>5. Only(Append(o, x), J) = IF Len(o) + 1 \in J THEN Append(Only(o, I), x) ELSE Only(o, I)
  BY <1>3, OnlyNext
<1> QED BY <1>4, <1>5 DEF PathsOf, I, J, more

\* They show the first k of the answers.
ShownSoFar(o, answers, k) ==
  Len(PathsOf(o)) = k /\ \A i \in 1..k : Shows(PathsOf(o)[i], answers[i].holds)

LEMMA OneMoreShown ==
  ASSUME NEW S, NEW o \in Seq(S), NEW x \in S, NEW answers, NEW k \in Nat,
         ShownSoFar(o, answers, k)
  PROVE  /\ x.what # "path" => ShownSoFar(Append(o, x), answers, k)
         /\ x.what = "path" /\ Shows(x, answers[k + 1].holds) => ShownSoFar(Append(o, x), answers, k + 1)
<1> DEFINE p == PathsOf(o)
           q == PathsOf(Append(o, x))
<1>1. q = IF x.what = "path" THEN Append(p, x) ELSE p
  BY PathsNext
<1>2. p \in Seq(S)
  BY OnlyPicks DEF PathsOf
<1>3. Len(p) = k /\ \A i \in 1..k : Shows(p[i], answers[i].holds)
  BY DEF ShownSoFar
<1> HIDE DEF p, q
<1>4. ASSUME x.what # "path" PROVE Len(q) = k /\ \A i \in 1..k : Shows(q[i], answers[i].holds)
  <2>1. q = p
    BY <1>1, <1>4
  <2> QED BY <1>3, <2>1
<1>5. ASSUME x.what = "path", Shows(x, answers[k + 1].holds)
      PROVE  Len(q) = k + 1 /\ \A i \in 1..(k + 1) : Shows(q[i], answers[i].holds)
  <2>1. q = Append(p, x)
    BY <1>1, <1>5
  <2>2. Len(q) = k + 1 /\ q[k + 1] = x /\ \A i \in 1..k : q[i] = p[i]
    BY <1>2, <1>3, <2>1
  <2>3. \A i \in 1..(k + 1) : i = k + 1 \/ i \in 1..k
    OBVIOUS
  <2> QED BY <1>3, <1>5, <2>2, <2>3
<1> QED BY <1>4, <1>5 DEF ShownSoFar, q

\* A part of a part of a text.
LEMMA PartOfPart ==
  ASSUME NEW S, NEW s \in Seq(S), NEW a \in Nat, NEW b \in Nat, a > 0, b <= Len(s), a <= b + 1,
         NEW c \in Nat, NEW d \in Nat, c > 0, a + d - 1 <= b
  PROVE  SubSeq(SubSeq(s, a, b), c, d) = SubSeq(s, a + c - 1, a + d - 1)
<1> DEFINE e == SubSeq(s, a, b)
           l == SubSeq(e, c, d)
           r == SubSeq(s, a + c - 1, a + d - 1)
           N == IF c <= d THEN d - c + 1 ELSE 0
<1>1. e \in Seq(S) /\ Len(e) = b - a + 1 /\ \A i \in 1..Len(e) : e[i] = s[a + i - 1]
  <2>1. /\ e \in Seq(S) /\ Len(e) = IF a <= b THEN b - a + 1 ELSE 0
        /\ \A i \in 1..Len(e) : e[i] = s[a + i - 1]
    BY Parts
  <2> QED BY <2>1
<1>2. Len(s) \in Nat /\ d <= Len(e)
  BY <1>1
<1> HIDE DEF e
<1>3. l \in Seq(S) /\ Len(l) = N /\ \A i \in 1..Len(l) : l[i] = e[c + i - 1] /\ c + i - 1 \in 1..Len(e)
  BY <1>1, <1>2, Parts
<1>4. r \in Seq(S) /\ Len(r) = N /\ \A i \in 1..Len(r) : r[i] = s[(a + c - 1) + i - 1]
  <2> DEFINE f == a + c - 1
             g == a + d - 1
  <2>1. f \in Nat /\ f > 0 /\ g \in Int /\ g <= Len(s)
    BY <1>2
  <2>2. CASE g \in Nat
    <3> HIDE DEF f, g
    <3>1. /\ SubSeq(s, f, g) \in Seq(S)
          /\ Len(SubSeq(s, f, g)) = IF f <= g THEN g - f + 1 ELSE 0
          /\ \A i \in 1..Len(SubSeq(s, f, g)) :
               SubSeq(s, f, g)[i] = s[f + i - 1] /\ f + i - 1 \in f..g /\ f + i - 1 \in 1..Len(s)
      BY <2>1, <2>2, Parts, Zenon
    <3>2. (IF f <= g THEN g - f + 1 ELSE 0) = N
      BY DEF f, g
    <3> QED BY <3>1, <3>2 DEF f, g
  <2>3. CASE g \notin Nat
    BY <2>1, <2>3
  <2> QED BY <2>2, <2>3
<1>5. N \in Nat
  OBVIOUS
<1>6. ASSUME NEW i \in 1..N PROVE l[i] = r[i]
  <2>1. l[i] = e[c + i - 1] /\ c + i - 1 \in 1..Len(e) /\ r[i] = s[(a + c - 1) + i - 1]
    BY <1>3, <1>4
  <2>2. e[c + i - 1] = s[a + (c + i - 1) - 1] /\ a + (c + i - 1) - 1 = (a + c - 1) + i - 1
    BY <1>1, <2>1
  <2> QED BY <2>1, <2>2
<1> HIDE DEF l, r, N
<1>7. l = r
  BY <1>3, <1>4, <1>5, <1>6, SeqEqual
<1> QED BY <1>7 DEF l, r, e

\* The end of a text from a on, and the end of its first line.
LEMMA LineEnd ==
  ASSUME NEW s \in Seq(Piece), NEW a \in 1..(Len(s) + 1), NEW e, e = SubSeq(s, a, Len(s))
  PROVE  \E b \in a..(Len(s) + 1) :
           /\ Lines(e) = SubSeq(s, b, Len(s))
           /\ \A i \in a..Len(s) : s[i] = Newline => b <= i + 1
           /\ \A i \in a..(b - 1) : s[i] = Newline \/ s[i] \in ToSet(Line(e))
<1> DEFINE u == Upto(e, {Newline})
           N == Len(s)
<1>1. N \in Nat /\ a \in Nat /\ a > 0 /\ a <= N + 1
  OBVIOUS
<1>2. e \in Seq(Piece) /\ Len(e) = N - a + 1
  BY EndOfText
<1>3. \A i \in 1..Len(e) : e[i] = s[a + i - 1]
  BY <1>1, Parts
<1>4. \A i \in a..N : i - a + 1 \in 1..Len(e) /\ e[i - a + 1] = s[i]
  <2> SUFFICES ASSUME NEW i \in a..N PROVE i - a + 1 \in 1..Len(e) /\ e[i - a + 1] = s[i]
    OBVIOUS
  <2>1. i - a + 1 \in 1..Len(e) /\ a + (i - a + 1) - 1 = i
    BY <1>1, <1>2
  <2> QED BY <1>3, <2>1
<1>5. /\ u \in 0..Len(e)
      /\ u = 0 => \A i \in 1..Len(e) : e[i] \notin {Newline}
      /\ u # 0 => e[u] \in {Newline}
      /\ \A i \in 1..Len(e) : e[i] \in {Newline} => u # 0 /\ u <= i
  BY <1>2, FirstOf
<1>6. CASE u = 0
  <2>1. Lines(e) = <<>> /\ Line(e) = e
    BY <1>6 DEF Lines, After, Line, Before
  <2> HIDE DEF u
  <2>2. SubSeq(s, N + 1, N) = <<>>
    BY <1>1, SubSeqEmpty
  <2>3. N + 1 \in a..(N + 1)
    BY <1>1
  <2>4. \A i \in a..N : s[i] # Newline
    BY <1>4, <1>5, <1>6
  <2>5. \A i \in a..N : s[i] \in ToSet(Line(e))
    <3>1. DOMAIN e = 1..Len(e)
      BY <1>2
    <3> QED BY <1>4, <2>1, <3>1 DEF ToSet
  <2>6. \A i \in a..((N + 1) - 1) : i \in a..N
    BY <1>1
  <2> QED BY <2>1, <2>2, <2>3, <2>4, <2>5, <2>6
<1>7. CASE u # 0
  <2>1. Lines(e) = SubSeq(e, u + 1, Len(e)) /\ Line(e) = SubSeq(e, 1, u - 1)
    BY <1>7 DEF Lines, After, Line, Before
  <2> HIDE DEF u
  <2> DEFINE b == a + u
  <2>2. b \in a..(N + 1) /\ u \in Nat /\ u > 0 /\ u <= Len(e) /\ Len(e) \in Nat
    BY <1>1, <1>2, <1>5, <1>7
  <2>3. SubSeq(e, u + 1, Len(e)) = SubSeq(s, b, N)
    <3>1. /\ u + 1 \in Nat /\ u + 1 > 0 /\ a + Len(e) - 1 = N /\ a + (u + 1) - 1 = b
          /\ a + Len(e) - 1 <= N
      BY <1>1, <1>2, <2>2
    <3>2. SubSeq(SubSeq(s, a, N), u + 1, Len(e)) = SubSeq(s, a + (u + 1) - 1, a + Len(e) - 1)
      BY <1>1, <2>2, <3>1, PartOfPart
    <3> QED BY <3>1, <3>2
  <2>4. ASSUME NEW i \in a..N, s[i] = Newline PROVE b <= i + 1
    <3>1. u <= i - a + 1
      BY <1>4, <1>5, <2>4
    <3> QED BY <1>1, <2>2, <3>1
  <2>5. ASSUME NEW i \in a..(b - 1) PROVE s[i] = Newline \/ s[i] \in ToSet(Line(e))
    <3> DEFINE j == i - a + 1
    <3>1. i \in a..N /\ j \in 1..u
      BY <1>1, <1>2, <2>2
    <3>2. e[j] = s[i]
      BY <1>4, <3>1
    <3>3. CASE j = u
      BY <1>5, <1>7, <3>2, <3>3
    <3>4. CASE j # u
      <4> HIDE DEF j
      <4>1. j \in 1..(u - 1) /\ u - 1 \in Nat /\ u - 1 <= Len(e)
        BY <2>2, <3>1, <3>4
      <4>2. /\ Len(Line(e)) = u - 1 /\ Line(e) \in Seq(Piece)
            /\ \A x \in 1..Len(Line(e)) : Line(e)[x] = e[1 + x - 1]
        <5> DEFINE v == u - 1
        <5>1. v \in Nat /\ v <= Len(e)
          BY <4>1
        <5> HIDE DEF v
        <5>2. /\ SubSeq(e, 1, v) \in Seq(Piece) /\ Len(SubSeq(e, 1, v)) = v
              /\ \A x \in 1..Len(SubSeq(e, 1, v)) : SubSeq(e, 1, v)[x] = e[1 + x - 1]
          BY <1>2, <5>1, FirstPart, Zenon
        <5> QED BY <2>1, <5>2 DEF v
      <4>3. Line(e)[j] = e[j] /\ j \in DOMAIN Line(e)
        BY <4>1, <4>2
      <4> QED BY <3>2, <4>3 DEF ToSet
    <3> QED BY <3>3, <3>4
  <2> QED BY <2>1, <2>2, <2>3, <2>4, <2>5
<1> QED BY <1>6, <1>7

\* The markers of a text, one for each answer.
Marked(t, r, at) ==
  /\ t \in Seq(Piece) /\ Len(t) \in Nat
  /\ \A j \in 1..Len(Answered(r)) :
       /\ at[j] \in 1..Len(t) /\ t[at[j]].is \in Markers /\ at[j] # Len(t)
       /\ at[j] = 1 \/ t[at[j] - 1] = Newline
       /\ Line(Lines(SubSeq(t, at[j] + 1, Len(t)))) = Answered(r)[j].holds
  /\ \A j, k \in 1..Len(Answered(r)) : j < k => at[j] < at[k]
  /\ \A i \in 1..Len(t) : t[i].is \in Markers => \E j \in 1..Len(Answered(r)) : i = at[j]

LEMMA MarkersOf ==
  ASSUME "as2transition" \in Programs, NEW r \in Runs, NEW t \in Texts("as2transition", r)
  PROVE  \E at : Marked(t, r, at)
<1>1. t \in Seq(Piece)
  BY AnswersAssumption
<1>2. PICK at : at \in AnswerPlaces(t, r)
  BY TextsAssumption
<1>3. DOMAIN Answered(r) = 1..Len(Answered(r)) /\ DOMAIN t = 1..Len(t) /\ Len(t) \in Nat
  BY <1>1, AnswersOf
<1>4. /\ at \in [1..Len(Answered(r)) -> 1..Len(t)]
      /\ \A j, k \in 1..Len(Answered(r)) : j < k => at[j] < at[k]
      /\ {i \in 1..Len(t) : t[i].is \in Markers} = {at[k] : k \in 1..Len(Answered(r))}
      /\ \A k \in 1..Len(Answered(r)) :
           Line(Lines(SubSeq(t, at[k] + 1, Len(t)))) = Answered(r)[k].holds
  BY <1>2, <1>3 DEF AnswerPlaces
<1>5. /\ \A j \in 1..Len(Answered(r)) : at[j] \in 1..Len(t) /\ t[at[j]].is \in Markers
      /\ \A i \in 1..Len(t) : t[i].is \in Markers => \E j \in 1..Len(Answered(r)) : i = at[j]
  BY <1>4
<1>6. \A i \in 1..Len(t) : t[i].is \in Markers => i # Len(t) /\ (i = 1 \/ t[i - 1] = Newline)
  BY AnswersAssumption DEF Newline, Word
<1> QED BY <1>1, <1>3, <1>4, <1>5, <1>6 DEF Marked

\* What was shown are the answers whose markers were read; the others' are in the
\* text that is left, but for the one whose marker is the word just read.
ReadUpTo(at, pos, k) ==
  /\ Marked(given, found, at)
  /\ pos \in 1..(Len(given) + 1) /\ text = SubSeq(given, pos, Len(given))
  /\ k \in 0..Len(Answered(found)) /\ ShownSoFar(out, Answered(found), k)
  /\ word # "" => pos > 1 /\ given[pos - 1] # Newline
  /\ word \in Markers => k < Len(Answered(found)) /\ at[k + 1] = pos - 1
  /\ \A j \in 1..Len(Answered(found)) :
       IF j <= k THEN at[j] < pos ELSE (word \in Markers /\ j = k + 1) \/ at[j] >= pos

ReadInv ==
  /\ program = "as2transition" /\ exit = 0 => \E at, pos, k : ReadUpTo(at, pos, k)
  /\ exit # 0 => ShownSoFar(out, Answered(found), Len(Answered(found)))

LEMMA ReadInit == Init => ReadInv
<1> SUFFICES ASSUME Init PROVE ReadInv
  OBVIOUS
<1>1. exit = 0 /\ found \in Runs /\ given \in Texts(program, found) /\ text = given /\ out = <<>>
      /\ word = "" /\ program \in Programs
  BY DEF Init
<1>2. ASSUME program = "as2transition" PROVE \E at, pos, k : ReadUpTo(at, pos, k)
  <2>1. PICK at : Marked(given, found, at)
    BY <1>1, <1>2, MarkersOf
  <2>2. given \in Seq(Piece) /\ Len(given) \in Nat
    BY <2>1 DEF Marked
  <2>3. text = SubSeq(given, 1, Len(given))
    BY <1>1, <2>2, SubSeqFull
  <2>4. ShownSoFar(out, Answered(found), 0)
    <3>1. out \in Seq({})
      <4>1. <<>> \in Seq({})
        BY EmptySeq
      <4> QED BY <1>1, <4>1, Zenon
    <3>2. PICK f : Picks(f, PathsOf(out), out, {i \in DOMAIN out : out[i].what = "path"})
      BY <3>1, OnlyPicks DEF PathsOf
    <3>3. PathsOf(out) \in Seq({})
      BY <3>1, OnlyPicks DEF PathsOf
    <3>4. Len(PathsOf(out)) = 0
      <4>1. Len(PathsOf(out)) \in Nat /\ (Len(PathsOf(out)) # 0 => PathsOf(out)[1] \in {})
        BY <3>3
      <4> QED BY <4>1
    <3> QED BY <3>4 DEF ShownSoFar
  <2>5. Len(Answered(found)) \in Nat
    BY <1>1, AnswersOf
  <2>6. \A j \in 1..Len(Answered(found)) : at[j] >= 1
    BY <2>1, <2>2 DEF Marked
  <2>7. word \notin Markers
    BY <1>1 DEF Markers
  <2>8. ReadUpTo(at, 1, 0)
    <3>1. 1 \in 1..(Len(given) + 1) /\ 0 \in 0..Len(Answered(found))
      BY <2>2, <2>5
    <3>2. \A j \in 1..Len(Answered(found)) : ~(j <= 0)
      BY <2>5
    <3> QED BY <1>1, <2>1, <2>3, <2>4, <2>6, <2>7, <3>1, <3>2, Zenon DEF ReadUpTo
  <2> QED BY <2>8
<1> QED BY <1>1, <1>2 DEF ReadInv

\* Its first word.
LEMMA WordEnd ==
  ASSUME NEW s \in Seq(Piece), NEW a \in 1..(Len(s) + 1), NEW e, e = SubSeq(s, a, Len(s))
  PROVE  \E b \in a..(Len(s) + 1) :
           /\ Rest(e) = SubSeq(s, b, Len(s))
           /\ b <= Len(s) => s[b] # Newline
           /\ \A i \in a..Len(s) : s[i] # Newline => b <= i
<1> DEFINE u == FirstWord(e)
           N == Len(s)
<1>1. N \in Nat /\ a \in Nat /\ a > 0 /\ a <= N + 1
  OBVIOUS
<1>2. e \in Seq(Piece) /\ Len(e) = N - a + 1
  BY EndOfText
<1>3. \A i \in 1..Len(e) : e[i] = s[a + i - 1]
  BY <1>1, Parts
<1>4. \A i \in a..N : i - a + 1 \in 1..Len(e) /\ e[i - a + 1] = s[i]
  <2> SUFFICES ASSUME NEW i \in a..N PROVE i - a + 1 \in 1..Len(e) /\ e[i - a + 1] = s[i]
    OBVIOUS
  <2>1. i - a + 1 \in 1..Len(e) /\ a + (i - a + 1) - 1 = i
    BY <1>1, <1>2
  <2> QED BY <1>3, <2>1
<1>5. /\ u \in 0..Len(e)
      /\ u # 0 => e[u] # Newline
      /\ \A i \in 1..Len(e) : e[i] # Newline => u # 0 /\ u <= i
  BY <1>2, SkipLineEnds
<1>6. CASE u = 0
  <2>1. Rest(e) = <<>>
    BY <1>6 DEF Rest
  <2>2. SubSeq(s, N + 1, N) = <<>> /\ N + 1 \in a..(N + 1) /\ ~(N + 1 <= N)
    BY <1>1, SubSeqEmpty
  <2>3. \A i \in a..N : s[i] = Newline
    BY <1>4, <1>5, <1>6
  <2> QED BY <2>1, <2>2, <2>3
<1>7. CASE u # 0
  <2>1. Rest(e) = SubSeq(e, u, Len(e))
    BY <1>7 DEF Rest
  <2> HIDE DEF u
  <2> DEFINE b == a + u - 1
  <2>2. b \in a..N /\ u \in Nat /\ u > 0 /\ u \in 1..Len(e) /\ Len(e) \in Nat
    BY <1>1, <1>2, <1>5, <1>7
  <2>3. SubSeq(e, u, Len(e)) = SubSeq(s, b, N)
    <3>1. a + Len(e) - 1 = N /\ a + Len(e) - 1 <= N
      BY <1>1, <1>2
    <3>2. SubSeq(SubSeq(s, a, N), u, Len(e)) = SubSeq(s, a + u - 1, a + Len(e) - 1)
      BY <1>1, <2>2, <3>1, PartOfPart
    <3> QED BY <3>1, <3>2
  <2>4. s[b] # Newline
    BY <1>3, <1>5, <1>7, <2>2
  <2>5. ASSUME NEW i \in a..N, s[i] # Newline PROVE b <= i
    <3>1. u <= i - a + 1
      BY <1>4, <1>5, <2>5
    <3> QED BY <1>1, <2>2, <3>1
  <2>6. b \in a..(N + 1)
    BY <1>1, <2>2
  <2> QED BY <2>1, <2>3, <2>4, <2>5, <2>6
<1> QED BY <1>6, <1>7

LEMMA ReadWordReads ==
  ASSUME TypeInv, ReadWord, NEW at, NEW pos, NEW k, ReadUpTo(at, pos, k)
  PROVE  \/ exit' # 0 /\ k = Len(Answered(found))
         \/ exit' = exit /\ \E p : ReadUpTo(at, p, k)'
<1> DEFINE N == Len(given)
           n == Len(Answered(found))
           S == Rest(text)
<1>1. /\ program = "as2transition" /\ exit = 0 /\ word = "" /\ word \notin Markers
      /\ UNCHANGED <<found, given, out, solutionNum>>
  BY ReadsRest DEF Markers
<1>2. /\ Marked(given, found, at) /\ given \in Seq(Piece) /\ N \in Nat
      /\ pos \in 1..(N + 1) /\ text = SubSeq(given, pos, N)
      /\ k \in 0..n /\ ShownSoFar(out, Answered(found), k)
      /\ \A j \in 1..n : IF j <= k THEN at[j] < pos ELSE at[j] >= pos
  BY <1>1 DEF ReadUpTo, Marked
<1>3. /\ n \in Nat
      /\ \A j \in 1..n : at[j] \in 1..N /\ given[at[j]].is \in Markers /\ at[j] # N
      /\ \A i, j \in 1..n : i < j => at[i] < at[j]
      /\ \A i \in 1..N : given[i].is \in Markers => \E j \in 1..n : i = at[j]
  BY <1>2, AnswersOf DEF Marked, TypeInv
<1>4. PICK q \in pos..(N + 1) :
        /\ S = SubSeq(given, q, N)
        /\ q <= N => given[q] # Newline
        /\ \A i \in pos..N : given[i] # Newline => q <= i
  BY <1>2, WordEnd
<1>5. /\ \/ /\ Len(S) <= 1 /\ exit' = IF solutionNum > 0 THEN 101 ELSE 100
         \/ /\ ~(Len(S) <= 1)
            /\ word' = Head(S).is /\ text' = Tail(S) /\ exit' = exit
  BY ReadsRest
<1> HIDE DEF N, n, S
<1>6. q \in Nat /\ q > 0 /\ q <= N + 1 /\ q >= pos
  BY <1>2, <1>4
<1>7. Len(S) = N - q + 1 /\ S \in Seq(Piece)
  <2>1. S = SubSeq(given, q, Len(given)) /\ q \in 1..(Len(given) + 1)
    BY <1>2, <1>4, <1>6 DEF N
  <2> QED BY <1>2, <2>1, EndOfText DEF N
<1>8. ASSUME NEW j \in 1..n, ~(j <= k) PROVE at[j] >= q /\ at[j] < N
  <2>1. at[j] \in 1..N /\ given[at[j]].is \in Markers /\ at[j] # N /\ at[j] >= pos
    BY <1>2, <1>3, <1>8
  <2>2. given[at[j]] # Newline
    BY <2>1, NewlineIsNoMarker
  <2>3. at[j] \in pos..N
    BY <1>2, <2>1
  <2> QED BY <1>2, <1>4, <1>6, <2>1, <2>2, <2>3
<1>9. CASE Len(S) <= 1
  <2>1. exit' # 0
    BY <1>5, <1>9
  <2>2. \A j \in 1..n : j <= k
    <3>1. ASSUME NEW j \in 1..n, ~(j <= k) PROVE FALSE
      <4>1. at[j] >= q /\ at[j] < N /\ at[j] \in 1..N
        BY <1>3, <1>8, <3>1
      <4> QED BY <1>2, <1>6, <1>7, <1>9, <4>1
    <3> QED BY <3>1
  <2>3. k = n
    <3>1. n = 0 \/ n \in 1..n
      BY <1>3
    <3>2. n = 0 \/ n <= k
      BY <2>2, <3>1
    <3> QED BY <1>2, <1>3, <3>2
  <2> QED BY <2>1, <2>3 DEF n
<1>10. CASE ~(Len(S) <= 1)
  <2>1. word' = Head(S).is /\ text' = Tail(S) /\ exit' = exit
    BY <1>5, <1>10
  <2>2. q \in 1..N /\ N \in q..N /\ q + 1 \in 1..(N + 1)
    BY <1>2, <1>6, <1>7, <1>10
  <2>3. Head(S) = given[q] /\ Tail(S) = SubSeq(given, q + 1, N)
    BY <1>2, <1>4, <2>2, HeadTailOfSubSeq DEF N
  <2>4. (q + 1) > 1 /\ given[(q + 1) - 1] # Newline /\ (q + 1) - 1 = q
    BY <1>4, <1>6, <2>2
  <2>a. ASSUME NEW i \in 1..n, i <= k PROVE at[i] < q + 1
    <3>1. at[i] < pos /\ at[i] \in 1..N
      BY <1>2, <1>3, <2>a
    <3> QED BY <1>2, <1>6, <3>1
  <2>5. CASE word' \in Markers
    <3>1. PICK j \in 1..n : q = at[j]
      BY <1>3, <2>1, <2>2, <2>3, <2>5
    <3>2. ~(j <= k)
      <4>1. at[j] >= pos /\ at[j] \in 1..N /\ pos \in Nat
        BY <1>2, <1>3, <1>6, <3>1
      <4> QED BY <1>2, <4>1
    <3>3. k + 1 \in 1..n /\ k < n
      BY <1>2, <1>3, <3>1, <3>2
    <3>4. at[k + 1] = q
      <4>1. at[k + 1] >= q /\ at[k + 1] \in 1..N
        BY <1>2, <1>3, <1>8, <3>3
      <4>2. j = k + 1 \/ k + 1 < j
        BY <1>2, <1>3, <3>2, <3>3
      <4>3. CASE k + 1 < j
        BY <1>3, <3>1, <3>3, <4>1, <4>3
      <4> QED BY <3>1, <4>2, <4>3
    <3>5. ASSUME NEW i \in 1..n, ~(i <= k), i # k + 1 PROVE at[i] >= q + 1
      <4>1. k + 1 < i
        BY <1>2, <1>3, <3>5
      <4>2. at[k + 1] < at[i] /\ at[i] \in 1..N
        BY <1>3, <3>3, <4>1
      <4> QED BY <1>6, <3>4, <4>2
    <3>6. ReadUpTo(at, q + 1, k)'
      BY <1>1, <1>2, <2>1, <2>2, <2>3, <2>4, <2>5, <2>a, <3>3, <3>4, <3>5 DEF ReadUpTo, N, n
    <3> QED BY <2>1, <3>6
  <2>6. CASE word' \notin Markers
    <3>1. ASSUME NEW i \in 1..n, ~(i <= k) PROVE at[i] >= q + 1
      <4>1. at[i] >= q /\ at[i] \in 1..N /\ given[at[i]].is \in Markers
        BY <1>3, <1>8, <3>1
      <4>2. at[i] # q
        BY <2>1, <2>3, <2>6, <4>1
      <4> QED BY <1>6, <4>1, <4>2
    <3>2. ReadUpTo(at, q + 1, k)'
      BY <1>1, <1>2, <2>1, <2>2, <2>3, <2>4, <2>6, <2>a, <3>1 DEF ReadUpTo, N, n
    <3> QED BY <2>1, <3>2
  <2> QED BY <2>5, <2>6
<1> QED BY <1>9, <1>10

\* A marker behind a place within a line is behind the line.
LEMMA MarkersBehindLine ==
  ASSUME NEW at, NEW pos \in Nat, Marked(given, found, at), pos > 1, given[pos - 1] # Newline,
         NEW b \in Nat, \A i \in pos..Len(given) : given[i] = Newline => b <= i + 1,
         NEW j \in 1..Len(Answered(found)), at[j] \in Nat, pos <= at[j]
  PROVE  b <= at[j]
<1>1. /\ Len(given) \in Nat /\ at[j] \in 1..Len(given)
      /\ at[j] = 1 \/ given[at[j] - 1] = Newline
  BY DEF Marked
<1> DEFINE m == at[j]
           N == Len(given)
<1>2. /\ N \in Nat /\ m \in Nat /\ pos <= m /\ m <= N /\ (m = 1 \/ given[m - 1] = Newline)
      /\ \A i \in pos..N : given[i] = Newline => b <= i + 1
  BY <1>1
<1> HIDE DEF m, N
<1>3. m # 1
  BY <1>2
<1>4. given[m - 1] = Newline
  BY <1>2, <1>3
<1>5. m # pos
  BY <1>4
<1>6. m - 1 \in pos..N
  BY <1>2, <1>5
<1>7. b <= m - 1 + 1
  BY <1>2, <1>4, <1>6, Zenon
<1>8. b <= m
  BY <1>2, <1>7
<1> QED BY <1>8 DEF m

LEMMA LineReads ==
  ASSUME TypeInv, SkipHeader \/ CopyLine, NEW at, NEW pos, NEW k, ReadUpTo(at, pos, k),
         OutInv, OutInv'
  PROVE  exit' = exit /\ \E p : ReadUpTo(at, p, k)'
<1> DEFINE N == Len(given)
           n == Len(Answered(found))
<1>1. /\ word # "" /\ word \notin Markers /\ text' = Lines(text) /\ word' = ""
      /\ UNCHANGED <<found, given, exit>>
  BY DEF SkipHeader, CopyLine, Headers, Markers
<1>2. /\ Marked(given, found, at) /\ given \in Seq(Piece) /\ N \in Nat /\ found \in Runs
      /\ pos \in 1..(N + 1) /\ text = SubSeq(given, pos, N)
      /\ k \in 0..n /\ ShownSoFar(out, Answered(found), k)
      /\ \A j \in 1..n : IF j <= k THEN at[j] < pos ELSE at[j] >= pos
      /\ \A j \in 1..n : at[j] \in 1..N
  BY <1>1 DEF ReadUpTo, Marked, TypeInv
<1>0. pos > 1 /\ given[pos - 1] # Newline
  BY <1>1, Zenon DEF ReadUpTo
<1>3. PICK b \in pos..(N + 1) :
        Lines(text) = SubSeq(given, b, N) /\ \A i \in pos..N : given[i] = Newline => b <= i + 1
  BY <1>2, LineEnd
<1>4. \A j \in 1..n : IF j <= k THEN at[j] < b ELSE at[j] >= b
  <2> SUFFICES ASSUME NEW j \in 1..n PROVE IF j <= k THEN at[j] < b ELSE at[j] >= b
    OBVIOUS
  <2>1. CASE j <= k
    <3>1. at[j] < pos /\ at[j] \in 1..N
      BY <1>2, <2>1
    <3> QED BY <1>2, <1>3, <2>1, <3>1
  <2>2. CASE ~(j <= k)
    <3>1. at[j] >= pos
      BY <1>2, <2>2
    <3>2. at[j] >= b
      <4>1. /\ pos \in Nat /\ b \in Nat /\ at[j] \in Nat /\ pos <= at[j]
            /\ pos > 1 /\ given[pos - 1] # Newline
        BY <1>0, <1>2, <1>3, <3>1
      <4>2. b <= at[j]
        BY <1>1, <1>2, <1>3, <4>1, MarkersBehindLine
      <4> QED BY <4>1, <4>2
    <3> QED BY <2>2, <3>2
  <2> QED BY <2>1, <2>2
<1>5. ShownSoFar(out', Answered(found), k)
  <2>1. CASE SkipHeader
    <3>1. out' = out
      BY <2>1 DEF SkipHeader
    <3> QED BY <1>2, <3>1
  <2>2. CASE CopyLine
    <3> DEFINE c == Copied(<<Word(word)>> \o Line(text))
               S == LineItem \cup PathItem \cup {c}
    <3>1. out' = Append(out, c) /\ c.what # "path"
      BY <2>2 DEF CopyLine, Copied
    <3>2. out \in Seq(S) /\ c \in S
      BY SeqMonotonic DEF OutInv
    <3>3. k \in Nat
      BY <1>2
    <3> HIDE DEF c, S
    <3> QED BY <1>2, <3>1, <3>2, <3>3, OneMoreShown
  <2> QED BY <2>1, <2>2
<1>6. b \in 1..(N + 1)
  BY <1>2, <1>3
<1>7. word' \notin Markers
  BY <1>1 DEF Markers
<1>8. ReadUpTo(at, b, k)'
  BY <1>1, <1>2, <1>3, <1>4, <1>5, <1>6, <1>7 DEF ReadUpTo
<1> QED BY <1>1, <1>8

LEMMA AnswerReads ==
  ASSUME TypeInv, ShowAnswer, NEW at, NEW pos, NEW k, ReadUpTo(at, pos, k), OutInv
  PROVE  exit' = exit /\ \E p : ReadUpTo(at, p, k + 1)'
<1> DEFINE N == Len(given)
           n == Len(Answered(found))
           s == Lines(text)
           holds == Answered(found)[k + 1].holds
<1>1. /\ word # "" /\ word \in Markers /\ text' = Lines(s) /\ word' = ""
      /\ out' = (IF word = "Answer:" THEN Append(out, Copied(<<Word("Solution:")>> \o Line(text)))
                 ELSE out) \o <<PathOutput(Path(s))>>
      /\ UNCHANGED <<found, given, exit>>
  BY DEF ShowAnswer, Markers
<1>2. /\ Marked(given, found, at) /\ given \in Seq(Piece) /\ N \in Nat /\ found \in Runs
      /\ pos \in 1..(N + 1) /\ text = SubSeq(given, pos, N)
      /\ k \in 0..n /\ ShownSoFar(out, Answered(found), k) /\ k < n /\ at[k + 1] = pos - 1
      /\ \A j \in 1..n : IF j <= k THEN at[j] < pos ELSE j = k + 1 \/ at[j] >= pos
  BY <1>1 DEF ReadUpTo, Marked, TypeInv
<1>0. pos > 1 /\ given[pos - 1] # Newline
  BY <1>1, Zenon DEF ReadUpTo
<1>3. n \in Nat /\ k \in Nat /\ k + 1 \in 1..n
  BY <1>2, AnswersOf
<1>4. /\ \A j \in 1..n : at[j] \in 1..N /\ given[at[j]].is \in Markers
      /\ Line(Lines(SubSeq(given, at[k + 1] + 1, N))) = holds
  BY <1>2, <1>3 DEF Marked
<1>5. /\ holds \in Seq(Piece) /\ IsInjective(holds)
      /\ \A p \in ToSet(holds) : p.is = "predicate"
  <2>1. Answered(found)[k + 1] \in Run
    BY <1>2, <1>3, AnswersOf
  <2> QED BY <1>2, <1>3, <2>1, AnswersOf DEF Run
<1>6. PICK b \in pos..(N + 1) :
        s = SubSeq(given, b, N) /\ \A i \in pos..N : given[i] = Newline => b <= i + 1
  BY <1>2, LineEnd
<1>7. Line(s) = holds /\ s \in Seq(Piece)
  <2>1. at[k + 1] + 1 = pos
    BY <1>2
  <2>2. text \in Seq(Piece)
    BY DEF TypeInv
  <2> QED BY <1>2, <1>4, <2>1, <2>2, LinesOfTexts
<1>8. b \in 1..(N + 1)
  BY <1>2, <1>6
<1> HIDE DEF holds, s
<1>9. PICK c \in b..(N + 1) :
        /\ Lines(s) = SubSeq(given, c, N)
        /\ \A i \in b..(c - 1) : given[i] = Newline \/ given[i] \in ToSet(Line(s))
  BY <1>2, <1>6, <1>8, LineEnd
<1> DEFINE x == PathOutput(Path(s))
<1>10. Shows(x, holds) /\ x.what = "path"
  BY <1>5, <1>7, AnswerShown
<1>11. ShownSoFar(out', Answered(found), k + 1)
  <2> DEFINE d == Copied(<<Word("Solution:")>> \o Line(text))
             S == LineItem \cup PathItem \cup {d, x}
             o == IF word = "Answer:" THEN Append(out, d) ELSE out
  <2>1. out' = o \o <<x>>
    BY <1>1
  <2>2. out \in Seq(S) /\ d \in S /\ x \in S
    BY SeqMonotonic DEF OutInv
  <2>3. d.what # "path"
    BY DEF Copied
  <2> HIDE DEF d, x, S
  <2>4. o \in Seq(S)
    BY <2>2
  <2>5. ShownSoFar(o, Answered(found), k)
    BY <1>2, <1>3, <2>2, <2>3, OneMoreShown
  <2> HIDE DEF o
  <2>6. out' = Append(o, x)
    BY <2>1, <2>2, <2>4
  <2>7. Shows(x, Answered(found)[k + 1].holds)
    BY <1>10 DEF holds
  <2> QED BY <1>3, <1>10, <2>2, <2>4, <2>5, <2>6, <2>7, OneMoreShown
<1>12. \A j \in 1..n : IF j <= k + 1 THEN at[j] < c ELSE at[j] >= c
  <2> SUFFICES ASSUME NEW j \in 1..n PROVE IF j <= k + 1 THEN at[j] < c ELSE at[j] >= c
    OBVIOUS
  <2>0. at[j] \in 1..N /\ c \in Nat /\ b \in Nat /\ pos \in Nat /\ pos <= b /\ b <= c
    BY <1>2, <1>4, <1>6, <1>8, <1>9
  <2>1. CASE j <= k + 1
    <3>1. j <= k \/ j = k + 1
      BY <1>3, <2>1
    <3>2. at[j] < pos
      BY <1>2, <2>0, <3>1
    <3> QED BY <2>0, <2>1, <3>2
  <2>2. CASE ~(j <= k + 1)
    <3>1. at[j] >= pos
      BY <1>2, <1>3, <2>2
    <3>2. at[j] >= b
      <4>1. /\ pos \in Nat /\ b \in Nat /\ at[j] \in Nat /\ pos <= at[j]
            /\ pos > 1 /\ given[pos - 1] # Newline
        BY <1>0, <2>0, <3>1
      <4>2. b <= at[j]
        BY <1>1, <1>2, <1>6, <4>1, MarkersBehindLine
      <4> QED BY <4>1, <4>2
    <3>3. ASSUME at[j] < c PROVE FALSE
      <4>1. at[j] \in b..(c - 1)
        BY <2>0, <3>2, <3>3
      <4>2. given[at[j]] # Newline /\ given[at[j]].is # "predicate"
        BY <1>4, NewlineIsNoMarker DEF Markers
      <4> QED BY <1>5, <1>7, <1>9, <4>1, <4>2
    <3> QED BY <2>0, <2>2, <3>3
  <2> QED BY <2>1, <2>2
<1>13. c \in 1..(N + 1) /\ k + 1 \in 0..n
  BY <1>2, <1>3, <1>8, <1>9
<1>14. word' \notin Markers
  BY <1>1 DEF Markers
<1>15. ReadUpTo(at, c, k + 1)'
  BY <1>1, <1>2, <1>9, <1>11, <1>12, <1>13, <1>14 DEF ReadUpTo
<1> QED BY <1>1, <1>15

\* However words and lines are read, no answer is dropped or shown twice.
LEMMA ReadStep == ReadInv /\ ExitInv /\ OutInv /\ [Next]_vars => ReadInv'
<1> SUFFICES ASSUME ReadInv, ExitInv, OutInv, [Next]_vars PROVE ReadInv'
  OBVIOUS
<1>0. TypeInv /\ OutInv' /\ program \in {"as2transition", "bridge"}
  BY OutStep, AnswersAssumption DEF ExitInv, TypeInv
<1>1. CASE ReadWord
  <2>1. program = "as2transition" /\ exit = 0 /\ UNCHANGED <<program, found, out>>
    BY <1>1, ReadsRest
  <2>2. PICK at, pos, k : ReadUpTo(at, pos, k)
    BY <2>1 DEF ReadInv
  <2>3. CASE exit' # 0 /\ k = Len(Answered(found))
    <3>1. ShownSoFar(out, Answered(found), k)
      BY <2>2 DEF ReadUpTo
    <3> QED BY <2>1, <2>3, <3>1 DEF ReadInv
  <2>4. CASE exit' = exit /\ \E p : ReadUpTo(at, p, k)'
    BY <2>1, <2>4 DEF ReadInv
  <2> QED BY <1>0, <1>1, <2>2, <2>3, <2>4, ReadWordReads
<1>2. CASE SkipHeader \/ CopyLine \/ ShowAnswer
  <2>1. word # "" /\ UNCHANGED program
    BY <1>2 DEF SkipHeader, CopyLine, ShowAnswer, Headers, Markers
  <2>2. program = "as2transition" /\ exit = 0
    BY <1>0, <2>1 DEF ExitInv
  <2>3. PICK at, pos, k : ReadUpTo(at, pos, k)
    BY <2>2 DEF ReadInv
  <2>4. exit' = exit /\ \E p : (ReadUpTo(at, p, k)' \/ ReadUpTo(at, p, k + 1)')
    BY <1>0, <1>2, <2>3, LineReads, AnswerReads
  <2> QED BY <2>2, <2>4 DEF ReadInv
<1>3. CASE PacketArrived
  <2>1. program = "bridge" /\ UNCHANGED <<program, exit>>
    BY <1>3 DEF PacketArrived
  <2>2. exit = 0
    BY <2>1 DEF ExitInv
  <2> QED BY <2>1, <2>2 DEF ReadInv
<1>4. CASE UNCHANGED vars
  BY <1>4 DEF ReadInv, ReadUpTo, vars
<1> QED BY <1>1, <1>2, <1>3, <1>4, Zenon DEF Next, Done

-----------------------------------------------------------------------------
(* The steps of oClingo. *)

\* A step in a text, from a to b: its header, its answer, its end.
StepAt(t, run, a, b) ==
  /\ b = a + 6 + Len(AnswerLine(run))
  /\ t[a] = Word("Step:") /\ t[a + 1] = Word("number") /\ t[a + 2] = Newline
  /\ \A i \in 1..Len(AnswerLine(run)) : t[a + 2 + i] = AnswerLine(run)[i]
  /\ t[b - 3] = Word("End of") /\ t[b - 2] = Word("Step.") /\ t[b - 1] = Newline

LEMMA AnswerLineOf ==
  ASSUME NEW run \in Run, \A p \in ToSet(run.holds) : p.is = "predicate",
         NEW line, line = AnswerLine(run)
  PROVE  /\ line \in Seq(Piece) /\ Len(line) \in Nat
         /\ \A i \in 1..Len(line) : line[i] = Newline \/ line[i].is = "predicate"
<1> DEFINE holds == run.holds
<1>1. holds \in Seq(Piece) /\ Newline \in Piece
  BY NewlineIsNoMarker DEF Run
<1>2. \A i \in 1..Len(holds) : holds[i].is = "predicate"
  <2>1. DOMAIN holds = 1..Len(holds)
    BY <1>1
  <2> QED BY <2>1 DEF ToSet
<1> HIDE DEF holds
<1>3. CASE run.answered
  <2>1. line = Append(holds, Newline)
    BY <1>3 DEF AnswerLine, holds
  <2> QED BY <1>1, <1>2, <2>1
<1>4. CASE ~run.answered
  <2>1. line = <<>>
    BY <1>4 DEF AnswerLine
  <2> QED BY <2>1
<1> QED BY <1>3, <1>4

LEMMA StepOfText ==
  ASSUME NEW t \in Seq(Piece), NEW run \in Run, \A p \in ToSet(run.holds) : p.is = "predicate",
         NEW a \in 1..(Len(t) + 1), NEW b \in 1..(Len(t) + 1),
         SubSeq(t, a, b - 1) = StepText(run)
  PROVE  StepAt(t, run, a, b)
<1> DEFINE A == AnswerLine(run)
           n == Len(A)
           X == Piece \cup {Word("Step:"), Word("number"), Newline, Word("End of"), Word("Step.")}
           h == <<Word("Step:"), Word("number"), Newline>>
           e == <<Word("End of"), Word("Step."), Newline>>
           s == StepText(run)
<1>1. A \in Seq(Piece) /\ n \in Nat
  BY AnswerLineOf
<1>2. A \in Seq(X)
  BY <1>1, SeqMonotonic
<1>3. h \in Seq(X) /\ e \in Seq(X) /\ Len(h) = 3 /\ Len(e) = 3
  OBVIOUS
<1>4. s = (h \o A) \o e
  BY DEF StepText
<1>5. /\ h[1] = Word("Step:") /\ h[2] = Word("number") /\ h[3] = Newline
      /\ e[1] = Word("End of") /\ e[2] = Word("Step.") /\ e[3] = Newline
  OBVIOUS
<1> DEFINE hA == h \o A
<1>6. s = hA \o e
  BY <1>4
<1> HIDE DEF h, e, X, s, A
<1>7. hA \in Seq(X) /\ Len(hA) = 3 + n
      /\ \A i \in 1..(3 + n) : hA[i] = IF i <= 3 THEN h[i] ELSE A[i - 3]
  <2>1. /\ hA \in Seq(X) /\ Len(hA) = Len(h) + Len(A)
        /\ \A i \in 1..(Len(h) + Len(A)) : hA[i] = IF i <= Len(h) THEN h[i] ELSE A[i - Len(h)]
    BY <1>2, <1>3, ConcatProperties
  <2> HIDE DEF hA
  <2> QED BY <1>3, <2>1
<1> HIDE DEF hA
<1>8. Len(s) = 6 + n /\ \A i \in 1..(6 + n) : s[i] = IF i <= 3 + n THEN hA[i] ELSE e[i - (3 + n)]
  <2>1. /\ Len(s) = Len(hA) + Len(e)
        /\ \A i \in 1..(Len(hA) + Len(e)) : s[i] = IF i <= Len(hA) THEN hA[i] ELSE e[i - Len(hA)]
    BY <1>3, <1>6, <1>7, ConcatProperties
  <2> HIDE DEF n
  <2>2. Len(hA) + Len(e) = 6 + n
    BY <1>1, <1>3, <1>7
  <2> QED BY <1>7, <2>1, <2>2
<1>9. /\ Len(s) = IF a <= b - 1 THEN (b - 1) - a + 1 ELSE 0
      /\ \A i \in 1..Len(s) : s[i] = t[a + i - 1]
  <2>1. a \in Nat /\ a > 0 /\ b - 1 \in Nat /\ b - 1 <= Len(t)
    OBVIOUS
  <2>2. s = SubSeq(t, a, b - 1)
    BY DEF s
  <2> QED BY <2>1, <2>2, Parts
<1> HIDE DEF n
<1>10. a \in Nat /\ b \in Nat /\ b = a + 6 + n
  BY <1>1, <1>8, <1>9
<1>11. t[a] = s[1] /\ t[a + 1] = s[2] /\ t[a + 2] = s[3]
  <2>1. 1 \in 1..Len(s) /\ 2 \in 1..Len(s) /\ 3 \in 1..Len(s)
    BY <1>1, <1>8
  <2>2. a + 1 - 1 = a /\ a + 2 - 1 = a + 1 /\ a + 3 - 1 = a + 2
    BY <1>10
  <2> QED BY <1>9, <2>1, <2>2
<1>12. s[1] = h[1] /\ s[2] = h[2] /\ s[3] = h[3]
  BY <1>1, <1>7, <1>8
<1>13. ASSUME NEW i \in 1..n PROVE t[a + 2 + i] = A[i]
  <2>1. 3 + i \in 1..(6 + n) /\ 3 + i <= 3 + n /\ 3 + i \in 1..(3 + n) /\ ~(3 + i <= 3)
        /\ (3 + i) - 3 = i /\ a + (3 + i) - 1 = a + 2 + i
    BY <1>1, <1>10
  <2>2. s[3 + i] = t[a + 2 + i]
    BY <1>8, <1>9, <2>1
  <2>3. s[3 + i] = hA[3 + i]
    BY <1>8, <2>1
  <2> QED BY <1>7, <2>1, <2>2, <2>3
<1>14. t[b - 3] = e[1] /\ t[b - 2] = e[2] /\ t[b - 1] = e[3]
  <2>1. /\ n + 4 \in 1..(6 + n) /\ a + (n + 4) - 1 = b - 3 /\ (n + 4) - (3 + n) = 1
        /\ n + 5 \in 1..(6 + n) /\ a + (n + 5) - 1 = b - 2 /\ (n + 5) - (3 + n) = 2
        /\ n + 6 \in 1..(6 + n) /\ a + (n + 6) - 1 = b - 1 /\ (n + 6) - (3 + n) = 3
        /\ ~(n + 4 <= 3 + n) /\ ~(n + 5 <= 3 + n) /\ ~(n + 6 <= 3 + n)
    BY <1>1, <1>10
  <2>2. s[n + 4] = e[1] /\ s[n + 5] = e[2] /\ s[n + 6] = e[3]
    BY <1>8, <2>1
  <2>3. s[n + 4] = t[b - 3] /\ s[n + 5] = t[b - 2] /\ s[n + 6] = t[b - 1]
    BY <1>8, <1>9, <2>1
  <2> QED BY <2>2, <2>3
<1> QED BY <1>5, <1>10, <1>11, <1>12, <1>13, <1>14 DEF StepAt, n, A

\* Which pieces of a step are the words of its markers.
WordsAt(t, a, b, i) ==
  /\ (t[i] = Word("Step:")) <=> (i = a)
  /\ (t[i] = Word("End of")) <=> (i = b - 3)
  /\ (t[i] = Word("Step.")) <=> (i = b - 2)
  /\ (t[i] = Newline) => i # a

LEMMA PiecesOfStep ==
  ASSUME NEW t, NEW run \in Run, \A p \in ToSet(run.holds) : p.is = "predicate",
         NEW a \in Nat, NEW b \in Nat, StepAt(t, run, a, b), NEW i \in a..(b - 1)
  PROVE  WordsAt(t, a, b, i)
<1> DEFINE A == AnswerLine(run)
           n == Len(A)
<1>1. /\ n \in Nat /\ \A j \in 1..n : A[j] = Newline \/ A[j].is = "predicate"
  BY AnswerLineOf
<1>2. /\ b = a + 6 + n
      /\ t[a] = Word("Step:") /\ t[a + 1] = Word("number") /\ t[a + 2] = Newline
      /\ \A j \in 1..n : t[a + 2 + j] = A[j]
      /\ t[b - 3] = Word("End of") /\ t[b - 2] = Word("Step.") /\ t[b - 1] = Newline
  BY DEF StepAt
<1> HIDE DEF n, A
<1>a. n \in Nat /\ b = a + 6 + n
  BY <1>1, <1>2
<1>3. \/ i = a \/ i = a + 1 \/ i = a + 2 \/ i - a - 2 \in 1..n
      \/ i = b - 3 \/ i = b - 2 \/ i = b - 1
  BY <1>a
<1>4. /\ b >= a + 6 /\ a # b - 3 /\ a # b - 2 /\ a + 1 # b - 3 /\ a + 1 # b - 2 /\ a + 1 # a
      /\ a + 2 # a /\ a + 2 # b - 3 /\ a + 2 # b - 2 /\ b - 3 # a /\ b - 3 # b - 2 /\ b - 2 # b - 3
      /\ b - 2 # a /\ b - 1 # a /\ b - 1 # b - 2 /\ b - 1 # b - 3
  BY <1>a
<1>5. /\ Word("Step:").is = "Step:" /\ Word("number").is = "number" /\ Newline.is = "newline"
      /\ Word("End of").is = "End of" /\ Word("Step.").is = "Step."
  BY DEF Word, Newline
<1>6. CASE i - a - 2 \in 1..n
  <2>1. i # a /\ i # b - 3 /\ i # b - 2 /\ a + 2 + (i - a - 2) = i
    BY <1>6, <1>a
  <2>2. t[i] = Newline \/ t[i].is = "predicate"
    BY <1>1, <1>2, <1>6, <2>1
  <2>3. t[i] # Word("Step:") /\ t[i] # Word("End of") /\ t[i] # Word("Step.")
    BY <1>5, <2>2
  <2> QED BY <2>1, <2>3 DEF WordsAt
<1>7. CASE i = a \/ i = a + 1 \/ i = a + 2
  BY <1>2, <1>4, <1>5, <1>7 DEF WordsAt
<1>8. CASE i = b - 3 \/ i = b - 2 \/ i = b - 1
  BY <1>2, <1>4, <1>5, <1>8 DEF WordsAt
<1> QED BY <1>3, <1>6, <1>7, <1>8

\* The steps of a text.
Stepped(t, r, at) ==
  /\ t \in Seq(Piece) /\ Len(t) \in Nat /\ Len(r) \in Nat
  /\ \A k \in 1..(Len(r) + 1) : at[k] \in 1..(Len(t) + 1)
  /\ at[1] = 1 /\ at[Len(r) + 1] = Len(t) + 1
  /\ \A k \in 1..Len(r) : StepAt(t, r[k], at[k], at[k + 1])

LEMMA StepsOf ==
  ASSUME "bridge" \in Programs, NEW r \in Runs, NEW t \in Texts("bridge", r)
  PROVE  \E at : Stepped(t, r, at)
<1> DEFINE n == Len(r)
           N == Len(t)
<1>1. t \in Seq(Piece) /\ N \in Nat
  BY AnswersAssumption
<1>2. /\ DOMAIN r = 1..n /\ n \in Nat
      /\ \A k \in 1..n : r[k] \in Run /\ \A p \in ToSet(r[k].holds) : p.is = "predicate"
  BY RunsOf
<1>3. PICK at : at \in StepPlaces(t, r)
  BY TextsAssumption
<1>4. /\ at \in [1..(n + 1) -> 1..(N + 1)] /\ at[1] = 1 /\ at[n + 1] = N + 1
      /\ \A k \in DOMAIN r : SubSeq(t, at[k], at[k + 1] - 1) = StepText(r[k])
  BY <1>3 DEF StepPlaces
<1>5. ASSUME NEW k \in 1..n PROVE StepAt(t, r[k], at[k], at[k + 1])
  <2>1. k \in 1..(n + 1) /\ k + 1 \in 1..(n + 1)
    BY <1>2
  <2>2. at[k] \in 1..(N + 1) /\ at[k + 1] \in 1..(N + 1)
    BY <1>4, <2>1
  <2> QED BY <1>1, <1>2, <1>4, <2>2, StepOfText
<1>6. Stepped(t, r, at)
  BY <1>1, <1>2, <1>4, <1>5 DEF Stepped
<1> QED BY <1>6

\* What is known of one of its steps.
LEMMA StepOfSteps ==
  ASSUME NEW r \in Runs, NEW t, NEW at, Stepped(t, r, at), NEW k \in 1..Len(r)
  PROVE  /\ r[k] \in Run /\ IsInjective(r[k].holds)
         /\ \A p \in ToSet(r[k].holds) : p.is = "predicate"
         /\ at[k] \in 1..(Len(t) + 1) /\ at[k + 1] \in 1..(Len(t) + 1)
         /\ at[k] \in Nat /\ at[k + 1] \in Nat /\ at[k] + 6 <= at[k + 1]
         /\ StepAt(t, r[k], at[k], at[k + 1])
<1>1. r[k] \in Run /\ IsInjective(r[k].holds) /\ \A p \in ToSet(r[k].holds) : p.is = "predicate"
  BY RunsOf
<1>2. k \in 1..(Len(r) + 1) /\ k + 1 \in 1..(Len(r) + 1)
  BY RunsOf
<1>3. /\ at[k] \in 1..(Len(t) + 1) /\ at[k + 1] \in 1..(Len(t) + 1) /\ Len(t) \in Nat
      /\ StepAt(t, r[k], at[k], at[k + 1])
  BY <1>2 DEF Stepped
<1>4. at[k + 1] = at[k] + 6 + Len(AnswerLine(r[k])) /\ Len(AnswerLine(r[k])) \in Nat
  BY <1>1, <1>3, AnswerLineOf DEF StepAt
<1>5. at[k] \in Nat /\ at[k + 1] \in Nat
  BY <1>3
<1>6. at[k] + 6 <= at[k + 1]
  BY <1>4, <1>5
<1> QED BY <1>1, <1>3, <1>5, <1>6

LEMMA StepsInOrder ==
  ASSUME NEW r \in Runs, NEW t, NEW at, Stepped(t, r, at),
         NEW k \in 1..Len(r), NEW j \in 1..k
  PROVE  at[j] + 6 <= at[k + 1]
<1> DEFINE n == Len(r)
           T == {m \in 0..n : \A i \in 1..m : at[i] + 6 <= at[m + 1]}
<1>1. n \in Nat
  BY RunsOf
<1>2. \A m \in 1..n : at[m] \in Nat /\ at[m + 1] \in Nat /\ at[m] + 6 <= at[m + 1]
  BY StepOfSteps
<1>k. k \in 1..n /\ j \in 1..k
  OBVIOUS
<1> HIDE DEF n
<1>3. 0 \in T
  BY <1>1
<1>4. ASSUME NEW m \in 1..n, m - 1 \in T PROVE m \in T
  <2> SUFFICES ASSUME NEW i \in 1..m PROVE at[i] + 6 <= at[m + 1]
    BY <1>1
  <2>1. CASE i = m
    BY <1>2, <2>1
  <2>2. CASE i # m
    <3>1. i \in 1..(m - 1) /\ (m - 1) + 1 = m /\ i \in 1..n
      BY <1>1, <2>2
    <3>2. at[i] + 6 <= at[m]
      BY <1>4, <3>1
    <3> QED BY <1>2, <3>1, <3>2
  <2> QED BY <2>1, <2>2
<1>5. 0..n \subseteq T
  <2> HIDE DEF T
  <2> QED BY <1>1, <1>3, <1>4, Climb
<1>6. k \in T
  BY <1>1, <1>5, <1>k
<1> QED BY <1>6, <1>k

\* Each of its pieces is in one of the steps.
LEMMA PieceInStep ==
  ASSUME NEW r \in Runs, NEW t, NEW at, Stepped(t, r, at), NEW i \in 1..Len(t)
  PROVE  \E j \in 1..Len(r) : i \in at[j]..(at[j + 1] - 1)
<1> DEFINE n == Len(r)
           N == Len(t)
           T == {m \in 0..n : \A p \in 1..(at[m + 1] - 1) : \E j \in 1..n : p \in at[j]..(at[j + 1] - 1)}
<1>1. n \in Nat /\ N \in Nat /\ at[1] = 1 /\ at[n + 1] = N + 1
  BY DEF Stepped
<1>2. \A m \in 1..n : at[m] \in Nat /\ at[m + 1] \in Nat /\ at[m] + 6 <= at[m + 1]
  BY StepOfSteps
<1>i. i \in 1..N
  OBVIOUS
<1> HIDE DEF n, N
<1>3. 0 \in T
  BY <1>1
<1>4. ASSUME NEW m \in 1..n, m - 1 \in T PROVE m \in T
  <2> SUFFICES ASSUME NEW p \in 1..(at[m + 1] - 1)
               PROVE  \E j \in 1..n : p \in at[j]..(at[j + 1] - 1)
    BY <1>1
  <2>0. (m - 1) + 1 = m
    BY <1>1
  <2>1. CASE p < at[m]
    <3>1. p \in 1..(at[m] - 1)
      BY <1>2, <2>1
    <3> QED BY <1>4, <2>0, <3>1
  <2>2. CASE ~(p < at[m])
    <3>1. p \in at[m]..(at[m + 1] - 1)
      BY <1>2, <2>2
    <3> QED BY <3>1
  <2> QED BY <2>1, <2>2
<1>5. 0..n \subseteq T
  <2> HIDE DEF T
  <2> QED BY <1>1, <1>3, <1>4, Climb
<1>6. n \in T
  BY <1>1, <1>5
<1>7. i \in 1..(at[n + 1] - 1)
  BY <1>1, <1>i
<1> QED BY <1>6, <1>7 DEF n

\* Where steps end in a text.
Ends(e) == {i \in DOMAIN e : e[i] = Word("Step.")}

\* At pos, the end of step k was not read, and those before it were.
EndsFrom(t, r, at, pos, k) ==
  /\ r \in Runs /\ Stepped(t, r, at) /\ k \in 1..(Len(r) + 1) /\ pos \in 1..(Len(t) + 1)
  /\ k > 1 => at[k] < pos + 2
  /\ k <= Len(r) => pos + 3 <= at[k + 1]

\* The steps of which the end was not read are those whose end is in the text
\* that is left.
LEMMA StepsLeft ==
  ASSUME NEW r, NEW t, NEW at, NEW k, NEW pos, EndsFrom(t, r, at, pos, k)
  PROVE  Cardinality(Ends(SubSeq(t, pos, Len(t)))) = Len(r) - k + 1
<1> SUFFICES ASSUME NEW e, e = SubSeq(t, pos, Len(t)) PROVE Cardinality(Ends(e)) = Len(r) - k + 1
  OBVIOUS
<1> USE DEF EndsFrom
<1> DEFINE n == Len(r)
           N == Len(t)
           left == {i \in DOMAIN e : e[i] = Word("Step.")}
           f == [j \in k..n |-> at[j + 1] - 2 - pos + 1]
<1>1. t \in Seq(Piece) /\ n \in Nat /\ N \in Nat
  BY DEF Stepped
<1>2. /\ DOMAIN e = 1..Len(e) /\ Len(e) = N - pos + 1
      /\ \A i \in 1..Len(e) : e[i] = t[pos + i - 1]
  <2>1. e \in Seq(Piece) /\ Len(e) = N - pos + 1
    BY <1>1, EndOfText
  <2>2. pos \in Nat /\ pos > 0
    BY <1>1
  <2>3. \A i \in 1..Len(e) : e[i] = t[pos + i - 1]
    BY <1>1, <2>2, Parts
  <2> QED BY <2>1, <2>3
<1>3. \A j \in 1..n : /\ at[j] \in Nat /\ at[j + 1] \in Nat /\ at[j] + 6 <= at[j + 1]
                      /\ at[j + 1] <= N + 1
  <2>1. \A j \in 1..n : at[j + 1] \in 1..(N + 1)
    BY StepOfSteps
  <2> QED BY <1>1, <2>1, StepOfSteps
<1>4. \A j \in 1..n, i \in 1..n : i <= j => at[i] + 6 <= at[j + 1]
  <2> SUFFICES ASSUME NEW j \in 1..n, NEW i \in 1..n, i <= j PROVE at[i] + 6 <= at[j + 1]
    OBVIOUS
  <2>1. i \in 1..j
    BY <1>1
  <2> QED BY <2>1, StepsInOrder
<1>5. \A j \in 1..n : \A i \in at[j]..(at[j + 1] - 1) : t[i] = Word("Step.") <=> i = at[j + 1] - 2
  <2> SUFFICES ASSUME NEW j \in 1..n, NEW i \in at[j]..(at[j + 1] - 1)
               PROVE  t[i] = Word("Step.") <=> i = at[j + 1] - 2
    OBVIOUS
  <2>1. /\ r[j] \in Run /\ \A p \in ToSet(r[j].holds) : p.is = "predicate"
        /\ at[j] \in Nat /\ at[j + 1] \in Nat /\ StepAt(t, r[j], at[j], at[j + 1])
    BY StepOfSteps
  <2> DEFINE a == at[j]
             b == at[j + 1]
             run == r[j]
  <2>2. /\ i \in a..(b - 1) /\ a \in Nat /\ b \in Nat /\ StepAt(t, run, a, b)
        /\ run \in Run /\ \A p \in ToSet(run.holds) : p.is = "predicate"
    BY <2>1
  <2> HIDE DEF a, b, run
  <2>3. WordsAt(t, a, b, i)
    BY <2>2, PiecesOfStep, Zenon
  <2> QED BY <2>3 DEF b, WordsAt
<1>6. \A i \in 1..N : \E j \in 1..n : i \in at[j]..(at[j + 1] - 1)
  BY PieceInStep
<1>7. /\ k \in 1..(n + 1) /\ pos \in 1..(N + 1) /\ (k > 1 => at[k] < pos + 2)
      /\ (k <= n => pos + 3 <= at[k + 1])
  OBVIOUS
<1> HIDE DEF n, N
<1>8. k \in Nat /\ pos \in Nat /\ k > 0 /\ pos > 0
  BY <1>1, <1>7
<1>9. ASSUME NEW j \in k..n PROVE f[j] \in left /\ pos + f[j] - 1 = at[j + 1] - 2
  <2>1. j \in 1..n /\ k \in 1..n /\ k <= j
    BY <1>1, <1>8
  <2>2. pos + 3 <= at[j + 1]
    <3>1. CASE j = k
      BY <1>7, <2>1, <3>1
    <3>2. CASE j # k
      <4>1. k + 1 \in 1..n /\ k + 1 <= j /\ pos + 3 <= at[k + 1]
        BY <1>1, <1>7, <1>8, <2>1, <3>2
      <4>2. at[k + 1] + 6 <= at[j + 1] /\ at[k + 1] \in Nat /\ at[j + 1] \in Nat
        BY <1>3, <1>4, <2>1, <4>1
      <4> QED BY <1>8, <4>1, <4>2
    <3> QED BY <3>1, <3>2
  <2>3. at[j] \in Nat /\ at[j + 1] \in Nat /\ at[j] + 6 <= at[j + 1] /\ at[j + 1] <= N + 1
    BY <1>3, <2>1
  <2>4. f[j] = at[j + 1] - 2 - pos + 1
    OBVIOUS
  <2>5. f[j] \in 1..Len(e) /\ pos + f[j] - 1 = at[j + 1] - 2
    <3> DEFINE b == at[j + 1]
    <3>1. b \in Nat /\ pos + 3 <= b /\ b <= N + 1 /\ f[j] = b - 2 - pos + 1
      BY <2>2, <2>3, <2>4
    <3>2. Len(e) = N - pos + 1
      BY <1>2
    <3> HIDE DEF b, f
    <3>3. f[j] \in 1..Len(e) /\ pos + f[j] - 1 = b - 2
      BY <1>1, <1>8, <3>1, <3>2
    <3> QED BY <3>3 DEF b
  <2>6. at[j + 1] - 2 \in at[j]..(at[j + 1] - 1)
    BY <2>3, EndInStep, Zenon
  <2>7. e[f[j]] = Word("Step.")
    BY <1>2, <1>5, <2>1, <2>5, <2>6
  <2> QED BY <1>2, <2>5, <2>7
<1>10. ASSUME NEW i \in k..n, NEW j \in k..n, f[i] = f[j] PROVE i = j
  <2>1. i \in 1..n /\ j \in 1..n /\ i \in Nat /\ j \in Nat
    BY <1>1, <1>8
  <2>2. at[i + 1] = at[j + 1]
    <3>1. pos + f[i] - 1 = at[i + 1] - 2 /\ pos + f[j] - 1 = at[j + 1] - 2
      BY <1>9
    <3>2. at[i + 1] \in Nat /\ at[j + 1] \in Nat
      BY <1>3, <2>1
    <3>3. at[i + 1] - 2 = at[j + 1] - 2
      BY <1>10, <3>1, Zenon
    <3> QED BY <3>2, <3>3, SameEnd, Zenon
  <2>3. ASSUME NEW a \in 1..n, NEW b \in 1..n, a < b, at[a + 1] = at[b + 1] PROVE FALSE
    <3>1. a + 1 \in 1..n /\ a + 1 <= b
      BY <1>1, <2>3
    <3>2. at[a + 1] + 6 <= at[b + 1] /\ at[a + 1] \in Nat
      BY <1>3, <1>4, <2>3, <3>1
    <3> QED BY <2>3, <3>2
  <2> QED BY <2>1, <2>2, <2>3
<1>11. ASSUME NEW i \in left PROVE \E j \in k..n : f[j] = i
  <2> DEFINE m == pos + i - 1
  <2>1. i \in 1..Len(e) /\ t[m] = Word("Step.")
    BY <1>2
  <2>2. m \in 1..N /\ i \in Nat /\ m >= pos /\ m \in Nat
    BY <1>1, <1>2, <1>8, <2>1
  <2>3. PICK j \in 1..n : m \in at[j]..(at[j + 1] - 1)
    BY <1>6, <2>2
  <2>4. m = at[j + 1] - 2
    BY <1>5, <2>1, <2>3
  <2>5. ASSUME j < k PROVE FALSE
    <3>1. at[j + 1] \in Nat /\ k > 1 /\ at[k] < pos + 2 /\ k - 1 \in 1..n
      <4>1. at[j + 1] \in Nat
        BY <1>3
      <4>2. j \in Nat /\ j > 0 /\ k <= n + 1
        BY <1>1, <1>7
      <4>3. k > 1 /\ k - 1 \in 1..n
        BY <1>1, <1>8, <2>5, <4>2
      <4> QED BY <1>7, <4>1, <4>3
    <3>2. at[j + 1] <= at[k] /\ at[k] \in Nat
      <4>1. CASE j + 1 = k
        BY <3>1, <4>1
      <4>2. CASE j + 1 # k
        <5>1. j + 1 \in 1..n /\ j + 1 <= k - 1 /\ (k - 1) + 1 = k
          BY <1>1, <1>8, <2>5, <3>1, <4>2
        <5>2. at[j + 1] + 6 <= at[(k - 1) + 1]
          BY <1>4, <3>1, <5>1
        <5>3. at[(k - 1) + 1] \in Nat
          BY <1>3, <3>1
        <5> QED BY <3>1, <5>1, <5>2, <5>3
      <4> QED BY <4>1, <4>2
    <3> QED BY <1>8, <2>2, <2>4, <3>1, <3>2
  <2>6. j \in k..n
    BY <1>1, <1>8, <2>5
  <2>7. f[j] = i
    <3>1. f[j] = at[j + 1] - 2 - pos + 1 /\ at[j + 1] \in Nat
      BY <1>3, <2>6
    <3> QED BY <1>8, <2>2, <2>4, <3>1
  <2> QED BY <2>6, <2>7
<1>12. f \in [k..n -> left]
  BY <1>9
<1> HIDE DEF f, left
<1>13. ExistsBijection(k..n, left)
  <2>1. f \in Bijection(k..n, left)
    BY <1>10, <1>11, <1>12 DEF Bijection, Injection, Surjection, IsInjective
  <2> QED BY <2>1 DEF ExistsBijection
<1>14. IsFiniteSet(k..n) /\ Cardinality(k..n) = n - k + 1
  <2>1. k \in Int /\ n \in Int
    BY <1>1, <1>8
  <2>2. IsFiniteSet(k..n) /\ Cardinality(k..n) = IF k > n THEN 0 ELSE n - k + 1
    BY <2>1, FS_Interval
  <2> QED BY <1>1, <1>7, <1>8, <2>2
<1>15. Cardinality(left) = n - k + 1
  BY <1>13, <1>14, FS_Bijection
<1> QED BY <1>15 DEF left, n, Ends

\* A text that begins with a line end makes no path.
LEMMA EmptyLineShown ==
  ASSUME NEW s \in Seq(Piece), s # <<>>, s[1] = Newline
  PROVE  Displayed(s) = <<>>
<1>1. Upto(s, {Newline}) = 1
  <2>1. 1 \in 1..Len(s)
    BY TailOfText
  <2>2. Upto(s, {Newline}) # 0 /\ Upto(s, {Newline}) <= 1 /\ Upto(s, {Newline}) \in 0..Len(s)
    BY <2>1, FirstOf
  <2> QED BY <2>1, <2>2
<1>2. Line(s) = <<>>
  <2> DEFINE u == Upto(s, {Newline})
  <2>1. u # 0 => Line(s) = SubSeq(s, 1, u - 1)
    BY DEF Line, Before
  <2> HIDE DEF u
  <2>2. u = 1
    BY <1>1 DEF u
  <2> QED BY <2>1, <2>2, SubSeqEmpty
<1>3. Predicates(Line(s)) = <<>>
  <2>1. Line(s) \in Seq(Piece) /\ \A p \in ToSet(Line(s)) : p.is = "predicate"
    BY <1>2, LinesOfTexts DEF ToSet
  <2> QED BY <1>2, <2>1, LineOfPredicates
<1>4. PICK g : Grows(g, Predicates(Line(s))) /\ Path(s) = g[Len(Predicates(Line(s)))]
  BY PathGrows
<1>5. Path(s) = EmptyPath
  <2>1. Len(Predicates(Line(s))) = 0
    BY <1>3
  <2> QED BY <1>4, <2>1 DEF Grows
<1> QED BY <1>5 DEF Displayed, EmptyPath

\* A text whose first line is an answer.
LEMMA LineOfAnswer ==
  ASSUME NEW holds \in Seq(Piece), \A p \in ToSet(holds) : p.is = "predicate",
         NEW s, s \in Seq(Piece), Len(s) > Len(holds), s[Len(holds) + 1] = Newline,
         \A i \in 1..Len(holds) : s[i] = holds[i]
  PROVE  Line(s) = holds
<1> DEFINE n == Len(holds)
           u == Upto(s, {Newline})
<1>1. n \in Nat /\ DOMAIN holds = 1..n /\ Len(s) \in Nat
  OBVIOUS
<1>2. \A i \in 1..n : s[i] # Newline
  <2>1. \A i \in 1..n : holds[i].is = "predicate"
    BY <1>1 DEF ToSet
  <2> QED BY <2>1 DEF Newline, Word
<1>3. u = n + 1
  <2>1. n + 1 \in 1..Len(s)
    BY <1>1
  <2>2. u # 0 /\ u <= n + 1 /\ u \in 0..Len(s) /\ s[u] = Newline
    BY <2>1, FirstOf
  <2> HIDE DEF u
  <2> QED BY <1>1, <1>2, <2>2
<1>4. Line(s) = SubSeq(s, 1, n)
  <2>1. u # 0 => Line(s) = SubSeq(s, 1, u - 1)
    BY DEF Line, Before
  <2> HIDE DEF u, n
  <2>2. u # 0 /\ u - 1 = n
    BY <1>1, <1>3
  <2> QED BY <2>1, <2>2
<1>5. SubSeq(s, 1, n) \in Seq(Piece) /\ Len(SubSeq(s, 1, n)) = n
      /\ \A i \in 1..n : SubSeq(s, 1, n)[i] = s[i]
  BY <1>1, Parts
<1>6. SubSeq(s, 1, n) = holds
  BY <1>1, <1>5
<1> QED BY <1>4, <1>6

\* A packet, as a part of the text, and what it may not cut.
PacketOf(packet, t, p, q) ==
  /\ packet \in Seq(Piece) /\ Len(packet) = q - p
  /\ t[q - 1] # Word("End of")
  /\ \A i \in p..(q - 1) : t[i] = Word("Step:") =>
       (\A j \in p..(i - 1) : t[j] = Newline) /\ \E j \in i..(q - 1) : t[j] = Newline
  /\ (\E i \in DOMAIN packet : packet[i] = Word("Step:")) <=>
       \E i \in p..(q - 1) : t[i] = Word("Step:")

LEMMA WholePacket ==
  ASSUME NEW t \in Seq(Piece), NEW p \in Nat, NEW q \in Nat, p > 0, p < q, q <= Len(t) + 1,
         NEW packet, packet = SubSeq(t, p, q - 1), Whole(packet)
  PROVE  PacketOf(packet, t, p, q)
<1> DEFINE n == Len(packet)
<1>1. /\ packet \in Seq(Piece) /\ n = (IF p <= q - 1 THEN (q - 1) - p + 1 ELSE 0)
      /\ \A i \in 1..n : packet[i] = t[p + i - 1]
  <2>1. q - 1 \in Nat /\ q - 1 <= Len(t)
    OBVIOUS
  <2> QED BY <2>1, Parts
<1>2. n = q - p /\ n \in Nat /\ n > 0 /\ DOMAIN packet = 1..n
  BY <1>1
<1>3. /\ packet[n].is \notin {"End of", "Step:"}
      /\ \A i \in 1..n : packet[i] = Word("Step:") =>
           /\ \A j \in 1..(i - 1) : packet[j] = Newline
           /\ \E j \in i..n : packet[j] = Newline
  BY <1>2 DEF Whole
<1> HIDE DEF n
<1>4. t[q - 1] # Word("End of")
  <2>1. packet[n] = t[q - 1]
    <3>1. n \in 1..n /\ p + n - 1 = q - 1
      BY <1>2
    <3> QED BY <1>1, <3>1
  <2>2. packet[n].is # "End of"
    BY <1>3
  <2>3. Word("End of").is = "End of"
    BY DEF Word
  <2> QED BY <2>1, <2>2, <2>3, Zenon
<1>5. \A i \in p..(q - 1) : i - p + 1 \in 1..n /\ packet[i - p + 1] = t[i]
  <2> SUFFICES ASSUME NEW i \in p..(q - 1) PROVE i - p + 1 \in 1..n /\ packet[i - p + 1] = t[i]
    OBVIOUS
  <2>1. i - p + 1 \in 1..n /\ p + (i - p + 1) - 1 = i
    BY <1>2
  <2> QED BY <1>1, <2>1
<1>6. ASSUME NEW i \in p..(q - 1), t[i] = Word("Step:")
      PROVE  (\A j \in p..(i - 1) : t[j] = Newline) /\ \E j \in i..(q - 1) : t[j] = Newline
  <2>1. i - p + 1 \in 1..n /\ packet[i - p + 1] = Word("Step:")
    BY <1>5, <1>6
  <2>2. ASSUME NEW j \in p..(i - 1) PROVE t[j] = Newline
    <3>1. j \in p..(q - 1) /\ j - p + 1 \in 1..((i - p + 1) - 1)
      OBVIOUS
    <3>2. packet[j - p + 1] = Newline
      BY <1>3, <2>1, <3>1
    <3> QED BY <1>5, <3>1, <3>2
  <2>3. PICK j \in (i - p + 1)..n : packet[j] = Newline
    BY <1>3, <2>1
  <2>4. p + j - 1 \in i..(q - 1) /\ j \in 1..n
    BY <1>2
  <2>5. t[p + j - 1] = Newline
    BY <1>1, <2>3, <2>4
  <2> QED BY <2>2, <2>4, <2>5
<1>7. (\E i \in 1..n : packet[i] = Word("Step:")) <=> \E i \in p..(q - 1) : t[i] = Word("Step:")
  <2>1. ASSUME NEW i \in 1..n, packet[i] = Word("Step:") PROVE \E j \in p..(q - 1) : t[j] = Word("Step:")
    <3>1. p + i - 1 \in p..(q - 1)
      BY <1>2
    <3> QED BY <1>1, <2>1, <3>1
  <2> QED BY <1>5, <2>1
<1> QED BY <1>1, <1>2, <1>4, <1>6, <1>7 DEF n, PacketOf

\* What follows a step's header in a packet.
HeaderAt(t, a, p) ==
  /\ p # a => t[p] = Newline
  /\ t[a] = Word("Step:") /\ t[a + 1] = Word("number") /\ t[a + 2] = Newline

LEMMA HeaderTaken ==
  ASSUME NEW t \in Seq(Piece), NEW a \in Nat, NEW p \in (a - 1)..a, p > 0,
         NEW q \in Nat, a + 3 <= q, q <= Len(t) + 1, HeaderAt(t, a, p),
         NEW packet, packet = SubSeq(t, p, q - 1)
  PROVE  Lines(After(packet, {Word("Step:")})) = SubSeq(t, a + 3, q - 1)
<1> DEFINE ws == {Word("Step:")}
           u == Upto(packet, ws)
           e == After(packet, ws)
           w == Upto(e, {Newline})
<1>h. /\ p # a => t[p] = Newline
      /\ t[a] = Word("Step:") /\ t[a + 1] = Word("number") /\ t[a + 2] = Newline
  BY DEF HeaderAt
<1>0. Word("Step:") # Newline /\ Word("number") # Newline
  <2>1. Word("Step:").is = "Step:" /\ Word("number").is = "number" /\ Newline.is = "newline"
    BY DEF Word, Newline
  <2> QED BY <2>1
<1>1. /\ packet \in Seq(Piece) /\ Len(packet) = q - p
      /\ \A i \in 1..(q - p) : packet[i] = t[p + i - 1]
  <2>1. p \in Nat /\ q - 1 \in Nat /\ q - 1 <= Len(t) /\ p <= q - 1 /\ (q - 1) - p + 1 = q - p
    OBVIOUS
  <2>2. /\ packet \in Seq(Piece) /\ Len(packet) = (IF p <= q - 1 THEN (q - 1) - p + 1 ELSE 0)
        /\ \A i \in 1..Len(packet) : packet[i] = t[p + i - 1]
    BY <2>1, Parts
  <2> QED BY <2>1, <2>2
<1>2. u = a - p + 1
  <2>1. /\ a - p + 1 \in 1..(q - p) /\ p + (a - p + 1) - 1 = a
        /\ \A i \in 1..(a - p) : i \in 1..(q - p) /\ p + i - 1 = p /\ p # a
    OBVIOUS
  <2>2. packet[a - p + 1] \in ws
    BY <1>h, <1>1, <2>1
  <2>3. \A i \in 1..(a - p) : packet[i] \notin ws
    BY <1>h, <1>0, <1>1, <2>1
  <2>4. u # 0 /\ u <= a - p + 1 /\ u \in 0..Len(packet) /\ packet[u] \in ws
    BY <1>1, <2>1, <2>2, FirstOf
  <2>5. a - p \in Nat
    OBVIOUS
  <2> HIDE DEF u, ws
  <2>6. ~(u \in 1..(a - p))
    BY <2>3, <2>4
  <2>7. u \in Nat
    BY <1>1, <2>4
  <2> QED BY <2>4, <2>5, <2>6, <2>7
<1>3. e = SubSeq(t, a + 1, q - 1)
  <2>1. u # 0 => e = SubSeq(packet, u + 1, Len(packet))
    BY DEF After
  <2> HIDE DEF u, e, ws
  <2>2. e = SubSeq(packet, a - p + 2, q - p)
    <3>1. u # 0 /\ u + 1 = a - p + 2
      BY <1>2
    <3> QED BY <1>1, <2>1, <3>1
  <2>3. /\ p \in Nat /\ q - 1 \in Nat /\ p > 0 /\ q - 1 <= Len(t) /\ p <= (q - 1) + 1
        /\ a - p + 2 \in Nat /\ q - p \in Nat /\ a - p + 2 > 0 /\ p + (q - p) - 1 <= q - 1
        /\ p + (a - p + 2) - 1 = a + 1 /\ p + (q - p) - 1 = q - 1
    OBVIOUS
  <2>4. SubSeq(SubSeq(t, p, q - 1), a - p + 2, q - p) = SubSeq(t, p + (a - p + 2) - 1, p + (q - p) - 1)
    BY <2>3, PartOfPart
  <2> QED BY <2>2, <2>3, <2>4
<1>4. /\ e \in Seq(Piece) /\ Len(e) = q - a - 1
      /\ \A i \in 1..(q - a - 1) : e[i] = t[a + i]
  <2>1. /\ a + 1 \in Nat /\ q - 1 \in Nat /\ a + 1 > 0 /\ q - 1 <= Len(t) /\ a + 1 <= q - 1
        /\ (q - 1) - (a + 1) + 1 = q - a - 1
    OBVIOUS
  <2> HIDE DEF e
  <2>2. /\ e \in Seq(Piece) /\ Len(e) = (IF a + 1 <= q - 1 THEN (q - 1) - (a + 1) + 1 ELSE 0)
        /\ \A i \in 1..Len(e) : e[i] = t[(a + 1) + i - 1]
    BY <1>3, <2>1, Parts
  <2>3. \A i \in 1..(q - a - 1) : (a + 1) + i - 1 = a + i
    OBVIOUS
  <2> QED BY <2>1, <2>2, <2>3
<1> HIDE DEF e
<1>5. w = 2
  <2>1. 1 \in 1..(q - a - 1) /\ 2 \in 1..(q - a - 1)
    OBVIOUS
  <2>2. e[1] = Word("number") /\ e[2] = Newline
    BY <1>h, <1>4, <2>1
  <2>3. e \in Seq(Piece) /\ 2 \in 1..Len(e) /\ e[2] \in {Newline}
    BY <1>4, <2>1, <2>2
  <2>4. w # 0 /\ w <= 2 /\ w \in 0..Len(e)
    BY <2>3, FirstOf
  <2>5. w # 0 => e[w] \in {Newline}
    BY <2>3, FirstOf
  <2>6. e[1] # Newline
    BY <1>0, <2>2
  <2> HIDE DEF w
  <2>7. w # 1
    BY <2>4, <2>5, <2>6
  <2> QED BY <2>3, <2>4, <2>7
<1>6. Lines(e) = SubSeq(e, 3, q - a - 1)
  <2>1. w # 0 => Lines(e) = SubSeq(e, w + 1, Len(e))
    BY DEF Lines, After
  <2> HIDE DEF w
  <2>2. w # 0 /\ w + 1 = 3
    BY <1>5
  <2> QED BY <1>4, <2>1, <2>2
<1>7. SubSeq(SubSeq(t, a + 1, q - 1), 3, q - a - 1) = SubSeq(t, a + 3, q - 1)
  <2>1. /\ a + 1 \in Nat /\ q - 1 \in Nat /\ a + 1 > 0 /\ q - 1 <= Len(t) /\ a + 1 <= (q - 1) + 1
        /\ q - a - 1 \in Nat /\ (a + 1) + (q - a - 1) - 1 <= q - 1
        /\ (a + 1) + 3 - 1 = a + 3 /\ (a + 1) + (q - a - 1) - 1 = q - 1
    OBVIOUS
  <2>2. SubSeq(SubSeq(t, a + 1, q - 1), 3, q - a - 1) = SubSeq(t, (a + 1) + 3 - 1, (a + 1) + (q - a - 1) - 1)
    BY <2>1, PartOfPart
  <2> QED BY <2>1, <2>2
<1> QED BY <1>3, <1>6, <1>7 DEF e

\* What a message takes of a step, as far as q: more of its answer, or the rest.
TakesMore(t, a, b, q, msg, pend) ==
  q <= b - 3 /\ ~HasEnd(msg) /\ pend \o msg = SubSeq(t, a + 3, q - 1)
TakesRest(run, b, q, msg, pend) ==
  /\ q \in {b - 1, b} /\ HasEnd(msg)
  /\ pend \o Before(msg, {Word("End of")}) = AnswerLine(run)
  /\ \A R : R = SubSeq(msg, EndAt(msg) + 2, Len(msg)) => \A i \in 1..Len(R) : R[i] = Newline

LEMMA RestTaken ==
  ASSUME NEW t \in Seq(Piece), NEW run \in Run, \A p \in ToSet(run.holds) : p.is = "predicate",
         NEW a \in Nat, NEW b \in Nat, a > 0, b <= Len(t) + 1, StepAt(t, run, a, b),
         NEW p \in (a + 3)..(b - 3), NEW q \in p..b, q # b - 2,
         NEW msg, msg = SubSeq(t, p, q - 1), NEW pend, pend = SubSeq(t, a + 3, p - 1)
  PROVE  TakesMore(t, a, b, q, msg, pend) \/ TakesRest(run, b, q, msg, pend)
<1> DEFINE u == EndAt(msg)
<1>1. /\ p \in Nat /\ q \in Nat /\ p > 0 /\ q - 1 \in Nat /\ q - 1 <= Len(t) /\ Len(t) \in Nat
      /\ a + 3 <= p /\ p <= b - 3 /\ p <= q /\ q <= b
  OBVIOUS
<1>2. /\ msg \in Seq(Piece) /\ Len(msg) = q - p
      /\ \A i \in 1..(q - p) : msg[i] = t[p + i - 1]
  <2>1. /\ msg \in Seq(Piece) /\ Len(msg) = (IF p <= q - 1 THEN (q - 1) - p + 1 ELSE 0)
        /\ \A i \in 1..Len(msg) : msg[i] = t[p + i - 1]
    BY <1>1, Parts
  <2>2. Len(msg) = q - p
    BY <1>1, <2>1
  <2> QED BY <2>1, <2>2
<1>3. \A i \in a..(b - 1) : (t[i] = Word("End of")) <=> (i = b - 3)
  <2> SUFFICES ASSUME NEW i \in a..(b - 1) PROVE (t[i] = Word("End of")) <=> (i = b - 3)
    OBVIOUS
  <2>1. WordsAt(t, a, b, i)
    BY PiecesOfStep
  <2> QED BY <2>1 DEF WordsAt
<1>4. \A i \in 1..(q - p) : (msg[i] = Word("End of")) <=> (i = b - p - 2)
  <2> SUFFICES ASSUME NEW i \in 1..(q - p) PROVE (msg[i] = Word("End of")) <=> (i = b - p - 2)
    OBVIOUS
  <2>1. p + i - 1 \in a..(b - 1) /\ ((p + i - 1 = b - 3) <=> (i = b - p - 2))
    BY <1>1
  <2> QED BY <1>2, <1>3, <2>1
<1>5. /\ u \in 0..(q - p) /\ (u # 0 => u = b - p - 2)
      /\ b - p - 2 \in 1..(q - p) => u # 0
  <2>1. /\ u \in 0..Len(msg)
        /\ u # 0 => msg[u] \in {Word("End of")}
        /\ \A i \in 1..Len(msg) : msg[i] \in {Word("End of")} => u # 0 /\ u <= i
    BY <1>2, FirstOf DEF EndAt
  <2> HIDE DEF u
  <2>2. u \in 0..(q - p)
    BY <1>2, <2>1
  <2>3. u # 0 => u \in 1..(q - p) /\ msg[u] = Word("End of")
    <3>1. u # 0 => u \in 1..(q - p)
      BY <1>1, <2>2
    <3> QED BY <2>1, <3>1
  <2> QED BY <1>2, <1>4, <2>1, <2>2, <2>3
<1>6. HasEnd(msg) <=> u \in 1..(q - p - 1)
  BY <1>2 DEF HasEnd
<1> HIDE DEF u
<1>7. CASE q <= b - 3
  <2>1. u = 0 \/ u = b - p - 2
    BY <1>5
  <2>2. u = 0
    BY <1>1, <1>5, <1>7, <2>1
  <2>3. ~HasEnd(msg)
    BY <1>6, <2>2
  <2>4. pend \o msg = SubSeq(t, a + 3, q - 1)
    <3>1. /\ a + 3 \in 1..(Len(t) + 1) /\ p - 1 \in ((a + 3) - 1)..Len(t)
          /\ q - 1 \in (p - 1)..Len(t) /\ (p - 1) + 1 = p
      BY <1>1
    <3> QED BY <3>1, ConcatAdjacentSubSeq
  <2> QED BY <1>7, <2>3, <2>4 DEF TakesMore
<1>8. CASE ~(q <= b - 3)
  <2>1. q \in {b - 1, b} /\ b - p - 2 \in 1..(q - p) /\ b - p - 2 \in 1..(q - p - 1)
    BY <1>1, <1>8
  <2>2. u = b - p - 2 /\ HasEnd(msg)
    BY <1>5, <1>6, <2>1
  <2>3. Before(msg, {Word("End of")}) = SubSeq(t, p, b - 4)
    <3>1. u # 0 => Before(msg, {Word("End of")}) = SubSeq(msg, 1, u - 1)
      BY DEF Before, EndAt, u
    <3>2. u # 0 /\ u - 1 = b - p - 3
      BY <2>1, <2>2
    <3>3. /\ 1 \in Nat /\ b - p - 3 \in Nat /\ p <= (q - 1) + 1 /\ p + (b - p - 3) - 1 <= q - 1
          /\ p + 1 - 1 = p /\ p + (b - p - 3) - 1 = b - 4
      BY <1>1, <2>1
    <3>4. SubSeq(SubSeq(t, p, q - 1), 1, b - p - 3) = SubSeq(t, p + 1 - 1, p + (b - p - 3) - 1)
      BY <1>1, <3>3, PartOfPart
    <3> QED BY <3>1, <3>2, <3>3, <3>4
  <2>4. SubSeq(t, a + 3, p - 1) \o SubSeq(t, p, b - 4) = SubSeq(t, a + 3, b - 4)
    <3>1. /\ a + 3 \in 1..(Len(t) + 1) /\ p - 1 \in ((a + 3) - 1)..Len(t)
          /\ b - 4 \in (p - 1)..Len(t) /\ (p - 1) + 1 = p
      BY <1>1
    <3> QED BY <3>1, ConcatAdjacentSubSeq
  <2>5. SubSeq(t, a + 3, b - 4) = AnswerLine(run)
    <3> DEFINE A == AnswerLine(run)
               n == Len(A)
               s == SubSeq(t, a + 3, b - 4)
    <3>1. A \in Seq(Piece) /\ n \in Nat
      BY AnswerLineOf
    <3>2. b = a + 6 + n /\ \A i \in 1..n : t[a + 2 + i] = A[i]
      BY DEF StepAt
    <3>3. a + 3 \in Nat /\ b - 4 \in Nat /\ a + 3 > 0 /\ b - 4 <= Len(t)
      BY <1>1
    <3>4. /\ s \in Seq(Piece) /\ Len(s) = (IF a + 3 <= b - 4 THEN (b - 4) - (a + 3) + 1 ELSE 0)
          /\ \A i \in 1..Len(s) : s[i] = t[(a + 3) + i - 1]
      BY <3>3, Parts
    <3> HIDE DEF A, s
    <3>5. Len(s) = Len(A)
      <4> HIDE DEF n
      <4>1. Len(s) = n
        BY <3>1, <3>2, <3>4
      <4> QED BY <4>1 DEF n
    <3>6. \A i \in 1..Len(A) : s[i] = A[i]
      <4> SUFFICES ASSUME NEW i \in 1..Len(A) PROVE s[i] = A[i]
        OBVIOUS
      <4>1. (a + 3) + i - 1 = a + 2 + i
        BY <3>1
      <4> QED BY <3>2, <3>4, <3>5, <4>1
    <3>7. s = A
      BY <3>1, <3>4, <3>5, <3>6
    <3> QED BY <3>7 DEF s, A
  <2>6. ASSUME NEW R, R = SubSeq(msg, EndAt(msg) + 2, Len(msg)), NEW i \in 1..Len(R)
        PROVE  R[i] = Newline
    <3>1. R = SubSeq(msg, b - p, q - p)
      <4>1. u + 2 = b - p
        BY <1>1, <2>2
      <4> QED BY <1>2, <2>6, <4>1 DEF u
    <3>2. b - p \in Nat /\ q - p \in Nat /\ b - p > 0 /\ q - p <= Len(msg)
      BY <1>1, <1>2
    <3>3. /\ Len(R) = (IF b - p <= q - p THEN (q - p) - (b - p) + 1 ELSE 0)
          /\ \A j \in 1..Len(R) : R[j] = msg[(b - p) + j - 1] /\ (b - p) + j - 1 \in (b - p)..(q - p)
      BY <1>2, <3>1, <3>2, Parts
    <3>4. R[i] = msg[(b - p) + i - 1] /\ (b - p) + i - 1 \in (b - p)..(q - p)
      BY <2>6, <3>3
    <3> HIDE DEF u
    <3>5. (b - p) + i - 1 = b - p /\ b - p \in 1..(q - p) /\ p + (b - p) - 1 = b - 1
      <4>1. (b - p) + i - 1 \in (b - p)..(q - p) /\ q <= b
        BY <1>1, <3>4
      <4>2. i \in Nat /\ i > 0
        BY <2>6, <3>3, <3>2
      <4> QED BY <1>1, <3>2, <4>1, <4>2
    <3>6. R[i] = t[b - 1]
      BY <1>2, <3>4, <3>5
    <3> QED BY <3>6 DEF StepAt
  <2> QED BY <2>1, <2>2, <2>3, <2>4, <2>5, <2>6 DEF TakesRest
<1> QED BY <1>7, <1>8

\* The answers of the first steps.
First(r, k) == Answered(SubSeq(r, 1, k))

LEMMA FirstNext ==
  ASSUME NEW r \in Runs, NEW k \in 1..Len(r)
  PROVE  /\ First(r, k - 1) \in Seq(Run)
         /\ First(r, k) = IF r[k].answered THEN Append(First(r, k - 1), r[k]) ELSE First(r, k - 1)
<1> DEFINE s == SubSeq(r, 1, k - 1)
           x == r[k]
           l == SubSeq(r, 1, k)
           before == {i \in DOMAIN s : s[i].answered}
           places == {i \in DOMAIN l : l[i].answered}
<1>1. r \in Seq(Run) /\ Len(r) \in Nat /\ x \in Run /\ k \in Nat /\ k > 0 /\ k <= Len(r)
  BY RunsOf
<1>2. s \in Seq(Run) /\ Len(s) = k - 1 /\ \A i \in 1..(k - 1) : s[i] = r[i]
  <2>1. 1 \in Nat /\ k - 1 \in Nat /\ k - 1 <= Len(r)
    BY <1>1
  <2>2. /\ s \in Seq(Run) /\ Len(s) = (IF 1 <= k - 1 THEN (k - 1) - 1 + 1 ELSE 0)
        /\ \A i \in 1..Len(s) : s[i] = r[1 + i - 1]
    BY <1>1, <2>1, Parts
  <2> QED BY <2>1, <2>2
<1>3. l \in Seq(Run) /\ Len(l) = k /\ \A i \in 1..k : l[i] = r[i]
  <2>2. /\ l \in Seq(Run) /\ Len(l) = (IF 1 <= k THEN k - 1 + 1 ELSE 0)
        /\ \A i \in 1..Len(l) : l[i] = r[1 + i - 1]
    BY <1>1, Parts
  <2> QED BY <1>1, <2>2
<1> HIDE DEF s, l, x
<1>4. l = Append(s, x)
  <2>1. Append(s, x) \in Seq(Run) /\ Len(Append(s, x)) = k
    BY <1>1, <1>2
  <2>2. \A i \in 1..k : Append(s, x)[i] = l[i]
    <3> SUFFICES ASSUME NEW i \in 1..k PROVE Append(s, x)[i] = l[i]
      OBVIOUS
    <3>1. CASE i = k
      BY <1>1, <1>2, <1>3, <3>1 DEF x
    <3>2. CASE i # k
      <4>1. i \in 1..(k - 1)
        BY <1>1, <3>2
      <4> QED BY <1>1, <1>2, <1>3, <4>1
    <3> QED BY <3>1, <3>2
  <2> QED BY <1>3, <2>1, <2>2
<1>5. \A n \in 1..Len(s) : n \in before <=> n \in places
  <2> SUFFICES ASSUME NEW n \in 1..(k - 1) PROVE n \in before <=> n \in places
    BY <1>2
  <2>1. n \in DOMAIN s /\ n \in DOMAIN l /\ s[n] = l[n]
    BY <1>1, <1>2, <1>3
  <2> QED BY <2>1
<1>6. Len(s) + 1 \in places <=> x.answered
  <2>1. Len(s) + 1 = k /\ k \in DOMAIN l /\ l[k] = x
    BY <1>1, <1>2, <1>3 DEF x
  <2> QED BY <2>1
<1>7. First(r, k) = Only(l, places) /\ First(r, k - 1) = Only(s, before)
  BY DEF First, Answered, l, s
<1> HIDE DEF before, places
<1>8. Only(s, before) \in Seq(Run)
  BY <1>2, OnlyPicks
<1>9. Only(Append(s, x), places) =
        IF Len(s) + 1 \in places THEN Append(Only(s, before), x) ELSE Only(s, before)
  BY <1>1, <1>2, <1>5, OnlyNext
<1> QED BY <1>4, <1>6, <1>7, <1>8, <1>9 DEF x

\* Those of the steps before step k were shown.
StepsShown(o, r, k) == ShownSoFar(o, First(r, k - 1), Len(First(r, k - 1)))

\* The rest of a step shows its answer, if it has one.
LEMMA OneMoreStep ==
  ASSUME "bridge" \in Programs, NEW r \in Runs, NEW t \in Texts("bridge", r), NEW k \in 1..Len(r),
         NEW S, NEW o \in Seq(S), StepsShown(o, r, k),
         NEW s \in Seq(Piece), s = AnswerLine(r[k]) \o <<Newline>>
  PROVE  StepsShown(o \o Displayed(s), r, k + 1)
<1> DEFINE A == First(r, k - 1)
           m == Len(A)
           run == r[k]
           x == PathOutput(Path(s))
<1>1. /\ run \in Run /\ IsInjective(run.holds) /\ \A p \in ToSet(run.holds) : p.is = "predicate"
      /\ run.holds \in Seq(Piece)
  <2>1. run \in Run /\ IsInjective(run.holds) /\ \A p \in ToSet(run.holds) : p.is = "predicate"
    BY RunsOf
  <2> QED BY <2>1 DEF Run
<1>2. /\ A \in Seq(Run) /\ m \in Nat
      /\ First(r, k) = IF run.answered THEN Append(A, run) ELSE A
  BY FirstNext
<1>3. (k + 1) - 1 = k
  BY RunsOf
<1>4. ShownSoFar(o, A, m)
  BY DEF StepsShown
<1>5. Newline \in Piece
  BY NewlineIsNoMarker
<1>6. CASE ~run.answered
  <2>1. s = <<>> \o <<Newline>>
    BY <1>6 DEF AnswerLine
  <2>2. s = <<Newline>>
    <3>1. <<Newline>> \in Seq(Piece)
      BY <1>5
    <3> QED BY <2>1, <3>1, ConcatEmptySeq
  <2>3. s # <<>> /\ s[1] = Newline
    BY <2>2
  <2>4. Displayed(s) = <<>>
    BY <2>3, EmptyLineShown
  <2>5. o \o Displayed(s) = o
    BY <2>4, ConcatEmptySeq
  <2>6. First(r, k) = A
    BY <1>2, <1>6
  <2> QED BY <1>3, <1>4, <2>5, <2>6 DEF StepsShown
<1>7. CASE run.answered
  <2> DEFINE holds == run.holds
             n == Len(holds)
             B == Append(A, run)
  <2>1. s = Append(holds, Newline) \o <<Newline>>
    BY <1>7 DEF AnswerLine
  <2>2. Len(s) > n /\ s[n + 1] = Newline /\ \A i \in 1..n : s[i] = holds[i]
    <3> HIDE DEF holds
    <3>0. holds \in Seq(Piece)
      BY <1>1 DEF holds
    <3>1. /\ Append(holds, Newline) \in Seq(Piece) /\ <<Newline>> \in Seq(Piece) /\ n \in Nat
          /\ Len(Append(holds, Newline)) = n + 1 /\ Len(<<Newline>>) = 1
          /\ Append(holds, Newline)[n + 1] = Newline
          /\ \A i \in 1..n : Append(holds, Newline)[i] = holds[i]
      BY <1>5, <3>0
    <3> DEFINE h == Append(holds, Newline)
               e == <<Newline>>
    <3>2. s = h \o e /\ h \in Seq(Piece) /\ e \in Seq(Piece) /\ Len(h) = n + 1 /\ Len(e) = 1
      BY <2>1, <3>1
    <3> HIDE DEF h, e, n
    <3>3. /\ Len(s) = Len(h) + Len(e)
          /\ \A i \in 1..(Len(h) + Len(e)) : s[i] = IF i <= Len(h) THEN h[i] ELSE e[i - Len(h)]
      <4>1. /\ Len(h \o e) = Len(h) + Len(e)
            /\ \A i \in 1..(Len(h) + Len(e)) :
                 (h \o e)[i] = IF i <= Len(h) THEN h[i] ELSE e[i - Len(h)]
        BY <3>2, ConcatProperties
      <4> QED BY <3>2, <4>1, Zenon
    <3>4. Len(s) > n /\ \A i \in 1..(n + 1) : s[i] = h[i]
      BY <3>1, <3>2, <3>3
    <3>5. n + 1 \in 1..(n + 1) /\ \A i \in 1..n : i \in 1..(n + 1)
      BY <3>1
    <3> QED BY <3>1, <3>4, <3>5 DEF h
  <2>3. Line(s) = holds
    BY <1>1, <2>2, LineOfAnswer
  <2>4. \E p \in ToSet(holds) : p.time # Timeless
    <3>1. k \in DOMAIN r
      BY RunsOf
    <3> QED BY <1>7, <3>1, TextsAssumption
  <2>5. Shows(x, holds) /\ x.what = "path" /\ Displayed(s) = <<x>>
    BY <1>1, <2>3, <2>4, AnswerShown
  <2>6. First(r, k) = B
    BY <1>2, <1>7
  <2>7. B \in Seq(Run) /\ Len(B) = m + 1 /\ B[m + 1] = run /\ \A i \in 1..m : B[i] = A[i]
    BY <1>1, <1>2
  <2> HIDE DEF x, B, A
  <2>8. ShownSoFar(o, B, m)
    BY <1>4, <2>7 DEF ShownSoFar
  <2> DEFINE U == S \cup {x}
  <2>9. o \in Seq(U) /\ x \in U
    BY SeqMonotonic
  <2>10. ShownSoFar(Append(o, x), B, m + 1)
    <3>1. Shows(x, B[m + 1].holds)
      BY <2>5, <2>7
    <3> HIDE DEF U, m
    <3> QED BY <1>2, <2>5, <2>8, <2>9, <3>1, OneMoreShown
  <2>11. o \o Displayed(s) = Append(o, x)
    <3> HIDE DEF U
    <3>1. o \o <<x>> = Append(o, x)
      BY <2>9
    <3> QED BY <2>5, <3>1
  <2> QED BY <1>3, <2>6, <2>7, <2>10, <2>11 DEF StepsShown
<1> QED BY <1>6, <1>7

-----------------------------------------------------------------------------
(* What the bridge shows. *)

\* Between two steps only line ends were collected.
Between(at, pos, k) ==
  /\ pos = at[k] \/ (k > 1 /\ pos = at[k] - 1)
  /\ \A i \in 1..Len(mOclingoOut) : mOclingoOut[i] = Newline

\* Inside a step, what was collected is its answer as far as it was read.
Inside(at, pos, k) ==
  /\ k <= Len(found) /\ pos \in (at[k] + 3)..(at[k + 1] - 3)
  /\ mOclingoOut = SubSeq(given, at[k] + 3, pos - 1)

\* The answers of the steps before step k were shown.
CollectUpTo(at, pos, k) ==
  /\ given \in Texts("bridge", found) /\ Stepped(given, found, at)
  /\ pos \in 1..(Len(given) + 1) /\ text = SubSeq(given, pos, Len(given))
  /\ k \in 1..(Len(found) + 1) /\ StepsShown(out, found, k)
  /\ Between(at, pos, k) \/ Inside(at, pos, k)

CollectInv == program = "bridge" => \E at, pos, k : CollectUpTo(at, pos, k)

\* A packet whose message goes on with step k.
LEMMA StepCollected ==
  ASSUME "bridge" \in Programs, found \in Runs, given \in Texts("bridge", found),
         NEW at, Stepped(given, found, at), NEW k \in 1..Len(found),
         NEW S, out \in Seq(S), StepsShown(out, found, k), mOclingoOut \in Seq(Piece),
         NEW p \in (at[k] + 3)..(at[k + 1] - 3), NEW q \in p..at[k + 1], q # at[k + 1] - 2,
         NEW packet \in Seq(Piece), Packet(packet), Flushed(packet) = <<>>,
         Message(packet) = SubSeq(given, p, q - 1),
         Pending(packet) = SubSeq(given, at[k] + 3, p - 1),
         text' = SubSeq(given, q, Len(given)), UNCHANGED <<found, given>>
  PROVE  CollectUpTo(at, q, k)' \/ CollectUpTo(at, q, k + 1)'
<1> DEFINE a == at[k]
           b == at[k + 1]
           N == Len(given)
           n == Len(found)
           run == found[k]
           msg == Message(packet)
           pend == Pending(packet)
<1>1. /\ run \in Run /\ \A i \in ToSet(run.holds) : i.is = "predicate"
      /\ a \in 1..(N + 1) /\ b \in 1..(N + 1) /\ a \in Nat /\ b \in Nat /\ StepAt(given, run, a, b)
  BY StepOfSteps
<1>2. given \in Seq(Piece) /\ N \in Nat /\ n \in Nat /\ k \in Nat /\ k <= n /\ k > 0
  BY DEF Stepped
<1>3. /\ p \in (a + 3)..(b - 3) /\ q \in p..b /\ q # b - 2
      /\ msg = SubSeq(given, p, q - 1) /\ pend = SubSeq(given, a + 3, p - 1)
  OBVIOUS
<1> HIDE DEF a, b, N, n, run, msg, pend
<1>4. a > 0 /\ b <= N + 1
  BY <1>1, <1>2
<1>5. TakesMore(given, a, b, q, msg, pend) \/ TakesRest(run, b, q, msg, pend)
  <2>1. b <= Len(given) + 1
    BY <1>4 DEF N
  <2> QED BY <1>1, <1>2, <1>3, <1>4, <2>1, RestTaken, Zenon
<1>6. q \in 1..(N + 1) /\ q \in Nat /\ p \in Nat
  BY <1>1, <1>2, <1>3, <1>4
<1>7. out \o Flushed(packet) = out
  BY ConcatEmptySeq
<1>8. CASE TakesMore(given, a, b, q, msg, pend)
  <2>0. q <= b - 3 /\ ~HasEnd(msg) /\ pend \o msg = SubSeq(given, a + 3, q - 1)
    BY <1>8 DEF TakesMore
  <2>1. out' = out \o Flushed(packet) /\ mOclingoOut' = pend \o msg
    BY <2>0, PacketTaken DEF msg, pend
  <2>2. out' = out /\ mOclingoOut' = SubSeq(given, a + 3, q - 1)
    BY <1>7, <2>0, <2>1
  <2>3. q \in (a + 3)..(b - 3)
    BY <1>1, <1>3, <1>6, <2>0
  <2>4. Inside(at, q, k)'
    BY <1>2, <2>2, <2>3 DEF Inside, a, b, n
  <2>5. k \in 1..(Len(found) + 1)
    BY <1>2 DEF n
  <2> QED BY <1>6, <2>2, <2>4, <2>5 DEF CollectUpTo, N
<1>9. CASE TakesRest(run, b, q, msg, pend)
  <2> DEFINE s == Finished(packet)
  <2>0. /\ q \in {b - 1, b} /\ HasEnd(msg)
        /\ pend \o Before(msg, {Word("End of")}) = AnswerLine(run)
        /\ \A R : R = SubSeq(msg, EndAt(msg) + 2, Len(msg)) => \A i \in 1..Len(R) : R[i] = Newline
    BY <1>9 DEF TakesRest
  <2>1. /\ out' = out \o Flushed(packet) \o Displayed(s)
        /\ mOclingoOut' = SubSeq(msg, EndAt(msg) + 2, Len(msg))
    BY <2>0, PacketTaken DEF msg
  <2>2. s = AnswerLine(run) \o <<Newline>> /\ s \in Seq(Piece)
    BY <2>0, PacketParts DEF Finished, msg, pend
  <2> HIDE DEF s
  <2>3. out' = out \o Displayed(s)
    BY <1>7, <2>1
  <2>4. StepsShown(out', found, k + 1)
    <3>1. StepsShown(out \o Displayed(s), found, k + 1)
      BY <2>2, OneMoreStep DEF run
    <3> QED BY <2>3, <3>1
  <2>5. \A i \in 1..Len(mOclingoOut') : mOclingoOut'[i] = Newline
    BY <2>0, <2>1
  <2>6. k + 1 > 1 /\ k + 1 \in 1..(n + 1)
    BY <1>2
  <2>7. Between(at, q, k + 1)'
    BY <2>0, <2>5, <2>6 DEF Between, b
  <2> QED BY <1>6, <2>4, <2>6, <2>7 DEF CollectUpTo, N, n
<1> QED BY <1>5, <1>8, <1>9

\* A packet that holds something of a step does not reach into the next one.
LEMMA PacketInStep ==
  ASSUME NEW r \in Runs, NEW t, NEW at, Stepped(t, r, at), NEW k \in 1..Len(r),
         NEW pos \in Nat, pos > 0, NEW q \in Nat, q <= Len(t) + 1,
         NEW m \in pos..(at[k + 1] - 1), t[m] # Newline,
         \A i \in pos..(q - 1) : t[i] = Word("Step:") => \A j \in pos..(i - 1) : t[j] = Newline
  PROVE  q <= at[k + 1]
<1> DEFINE b == at[k + 1]
           n == Len(r)
           N == Len(t)
<1>1. b \in Nat /\ b \in 1..(N + 1)
  BY StepOfSteps
<1>2. n \in Nat /\ N \in Nat /\ at[n + 1] = N + 1
  BY DEF Stepped
<1> SUFFICES ASSUME q > b PROVE FALSE
  BY <1>1
<1>3. k \in 1..n /\ m \in pos..(b - 1) /\ q <= N + 1
  OBVIOUS
<1>4. \A i \in pos..(q - 1) : t[i] = Word("Step:") => \A j \in pos..(i - 1) : t[j] = Newline
  OBVIOUS
<1> HIDE DEF n, N
<1>5. k # n
  <2> SUFFICES ASSUME k = n PROVE FALSE
    OBVIOUS
  <2>1. b = N + 1
    BY <1>2
  <2> HIDE DEF b
  <2> QED BY <1>2, <1>3, <2>1
<1>6. k + 1 \in 1..n
  BY <1>2, <1>3, <1>5
<1>7. t[b] = Word("Step:")
  <2>1. StepAt(t, r[k + 1], at[k + 1], at[(k + 1) + 1])
    BY <1>6, StepOfSteps DEF n
  <2> QED BY <2>1 DEF StepAt
<1> HIDE DEF b
<1>8. b \in pos..(q - 1)
  BY <1>1, <1>3
<1>9. t[m] = Newline
  BY <1>3, <1>4, <1>7, <1>8
<1> QED BY <1>9

LEMMA PacketCollected ==
  ASSUME MarkersWhole, TypeInv, OutInv, PacketArrived,
         NEW at, NEW pos, NEW k, CollectUpTo(at, pos, k)
  PROVE  \E p, j : CollectUpTo(at, p, j)'
<1> DEFINE N == Len(given)
<1>1. PICK n \in 1..MaxPacket :
        /\ n <= Len(text) /\ Whole(SubSeq(text, 1, n)) /\ Packet(SubSeq(text, 1, n))
        /\ text' = SubSeq(text, n + 1, Len(text))
  BY DEF PacketArrived
<1> DEFINE packet == SubSeq(text, 1, n)
           q == pos + n
<1>2. /\ "bridge" \in Programs /\ found \in Runs /\ UNCHANGED <<found, given>>
      /\ mOclingoOut \in Seq(Piece) /\ out \in Seq(LineItem \cup PathItem)
  BY DEF PacketArrived, TypeInv, OutInv
<1>3. /\ given \in Texts("bridge", found) /\ Stepped(given, found, at)
      /\ pos \in 1..(N + 1) /\ text = SubSeq(given, pos, N)
      /\ k \in 1..(Len(found) + 1) /\ StepsShown(out, found, k)
      /\ Between(at, pos, k) \/ Inside(at, pos, k)
  BY DEF CollectUpTo
<1>4. /\ given \in Seq(Piece) /\ N \in Nat /\ Len(found) \in Nat
      /\ at[Len(found) + 1] = N + 1
      /\ \A j \in 1..(Len(found) + 1) : at[j] \in 1..(N + 1)
  BY <1>3 DEF Stepped
<1>5. Len(text) = N - pos + 1
  BY <1>3, <1>4, EndOfText
<1>n. n \in Nat /\ n > 0 /\ n <= Len(text)
  BY <1>1, AnswersAssumption
<1> HIDE DEF N, q
<1>6. /\ pos \in Nat /\ pos > 0 /\ q \in Nat /\ q = pos + n /\ pos < q /\ q <= N + 1
      /\ k \in Nat /\ k > 0 /\ at[k] \in Nat
  BY <1>n, <1>3, <1>4, <1>5 DEF q
<1>7. packet = SubSeq(given, pos, q - 1) /\ text' = SubSeq(given, q, N)
  <2>0. N <= Len(given) /\ pos <= N + 1
    BY <1>3, <1>4 DEF N
  <2>1. /\ pos + n - 1 <= N /\ pos + 1 - 1 = pos /\ pos + n - 1 = q - 1
        /\ n + 1 \in Nat /\ n + 1 > 0 /\ Len(text) \in Nat /\ pos + Len(text) - 1 <= N
        /\ pos + (n + 1) - 1 = q /\ pos + Len(text) - 1 = N
    BY <1>n, <1>4, <1>5, <1>6
  <2>2. SubSeq(SubSeq(given, pos, N), 1, n) = SubSeq(given, pos + 1 - 1, pos + n - 1)
    BY <1>n, <1>4, <1>6, <2>0, <2>1, PartOfPart
  <2>3. SubSeq(SubSeq(given, pos, N), n + 1, Len(text)) =
          SubSeq(given, pos + (n + 1) - 1, pos + Len(text) - 1)
    BY <1>4, <1>6, <2>0, <2>1, PartOfPart
  <2>4. packet = SubSeq(given, pos, q - 1)
    BY <1>3, <2>1, <2>2
  <2> QED BY <1>1, <1>3, <2>1, <2>3, <2>4
<1>8. Whole(packet) /\ Packet(packet)
  BY <1>1
<1> HIDE DEF packet
<1>9. /\ packet \in Seq(Piece) /\ Len(packet) = q - pos
      /\ given[q - 1] # Word("End of")
      /\ \A i \in pos..(q - 1) : given[i] = Word("Step:") =>
           (\A j \in pos..(i - 1) : given[j] = Newline) /\ \E j \in i..(q - 1) : given[j] = Newline
      /\ (\E i \in DOMAIN packet : packet[i] = Word("Step:")) <=>
           \E i \in pos..(q - 1) : given[i] = Word("Step:")
  <2>1. q <= Len(given) + 1
    BY <1>6 DEF N
  <2>2. PacketOf(packet, given, pos, q)
    BY <1>4, <1>6, <1>7, <1>8, <2>1, WholePacket, Zenon
  <2> QED BY <2>2, Zenon DEF PacketOf
<1>10. CASE Between(at, pos, k) /\ q <= at[k]
  <2>1. k > 1 /\ pos = at[k] - 1 /\ \A i \in 1..Len(mOclingoOut) : mOclingoOut[i] = Newline
    BY <1>6, <1>10 DEF Between
  <2>2. q = at[k] /\ Len(packet) = 1 /\ q - 1 = pos
    <3> DEFINE a == at[k]
    <3>1. a \in Nat /\ pos = a - 1 /\ q <= a /\ Len(packet) = q - pos
      BY <1>6, <1>9, <1>10, <2>1
    <3> HIDE DEF a
    <3>2. q = a /\ Len(packet) = 1 /\ q - 1 = pos
      BY <1>6, <3>1
    <3> QED BY <3>2 DEF a
  <2>3. given[pos] = Newline
    <3>1. k - 1 \in 1..Len(found) /\ (k - 1) + 1 = k
      BY <1>3, <1>4, <1>6, <2>1
    <3>2. StepAt(given, found[k - 1], at[k - 1], at[k])
      BY <1>2, <1>3, <3>1, StepOfSteps
    <3> QED BY <2>1, <3>2 DEF StepAt
  <2>4. ~\E i \in DOMAIN packet : packet[i] = Word("Step:")
    <3>1. Newline # Word("Step:")
      BY DEF Newline, Word
    <3>2. \A i \in pos..(q - 1) : i = pos
      BY <1>6, <2>2
    <3> QED BY <1>9, <2>3, <3>1, <3>2
  <2>5. Message(packet) = packet /\ Pending(packet) = mOclingoOut /\ Flushed(packet) = <<>>
    BY <2>4 DEF Message, Pending, Flushed
  <2>6. ~HasEnd(packet)
    <3>1. EndAt(packet) \in 0..1
      BY <1>9, <2>2, FirstOf DEF EndAt
    <3> QED BY <2>2, <3>1 DEF HasEnd
  <2>7. out' = out \o <<>> /\ mOclingoOut' = mOclingoOut \o packet
    BY <1>8, <2>5, <2>6, PacketTaken
  <2>8. out' = out
    BY <1>2, <2>7, ConcatEmptySeq
  <2>9. \A i \in 1..Len(mOclingoOut') : mOclingoOut'[i] = Newline
    <3>1. packet[1] = Newline
      <4>1. packet = SubSeq(given, pos, pos) /\ pos <= Len(given)
        BY <1>6, <1>7, <2>2 DEF N
      <4>2. SubSeq(given, pos, pos)[1] = given[pos + 1 - 1]
        <5>1. 1 \in 1..Len(SubSeq(given, pos, pos))
          <6>1. 1 \in 1..Len(packet)
            BY <2>2
          <6> QED BY <4>1, <6>1, Zenon
        <5> QED BY <1>4, <1>6, <4>1, <5>1, Parts
      <4>3. pos + 1 - 1 = pos
        BY <1>6
      <4> QED BY <2>3, <4>1, <4>2, <4>3
    <3> DEFINE o == mOclingoOut
               e == packet
    <3>2. /\ Len(o \o e) = Len(o) + Len(e)
          /\ \A i \in 1..(Len(o) + Len(e)) : (o \o e)[i] = IF i <= Len(o) THEN o[i] ELSE e[i - Len(o)]
      BY <1>2, <1>9, ConcatProperties
    <3>3. Len(o) \in Nat
      BY <1>2
    <3> DEFINE m == Len(o)
    <3>4. \A i \in 1..(m + 1) : (o \o e)[i] = Newline
      <4>1. /\ m \in Nat /\ e[1] = Newline /\ \A i \in 1..m : o[i] = Newline
            /\ \A i \in 1..(m + 1) : (o \o e)[i] = IF i <= m THEN o[i] ELSE e[i - m]
        BY <2>1, <2>2, <3>1, <3>2, <3>3
      <4> HIDE DEF m, o, e
      <4>2. \A i \in 1..(m + 1) : i \in 1..m \/ (~(i <= m) /\ i - m = 1)
        BY <4>1
      <4>3. \A i \in 1..m : i <= m
        BY <4>1
      <4> QED BY <4>1, <4>2, <4>3
    <3> QED BY <2>2, <2>7, <3>2, <3>4
  <2>10. Between(at, q, k)'
    BY <2>2, <2>9 DEF Between
  <2>11. q \in 1..(N + 1)
    BY <1>4, <1>6
  <2>12. CollectUpTo(at, q, k)'
    BY <1>2, <1>3, <1>7, <2>8, <2>10, <2>11 DEF CollectUpTo, N
  <2> QED BY <2>12
<1> DEFINE a == at[k]
           b == at[k + 1]
<1>13. ASSUME k \in 1..Len(found)
       PROVE  /\ a \in Nat /\ b \in Nat /\ a + 6 <= b /\ StepAt(given, found[k], a, b)
              /\ found[k] \in Run /\ \A i \in ToSet(found[k].holds) : i.is = "predicate"
              /\ given[a] = Word("Step:") /\ given[a + 1] = Word("number")
              /\ given[a + 2] = Newline /\ given[b - 3] = Word("End of")
  <2>1. /\ a \in Nat /\ b \in Nat /\ a + 6 <= b /\ StepAt(given, found[k], a, b)
        /\ found[k] \in Run /\ \A i \in ToSet(found[k].holds) : i.is = "predicate"
    BY <1>2, <1>3, <1>13, StepOfSteps
  <2>2. /\ given[a] = Word("Step:") /\ given[a + 1] = Word("number")
        /\ given[a + 2] = Newline /\ given[b - 3] = Word("End of")
    BY <2>1 DEF StepAt
  <2> QED BY <2>1, <2>2
<1>14. Newline # Word("Step:") /\ Newline # Word("End of") /\ Newline # Word("number")
  <2>1. /\ Newline.is = "newline" /\ Word("Step:").is = "Step:" /\ Word("End of").is = "End of"
        /\ Word("number").is = "number"
    BY DEF Newline, Word
  <2> QED BY <2>1
<1>15. ASSUME k \in 1..Len(found), NEW m \in pos..(b - 1), given[m] # Newline PROVE q <= b
  <2>1. \A i \in pos..(q - 1) : given[i] = Word("Step:") => \A j \in pos..(i - 1) : given[j] = Newline
    BY <1>9
  <2>2. q <= Len(given) + 1
    BY <1>6 DEF N
  <2> QED BY <1>2, <1>3, <1>6, <1>15, <2>1, <2>2, PacketInStep
<1>16. ASSUME k \in 1..Len(found), NEW p \in (a + 3)..(b - 3), p <= q, q <= b, Flushed(packet) = <<>>,
              Message(packet) = SubSeq(given, p, q - 1), Pending(packet) = SubSeq(given, a + 3, p - 1)
       PROVE  CollectUpTo(at, q, k)' \/ CollectUpTo(at, q, k + 1)'
  <2>1. a \in Nat /\ b \in Nat
    BY <1>13, <1>16
  <2>2. q # b - 2
    <3> SUFFICES ASSUME q = b - 2 PROVE FALSE
      OBVIOUS
    <3>2. given[b - 3] = Word("End of")
      BY <1>13, <1>16, Zenon
    <3> HIDE DEF b
    <3>1. q - 1 = b - 3
      BY <2>1
    <3> QED BY <1>9, <3>1, <3>2, Zenon
  <2>3. q \in p..b
    <3>1. p \in (a + 3)..(b - 3) /\ p <= q /\ q <= b
      BY <1>16
    <3> HIDE DEF a, b
    <3> QED BY <1>6, <2>1, <3>1
  <2>4. text' = SubSeq(given, q, Len(given))
    BY <1>7 DEF N
  <2> QED BY <1>2, <1>3, <1>8, <1>9, <1>16, <2>2, <2>3, <2>4, StepCollected
<1>11. CASE Between(at, pos, k) /\ ~(q <= at[k])
  <2>1. /\ pos = a \/ (k > 1 /\ pos = a - 1)
        /\ \A i \in 1..Len(mOclingoOut) : mOclingoOut[i] = Newline
    BY <1>11 DEF Between
  <2>2. k \in 1..Len(found)
    <3>1. k # Len(found) + 1
      <4> SUFFICES ASSUME k = Len(found) + 1 PROVE FALSE
        OBVIOUS
      <4>1. a = N + 1
        BY <1>4
      <4> HIDE DEF a
      <4> QED BY <1>6, <1>11, <4>1 DEF a
    <3> QED BY <1>3, <1>4, <3>1
  <2>3. /\ a \in Nat /\ b \in Nat /\ a + 6 <= b
        /\ given[a] = Word("Step:") /\ given[a + 1] = Word("number") /\ given[a + 2] = Newline
    BY <1>13, <2>2
  <2>4. pos <= a /\ a < q /\ ~(q <= a) /\ pos \in {a - 1, a}
    BY <1>6, <1>11, <2>1, <2>3
  <2>5. a \in pos..(q - 1) /\ a \in pos..(b - 1)
    <3> HIDE DEF a, b
    <3> QED BY <1>6, <2>3, <2>4
  <2>6. PICK j \in a..(q - 1) : given[j] = Newline
    BY <1>9, <2>3, <2>5
  <2>7. a + 3 <= q
    <3> HIDE DEF a, b
    <3>1. j # a /\ j # a + 1
      BY <1>14, <2>3, <2>6
    <3> QED BY <1>6, <2>3, <2>6, <3>1
  <2>8. q <= b
    BY <1>14, <1>15, <2>2, <2>3, <2>5
  <2>9. \E i \in DOMAIN packet : packet[i] = Word("Step:")
    BY <1>9, <2>3, <2>5
  <2>10. Message(packet) = SubSeq(given, a + 3, q - 1)
    <3>1. Message(packet) = Lines(After(packet, {Word("Step:")}))
      BY <2>9 DEF Message
    <3>2. pos # a => given[pos] = Newline
      <4> SUFFICES ASSUME pos # a PROVE given[pos] = Newline
        OBVIOUS
      <4>1. k > 1 /\ pos = a - 1
        BY <2>1
      <4>2. k - 1 \in 1..Len(found) /\ (k - 1) + 1 = k
        BY <1>3, <1>4, <1>6, <4>1
      <4>3. StepAt(given, found[k - 1], at[k - 1], at[k])
        BY <1>2, <1>3, <4>2, StepOfSteps
      <4> QED BY <4>1, <4>3 DEF StepAt
    <3>3. q <= Len(given) + 1
      BY <1>6 DEF N
    <3> HIDE DEF a
    <3>4. /\ given \in Seq(Piece) /\ a \in Nat /\ pos \in (a - 1)..a /\ pos > 0 /\ q \in Nat
          /\ a + 3 <= q /\ packet = SubSeq(given, pos, q - 1)
      BY <1>4, <1>6, <1>7, <2>3, <2>4, <2>7
    <3>6. HeaderAt(given, a, pos)
      BY <2>3, <3>2 DEF HeaderAt
    <3>5. Lines(After(packet, {Word("Step:")})) = SubSeq(given, a + 3, q - 1)
      BY <3>3, <3>4, <3>6, HeaderTaken, Zenon
    <3> QED BY <3>1, <3>5
  <2>11. Pending(packet) = SubSeq(given, a + 3, (a + 3) - 1)
    <3>1. Pending(packet) = <<>>
      BY <2>9 DEF Pending
    <3> HIDE DEF a
    <3>2. a + 3 \in Int /\ (a + 3) - 1 \in Int /\ (a + 3) - 1 < a + 3
      BY <2>3
    <3> QED BY <3>1, <3>2, SubSeqEmpty
  <2>12. Flushed(packet) = <<>>
    <3> DEFINE s == Append(mOclingoOut, Newline)
    <3>1. Flushed(packet) = Displayed(s)
      BY <2>9 DEF Flushed
    <3>2. s \in Seq(Piece) /\ s # <<>> /\ s[1] = Newline
      <4>1. Newline \in Piece
        BY NewlineIsNoMarker
      <4> DEFINE o == mOclingoOut
      <4>2. o \in Seq(Piece) /\ Len(o) \in Nat /\ \A i \in 1..Len(o) : o[i] = Newline
        BY <1>2, <2>1
      <4> HIDE DEF o
      <4>5. /\ Append(o, Newline) \in Seq(Piece) /\ Append(o, Newline) # <<>>
            /\ \A i \in 1..(Len(o) + 1) :
                 Append(o, Newline)[i] = IF i <= Len(o) THEN o[i] ELSE Newline
        BY <4>1, <4>2, AppendProperties
      <4>6. 1 \in 1..(Len(o) + 1)
        BY <4>2
      <4>3. CASE Len(o) = 0
        BY <4>2, <4>3, <4>5, <4>6 DEF o
      <4>4. CASE Len(o) # 0
        <5>1. 1 \in 1..Len(o) /\ 1 <= Len(o)
          BY <4>2, <4>4
        <5> QED BY <4>2, <4>5, <4>6, <5>1 DEF o
      <4> QED BY <4>3, <4>4
    <3> HIDE DEF s
    <3> QED BY <3>1, <3>2, EmptyLineShown
  <2>13. a + 3 \in (a + 3)..(b - 3)
    <3> HIDE DEF a, b
    <3> QED BY <2>3
  <2>14. CollectUpTo(at, q, k)' \/ CollectUpTo(at, q, k + 1)'
    BY <1>16, <2>2, <2>7, <2>8, <2>10, <2>11, <2>12, <2>13
  <2> QED BY <2>14
<1>12. CASE Inside(at, pos, k)
  <2>1. pos \in (a + 3)..(b - 3) /\ mOclingoOut = SubSeq(given, a + 3, pos - 1)
    BY <1>12 DEF Inside
  <2>2. k \in 1..Len(found)
    BY <1>3, <1>4, <1>6, <1>12 DEF Inside
  <2>3. /\ a \in Nat /\ b \in Nat /\ a + 6 <= b /\ given[b - 3] = Word("End of")
        /\ StepAt(given, found[k], a, b)
        /\ found[k] \in Run /\ \A i \in ToSet(found[k].holds) : i.is = "predicate"
    BY <1>13, <2>2
  <2>4. q <= b
    <3>1. a \in Nat /\ b \in Nat /\ a + 6 <= b
      BY <2>3, Zenon
    <3>2. b - 3 \in pos..(b - 1)
      <4>1. pos \in (a + 3)..(b - 3)
        BY <2>1
      <4> HIDE DEF a, b
      <4> QED BY <1>6, <3>1, <4>1
    <3> QED BY <1>14, <1>15, <2>2, <2>3, <3>2, Zenon
  <2>5. \A i \in pos..(q - 1) : given[i] # Word("Step:")
    <3> SUFFICES ASSUME NEW i \in pos..(q - 1) PROVE given[i] # Word("Step:")
      OBVIOUS
    <3> DEFINE run == found[k]
    <3>1. run \in Run /\ \A j \in ToSet(run.holds) : j.is = "predicate" /\ StepAt(given, run, a, b)
      BY <2>3
    <3> HIDE DEF a, b, run
    <3>4. a \in Nat /\ b \in Nat
      BY <2>3, Zenon
    <3>5. pos \in (a + 3)..(b - 3)
      BY <2>1
    <3>2. i \in a..(b - 1) /\ i # a
      BY <1>6, <2>4, <3>4, <3>5
    <3>3. WordsAt(given, a, b, i)
      <4>1. /\ a \in Nat /\ b \in Nat /\ StepAt(given, run, a, b) /\ run \in Run
            /\ \A j \in ToSet(run.holds) : j.is = "predicate"
        BY <2>3 DEF run
      <4> QED BY <3>2, <4>1, PiecesOfStep, Zenon
    <3> QED BY <3>2, <3>3 DEF WordsAt
  <2>6. ~\E i \in DOMAIN packet : packet[i] = Word("Step:")
    BY <1>9, <2>5
  <2>7. /\ Message(packet) = SubSeq(given, pos, q - 1) /\ Flushed(packet) = <<>>
        /\ Pending(packet) = SubSeq(given, a + 3, pos - 1)
    BY <1>7, <2>1, <2>6 DEF Message, Pending, Flushed
  <2>8. pos <= q
    BY <1>6
  <2>9. CollectUpTo(at, q, k)' \/ CollectUpTo(at, q, k + 1)'
    BY <1>16, <2>1, <2>2, <2>4, <2>7, <2>8
  <2> QED BY <2>9
<1> QED BY <1>3, <1>10, <1>11, <1>12

LEMMA CollectInit == Init => CollectInv
<1> SUFFICES ASSUME Init, program = "bridge" PROVE \E at, pos, k : CollectUpTo(at, pos, k)
  BY DEF CollectInv
<1>1. /\ "bridge" \in Programs /\ found \in Runs /\ given \in Texts("bridge", found)
      /\ text = given /\ out = <<>> /\ mOclingoOut = <<>>
  BY DEF Init
<1>2. PICK at : Stepped(given, found, at)
  BY <1>1, StepsOf
<1>3. /\ given \in Seq(Piece) /\ Len(given) \in Nat /\ Len(found) \in Nat /\ at[1] = 1
  BY <1>2 DEF Stepped
<1>4. text = SubSeq(given, 1, Len(given))
  BY <1>1, <1>3, SubSeqFull
<1>5. \A places : Len(Only(<<>>, places)) = 0
  <2> SUFFICES ASSUME NEW places PROVE Len(Only(<<>>, places)) = 0
    OBVIOUS
  <2>1. <<>> \in Seq({})
    BY EmptySeq
  <2>2. Only(<<>>, places) \in Seq({})
    BY <2>1, OnlyPicks
  <2>3. /\ Len(Only(<<>>, places)) \in Nat
        /\ Len(Only(<<>>, places)) # 0 => Only(<<>>, places)[1] \in {}
    BY <2>2
  <2> QED BY <2>3
<1>6. StepsShown(out, found, 1)
  <2>1. Len(First(found, 1 - 1)) = 0
    <3>1. SubSeq(found, 1, 1 - 1) = <<>>
      BY SubSeqEmpty
    <3> QED BY <1>5, <3>1 DEF First, Answered
  <2>2. Len(PathsOf(out)) = 0
    BY <1>1, <1>5 DEF PathsOf
  <2> QED BY <2>1, <2>2 DEF StepsShown, ShownSoFar
<1>7. Between(at, 1, 1)
  BY <1>1, <1>3 DEF Between
<1>8. 1 \in 1..(Len(given) + 1) /\ 1 \in 1..(Len(found) + 1)
  BY <1>3
<1>9. CollectUpTo(at, 1, 1)
  BY <1>1, <1>2, <1>4, <1>6, <1>7, <1>8 DEF CollectUpTo
<1> QED BY <1>9

\* However the network cuts the text, no answer is lost, or shown twice.
LEMMA CollectStep ==
  ASSUME MarkersWhole
  PROVE  CollectInv /\ ExitInv /\ OutInv /\ [Next]_vars => CollectInv'
<1> SUFFICES ASSUME CollectInv, ExitInv, OutInv, [Next]_vars, program' = "bridge"
             PROVE  \E at, pos, k : CollectUpTo(at, pos, k)'
  BY DEF CollectInv
<1>1. CASE ReadWord \/ SkipHeader \/ ShowAnswer \/ CopyLine
  <2>1. program' = program
    BY <1>1 DEF ReadWord, SkipHeader, ShowAnswer, CopyLine
  <2>2. word = ""
    BY <2>1, Zenon DEF ExitInv
  <2>3. ~ReadWord
    BY <2>1 DEF ReadWord
  <2> QED BY <1>1, <2>2, <2>3, Zenon DEF SkipHeader, ShowAnswer, CopyLine, Headers, Markers
<1>2. CASE PacketArrived
  <2>1. program = "bridge" /\ TypeInv
    BY <1>2 DEF PacketArrived, ExitInv
  <2>2. PICK at, pos, k : CollectUpTo(at, pos, k)
    BY <2>1 DEF CollectInv
  <2> QED BY <1>2, <2>1, <2>2, PacketCollected
<1>3. CASE UNCHANGED vars
  <2>1. program = "bridge"
    BY <1>3 DEF vars
  <2>2. PICK at, pos, k : CollectUpTo(at, pos, k)
    BY <2>1 DEF CollectInv
  <2>3. CollectUpTo(at, pos, k)'
    BY <1>3, <2>2 DEF CollectUpTo, Between, Inside, vars
  <2> QED BY <2>3
<1> QED BY <1>1, <1>2, <1>3, Zenon DEF Next, Done

\* The steps that are over are those whose answers were shown.
LEMMA OverOfSteps ==
  ASSUME program = "bridge", found \in Runs, NEW at, NEW pos, NEW k, CollectUpTo(at, pos, k)
  PROVE  Over = k - 1 /\ Answered(SubSeq(found, 1, Over)) = First(found, k - 1)
<1> DEFINE n == Len(found)
           N == Len(given)
           left == {i \in DOMAIN text : text[i] = Word("Step.")}
<1>1. /\ Stepped(given, found, at) /\ pos \in 1..(N + 1) /\ text = SubSeq(given, pos, N)
      /\ k \in 1..(n + 1) /\ (Between(at, pos, k) \/ Inside(at, pos, k))
  BY DEF CollectUpTo
<1>2. /\ n \in Nat /\ N \in Nat /\ \A j \in 1..(n + 1) : at[j] \in 1..(N + 1)
  BY <1>1 DEF Stepped
<1>3. \A j \in 1..n : at[j] \in Nat /\ at[j + 1] \in Nat /\ at[j] + 6 <= at[j + 1]
  BY <1>1, StepOfSteps
<1>4. pos = at[k] \/ (k > 1 /\ pos = at[k] - 1) \/ (k <= n /\ pos \in (at[k] + 3)..(at[k + 1] - 3))
  BY <1>1 DEF Between, Inside
<1> HIDE DEF n, N
<1>5. k \in Nat /\ pos \in Nat /\ at[k] \in Nat
  BY <1>1, <1>2
<1>6. k > 1 => at[k] < pos + 2
  BY <1>3, <1>4, <1>5
<1>7. ASSUME k <= n PROVE pos + 3 <= at[k + 1]
  <2>1. k \in 1..n
    BY <1>1, <1>2, <1>7
  <2> DEFINE a == at[k]
             b == at[k + 1]
  <2>2. a \in Nat /\ b \in Nat /\ a + 6 <= b
    BY <1>3, <2>1
  <2>3. pos = a \/ pos = a - 1 \/ pos \in (a + 3)..(b - 3)
    BY <1>4
  <2> HIDE DEF a, b
  <2>4. pos + 3 <= b
    BY <1>5, <2>2, <2>3
  <2> QED BY <2>4 DEF b
<1>8. Cardinality(left) = n - k + 1
  <2>1. /\ Stepped(given, found, at) /\ k \in 1..(Len(found) + 1) /\ pos \in 1..(Len(given) + 1)
        /\ text = SubSeq(given, pos, Len(given)) /\ (k > 1 => at[k] < pos + 2)
        /\ (k <= Len(found) => pos + 3 <= at[k + 1])
    BY <1>1, <1>6, <1>7 DEF n, N
  <2>2. EndsFrom(given, found, at, pos, k)
    BY <2>1 DEF EndsFrom
  <2>3. Cardinality(Ends(SubSeq(given, pos, Len(given)))) = Len(found) - k + 1
    BY <2>2, StepsLeft, Zenon
  <2>4. Cardinality(Ends(text)) = Len(found) - k + 1
    BY <2>1, <2>3, Zenon
  <2> QED BY <2>4 DEF left, n, Ends
<1>9. Over = n - Cardinality(left)
  BY DEF Over, n
<1> HIDE DEF left
<1>10. Over = k - 1
  BY <1>2, <1>5, <1>8, <1>9
<1> QED BY <1>10 DEF First

\* Whatever the solver finds, in whichever order it lists it and however the
\* network cuts its text, as long as no marker is torn and no step begins behind
\* another in a packet: as2transition, when it has exited, and the bridge, as
\* soon as the end of a step has come, have shown the answers so far, each once
\* and in order, and each says what the solver found, step by step.
THEOREM AnswersAlwaysShown ==
  ASSUME MarkersWhole
  PROVE  Spec => []AnswersShown
<1>1. Init => ExitInv /\ OutInv /\ ReadInv /\ CollectInv
  <2>1. Init => OutInv
    BY TypeInit, EmptySeq DEF OutInv, Init
  <2> QED BY <2>1, ExitInit, ReadInit, CollectInit
<1>2. ExitInv /\ OutInv /\ ReadInv /\ CollectInv /\ [Next]_vars
        => (ExitInv /\ OutInv /\ ReadInv /\ CollectInv)'
  BY ExitStep, OutStep, ReadStep, CollectStep
<1>3. ExitInv /\ OutInv /\ ReadInv /\ CollectInv => AnswersShown
  <2> SUFFICES ASSUME ExitInv, OutInv, ReadInv, CollectInv, program = "bridge" \/ exit # 0
               PROVE  LET answers == Answered(SubSeq(found, 1, Over))
                      IN  /\ Len(Paths) = Len(answers)
                          /\ \A i \in DOMAIN answers : Shows(Paths[i], answers[i].holds)
    BY DEF AnswersShown
  <2> DEFINE n == Len(found)
             s == SubSeq(found, 1, Over)
             A == Answered(s)
  <2>1. found \in Seq(Run) /\ n \in Nat /\ found \in Runs
    BY RunsOf DEF ExitInv, TypeInv
  <2>2. Over \in 0..n /\ ShownSoFar(out, A, Len(A))
    <3>1. CASE program = "bridge"
      <4>1. PICK at, pos, k : CollectUpTo(at, pos, k)
        BY <3>1 DEF CollectInv
      <4>2. Over = k - 1 /\ A = First(found, k - 1)
        BY <2>1, <3>1, <4>1, OverOfSteps
      <4>3. k \in 1..(n + 1) /\ StepsShown(out, found, k)
        BY <4>1 DEF CollectUpTo
      <4> HIDE DEF n, A
      <4>4. Over \in 0..n
        BY <2>1, <4>2, <4>3
      <4> QED BY <4>2, <4>3, <4>4 DEF StepsShown
    <3>2. CASE exit # 0
      <4>1. program # "bridge"
        BY <3>2 DEF ExitInv
      <4>2. Over = n
        BY <3>2, <4>1 DEF Over
      <4>3. s = found
        BY <2>1, <4>2, SubSeqFull
      <4>4. ShownSoFar(out, Answered(found), Len(Answered(found)))
        BY <3>2 DEF ReadInv
      <4>5. n \in 0..n
        BY <2>1
      <4> QED BY <4>2, <4>3, <4>4, <4>5
    <3> QED BY <3>1, <3>2
  <2>3. A \in Seq(Run)
    <3>1. s \in Seq(Run)
      <4>1. 1 \in Nat /\ Over \in Nat /\ Over <= Len(found)
        BY <2>1, <2>2
      <4> QED BY <2>1, <4>1, Parts
    <3> HIDE DEF s
    <3> QED BY <3>1, OnlyPicks DEF Answered
  <2> HIDE DEF s, A
  <2>4. DOMAIN A = 1..Len(A) /\ Paths = PathsOf(out)
    BY <2>3 DEF Paths, PathsOf
  <2>5. Len(Paths) = Len(A) /\ \A i \in DOMAIN A : Shows(Paths[i], A[i].holds)
    BY <2>2, <2>4 DEF ShownSoFar
  <2> QED BY <2>5 DEF A, s
<1> QED BY <1>1, <1>2, <1>3, PTL DEF Spec

=============================================================================
