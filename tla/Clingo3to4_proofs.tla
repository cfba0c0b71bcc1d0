-------------------------- MODULE Clingo3to4_proofs --------------------------
(***************************************************************************)
(* Proofs about the converter, for every set of statements and of programs: *)
(* clingo 4 reads the rules that clingo 3 would have read, each in its part *)
(* and with its domains, and a script comes out as it was written.          *)
(***************************************************************************)
EXTENDS Clingo3to4, Recursion_proofs, SequenceTheorems, TLAPS

-----------------------------------------------------------------------------
(* The elements at the places of a set, place by place. *)

Picks(g, s, I, n) ==
  /\ g \in [0..n -> Seq({s[i] : i \in 1..n})] /\ g[0] = <<>>
  /\ \A k \in 1..n : g[k] = IF k \in I THEN Append(g[k - 1], s[k]) ELSE g[k - 1]

LEMMA PicksExist ==
  ASSUME NEW s, NEW I, NEW n \in Nat
  PROVE  \E g : Picks(g, s, I, n)
<1> DEFINE E == {s[i] : i \in 1..n}
           S == Seq(E)
           e == <<>>
           more(k, x) == IF k \in I THEN Append(x, s[k]) ELSE x
           step == [k \in 1..n |-> [x \in S |-> more(k, x)]]
<1>1. \A k \in 1..n : s[k] \in E
  OBVIOUS
<1>2. e \in S
  OBVIOUS
<1>3. \A k \in 1..n, x \in S : more(k, x) \in S
  <2> HIDE DEF E
  <2> QED BY <1>1
<1>4. /\ step \in [1..n -> [S -> S]]
      /\ \A k \in 1..n, x \in S : step[k][x] = more(k, x)
  <2> HIDE DEF more, S
  <2> QED BY <1>3
<1> HIDE DEF step
<1>5. PICK g : Iterates(g, S, e, n, step)
  <2> HIDE DEF S, e
  <2> QED BY <1>2, <1>4, Iteration
<1>6. g \in [0..n -> S] /\ g[0] = <<>> /\ \A k \in 1..n : g[k] = step[k][g[k - 1]]
  BY <1>5 DEF Iterates
<1>7. \A k \in 1..n : g[k] = more(k, g[k - 1])
  <2> TAKE k \in 1..n
  <2>1. k - 1 \in 0..n
    OBVIOUS
  <2>2. g[k - 1] \in S
    BY <1>6, <2>1
  <2> HIDE DEF S, more
  <2> QED BY <1>4, <1>6, <2>2
<1> QED BY <1>6, <1>7 DEF Picks

\* What is built that way is what Pick picks.
LEMMA PickIs ==
  ASSUME NEW s, NEW I, NEW n \in Nat, NEW g, g[0] = <<>>,
         \A k \in 1..n : g[k] = IF k \in I THEN Append(g[k - 1], s[k]) ELSE g[k - 1]
  PROVE  Pick(s, I, n) = g[n]
<1> DEFINE Def(f) == [k \in 0..n |-> IF k = 0 THEN <<>>
                                     ELSE IF k \in I THEN Append(f[k - 1], s[k]) ELSE f[k - 1]]
           picked == CHOOSE f : f = Def(f)
<1>1. Pick(s, I, n) = picked[n]
  BY DEF Pick
<1>2. PICK f : Picks(f, s, I, n)
  BY PicksExist
<1>3. f = Def(f)
  <2>1. /\ f \in [0..n -> Seq({s[i] : i \in 1..n})] /\ f[0] = <<>>
        /\ \A k \in 1..n : f[k] = IF k \in I THEN Append(f[k - 1], s[k]) ELSE f[k - 1]
    BY <1>2 DEF Picks
  <2>2. \A k \in 0..n : k = 0 \/ k \in 1..n
    OBVIOUS
  <2>3. \A k \in 0..n : f[k] = IF k = 0 THEN <<>>
                               ELSE IF k \in I THEN Append(f[k - 1], s[k]) ELSE f[k - 1]
    BY <2>1, <2>2
  <2> QED BY <2>1, <2>3
<1>4. picked = Def(picked)
  BY <1>3
<1> HIDE DEF picked
<1>5. \A k \in 0..n : picked[k] = IF k = 0 THEN <<>>
                             ELSE IF k \in I THEN Append(picked[k - 1], s[k]) ELSE picked[k - 1]
  BY <1>4
<1> DEFINE T == {k \in 0..n : picked[k] = g[k]}
<1>6. 0 \in T
  BY <1>5
<1>7. ASSUME NEW k \in 1..n, k - 1 \in T PROVE k \in T
  <2>1. k \in 0..n /\ k # 0 /\ picked[k - 1] = g[k - 1]
    BY <1>7
  <2>2. picked[k] = IF k \in I THEN Append(picked[k - 1], s[k]) ELSE picked[k - 1]
    BY <1>5, <2>1
  <2> QED BY <2>1, <2>2
<1>8. 0..n \subseteq T
  <2> HIDE DEF T
  <2> QED BY <1>6, <1>7, Climb
<1> QED BY <1>1, <1>8

LEMMA PickEmpty ==
  ASSUME NEW s, NEW I
  PROVE  Pick(s, I, 0) = <<>>
<1> DEFINE g == [k \in 0..0 |-> <<>>]
<1>1. g[0] = <<>>
  OBVIOUS
<1>2. \A k \in 1..0 : g[k] = IF k \in I THEN Append(g[k - 1], s[k]) ELSE g[k - 1]
  OBVIOUS
<1> HIDE DEF g
<1> QED BY <1>1, <1>2, PickIs

LEMMA PickNext ==
  ASSUME NEW s, NEW I, NEW n \in Nat
  PROVE  Pick(s, I, n + 1) = IF n + 1 \in I THEN Append(Pick(s, I, n), s[n + 1]) ELSE Pick(s, I, n)
<1>1. PICK g : Picks(g, s, I, n + 1)
  BY PicksExist
<1>2. /\ g[0] = <<>>
      /\ \A k \in 1..(n + 1) : g[k] = IF k \in I THEN Append(g[k - 1], s[k]) ELSE g[k - 1]
  BY <1>1 DEF Picks
<1>3. Pick(s, I, n + 1) = g[n + 1]
  BY <1>2, PickIs
<1>4. \A k \in 1..n : g[k] = IF k \in I THEN Append(g[k - 1], s[k]) ELSE g[k - 1]
  BY <1>2
<1>5. Pick(s, I, n) = g[n]
  BY <1>2, <1>4, PickIs
<1>6. n + 1 \in 1..(n + 1) /\ (n + 1) - 1 = n
  OBVIOUS
<1> QED BY <1>2, <1>3, <1>5, <1>6

\* What lies beyond the places picked from does not matter.
SameAt(s, t, I, J, n) == \A k \in 1..n : (k \in I <=> k \in J) /\ (k \in I => s[k] = t[k])

LEMMA PickSame ==
  ASSUME NEW s, NEW t, NEW I, NEW J, NEW n \in Nat, SameAt(s, t, I, J, n)
  PROVE  Pick(s, I, n) = Pick(t, J, n)
<1>1. PICK g : Picks(g, s, I, n)
  BY PicksExist
<1>2. /\ g[0] = <<>>
      /\ \A k \in 1..n : g[k] = IF k \in I THEN Append(g[k - 1], s[k]) ELSE g[k - 1]
  BY <1>1 DEF Picks
<1>3. Pick(s, I, n) = g[n]
  BY <1>2, PickIs
<1>4. \A k \in 1..n : g[k] = IF k \in J THEN Append(g[k - 1], t[k]) ELSE g[k - 1]
  BY <1>2 DEF SameAt
<1>5. Pick(t, J, n) = g[n]
  BY <1>2, <1>4, PickIs
<1> QED BY <1>3, <1>5

-----------------------------------------------------------------------------
(* The statements of a program, line by line. *)

Reads(g, t, n) ==
  /\ g \in [0..n -> Seq(Statement)] /\ g[0] = <<>>
  /\ \A i \in 1..n : g[i] = IF InScript(t, i) THEN g[i - 1] ELSE g[i - 1] \o t[i].of

LEMMA ReadsExist ==
  ASSUME NEW t, NEW n \in Nat, \A i \in 1..n : t[i].of \in Seq(Statement)
  PROVE  \E g : Reads(g, t, n)
<1> DEFINE S == Seq(Statement)
           e == <<>>
           more(i, x) == IF InScript(t, i) THEN x ELSE x \o t[i].of
           step == [i \in 1..n |-> [x \in S |-> more(i, x)]]
<1>2. e \in S
  OBVIOUS
<1>3. \A i \in 1..n, x \in S : more(i, x) \in S
  OBVIOUS
<1>4. /\ step \in [1..n -> [S -> S]]
      /\ \A i \in 1..n, x \in S : step[i][x] = more(i, x)
  <2> HIDE DEF more, S
  <2> QED BY <1>3
<1> HIDE DEF step
<1>5. PICK g : Iterates(g, S, e, n, step)
  <2> HIDE DEF S, e
  <2> QED BY <1>2, <1>4, Iteration
<1>6. g \in [0..n -> S] /\ g[0] = <<>> /\ \A i \in 1..n : g[i] = step[i][g[i - 1]]
  BY <1>5 DEF Iterates
<1>7. \A i \in 1..n : g[i] = more(i, g[i - 1])
  <2> TAKE i \in 1..n
  <2>1. i - 1 \in 0..n
    OBVIOUS
  <2>2. g[i - 1] \in S
    BY <1>6, <2>1
  <2> HIDE DEF S, more
  <2> QED BY <1>4, <1>6, <2>2
<1> QED BY <1>6, <1>7 DEF Reads

LEMMA ReadIs ==
  ASSUME NEW t, NEW n \in Nat, \A i \in 1..n : t[i].of \in Seq(Statement), NEW g, Reads(g, t, n)
  PROVE  Read(t, n) = g[n]
<1> DEFINE Def(f) == [i \in 0..n |-> IF i = 0 THEN <<>>
                                     ELSE IF InScript(t, i) THEN f[i - 1] ELSE f[i - 1] \o t[i].of]
           read == CHOOSE f : f = Def(f)
<1>1. Read(t, n) = read[n]
  BY DEF Read
<1>2. /\ g \in [0..n -> Seq(Statement)] /\ g[0] = <<>>
      /\ \A i \in 1..n : g[i] = IF InScript(t, i) THEN g[i - 1] ELSE g[i - 1] \o t[i].of
  BY DEF Reads
<1>3. g = Def(g)
  <2>1. \A i \in 0..n : i = 0 \/ i \in 1..n
    OBVIOUS
  <2>2. \A i \in 0..n : g[i] = IF i = 0 THEN <<>>
                               ELSE IF InScript(t, i) THEN g[i - 1] ELSE g[i - 1] \o t[i].of
    BY <1>2, <2>1
  <2> QED BY <1>2, <2>2
<1>4. read = Def(read)
  BY <1>3
<1> HIDE DEF read
<1>5. \A i \in 0..n : read[i] = IF i = 0 THEN <<>>
                            ELSE IF InScript(t, i) THEN read[i - 1] ELSE read[i - 1] \o t[i].of
  BY <1>4
<1> DEFINE T == {i \in 0..n : read[i] = g[i]}
<1>6. 0 \in T
  BY <1>2, <1>5
<1>7. ASSUME NEW i \in 1..n, i - 1 \in T PROVE i \in T
  <2>1. i \in 0..n /\ i # 0 /\ read[i - 1] = g[i - 1]
    BY <1>7
  <2>2. read[i] = IF InScript(t, i) THEN read[i - 1] ELSE read[i - 1] \o t[i].of
    BY <1>5, <2>1
  <2> QED BY <1>2, <2>1, <2>2
<1>8. 0..n \subseteq T
  <2> HIDE DEF T
  <2> QED BY <1>6, <1>7, Climb
<1> QED BY <1>1, <1>8

LEMMA ReadNext ==
  ASSUME NEW t, NEW N \in Nat, \A i \in 1..N : t[i].of \in Seq(Statement)
  PROVE  /\ Read(t, 0) = <<>>
         /\ \A n \in 0..N : Read(t, n) \in Seq(Statement)
         /\ \A n \in 1..N : Read(t, n) = IF InScript(t, n) THEN Read(t, n - 1)
                                         ELSE Read(t, n - 1) \o t[n].of
<1>1. PICK g : Reads(g, t, N)
  BY ReadsExist
<1>2. /\ g \in [0..N -> Seq(Statement)] /\ g[0] = <<>>
      /\ \A i \in 1..N : g[i] = IF InScript(t, i) THEN g[i - 1] ELSE g[i - 1] \o t[i].of
  BY <1>1 DEF Reads
<1>3. ASSUME NEW n \in 0..N PROVE Read(t, n) = g[n]
  <2> DEFINE f == [i \in 0..n |-> g[i]]
  <2>1. Reads(f, t, n)
    <3>1. f \in [0..n -> Seq(Statement)] /\ f[0] = <<>>
      BY <1>2
    <3>2. \A i \in 1..n : f[i] = IF InScript(t, i) THEN f[i - 1] ELSE f[i - 1] \o t[i].of
      <4> TAKE i \in 1..n
      <4>1. i \in 1..N /\ i - 1 \in 0..n /\ i \in 0..n
        OBVIOUS
      <4> QED BY <1>2, <4>1
    <3> HIDE DEF f
    <3> QED BY <3>1, <3>2 DEF Reads
  <2>2. n \in Nat /\ \A i \in 1..n : t[i].of \in Seq(Statement)
    OBVIOUS
  <2>3. n \in 0..n /\ f[n] = g[n]
    OBVIOUS
  <2> HIDE DEF f
  <2>4. Read(t, n) = f[n]
    BY <2>1, <2>2, ReadIs
  <2> QED BY <2>3, <2>4
<1>4. \A n \in 1..N : n \in 0..N /\ n - 1 \in 0..N
  OBVIOUS
<1>5. 0 \in 0..N
  OBVIOUS
<1> QED BY <1>2, <1>3, <1>4, <1>5

-----------------------------------------------------------------------------
(* The part that is open. *)

LEMMA LargestOf ==
  ASSUME NEW k \in Nat, NEW I \in SUBSET (1..k), I # {}
  PROVE  Max(I) \in I /\ \A i \in I : i <= Max(I)
<1> DEFINE J == {k - i : i \in I}
<1>1. J \in SUBSET Nat /\ J # {}
  OBVIOUS
<1>2. PICK n \in J : \A j \in J : n <= j
  <2> HIDE DEF J
  <2> QED BY <1>1, LeastNumber
<1>3. k - n \in I /\ \A i \in I : k - n >= i
  <2>1. PICK m \in I : n = k - m
    OBVIOUS
  <2>2. k - n = m
    BY <2>1
  <2>3. \A i \in I : m >= i
    <3> TAKE i \in I
    <3>1. n <= k - i
      BY <1>2
    <3> QED BY <2>1, <3>1
  <2> QED BY <2>2, <2>3
<1>4. Max(I) \in I /\ \A i \in I : Max(I) >= i
  BY <1>3 DEF Max
<1> QED BY <1>4

LEMMA OpenPartNext ==
  ASSUME NEW stmts, NEW k \in Nat
  PROVE  OpenPart(stmts, k + 1) = IF stmts[k + 1].part # "none" THEN stmts[k + 1]
                                  ELSE OpenPart(stmts, k)
<1> DEFINE I == {j \in 1..k : stmts[j].part # "none"}
           J == {j \in 1..(k + 1) : stmts[j].part # "none"}
<1>1. CASE stmts[k + 1].part # "none"
  <2>1. k + 1 \in J /\ J \in SUBSET (1..(k + 1)) /\ k + 1 \in Nat
    BY <1>1
  <2>2. Max(J) \in 1..(k + 1) /\ k + 1 <= Max(J)
    <3> HIDE DEF J
    <3> QED BY <2>1, LargestOf
  <2>3. Max(J) = k + 1
    <3> HIDE DEF J
    <3> QED BY <2>2
  <2> QED BY <1>1, <2>1, <2>3 DEF OpenPart
<1>2. CASE stmts[k + 1].part = "none"
  <2>1. I = J
    BY <1>2
  <2> QED BY <1>2, <2>1, Zenon DEF OpenPart
<1> QED BY <1>1, <1>2

LEMMA OpenPartFirst ==
  ASSUME NEW stmts
  PROVE  OpenPart(stmts, 0) = [part |-> "none", step |-> "none"]
<1>1. {j \in 1..0 : stmts[j].part # "none"} = {}
  OBVIOUS
<1> QED BY <1>1, Zenon DEF OpenPart

LEMMA OpenPartSame ==
  ASSUME NEW s, NEW t, NEW k \in Nat, \A j \in 1..k : s[j] = t[j]
  PROVE  OpenPart(s, k) = OpenPart(t, k)
<1> DEFINE I == {j \in 1..k : s[j].part # "none"}
           J == {j \in 1..k : t[j].part # "none"}
<1>1. I = J
  OBVIOUS
<1>2. CASE I = {}
  BY <1>1, <1>2, Zenon DEF OpenPart
<1>3. CASE I # {}
  <2>1. Max(I) \in I
    <3>1. I \in SUBSET (1..k)
      OBVIOUS
    <3> HIDE DEF I
    <3> QED BY <1>3, <3>1, LargestOf
  <2>2. s[Max(I)] = t[Max(I)]
    BY <2>1
  <2> HIDE DEF I, J
  <2>3. OpenPart(s, k) = s[Max(I)] /\ OpenPart(t, k) = t[Max(J)]
    BY <1>1, <1>3, Zenon DEF OpenPart, I, J
  <2> QED BY <1>1, <2>2, <2>3
<1> QED BY <1>2, <1>3

\* Some part is open after one was opened; one that is open was opened.
LEMMA OpenPartIs ==
  ASSUME NEW stmts, NEW k \in Nat
  PROVE  /\ (\E j \in 1..k : stmts[j].part # "none") => OpenPart(stmts, k).part # "none"
         /\ OpenPart(stmts, k).part # "none" =>
              \E j \in 1..k : stmts[j].part # "none" /\ OpenPart(stmts, k) = stmts[j]
<1> DEFINE I == {j \in 1..k : stmts[j].part # "none"}
<1>1. CASE I = {}
  <2>1. OpenPart(stmts, k) = [part |-> "none", step |-> "none"]
    BY <1>1, Zenon DEF OpenPart
  <2> QED BY <1>1, <2>1
<1>2. CASE I # {}
  <2>1. Max(I) \in I
    <3>1. I \in SUBSET (1..k)
      OBVIOUS
    <3> HIDE DEF I
    <3> QED BY <1>2, <3>1, LargestOf
  <2>2. OpenPart(stmts, k) = stmts[Max(I)]
    BY <1>2, Zenon DEF OpenPart
  <2> QED BY <2>1, <2>2
<1> QED BY <1>1, <1>2

-----------------------------------------------------------------------------
(* The rule that takes a statement. *)

RuleSet == {"hide", "abs", "sum", "label", "base", "braces", "domain", "constraint", "begin", "end"}
           \cup (IF is_incremental THEN {"cumulative", "volatile"} ELSE {})
Fits(rule, s) ==
  /\ rule \in s.marks
  /\ rule = "constraint" => is_incremental /\ current_scope = "VOLATILE"
FirstRule(s) == SelectInSeq(Rules, LAMBDA rule : Fits(rule, s))

Elements(s) == {s[i] : i \in 1..Len(s)}

LEMMA ElementsOfBoth ==
  ASSUME NEW s \in Seq(Marks), NEW t \in Seq(Marks)
  PROVE  s \o t \in Seq(Marks) /\ Elements(s \o t) = Elements(s) \cup Elements(t)
<1>1. /\ s \o t \in Seq(Marks) /\ Len(s \o t) = Len(s) + Len(t)
      /\ Len(s) \in Nat /\ Len(t) \in Nat
      /\ \A i \in 1..(Len(s) + Len(t)) : (s \o t)[i] = IF i <= Len(s) THEN s[i] ELSE t[i - Len(s)]
  BY ConcatProperties
<1>2. ASSUME NEW i \in 1..(Len(s) + Len(t)) PROVE (s \o t)[i] \in Elements(s) \cup Elements(t)
  <2>1. CASE i <= Len(s)
    <3>1. i \in 1..Len(s)
      BY <1>1, <2>1
    <3> QED BY <1>1, <2>1, <3>1 DEF Elements
  <2>2. CASE ~(i <= Len(s))
    <3>1. i - Len(s) \in 1..Len(t)
      BY <1>1, <2>2
    <3> QED BY <1>1, <2>2, <3>1 DEF Elements
  <2> QED BY <2>1, <2>2
<1>3. ASSUME NEW i \in 1..Len(s) PROVE s[i] \in Elements(s \o t)
  <2>1. i \in 1..(Len(s) + Len(t)) /\ i <= Len(s)
    BY <1>1
  <2> QED BY <1>1, <2>1 DEF Elements
<1>4. ASSUME NEW i \in 1..Len(t) PROVE t[i] \in Elements(s \o t)
  <2>1. i + Len(s) \in 1..(Len(s) + Len(t)) /\ ~(i + Len(s) <= Len(s)) /\ i + Len(s) - Len(s) = i
    BY <1>1
  <2> QED BY <1>1, <2>1 DEF Elements
<1> QED BY <1>1, <1>2, <1>3, <1>4 DEF Elements

LEMMA RulesAre ==
  Rules \in Seq(Marks) /\ Elements(Rules) = RuleSet
<1> DEFINE first == <<"hide", "abs", "sum", "label", "base">>
           parts == IF is_incremental THEN <<"cumulative", "volatile">> ELSE <<>>
           last == <<"braces", "domain", "constraint", "begin", "end">>
<1>1. first \in Seq(Marks) /\ last \in Seq(Marks)
  <2>1. /\ "hide" \in Marks /\ "abs" \in Marks /\ "sum" \in Marks /\ "label" \in Marks
        /\ "base" \in Marks /\ "braces" \in Marks /\ "domain" \in Marks
        /\ "constraint" \in Marks /\ "begin" \in Marks /\ "end" \in Marks
    BY DEF Marks, Parts
  <2>2. <<"hide", "abs", "sum", "label", "base">> \in Seq(Marks)
    BY <2>1
  <2>3. <<"braces", "domain", "constraint", "begin", "end">> \in Seq(Marks)
    BY <2>1
  <2> QED BY <2>2, <2>3
<1>2. parts \in Seq(Marks)
  <2>1. <<"cumulative", "volatile">> \in Seq(Marks)
    BY DEF Marks, Parts
  <2>2. <<>> \in Seq(Marks)
    OBVIOUS
  <2> QED BY <2>1, <2>2, Zenon
<1>3. Elements(first) = {"hide", "abs", "sum", "label", "base"}
  <2>1. Len(first) = 5 /\ 1..5 = {1, 2, 3, 4, 5}
    OBVIOUS
  <2> QED BY <2>1 DEF Elements
<1>4. Elements(last) = {"braces", "domain", "constraint", "begin", "end"}
  <2>1. Len(last) = 5 /\ 1..5 = {1, 2, 3, 4, 5}
    OBVIOUS
  <2> QED BY <2>1 DEF Elements
<1>5. Elements(parts) = IF is_incremental THEN {"cumulative", "volatile"} ELSE {}
  <2>1. Elements(<<"cumulative", "volatile">>) = {"cumulative", "volatile"}
    <3>1. Len(<<"cumulative", "volatile">>) = 2 /\ 1..2 = {1, 2}
      OBVIOUS
    <3> QED BY <3>1 DEF Elements
  <2>2. Elements(<<>>) = {}
    <3>1. Len(<<>>) = 0 /\ 1..0 = {}
      OBVIOUS
    <3> QED BY <3>1, Zenon DEF Elements
  <2> QED BY <2>1, <2>2, Zenon
<1>6. Rules = (first \o parts) \o last
  BY Zenon DEF Rules, clauses
<1> HIDE DEF first, parts, last
<1>7. first \o parts \in Seq(Marks) /\ Elements(first \o parts) = Elements(first) \cup Elements(parts)
  BY <1>1, <1>2, ElementsOfBoth
<1>8. /\ (first \o parts) \o last \in Seq(Marks)
      /\ Elements((first \o parts) \o last) = Elements(first \o parts) \cup Elements(last)
  BY <1>1, <1>7, ElementsOfBoth
<1> QED BY <1>3, <1>4, <1>5, <1>6, <1>7, <1>8 DEF RuleSet

LEMMA MatchIs ==
  ASSUME NEW s
  PROVE  IF \E r \in RuleSet : Fits(r, s)
         THEN match_rule(s) \in RuleSet /\ Fits(match_rule(s), s)
         ELSE match_rule(s) = "none"
<1> DEFINE I == {i \in 1..Len(Rules) : Fits(Rules[i], s)}
<1>1. match_rule(s) = IF FirstRule(s) = 0 THEN "none" ELSE Rules[FirstRule(s)]
  BY DEF match_rule, FirstRule, Fits
<1>2. FirstRule(s) = IF I # {} THEN Min(I) ELSE 0
  BY DEF FirstRule, SelectInSeq
<1>3. I \in SUBSET Nat
  BY RulesAre
<1>4. CASE I = {}
  <2>1. match_rule(s) = "none"
    BY <1>1, <1>2, <1>4
  <2>2. ~ \E r \in RuleSet : Fits(r, s)
    BY <1>4, RulesAre DEF Elements
  <2> QED BY <2>1, <2>2
<1>5. CASE I # {}
  <2>1. \E n \in I : \A i \in I : n <= i
    BY <1>3, <1>5, LeastNumber
  <2>2. Min(I) \in I
    <3> HIDE DEF I
    <3> QED BY <2>1 DEF Min
  <2>3. FirstRule(s) \in I
    BY <1>2, <1>5, <2>2
  <2>4. FirstRule(s) # 0 /\ Fits(Rules[FirstRule(s)], s) /\ Rules[FirstRule(s)] \in RuleSet
    BY <2>3, RulesAre DEF Elements
  <2> QED BY <1>1, <2>4
<1> QED BY <1>4, <1>5

\* A statement with one mark is taken by the rule for that mark.
LEMMA MatchOne ==
  ASSUME NEW s \in Statement, \A m, n \in s.marks : m = n
  PROVE  /\ match_rule(s) \in Marks \cup {"none"}
         /\ \A m \in s.marks :
              match_rule(s) = IF m \in RuleSet /\ Fits(m, s) THEN m ELSE "none"
         /\ s.marks = {} => match_rule(s) = "none"
<1>1. RuleSet \subseteq Marks
  BY DEF RuleSet, Marks, Parts
<1> QED BY <1>1, MatchIs DEF Fits

-----------------------------------------------------------------------------
(* The state of the converter, and what it has done of the program. *)

Lines == [kind : {"blank", "comment", "statements"}, of : Seq(Statement)]
Names == {s.name : s \in Statement}
Steps == {s.step : s \in Statement}
Declared == {s.declares : s \in Statement}
StatementEntry ==
  [is : {"statement"}, name : Names, commented : BOOLEAN, part : Parts \cup {"none"}, step : Steps,
   old : SUBSET Marks, guard : Steps \cup {"", "none"}, domains : SUBSET Declared, dot : BOOLEAN]
Entry == StatementEntry \cup {Script} \cup {EndScript(dot) : dot \in BOOLEAN}
         \cup {Copied(line) : line \in Lines}

TypeInv ==
  /\ is_incremental \in BOOLEAN /\ source \in {"file", "stdin"}
  /\ text \in Texts[is_incremental] /\ at \in 0..Len(text)
  /\ ind_commands \in Seq(Statement) /\ is_script \in BOOLEAN
  /\ vol_var_string \in Steps \cup {""} /\ domain_list \in Seq(Declared)
  /\ output \in Seq(Entry)

\* The statements to convert are the last ones of the line that was read.
Pending ==
  ind_commands # <<>> =>
    /\ at > 0
    /\ Len(ind_commands) <= Len(text[at].of)
    /\ \A j \in 1..Len(ind_commands) :
         ind_commands[j] = text[at].of[Len(text[at].of) - Len(ind_commands) + j]

\* After line i, a script is open.
Open(t, i) ==
  \E b \in 1..i : Mentions(t[b], "begin") /\ \A e \in b..i : ~Mentions(t[e], "end")
Known == IF ind_commands = <<>> THEN at ELSE at - 1

\* The converter knows whether it is in a script; of a script in a file it
\* converts nothing.
ScriptKnown ==
  /\ is_script <=> Open(text, Known)
  /\ source = "file" /\ ind_commands # <<>> => ~is_script

\* The place in the output is inside a script if the place in the text is, and
\* the lines of scripts came out so far.
ScriptLines(t) == [i \in 1..Len(t) |-> Copied(t[i])]
InScripts(t) == {i \in 1..Len(t) : InScript(t, i)}
EndsInside(out) ==
  \E b \in 1..Len(out) : out[b].is = "script" /\ \A j \in b..Len(out) : out[j].is # "end of script"
ScriptsSoFar ==
  source = "file" =>
    /\ EndsInside(output) <=> is_script
    /\ Pick(output, Inside(output), Len(output)) = Pick(ScriptLines(text), InScripts(text), at)

\* The statements converted, of those that are no script.
DoneOf(t, n, pending) == Len(Read(t, n)) - (IF InScript(t, n) THEN 0 ELSE Len(pending))
Done == DoneOf(text, at, ind_commands)

\* Constraints, parts and domains as clingo 3 reads them.
PartOf(inc, s) ==
  IF inc /\ s.marks \cap Parts # {} THEN CHOOSE p \in s.marks \cap Parts : TRUE ELSE "none"
PartsRead(inc, read) == [k \in 1..Len(read) |-> [step |-> read[k].step, part |-> PartOf(inc, read[k])]]
DeclaredBy(read, k) == {read[j].declares : j \in {j \in 1..k : "domain" \in read[j].marks}}
DomainsRead(read, k) == {d \in DeclaredBy(read, Len(read)) : d.variable \in read[k].variables}
OnlyRead(inc, read, k) ==
  LET open == OpenPart(PartsRead(inc, read), k)
  IN  IF "constraint" \in read[k].marks /\ open.part = "volatile" THEN open.step ELSE "none"
RuleRead(inc, read, k) ==
  [name |-> read[k].name, part |-> OpenPart(PartsRead(inc, read), k).part, old |-> {},
   domains |-> DomainsRead(read, k), only |-> OnlyRead(inc, read, k)]
RulesRead(inc, read) == [k \in 1..Len(read) |-> RuleRead(inc, read, k)]
RulesOut(out) == [k \in NamedOut(out) |-> Rule4(out, k)]

\* The rules that came out are those of the statements done, in the part that
\* is open in both; the converter knows that part, its step and the domains.
Agree(inc, read, k, out) ==
  /\ Pick(RulesOut(out), NamedOut(out), Len(out)) = Pick(RulesRead(inc, read), NamedIn(read), k)
  /\ OpenPart(PartsOut(out), Len(out)).part = OpenPart(PartsRead(inc, read), k).part
Knows(inc, read, k, scope, step, domains) ==
  /\ ToSet(domains) = DeclaredBy(read, k)
  /\ inc /\ OpenPart(PartsRead(inc, read), k).part # "none" =>
       /\ scope = IncrementalScope[OpenPart(PartsRead(inc, read), k).part]
       /\ OpenPart(PartsRead(inc, read), k).part = "volatile" =>
            step = OpenPart(PartsRead(inc, read), k).step
Statements == Read(text, Len(text))
RulesSoFar ==
  /\ Agree(is_incremental, Statements, Done, output)
  /\ Knows(is_incremental, Statements, Done, current_scope, vol_var_string, domain_list)

-----------------------------------------------------------------------------
(* Programs and types. *)

LEMMA TextIs ==
  ASSUME TypeInv
  PROVE  /\ text \in Seq(Lines) /\ Len(text) \in Nat
         /\ \A i \in 1..Len(text) :
              /\ LineFits(text, i) /\ text[i] \in Lines
              /\ text[i].of \in Seq(Statement) /\ Len(text[i].of) \in Nat
         /\ InOrder(Statements, is_incremental)
<1>1. is_incremental \in BOOLEAN /\ text \in Texts[is_incremental]
  BY DEF TypeInv
<1>2. /\ text \in Seq([kind : {"blank", "comment", "statements"}, of : Seq(Statement)])
      /\ \A i \in 1..Len(text) : LineFits(text, i)
      /\ InOrder(Read(text, Len(text)), is_incremental)
  BY <1>1, TextsAssumption, Zenon
<1>3. text \in Seq(Lines)
  BY <1>2 DEF Lines
<1>4. Len(text) \in Nat /\ \A i \in 1..Len(text) : text[i] \in Lines
  BY <1>3
<1>5. ASSUME NEW i \in 1..Len(text) PROVE text[i].of \in Seq(Statement) /\ Len(text[i].of) \in Nat
  <2>1. text[i].of \in Seq(Statement)
    BY <1>4 DEF Lines
  <2> QED BY <2>1
<1> QED BY <1>2, <1>3, <1>4, <1>5 DEF Statements

LEMMA LineIs ==
  ASSUME TypeInv, GetLine
  PROVE  /\ at + 1 \in 1..Len(text) /\ at \in Nat /\ at' = at + 1 /\ ind_commands = <<>>
         /\ Line = text[at + 1] /\ Line \in Lines /\ Line.of \in Seq(Statement)
         /\ LineFits(text, at + 1)
<1>1. at + 1 \in 1..Len(text) /\ at \in Nat /\ at' = at + 1 /\ ind_commands = <<>>
  <2>1. at \in 0..Len(text) /\ Len(text) \in Nat
    BY TextIs DEF TypeInv
  <2> QED BY <2>1 DEF GetLine
<1> QED BY <1>1, TextIs DEF Line

LEMMA HeadIs ==
  ASSUME TypeInv, ind_commands # <<>>
  PROVE  /\ Head(ind_commands) = ind_commands[1] /\ Head(ind_commands) \in Statement
         /\ Tail(ind_commands) \in Seq(Statement) /\ Len(ind_commands) \in Nat \ {0}
         /\ Len(Tail(ind_commands)) = Len(ind_commands) - 1
         /\ \A j \in 1..(Len(ind_commands) - 1) : Tail(ind_commands)[j] = ind_commands[j + 1]
<1>1. ind_commands \in Seq(Statement)
  BY DEF TypeInv
<1> QED BY <1>1

LEMMA RuleIs ==
  ASSUME NEW s PROVE match_rule(s) \in Marks \cup {"none"}
<1>1. RuleSet \subseteq Marks
  BY DEF RuleSet, Marks, Parts
<1> QED BY <1>1, MatchIs

LEMMA EntriesAre ==
  ASSUME TypeInv, NEW s \in Statement, NEW rule \in Marks \cup {"none"}
  PROVE  Converted(s, rule) \in Entry
<1>1. CASE rule = "begin" \/ rule = "end"
  BY <1>1 DEF Converted, Entry
<1>2. CASE rule \notin {"begin", "end"}
  <2>1. Converted(s, rule) = Rewritten(s, rule)
    BY <1>2 DEF Converted
  <2>2. ToSet(domain_list) \subseteq Declared
    <3>1. domain_list \in Seq(Declared)
      BY DEF TypeInv
    <3> QED BY <3>1 DEF ToSet
  <2>3. remove_domain_variables(s, rule) \in SUBSET Declared
    BY <2>2 DEF remove_domain_variables
  <2>4. s.name \in Names /\ s.step \in Steps
    BY DEF Names, Steps
  <2>5. Commented(rule) \in BOOLEAN /\ (~(source = "stdin" /\ is_script)) \in BOOLEAN
    BY DEF Commented
  <2>6. (IF OpensPart(rule) THEN rule ELSE "none") \in Parts \cup {"none"}
    BY DEF OpensPart
  <2>7. s.marks \ {rule, "constraint"} \in SUBSET Marks
    BY StatementAssumption
  <2>8. (IF rule = "constraint" THEN vol_var_string ELSE "none") \in Steps \cup {"", "none"}
    BY DEF TypeInv
  <2>9. (IF source = "stdin" /\ is_script THEN {} ELSE remove_domain_variables(s, rule)) \in SUBSET Declared
    BY <2>3
  <2>10. Rewritten(s, rule) \in StatementEntry
    BY <2>4, <2>5, <2>6, <2>7, <2>8, <2>9, Zenon DEF Rewritten, StatementEntry
  <2> QED BY <2>1, <2>10 DEF Entry
<1> QED BY <1>1, <1>2

LEMMA TypeInit == Init => TypeInv
<1> SUFFICES ASSUME Init PROVE TypeInv
  OBVIOUS
<1>1. is_incremental \in BOOLEAN /\ source \in {"file", "stdin"} /\ text \in Texts[is_incremental]
  BY SourcesAssumption DEF Init
<1>2. text \in Seq([kind : {"blank", "comment", "statements"}, of : Seq(Statement)])
  BY <1>1, TextsAssumption, Zenon
<1>3. at \in 0..Len(text)
  <2>1. Len(text) \in Nat
    BY <1>2
  <2>2. at = 0
    BY DEF Init
  <2> QED BY <2>1, <2>2
<1>4. ind_commands \in Seq(Statement) /\ domain_list \in Seq(Declared) /\ output \in Seq(Entry)
  <2>1. <<>> \in Seq(Statement) /\ <<>> \in Seq(Declared) /\ <<>> \in Seq(Entry)
    OBVIOUS
  <2> QED BY <2>1, Zenon DEF Init
<1>5. is_script \in BOOLEAN /\ vol_var_string \in Steps \cup {""}
  BY DEF Init
<1> QED BY <1>1, <1>3, <1>4, <1>5 DEF TypeInv

LEMMA TypeStep ==
  ASSUME TypeInv, [Next]_vars
  PROVE  TypeInv'
<1>1. CASE CopyLine
  <2>1. /\ at' = at + 1 /\ at + 1 \in 1..Len(text) /\ Line \in Lines
    BY <1>1, LineIs DEF CopyLine
  <2>2. /\ is_incremental' = is_incremental /\ source' = source /\ text' = text
        /\ ind_commands' = ind_commands /\ vol_var_string' = vol_var_string
        /\ domain_list' = domain_list
    BY <1>1, Zenon DEF CopyLine, options
  <2>3. PICK e \in Entry : output' = Append(output, e)
    <3>1. Copied(Line) \in Entry /\ EndScript(FALSE) \in Entry
      BY <2>1 DEF Entry
    <3> QED BY <1>1, <3>1, Zenon DEF CopyLine
  <2>4. output' \in Seq(Entry)
    <3>1. output \in Seq(Entry)
      BY DEF TypeInv
    <3> QED BY <2>3, <3>1
  <2>5. is_script' \in BOOLEAN
    BY <1>1, Zenon DEF CopyLine, TypeInv
  <2>6. at' \in 0..Len(text)
    BY <2>1
  <2> QED BY <2>2, <2>4, <2>5, <2>6, Zenon DEF TypeInv
<1>2. CASE SplitLine
  <2>1. /\ at' = at + 1 /\ at + 1 \in 1..Len(text) /\ Line.of \in Seq(Statement)
    BY <1>2, LineIs DEF SplitLine
  <2>2. /\ is_incremental' = is_incremental /\ source' = source /\ text' = text
        /\ ind_commands' = Line.of /\ vol_var_string' = vol_var_string
        /\ domain_list' = domain_list /\ output' = output /\ is_script' = is_script
    BY <1>2, Zenon DEF SplitLine, options
  <2>3. at' \in 0..Len(text)
    BY <2>1
  <2> QED BY <2>1, <2>2, <2>3, Zenon DEF TypeInv
<1>3. CASE ConvertStatement
  <2> DEFINE s == Head(ind_commands)
             rule == match_rule(s)
  <2>1. s \in Statement /\ Tail(ind_commands) \in Seq(Statement)
    BY <1>3, HeadIs DEF ConvertStatement
  <2>2. rule \in Marks \cup {"none"}
    BY RuleIs
  <2>3. /\ is_incremental' = is_incremental /\ source' = source /\ text' = text /\ at' = at
        /\ ind_commands' = Tail(ind_commands) /\ output' = Append(output, Converted(s, rule))
        /\ vol_var_string' = IF OpensPart(rule) /\ rule = "volatile" THEN s.step ELSE vol_var_string
        /\ domain_list' = IF rule = "domain" THEN Append(domain_list, s.declares) ELSE domain_list
        /\ is_script' = (rule = "begin" \/ (is_script /\ rule # "end"))
    BY <1>3, Zenon DEF ConvertStatement, options
  <2>4. Converted(s, rule) \in Entry
    <3> HIDE DEF s, rule
    <3> QED BY <2>1, <2>2, EntriesAre
  <2> HIDE DEF s, rule
  <2>5. output' \in Seq(Entry)
    <3>1. output \in Seq(Entry)
      BY DEF TypeInv
    <3> QED BY <2>3, <2>4, <3>1
  <2>6. vol_var_string' \in Steps \cup {""}
    BY <2>1, <2>3 DEF Steps, TypeInv
  <2>7. domain_list' \in Seq(Declared)
    <3>1. domain_list \in Seq(Declared) /\ s.declares \in Declared
      BY <2>1 DEF TypeInv, Declared
    <3> QED BY <2>3, <3>1
  <2>8. is_script' \in BOOLEAN
    BY <2>3
  <2> QED BY <2>1, <2>3, <2>5, <2>6, <2>7, <2>8, Zenon DEF TypeInv
<1>4. CASE UNCHANGED vars
  BY <1>4, Zenon DEF vars, TypeInv
<1> QED BY <1>1, <1>2, <1>3, <1>4 DEF Next

-----------------------------------------------------------------------------
(* The statement that is converted, and scripts. *)

LEMMA OpenIs ==
  ASSUME NEW t
  PROVE  /\ ~Open(t, 0)
         /\ \A i \in Nat \ {0} :
              /\ Open(t, i) <=> ~Mentions(t[i], "end") /\ (Mentions(t[i], "begin") \/ Open(t, i - 1))
              /\ InScript(t, i) <=> ~Mentions(t[i], "end") /\ Open(t, i - 1)
<1>1. ~Open(t, 0)
  BY DEF Open
<1>2. ASSUME NEW i \in Nat \ {0}
      PROVE  InScript(t, i) <=> ~Mentions(t[i], "end") /\ Open(t, i - 1)
  <2>1. \A b \in 1..(i - 1) : b..i = (b..(i - 1)) \cup {i}
    OBVIOUS
  <2> QED BY <2>1 DEF InScript, Open
<1>3. ASSUME NEW i \in Nat \ {0}
      PROVE  Open(t, i) <=> ~Mentions(t[i], "end") /\ (Mentions(t[i], "begin") \/ Open(t, i - 1))
  <2>1. \A b \in 1..(i - 1) : b..i = (b..(i - 1)) \cup {i}
    OBVIOUS
  <2>2. i..i = {i} /\ 1..i = (1..(i - 1)) \cup {i}
    OBVIOUS
  <2>3. Open(t, i) <=> \/ \E b \in 1..(i - 1) : Mentions(t[b], "begin")
                                             /\ \A e \in b..i : ~Mentions(t[e], "end")
                       \/ Mentions(t[i], "begin") /\ ~Mentions(t[i], "end")
    BY <2>2 DEF Open
  <2>4. (\E b \in 1..(i - 1) : Mentions(t[b], "begin") /\ \A e \in b..i : ~Mentions(t[e], "end"))
          <=> ~Mentions(t[i], "end") /\ Open(t, i - 1)
    BY <2>1 DEF Open
  <2> QED BY <2>3, <2>4
<1> QED BY <1>1, <1>2, <1>3

LEMMA NoBracket ==
  ASSUME NEW line, line.of = <<>>, NEW m
  PROVE  ~Mentions(line, m)
<1>1. DOMAIN <<>> = {}
  OBVIOUS
<1> QED BY <1>1, Zenon DEF Mentions

\* A bracket of a script is alone on its line.
LEMMA Bracket ==
  ASSUME TypeInv, NEW i \in 1..Len(text), NEW m \in {"begin", "end"}, Mentions(text[i], m)
  PROVE  Len(text[i].of) = 1 /\ m \in text[i].of[1].marks /\ text[i].kind = "statements"
<1>1. LineFits(text, i) /\ text[i].of \in Seq(Statement)
  BY TextIs
<1>2. Len(text[i].of) = 1
  BY <1>1 DEF LineFits
<1>3. m \in text[i].of[1].marks
  <2>1. DOMAIN text[i].of = 1..1 /\ 1..1 = {1}
    BY <1>1, <1>2
  <2> QED BY <2>1 DEF Mentions
<1>4. text[i].of # <<>>
  BY <1>2
<1> QED BY <1>1, <1>2, <1>3, <1>4 DEF LineFits

LEMMA StatementIs ==
  ASSUME TypeInv, Pending, ind_commands # <<>>, NEW s, s = Head(ind_commands)
  PROVE  /\ at \in 1..Len(text) /\ at \in Nat \ {0} /\ s \in Statement
         /\ \A m \in s.marks : Mentions(text[at], m)
         /\ Len(text[at].of) = 1 => Tail(ind_commands) = <<>> /\ s = text[at].of[1]
         /\ InScript(text, at) => s.name = "none" /\ s.marks \cap (Parts \cup {"domain"}) = {}
         /\ ~InScript(text, at) =>
              /\ \A m, n \in s.marks : m = n
              /\ s.name # "none" =>
                   s.marks \cap (Parts \cup {"hide", "domain", "begin", "end"}) = {}
<1> DEFINE of == text[at].of
           j == Len(of) - Len(ind_commands) + 1
<1>1. at \in 1..Len(text) /\ at \in Nat \ {0}
  <2>1. at \in 0..Len(text) /\ at > 0 /\ Len(text) \in Nat
    BY TextIs DEF TypeInv, Pending
  <2> QED BY <2>1
<1>2. of \in Seq(Statement) /\ Len(of) \in Nat /\ LineFits(text, at)
  BY <1>1, TextIs
<1>3. /\ s \in Statement /\ s = ind_commands[1] /\ Len(ind_commands) \in Nat \ {0}
      /\ Len(Tail(ind_commands)) = Len(ind_commands) - 1 /\ Tail(ind_commands) \in Seq(Statement)
  BY HeadIs
<1>4. Len(ind_commands) <= Len(of) /\ s = of[j]
  <2>1. Len(ind_commands) <= Len(of) /\ 1 \in 1..Len(ind_commands)
    BY <1>3 DEF Pending
  <2> QED BY <1>3, <2>1 DEF Pending
<1>5. j \in 1..Len(of)
  BY <1>2, <1>3, <1>4
<1>6. \A m \in s.marks : Mentions(text[at], m)
  <2>1. DOMAIN of = 1..Len(of)
    BY <1>2
  <2> QED BY <1>4, <1>5, <2>1 DEF Mentions
<1>7. ASSUME Len(of) = 1 PROVE Tail(ind_commands) = <<>> /\ s = of[1]
  <2>1. Len(ind_commands) = 1
    BY <1>3, <1>4, <1>7
  <2>2. j = 1
    BY <1>7, <2>1
  <2> DEFINE next == Tail(ind_commands)
  <2>3. next \in Seq(Statement) /\ Len(next) = 0
    BY <1>3, <2>1
  <2>4. next = <<>>
    <3> HIDE DEF next
    <3> QED BY <2>3
  <2> HIDE DEF j
  <2> QED BY <1>4, <2>2, <2>4
<1>8. /\ InScript(text, at) => of[j].name = "none" /\ of[j].marks \cap (Parts \cup {"domain"}) = {}
      /\ ~InScript(text, at) =>
           /\ \A m, n \in of[j].marks : m = n
           /\ of[j].name # "none" =>
                of[j].marks \cap (Parts \cup {"hide", "domain", "begin", "end"}) = {}
  <2> HIDE DEF j
  <2> QED BY <1>2, <1>5, Zenon DEF LineFits
<1> QED BY <1>1, <1>3, <1>4, <1>6, <1>7, <1>8

\* The rule of a statement is one of its marks.
LEMMA RuleIsMark ==
  ASSUME NEW s, match_rule(s) # "none"
  PROVE  match_rule(s) \in s.marks
  BY MatchIs DEF Fits

LEMMA PendingStep ==
  ASSUME TypeInv, Pending, [Next]_vars
  PROVE  Pending'
<1>1. CASE CopyLine
  <2>1. ind_commands' = <<>>
    BY <1>1, Zenon DEF CopyLine, GetLine
  <2> QED BY <2>1 DEF Pending
<1>2. CASE SplitLine
  <2>1. /\ at' = at + 1 /\ at \in Nat /\ text' = text /\ ind_commands' = text[at + 1].of
        /\ text[at + 1].of \in Seq(Statement)
    BY <1>2, LineIs DEF SplitLine, options
  <2>2. ind_commands' = text'[at'].of /\ at' > 0 /\ Len(text'[at'].of) \in Nat
    BY <2>1
  <2> QED BY <2>2 DEF Pending
<1>3. CASE ConvertStatement
  <2>1. ind_commands # <<>> /\ ind_commands' = Tail(ind_commands) /\ at' = at /\ text' = text
    BY <1>3, Zenon DEF ConvertStatement, options
  <2>2. /\ Len(ind_commands) \in Nat \ {0} /\ Len(Tail(ind_commands)) = Len(ind_commands) - 1
        /\ \A j \in 1..(Len(ind_commands) - 1) : Tail(ind_commands)[j] = ind_commands[j + 1]
    BY <2>1, HeadIs
  <2>3. /\ at > 0 /\ Len(ind_commands) <= Len(text[at].of) /\ Len(text[at].of) \in Nat
        /\ \A j \in 1..Len(ind_commands) :
             ind_commands[j] = text[at].of[Len(text[at].of) - Len(ind_commands) + j]
    <3>1. Len(text[at].of) \in Nat
      BY <2>1, StatementIs, TextIs
    <3> QED BY <2>1, <3>1 DEF Pending
  <2> DEFINE of == text[at].of
             ind == ind_commands
             n == Len(ind_commands)
             next == Tail(ind_commands)
  <2>4. ASSUME NEW j \in 1..Len(next) PROVE next[j] = of[Len(of) - Len(next) + j]
    <3>1. n \in Nat \ {0} /\ Len(next) = n - 1 /\ Len(of) \in Nat
      BY <2>2, <2>3
    <3>2. j \in 1..(n - 1) /\ j + 1 \in 1..n /\ Len(of) - Len(next) + j = Len(of) - n + (j + 1)
      <4> HIDE DEF n, of, next
      <4> QED BY <3>1
    <3>3. next[j] = ind[j + 1] /\ ind[j + 1] = of[Len(of) - n + (j + 1)]
      BY <2>2, <2>3, <3>2
    <3> QED BY <3>2, <3>3
  <2>5. Len(next) <= Len(of)
    BY <2>2, <2>3
  <2> QED BY <2>1, <2>3, <2>4, <2>5 DEF Pending
<1>4. CASE UNCHANGED vars
  BY <1>4, Zenon DEF vars, Pending
<1> QED BY <1>1, <1>2, <1>3, <1>4 DEF Next

LEMMA ScriptKnownStep ==
  ASSUME TypeInv, Pending, ScriptKnown, [Next]_vars
  PROVE  ScriptKnown'
<1>1. CASE CopyLine
  <2>1. /\ at + 1 \in 1..Len(text) /\ at \in Nat /\ at' = at + 1 /\ ind_commands = <<>>
        /\ Line = text[at + 1] /\ LineFits(text, at + 1)
    BY <1>1, LineIs DEF CopyLine
  <2>2. text' = text /\ source' = source /\ ind_commands' = ind_commands
    BY <1>1, Zenon DEF CopyLine, options
  <2>3. (is_script <=> Open(text, at)) /\ is_script \in BOOLEAN
    BY <2>1 DEF ScriptKnown, Known, TypeInv
  <2>4. Open(text, at + 1) <=>
          ~Mentions(Line, "end") /\ (Mentions(Line, "begin") \/ Open(text, at))
    <3>1. at + 1 \in Nat \ {0} /\ (at + 1) - 1 = at
      BY <2>1
    <3> QED BY <2>1, <3>1, OpenIs
  <2>5. is_script' <=> Open(text, at + 1)
    <3>1. CASE Line.kind # "statements"
      <4>1. ~Mentions(Line, "end") /\ ~Mentions(Line, "begin")
        BY <2>1, <3>1, NoBracket DEF LineFits
      <4> QED BY <1>1, <2>3, <2>4, <4>1 DEF CopyLine
    <3>2. CASE Line.kind = "statements"
      BY <1>1, <2>3, <2>4, <3>2 DEF CopyLine
    <3> QED BY <3>1, <3>2
  <2>6. Known' = at + 1
    BY <2>1, <2>2 DEF Known
  <2> QED BY <2>1, <2>2, <2>5, <2>6 DEF ScriptKnown
<1>2. CASE SplitLine
  <2>1. /\ at + 1 \in 1..Len(text) /\ at \in Nat /\ at' = at + 1 /\ ind_commands = <<>>
        /\ Line = text[at + 1]
    BY <1>2, LineIs DEF SplitLine
  <2>2. /\ text' = text /\ source' = source /\ ind_commands' = Line.of /\ is_script' = is_script
        /\ ~(source = "file" /\ is_script)
    BY <1>2, Zenon DEF SplitLine, options
  <2>3. (is_script <=> Open(text, at)) /\ is_script \in BOOLEAN
    BY <2>1 DEF ScriptKnown, Known, TypeInv
  <2>4. is_script <=> Open(text, Known')
    <3>1. CASE Line.of = <<>>
      <4>1. Known' = at + 1
        BY <2>1, <2>2, <3>1 DEF Known
      <4>2. Open(text, at + 1) <=> Open(text, at)
        <5>1. at + 1 \in Nat \ {0} /\ (at + 1) - 1 = at
          BY <2>1
        <5>2. ~Mentions(Line, "end") /\ ~Mentions(Line, "begin")
          BY <3>1, NoBracket
        <5> QED BY <2>1, <5>1, <5>2, OpenIs
      <4> QED BY <2>3, <4>1, <4>2
    <3>2. CASE Line.of # <<>>
      <4>1. Known' = at
        BY <2>1, <2>2, <3>2 DEF Known
      <4> QED BY <2>3, <4>1
    <3> QED BY <3>1, <3>2
  <2> QED BY <2>2, <2>4 DEF ScriptKnown
<1>3. CASE ConvertStatement
  <2> DEFINE s == Head(ind_commands)
             rule == match_rule(s)
  <2>1. /\ ind_commands # <<>> /\ ind_commands' = Tail(ind_commands) /\ at' = at /\ text' = text
        /\ source' = source /\ is_script' = (rule = "begin" \/ (is_script /\ rule # "end"))
    BY <1>3, Zenon DEF ConvertStatement, options
  <2>2. /\ at \in 1..Len(text) /\ at \in Nat \ {0} /\ s \in Statement
        /\ \A m \in s.marks : Mentions(text[at], m)
        /\ Len(text[at].of) = 1 => Tail(ind_commands) = <<>> /\ s = text[at].of[1]
        /\ ~InScript(text, at) => \A m, n \in s.marks : m = n
    BY <2>1, StatementIs
  <2>3. (is_script <=> Open(text, at - 1)) /\ is_script \in BOOLEAN /\ (source = "file" => ~is_script)
    BY <2>1 DEF ScriptKnown, Known, TypeInv
  <2>4. /\ Open(text, at) <=>
             ~Mentions(text[at], "end") /\ (Mentions(text[at], "begin") \/ Open(text, at - 1))
        /\ InScript(text, at) <=> ~Mentions(text[at], "end") /\ Open(text, at - 1)
    BY <2>2, OpenIs
  <2>5. rule # "none" => rule \in s.marks
    BY RuleIsMark
  <2>6. CASE Mentions(text[at], "begin") \/ Mentions(text[at], "end")
    <3>1. Len(text[at].of) = 1
      BY <2>2, <2>6, Bracket
    <3>2. Tail(ind_commands) = <<>> /\ s = text[at].of[1]
      BY <2>2, <3>1
    <3>3. Known' = at
      BY <2>1, <3>2 DEF Known
    <3>4. CASE Mentions(text[at], "end")
      <4>1. "end" \in s.marks
        BY <2>2, <3>2, <3>4, Bracket
      <4>2. rule = "end"
        <5>1. \A m, n \in s.marks : m = n
          BY <2>2, <2>4, <3>4
        <5>2. rule = IF "end" \in RuleSet /\ Fits("end", s) THEN "end" ELSE "none"
          BY <2>2, <4>1, <5>1, MatchOne
        <5>3. "end" \in RuleSet /\ Fits("end", s)
          BY <4>1 DEF RuleSet, Fits
        <5> QED BY <5>2, <5>3
      <4>3. is_script' = FALSE
        BY <2>1, <4>2
      <4> QED BY <2>1, <2>4, <3>2, <3>3, <3>4, <4>3 DEF ScriptKnown
    <3>5. CASE ~Mentions(text[at], "end")
      <4>1. "begin" \in s.marks
        BY <2>2, <2>6, <3>2, <3>5, Bracket
      <4>2. rule # "end"
        BY <2>2, <2>5, <3>5
      <4>3. ~is_script => rule = "begin"
        <5>1. ASSUME ~is_script PROVE \A m, n \in s.marks : m = n
          BY <2>2, <2>3, <2>4, <5>1
        <5>2. ASSUME ~is_script
              PROVE  rule = IF "begin" \in RuleSet /\ Fits("begin", s) THEN "begin" ELSE "none"
          BY <2>2, <4>1, <5>1, <5>2, MatchOne
        <5>3. "begin" \in RuleSet /\ Fits("begin", s)
          BY <4>1 DEF RuleSet, Fits
        <5> QED BY <5>2, <5>3
      <4>4. is_script' = TRUE /\ Open(text, at)
        BY <2>1, <2>3, <2>4, <2>6, <3>5, <4>2, <4>3
      <4> QED BY <2>1, <3>2, <3>3, <4>4 DEF ScriptKnown
    <3> QED BY <3>4, <3>5
  <2>7. CASE ~Mentions(text[at], "begin") /\ ~Mentions(text[at], "end")
    <3>1. rule # "begin" /\ rule # "end"
      BY <2>2, <2>5, <2>7
    <3>2. is_script' = is_script
      BY <2>1, <2>3, <3>1
    <3>3. Open(text, at) <=> Open(text, at - 1)
      BY <2>4, <2>7
    <3>4. Known' = at \/ Known' = at - 1
      BY <2>1 DEF Known
    <3>5. is_script' <=> Open(text', Known')
      BY <2>1, <2>3, <3>2, <3>3, <3>4
    <3> QED BY <2>1, <2>3, <3>2, <3>5 DEF ScriptKnown
  <2> QED BY <2>6, <2>7
<1>4. CASE UNCHANGED vars
  BY <1>4, Zenon DEF vars, ScriptKnown, Known
<1> QED BY <1>1, <1>2, <1>3, <1>4 DEF Next

-----------------------------------------------------------------------------
(* The lines of scripts. *)

LEMMA Appended ==
  ASSUME NEW S, NEW out \in Seq(S), NEW e \in S, NEW next, next = Append(out, e)
  PROVE  /\ next \in Seq(S) /\ Len(out) \in Nat /\ Len(next) = Len(out) + 1
         /\ next[Len(out) + 1] = e /\ \A k \in 1..Len(out) : next[k] = out[k]
  OBVIOUS

LEMMA InsideNext ==
  ASSUME NEW out \in Seq(Entry), NEW e \in Entry, NEW next, next = Append(out, e)
  PROVE  /\ EndsInside(next) <=> e.is # "end of script" /\ (e.is = "script" \/ EndsInside(out))
         /\ Pick(next, Inside(next), Len(next)) =
              IF e.is \notin {"script", "end of script"} /\ EndsInside(out)
              THEN Append(Pick(out, Inside(out), Len(out)), e)
              ELSE Pick(out, Inside(out), Len(out))
<1> DEFINE n == Len(out)
<1>1. /\ n \in Nat /\ Len(next) = n + 1 /\ next[n + 1] = e
      /\ \A k \in 1..n : next[k] = out[k]
  BY Appended
<1> HIDE DEF n
<1>2. /\ n + 1 \in 1..(n + 1) /\ 1..(n + 1) = (1..n) \cup {n + 1} /\ (n + 1)..(n + 1) = {n + 1}
      /\ \A b \in 1..n : b..(n + 1) = (b..n) \cup {n + 1} /\ b..n \subseteq 1..n
  BY <1>1
<1>3. EndsInside(out) <=>
        \E b \in 1..n : out[b].is = "script" /\ \A j \in b..n : out[j].is # "end of script"
  BY DEF EndsInside, n
<1>4. (\E b \in 1..n : next[b].is = "script" /\ \A j \in b..(n + 1) : next[j].is # "end of script")
        <=> e.is # "end of script" /\ EndsInside(out)
  <2>1. \A b \in 1..n : (\A j \in b..(n + 1) : next[j].is # "end of script")
          <=> e.is # "end of script" /\ \A j \in b..n : out[j].is # "end of script"
    BY <1>1, <1>2
  <2> QED BY <1>1, <1>3, <2>1
<1>5. EndsInside(next) <=> e.is # "end of script" /\ (e.is = "script" \/ EndsInside(out))
  <2>1. EndsInside(next) <=>
          \E b \in 1..(n + 1) : next[b].is = "script" /\ \A j \in b..(n + 1) : next[j].is # "end of script"
    BY <1>1 DEF EndsInside
  <2> QED BY <1>1, <1>2, <1>4, <2>1
<1>6. n + 1 \in Inside(next) <=> e.is \notin {"script", "end of script"} /\ EndsInside(out)
  <2>1. n + 1 \in Inside(next) <=>
          /\ e.is # "script"
          /\ \E b \in 1..(n + 1) : next[b].is = "script" /\ \A j \in b..(n + 1) : next[j].is # "end of script"
    BY <1>1, <1>2 DEF Inside
  <2> QED BY <1>1, <1>2, <1>4, <2>1
<1>7. ASSUME NEW k \in 1..n PROVE (k \in Inside(next) <=> k \in Inside(out)) /\ next[k] = out[k]
  <2>1. k \in 1..(n + 1) /\ 1..k \subseteq 1..n /\ \A b \in 1..k : b..k \subseteq 1..n
    BY <1>1
  <2>2. k \in Inside(next) <=>
          /\ next[k].is # "script"
          /\ \E b \in 1..k : next[b].is = "script" /\ \A j \in b..k : next[j].is # "end of script"
    BY <1>1, <2>1 DEF Inside
  <2>3. k \in Inside(out) <=>
          /\ out[k].is # "script"
          /\ \E b \in 1..k : out[b].is = "script" /\ \A j \in b..k : out[j].is # "end of script"
    BY DEF Inside, n
  <2>4. \A b \in 1..k : next[b] = out[b] /\ \A j \in b..k : next[j] = out[j]
    BY <1>1, <2>1
  <2>5. next[k] = out[k]
    BY <1>1
  <2> QED BY <2>2, <2>3, <2>4, <2>5
<1>8. Pick(next, Inside(next), n) = Pick(out, Inside(out), n)
  <2>1. SameAt(next, out, Inside(next), Inside(out), n)
    BY <1>7 DEF SameAt
  <2>2. n \in Nat
    BY <1>1
  <2> QED BY <2>1, <2>2, PickSame
<1>9. Pick(next, Inside(next), n + 1) =
        IF n + 1 \in Inside(next) THEN Append(Pick(next, Inside(next), n), next[n + 1])
        ELSE Pick(next, Inside(next), n)
  <2>1. n \in Nat
    BY <1>1
  <2> DEFINE I == Inside(next)
  <2> HIDE DEF I
  <2>2. Pick(next, I, n + 1) = IF n + 1 \in I THEN Append(Pick(next, I, n), next[n + 1])
                               ELSE Pick(next, I, n)
    BY <2>1, PickNext
  <2> QED BY <2>2 DEF I
<1> QED BY <1>1, <1>5, <1>6, <1>8, <1>9 DEF n

LEMMA ScriptsInit == Init => ScriptsSoFar
<1> SUFFICES ASSUME Init PROVE ScriptsSoFar
  OBVIOUS
<1>1. output = <<>> /\ at = 0 /\ is_script = FALSE /\ Len(output) = 0
  BY DEF Init
<1>2. ~EndsInside(output)
  <2>1. 1..0 = {}
    OBVIOUS
  <2> QED BY <1>1, <2>1, Zenon DEF EndsInside
<1>3. Pick(output, Inside(output), Len(output)) = <<>>
  BY <1>1, PickEmpty
<1>4. Pick(ScriptLines(text), InScripts(text), at) = <<>>
  BY <1>1, PickEmpty
<1> QED BY <1>1, <1>2, <1>3, <1>4 DEF ScriptsSoFar

\* The next line of the text.
LEMMA NextLine ==
  ASSUME TypeInv, GetLine
  PROVE  Pick(ScriptLines(text), InScripts(text), at + 1) =
           IF InScript(text, at + 1)
           THEN Append(Pick(ScriptLines(text), InScripts(text), at), Copied(Line))
           ELSE Pick(ScriptLines(text), InScripts(text), at)
<1>1. at + 1 \in 1..Len(text) /\ at \in Nat /\ Line = text[at + 1]
  BY LineIs
<1>2. ScriptLines(text)[at + 1] = Copied(Line)
  BY <1>1 DEF ScriptLines
<1>3. at + 1 \in InScripts(text) <=> InScript(text, at + 1)
  BY <1>1 DEF InScripts
<1> QED BY <1>1, <1>2, <1>3, PickNext

LEMMA ScriptsStep ==
  ASSUME TypeInv, Pending, ScriptKnown, ScriptsSoFar, [Next]_vars
  PROVE  ScriptsSoFar'
<1> SUFFICES ASSUME source = "file", source' = source, text' = text PROVE ScriptsSoFar'
  <2>1. source' = source /\ text' = text
    BY Zenon DEF Next, CopyLine, SplitLine, ConvertStatement, vars, options
  <2> QED BY <2>1 DEF ScriptsSoFar
<1> DEFINE picked == Pick(output, Inside(output), Len(output))
           lines == Pick(ScriptLines(text), InScripts(text), at)
<1>1. /\ EndsInside(output) <=> is_script
      /\ picked = lines /\ output \in Seq(Entry) /\ is_script \in BOOLEAN
  BY DEF ScriptsSoFar, TypeInv
<1> HIDE DEF picked, lines
<1>2. CASE CopyLine
  <2>1. /\ at + 1 \in 1..Len(text) /\ at \in Nat /\ at' = at + 1 /\ ind_commands = <<>>
        /\ Line = text[at + 1] /\ Line \in Lines /\ LineFits(text, at + 1)
        /\ Pick(ScriptLines(text), InScripts(text), at + 1) =
             IF InScript(text, at + 1) THEN Append(lines, Copied(Line)) ELSE lines
    BY <1>2, LineIs, NextLine DEF CopyLine, lines
  <2>2. InScript(text, at + 1) <=> ~Mentions(Line, "end") /\ is_script
    <3>1. is_script <=> Open(text, at)
      BY <2>1 DEF ScriptKnown, Known
    <3>2. at + 1 \in Nat \ {0} /\ (at + 1) - 1 = at
      BY <2>1
    <3> QED BY <2>1, <3>1, <3>2, OpenIs
  <2>3. CASE Mentions(Line, "end")
    <3>1. is_script' = FALSE /\ output' = Append(output, EndScript(FALSE))
      BY <1>2, <2>3 DEF CopyLine
    <3> DEFINE e == EndScript(FALSE)
    <3>2. e \in Entry /\ e.is = "end of script"
      BY DEF Entry, EndScript
    <3> HIDE DEF e
    <3>3. ~EndsInside(output') /\ Pick(output', Inside(output'), Len(output')) = picked
      BY <1>1, <3>1, <3>2, InsideNext DEF e, picked
    <3>4. Pick(ScriptLines(text), InScripts(text), at + 1) = lines
      BY <2>1, <2>2, <2>3
    <3> QED BY <1>1, <2>1, <3>1, <3>3, <3>4 DEF ScriptsSoFar
  <2>4. CASE ~Mentions(Line, "end")
    <3>1. is_script' = is_script /\ output' = Append(output, Copied(Line))
      BY <1>2, <2>4 DEF CopyLine
    <3> DEFINE e == Copied(Line)
    <3>2. e \in Entry /\ e.is = "copy"
      BY <2>1 DEF Entry, Copied
    <3> HIDE DEF e
    <3>3. /\ EndsInside(output') <=> EndsInside(output)
          /\ Pick(output', Inside(output'), Len(output')) = IF is_script THEN Append(picked, e) ELSE picked
      BY <1>1, <3>1, <3>2, InsideNext DEF e, picked
    <3>4. Pick(ScriptLines(text), InScripts(text), at + 1) = IF is_script THEN Append(lines, e) ELSE lines
      BY <2>1, <2>2, <2>4 DEF e
    <3> QED BY <1>1, <2>1, <3>1, <3>3, <3>4 DEF ScriptsSoFar
  <2> QED BY <2>3, <2>4
<1>3. CASE SplitLine
  <2>1. /\ at + 1 \in 1..Len(text) /\ at \in Nat /\ at' = at + 1 /\ ind_commands = <<>>
        /\ Line = text[at + 1]
        /\ Pick(ScriptLines(text), InScripts(text), at + 1) =
             IF InScript(text, at + 1) THEN Append(lines, Copied(Line)) ELSE lines
    BY <1>3, LineIs, NextLine DEF SplitLine, lines
  <2>2. ~is_script /\ is_script' = is_script /\ output' = output
    BY <1>3 DEF SplitLine
  <2>3. ~InScript(text, at + 1)
    <3>1. is_script <=> Open(text, at)
      BY <2>1 DEF ScriptKnown, Known
    <3>2. at + 1 \in Nat \ {0} /\ (at + 1) - 1 = at
      BY <2>1
    <3> QED BY <2>1, <2>2, <3>1, <3>2, OpenIs
  <2>4. Pick(ScriptLines(text), InScripts(text), at + 1) = lines
    BY <2>1, <2>3
  <2> QED BY <1>1, <2>1, <2>2, <2>4 DEF ScriptsSoFar, picked
<1>4. CASE ConvertStatement
  <2> DEFINE s == Head(ind_commands)
             rule == match_rule(s)
             e == Converted(s, rule)
  <2>1. /\ ind_commands # <<>> /\ at' = at /\ output' = Append(output, e)
        /\ is_script' = (rule = "begin" \/ (is_script /\ rule # "end"))
    BY <1>4, Zenon DEF ConvertStatement
  <2>2. e \in Entry
    <3>1. s \in Statement
      BY <2>1, HeadIs
    <3> QED BY <3>1, RuleIs, EntriesAre
  <2>3. e.is = CASE rule = "begin" -> "script" [] rule = "end" -> "end of script" [] OTHER -> "statement"
    BY DEF Converted, Script, EndScript, Rewritten
  <2> HIDE DEF e, rule, s
  <2>4. ~is_script
    BY <2>1 DEF ScriptKnown
  <2>5. /\ EndsInside(output') <=> e.is = "script"
        /\ Pick(output', Inside(output'), Len(output')) = picked
    <3>1. e.is = "script" => e.is # "end of script"
      OBVIOUS
    <3> QED BY <1>1, <2>1, <2>2, <2>4, <3>1, InsideNext DEF picked
  <2>6. is_script' <=> rule = "begin"
    BY <2>1, <2>4
  <2>7. e.is = "script" <=> rule = "begin"
    BY <2>3
  <2> QED BY <1>1, <2>1, <2>5, <2>6, <2>7 DEF ScriptsSoFar, lines
<1>5. CASE UNCHANGED vars
  BY <1>5, Zenon DEF vars, ScriptsSoFar
<1> QED BY <1>2, <1>3, <1>4, <1>5 DEF Next

LEMMA ScriptInit == Init => Pending /\ ScriptKnown
<1> SUFFICES ASSUME Init PROVE Pending /\ ScriptKnown
  OBVIOUS
<1>1. ind_commands = <<>> /\ at = 0 /\ is_script = FALSE
  BY DEF Init
<1>2. Pending
  BY <1>1 DEF Pending
<1>3. ScriptKnown
  <2>1. Known = 0
    BY <1>1 DEF Known
  <2> QED BY <1>1, <2>1, OpenIs DEF ScriptKnown
<1> QED BY <1>2, <1>3

\* A script in a file comes out as it was written, line by line.
THEOREM KeepsScripts == Spec => []ScriptsKept
<1> DEFINE Inv == TypeInv /\ Pending /\ ScriptKnown /\ ScriptsSoFar
<1>1. Init => Inv
  BY TypeInit, ScriptInit, ScriptsInit
<1>2. Inv /\ [Next]_vars => Inv'
  BY TypeStep, PendingStep, ScriptKnownStep, ScriptsStep
<1>3. Inv => ScriptsKept
  <2> SUFFICES ASSUME Inv, Ended, source = "file"
               PROVE  Pick(output, Inside(output), Len(output)) =
                        Pick(ScriptLines(text), InScripts(text), Len(text))
    BY Zenon DEF ScriptsKept, ScriptLines, InScripts
  <2> QED BY DEF Ended, ScriptsSoFar
<1> QED BY <1>1, <1>2, <1>3, PTL DEF Spec

-----------------------------------------------------------------------------
(* How far the converter is in the statements of the program. *)

BeginsWith(long, short) ==
  Len(short) <= Len(long) /\ \A j \in 1..Len(short) : long[j] = short[j]

LEMMA ReadGrows ==
  ASSUME TypeInv, NEW m \in 0..Len(text)
  PROVE  BeginsWith(Statements, Read(text, m))
<1> DEFINE N == Len(text)
           T == {n \in 0..N : m <= n => BeginsWith(Read(text, n), Read(text, m))}
<1>1. N \in Nat /\ \A i \in 1..N : text[i].of \in Seq(Statement)
  BY TextIs
<1>2. /\ \A n \in 0..N : Read(text, n) \in Seq(Statement)
      /\ \A n \in 1..N : Read(text, n) = IF InScript(text, n) THEN Read(text, n - 1)
                                      ELSE Read(text, n - 1) \o text[n].of
  BY <1>1, ReadNext
<1>3. \A n \in 0..N : BeginsWith(Read(text, n), Read(text, n))
  BY <1>2 DEF BeginsWith
<1>4. 0 \in T
  <2>1. 0 \in 0..N
    BY <1>1
  <2>2. m <= 0 => m = 0
    OBVIOUS
  <2> QED BY <1>3, <2>1, <2>2
<1>5. ASSUME NEW n \in 1..N, n - 1 \in T PROVE n \in T
  <2> SUFFICES ASSUME m <= n PROVE BeginsWith(Read(text, n), Read(text, m))
    <3>1. n \in 0..N
      BY <1>1
    <3> QED BY <3>1
  <2>1. CASE m = n
    BY <1>3, <2>1
  <2>2. CASE m # n
    <3>1. n - 1 \in 0..N /\ m <= n - 1 /\ m \in 0..N
      BY <1>1, <2>2
    <3> DEFINE a == Read(text, m)
               b == Read(text, n - 1)
               c == Read(text, n)
               l == text[n].of
    <3>2. BeginsWith(b, a)
      BY <1>5, <3>1
    <3>3. a \in Seq(Statement) /\ b \in Seq(Statement) /\ l \in Seq(Statement)
      BY <1>1, <1>2, <3>1
    <3>4. c = b \/ c = b \o l
      BY <1>2
    <3> HIDE DEF a, b, c, l
    <3>5. BeginsWith(b \o l, a)
      BY <3>2, <3>3 DEF BeginsWith
    <3>6. BeginsWith(c, a)
      BY <3>2, <3>4, <3>5
    <3> QED BY <3>6 DEF a, c
  <2> QED BY <2>1, <2>2
<1>6. 0..N \subseteq T
  <2> HIDE DEF T
  <2> QED BY <1>1, <1>4, <1>5, Climb
<1>7. N \in T /\ m <= N
  BY <1>1, <1>6
<1> QED BY <1>7 DEF Statements

LEMMA StatementsAre ==
  ASSUME TypeInv
  PROVE  /\ Statements \in Seq(Statement) /\ Len(Statements) \in Nat
         /\ \A n \in 0..Len(text) :
              Read(text, n) \in Seq(Statement) /\ Len(Read(text, n)) \in 0..Len(Statements)
         /\ \A n \in 1..Len(text) : Read(text, n) = IF InScript(text, n) THEN Read(text, n - 1)
                                                 ELSE Read(text, n - 1) \o text[n].of
<1> DEFINE N == Len(text)
<1>1. N \in Nat /\ \A i \in 1..N : text[i].of \in Seq(Statement)
  BY TextIs
<1>2. /\ \A n \in 0..N : Read(text, n) \in Seq(Statement)
      /\ \A n \in 1..N : Read(text, n) = IF InScript(text, n) THEN Read(text, n - 1)
                                      ELSE Read(text, n - 1) \o text[n].of
  BY <1>1, ReadNext
<1>3. Statements \in Seq(Statement)
  BY <1>1, <1>2 DEF Statements
<1>4. ASSUME NEW n \in 0..N PROVE Len(Read(text, n)) \in 0..Len(Statements)
  <2> DEFINE a == Read(text, n)
             b == Statements
  <2>1. a \in Seq(Statement) /\ b \in Seq(Statement) /\ Len(a) <= Len(b)
    BY <1>2, <1>3, ReadGrows DEF BeginsWith
  <2> HIDE DEF a, b
  <2>2. Len(a) \in 0..Len(b)
    BY <2>1
  <2> QED BY <2>2 DEF a, b
<1>5. Len(Statements) \in Nat
  BY <1>3
<1> QED BY <1>2, <1>3, <1>4, <1>5, Zenon

\* Outside scripts, the statement that is converted is the next one.
LEMMA HeadIsNext ==
  ASSUME TypeInv, Pending, ind_commands # <<>>, ~InScript(text, at)
  PROVE  /\ Done \in Nat /\ Done + 1 \in 1..Len(Statements)
         /\ Head(ind_commands) = Statements[Done + 1]
<1> DEFINE of == text[at].of
           b == Read(text, at - 1)
           c == Read(text, at)
           n == Len(ind_commands)
<1>1. at \in 1..Len(text) /\ at - 1 \in 0..Len(text) /\ at \in 0..Len(text)
  <2>1. Len(text) \in Nat /\ at \in 1..Len(text)
    BY StatementIs, TextIs
  <2> QED BY <2>1
<1>2. of \in Seq(Statement) /\ b \in Seq(Statement) /\ c = b \o of /\ BeginsWith(Statements, c)
      /\ Len(Statements) \in Nat
  BY <1>1, TextIs, StatementsAre, ReadGrows
<1>3. /\ n \in Nat \ {0} /\ n <= Len(of) /\ Head(ind_commands) = ind_commands[1]
      /\ ind_commands[1] = of[Len(of) - n + 1]
  <2>1. n \in Nat \ {0} /\ Head(ind_commands) = ind_commands[1]
    BY HeadIs
  <2>2. 1 \in 1..n
    BY <2>1
  <2> QED BY <2>1, <2>2 DEF Pending
<1>4. Done = Len(c) - n
  BY DEF Done, DoneOf
<1> HIDE DEF of, b, c, n
<1>5. /\ Len(of) \in Nat /\ Len(b) \in Nat /\ Len(c) = Len(b) + Len(of)
      /\ \A i \in 1..Len(of) : c[Len(b) + i] = of[i]
  BY <1>2
<1>6. Done \in Nat /\ Done + 1 \in 1..Len(c) /\ Done + 1 = Len(b) + (Len(of) - n + 1)
      /\ Len(of) - n + 1 \in 1..Len(of)
  BY <1>3, <1>4, <1>5
<1>7. c[Done + 1] = of[Len(of) - n + 1]
  BY <1>5, <1>6
<1>8. Statements[Done + 1] = c[Done + 1] /\ Done + 1 \in 1..Len(Statements)
  BY <1>2, <1>5, <1>6 DEF BeginsWith
<1> QED BY <1>3, <1>6, <1>7, <1>8

LEMMA DoneIs ==
  ASSUME TypeInv, Pending
  PROVE  Done \in 0..Len(Statements)
<1>1. at \in 0..Len(text)
  BY DEF TypeInv
<1>2. Len(Read(text, at)) \in 0..Len(Statements) /\ Len(Statements) \in Nat
  BY <1>1, StatementsAre
<1>3. CASE InScript(text, at)
  BY <1>2, <1>3 DEF Done, DoneOf
<1>4. CASE ~InScript(text, at) /\ ind_commands = <<>>
  <2>1. Len(ind_commands) = 0
    BY <1>4
  <2> QED BY <1>2, <1>4, <2>1 DEF Done, DoneOf
<1>5. CASE ~InScript(text, at) /\ ind_commands # <<>>
  <2>1. Done \in Nat /\ Done + 1 \in 1..Len(Statements)
    BY <1>5, HeadIsNext
  <2> QED BY <1>2, <2>1
<1> QED BY <1>3, <1>4, <1>5

LEMMA DoneStep ==
  ASSUME TypeInv, Pending, ScriptKnown, Next
  PROVE  Done' = IF \/ ConvertStatement /\ ~InScript(text, at)
                    \/ CopyLine /\ source = "file" /\ Mentions(Line, "end")
                 THEN Done + 1 ELSE Done
<1>1. CASE CopyLine \/ SplitLine
  <2>1. /\ at + 1 \in 1..Len(text) /\ at \in Nat /\ at' = at + 1 /\ ind_commands = <<>>
        /\ Line = text[at + 1] /\ Line.of \in Seq(Statement) /\ LineFits(text, at + 1)
    BY <1>1, LineIs DEF CopyLine, SplitLine
  <2> DEFINE b == Read(text, at)
             c == Read(text, at + 1)
             of == Line.of
  <2>2. b \in Seq(Statement) /\ c = IF InScript(text, at + 1) THEN b ELSE b \o of
    <3>1. at \in 0..Len(text)
      BY DEF TypeInv
    <3>2. (at + 1) - 1 = at
      BY <2>1
    <3> QED BY <2>1, <3>1, <3>2, StatementsAre
  <2>3. text' = text /\ ~ConvertStatement
    BY <1>1, <2>1, Zenon DEF CopyLine, SplitLine, ConvertStatement, options
  <2>4. Done = Len(b)
    <3>1. Len(ind_commands) = 0 /\ Len(b) \in Nat
      BY <2>1, <2>2
    <3> HIDE DEF b
    <3> QED BY <3>1 DEF Done, DoneOf, b
  <2>5. Done' = Len(c) - (IF InScript(text, at + 1) THEN 0 ELSE Len(ind_commands'))
    BY <2>1, <2>3 DEF Done, DoneOf
  <2> HIDE DEF b, c
  <2>6. Len(b) \in Nat /\ Len(of) \in Nat /\ Len(b \o of) = Len(b) + Len(of)
    BY <2>1, <2>2
  <2>7. CASE SplitLine
    <3>1. ind_commands' = of
      BY <2>7 DEF SplitLine
    <3>2. ~CopyLine
      BY <2>7 DEF SplitLine, CopyLine
    <3> HIDE DEF of
    <3>3. Done' = Done
      BY <2>2, <2>4, <2>5, <2>6, <3>1
    <3> QED BY <2>3, <3>2, <3>3, Zenon
  <2>8. CASE CopyLine
    <3>1. ind_commands' = <<>> /\ Len(<<>>) = 0
      BY <2>1, <2>8 DEF CopyLine
    <3>2. InScript(text, at + 1) <=> ~Mentions(Line, "end") /\ is_script
      <4>1. is_script <=> Open(text, at)
        BY <2>1 DEF ScriptKnown, Known
      <4>2. at + 1 \in Nat \ {0} /\ (at + 1) - 1 = at
        BY <2>1
      <4> QED BY <2>1, <4>1, <4>2, OpenIs
    <3>3. CASE Mentions(Line, "end")
      <4>1. Len(of) = 1 /\ Line.kind = "statements"
        BY <2>1, <3>3, Bracket
      <4>2. source = "file"
        BY <2>8, <4>1 DEF CopyLine
      <4> HIDE DEF of
      <4>3. Done' = Done + 1
        BY <2>2, <2>4, <2>5, <2>6, <3>1, <3>2, <3>3, <4>1
      <4> QED BY <2>8, <3>3, <4>2, <4>3, Zenon
    <3>4. CASE ~Mentions(Line, "end")
      <4>1. InScript(text, at + 1) \/ Len(of) = 0
        <5>1. CASE Line.kind # "statements"
          BY <2>1, <5>1 DEF LineFits
        <5>2. CASE Line.kind = "statements"
          BY <2>8, <3>2, <3>4, <5>2 DEF CopyLine
        <5> QED BY <5>1, <5>2
      <4> HIDE DEF of
      <4>2. Done' = Done
        BY <2>2, <2>4, <2>5, <2>6, <3>1, <4>1
      <4> QED BY <2>3, <3>4, <4>2, Zenon
    <3> QED BY <3>3, <3>4
  <2> QED BY <1>1, <2>7, <2>8
<1>2. CASE ConvertStatement
  <2>1. /\ ind_commands # <<>> /\ ind_commands' = Tail(ind_commands) /\ at' = at /\ text' = text
        /\ ~CopyLine
    BY <1>2, Zenon DEF ConvertStatement, CopyLine, GetLine, options
  <2>2. Len(ind_commands) \in Nat /\ Len(ind_commands') = Len(ind_commands) - 1
    BY <2>1, HeadIs
  <2> DEFINE c == Read(text, at)
  <2>3. Len(c) \in Nat
    <3>1. c \in Seq(Statement)
      <4>1. at \in 0..Len(text)
        BY DEF TypeInv
      <4> QED BY <4>1, StatementsAre
    <3> QED BY <3>1
  <2>4. Done = Len(c) - (IF InScript(text, at) THEN 0 ELSE Len(ind_commands))
    BY DEF Done, DoneOf
  <2>5. Done' = Len(c) - (IF InScript(text, at) THEN 0 ELSE Len(ind_commands'))
    BY <2>1 DEF Done, DoneOf
  <2> HIDE DEF c
  <2>6. Done' = IF ~InScript(text, at) THEN Done + 1 ELSE Done
    <3>1. CASE InScript(text, at)
      BY <2>4, <2>5, <3>1
    <3>2. CASE ~InScript(text, at)
      BY <2>2, <2>3, <2>4, <2>5, <3>2
    <3> QED BY <3>1, <3>2
  <2> QED BY <1>2, <2>1, <2>6, Zenon
<1> QED BY <1>1, <1>2 DEF Next

-----------------------------------------------------------------------------
(* One more statement read, one more line of output. *)

LEMMA PartIs ==
  ASSUME NEW inc, NEW s
  PROVE  /\ PartOf(inc, s) \in Parts \cup {"none"}
         /\ PartOf(inc, s) # "none" <=> inc /\ s.marks \cap Parts # {}
         /\ PartOf(inc, s) # "none" => PartOf(inc, s) \in s.marks
<1>1. CASE inc /\ s.marks \cap Parts # {}
  <2>1. PartOf(inc, s) = CHOOSE p \in s.marks \cap Parts : TRUE
    BY <1>1 DEF PartOf
  <2>2. PartOf(inc, s) \in s.marks \cap Parts
    BY <1>1, <2>1
  <2>3. "none" \notin Parts
    BY DEF Parts
  <2> QED BY <1>1, <2>2, <2>3
<1>2. CASE ~(inc /\ s.marks \cap Parts # {})
  BY <1>2 DEF PartOf
<1> QED BY <1>1, <1>2

LEMMA PartsNext ==
  ASSUME NEW inc, NEW read \in Seq(Statement), NEW k \in Nat, k + 1 \in 1..Len(read)
  PROVE  OpenPart(PartsRead(inc, read), k + 1) =
           IF PartOf(inc, read[k + 1]) # "none"
           THEN [step |-> read[k + 1].step, part |-> PartOf(inc, read[k + 1])]
           ELSE OpenPart(PartsRead(inc, read), k)
<1> DEFINE parts == PartsRead(inc, read)
<1>1. parts[k + 1] = [step |-> read[k + 1].step, part |-> PartOf(inc, read[k + 1])]
  BY DEF PartsRead
<1>2. parts[k + 1].part = PartOf(inc, read[k + 1])
  BY <1>1
<1> HIDE DEF parts
<1>3. OpenPart(parts, k + 1) = IF parts[k + 1].part # "none" THEN parts[k + 1] ELSE OpenPart(parts, k)
  BY OpenPartNext
<1> QED BY <1>1, <1>2, <1>3 DEF parts

LEMMA DeclaredNext ==
  ASSUME NEW read, NEW k \in Nat
  PROVE  DeclaredBy(read, k + 1) =
           DeclaredBy(read, k) \cup
             (IF "domain" \in read[k + 1].marks THEN {read[k + 1].declares} ELSE {})
<1>1. 1..(k + 1) = (1..k) \cup {k + 1}
  OBVIOUS
<1> QED BY <1>1 DEF DeclaredBy

LEMMA RulesReadNext ==
  ASSUME NEW inc, NEW read \in Seq(Statement), NEW k \in Nat, k + 1 \in 1..Len(read)
  PROVE  Pick(RulesRead(inc, read), NamedIn(read), k + 1) =
           IF read[k + 1].name # "none"
           THEN Append(Pick(RulesRead(inc, read), NamedIn(read), k), RuleRead(inc, read, k + 1))
           ELSE Pick(RulesRead(inc, read), NamedIn(read), k)
<1> DEFINE rules == RulesRead(inc, read)
           I == NamedIn(read)
<1>1. rules[k + 1] = RuleRead(inc, read, k + 1)
  BY DEF RulesRead
<1>2. k + 1 \in I <=> read[k + 1].name # "none"
  BY DEF NamedIn
<1> HIDE DEF rules, I
<1>3. Pick(rules, I, k + 1) = IF k + 1 \in I THEN Append(Pick(rules, I, k), rules[k + 1])
                              ELSE Pick(rules, I, k)
  BY PickNext
<1> QED BY <1>1, <1>2, <1>3 DEF rules, I

\* What a line of the output shows to clingo 4.
ShownPart(e) == IF e.is = "statement" THEN e.part ELSE "none"
ShownName(e) == IF e.is = "statement" THEN e.name ELSE "none"

LEMMA PartsOutNext ==
  ASSUME NEW out \in Seq(Entry), NEW e \in Entry, NEW next, next = Append(out, e)
  PROVE  /\ \A k \in 1..Len(out) : OpenPart(PartsOut(next), k) = OpenPart(PartsOut(out), k)
         /\ OpenPart(PartsOut(next), Len(next)).part =
              IF ShownPart(e) # "none" THEN ShownPart(e) ELSE OpenPart(PartsOut(out), Len(out)).part
<1> DEFINE n == Len(out)
           p == PartsOut(out)
           q == PartsOut(next)
<1>1. /\ n \in Nat /\ Len(next) = n + 1 /\ next[n + 1] = e
      /\ \A k \in 1..n : next[k] = out[k]
  BY Appended
<1>2. \A j \in 1..n : q[j] = p[j]
  BY <1>1 DEF PartsOut
<1>3. q[n + 1].part = ShownPart(e)
  <2>1. n + 1 \in 1..Len(next)
    BY <1>1
  <2>2. q[n + 1] = IF e.is = "statement" THEN [step |-> e.step, part |-> e.part]
                   ELSE [step |-> "none", part |-> "none"]
    BY <1>1, <2>1 DEF PartsOut
  <2> QED BY <2>2 DEF ShownPart
<1> HIDE DEF n, p, q
<1>4. \A k \in 0..n : OpenPart(q, k) = OpenPart(p, k)
  <2> TAKE k \in 0..n
  <2>1. k \in Nat /\ \A j \in 1..k : q[j] = p[j]
    BY <1>1, <1>2
  <2> QED BY <2>1, OpenPartSame
<1>5. OpenPart(q, n + 1) = IF q[n + 1].part # "none" THEN q[n + 1] ELSE OpenPart(q, n)
  BY <1>1, OpenPartNext
<1>6. n \in 0..n /\ 1..n \subseteq 0..n
  BY <1>1
<1>7. OpenPart(q, n + 1).part = IF ShownPart(e) # "none" THEN ShownPart(e) ELSE OpenPart(p, n).part
  BY <1>3, <1>4, <1>5, <1>6
<1>8. \A k \in 1..n : OpenPart(q, k) = OpenPart(p, k)
  BY <1>4, <1>6
<1> QED BY <1>1, <1>7, <1>8 DEF n, p, q

LEMMA RulesOutNext ==
  ASSUME NEW out \in Seq(Entry), NEW e \in Entry, NEW next, next = Append(out, e)
  PROVE  Pick(RulesOut(next), NamedOut(next), Len(next)) =
           IF ShownName(e) # "none"
           THEN Append(Pick(RulesOut(out), NamedOut(out), Len(out)), Rule4(next, Len(next)))
           ELSE Pick(RulesOut(out), NamedOut(out), Len(out))
<1> DEFINE n == Len(out)
           I == NamedOut(out)
           J == NamedOut(next)
           r == RulesOut(out)
           q == RulesOut(next)
<1>1. /\ n \in Nat /\ Len(next) = n + 1 /\ next[n + 1] = e
      /\ \A k \in 1..n : next[k] = out[k]
  BY Appended
<1>2. \A k \in 1..n : OpenPart(PartsOut(next), k) = OpenPart(PartsOut(out), k)
  BY PartsOutNext
<1>3. \A k \in 1..n : k \in J <=> k \in I
  BY <1>1 DEF NamedOut
<1>4. ASSUME NEW k \in 1..n, k \in I PROVE q[k] = r[k]
  <2>1. r[k] = Rule4(out, k) /\ q[k] = Rule4(next, k)
    BY <1>3, <1>4 DEF RulesOut
  <2>2. next[k] = out[k] /\ OpenPart(PartsOut(next), k) = OpenPart(PartsOut(out), k)
    BY <1>1, <1>2
  <2>3. Rule4(next, k) = Rule4(out, k)
    BY <2>2, Zenon DEF Rule4
  <2> QED BY <2>1, <2>3
<1>5. n + 1 \in J <=> ShownName(e) # "none"
  <2>1. n + 1 \in 1..Len(next)
    BY <1>1
  <2> QED BY <1>1, <2>1 DEF NamedOut, ShownName
<1>6. n + 1 \in J => q[n + 1] = Rule4(next, n + 1)
  BY DEF RulesOut
<1> HIDE DEF n, I, J, r, q
<1>7. SameAt(q, r, J, I, n)
  BY <1>3, <1>4 DEF SameAt
<1>8. n \in Nat
  BY <1>1
<1>9. Pick(q, J, n) = Pick(r, I, n)
  BY <1>7, <1>8, PickSame
<1>10. Pick(q, J, n + 1) = IF n + 1 \in J THEN Append(Pick(q, J, n), q[n + 1]) ELSE Pick(q, J, n)
  BY <1>8, PickNext
<1>11. Pick(q, J, n + 1) = IF ShownName(e) # "none" THEN Append(Pick(r, I, n), Rule4(next, n + 1))
                           ELSE Pick(r, I, n)
  BY <1>5, <1>6, <1>9, <1>10
<1> QED BY <1>1, <1>11 DEF n, I, J, r, q

\* A line that shows no rule and no part changes nothing.
LEMMA AgreeSilent ==
  ASSUME NEW inc, NEW read, NEW k, NEW out \in Seq(Entry), Agree(inc, read, k, out),
         NEW e \in Entry, NEW next, next = Append(out, e),
         ShownPart(e) = "none", ShownName(e) = "none"
  PROVE  Agree(inc, read, k, next)
<1>1. Pick(RulesOut(next), NamedOut(next), Len(next)) = Pick(RulesOut(out), NamedOut(out), Len(out))
  BY RulesOutNext
<1>2. OpenPart(PartsOut(next), Len(next)).part = OpenPart(PartsOut(out), Len(out)).part
  BY PartsOutNext
<1> QED BY <1>1, <1>2 DEF Agree

\* A statement and the line that it becomes.
LEMMA AgreeNext ==
  ASSUME NEW inc, NEW read \in Seq(Statement), NEW k \in Nat, k + 1 \in 1..Len(read),
         NEW out \in Seq(Entry), Agree(inc, read, k, out),
         NEW e \in Entry, NEW next, next = Append(out, e),
         ShownPart(e) = PartOf(inc, read[k + 1]), ShownName(e) = read[k + 1].name,
         read[k + 1].name # "none" =>
           /\ e.old = {} /\ e.domains = DomainsRead(read, k + 1)
           /\ e.guard = OnlyRead(inc, read, k + 1)
  PROVE  Agree(inc, read, k + 1, next)
<1> DEFINE p == OpenPart(PartsOut(next), Len(next)).part
           q == OpenPart(PartsRead(inc, read), k + 1).part
<1>1. p = q
  <2>1. p = IF ShownPart(e) # "none" THEN ShownPart(e) ELSE OpenPart(PartsOut(out), Len(out)).part
    BY PartsOutNext
  <2>2. q = IF PartOf(inc, read[k + 1]) # "none" THEN PartOf(inc, read[k + 1])
            ELSE OpenPart(PartsRead(inc, read), k).part
    <3> DEFINE old == OpenPart(PartsRead(inc, read), k)
               new == OpenPart(PartsRead(inc, read), k + 1)
               part == PartOf(inc, read[k + 1])
    <3>1. new = IF part # "none" THEN [step |-> read[k + 1].step, part |-> part] ELSE old
      BY PartsNext
    <3> HIDE DEF old, new, part
    <3>2. new.part = IF part # "none" THEN part ELSE old.part
      BY <3>1
    <3> QED BY <3>2 DEF old, new, part
  <2>3. OpenPart(PartsOut(out), Len(out)).part = OpenPart(PartsRead(inc, read), k).part
    BY DEF Agree
  <2> HIDE DEF p, q
  <2> QED BY <2>1, <2>2, <2>3
<1>2. ASSUME read[k + 1].name # "none" PROVE Rule4(next, Len(next)) = RuleRead(inc, read, k + 1)
  <2>1. next[Len(next)] = e
    BY Appended
  <2>2. e.name = read[k + 1].name
    BY <1>2 DEF ShownName
  <2>3. e.old = {} /\ e.domains = DomainsRead(read, k + 1) /\ e.guard = OnlyRead(inc, read, k + 1)
    BY <1>2
  <2>4. Rule4(next, Len(next)) = [name |-> e.name, part |-> p, old |-> e.old,
                                  domains |-> e.domains, only |-> e.guard]
    BY <2>1, Zenon DEF Rule4
  <2> QED BY <1>1, <2>2, <2>3, <2>4, Zenon DEF RuleRead
<1>3. Pick(RulesOut(next), NamedOut(next), Len(next)) =
        IF ShownName(e) # "none"
        THEN Append(Pick(RulesOut(out), NamedOut(out), Len(out)), Rule4(next, Len(next)))
        ELSE Pick(RulesOut(out), NamedOut(out), Len(out))
  BY RulesOutNext
<1>4. Pick(RulesRead(inc, read), NamedIn(read), k + 1) =
        IF read[k + 1].name # "none"
        THEN Append(Pick(RulesRead(inc, read), NamedIn(read), k), RuleRead(inc, read, k + 1))
        ELSE Pick(RulesRead(inc, read), NamedIn(read), k)
  BY RulesReadNext
<1>5. Pick(RulesOut(out), NamedOut(out), Len(out)) = Pick(RulesRead(inc, read), NamedIn(read), k)
  BY DEF Agree
<1>6. Pick(RulesOut(next), NamedOut(next), Len(next)) = Pick(RulesRead(inc, read), NamedIn(read), k + 1)
  BY <1>2, <1>3, <1>4, <1>5, Zenon
<1> QED BY <1>1, <1>6 DEF Agree

LEMMA KnowsNext ==
  ASSUME NEW inc, NEW read \in Seq(Statement), NEW k \in Nat, k + 1 \in 1..Len(read),
         NEW scope, NEW step, NEW domains \in Seq(Declared), Knows(inc, read, k, scope, step, domains),
         NEW p, p = PartOf(inc, read[k + 1]),
         NEW newScope, newScope = IF p # "none" THEN IncrementalScope[p] ELSE scope,
         NEW newStep, newStep = IF p = "volatile" THEN read[k + 1].step ELSE step,
         NEW newDomains,
         newDomains = IF "domain" \in read[k + 1].marks THEN Append(domains, read[k + 1].declares)
                      ELSE domains
  PROVE  Knows(inc, read, k + 1, newScope, newStep, newDomains)
<1> DEFINE old == OpenPart(PartsRead(inc, read), k)
           new == OpenPart(PartsRead(inc, read), k + 1)
<1>1. ToSet(newDomains) = DeclaredBy(read, k + 1)
  <2>1. ToSet(domains) = DeclaredBy(read, k)
    BY DEF Knows
  <2>2. ToSet(Append(domains, read[k + 1].declares)) = ToSet(domains) \cup {read[k + 1].declares}
    <3> DEFINE d == read[k + 1].declares
               more == Append(domains, d)
               n == Len(domains)
    <3>1. d \in Declared
      <4>1. read[k + 1] \in Statement
        OBVIOUS
      <4> QED BY <4>1 DEF Declared
    <3> HIDE DEF d
    <3>2. /\ more \in Seq(Declared) /\ n \in Nat /\ Len(more) = n + 1
          /\ more[n + 1] = d /\ \A i \in 1..n : more[i] = domains[i]
      BY <3>1, Appended
    <3>3. DOMAIN more = (1..n) \cup {n + 1} /\ DOMAIN domains = 1..n
      BY <3>2
    <3> HIDE DEF more, n
    <3> QED BY <3>2, <3>3 DEF ToSet, d, more
  <2>3. DeclaredBy(read, k + 1) =
          DeclaredBy(read, k) \cup
            (IF "domain" \in read[k + 1].marks THEN {read[k + 1].declares} ELSE {})
    BY DeclaredNext
  <2>4. CASE "domain" \in read[k + 1].marks
    BY <2>1, <2>2, <2>3, <2>4
  <2>5. CASE "domain" \notin read[k + 1].marks
    BY <2>1, <2>3, <2>5
  <2> QED BY <2>4, <2>5
<1>2. new = IF p # "none" THEN [step |-> read[k + 1].step, part |-> p] ELSE old
  BY PartsNext
<1>3. inc /\ old.part # "none" =>
        scope = IncrementalScope[old.part] /\ (old.part = "volatile" => step = old.step)
  BY DEF Knows
<1> HIDE DEF old, new
<1>4. ASSUME inc, new.part # "none"
      PROVE  newScope = IncrementalScope[new.part] /\ (new.part = "volatile" => newStep = new.step)
  <2>1. CASE p # "none"
    BY <1>2, <2>1
  <2>2. CASE p = "none"
    BY <1>2, <1>3, <1>4, <2>2
  <2> QED BY <2>1, <2>2
<1> QED BY <1>1, <1>4 DEF Knows, new

-----------------------------------------------------------------------------
(* A statement outside scripts: its rule, part, domains and guard. *)

\* A statement with one mark is taken by the rule for that mark, if there is one.
LEMMA RuleForMark ==
  ASSUME NEW s \in Statement, \A m, n \in s.marks : m = n, NEW rule, rule = match_rule(s),
         NEW m \in s.marks
  PROVE  /\ m \in RuleSet /\ m # "constraint" => rule = m
         /\ m = "constraint" =>
              rule = IF is_incremental /\ current_scope = "VOLATILE" THEN "constraint" ELSE "none"
         /\ rule \in {m, "none"}
<1>1. rule = IF m \in RuleSet /\ Fits(m, s) THEN m ELSE "none"
  BY MatchOne
<1>2. m # "constraint" => Fits(m, s)
  BY DEF Fits
<1>3. "constraint" \in RuleSet
  BY DEF RuleSet
<1>4. m = "constraint" => (Fits(m, s) <=> is_incremental /\ current_scope = "VOLATILE")
  BY DEF Fits
<1> QED BY <1>1, <1>2, <1>3, <1>4

LEMMA PartOpened ==
  ASSUME TypeInv, NEW s \in Statement, \A m, n \in s.marks : m = n, NEW rule, rule = match_rule(s)
  PROVE  (IF OpensPart(rule) THEN rule ELSE "none") = PartOf(is_incremental, s)
<1> DEFINE p == PartOf(is_incremental, s)
<1>1. /\ p \in Parts \cup {"none"} /\ (p # "none" <=> is_incremental /\ s.marks \cap Parts # {})
      /\ p # "none" => p \in s.marks
  BY PartIs
<1> HIDE DEF p
<1>2. "none" \notin Parts /\ "constraint" \notin Parts
  BY DEF Parts
<1>3. CASE p # "none"
  <2>1. p \in RuleSet
    BY <1>1, <1>3 DEF RuleSet, Parts
  <2>2. rule = p
    BY <1>1, <1>2, <1>3, <2>1, RuleForMark
  <2> QED BY <1>1, <1>3, <2>2 DEF OpensPart, p
<1>4. CASE p = "none"
  <2>1. ~OpensPart(rule)
    <3>1. SUFFICES ASSUME is_incremental, rule \in Parts PROVE FALSE
      BY DEF OpensPart
    <3>2. rule \in s.marks
      BY <1>2, <3>1, RuleIsMark
    <3> QED BY <1>1, <1>4, <3>1, <3>2
  <2> QED BY <1>4, <2>1 DEF p
<1> QED BY <1>3, <1>4

\* The query that guards a constraint is the step of the volatile part it is in.
LEMMA GuardIsStep ==
  ASSUME TypeInv, Pending, NEW k \in Nat, k + 1 \in 1..Len(Statements),
         Knows(is_incremental, Statements, k, current_scope, vol_var_string, domain_list),
         NEW s, s = Statements[k + 1], \A m, n \in s.marks : m = n,
         s.name # "none", s.marks \cap Parts = {},
         NEW rule, rule = match_rule(s)
  PROVE  (IF rule = "constraint" THEN vol_var_string ELSE "none")
           = OnlyRead(is_incremental, Statements, k + 1)
<1> DEFINE R == Statements
           inc == is_incremental
           parts == PartsRead(inc, R)
           open == OpenPart(parts, k)
<1>1. R \in Seq(Statement) /\ Len(R) \in Nat /\ s \in Statement
  <2>1. R \in Seq(Statement)
    BY StatementsAre
  <2> HIDE DEF R
  <2> QED BY <2>1 DEF R
<1>2. OpenPart(parts, k + 1) = open
  <2>1. PartOf(inc, R[k + 1]) = "none"
    BY PartIs
  <2> HIDE DEF R, inc
  <2> QED BY <1>1, <2>1, PartsNext DEF R
<1>3. OnlyRead(inc, R, k + 1) =
        IF "constraint" \in s.marks /\ open.part = "volatile" THEN open.step ELSE "none"
  BY <1>2 DEF OnlyRead
<1>4. CASE "constraint" \notin s.marks
  <2>1. rule # "constraint"
    BY <1>4, RuleIsMark
  <2> QED BY <1>3, <1>4, <2>1
<1>5. CASE "constraint" \in s.marks
  <2>1. rule = IF inc /\ current_scope = "VOLATILE" THEN "constraint" ELSE "none"
    BY <1>1, <1>5, RuleForMark
  <2>2. \A j \in 1..k : parts[j].part = PartOf(inc, R[j])
    BY <1>1 DEF PartsRead
  <2>3. /\ (\E j \in 1..k : parts[j].part # "none") => open.part # "none"
        /\ open.part # "none" => \E j \in 1..k : parts[j].part # "none" /\ open = parts[j]
    <3> HIDE DEF parts
    <3> QED BY OpenPartIs
  <2>4. CASE ~inc
    <3>1. open.part = "none"
      BY <2>2, <2>3, <2>4, PartIs
    <3> QED BY <1>3, <2>1, <2>4, <3>1
  <2>5. CASE inc
    <3>1. PICK j \in 1..k : R[j].marks \cap Parts # {}
      <4>1. InOrder(R, inc)
        BY TextIs
      <4>2. \E j \in 1..((k + 1) - 1) : R[j].marks \cap Parts # {}
        BY <1>5, <2>5, <4>1 DEF InOrder
      <4> QED BY <4>2
    <3>2. open.part # "none"
      BY <2>2, <2>3, <2>5, <3>1, PartIs
    <3>3. open.part \in Parts
      <4>1. PICK i \in 1..k : open = parts[i]
        BY <2>3, <3>2
      <4>2. open.part = PartOf(inc, R[i])
        BY <2>2, <4>1
      <4> QED BY <3>2, <4>2, PartIs
    <3>4. /\ current_scope = IncrementalScope[open.part]
          /\ open.part = "volatile" => vol_var_string = open.step
      BY <2>5, <3>2 DEF Knows
    <3>5. current_scope = "VOLATILE" <=> open.part = "volatile"
      <4>1. /\ IncrementalScope["base"] = "BASE" /\ IncrementalScope["cumulative"] = "CUMULATIVE"
            /\ IncrementalScope["volatile"] = "VOLATILE"
        BY DEF IncrementalScope
      <4> HIDE DEF open
      <4> QED BY <3>3, <3>4, <4>1 DEF Parts
    <3> QED BY <1>3, <1>5, <2>1, <2>5, <3>4, <3>5
  <2> QED BY <2>4, <2>5
<1> QED BY <1>4, <1>5

LEMMA DomainsAreRead ==
  ASSUME TypeInv, NEW k \in Nat, k + 1 \in 1..Len(Statements),
         Knows(is_incremental, Statements, k, current_scope, vol_var_string, domain_list),
         NEW s, s = Statements[k + 1], s.name # "none"
  PROVE  {d \in ToSet(domain_list) : d.variable \in s.variables} = DomainsRead(Statements, k + 1)
<1> DEFINE R == Statements
<1>1. Len(R) \in Nat
  BY StatementsAre
<1>2. ToSet(domain_list) = DeclaredBy(R, k)
  BY DEF Knows
<1>3. ASSUME NEW d \in DeclaredBy(R, Len(R)), d.variable \in s.variables PROVE d \in DeclaredBy(R, k)
  <2>1. PICK j \in 1..Len(R) : "domain" \in R[j].marks /\ d = R[j].declares
    BY DEF DeclaredBy
  <2>2. InOrder(R, is_incremental)
    BY TextIs
  <2>3. j < k + 1
    BY <1>3, <2>1, <2>2 DEF InOrder
  <2>4. j \in 1..k
    BY <1>1, <2>3
  <2> QED BY <2>1, <2>4 DEF DeclaredBy
<1>4. DeclaredBy(R, k) \subseteq DeclaredBy(R, Len(R))
  <2>1. 1..k \subseteq 1..Len(R)
    BY <1>1
  <2> QED BY <2>1 DEF DeclaredBy
<1> QED BY <1>2, <1>3, <1>4 DEF DomainsRead

-----------------------------------------------------------------------------
(* The rules that come out. *)

LEMMA RulesInit == Init => RulesSoFar
<1> SUFFICES ASSUME Init PROVE RulesSoFar
  OBVIOUS
<1>0. TypeInv
  BY TypeInit
<1>1. at = 0 /\ ind_commands = <<>> /\ output = <<>> /\ domain_list = <<>> /\ Len(output) = 0
  BY DEF Init
<1>2. Done = 0
  <2>1. Read(text, 0) = <<>>
    BY <1>0, TextIs, ReadNext
  <2>2. Len(<<>>) = 0
    OBVIOUS
  <2> QED BY <1>1, <2>1, <2>2 DEF Done, DoneOf
<1>3. /\ Pick(RulesOut(output), NamedOut(output), Len(output)) = <<>>
      /\ Pick(RulesRead(is_incremental, Statements), NamedIn(Statements), 0) = <<>>
  BY <1>1, PickEmpty
<1>4. /\ OpenPart(PartsOut(output), Len(output)).part = "none"
      /\ OpenPart(PartsRead(is_incremental, Statements), 0).part = "none"
  BY <1>1, OpenPartFirst
<1>5. ToSet(domain_list) = {} /\ DeclaredBy(Statements, 0) = {}
  <2>1. DOMAIN <<>> = {} /\ 1..0 = {}
    OBVIOUS
  <2> QED BY <1>1, <2>1, Zenon DEF ToSet, DeclaredBy
<1>6. Agree(is_incremental, Statements, Done, output)
  BY <1>2, <1>3, <1>4 DEF Agree
<1>7. Knows(is_incremental, Statements, Done, current_scope, vol_var_string, domain_list)
  BY <1>2, <1>4, <1>5 DEF Knows
<1> QED BY <1>6, <1>7 DEF RulesSoFar

\* A statement of a program becomes what clingo 4 reads as the same rule, or as
\* the opening of the same part.
LEMMA ConvertOutside ==
  ASSUME TypeInv, Pending, ScriptKnown, RulesSoFar, ConvertStatement, ~InScript(text, at)
  PROVE  /\ Agree(is_incremental, Statements, Done + 1, output')
         /\ Knows(is_incremental, Statements, Done + 1, current_scope', vol_var_string', domain_list')
<1> DEFINE s == Head(ind_commands)
           rule == match_rule(s)
           e == Converted(s, rule)
           k == Done
           R == Statements
           p == PartOf(is_incremental, s)
<1>1. /\ ind_commands # <<>> /\ output' = Append(output, e)
      /\ current_scope' = IF OpensPart(rule) THEN IncrementalScope[rule] ELSE current_scope
      /\ vol_var_string' = IF OpensPart(rule) /\ rule = "volatile" THEN s.step ELSE vol_var_string
      /\ domain_list' = IF rule = "domain" THEN Append(domain_list, s.declares) ELSE domain_list
  BY Zenon DEF ConvertStatement
<1>2. /\ s \in Statement /\ \A m, n \in s.marks : m = n
      /\ s.name # "none" => s.marks \cap (Parts \cup {"hide", "domain", "begin", "end"}) = {}
      /\ \A m \in s.marks : Mentions(text[at], m)
      /\ at \in 1..Len(text) /\ at \in Nat \ {0}
      /\ Len(text[at].of) = 1 => s = text[at].of[1]
  BY <1>1, StatementIs
<1>3. k \in Nat /\ k + 1 \in 1..Len(R) /\ s = R[k + 1] /\ R \in Seq(Statement)
  BY <1>1, HeadIsNext, StatementsAre
<1>4. /\ Agree(is_incremental, R, k, output) /\ output \in Seq(Entry)
      /\ Knows(is_incremental, R, k, current_scope, vol_var_string, domain_list)
      /\ domain_list \in Seq(Declared)
  BY DEF RulesSoFar, TypeInv
<1>5. rule \in Marks \cup {"none"} /\ (rule # "none" => rule \in s.marks)
  BY RuleIs, RuleIsMark
<1>6. e \in Entry
  <2> HIDE DEF s, rule
  <2> QED BY <1>2, <1>5, EntriesAre
<1>7. (IF OpensPart(rule) THEN rule ELSE "none") = p
  BY <1>2, PartOpened
<1> HIDE DEF s, rule, k, R, p
<1>8. e = CASE rule = "begin" -> Script [] rule = "end" -> EndScript(TRUE) [] OTHER -> Rewritten(s, rule)
  BY DEF Converted
<1>9. rule \in {"begin", "end"} => s.name = "none" /\ p = "none"
  <2>1. ~OpensPart("begin") /\ ~OpensPart("end")
    BY DEF OpensPart, Parts
  <2> QED BY <1>2, <1>5, <1>7, <2>1
<1>10. ShownPart(e) = p /\ ShownName(e) = s.name
  <2>1. CASE rule \in {"begin", "end"}
    <3>1. e \in {Script, EndScript(TRUE)}
      BY <1>8, <2>1
    <3>2. Script.is # "statement" /\ EndScript(TRUE).is # "statement"
      BY DEF Script, EndScript
    <3>3. e.is # "statement"
      BY <3>1, <3>2, Zenon
    <3> QED BY <1>9, <2>1, <3>3 DEF ShownPart, ShownName
  <2>2. CASE rule \notin {"begin", "end"}
    <3>1. e = Rewritten(s, rule)
      BY <1>8, <2>2
    <3>2. e.is = "statement" /\ e.name = s.name /\ e.part = IF OpensPart(rule) THEN rule ELSE "none"
      BY <3>1 DEF Rewritten
    <3> QED BY <1>7, <3>2 DEF ShownPart, ShownName
  <2> QED BY <2>1, <2>2
<1>11. ASSUME s.name # "none"
       PROVE  /\ e.old = {} /\ e.domains = DomainsRead(R, k + 1)
              /\ e.guard = OnlyRead(is_incremental, R, k + 1)
  <2>1. s.marks \cap (Parts \cup {"hide", "domain", "begin", "end"}) = {}
    BY <1>2, <1>11
  <2>2. rule \notin Parts \cup {"hide", "domain", "begin", "end"}
    <3>1. "none" \notin Parts \cup {"hide", "domain", "begin", "end"}
      BY DEF Parts
    <3> QED BY <1>5, <2>1, <3>1
  <2>3. e = Rewritten(s, rule)
    BY <1>8, <2>2
  <2>4. e.old = s.marks \ {rule, "constraint"}
    BY <2>3 DEF Rewritten
  <2>5. s.marks \ {rule, "constraint"} = {}
    <3> SUFFICES ASSUME NEW m \in s.marks, m # "constraint" PROVE m = rule
      OBVIOUS
    <3>1. m \in Marks
      BY <1>2, StatementAssumption
    <3>2. m \in RuleSet
      BY <2>1, <3>1 DEF Marks, RuleSet
    <3> QED BY <1>2, <3>2, RuleForMark DEF rule
  <2>6. e.guard = OnlyRead(is_incremental, R, k + 1)
    <3>1. e.guard = IF rule = "constraint" THEN vol_var_string ELSE "none"
      BY <2>3 DEF Rewritten
    <3>2. s.marks \cap Parts = {}
      BY <2>1
    <3>3. (IF rule = "constraint" THEN vol_var_string ELSE "none") = OnlyRead(is_incremental, R, k + 1)
      BY <1>2, <1>3, <1>4, <1>11, <3>2, GuardIsStep DEF R, rule
    <3> QED BY <3>1, <3>3
  <2>7. e.domains = DomainsRead(R, k + 1)
    <3>1. e.domains = IF source = "stdin" /\ is_script THEN {} ELSE remove_domain_variables(s, rule)
      BY <2>3 DEF Rewritten
    <3>2. ~is_script
      <4> SUFFICES ASSUME is_script PROVE FALSE
        OBVIOUS
      <4>1. Open(text, at - 1)
        BY <1>1 DEF ScriptKnown, Known
      <4>2. Mentions(text[at], "end")
        BY <1>2, <4>1, OpenIs
      <4>3. "end" \in s.marks
        BY <1>2, <4>2, Bracket
      <4> QED BY <2>1, <4>3
    <3>3. ~Commented(rule) /\ s.marks \cap (Parts \cup {"domain"}) = {}
      BY <2>1, <2>2 DEF Commented, Parts
    <3>4. remove_domain_variables(s, rule) = {d \in ToSet(domain_list) : d.variable \in s.variables}
      BY <3>3 DEF remove_domain_variables
    <3>5. {d \in ToSet(domain_list) : d.variable \in s.variables} = DomainsRead(R, k + 1)
      BY <1>3, <1>4, <1>11, DomainsAreRead DEF R
    <3> QED BY <3>1, <3>2, <3>4, <3>5
  <2> QED BY <2>4, <2>5, <2>6, <2>7
<1>12. Agree(is_incremental, R, k + 1, output')
  <2> HIDE DEF e
  <2>1. ShownPart(e) = PartOf(is_incremental, R[k + 1]) /\ ShownName(e) = R[k + 1].name
    BY <1>3, <1>10 DEF p
  <2> QED BY <1>1, <1>3, <1>4, <1>6, <1>11, <2>1, AgreeNext
<1>13. Knows(is_incremental, R, k + 1, current_scope', vol_var_string', domain_list')
  <2>0. "none" \notin Parts
    BY DEF Parts
  <2>1. OpensPart(rule) <=> p # "none"
    BY <1>7, <2>0 DEF OpensPart
  <2>2. current_scope' = IF p # "none" THEN IncrementalScope[p] ELSE current_scope
    BY <1>1, <1>7, <2>1
  <2>3. vol_var_string' = IF p = "volatile" THEN R[k + 1].step ELSE vol_var_string
    BY <1>1, <1>3, <1>7, <2>1
  <2>4. rule = "domain" <=> "domain" \in R[k + 1].marks
    <3>1. "domain" \in RuleSet
      BY DEF RuleSet
    <3>2. "domain" \in s.marks => rule = "domain"
      BY <1>2, <3>1, RuleForMark DEF rule
    <3> QED BY <1>3, <1>5, <3>2
  <2>5. domain_list' = IF "domain" \in R[k + 1].marks THEN Append(domain_list, R[k + 1].declares)
                       ELSE domain_list
    BY <1>1, <1>3, <2>4
  <2>6. p = PartOf(is_incremental, R[k + 1])
    BY <1>3 DEF p
  <2> QED BY <1>3, <1>4, <2>2, <2>3, <2>5, <2>6, KnowsNext
<1> QED BY <1>12, <1>13 DEF k, R

\* In a script, a statement becomes what clingo 4 reads as no rule and no part.
LEMMA ConvertInside ==
  ASSUME TypeInv, Pending, RulesSoFar, ConvertStatement, InScript(text, at)
  PROVE  /\ Agree(is_incremental, Statements, Done, output')
         /\ Knows(is_incremental, Statements, Done, current_scope', vol_var_string', domain_list')
<1> DEFINE s == Head(ind_commands)
           rule == match_rule(s)
           e == Converted(s, rule)
<1>1. /\ ind_commands # <<>> /\ output' = Append(output, e)
      /\ current_scope' = IF OpensPart(rule) THEN IncrementalScope[rule] ELSE current_scope
      /\ vol_var_string' = IF OpensPart(rule) /\ rule = "volatile" THEN s.step ELSE vol_var_string
      /\ domain_list' = IF rule = "domain" THEN Append(domain_list, s.declares) ELSE domain_list
  BY Zenon DEF ConvertStatement
<1>2. s \in Statement /\ s.name = "none" /\ s.marks \cap (Parts \cup {"domain"}) = {}
  BY <1>1, StatementIs
<1>3. rule \in Marks \cup {"none"} /\ (rule # "none" => rule \in s.marks)
  BY RuleIs, RuleIsMark
<1>4. e \in Entry
  <2> HIDE DEF s, rule
  <2> QED BY <1>2, <1>3, EntriesAre
<1> HIDE DEF s, rule
<1>5. ~OpensPart(rule) /\ rule # "domain"
  <2>1. "none" \notin Parts
    BY DEF Parts
  <2> QED BY <1>2, <1>3, <2>1 DEF OpensPart
<1>6. ShownPart(e) = "none" /\ ShownName(e) = "none"
  <2>1. e = CASE rule = "begin" -> Script [] rule = "end" -> EndScript(TRUE) [] OTHER -> Rewritten(s, rule)
    BY DEF Converted
  <2>2. CASE rule \in {"begin", "end"}
    <3>1. e \in {Script, EndScript(TRUE)}
      BY <2>1, <2>2
    <3>2. Script.is # "statement" /\ EndScript(TRUE).is # "statement"
      BY DEF Script, EndScript
    <3>3. e.is # "statement"
      BY <3>1, <3>2, Zenon
    <3> QED BY <3>3 DEF ShownPart, ShownName
  <2>3. CASE rule \notin {"begin", "end"}
    <3>1. e = Rewritten(s, rule)
      BY <2>1, <2>3
    <3>2. e.name = "none" /\ e.part = "none"
      BY <1>2, <1>5, <3>1 DEF Rewritten
    <3> QED BY <3>2 DEF ShownPart, ShownName
  <2> QED BY <2>2, <2>3
<1> HIDE DEF e
<1>7. /\ Agree(is_incremental, Statements, Done, output) /\ output \in Seq(Entry)
      /\ Knows(is_incremental, Statements, Done, current_scope, vol_var_string, domain_list)
  BY DEF RulesSoFar, TypeInv
<1>8. Agree(is_incremental, Statements, Done, output')
  BY <1>1, <1>4, <1>6, <1>7, AgreeSilent
<1> QED BY <1>1, <1>5, <1>7, <1>8

LEMMA OneMore ==
  ASSUME NEW S, NEW b \in Seq(S), NEW l \in Seq(S), Len(l) = 1, NEW c, c = b \o l
  PROVE  Len(b) \in Nat /\ Len(c) = Len(b) + 1 /\ c[Len(b) + 1] = l[1]
<1>1. Len(b) \in Nat /\ Len(c) = Len(b) + 1
  BY ConcatProperties
<1>2. Len(b) + 1 \in 1..(Len(b) + Len(l)) /\ ~(Len(b) + 1 <= Len(b)) /\ (Len(b) + 1) - Len(b) = 1
  BY <1>1
<1>3. c[Len(b) + 1] = l[(Len(b) + 1) - Len(b)]
  BY <1>2, ConcatProperties
<1> QED BY <1>1, <1>2, <1>3

\* A line that is copied is no rule, and neither is the end of a script.
LEMMA CopyShowsNothing ==
  ASSUME TypeInv, ScriptKnown, Pending, RulesSoFar, CopyLine
  PROVE  /\ Agree(is_incremental, Statements, Done', output')
         /\ Knows(is_incremental, Statements, Done', current_scope, vol_var_string, domain_list)
<1>1. /\ Agree(is_incremental, Statements, Done, output) /\ output \in Seq(Entry)
      /\ Knows(is_incremental, Statements, Done, current_scope, vol_var_string, domain_list)
      /\ domain_list \in Seq(Declared)
  BY DEF RulesSoFar, TypeInv
<1>2. /\ at + 1 \in 1..Len(text) /\ at \in Nat /\ at' = at + 1 /\ ind_commands = <<>>
      /\ Line = text[at + 1] /\ Line \in Lines /\ LineFits(text, at + 1) /\ Line.of \in Seq(Statement)
  BY LineIs DEF CopyLine
<1>3. PICK e \in Entry : output' = Append(output, e) /\ e.is # "statement"
  <2>1. Copied(Line) \in Entry /\ Copied(Line).is # "statement"
    BY <1>2 DEF Entry, Copied
  <2>2. EndScript(FALSE) \in Entry /\ EndScript(FALSE).is # "statement"
    BY DEF Entry, EndScript
  <2> QED BY <2>1, <2>2, Zenon DEF CopyLine
<1>4. ShownPart(e) = "none" /\ ShownName(e) = "none"
  BY <1>3 DEF ShownPart, ShownName
<1>5. Done' = IF source = "file" /\ Mentions(Line, "end") THEN Done + 1 ELSE Done
  <2>1. ~ConvertStatement
    BY <1>2 DEF ConvertStatement
  <2> QED BY <2>1, DoneStep DEF Next
<1>6. CASE ~(source = "file" /\ Mentions(Line, "end"))
  BY <1>1, <1>3, <1>4, <1>5, <1>6, AgreeSilent
<1>7. CASE source = "file" /\ Mentions(Line, "end")
  <2> DEFINE k == Done
             R == Statements
             of == Line.of
             s == of[1]
  <2>1. Len(of) = 1 /\ "end" \in s.marks
    BY <1>2, <1>7, Bracket
  <2>2. ~InScript(text, at + 1)
    <3>1. at + 1 \in Nat \ {0}
      BY <1>2
    <3> QED BY <1>2, <1>7, <3>1, OpenIs
  <2>3. /\ \A m, n \in s.marks : m = n
        /\ s.name # "none" => s.marks \cap (Parts \cup {"hide", "domain", "begin", "end"}) = {}
    <3>1. 1 \in 1..Len(of)
      BY <2>1
    <3> QED BY <1>2, <2>2, <3>1, Zenon DEF LineFits
  <2>4. s.name = "none" /\ "domain" \notin s.marks /\ s.marks \cap Parts = {}
    <3>1. "end" \notin Parts
      BY DEF Parts
    <3> QED BY <2>1, <2>3, <3>1
  <2>5. k \in Nat /\ k + 1 \in 1..Len(R) /\ R \in Seq(Statement) /\ R[k + 1] = s
    <3> DEFINE b == Read(text, at)
               c == Read(text, at + 1)
    <3>1. /\ b \in Seq(Statement) /\ c = b \o of /\ BeginsWith(R, c) /\ R \in Seq(Statement)
      <4>0. Len(text) \in Nat
        BY TextIs
      <4>1. at \in 0..Len(text) /\ at + 1 \in 0..Len(text)
        BY <1>2, <4>0
      <4>2. (at + 1) - 1 = at
        BY <1>2
      <4> QED BY <1>2, <2>2, <4>1, <4>2, StatementsAre, ReadGrows
    <3>2. k = Len(b)
      <4>1. Len(ind_commands) = 0
        BY <1>2
      <4>2. Len(b) \in Nat
        BY <3>1
      <4> HIDE DEF b
      <4> QED BY <4>1, <4>2 DEF Done, DoneOf, b
    <3> HIDE DEF b, c, R, k, of
    <3>3. of \in Seq(Statement)
      BY <1>2 DEF of
    <3>4. b \in Seq(Statement) /\ c = b \o of /\ Len(of) = 1
      BY <2>1, <3>1
    <3>5. Len(b) \in Nat /\ Len(c) = Len(b) + 1 /\ c[Len(b) + 1] = of[1]
      BY <3>3, <3>4, OneMore
    <3>6. Len(R) \in Nat
      BY <3>1
    <3> QED BY <3>1, <3>2, <3>5, <3>6 DEF BeginsWith
  <2>6. PartOf(is_incremental, R[k + 1]) = "none"
    BY <2>4, <2>5, PartIs
  <2> HIDE DEF k, R, s, of
  <2>7. Agree(is_incremental, R, k + 1, output')
    <3>1. /\ ShownPart(e) = PartOf(is_incremental, R[k + 1]) /\ ShownName(e) = R[k + 1].name
          /\ R[k + 1].name = "none"
      BY <1>4, <2>4, <2>5, <2>6
    <3>2. Agree(is_incremental, R, k, output) /\ output \in Seq(Entry)
      BY <1>1 DEF k, R
    <3> QED BY <1>3, <2>5, <3>1, <3>2, AgreeNext
  <2>8. Knows(is_incremental, R, k + 1, current_scope, vol_var_string, domain_list)
    <3>1. Knows(is_incremental, R, k, current_scope, vol_var_string, domain_list)
          /\ domain_list \in Seq(Declared)
      BY <1>1 DEF k, R
    <3>2. "domain" \notin R[k + 1].marks
      BY <2>4, <2>5
    <3> QED BY <2>5, <2>6, <3>1, <3>2, KnowsNext
  <2> QED BY <1>5, <1>7, <2>7, <2>8 DEF k, R
<1> QED BY <1>6, <1>7

LEMMA RulesStep ==
  ASSUME TypeInv, Pending, ScriptKnown, RulesSoFar, [Next]_vars
  PROVE  RulesSoFar'
<1>1. CASE CopyLine
  <2>1. /\ is_incremental' = is_incremental /\ text' = text /\ current_scope' = current_scope
        /\ vol_var_string' = vol_var_string /\ domain_list' = domain_list
    BY <1>1, Zenon DEF CopyLine, options
  <2>2. Statements' = Statements
    BY <2>1 DEF Statements
  <2> QED BY <1>1, <2>1, <2>2, CopyShowsNothing DEF RulesSoFar
<1>2. CASE SplitLine
  <2>1. /\ is_incremental' = is_incremental /\ text' = text /\ current_scope' = current_scope
        /\ vol_var_string' = vol_var_string /\ domain_list' = domain_list /\ output' = output
    BY <1>2, Zenon DEF SplitLine, options
  <2>2. Statements' = Statements
    BY <2>1 DEF Statements
  <2>3. Done' = Done
    <3>1. ~ConvertStatement /\ ~(CopyLine /\ source = "file" /\ Mentions(Line, "end"))
      <4>1. ~ConvertStatement
        BY <1>2 DEF SplitLine, ConvertStatement, GetLine
      <4>2. ~CopyLine
        <5>1. Line.kind = "statements" /\ ~(source = "file" /\ is_script)
          BY <1>2 DEF SplitLine
        <5> QED BY <5>1 DEF CopyLine
      <4> QED BY <4>1, <4>2
    <3> QED BY <1>2, <3>1, DoneStep DEF Next
  <2> QED BY <2>1, <2>2, <2>3 DEF RulesSoFar
<1>3. CASE ConvertStatement
  <2>1. is_incremental' = is_incremental /\ text' = text
    BY <1>3, Zenon DEF ConvertStatement, options
  <2>2. Statements' = Statements
    BY <2>1 DEF Statements
  <2>3. ~CopyLine
    BY <1>3 DEF ConvertStatement, CopyLine, GetLine
  <2>4. Done' = IF ~InScript(text, at) THEN Done + 1 ELSE Done
    BY <1>3, <2>3, DoneStep DEF Next
  <2>5. CASE InScript(text, at)
    BY <1>3, <2>1, <2>2, <2>4, <2>5, ConvertInside DEF RulesSoFar
  <2>6. CASE ~InScript(text, at)
    BY <1>3, <2>1, <2>2, <2>4, <2>6, ConvertOutside DEF RulesSoFar
  <2> QED BY <2>5, <2>6
<1>4. CASE UNCHANGED vars
  BY <1>4, Zenon DEF vars, RulesSoFar, Done, Statements
<1> QED BY <1>1, <1>2, <1>3, <1>4 DEF Next

\* Clingo 4 reads the rules that clingo 3 would have read, in their order, each
\* in its part, with the domains of its variables, and a constraint of a volatile
\* part for its step only.
THEOREM ReadsTheSame == Spec => []SameProgram
<1> DEFINE Inv == TypeInv /\ Pending /\ ScriptKnown /\ RulesSoFar
<1>1. Init => Inv
  BY TypeInit, ScriptInit, RulesInit
<1>2. Inv /\ [Next]_vars => Inv'
  BY TypeStep, PendingStep, ScriptKnownStep, RulesStep
<1>3. Inv => SameProgram
  <2> SUFFICES ASSUME Inv, Ended PROVE Program4 = Program3
    BY DEF SameProgram
  <2> DEFINE R == Statements
             inc == is_incremental
  <2>1. Done = Len(R)
    <3>1. at = Len(text) /\ ind_commands = <<>> /\ Len(ind_commands) = 0
      BY DEF Ended
    <3>2. Len(R) \in Nat
      BY StatementsAre
    <3> QED BY <3>1, <3>2 DEF Done, DoneOf, Statements
  <2>2. Pick(RulesOut(output), NamedOut(output), Len(output))
          = Pick(RulesRead(inc, R), NamedIn(R), Len(R))
    BY <2>1 DEF RulesSoFar, Agree
  <2>3. Program4 = Pick(RulesOut(output), NamedOut(output), Len(output))
    BY DEF Program4, RulesOut
  <2>4. PartsIn(R) = PartsRead(inc, R)
    BY Zenon DEF PartsIn, PartsRead, PartOf
  <2>5. \A k \in 1..Len(R) : Rule3(R, k) = RuleRead(inc, R, k)
    BY <2>4, Zenon DEF Rule3, RuleRead, DomainsRead, OnlyRead, DeclaredBy
  <2>6. [k \in 1..Len(R) |-> Rule3(R, k)] = RulesRead(inc, R)
    BY <2>5, Zenon DEF RulesRead
  <2>7. Program3 = Pick([k \in 1..Len(R) |-> Rule3(R, k)], NamedIn(R), Len(R))
    BY DEF Program3, Statements
  <2> QED BY <2>2, <2>3, <2>6, <2>7
<1> QED BY <1>1, <1>2, <1>3, PTL DEF Spec
=============================================================================
