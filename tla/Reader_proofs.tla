---------------------------- MODULE Reader_proofs ----------------------------
(***************************************************************************)
(* Proofs about the reader, for every text, macro and file: no comment is   *)
(* lost, and an error message always decides the exit code when the texts    *)
(* end their statements.                                                    *)
(*                                                                         *)
(* An expansion and an include push texts made by recursive functions.  That *)
(* these are texts is proved by induction (Recursion_proofs).                *)
(***************************************************************************)
EXTENDS Reader, Recursion_proofs, TLAPS

\* An expansion is a text.
LEMMA ExpansionIsText ==
  ASSUME NEW m \in DOMAIN Body, NEW arg \in Seq(Token)
  PROVE  Expansion(m, arg) \in Seq(Token)
<1> DEFINE piece(n) == IF Body[m][n].kind = "param" THEN arg ELSE <<Body[m][n]>>
           N == Len(Body[m])
           Def(g) == [n \in 0..N |-> IF n = 0 THEN <<>> ELSE g[n - 1] \o piece(n)]
           splice == CHOOSE g : g = Def(g)
           step == [n \in 1..N |-> [x \in Seq(Token) |-> x \o piece(n)]]
<1>1. Expansion(m, arg) = splice[N]
  BY DEF Expansion
<1>2. Body[m] \in Seq(Token) /\ N \in Nat
  BY ReaderAssumption
<1>3. \A n \in 1..N : piece(n) \in Seq(Token)
  BY <1>2
<1> HIDE DEF piece, N
<1>4. /\ step \in [1..N -> [Seq(Token) -> Seq(Token)]]
      /\ \A n \in 1..N, x \in Seq(Token) : step[n][x] = x \o piece(n)
  BY <1>3
<1> HIDE DEF step
<1>5. \E g : Iterates(g, Seq(Token), <<>>, N, step)
  <2> DEFINE S == Seq(Token)
             e == <<>>
  <2>1. e \in S /\ step \in [1..N -> [S -> S]]
    BY <1>4
  <2> HIDE DEF S, e
  <2>2. \E g : Iterates(g, S, e, N, step)
    BY <1>2, <2>1, Iteration
  <2> QED BY <2>2 DEF S, e
<1>6. PICK g \in [0..N -> Seq(Token)] :
        g[0] = <<>> /\ \A n \in 1..N : g[n] = step[n][g[n - 1]]
  BY <1>5 DEF Iterates
<1>7. g = Def(g)
  <2>1. \A n \in 1..N : n - 1 \in 0..N /\ n # 0
    BY <1>2
  <2>2. \A n \in 1..N : g[n - 1] \in Seq(Token)
    BY <2>1
  <2>3. \A n \in 1..N : g[n] = g[n - 1] \o piece(n)
    BY <1>4, <1>6, <2>2
  <2>4. \A n \in 0..N : n = 0 \/ n \in 1..N
    BY <1>2
  <2>5. \A n \in 0..N : g[n] = IF n = 0 THEN <<>> ELSE g[n - 1] \o piece(n)
    BY <1>6, <2>1, <2>3, <2>4
  <2> QED BY <1>6, <2>5
<1>8. splice = Def(splice)
  BY <1>7
<1> HIDE DEF splice
<1>9. splice[0] = <<>> /\ \A n \in 1..N : splice[n] = splice[n - 1] \o piece(n)
  <2>1. \A n \in 0..N : splice[n] = IF n = 0 THEN <<>> ELSE splice[n - 1] \o piece(n)
    BY <1>8
  <2>2. 0 \in 0..N /\ \A n \in 1..N : n \in 0..N /\ n # 0
    BY <1>2
  <2> QED BY <2>1, <2>2
<1> DEFINE T == {n \in 0..N : splice[n] \in Seq(Token)}
<1>10. 0 \in T
  <2>1. <<>> \in Seq(Token) /\ 0 \in 0..N
    BY <1>2
  <2> QED BY <1>9, <2>1
<1>11. ASSUME NEW n \in 1..N, n - 1 \in T PROVE n \in T
  <2>1. splice[n - 1] \in Seq(Token)
    BY <1>11
  <2>2. splice[n - 1] \o piece(n) \in Seq(Token)
    BY <1>3, <2>1
  <2>3. n \in 0..N
    BY <1>2
  <2> QED BY <1>9, <2>2, <2>3
<1>12. 0..N \subseteq T
  <2> HIDE DEF T
  <2> QED BY <1>2, <1>10, <1>11, Climb
<1> QED BY <1>1, <1>2, <1>12
-----------------------------------------------------------------------------
(* Texts that end their statements. *)

HasEnd(text, included) == \E i \in 1..Len(text) : Ends(text[i], included)

LEMMA Concat ==
  ASSUME NEW a \in Seq(Token), NEW b \in Seq(Token)
  PROVE  /\ a \o b \in Seq(Token) /\ Len(a \o b) = Len(a) + Len(b)
         /\ Len(a) \in Nat /\ Len(b) \in Nat
         /\ \A i \in 1..Len(a) : i \in 1..Len(a \o b) /\ (a \o b)[i] = a[i]
         /\ \A i \in 1..Len(b) : Len(a) + i \in 1..Len(a \o b) /\ (a \o b)[Len(a) + i] = b[i]
         /\ \A i \in 1..Len(a \o b) : i \in 1..Len(a) \/ (i - Len(a) \in 1..Len(b) /\ Len(a) + (i - Len(a)) = i)
  OBVIOUS

\* The end of a finished text is finished, and a text before an end is.
LEMMA FinishedParts ==
  ASSUME NEW a \in Seq(Token), NEW b \in Seq(Token), NEW inc
  PROVE  /\ Finished(a \o b, inc) => Finished(b, inc)
         /\ Finished(b, inc) /\ HasEnd(b, inc) => Finished(a \o b, inc)
         /\ Finished(a, inc) /\ Finished(b, inc) => Finished(a \o b, inc)
         /\ HasEnd(a, inc) \/ HasEnd(b, inc) <=> HasEnd(a \o b, inc)
         /\ Finished(a \o b, inc) => Finished(a, inc) \/ HasEnd(b, inc)
<1> DEFINE c == a \o b
           n == Len(a)
           Later(s, i) == \E j \in i..Len(s) : Ends(s[j], inc)
<1>1. /\ n \in Nat /\ Len(b) \in Nat /\ Len(c) = n + Len(b)
      /\ \A i \in 1..n : i \in 1..Len(c) /\ c[i] = a[i]
      /\ \A i \in 1..Len(b) : n + i \in 1..Len(c) /\ c[n + i] = b[i]
      /\ \A i \in 1..Len(c) : i \in 1..n \/ (i - n \in 1..Len(b) /\ n + (i - n) = i)
  BY Concat
<1>2. \A s : Finished(s, inc) <=> \A i \in 1..Len(s) : s[i].kind # "comment" => Later(s, i)
  BY DEF Finished
<1> HIDE DEF c, n
<1>3. ASSUME NEW i \in 1..Len(b) PROVE Later(c, n + i) <=> Later(b, i)
  <2>1. ASSUME NEW j \in i..Len(b), Ends(b[j], inc) PROVE Later(c, n + i)
    <3>1. j \in 1..Len(b) /\ n + j \in (n + i)..Len(c)
      BY <1>1
    <3> QED BY <1>1, <2>1, <3>1
  <2>2. ASSUME NEW k \in (n + i)..Len(c), Ends(c[k], inc) PROVE Later(b, i)
    <3>1. k - n \in i..Len(b) /\ k - n \in 1..Len(b) /\ n + (k - n) = k
      BY <1>1
    <3> QED BY <1>1, <2>2, <3>1
  <2> QED BY <2>1, <2>2
<1>4. ASSUME NEW i \in 1..n, Later(a, i) PROVE Later(c, i)
  <2>1. PICK j \in i..n : Ends(a[j], inc)
    BY <1>4 DEF n
  <2>2. j \in 1..n /\ j \in i..Len(c)
    BY <1>1
  <2> QED BY <1>1, <2>1, <2>2
<1>5. ASSUME NEW i \in 1..n, HasEnd(b, inc) PROVE Later(c, i)
  <2>1. PICK j \in 1..Len(b) : Ends(b[j], inc)
    BY <1>5 DEF HasEnd
  <2>2. n + j \in i..Len(c)
    BY <1>1
  <2> QED BY <1>1, <2>1, <2>2
<1>6. HasEnd(a, inc) \/ HasEnd(b, inc) <=> HasEnd(c, inc)
  <2>1. ASSUME HasEnd(b, inc) PROVE HasEnd(c, inc)
    <3>1. PICK j \in 1..Len(b) : Ends(b[j], inc)
      BY <2>1 DEF HasEnd
    <3> QED BY <1>1, <3>1 DEF HasEnd
  <2>2. ASSUME HasEnd(a, inc) PROVE HasEnd(c, inc)
    <3>1. PICK j \in 1..n : Ends(a[j], inc)
      BY <2>2 DEF HasEnd, n
    <3> QED BY <1>1, <3>1 DEF HasEnd
  <2>3. ASSUME HasEnd(c, inc) PROVE HasEnd(a, inc) \/ HasEnd(b, inc)
    <3>1. PICK j \in 1..Len(c) : Ends(c[j], inc)
      BY <2>3 DEF HasEnd
    <3>2. CASE j \in 1..n
      BY <1>1, <3>1, <3>2 DEF HasEnd, n
    <3>3. CASE j - n \in 1..Len(b) /\ n + (j - n) = j
      <4>1. b[j - n] = c[j]
        BY <1>1, <3>3
      <4> QED BY <3>1, <3>3, <4>1 DEF HasEnd
    <3> QED BY <1>1, <3>1, <3>2, <3>3
  <2> QED BY <2>1, <2>2, <2>3
<1>6a. ASSUME NEW i \in 1..n, Later(c, i), ~HasEnd(b, inc) PROVE Later(a, i)
  <2>1. PICK j \in i..Len(c) : Ends(c[j], inc)
    BY <1>6a
  <2>2. CASE j \in 1..n
    <3>1. j \in i..Len(a) /\ a[j] = c[j]
      BY <1>1, <2>1, <2>2 DEF n
    <3> QED BY <2>1, <3>1
  <2>3. CASE j - n \in 1..Len(b) /\ n + (j - n) = j
    <3>1. b[j - n] = c[j]
      BY <1>1, <2>3
    <3> QED BY <1>6a, <2>1, <2>3, <3>1 DEF HasEnd
  <2>4. j \in 1..Len(c)
    BY <1>1
  <2> QED BY <1>1, <2>2, <2>3, <2>4
<1> HIDE DEF Later
<1>7. ASSUME Finished(c, inc) PROVE Finished(b, inc)
  BY <1>1, <1>2, <1>3, <1>7
<1>0. ASSUME Finished(b, inc), \A i \in 1..n : a[i].kind # "comment" => Later(c, i)
      PROVE  Finished(c, inc)
  <2>1. ASSUME NEW i \in 1..Len(c), c[i].kind # "comment" PROVE Later(c, i)
    <3>1. CASE i \in 1..n
      BY <1>0, <1>1, <2>1, <3>1
    <3>2. CASE i - n \in 1..Len(b) /\ n + (i - n) = i
      <4>1. b[i - n] = c[i]
        BY <1>1, <3>2
      <4>2. Later(b, i - n)
        BY <1>0, <1>2, <2>1, <3>2, <4>1
      <4>3. Later(c, n + (i - n))
        BY <1>3, <3>2, <4>2
      <4> QED BY <3>2, <4>3
    <3> QED BY <1>1, <2>1, <3>1, <3>2
  <2> QED BY <1>2, <2>1
<1>8. ASSUME Finished(b, inc), HasEnd(b, inc) PROVE Finished(c, inc)
  BY <1>0, <1>5, <1>8
<1>9. ASSUME Finished(a, inc), Finished(b, inc) PROVE Finished(c, inc)
  <2>1. \A i \in 1..n : a[i].kind # "comment" => Later(a, i)
    BY <1>2, <1>9 DEF n
  <2> QED BY <1>0, <1>4, <1>9, <2>1
<1>10. ASSUME Finished(c, inc), ~HasEnd(b, inc) PROVE Finished(a, inc)
  <2>1. ASSUME NEW i \in 1..n, a[i].kind # "comment" PROVE Later(a, i)
    <3>1. Later(c, i)
      BY <1>1, <1>2, <1>10, <2>1
    <3> QED BY <1>6a, <1>10, <3>1
  <2> QED BY <1>2, <2>1 DEF n
<1> QED BY <1>6, <1>7, <1>8, <1>9, <1>10 DEF c

\* What an include pushes is a text and, with no file missing, a finished one.
LEMMA IncludedIsText ==
  ASSUME NEW fs, Len(fs) \in Nat \ {0}
  PROVE  /\ Included(fs) \in Seq(Token)
         /\ TextsFinished(Programs, Files) /\ ~Missing(fs) =>
              Finished(Included(fs), TRUE) /\ HasEnd(Included(fs), TRUE)
<1> DEFINE found(n) == \A i \in 1..n : fs[i] \in DOMAIN Files
           N == Len(fs)
           Def(g) == [n \in 0..N |-> IF n = 0 THEN <<>>
                                     ELSE IF found(n) THEN Files[fs[n]] \o g[n - 1] ELSE g[n - 1]]
           push == CHOOSE g : g = Def(g)
           step == [n \in 1..N |-> [x \in Seq(Token) |-> IF found(n) THEN Files[fs[n]] \o x ELSE x]]
<1>1. Included(fs) = push[N]
  BY DEF Included
<1>2. N \in Nat \ {0}
  OBVIOUS
<1>3. /\ \A n \in 1..N : found(n) => Files[fs[n]] \in Seq(Token)
      /\ Missing(fs) \/ \A n \in 1..N : found(n)
      /\ \A n \in 1..N : found(n) => fs[n] \in DOMAIN Files
  BY <1>2, ReaderAssumption DEF Missing
<1> HIDE DEF found, N
<1>4. /\ step \in [1..N -> [Seq(Token) -> Seq(Token)]]
      /\ \A n \in 1..N, x \in Seq(Token) : step[n][x] = IF found(n) THEN Files[fs[n]] \o x ELSE x
  BY <1>3
<1> HIDE DEF step
<1>5. \E g : Iterates(g, Seq(Token), <<>>, N, step)
  <2> DEFINE S == Seq(Token)
             e == <<>>
  <2>1. e \in S /\ step \in [1..N -> [S -> S]]
    BY <1>4
  <2> HIDE DEF S, e
  <2>2. \E g : Iterates(g, S, e, N, step)
    BY <1>2, <2>1, Iteration
  <2> QED BY <2>2 DEF S, e
<1>6. PICK g \in [0..N -> Seq(Token)] :
        g[0] = <<>> /\ \A n \in 1..N : g[n] = step[n][g[n - 1]]
  BY <1>5 DEF Iterates
<1>7. g = Def(g)
  <2>1. \A n \in 1..N : n - 1 \in 0..N /\ n # 0
    BY <1>2
  <2>2. \A n \in 1..N : g[n - 1] \in Seq(Token)
    BY <2>1
  <2>3. \A n \in 1..N : g[n] = IF found(n) THEN Files[fs[n]] \o g[n - 1] ELSE g[n - 1]
    BY <1>4, <1>6, <2>2
  <2>4. \A n \in 0..N : n = 0 \/ n \in 1..N
    BY <1>2
  <2>5. \A n \in 0..N : g[n] = IF n = 0 THEN <<>>
                               ELSE IF found(n) THEN Files[fs[n]] \o g[n - 1] ELSE g[n - 1]
    BY <1>6, <2>1, <2>3, <2>4
  <2> QED BY <1>6, <2>5
<1>8. push = Def(push)
  BY <1>7
<1> HIDE DEF push
<1>9. /\ push[0] = <<>>
      /\ \A n \in 1..N : push[n] = IF found(n) THEN Files[fs[n]] \o push[n - 1] ELSE push[n - 1]
  <2>1. \A n \in 0..N : push[n] = IF n = 0 THEN <<>>
                                  ELSE IF found(n) THEN Files[fs[n]] \o push[n - 1] ELSE push[n - 1]
    BY <1>8
  <2>2. 0 \in 0..N /\ \A n \in 1..N : n \in 0..N /\ n # 0
    BY <1>2
  <2> QED BY <2>1, <2>2
<1> DEFINE Good(n) == /\ push[n] \in Seq(Token)
                      /\ TextsFinished(Programs, Files) /\ ~Missing(fs) =>
                           Finished(push[n], TRUE) /\ (n # 0 => HasEnd(push[n], TRUE))
           T == {n \in 0..N : Good(n)}
<1>10. Good(0)
  <2>1. Finished(<<>>, TRUE) /\ <<>> \in Seq(Token)
    BY DEF Finished
  <2> QED BY <1>9, <2>1
<1>11. ASSUME NEW n \in 1..N, Good(n - 1) PROVE Good(n)
  <2>1. CASE ~found(n)
    BY <1>3, <1>9, <1>11, <2>1
  <2>2. CASE found(n)
    <3> DEFINE f == Files[fs[n]]
               p == push[n - 1]
    <3>1. f \in Seq(Token) /\ p \in Seq(Token) /\ push[n] = f \o p
      BY <1>3, <1>9, <1>11, <2>2
    <3>2. ASSUME TextsFinished(Programs, Files), ~Missing(fs)
          PROVE  Finished(f \o p, TRUE) /\ HasEnd(f \o p, TRUE)
      <4>1. Finished(f, TRUE) /\ \E i \in 1..Len(f) : f[i] = Period
        BY <1>3, <2>2, <3>2 DEF TextsFinished
      <4>2. Finished(p, TRUE)
        BY <1>11, <3>2
      <4> HIDE DEF f, p
      <4>3. PICK i \in 1..Len(f) : f[i] = Period
        BY <4>1
      <4>4. HasEnd(f \o p, TRUE)
        <5>1. i \in 1..Len(f \o p) /\ (f \o p)[i] = Period
          BY <3>1, <4>3, Concat
        <5> QED BY <5>1 DEF HasEnd, Ends
      <4> QED BY <3>1, <4>1, <4>2, <4>4, FinishedParts
    <3> HIDE DEF f, p
    <3>3. f \o p \in Seq(Token)
      BY <3>1
    <3> QED BY <3>1, <3>2, <3>3
  <2> QED BY <2>1, <2>2
<1> HIDE DEF Good
<1>12. 0..N \subseteq T
  <2>1. 0 \in T /\ \A n \in 1..N : n - 1 \in T => n \in T
    BY <1>2, <1>10, <1>11
  <2> HIDE DEF T
  <2> QED BY <1>2, <2>1, Climb
<1>13. Good(N)
  BY <1>2, <1>12
<1> QED BY <1>1, <1>2, <1>13 DEF Good

LEMMA Join ==
  ASSUME NEW a \in Seq(Token), NEW b \in Seq(Token), NEW c \in Seq(Token)
  PROVE  /\ (a \o b) \o c = a \o (b \o c)
         /\ <<>> \o a = a /\ a \o <<>> = a
  OBVIOUS

LEMMA HeadAndTail ==
  ASSUME NEW s \in Seq(Token), s # <<>>
  PROVE  Head(s) \in Token /\ Tail(s) \in Seq(Token) /\ s = <<Head(s)>> \o Tail(s)
  OBVIOUS

\* A text of one token.
LEMMA OneToken ==
  ASSUME NEW t \in Token, NEW inc
  PROVE  /\ <<t>> \in Seq(Token)
         /\ HasEnd(<<t>>, inc) <=> Ends(t, inc)
         /\ Finished(<<t>>, inc) <=> (t.kind # "comment" => Ends(t, inc))
<1>1. Len(<<t>>) = 1 /\ <<t>>[1] = t /\ <<t>> \in Seq(Token)
  OBVIOUS
<1>2. \A i : i \in 1..1 <=> i = 1
  OBVIOUS
<1> QED BY <1>1, <1>2 DEF HasEnd, Finished

LEMMA NoToken ==
  ASSUME NEW inc
  PROVE  <<>> \in Seq(Token) /\ Finished(<<>>, inc) /\ ~HasEnd(<<>>, inc)
BY DEF Finished, HasEnd

\* A finished text that begins with a token that ends nothing has an end.
LEMMA EndAfter ==
  ASSUME NEW t \in Token, NEW r \in Seq(Token), NEW inc, Finished(<<t>> \o r, inc),
         t.kind # "comment"
  PROVE  Finished(r, inc) /\ (Ends(t, inc) \/ HasEnd(r, inc))
BY OneToken, FinishedParts

\* A comment can be taken out of a finished text.
LEMMA CommentTaken ==
  ASSUME NEW a \in Seq(Token), NEW c \in Token, NEW r \in Seq(Token), NEW inc,
         c.kind = "comment", Finished(a \o (<<c>> \o r), inc)
  PROVE  Finished(a \o r, inc)
<1>1. ~Ends(c, inc)
  BY ReaderAssumption DEF Ends
<1>2. <<c>> \in Seq(Token) /\ <<c>> \o r \in Seq(Token) /\ ~HasEnd(<<c>>, inc)
  BY <1>1, OneToken
<1>3. Finished(<<c>> \o r, inc) /\ (Finished(a, inc) \/ HasEnd(<<c>> \o r, inc))
  BY <1>2, FinishedParts
<1>4. Finished(r, inc) /\ (HasEnd(<<c>> \o r, inc) => HasEnd(r, inc))
  BY <1>2, <1>3, FinishedParts
<1> QED BY <1>3, <1>4, FinishedParts

\* A text is finished for included files when it is finished within a program.
LEMMA FinishedIncluded ==
  ASSUME NEW s, NEW inc
  PROVE  /\ Finished(s, TRUE) => Finished(s, inc)
         /\ HasEnd(s, TRUE) => HasEnd(s, inc)
BY DEF Finished, HasEnd, Ends

\* Tokens that end nothing are no finished text.
LEMMA NothingLeft ==
  ASSUME NEW s \in Seq(Token), NEW inc, Finished(s, inc),
         \A i \in 1..Len(s) : s[i].kind # "comment" /\ ~Ends(s[i], inc)
  PROVE  s = <<>>
<1>1. ASSUME NEW i \in 1..Len(s) PROVE FALSE
  <2>1. PICK j \in i..Len(s) : Ends(s[j], inc)
    BY <1>1 DEF Finished
  <2> QED BY <2>1
<1>2. Len(s) \in Nat /\ (Len(s) # 0 => 1 \in 1..Len(s))
  OBVIOUS
<1> QED BY <1>1, <1>2

-----------------------------------------------------------------------------
(* The type invariant. *)

\* No comment and no include is handed on to the parser.
Plain(s) == \A i \in 1..Len(s) : s[i].kind \notin {"comment", "include"}

AtMostOne(s) == s = <<>> \/ \E t \in Token : t.kind # "comment" /\ s = <<t>>

TypeInv ==
  /\ program \in Seq(Token) /\ input \in Seq(Token)
  /\ AtMostOne(held)
  /\ tokens \in Seq(Token) /\ Plain(tokens)
  /\ stmt \in Seq(Token) /\ Plain(stmt) /\ \A i \in 1..Len(stmt) : stmt[i] # Period
  /\ comments \in Seq(Token) /\ remarks \in Seq(Token)
  /\ macros \subseteq DOMAIN Body
  /\ statements \in Seq(Seq(Token))
  /\ softEof \in BOOLEAN /\ complained \in BOOLEAN /\ good \in BOOLEAN
  /\ macroStat \in {"OK", "ERR", "END"}
  /\ stat \in {"OK", "SYNTAX_ERR", "END"} /\ phase \in {"parse", "loop", "done"}

LEMMA PlainParts ==
  /\ Plain(<<>>)
  /\ \A t \in Token : t.kind \notin {"comment", "include"} => Plain(<<t>>)
  /\ \A t, u \in Token : t.kind \notin {"comment", "include"} /\ u.kind \notin {"comment", "include"} =>
       Plain(<<t, u>>)
BY DEF Plain

\* What the macro parser may have read ahead of the rest of the input.
LEMMA OneIsText ==
  ASSUME NEW s, AtMostOne(s)
  PROVE  /\ s \in Seq(Token)
         /\ s = <<>> \/ (s[1] \in Token /\ s[1].kind # "comment" /\ s = <<s[1]>>)
<1>1. CASE s = <<>>
  BY <1>1
<1>2. CASE \E t \in Token : t.kind # "comment" /\ s = <<t>>
  <2>1. PICK t \in Token : t.kind # "comment" /\ s = <<t>>
    BY <1>2
  <2>2. s[1] = t /\ s \in Seq(Token)
    BY <2>1
  <2> QED BY <2>1, <2>2
<1> QED BY <1>1, <1>2 DEF AtMostOne

\* A call names words.
LEMMA CallWords ==
  ASSUME NEW t \in Token, t.kind = "call"
  PROVE  /\ Word(t.id) \in Token /\ Word(t.id).kind = "word"
         /\ Word("(") \in Token /\ Word("(").kind = "word"
         /\ Word(")") \in Token /\ Word(")").kind = "word"
         /\ t.arg \in Seq(Token)
BY ReaderAssumption

LEMMA MacroText ==
  ASSUME NEW t \in Token, IsMacro(t), macros \subseteq DOMAIN Body
  PROVE  Expansion(t.id, t.arg) \in Seq(Token)
<1>0. t.kind \in {"word", "call"} /\ t.id \in macros
  BY DEF IsMacro
<1>2. (t.kind = "call" => t.arg \in Seq(Token)) /\ (t.kind = "word" => t.arg = <<>>)
  BY ReaderAssumption
<1>3. <<>> \in Seq(Token)
  OBVIOUS
<1>1. t.arg \in Seq(Token) /\ t.id \in DOMAIN Body
  BY <1>0, <1>2, <1>3
<1> QED BY <1>1, ExpansionIsText

\* What one reduction leaves: texts, and in them all that was ahead.
Reduced(ahead, rest) ==
  /\ input' \in Seq(Token) /\ AtMostOne(held')
  /\ tokens' \in Seq(Token) /\ Plain(tokens')
  /\ \E a \in Seq(Token) : input' = a \o rest

LEMMA ReduceLeaves ==
  ASSUME TypeInv, tokens = <<>>, NEW ahead, AtMostOne(ahead), NEW rest \in Seq(Token),
         ReduceHeld(ahead, rest)
  PROVE  Reduced(ahead, rest)
<1> DEFINE t == held[1]
<1>0. /\ <<>> \in Seq(Token) /\ Plain(<<>>) /\ AtMostOne(<<>>) /\ ahead \in Seq(Token)
      /\ rest = <<>> \o rest
  BY OneIsText, PlainParts, Join DEF AtMostOne
<1>1. CASE held = <<>>
  BY <1>0, <1>1 DEF ReduceHeld, Reduced
<1>2. CASE held # <<>>
  <2>1. t \in Token /\ t.kind # "comment" /\ Reduce(t, ahead, rest)
    BY <1>2, OneIsText DEF TypeInv, ReduceHeld
  <2>2. macros \subseteq DOMAIN Body
    BY DEF TypeInv
  <2> HIDE DEF t
  <2>3. CASE IsMacro(t)
    <3> DEFINE x == Expansion(t.id, t.arg)
    <3>1. x \in Seq(Token)
      BY <2>1, <2>2, <2>3, MacroText
    <3>2. input' = x \o ahead \o rest /\ held' = <<>> /\ tokens' = tokens
      BY <2>1, <2>3 DEF Reduce
    <3> HIDE DEF x
    <3>3. x \o ahead \in Seq(Token) /\ x \o ahead \o rest \in Seq(Token)
      BY <1>0, <3>1
    <3> QED BY <1>0, <3>2, <3>3 DEF Reduced
  <2>4. CASE ~IsMacro(t) /\ t.kind = "include"
    <3> DEFINE x == Included(t.files)
    <3>1. x \in Seq(Token)
      BY <2>1, <2>4, IncludedIsText, ReaderAssumption
    <3>2. input' = x \o ahead \o rest /\ held' = <<>> /\ tokens' = tokens
      BY <2>1, <2>4 DEF Reduce
    <3> HIDE DEF x
    <3>3. x \o ahead \in Seq(Token) /\ x \o ahead \o rest \in Seq(Token)
      BY <1>0, <3>1
    <3> QED BY <1>0, <3>2, <3>3 DEF Reduced
  <2>5. CASE ~IsMacro(t) /\ t.kind = "call"
    <3>1. /\ input' = t.arg \o <<Word(")")>> \o (ahead \o rest)
          /\ tokens' = <<Word(t.id), Word("(")>> /\ held' = <<>>
      <4>1. OpenCall(t, ahead \o rest)
        BY <2>1, <2>5 DEF Reduce
      <4>2. <<Word(t.id), Word("(")>> \in Seq(Token)
        BY <2>1, <2>5, CallWords
      <4> QED BY <4>1, <4>2, Join DEF OpenCall
    <3>2. <<Word(t.id), Word("(")>> \in Seq(Token) /\ Plain(<<Word(t.id), Word("(")>>)
      BY <2>1, <2>5, CallWords, PlainParts
    <3>3. t.arg \in Seq(Token) /\ <<Word(")")>> \in Seq(Token)
      BY <2>1, <2>5, CallWords
    <3> DEFINE x == t.arg \o <<Word(")")>>
    <3>4. x \in Seq(Token)
      BY <3>3
    <3>5. input' = x \o (ahead \o rest)
      BY <3>1
    <3> HIDE DEF x
    <3>6. /\ x \o ahead \in Seq(Token) /\ x \o (ahead \o rest) \in Seq(Token)
          /\ (x \o ahead) \o rest = x \o (ahead \o rest)
      BY <1>0, <3>4
    <3> QED BY <1>0, <3>1, <3>2, <3>5, <3>6 DEF Reduced
  <2>6. CASE ~IsMacro(t) /\ t.kind # "include" /\ t.kind # "call"
    <3>1. tokens' = <<t>> /\ held' = ahead /\ input' = rest
      BY <2>1, <2>6 DEF Reduce, HandOver
    <3>2. <<t>> \in Seq(Token) /\ Plain(<<t>>)
      BY <2>1, <2>6, PlainParts
    <3> QED BY <1>0, <3>1, <3>2 DEF Reduced
  <2> QED BY <2>3, <2>4, <2>5, <2>6
<1> QED BY <1>1, <1>2

\* Every step of the macro parser that reduces is a reduction of what is held.
LEMMA CloseIsReduction ==
  ASSUME CloseCall, AtMostOne(held)
  PROVE  ReduceHeld(<<>>, input) /\ ~HeldFails /\ held # <<>>
<1>1. PICK i \in DOMAIN held : held[i].kind = "call"
  BY DEF CloseCall, HeldCall
<1>2. held # <<>> /\ held = <<held[1]>>
  BY <1>1, OneIsText
<1>3. \A j \in DOMAIN held : j = 1
  BY <1>2
<1>4. held[1].kind = "call"
  BY <1>1, <1>3
<1>5. ~HeldFails
  BY <1>3, <1>4 DEF HeldFails, Fails
<1> QED BY <1>2, <1>5 DEF CloseCall, ReduceHeld

LEMMA TypeStart == Init => TypeInv
<1> SUFFICES ASSUME Init PROVE TypeInv
  OBVIOUS
<1>1. program \in Seq(Token) /\ input \in Seq(Token)
  BY ReaderAssumption DEF Init
<1>2. \A T : <<>> \in Seq(T)
  OBVIOUS
<1>3. Plain(<<>>) /\ AtMostOne(<<>>) /\ \A i \in 1..Len(<<>>) : FALSE
  BY DEF Plain, AtMostOne
<1> QED BY <1>1, <1>2, <1>3 DEF Init, TypeInv

\* The parser takes a token.
LEMMA TypeTaken ==
  ASSUME TypeInv, TakeToken
  PROVE  /\ tokens' \in Seq(Token) /\ Plain(tokens')
         /\ stmt' \in Seq(Token) /\ Plain(stmt') /\ \A i \in 1..Len(stmt') : stmt'[i] # Period
         /\ macros' \subseteq DOMAIN Body /\ statements' \in Seq(Seq(Token))
         /\ phase' \in {"parse", "loop", "done"}
<1> DEFINE t == Head(tokens)
<1>1. tokens \in Seq(Token) /\ tokens # <<>> /\ tokens' = Tail(tokens) /\ stmt \in Seq(Token)
  BY DEF TypeInv, TakeToken
<1>2. /\ Tail(tokens) \in Seq(Token) /\ t \in Token
      /\ \A i \in 1..Len(Tail(tokens)) : i + 1 \in 1..Len(tokens) /\ Tail(tokens)[i] = tokens[i + 1]
      /\ 1 \in 1..Len(tokens) /\ t = tokens[1]
  BY <1>1
<1>3. Plain(tokens') /\ t.kind \notin {"comment", "include"}
  BY <1>1, <1>2 DEF Plain, TypeInv
<1>4. CASE t = Period
  <2>1. /\ statements' = Append(statements, stmt) /\ macros' = macros \cup Defined(stmt)
        /\ stmt' = <<>> /\ phase' = "parse"
    BY <1>4 DEF TakeToken
  <2>2. Defined(stmt) \subseteq DOMAIN Body
    <3>1. \A i \in DOMAIN stmt : stmt[i] \in Token
      BY <1>1
    <3>2. \A u \in Token : u.kind = "define" => u.id \in DOMAIN Body
      BY ReaderAssumption
    <3> QED BY <3>1, <3>2 DEF Defined
  <2>3. statements' \in Seq(Seq(Token))
    <3> DEFINE S == Seq(Token)
    <3>1. statements \in Seq(S) /\ stmt \in S
      BY DEF TypeInv
    <3> HIDE DEF S
    <3>2. Append(statements, stmt) \in Seq(S)
      BY <3>1
    <3> QED BY <2>1, <3>2 DEF S
  <2> QED BY <1>1, <1>2, <1>3, <2>1, <2>2, <2>3, PlainParts DEF TypeInv
<1>5. CASE t # Period
  <2>1. /\ stmt' = Append(stmt, t) /\ macros' = macros /\ statements' = statements /\ phase' = phase
    BY <1>5 DEF TakeToken
  <2> HIDE DEF t
  <2>2. /\ Append(stmt, t) \in Seq(Token) /\ Len(Append(stmt, t)) = Len(stmt) + 1 /\ Len(stmt) \in Nat
        /\ \A i \in 1..Len(stmt) : Append(stmt, t)[i] = stmt[i]
        /\ Append(stmt, t)[Len(stmt) + 1] = t
    BY <1>1, <1>2
  <2>3. \A i \in 1..Len(Append(stmt, t)) : i \in 1..Len(stmt) \/ i = Len(stmt) + 1
    BY <2>2
  <2>4. Plain(stmt') /\ \A i \in 1..Len(stmt') : stmt'[i] # Period
    BY <1>3, <1>5, <2>1, <2>2, <2>3 DEF Plain, TypeInv
  <2> QED BY <1>1, <1>2, <1>3, <2>1, <2>2, <2>4 DEF TypeInv
<1> QED BY <1>4, <1>5

LEMMA TypeStep == TypeInv /\ [Next]_vars => TypeInv'
<1> SUFFICES ASSUME TypeInv, [Next]_vars PROVE TypeInv'
  OBVIOUS
<1> USE DEF vars, macroVars, parserVars
<1>r. ASSUME NEW ahead, NEW rest, Reduced(ahead, rest), UNCHANGED parserVars,
             comments' = comments, softEof' \in BOOLEAN, complained' \in BOOLEAN,
             macroStat' \in {"OK", "ERR", "END"}
      PROVE  TypeInv'
  BY <1>r DEF TypeInv, Reduced
<1>0. <<>> \in Seq(Token) /\ AtMostOne(<<>>)
  BY DEF AtMostOne
<1>1. CASE CloseCall
  <2>1. Reduced(<<>>, input)
    BY <1>0, <1>1, CloseIsReduction, ReduceLeaves DEF CloseCall, Scanning, TypeInv
  <2> QED BY <1>r, <1>1, <2>1 DEF CloseCall, TypeInv
<1>2. CASE ReadComment
  <2>1. Head(input) \in Token /\ Tail(input) \in Seq(Token)
    BY <1>2, HeadAndTail DEF TypeInv, ReadComment
  <2> QED BY <1>2, <2>1 DEF ReadComment, TypeInv
<1>3. CASE ReadToken
  <2>1. Head(input) \in Token /\ Tail(input) \in Seq(Token) /\ AtMostOne(<<Head(input)>>)
    BY <1>3, HeadAndTail DEF TypeInv, ReadToken, AtMostOne
  <2>2. Reduced(<<Head(input)>>, Tail(input))
    BY <1>3, <2>1, ReduceLeaves DEF ReadToken, Waiting, Scanning
  <2> QED BY <1>r, <1>3, <2>2 DEF ReadToken, TypeInv, HeldFails
<1>4. CASE SoftEof
  <2>1. Reduced(<<>>, <<>>)
    BY <1>0, <1>4, ReduceLeaves DEF SoftEof, Waiting, Scanning
  <2> QED BY <1>r, <1>4, <2>1 DEF SoftEof, TypeInv, HeldFails
<1>5. CASE HardEof
  <2>1. Reduced(<<>>, <<>>)
    BY <1>0, <1>5, ReduceLeaves DEF HardEof, Waiting, Scanning
  <2> QED BY <1>r, <1>5, <2>1 DEF HardEof, TypeInv, HeldFails
<1>6. CASE Parse
  <2>1. /\ comments' \in Seq(Token) /\ remarks' \in Seq(Token)
        /\ stat' \in {"OK", "SYNTAX_ERR", "END"} /\ phase' \in {"parse", "loop", "done"}
    <3>1. remarks \o comments \in Seq(Token) /\ <<>> \in Seq(Token)
      BY DEF TypeInv
    <3>2. CASE comments # <<>>
      BY <1>6, <3>1, <3>2 DEF Parse, TypeInv
    <3>3. CASE comments = <<>>
      BY <1>6, <3>3 DEF Parse, TypeInv
    <3> QED BY <3>2, <3>3
  <2> QED BY <1>6, <2>1 DEF Parse, TypeInv
<1>7. CASE TakeToken
  BY <1>7, TypeTaken DEF TakeToken, TypeInv
<1>8. CASE TakeError
  BY <1>8 DEF TakeError, TypeInv
<1>9. CASE TakeEof
  BY <1>9, PlainParts DEF TakeEof, TypeInv
<1>10. CASE UNCHANGED vars
  BY <1>10 DEF TypeInv
<1> QED BY <1>1, <1>2, <1>3, <1>4, <1>5, <1>6, <1>7, <1>8, <1>9, <1>10 DEF Next, Done

\* The variables of the reader hold texts, and no statement holds its end.
THEOREM TextsAlwaysTyped == Spec => []TypeInv
BY TypeStart, TypeStep, PTL DEF Spec

-----------------------------------------------------------------------------
(* The comments. *)

In(s, x) == \E i \in 1..Len(s) : s[i] = x

LEMMA InParts ==
  ASSUME NEW a \in Seq(Token), NEW b \in Seq(Token), NEW x
  PROVE  In(a \o b, x) <=> In(a, x) \/ In(b, x)
<1>1. ASSUME In(a, x) \/ In(b, x) PROVE In(a \o b, x)
  BY <1>1, Concat DEF In
<1>2. ASSUME In(a \o b, x) PROVE In(a, x) \/ In(b, x)
  <2>1. PICK i \in 1..Len(a \o b) : (a \o b)[i] = x
    BY <1>2 DEF In
  <2>2. CASE i \in 1..Len(a)
    BY <2>1, <2>2, Concat DEF In
  <2>3. CASE i - Len(a) \in 1..Len(b) /\ Len(a) + (i - Len(a)) = i
    <3>1. b[i - Len(a)] = (a \o b)[i]
      BY <2>3, Concat
    <3> QED BY <2>1, <2>3, <3>1 DEF In
  <2> QED BY <2>2, <2>3, Concat
<1> QED BY <1>1, <1>2

LEMMA InOne ==
  ASSUME NEW t \in Token, NEW x
  PROVE  (In(<<t>>, x) <=> x = t) /\ ~In(<<>>, x)
<1>1. Len(<<t>>) = 1 /\ <<t>>[1] = t /\ Len(<<>>) = 0
  OBVIOUS
<1>2. \A i : (i \in 1..1 <=> i = 1) /\ i \notin 1..0
  OBVIOUS
<1> QED BY <1>1, <1>2 DEF In

\* A comment is handed on, or waits in the macro parser, or has yet to be read;
\* after the end of the input nothing is read any more.
CommentsInv ==
  /\ \A x : x.kind = "comment" /\ In(program, x) =>
       In(remarks, x) \/ In(comments, x) \/ (macroStat # "END" /\ In(input, x))
  /\ stat = "END" => macroStat = "END"
  /\ phase = "done" => stat = "END" /\ comments = <<>>

LEMMA CommentsStart == Init => CommentsInv
BY DEF Init, CommentsInv

\* A step of the macro parser that reads no comment.
LEMMA CommentsReduced ==
  ASSUME TypeInv, CommentsInv, phase = "loop", macroStat = "OK", UNCHANGED <<program, remarks, comments, stat, phase>>,
         macroStat' # "END", NEW a \in Seq(Token), NEW s \in Seq(Token), NEW rest \in Seq(Token),
         input = s \o rest, input' = a \o rest, \A x : x.kind = "comment" => ~In(s, x)
  PROVE  CommentsInv'
<1>1. ASSUME NEW x, x.kind = "comment", In(program, x)
      PROVE  In(remarks, x) \/ In(comments, x) \/ In(input', x)
  BY <1>1, InParts DEF CommentsInv
<1> QED BY <1>1 DEF CommentsInv

LEMMA CommentsStep == TypeInv /\ CommentsInv /\ [Next]_vars => CommentsInv'
<1> SUFFICES ASSUME TypeInv, CommentsInv, [Next]_vars PROVE CommentsInv'
  OBVIOUS
<1> USE DEF vars, macroVars, parserVars
<1>0. <<>> \in Seq(Token) /\ AtMostOne(<<>>) /\ \A x : ~In(<<>>, x)
  <2>1. \A x : ~In(<<>>, x)
    BY DEF In
  <2> QED BY <2>1 DEF AtMostOne
<1>1. CASE CloseCall
  <2>1. Reduced(<<>>, input)
    BY <1>0, <1>1, CloseIsReduction, ReduceLeaves DEF CloseCall, Scanning, TypeInv
  <2>2. PICK a \in Seq(Token) : input' = a \o input
    BY <2>1 DEF Reduced
  <2>3. input \in Seq(Token) /\ input = <<>> \o input
    BY Join DEF TypeInv
  <2>4. /\ phase = "loop" /\ macroStat = "OK" /\ macroStat' # "END"
        /\ UNCHANGED <<program, remarks, comments, stat, phase>>
    BY <1>1 DEF CloseCall, Scanning
  <2> QED BY <1>0, <2>2, <2>3, <2>4, CommentsReduced
<1>2. CASE ReadComment
  <2> DEFINE c == Head(input)
  <2>1. /\ c \in Token /\ Tail(input) \in Seq(Token) /\ input = <<c>> \o Tail(input)
        /\ comments \in Seq(Token) /\ <<c>> \in Seq(Token)
    BY <1>2, HeadAndTail DEF TypeInv, ReadComment
  <2>2. /\ comments' = comments \o <<c>> /\ input' = Tail(input) /\ macroStat = "OK"
        /\ UNCHANGED <<program, remarks, stat, phase, macroStat>>
    <3>1. comments' = Append(comments, c)
      BY <1>2 DEF ReadComment
    <3>2. Append(comments, c) = comments \o <<c>>
      <4> HIDE DEF c
      <4> QED BY <2>1
    <3> QED BY <1>2, <3>1, <3>2 DEF ReadComment, Waiting, Scanning
  <2>3. phase = "loop"
    BY <1>2 DEF ReadComment, Waiting, Scanning
  <2> HIDE DEF c
  <2>4. ASSUME NEW x, x.kind = "comment", In(program, x)
        PROVE  In(remarks, x) \/ In(comments', x) \/ In(input', x)
    <3>1. In(remarks, x) \/ In(comments, x) \/ In(input, x)
      BY <2>4 DEF CommentsInv
    <3>2. In(input, x) => In(<<c>>, x) \/ In(Tail(input), x)
      <4> DEFINE a == <<c>>
                 b == Tail(input)
      <4>1. a \in Seq(Token) /\ b \in Seq(Token) /\ input = a \o b
        BY <2>1
      <4> HIDE DEF a, b
      <4>2. In(a \o b, x) <=> In(a, x) \/ In(b, x)
        BY <4>1, InParts
      <4>3. In(input, x) => In(a, x) \/ In(b, x)
        BY <4>1, <4>2, Zenon
      <4> QED BY <4>3 DEF a, b
    <3>3. In(comments \o <<c>>, x) <=> In(comments, x) \/ In(<<c>>, x)
      BY <2>1, InParts
    <3> QED BY <2>2, <3>1, <3>2, <3>3
  <2> QED BY <2>2, <2>3, <2>4 DEF CommentsInv
<1>3. CASE ReadToken
  <2> DEFINE t == Head(input)
  <2>1. /\ t \in Token /\ Tail(input) \in Seq(Token) /\ input = <<t>> \o Tail(input)
        /\ AtMostOne(<<t>>) /\ <<t>> \in Seq(Token) /\ t.kind # "comment"
    BY <1>3, HeadAndTail DEF TypeInv, ReadToken, AtMostOne
  <2>2. Reduced(<<t>>, Tail(input))
    BY <1>3, <2>1, ReduceLeaves DEF ReadToken, Waiting, Scanning
  <2>3. PICK a \in Seq(Token) : input' = a \o Tail(input)
    BY <2>2 DEF Reduced
  <2>4. /\ phase = "loop" /\ macroStat = "OK" /\ macroStat' # "END"
        /\ UNCHANGED <<program, remarks, comments, stat, phase>>
    BY <1>3 DEF ReadToken, Waiting, Scanning
  <2> HIDE DEF t
  <2>5. \A x : x.kind = "comment" => ~In(<<t>>, x)
    BY <2>1, InOne
  <2> QED BY <2>1, <2>3, <2>4, <2>5, CommentsReduced
<1>4. CASE SoftEof
  <2>1. Reduced(<<>>, <<>>)
    BY <1>0, <1>4, ReduceLeaves DEF SoftEof, Waiting, Scanning
  <2>2. PICK a \in Seq(Token) : input' = a \o <<>>
    BY <2>1 DEF Reduced
  <2>3. input = <<>> \o <<>>
    <3>1. input = <<>>
      BY <1>4 DEF SoftEof
    <3> QED BY <1>0, <3>1, Join
  <2>4. /\ phase = "loop" /\ macroStat = "OK" /\ macroStat' # "END"
        /\ UNCHANGED <<program, remarks, comments, stat, phase>>
    BY <1>4 DEF SoftEof, Waiting, Scanning
  <2> QED BY <1>0, <2>2, <2>3, <2>4, CommentsReduced
<1>5. CASE HardEof
  <2>1. /\ input = <<>> /\ macroStat = "OK" /\ macroStat' = "END" /\ phase = "loop"
        /\ UNCHANGED <<program, remarks, comments, stat, phase>>
    BY <1>5 DEF HardEof, Waiting, Scanning
  <2> QED BY <1>0, <2>1 DEF CommentsInv
<1>6. CASE Parse
  <2>1. CASE comments # <<>>
    <3>1. /\ remarks' = remarks \o comments /\ phase = "parse" /\ macroStat' = macroStat
          /\ UNCHANGED <<program, input, stat, phase>>
      BY <1>6, <2>1 DEF Parse
    <3>2. \A x : In(remarks \o comments, x) <=> In(remarks, x) \/ In(comments, x)
      BY InParts DEF TypeInv
    <3>3. ASSUME NEW x, x.kind = "comment", In(program, x)
          PROVE  In(remarks \o comments, x) \/ (macroStat # "END" /\ In(input, x))
      BY <3>2, <3>3 DEF CommentsInv
    <3> QED BY <3>1, <3>3 DEF CommentsInv
  <2>2. CASE comments = <<>>
    <3>1. /\ UNCHANGED <<program, input, remarks, comments, macroStat>>
          /\ stat' = IF stat = "END" THEN stat ELSE "OK"
          /\ phase' = IF stat = "END" THEN "done" ELSE "loop"
      BY <1>6, <2>2 DEF Parse
    <3>2. (stat' = "END" => stat = "END") /\ (phase' = "done" => stat = "END" /\ stat' = "END")
      BY <3>1
    <3> QED BY <2>2, <3>1, <3>2 DEF CommentsInv
  <2> QED BY <2>1, <2>2
<1>7. CASE TakeToken
  <2>1. /\ phase' # "done"
        /\ UNCHANGED <<program, remarks, comments, stat, macroStat, input>>
    BY <1>7 DEF TakeToken
  <2> QED BY <2>1 DEF CommentsInv
<1>8. CASE TakeError
  BY <1>8 DEF TakeError, CommentsInv
<1>9. CASE TakeEof
  BY <1>9 DEF TakeEof, CommentsInv
<1>10. CASE UNCHANGED vars
  BY <1>10 DEF CommentsInv
<1> QED BY <1>1, <1>2, <1>3, <1>4, <1>5, <1>6, <1>7, <1>8, <1>9, <1>10 DEF Next, Done

\* When main() ends every comment of the program has been handed on.
THEOREM EveryCommentHandedOn == Spec => []CommentsKept
<1>1. TypeInv /\ CommentsInv => CommentsKept
  <2> SUFFICES ASSUME TypeInv, CommentsInv, phase = "done",
                      NEW i \in DOMAIN program, program[i].kind = "comment"
               PROVE  \E j \in DOMAIN remarks : remarks[j] = program[i]
    BY DEF CommentsKept, CommentsInv
  <2>1. DOMAIN program = 1..Len(program) /\ DOMAIN remarks = 1..Len(remarks)
    BY DEF TypeInv
  <2>2. In(remarks, program[i]) \/ In(<<>>, program[i])
    BY <2>1 DEF CommentsInv, In
  <2> QED BY <2>1, <2>2, InOne, ReaderAssumption DEF In
<1> QED BY <1>1, TypeStart, TypeStep, CommentsStart, CommentsStep, PTL DEF Spec

-----------------------------------------------------------------------------
(* The error messages. *)

\* What there is to read: the statement begun, what has been handed to the
\* parser, what the macro parser holds, and the input.
ToRead == stmt \o (tokens \o (held \o input))

\* Of texts that end their statements no message is left without an exit code:
\* the end of the input finds a finished statement, and no include before it.
ErrorsInv ==
  /\ complained /\ good => macroStat = "ERR"
  /\ good /\ macroStat = "OK" => Finished(ToRead, softEof)
  /\ good /\ macroStat = "END" => Finished(stmt \o tokens, TRUE)

\* A reduction that does not fail leaves the text finished.
LEMMA ReducedFinished ==
  ASSUME TypeInv, tokens = <<>>, NEW ahead, AtMostOne(ahead), NEW rest \in Seq(Token),
         ReduceHeld(ahead, rest), TextsFinished(Programs, Files), ~HeldFails, NEW inc,
         Finished(stmt \o (held \o (ahead \o rest)), inc)
  PROVE  Finished(stmt \o (tokens' \o (held' \o input')), inc)
<1> DEFINE t == held[1]
           R == ahead \o rest
<1>0. /\ ahead \in Seq(Token) /\ R \in Seq(Token) /\ stmt \in Seq(Token) /\ <<>> \in Seq(Token)
      /\ held \in Seq(Token)
  BY OneIsText DEF TypeInv
<1>p. ASSUME NEW x \in Seq(Token), Finished(x, inc), HasEnd(x, inc)
      PROVE  Finished(stmt \o x, inc)
  BY <1>0, <1>p, FinishedParts
<1>1. CASE held = <<>>
  <2>1. tokens' = <<>> /\ held' = ahead /\ input' = rest
    BY <1>1 DEF ReduceHeld
  <2>2. <<>> \o R = R
    BY <1>0, Join
  <2> QED BY <1>1, <2>1, <2>2
<1>2. CASE held # <<>>
  <2>1. t \in Token /\ t.kind # "comment" /\ held = <<t>> /\ Reduce(t, ahead, rest)
    BY <1>2, OneIsText DEF TypeInv, ReduceHeld
  <2>2. ~Fails(t)
    <3>1. 1 \in DOMAIN held
      BY <2>1
    <3> QED BY <3>1 DEF HeldFails
  <2>3. Finished(<<t>> \o R, inc)
    <3> DEFINE u == <<t>>
    <3>1. u \in Seq(Token) /\ held = u
      BY <2>1
    <3>2. Finished(stmt \o (held \o R), inc)
      OBVIOUS
    <3> HIDE DEF u, R
    <3>3. u \o R \in Seq(Token)
      BY <1>0, <3>1
    <3>4. Finished(stmt \o (u \o R), inc)
      BY <3>1, <3>2, Zenon
    <3>5. Finished(u \o R, inc)
      BY <1>0, <3>3, <3>4, FinishedParts
    <3> QED BY <3>5 DEF u
  <2>4. macros \subseteq DOMAIN Body
    BY DEF TypeInv
  <2> HIDE DEF t
  <2>5. Finished(R, inc) /\ (Ends(t, inc) \/ HasEnd(R, inc))
    BY <1>0, <2>1, <2>3, EndAfter
  <2>6. t.kind \in {"word", "call"} => HasEnd(R, inc)
    BY <2>5, ReaderAssumption DEF Ends
  <2>7. CASE IsMacro(t)
    <3> DEFINE x == Expansion(t.id, t.arg)
    <3>1. x \in Seq(Token) /\ t.kind \in {"word", "call"}
      BY <2>1, <2>4, <2>7, MacroText DEF IsMacro
    <3>2. input' = x \o ahead \o rest /\ held' = <<>> /\ tokens' = <<>>
      BY <2>1, <2>7 DEF Reduce
    <3> HIDE DEF x
    <3>3. x \o R \in Seq(Token) /\ input' = x \o R /\ <<>> \o (<<>> \o input') = x \o R
      <4>1. x \in Seq(Token) /\ ahead \in Seq(Token) /\ rest \in Seq(Token)
        BY <1>0, <3>1
      <4> HIDE DEF R
      <4>2. x \o R \in Seq(Token)
        BY <1>0, <4>1
      <4>3. x \o ahead \o rest = x \o R
        BY <4>1, Join, Zenon DEF R
      <4>4. <<>> \o (x \o R) = x \o R
        BY <4>2, Join, Zenon
      <4> QED BY <3>2, <4>2, <4>3, <4>4, Zenon
    <3>4. Finished(x \o R, inc) /\ HasEnd(x \o R, inc)
      BY <1>0, <2>5, <2>6, <3>1, FinishedParts
    <3> QED BY <1>p, <3>2, <3>3, <3>4
  <2>8. CASE ~IsMacro(t) /\ t.kind = "include"
    <3> DEFINE x == Included(t.files)
    <3>1. x \in Seq(Token) /\ Finished(x, TRUE) /\ HasEnd(x, TRUE)
      BY <2>1, <2>2, <2>8, IncludedIsText, ReaderAssumption DEF Fails
    <3>2. input' = x \o ahead \o rest /\ held' = <<>> /\ tokens' = <<>>
      BY <2>1, <2>8 DEF Reduce
    <3> HIDE DEF x
    <3>3. x \o R \in Seq(Token) /\ input' = x \o R /\ <<>> \o (<<>> \o input') = x \o R
      <4>1. x \in Seq(Token) /\ ahead \in Seq(Token) /\ rest \in Seq(Token)
        BY <1>0, <3>1
      <4> HIDE DEF R
      <4>2. x \o R \in Seq(Token)
        BY <1>0, <4>1
      <4>3. x \o ahead \o rest = x \o R
        BY <4>1, Join, Zenon DEF R
      <4>4. <<>> \o (x \o R) = x \o R
        BY <4>2, Join, Zenon
      <4> QED BY <3>2, <4>2, <4>3, <4>4, Zenon
    <3>4. Finished(x, inc) /\ HasEnd(x, inc)
      BY <3>1, FinishedIncluded
    <3>5. Finished(x \o R, inc) /\ HasEnd(x \o R, inc)
      BY <1>0, <2>5, <3>1, <3>4, FinishedParts
    <3> QED BY <1>p, <3>2, <3>3, <3>5
  <2>9. CASE ~IsMacro(t) /\ t.kind = "call"
    <3> DEFINE w == <<Word(t.id), Word("(")>>
               x == t.arg \o <<Word(")")>>
    <3>1. w \in Seq(Token) /\ x \in Seq(Token)
      <4>1. /\ Word(t.id) \in Token /\ Word("(") \in Token /\ <<Word(")")>> \in Seq(Token)
            /\ t.arg \in Seq(Token)
        BY <2>1, <2>9, CallWords
      <4> QED BY <4>1
    <3>2. tokens' = w /\ held' = <<>> /\ input' = x \o R
      <4>1. OpenCall(t, R)
        BY <2>1, <2>9 DEF Reduce
      <4> QED BY <3>1, <4>1, Join DEF OpenCall
    <3> HIDE DEF w, x
    <3>3. /\ x \o R \in Seq(Token) /\ <<>> \o (x \o R) = x \o R /\ w \o (x \o R) \in Seq(Token)
      BY <1>0, <3>1, Join
    <3>4. Finished(x \o R, inc) /\ HasEnd(x \o R, inc)
      BY <1>0, <2>5, <2>6, <2>9, <3>1, FinishedParts
    <3>5. Finished(w \o (x \o R), inc) /\ HasEnd(w \o (x \o R), inc)
      BY <3>1, <3>3, <3>4, FinishedParts
    <3> QED BY <1>p, <3>2, <3>3, <3>5
  <2>10. CASE ~IsMacro(t) /\ t.kind # "include" /\ t.kind # "call"
    <3>1. tokens' = <<t>> /\ held' = ahead /\ input' = rest
      BY <2>1, <2>10 DEF Reduce, HandOver
    <3> QED BY <2>1, <3>1
  <2> QED BY <2>7, <2>8, <2>9, <2>10
<1> QED BY <1>1, <1>2

\* At the end of the input only an end can be held.
LEMMA LastHeld ==
  ASSUME TypeInv, NEW inc, Finished(stmt \o held, inc)
  PROVE  /\ held = <<>> => stmt = <<>>
         /\ held # <<>> => /\ held[1] \in Token /\ held = <<held[1]>>
                          /\ Ends(held[1], inc)
<1>1. /\ stmt \in Seq(Token) /\ held \in Seq(Token)
      /\ \A i \in 1..Len(stmt) : stmt[i].kind # "comment" /\ ~Ends(stmt[i], inc)
  BY OneIsText DEF TypeInv, Plain, Ends
<1>2. CASE held = <<>>
  <2>1. Finished(stmt, inc)
    BY <1>1, <1>2, Join
  <2> QED BY <1>1, <1>2, <2>1, NothingLeft
<1>3. CASE held # <<>>
  <2>1. held[1] \in Token /\ held[1].kind # "comment" /\ held = <<held[1]>>
    BY <1>3, OneIsText DEF TypeInv
  <2>2. Finished(held, inc)
    BY <1>1, FinishedParts
  <2>3. Ends(held[1], inc)
    BY <2>1, <2>2, OneToken
  <2> QED BY <1>3, <2>1, <2>3
<1> QED BY <1>2, <1>3

\* A period is handed to the parser.
LEMMA PeriodHanded ==
  ASSUME tokens = <<>>, held # <<>>, held[1] = Period, ReduceHeld(<<>>, <<>>)
  PROVE  tokens' = <<Period>> /\ held' = <<>> /\ input' = <<>>
<1>1. Period.kind = "period"
  BY ReaderAssumption
<1>2. ~IsMacro(Period) /\ Period.kind # "include" /\ Period.kind # "call"
  BY <1>1 DEF IsMacro
<1>3. Reduce(Period, <<>>, <<>>)
  BY DEF ReduceHeld
<1>4. HandOver(Period, <<>>, <<>>)
  BY <1>2, <1>3 DEF Reduce
<1> QED BY <1>4 DEF HandOver

\* The end of the input is met first: what is left now has to end in a period.
LEMMA SoftFinished ==
  ASSUME TypeInv, tokens = <<>>, Finished(stmt \o held, FALSE), ReduceHeld(<<>>, <<>>),
         TextsFinished(Programs, Files), ~HeldFails
  PROVE  Finished(stmt \o (tokens' \o (held' \o input')), TRUE)
<1>0. stmt \in Seq(Token) /\ Period \in Token /\ <<>> \in Seq(Token)
  BY ReaderAssumption DEF TypeInv
<1>p. ASSUME NEW x \in Seq(Token), Finished(x, TRUE), HasEnd(x, TRUE)
      PROVE  Finished(stmt \o x, TRUE)
  BY <1>0, <1>p, FinishedParts
<1>1. CASE held = <<>>
  <2>1. stmt = <<>> /\ tokens' = <<>> /\ held' = <<>> /\ input' = <<>>
    BY <1>1, LastHeld DEF ReduceHeld
  <2>2. Finished(<<>>, TRUE) /\ <<>> \o (<<>> \o (<<>> \o <<>>)) = <<>>
    BY <1>0, NoToken, Join
  <2> QED BY <2>1, <2>2
<1>2. CASE held # <<>> /\ held[1] = Period
  <2>1. tokens' = <<Period>> /\ held' = <<>> /\ input' = <<>>
    BY <1>2, PeriodHanded
  <2>2. <<Period>> \in Seq(Token) /\ Finished(<<Period>>, TRUE) /\ HasEnd(<<Period>>, TRUE)
    BY <1>0, OneToken DEF Ends
  <2>3. <<Period>> \o (<<>> \o <<>>) = <<Period>>
    BY <1>0, <2>2, Join
  <2> QED BY <1>p, <2>1, <2>2, <2>3
<1>3. CASE held # <<>> /\ held[1].kind = "include"
  <2> DEFINE t == held[1]
  <2>1. t \in Token /\ held = <<t>> /\ Reduce(t, <<>>, <<>>)
    BY <1>3, LastHeld DEF ReduceHeld
  <2>2. ~Fails(t)
    <3>1. 1 \in DOMAIN held
      BY <2>1
    <3> QED BY <3>1 DEF HeldFails
  <2>3. t.kind = "include" /\ ~IsMacro(t)
    BY <1>3 DEF IsMacro
  <2> HIDE DEF t
  <2> DEFINE x == Included(t.files)
  <2>4. x \in Seq(Token) /\ Finished(x, TRUE) /\ HasEnd(x, TRUE)
    BY <2>1, <2>2, <2>3, IncludedIsText, ReaderAssumption DEF Fails
  <2>5. input' = x \o <<>> \o <<>> /\ held' = <<>> /\ tokens' = <<>>
    BY <2>1, <2>3 DEF Reduce
  <2> HIDE DEF x
  <2>6. input' = x /\ <<>> \o (<<>> \o x) = x
    BY <1>0, <2>4, <2>5, Join
  <2> QED BY <1>p, <2>4, <2>5, <2>6
<1> QED BY <1>1, <1>2, <1>3, LastHeld DEF Ends

\* The end is met again: nothing fails now, and the statement is finished.
LEMMA HardFinished ==
  ASSUME TypeInv, tokens = <<>>, Finished(stmt \o held, TRUE), ReduceHeld(<<>>, <<>>)
  PROVE  Finished(stmt \o tokens', TRUE) /\ ~HeldFails
<1>0. stmt \in Seq(Token) /\ Period \in Token /\ <<>> \in Seq(Token) /\ Period.kind = "period"
  BY ReaderAssumption DEF TypeInv
<1>1. CASE held = <<>>
  <2>1. stmt = <<>> /\ tokens' = <<>>
    BY <1>1, LastHeld DEF ReduceHeld
  <2>2. Finished(<<>>, TRUE) /\ <<>> \o <<>> = <<>>
    BY <1>0, NoToken, Join
  <2>3. ~HeldFails
    BY <1>1 DEF HeldFails
  <2> QED BY <2>1, <2>2, <2>3
<1>2. CASE held # <<>>
  <2>1. held = <<Period>> /\ held[1] = Period
    BY <1>2, LastHeld DEF Ends
  <2>2. tokens' = <<Period>>
    BY <1>2, <2>1, PeriodHanded
  <2>3. <<Period>> \in Seq(Token) /\ Finished(<<Period>>, TRUE) /\ HasEnd(<<Period>>, TRUE)
    BY <1>0, OneToken DEF Ends
  <2>4. ~HeldFails
    <3>1. \A i \in DOMAIN held : held[i] = Period
      BY <2>1
    <3> QED BY <1>0, <3>1 DEF HeldFails, Fails
  <2> QED BY <1>0, <2>2, <2>3, <2>4, FinishedParts
<1> QED BY <1>1, <1>2

\* The parser takes a token of a finished text.
LEMMA TakenFinished ==
  ASSUME TypeInv, TakeToken, NEW r \in Seq(Token), NEW inc, Finished(stmt \o (tokens \o r), inc)
  PROVE  Finished(stmt' \o (tokens' \o r), inc)
<1> DEFINE t == Head(tokens)
           q == Tail(tokens)
<1>1. /\ stmt \in Seq(Token) /\ t \in Token /\ q \in Seq(Token) /\ tokens = <<t>> \o q
      /\ tokens' = q /\ <<>> \in Seq(Token) /\ <<t>> \in Seq(Token)
  BY HeadAndTail DEF TypeInv, TakeToken
<1>2. stmt' = IF t = Period THEN <<>> ELSE Append(stmt, t)
  BY DEF TakeToken
<1> HIDE DEF t, q
<1>3. /\ q \o r \in Seq(Token) /\ tokens \o r = <<t>> \o (q \o r) /\ <<t>> \o (q \o r) \in Seq(Token)
      /\ stmt \o <<t>> \in Seq(Token)
      /\ stmt \o (<<t>> \o (q \o r)) = (stmt \o <<t>>) \o (q \o r)
  <2> DEFINE u == <<t>>
             R == q \o r
  <2>1. u \in Seq(Token) /\ q \in Seq(Token) /\ tokens = u \o q /\ stmt \in Seq(Token)
    BY <1>1
  <2>2. R \in Seq(Token)
    BY <2>1
  <2>3. tokens \o r = u \o R
    <3> HIDE DEF u
    <3> QED BY <2>1, Join, Zenon
  <2> HIDE DEF u, R
  <2>4. u \o R \in Seq(Token) /\ stmt \o u \in Seq(Token)
    BY <2>1, <2>2
  <2>5. stmt \o (u \o R) = (stmt \o u) \o R
    BY <2>1, <2>2, Join, Zenon
  <2> QED BY <2>2, <2>3, <2>4, <2>5 DEF u, R
<1>4. CASE t = Period
  <2>1. Finished(q \o r, inc)
    BY <1>1, <1>3, FinishedParts
  <2>2. <<>> \o (q \o r) = q \o r
    BY <1>3, Join
  <2> QED BY <1>1, <1>2, <1>4, <2>1, <2>2
<1>5. CASE t # Period
  <2>1. Append(stmt, t) = stmt \o <<t>>
    BY <1>1
  <2> QED BY <1>1, <1>2, <1>3, <1>5, <2>1
<1> QED BY <1>4, <1>5

LEMMA ErrorsStart ==
  ASSUME TextsFinished(Programs, Files)
  PROVE  Init => ErrorsInv
<1> SUFFICES ASSUME Init PROVE ErrorsInv
  OBVIOUS
<1>1. /\ input \in Seq(Token) /\ Finished(input, FALSE) /\ <<>> \in Seq(Token)
      /\ complained = FALSE /\ softEof = FALSE /\ macroStat = "OK"
      /\ held = <<>> /\ tokens = <<>> /\ stmt = <<>>
  <2>1. program \in Programs /\ input = program
    BY DEF Init
  <2>2. Finished(program, FALSE) /\ program \in Seq(Token)
    BY <2>1, ReaderAssumption DEF TextsFinished
  <2>3. Finished(input, FALSE) /\ input \in Seq(Token)
    BY <2>1, <2>2
  <2> QED BY <2>3, NoToken DEF Init
<1>2. ToRead = input
  BY <1>1, Join DEF ToRead
<1> QED BY <1>1, <1>2 DEF ErrorsInv

LEMMA ErrorsStep ==
  ASSUME TextsFinished(Programs, Files)
  PROVE  TypeInv /\ ErrorsInv /\ [Next]_vars => ErrorsInv'
<1> SUFFICES ASSUME TypeInv, ErrorsInv, [Next]_vars PROVE ErrorsInv'
  OBVIOUS
<1> USE DEF vars, macroVars, parserVars
<1>0. /\ <<>> \in Seq(Token) /\ AtMostOne(<<>>) /\ held \in Seq(Token) /\ input \in Seq(Token)
      /\ stmt \in Seq(Token) /\ held \o input \in Seq(Token)
  BY OneIsText DEF AtMostOne, TypeInv
<1>s. ASSUME tokens = <<>>, good, macroStat = "OK"
      PROVE  Finished(stmt \o (held \o input), softEof)
  BY <1>0, <1>s, Join DEF ErrorsInv, ToRead
<1>1. CASE CloseCall
  <2>1. ReduceHeld(<<>>, input) /\ ~HeldFails
    BY <1>1, CloseIsReduction DEF TypeInv
  <2>2. /\ tokens = <<>> /\ macroStat = "OK" /\ macroStat' = "OK"
        /\ UNCHANGED <<stmt, good, complained, softEof>>
    BY <1>1 DEF CloseCall, Scanning
  <2>3. ASSUME good PROVE Finished(stmt \o (tokens' \o (held' \o input')), softEof)
    <3>1. <<>> \o input = input
      BY <1>0, Join
    <3>2. Finished(stmt \o (held \o (<<>> \o input)), softEof)
      BY <1>s, <2>2, <2>3, <3>1
    <3> QED BY <1>0, <2>1, <2>2, <3>2, ReducedFinished
  <2> QED BY <2>2, <2>3 DEF ErrorsInv, ToRead
<1>2. CASE ReadComment
  <2> DEFINE c == Head(input)
             r == Tail(input)
  <2>1. /\ c \in Token /\ r \in Seq(Token) /\ input = <<c>> \o r /\ c.kind = "comment"
        /\ <<c>> \in Seq(Token)
    BY <1>2, HeadAndTail DEF TypeInv, ReadComment
  <2>2. /\ tokens = <<>> /\ macroStat = "OK" /\ input' = r
        /\ UNCHANGED <<stmt, good, complained, softEof, macroStat, held, tokens>>
    BY <1>2 DEF ReadComment, Waiting, Scanning
  <2> HIDE DEF c, r
  <2>3. ASSUME good PROVE Finished(stmt \o (tokens \o (held \o r)), softEof)
    <3>1. /\ stmt \o held \in Seq(Token) /\ <<c>> \o r \in Seq(Token)
          /\ stmt \o (held \o (<<c>> \o r)) = (stmt \o held) \o (<<c>> \o r)
          /\ stmt \o (held \o r) = (stmt \o held) \o r
      <4>1. stmt \o held \in Seq(Token) /\ <<c>> \o r \in Seq(Token)
        BY <1>0, <2>1
      <4>2. stmt \o (held \o (<<c>> \o r)) = (stmt \o held) \o (<<c>> \o r)
        BY <1>0, <4>1, Join
      <4>3. stmt \o (held \o r) = (stmt \o held) \o r
        BY <1>0, <2>1, Join
      <4> QED BY <4>1, <4>2, <4>3
    <3>2. Finished((stmt \o held) \o (<<c>> \o r), softEof)
      BY <1>s, <2>1, <2>2, <2>3, <3>1
    <3>3. Finished(stmt \o (held \o r), softEof)
      BY <2>1, <3>1, <3>2, CommentTaken
    <3>4. held \o r \in Seq(Token) /\ <<>> \o (held \o r) = held \o r
      BY <1>0, <2>1, Join
    <3> QED BY <2>2, <3>3, <3>4
  <2> QED BY <2>2, <2>3 DEF ErrorsInv, ToRead
<1>3. CASE ReadToken
  <2> DEFINE t == Head(input)
             r == Tail(input)
  <2>1. /\ t \in Token /\ r \in Seq(Token) /\ input = <<t>> \o r /\ t.kind # "comment"
    BY <1>3, HeadAndTail DEF TypeInv, ReadToken
  <2>2. /\ tokens = <<>> /\ macroStat = "OK" /\ ReduceHeld(<<t>>, r)
        /\ macroStat' = (IF HeldFails THEN "ERR" ELSE macroStat)
        /\ complained' = (complained \/ HeldFails)
        /\ UNCHANGED <<stmt, good, softEof>>
    BY <1>3 DEF ReadToken, Waiting, Scanning
  <2> HIDE DEF t, r
  <2>3. AtMostOne(<<t>>)
    BY <2>1 DEF AtMostOne
  <2>4. ASSUME good, ~HeldFails PROVE Finished(stmt \o (tokens' \o (held' \o input')), softEof)
    <3>1. Finished(stmt \o (held \o (<<t>> \o r)), softEof)
      BY <1>s, <2>1, <2>2, <2>4
    <3> QED BY <2>1, <2>2, <2>3, <2>4, <3>1, ReducedFinished
  <2>5. CASE HeldFails
    BY <2>2, <2>5 DEF ErrorsInv
  <2>6. CASE ~HeldFails
    BY <2>2, <2>4, <2>6 DEF ErrorsInv, ToRead
  <2> QED BY <2>5, <2>6
<1>4. CASE SoftEof
  <2>1. /\ tokens = <<>> /\ macroStat = "OK" /\ ReduceHeld(<<>>, <<>>) /\ input = <<>>
        /\ macroStat' = (IF HeldFails THEN "ERR" ELSE macroStat)
        /\ complained' = (complained \/ HeldFails)
        /\ softEof = FALSE /\ softEof' = TRUE
        /\ UNCHANGED <<stmt, good>>
    BY <1>4 DEF SoftEof, Waiting, Scanning, TypeInv
  <2>2. ASSUME good, ~HeldFails PROVE Finished(stmt \o (tokens' \o (held' \o input')), TRUE)
    <3>1. Finished(stmt \o held, FALSE)
      BY <1>0, <1>s, <2>1, <2>2, Join
    <3> QED BY <2>1, <2>2, <3>1, SoftFinished
  <2> QED BY <2>1, <2>2 DEF ErrorsInv, ToRead
<1>5. CASE HardEof
  <2>1. /\ tokens = <<>> /\ macroStat = "OK" /\ ReduceHeld(<<>>, <<>>) /\ input = <<>>
        /\ macroStat' = "END" /\ complained' = (complained \/ HeldFails)
        /\ softEof = TRUE /\ UNCHANGED <<stmt, good>>
    BY <1>5 DEF HardEof, Waiting, Scanning, TypeInv
  <2>2. ASSUME good PROVE Finished(stmt \o tokens', TRUE) /\ ~HeldFails
    <3>1. Finished(stmt \o held, TRUE)
      BY <1>0, <1>s, <2>1, <2>2, Join
    <3> QED BY <2>1, <3>1, HardFinished
  <2> QED BY <2>1, <2>2 DEF ErrorsInv
<1>6. CASE Parse
  BY <1>6 DEF Parse, ErrorsInv, ToRead
<1>7. CASE TakeToken
  <2>1. /\ softEof' = FALSE /\ UNCHANGED <<held, input, macroStat, complained, good>>
    BY <1>7 DEF TakeToken
  <2>2. ASSUME good, macroStat = "OK" PROVE Finished(stmt' \o (tokens' \o (held \o input)), FALSE)
    <3>1. Finished(stmt \o (tokens \o (held \o input)), softEof)
      BY <2>2 DEF ErrorsInv, ToRead
    <3>2. Finished(stmt' \o (tokens' \o (held \o input)), softEof)
      BY <1>0, <1>7, <3>1, TakenFinished
    <3>3. softEof = TRUE \/ softEof = FALSE
      BY DEF TypeInv
    <3> QED BY <3>2, <3>3, FinishedIncluded
  <2>3. ASSUME good, macroStat = "END" PROVE Finished(stmt' \o tokens', TRUE)
    <3>1. tokens \in Seq(Token) /\ tokens' \in Seq(Token)
      BY <1>7, TypeTaken DEF TypeInv
    <3>2. tokens \o <<>> = tokens /\ tokens' \o <<>> = tokens'
      BY <1>0, <3>1, Join
    <3>3. Finished(stmt \o (tokens \o <<>>), TRUE)
      BY <2>3, <3>2 DEF ErrorsInv
    <3>4. Finished(stmt' \o (tokens' \o <<>>), TRUE)
      BY <1>0, <1>7, <3>3, TakenFinished
    <3> QED BY <3>2, <3>4
  <2> QED BY <2>1, <2>2, <2>3 DEF ErrorsInv, ToRead
<1>8. CASE TakeError
  BY <1>8 DEF TakeError, ErrorsInv
<1>9. CASE TakeEof
  <2>1. /\ tokens = <<>> /\ macroStat = "END" /\ complained' = (complained \/ stmt # <<>>)
        /\ stmt' = <<>> /\ UNCHANGED <<tokens, macroStat, good>>
    BY <1>9 DEF TakeEof
  <2>2. ASSUME good PROVE stmt = <<>>
    <3>1. Finished(stmt, TRUE)
      BY <1>0, <2>1, <2>2, Join DEF ErrorsInv
    <3>2. \A i \in 1..Len(stmt) : stmt[i].kind # "comment" /\ ~Ends(stmt[i], TRUE)
      BY DEF TypeInv, Plain, Ends
    <3> QED BY <1>0, <3>1, <3>2, NothingLeft
  <2>3. Finished(<<>> \o <<>>, TRUE)
    BY <1>0, NoToken, Join
  <2> QED BY <2>1, <2>2, <2>3 DEF ErrorsInv
<1>10. CASE UNCHANGED vars
  BY <1>10 DEF ErrorsInv, ToRead
<1> QED BY <1>1, <1>2, <1>3, <1>4, <1>5, <1>6, <1>7, <1>8, <1>9, <1>10 DEF Next, Done

\* Of texts that end their statements, every message decides the exit code.
THEOREM EveryErrorDecides ==
  ASSUME TextsFinished(Programs, Files)
  PROVE  Spec => []ErrorsReported
<1>1. CommentsInv /\ ErrorsInv => ErrorsReported
  BY DEF CommentsInv, ErrorsInv, ErrorsReported
<1> QED BY <1>1, TypeStart, TypeStep, CommentsStart, CommentsStep, ErrorsStart, ErrorsStep, PTL DEF Spec
=============================================================================
