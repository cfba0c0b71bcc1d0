--------------------------- MODULE Recursion_proofs ---------------------------
(***************************************************************************)
(* Induction over the natural numbers, stated for sets, and functions       *)
(* defined by recursion: what the proofs about texts, lists and paths rest   *)
(* on.                                                                     *)
(***************************************************************************)
EXTENDS Integers, WellFoundedInduction, TLAPS

LEMMA LeastNumber ==
  ASSUME NEW T \in SUBSET Nat, T # {}
  PROVE  \E n \in T : \A k \in T : n <= k
<1> DEFINE R == OpToRel(<, Nat)
<1>1. IsWellFoundedOn(R, Nat)
  BY NatLessThanWellFounded
<1>2. \A x, y \in Nat : <<y, x>> \in R <=> y < x
  BY DEF OpToRel
<1> HIDE DEF R
<1>3. \E x \in T : \A y \in T : ~ (<<y, x>> \in R)
  <2>1. T \subseteq Nat
    OBVIOUS
  <2> QED BY <1>1, <2>1, WFMin, Zenon
<1>4. PICK n \in T : \A y \in T : ~ (<<y, n>> \in R)
  BY <1>3
<1>5. ASSUME NEW k \in T PROVE n <= k
  <2>1. k \in Nat /\ n \in Nat
    OBVIOUS
  <2>2. ~ (<<k, n>> \in R)
    BY <1>4
  <2>3. ~ (k < n)
    BY <1>2, <2>1, <2>2
  <2> QED BY <2>1, <2>3
<1> QED BY <1>4, <1>5

\* A set of numbers up to N that holds 0 and the successor of each of them.
LEMMA Climb ==
  ASSUME NEW N \in Nat, NEW T, 0 \in T, \A n \in 1..N : n - 1 \in T => n \in T
  PROVE  0..N \subseteq T
<1> SUFFICES ASSUME (0..N) \ T # {} PROVE FALSE
  OBVIOUS
<1> DEFINE U == (0..N) \ T
<1>0. U \in SUBSET Nat /\ U # {}
  OBVIOUS
<1>a. \E n \in U : \A k \in U : n <= k
  <2> HIDE DEF U
  <2> QED BY <1>0, LeastNumber
<1>1. PICK n \in (0..N) \ T : \A k \in (0..N) \ T : n <= k
  BY <1>a
<1>2. n \in 1..N /\ n - 1 \in 0..N /\ ~ (n <= n - 1)
  BY <1>1
<1> QED BY <1>1, <1>2

\* A function can be built step by step.
Iterates(g, S, base, N, step) ==
  g \in [0..N -> S] /\ g[0] = base /\ \A n \in 1..N : g[n] = step[n][g[n - 1]]

LEMMA Iteration ==
  ASSUME NEW S, NEW base \in S, NEW N \in Nat, NEW step \in [1..N -> [S -> S]]
  PROVE  \E g : Iterates(g, S, base, N, step)
<1> DEFINE Built(g, k) == g \in [0..k -> S] /\ g[0] = base /\ \A n \in 1..k : g[n] = step[n][g[n - 1]]
           T == {k \in 0..N : \E g : Built(g, k)}
<1>1. 0 \in T
  <2>1. Built([n \in 0..0 |-> base], 0)
    OBVIOUS
  <2> HIDE DEF Built
  <2> QED BY <2>1
<1>2. ASSUME NEW k \in 1..N, k - 1 \in T PROVE k \in T
  <2>1. PICK g : Built(g, k - 1)
    BY <1>2
  <2> DEFINE f == [n \in 0..k |-> IF n = k THEN step[k][g[k - 1]] ELSE g[n]]
  <2>2. g[k - 1] \in S /\ step[k] \in [S -> S]
    BY <2>1
  <2>3. f \in [0..k -> S]
    BY <2>1, <2>2
  <2>4. f[0] = base
    BY <2>1
  <2>5. \A n \in 1..k : f[n] = step[n][f[n - 1]]
    BY <2>1
  <2> HIDE DEF f
  <2>6. Built(f, k)
    BY <2>3, <2>4, <2>5
  <2> HIDE DEF Built
  <2> QED BY <2>6
<1> HIDE DEF Built
<1>3. 0..N \subseteq T
  <2> HIDE DEF T
  <2> QED BY <1>1, <1>2, Climb
<1>4. PICK g : Built(g, N)
  BY <1>3
<1> QED BY <1>4 DEF Built, Iterates
=============================================================================
