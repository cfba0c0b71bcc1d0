----------------------------- MODULE Sorts_proofs -----------------------------
(***************************************************************************)
(* Proofs about sorts, for every set of sorts and objects, every order of   *)
(* declarations and any number of restarts: objects climb to all super-     *)
(* sorts, constants keep the values of their sort, and a saved table is     *)
(* loaded as it was.                                                        *)
(***************************************************************************)
EXTENDS Sorts, TLAPS

(* What holds of a table, the one in memory and the one that was saved. *)

Climbs(T) ==
  \A s, t \in Sorts : t \in T.supersorts[s] => T.members[s] \subseteq T.members[t]

Agrees(T) ==
  \A s, t \in Sorts : t \in T.supersorts[s] <=> s \in T.subsorts[t]

Fits(T) == \A s \in Sorts : T.domainType[s] = TypeOfSet(T.members[s])

\* Only sorts of the table hold objects or links.
Contained(T) ==
  \A s \in Sorts :
    /\ T.supersorts[s] \subseteq T.declared /\ T.subsorts[s] \subseteq T.declared
    /\ s \notin T.declared => /\ T.members[s] = {}
                              /\ T.supersorts[s] = {} /\ T.subsorts[s] = {}

\* A constant's sort is the one it was declared over or a super-sort of it.
Linked(T) ==
  \A c \in T.constants :
    /\ c.over = c.sort \/ c.sort \in T.supersorts[c.over]
    /\ c.kind = "external" => Unknown \in T.members[c.sort]

Sound(T) == Climbs(T) /\ Agrees(T) /\ Fits(T) /\ Contained(T)

\* How far the loading of the saved table is.
LoadProgress ==
  /\ declared = saved.declared
  /\ constants = {}
  /\ \A s \in Sorts : /\ members[s] \subseteq saved.members[s]
                      /\ supersorts[s] \subseteq saved.supersorts[s]
  /\ \A s \in Sorts \ toLoad :
       /\ saved.members[s] \subseteq members[s]
       /\ \A t \in saved.subsorts[s] : s \in supersorts[t]

SortsInv ==
  /\ TypeOK
  /\ Sound(Here) /\ Linked(Here)
  /\ Boolean \in declared /\ toLoad \subseteq declared
  /\ loading => Sound(saved) /\ Linked(saved) /\ LoadProgress

-----------------------------------------------------------------------------
(* What add() reaches *)

\* The sort an object is added to receives it, unless it has it.
LEMMA ReachedFirst ==
  ASSUME NEW sup, NEW s \in Sorts, NEW o, o \notin members[s]
  PROVE  s \in Reached(sup, s, o)
  BY DEF Reached

\* What a reached sort has above it and lacks the object is reached.
LEMMA ReachedOn ==
  ASSUME NEW sup, NEW s \in Sorts, NEW o, NEW t \in Reached(sup, s, o),
         NEW u \in sup[t], u \in Sorts, o \notin members[u]
  PROVE  u \in Reached(sup, s, o)
<1>1. o \notin members[s]
  BY DEF Reached
<1>2. ASSUME NEW T \in SUBSET Sorts, s \in T, PassesOn(T, sup, o)
      PROVE  u \in T
  <2>1. t \in T
    BY <1>2 DEF Reached
  <2> QED BY <2>1, <1>2 DEF PassesOn
<1> QED BY <1>1, <1>2 DEF Reached

\* Nothing outside a set that passes the object on is reached from inside.
LEMMA ReachedWithin ==
  ASSUME NEW sup, NEW s \in Sorts, NEW o, NEW t \in Reached(sup, s, o),
         NEW T \in SUBSET Sorts, s \in T, PassesOn(T, sup, o)
  PROVE  t \in T
  BY DEF Reached

-----------------------------------------------------------------------------
(* What Grow does *)

\* The types of the four lists after a sort has grown.
LEMMA GrowTypes ==
  ASSUME Here \in Table, NEW high \in Sorts, NEW lows \in SUBSET Sorts,
         NEW own \in SUBSET Objects, Grow(high, lows, own)
  PROVE  /\ members' \in [Sorts -> SUBSET Objects]
         /\ supersorts' \in [Sorts -> SUBSET Sorts]
         /\ subsorts' \in [Sorts -> SUBSET Sorts]
         /\ domainType' \in [Sorts -> DomainType]
<1> USE SortsAssumption DEF Here, Table
<1>1. Offered(high, lows, own) \subseteq Objects
  BY DEF Offered, NewUnder, NewSubs
<1>2. members' \in [Sorts -> SUBSET Objects]
  BY <1>1 DEF Grow, Gains
<1>3. supersorts' \in [Sorts -> SUBSET Sorts]
  BY DEF Grow, SupersAfter
<1>4. subsorts' \in [Sorts -> SUBSET Sorts]
  BY DEF Grow
<1>5. ASSUME NEW dt \in DomainType, NEW kinds \in SUBSET KindType
      PROVE  Retyped(dt, kinds) \in DomainType
  BY DEF Retyped, DomainType, KindType
<1>6. \A t \in Sorts : {Kind[o] : o \in Gains(high, lows, own, t) \ members[t]} \subseteq KindType
  BY <1>1 DEF Gains
<1>7. domainType' \in [Sorts -> DomainType]
  BY <1>5, <1>6 DEF Grow
<1> QED BY <1>2, <1>3, <1>4, <1>7

\* Nothing is lost, and what was asked for is there.
LEMMA GrowAdds ==
  ASSUME Here \in Table, Agrees(Here), NEW high \in Sorts, NEW lows \in SUBSET Sorts,
         NEW own \in SUBSET Objects, Grow(high, lows, own)
  PROVE  /\ \A s \in Sorts : members[s] \subseteq members'[s]
         /\ \A s \in Sorts : supersorts[s] \subseteq supersorts'[s]
         /\ \A s, t \in Sorts : t \in supersorts'[s] <=>
               t \in supersorts[s] \/ (t = high /\ s \in lows)
         /\ own \subseteq members'[high]
<1> USE DEF Here, Table
<1>1. \A s \in Sorts : members[s] \subseteq members'[s]
  BY DEF Grow
<1>2. \A s \in Sorts : high \in supersorts[s] <=> s \in subsorts[high]
  BY DEF Agrees
<1>3. \A s, t \in Sorts : t \in supersorts'[s] <=>
               t \in supersorts[s] \/ (t = high /\ s \in lows)
  BY <1>2 DEF Grow, SupersAfter, NewUnder, NewSubs
<1>4. ASSUME NEW o \in own
      PROVE  o \in members'[high]
  <2>1. CASE o \in members[high]
    BY <2>1, <1>1
  <2>2. CASE o \notin members[high]
    <3>1. high \in Reached(SupersAfter(high, lows), high, o)
      BY <2>2, ReachedFirst
    <3> QED BY <3>1 DEF Grow, Gains, Offered
  <2> QED BY <2>1, <2>2
<1>5. \A s \in Sorts : supersorts[s] \subseteq supersorts'[s]
  BY <1>3 DEF Grow, SupersAfter
<1> QED BY <1>1, <1>3, <1>4, <1>5

\* Objects climb along all links, the new ones included.
LEMMA GrowClimbs ==
  ASSUME Here \in Table, Agrees(Here), Climbs(Here), NEW high \in Sorts,
         NEW lows \in SUBSET Sorts, NEW own \in SUBSET Objects, Grow(high, lows, own)
  PROVE  \A s, t \in Sorts : t \in supersorts'[s] => members'[s] \subseteq members'[t]
<1> SUFFICES ASSUME NEW s \in Sorts, NEW t \in Sorts, t \in supersorts'[s],
                    NEW o \in members'[s], o \notin members[t]
             PROVE  o \in members'[t]
  BY GrowAdds
<1>1. supersorts' = SupersAfter(high, lows)
  BY DEF Grow
<1>2. CASE o \in members[s]
  <2>1. t \notin supersorts[s]
    BY <1>2 DEF Climbs, Here
  <2>2. t = high /\ s \in NewUnder(high, lows)
    BY <2>1, <1>1 DEF SupersAfter
  <2>3. o \in Offered(high, lows, own)
    BY <2>2, <1>2 DEF Offered
  <2>4. high \in Reached(SupersAfter(high, lows), high, o)
    BY <2>2, ReachedFirst
  <2> QED BY <2>2, <2>3, <2>4 DEF Grow, Gains
<1>3. CASE o \notin members[s]
  <2>1. o \in Gains(high, lows, own, s)
    BY <1>3 DEF Grow
  <2>2. t \in Reached(SupersAfter(high, lows), high, o)
    BY <2>1, <1>1, ReachedOn DEF Gains
  <2> QED BY <2>1, <2>2 DEF Grow, Gains
<1> QED BY <1>2, <1>3

\* Growing stays within any table that objects climb in already and that has
\* the new links and objects.
LEMMA GrowWithin ==
  ASSUME Here \in Table, Agrees(Here), NEW high \in Sorts, NEW lows \in SUBSET Sorts,
         NEW own \in SUBSET Objects, Grow(high, lows, own),
         NEW M \in [Sorts -> SUBSET Objects], NEW S \in [Sorts -> SUBSET Sorts],
         \A s, t \in Sorts : t \in S[s] => M[s] \subseteq M[t],
         \A s \in Sorts : members[s] \subseteq M[s],
         \A s \in Sorts : supersorts[s] \subseteq S[s],
         own \subseteq M[high], \A l \in lows : high \in S[l]
  PROVE  \A s \in Sorts : members'[s] \subseteq M[s]
<1> USE DEF Here, Table
<1>1. ASSUME NEW s \in Sorts, NEW o \in Gains(high, lows, own, s)
      PROVE  o \in M[s]
  <2> DEFINE T == {t \in Sorts : o \in M[t]}
  <2>1. o \in M[high]
    BY <1>1 DEF Gains, Offered, NewUnder, NewSubs
  <2>2. \A t, u \in Sorts : u \in SupersAfter(high, lows)[t] => u \in S[t]
    BY DEF SupersAfter, NewUnder, NewSubs
  <2>3. \A t \in Sorts : SupersAfter(high, lows)[t] \subseteq Sorts
    BY DEF SupersAfter
  <2>4. PassesOn(T, SupersAfter(high, lows), o)
    BY <2>2, <2>3 DEF PassesOn
  <2>5. T \in SUBSET Sorts /\ high \in T
    BY <2>1
  <2>6. s \in Reached(SupersAfter(high, lows), high, o)
    BY <1>1 DEF Gains
  <2>7. s \in T
    BY <2>4, <2>5, <2>6, ReachedWithin
  <2> QED BY <2>7
<1> QED BY <1>1 DEF Grow

\* What a sort of a fitting type that receives more objects is typed.
LEMMA RetypedFits ==
  ASSUME NEW S \in SUBSET Objects, NEW G \in SUBSET Objects
  PROVE  Retyped(TypeOfSet(S), {Kind[o] : o \in G \ S}) = TypeOfSet(S \cup G)
<1> DEFINE kinds == {Kind[o] : o \in G \ S}
           all == {Kind[o] : o \in S \cup G}
           k == CHOOSE x \in all : TRUE
           first == CHOOSE x \in kinds : TRUE
           ks == CHOOSE x \in {Kind[o] : o \in S} : TRUE
<1> USE SortsAssumption
<1>1. CASE G \subseteq S
  <2>1. kinds = {} /\ S \cup G = S
    BY <1>1
  <2> QED BY <2>1 DEF Retyped
<1>2. CASE ~(G \subseteq S)
  <2>1. kinds # {} /\ first \in kinds
    BY <1>2
  <2>2. S \cup G # {} /\ k \in all
    BY <1>2
  <2>3. CASE S = {}
    <3>1. TypeOfSet(S) = "NO_DOMAIN" /\ kinds = all
      BY <2>3 DEF TypeOfSet
    <3>2. TypeOfSet(S \cup G) = IF \A o \in S \cup G : Kind[o] = k THEN k ELSE "OTHER"
      BY <2>2 DEF TypeOfSet
    <3>3. Retyped("NO_DOMAIN", kinds) = IF kinds \subseteq {first} THEN first ELSE "OTHER"
      BY <2>1 DEF Retyped
    <3>4. first = k
      BY <3>1
    <3>5. kinds \subseteq {k} <=> \A o \in S \cup G : Kind[o] = k
      BY <3>1
    <3> QED BY <3>1, <3>2, <3>3, <3>4, <3>5
  <2>4. CASE S # {}
    <3>1. ks \in {Kind[o] : o \in S} /\ ks \in KindType
      BY <2>4
    <3>2. TypeOfSet(S) = IF \A o \in S : Kind[o] = ks THEN ks ELSE "OTHER"
      BY <2>4 DEF TypeOfSet
    <3>3. TypeOfSet(S) # "NO_DOMAIN"
      BY <3>1, <3>2 DEF KindType
    <3>4. Retyped(TypeOfSet(S), kinds)
            = IF kinds \subseteq {TypeOfSet(S)} THEN TypeOfSet(S) ELSE "OTHER"
      BY <2>1, <3>3 DEF Retyped
    <3>5. TypeOfSet(S \cup G) = IF \A o \in S \cup G : Kind[o] = k THEN k ELSE "OTHER"
      BY <2>2 DEF TypeOfSet
    <3>6. CASE \A o \in S \cup G : Kind[o] = k
      <4>1. ks = k
        BY <3>1, <3>6
      <4>2. TypeOfSet(S) = k /\ kinds \subseteq {k}
        BY <3>2, <3>6, <4>1
      <4> QED BY <3>4, <3>5, <3>6, <4>2
    <3>7. CASE ~ \A o \in S \cup G : Kind[o] = k
      <4>1. CASE TypeOfSet(S) = "OTHER"
        BY <3>4, <3>5, <3>7, <4>1
      <4>2. CASE TypeOfSet(S) # "OTHER"
        <5>1. TypeOfSet(S) = ks /\ \A o \in S : Kind[o] = ks
          BY <3>2, <4>2
        <5>2. ~(kinds \subseteq {ks})
          <6> SUFFICES ASSUME kinds \subseteq {ks}  PROVE FALSE
            OBVIOUS
          <6>1. \A o \in S \cup G : Kind[o] = ks
            BY <5>1
          <6>2. k = ks
            BY <6>1, <2>2
          <6> QED BY <6>1, <6>2, <3>7
        <5> QED BY <3>4, <3>5, <3>7, <5>1, <5>2
      <4> QED BY <4>1, <4>2
    <3> QED BY <3>6, <3>7
  <2> QED BY <2>3, <2>4
<1> QED BY <1>1, <1>2

\* A grown table is as sound as before, if the parser has made its sorts.
LEMMA GrowSound ==
  ASSUME TypeOK, Sound(Here), NEW high \in Sorts, NEW lows \in SUBSET Sorts,
         NEW own \in SUBSET Objects, Grow(high, lows, own),
         declared \subseteq declared', declared' \subseteq Sorts,
         high \in declared', lows \subseteq declared'
  PROVE  Sound(Here)'
<1> USE DEF Here
<1>0. Here \in Table /\ Agrees(Here) /\ Climbs(Here)
  BY DEF TypeOK, Sound
<1>1. Climbs(Here)'
  BY <1>0, GrowClimbs DEF Climbs
<1>2. Agrees(Here)'
  <2>1. \A s, t \in Sorts : s \in subsorts'[t] <=>
               s \in subsorts[t] \/ (t = high /\ s \in lows)
    BY <1>0 DEF Grow, Table
  <2>2. \A s, t \in Sorts : t \in supersorts'[s] <=>
               t \in supersorts[s] \/ (t = high /\ s \in lows)
    BY <1>0, GrowAdds
  <2>3. \A s, t \in Sorts : t \in supersorts[s] <=> s \in subsorts[t]
    BY <1>0 DEF Agrees
  <2> QED BY <2>1, <2>2, <2>3 DEF Agrees
<1>3. Fits(Here)'
  <2> SUFFICES ASSUME NEW s \in Sorts
               PROVE  domainType'[s] = TypeOfSet(members'[s])
    BY DEF Fits
  <2>1. Gains(high, lows, own, s) \subseteq Objects
    BY <1>0 DEF Gains, Offered, NewUnder, NewSubs, Table
  <2>2. members[s] \subseteq Objects /\ domainType[s] = TypeOfSet(members[s])
    BY <1>0 DEF Sound, Fits, Table
  <2>3. members'[s] = members[s] \cup Gains(high, lows, own, s)
    BY DEF Grow
  <2>4. domainType'[s] = Retyped(domainType[s],
                {Kind[o] : o \in Gains(high, lows, own, s) \ members[s]})
    BY DEF Grow
  <2> QED BY <2>1, <2>2, <2>3, <2>4, RetypedFits
<1>4. Contained(Here)'
  <2>1. \A s, t \in Sorts : t \in supersorts'[s] => s \in declared' /\ t \in declared'
    <3>1. \A s, t \in Sorts : t \in supersorts'[s] <=>
               t \in supersorts[s] \/ (t = high /\ s \in lows)
      BY <1>0, GrowAdds
    <3>2. \A s \in Sorts : supersorts[s] \subseteq declared
                          /\ (s \notin declared => supersorts[s] = {})
      BY DEF Sound, Contained
    <3> QED BY <3>1, <3>2
  <2>2. \A s, t \in Sorts : s \in subsorts'[t] => s \in declared' /\ t \in declared'
    BY <1>2, <2>1 DEF Agrees
  <2>3. \A s \in Sorts : s \notin declared' => members'[s] = {}
    <3> DEFINE M == [s \in Sorts |-> IF s \in declared' THEN Objects ELSE {}]
               S == supersorts'
    <3>0. M \in [Sorts -> SUBSET Objects] /\ S \in [Sorts -> SUBSET Sorts]
      BY <1>0, GrowTypes
    <3>1. \A s, t \in Sorts : t \in S[s] => M[s] \subseteq M[t]
      BY <2>1
    <3>2. \A s \in Sorts : members[s] \subseteq M[s]
      BY <1>0 DEF Sound, Contained, Table
    <3>3. \A s \in Sorts : supersorts[s] \subseteq S[s]
      BY <1>0, GrowAdds
    <3>4. own \subseteq M[high]
      OBVIOUS
    <3>5. \A l \in lows : high \in S[l]
      BY <1>0, GrowAdds
    <3>6. \A s \in Sorts : s \notin declared' => M[s] = {}
      OBVIOUS
    <3> HIDE DEF M, S
    <3>7. \A s \in Sorts : members'[s] \subseteq M[s]
      BY <1>0, <3>0, <3>1, <3>2, <3>3, <3>4, <3>5, GrowWithin
    <3> QED BY <3>6, <3>7
  <2>4. \A s \in Sorts : supersorts'[s] \subseteq Sorts /\ subsorts'[s] \subseteq Sorts
    BY <1>0, GrowTypes
  <2> QED BY <2>1, <2>2, <2>3, <2>4 DEF Contained
<1> QED BY <1>1, <1>2, <1>3, <1>4 DEF Sound

-----------------------------------------------------------------------------
(* The invariant is inductive *)

LEMMA InitSorts == Init => SortsInv
<1> SUFFICES ASSUME Init  PROVE SortsInv
  OBVIOUS
<1>0. toLoad \subseteq Sorts /\ loading \in BOOLEAN /\ restarts \in 0..MaxRestarts
  <2>1. MaxRestarts \in Nat
    BY SortsAssumption
  <2>2. toLoad = {} /\ loading = FALSE /\ restarts = 0
    BY DEF Init
  <2>3. restarts \in 0..MaxRestarts
    BY <2>1, <2>2, SMT
  <2>4. loading \in BOOLEAN
    BY <2>2
  <2> QED BY <2>2, <2>3, <2>4
<1>1. saved \in Table
  BY DEF Init, EmptyTable, Nothing, Table, DomainType
<1> USE SortsAssumption DEF Init, Here, Nothing, EmptyTable
<1>2. Here \in Table
  BY DEF Table, DomainType
<1>3. Climbs(Here) /\ Agrees(Here) /\ Contained(Here) /\ Linked(Here)
  BY DEF Climbs, Agrees, Contained, Linked
<1>4. TypeOfSet(Truths) = "BOOLEAN"
  <2> DEFINE k == CHOOSE x \in {Kind[o] : o \in Truths} : TRUE
  <2>1. k \in {Kind[o] : o \in Truths}
    OBVIOUS
  <2>2. k = "BOOLEAN"
    BY <2>1
  <2> QED BY <2>2 DEF TypeOfSet
<1>5. TypeOfSet({}) = "NO_DOMAIN"
  BY DEF TypeOfSet
<1>6. Fits(Here)
  BY <1>4, <1>5 DEF Fits
<1>7. Boolean \in declared /\ toLoad \subseteq declared /\ ~loading
  OBVIOUS
<1> HIDE SortsAssumption DEF Init, Here, Nothing, EmptyTable
<1> QED BY <1>0, <1>1, <1>2, <1>3, <1>6, <1>7 DEF SortsInv, Sound, TypeOK

\* A step of the parser: the saved table is not in use.
LEMMA ParserStep ==
  ASSUME SortsInv, Parsing, declared \subseteq declared', declared' \subseteq Sorts,
         members' \in [Sorts -> SUBSET Objects], supersorts' \in [Sorts -> SUBSET Sorts],
         subsorts' \in [Sorts -> SUBSET Sorts], domainType' \in [Sorts -> DomainType],
         constants' \subseteq Constant, Sound(Here)', Linked(Here)'
  PROVE  SortsInv'
<1>1. TypeOK'
  BY DEF SortsInv, TypeOK, Parsing, Here, Table
<1> QED BY <1>1 DEF SortsInv, Parsing

\* Constants keep their values while sorts grow.
LEMMA LinkedKept ==
  ASSUME SortsInv, constants' = constants,
         \A s \in Sorts : members[s] \subseteq members'[s],
         \A s \in Sorts : supersorts[s] \subseteq supersorts'[s]
  PROVE  Linked(Here)'
<1>1. \A c \in constants : c.over \in Sorts /\ c.sort \in Sorts
  BY DEF SortsInv, TypeOK, Here, Table, Constant
<1> QED BY <1>1 DEF SortsInv, Linked, Here

\* What plus() does to the table, and what it returns.
LEMMA PlusSound ==
  ASSUME SortsInv, NEW s \in Sorts, NEW o \in Objects, Plus(s, o)
  PROVE  /\ declared \subseteq declared' /\ declared' \subseteq Sorts
         /\ members' \in [Sorts -> SUBSET Objects]
         /\ supersorts' \in [Sorts -> SUBSET Sorts]
         /\ subsorts' \in [Sorts -> SUBSET Sorts]
         /\ domainType' \in [Sorts -> DomainType]
         /\ Sound(Here)'
         /\ \A t \in Sorts : members[t] \subseteq members'[t]
         /\ \A t \in Sorts : supersorts[t] \subseteq supersorts'[t]
         /\ PlusSort(s, o) \in Sorts
         /\ PlusSort(s, o) = s \/ PlusSort(s, o) \in supersorts'[s]
         /\ o \in members'[PlusSort(s, o)]
<1>0. Here \in Table /\ TypeOK /\ Sound(Here) /\ Agrees(Here)
  BY DEF SortsInv, TypeOK, Sound
<1>1. CASE o \in members[s]
  <2>1. UNCHANGED <<declared, sortVars>> /\ PlusSort(s, o) = s
    BY <1>1 DEF Plus, PlusSort
  <2>2. Sound(Here)'
    BY <1>0, <2>1 DEF Sound, Climbs, Agrees, Fits, Contained, Here, sortVars
  <2> QED BY <1>0, <1>1, <2>1, <2>2 DEF sortVars, Here, Table
<1>2. CASE o \notin members[s]
  <2> DEFINE r == PlusSort(s, o)
  <2>1. r \in Sorts
    <3>1. <<s, o>> \in DOMAIN PlusName
      BY <1>2 DEF Plus
    <3> QED BY <1>2, <3>1, SortsAssumption DEF PlusSort
  <2>2. declared' = declared \cup {r} /\ Grow(r, {s}, {o}) /\ s \in declared
    BY <1>2 DEF Plus
  <2>3. declared \subseteq declared' /\ declared' \subseteq Sorts /\ {s} \subseteq declared'
    BY <1>0, <2>1, <2>2 DEF Here, Table
  <2> HIDE DEF r
  <2>4. Sound(Here)'
    BY <1>0, <2>1, <2>2, <2>3, GrowSound
  <2>5. /\ \A t \in Sorts : members[t] \subseteq members'[t]
        /\ \A t \in Sorts : supersorts[t] \subseteq supersorts'[t]
        /\ r \in supersorts'[s]
        /\ o \in members'[r]
    <3>1. {s} \in SUBSET Sorts /\ {o} \in SUBSET Objects
      OBVIOUS
    <3>2. /\ \A t \in Sorts : members[t] \subseteq members'[t]
          /\ \A t \in Sorts : supersorts[t] \subseteq supersorts'[t]
          /\ \A t, u \in Sorts : u \in supersorts'[t] <=>
                u \in supersorts[t] \/ (u = r /\ t \in {s})
          /\ {o} \subseteq members'[r]
      BY <1>0, <2>1, <2>2, <3>1, GrowAdds
    <3> QED BY <2>1, <3>2
  <2>6. /\ members' \in [Sorts -> SUBSET Objects]
        /\ supersorts' \in [Sorts -> SUBSET Sorts]
        /\ subsorts' \in [Sorts -> SUBSET Sorts]
        /\ domainType' \in [Sorts -> DomainType]
    BY <1>0, <2>1, <2>2, GrowTypes
  <2> QED BY <2>1, <2>3, <2>4, <2>5, <2>6 DEF r
<1> QED BY <1>1, <1>2

\* Growing a sort of the table is a sound step of the parser.
LEMMA GrowStep ==
  ASSUME SortsInv, Parsing, NEW high \in declared, NEW lows \in SUBSET declared,
         NEW own \in SUBSET Objects, Grow(high, lows, own), UNCHANGED <<declared, constants>>
  PROVE  SortsInv'
<1>0. Here \in Table /\ TypeOK /\ Sound(Here) /\ Agrees(Here)
  BY DEF SortsInv, TypeOK, Sound
<1>1. high \in Sorts /\ lows \in SUBSET Sorts /\ declared \subseteq Sorts /\ constants \subseteq Constant
  BY <1>0 DEF Here, Table
<1>2. Sound(Here)'
  BY <1>0, <1>1, GrowSound
<1>3. /\ \A t \in Sorts : members[t] \subseteq members'[t]
      /\ \A t \in Sorts : supersorts[t] \subseteq supersorts'[t]
  BY <1>0, <1>1, GrowAdds
<1>4. Linked(Here)'
  BY <1>3, LinkedKept
<1>5. /\ members' \in [Sorts -> SUBSET Objects]
      /\ supersorts' \in [Sorts -> SUBSET Sorts]
      /\ subsorts' \in [Sorts -> SUBSET Sorts]
      /\ domainType' \in [Sorts -> DomainType]
  BY <1>0, <1>1, GrowTypes
<1> QED BY <1>1, <1>2, <1>4, <1>5, ParserStep

\* A constant over s whose sort holds the values of s.
LEMMA DeclareLinked ==
  ASSUME SortsInv, NEW kind \in {"external", "abAction"}, NEW s \in Sorts,
         NEW r \in Sorts, Declare(kind, s, r), r = s \/ r \in supersorts'[s],
         kind = "external" => Unknown \in members'[r],
         \A t \in Sorts : members[t] \subseteq members'[t],
         \A t \in Sorts : supersorts[t] \subseteq supersorts'[t]
  PROVE  constants' \subseteq Constant /\ Linked(Here)'
<1>1. constants \subseteq Constant
  BY DEF SortsInv, TypeOK, Here, Table
<1>2. constants' \subseteq Constant
  BY <1>1 DEF Declare, Constant
<1>3. ASSUME NEW c \in constants'
      PROVE  /\ c.over = c.sort \/ c.sort \in supersorts'[c.over]
             /\ c.kind = "external" => Unknown \in members'[c.sort]
  <2>1. CASE c \in constants
    BY <1>1, <2>1 DEF SortsInv, Linked, Here, Constant
  <2>2. CASE c = [kind |-> kind, over |-> s, sort |-> r]
    BY <2>2
  <2> QED BY <2>1, <2>2 DEF Declare
<1> QED BY <1>2, <1>3 DEF Linked, Here

\* One definition of the saved table is read.
LEMMA LoadStep ==
  ASSUME SortsInv, NEW s \in Sorts, LoadDefinition(s)
  PROVE  SortsInv'
<1> DEFINE lows == saved.subsorts[s]
           own == saved.members[s]
<1>0. Here \in Table /\ TypeOK /\ Sound(Here) /\ Agrees(Here)
  BY DEF SortsInv, TypeOK, Sound
<1>1. /\ saved \in Table /\ Climbs(saved) /\ Agrees(saved) /\ Contained(saved)
      /\ Sound(saved) /\ Linked(saved) /\ LoadProgress
  BY DEF SortsInv, LoadDefinition, TypeOK, Sound
<1>2. /\ Grow(s, lows, own) /\ lows \in SUBSET Sorts /\ own \in SUBSET Objects
      /\ UNCHANGED <<declared, constants, saved, loading, restarts>>
      /\ toLoad' = toLoad \ {s} /\ s \in toLoad
  BY <1>1 DEF LoadDefinition, Table
<1>3. s \in declared /\ lows \subseteq declared /\ declared \subseteq Sorts
  BY <1>1, <1>2 DEF SortsInv, LoadProgress, Contained, Table
<1> HIDE DEF lows, own
<1>4. Sound(Here)'
  BY <1>0, <1>2, <1>3, GrowSound
<1>5. /\ members' \in [Sorts -> SUBSET Objects]
      /\ supersorts' \in [Sorts -> SUBSET Sorts]
      /\ subsorts' \in [Sorts -> SUBSET Sorts]
      /\ domainType' \in [Sorts -> DomainType]
  BY <1>0, <1>2, GrowTypes
<1>6. TypeOK'
  <2>1. Here' \in Table
    BY <1>0, <1>2, <1>5 DEF Here, Table
  <2> QED BY <1>0, <1>2, <2>1 DEF TypeOK
<1>7. /\ \A t \in Sorts : members[t] \subseteq members'[t]
      /\ \A t, u \in Sorts : u \in supersorts'[t] <=>
            u \in supersorts[t] \/ (u = s /\ t \in lows)
      /\ own \subseteq members'[s]
  BY <1>0, <1>2, GrowAdds
<1>8. LoadProgress'
  <2>1. declared' = saved'.declared /\ constants' = {}
    BY <1>1, <1>2 DEF LoadProgress
  <2>2. \A t \in Sorts : t \in lows <=> s \in saved.supersorts[t]
    BY <1>1 DEF Agrees, lows
  <2>3. \A t \in Sorts : supersorts'[t] \subseteq saved'.supersorts[t]
    BY <1>1, <1>2, <1>5, <1>7, <2>2 DEF LoadProgress
  <2>4. \A t \in Sorts : members'[t] \subseteq saved'.members[t]
    <3> DEFINE M == saved.members
               S == saved.supersorts
    <3>1. M \in [Sorts -> SUBSET Objects] /\ S \in [Sorts -> SUBSET Sorts]
      BY <1>1 DEF Table
    <3>2. \A t, u \in Sorts : u \in S[t] => M[t] \subseteq M[u]
      BY <1>1 DEF Climbs
    <3>3. \A t \in Sorts : members[t] \subseteq M[t] /\ supersorts[t] \subseteq S[t]
      BY <1>1 DEF LoadProgress
    <3>4. own \subseteq M[s]
      BY DEF own
    <3>5. \A l \in lows : s \in S[l]
      BY <1>2, <2>2
    <3>6. saved'.members = M
      BY <1>2
    <3> HIDE DEF M, S
    <3>7. \A t \in Sorts : members'[t] \subseteq M[t]
      BY <1>0, <1>2, <3>1, <3>2, <3>3, <3>4, <3>5, GrowWithin
    <3> QED BY <3>6, <3>7
  <2>5. ASSUME NEW u \in Sorts \ toLoad'
        PROVE  /\ saved'.members[u] \subseteq members'[u]
               /\ \A t \in saved'.subsorts[u] : u \in supersorts'[t]
    <3>1. saved'.subsorts[u] \subseteq Sorts
      BY <1>1, <1>2 DEF Table
    <3>2. CASE u = s
      BY <1>2, <1>7, <3>1, <3>2 DEF own, lows
    <3>3. CASE u # s
      <4>1. u \in Sorts \ toLoad
        BY <1>2, <3>3
      <4>2. /\ saved.members[u] \subseteq members[u]
            /\ \A t \in saved.subsorts[u] : u \in supersorts[t]
        BY <1>1, <4>1 DEF LoadProgress
      <4> QED BY <1>2, <1>7, <3>1, <4>2
    <3> QED BY <3>2, <3>3
  <2> QED BY <2>1, <2>3, <2>4, <2>5 DEF LoadProgress
<1>9. Sound(saved)' /\ Linked(saved)'
  BY <1>1, <1>2 DEF Sound, Climbs, Agrees, Fits, Contained, Linked
<1>10. Linked(Here)'
  BY <1>1, <1>2 DEF LoadProgress, Linked, Here
<1>11. Boolean \in declared' /\ toLoad' \subseteq declared'
  BY <1>2 DEF SortsInv
<1> QED BY <1>4, <1>6, <1>8, <1>9, <1>10, <1>11 DEF SortsInv

\* The whole table has been read.
LEMMA LoadedTable ==
  ASSUME SortsInv, loading, toLoad = {}
  PROVE  /\ members = saved.members /\ supersorts = saved.supersorts
         /\ subsorts = saved.subsorts /\ domainType = saved.domainType
<1>1. /\ Here \in Table /\ Agrees(Here) /\ Fits(Here)
      /\ saved \in Table /\ Agrees(saved) /\ Fits(saved) /\ LoadProgress
  BY DEF SortsInv, TypeOK, Sound
<1>2. members = saved.members
  <2>1. \A s \in Sorts : members[s] = saved.members[s]
    BY <1>1 DEF LoadProgress
  <2> QED BY <1>1, <2>1 DEF Here, Table
<1>3. \A s, t \in Sorts : t \in supersorts[s] <=> t \in saved.supersorts[s]
  <2>1. \A s, t \in Sorts : t \in saved.supersorts[s] => s \in saved.subsorts[t]
    BY <1>1 DEF Agrees
  <2> QED BY <1>1, <2>1 DEF LoadProgress
<1>4. supersorts = saved.supersorts
  <2>1. supersorts \in [Sorts -> SUBSET Sorts] /\ saved.supersorts \in [Sorts -> SUBSET Sorts]
    BY <1>1 DEF Here, Table
  <2>2. \A s \in Sorts : supersorts[s] = saved.supersorts[s]
    BY <1>3, <2>1
  <2> QED BY <2>1, <2>2
<1>5. subsorts = saved.subsorts
  <2>1. subsorts \in [Sorts -> SUBSET Sorts] /\ saved.subsorts \in [Sorts -> SUBSET Sorts]
    BY <1>1 DEF Here, Table
  <2>2. \A s, t \in Sorts : s \in subsorts[t] <=> s \in saved.subsorts[t]
    BY <1>1, <1>3 DEF Agrees, Here
  <2>3. ASSUME NEW t \in Sorts
        PROVE  subsorts[t] = saved.subsorts[t]
    <3>1. subsorts[t] \subseteq Sorts /\ saved.subsorts[t] \subseteq Sorts
      BY <2>1
    <3>2. \A s \in Sorts : s \in subsorts[t] <=> s \in saved.subsorts[t]
      BY <2>2
    <3> QED BY <3>1, <3>2
  <2> QED BY <2>1, <2>3
<1>6. domainType = saved.domainType
  <2>1. domainType \in [Sorts -> DomainType] /\ saved.domainType \in [Sorts -> DomainType]
    BY <1>1 DEF Here, Table
  <2>2. \A s \in Sorts : domainType[s] = saved.domainType[s]
    BY <1>1, <1>2 DEF Fits, Here
  <2> QED BY <2>1, <2>2
<1> QED BY <1>2, <1>4, <1>5, <1>6

\* The constants come back and the built-in sort is filled.
LEMMA FinishStep ==
  ASSUME SortsInv, FinishLoad
  PROVE  SortsInv'
<1>0. /\ Here \in Table /\ TypeOK /\ Sound(Here) /\ Agrees(Here)
      /\ saved \in Table /\ Linked(saved) /\ loading /\ toLoad = {}
  BY DEF SortsInv, FinishLoad, TypeOK, Sound
<1>1. /\ Grow(Boolean, {}, Truths) /\ declared' = declared /\ loading' = FALSE
      /\ constants' = saved.constants /\ saved' = EmptyTable
      /\ toLoad' = toLoad /\ restarts' = restarts
  BY DEF FinishLoad
<1>2. /\ Boolean \in Sorts /\ Truths \in SUBSET Objects /\ {} \in SUBSET Sorts
      /\ Boolean \in declared /\ declared \subseteq Sorts /\ {} \subseteq declared
  BY <1>0, SortsAssumption DEF SortsInv, Here, Table
<1>3. Sound(Here)'
  BY <1>0, <1>1, <1>2, GrowSound
<1>4. /\ members' \in [Sorts -> SUBSET Objects]
      /\ supersorts' \in [Sorts -> SUBSET Sorts]
      /\ subsorts' \in [Sorts -> SUBSET Sorts]
      /\ domainType' \in [Sorts -> DomainType]
  BY <1>0, <1>1, <1>2, GrowTypes
<1>5. saved' \in Table
  BY <1>1 DEF EmptyTable, Nothing, Table, DomainType
<1>6. TypeOK'
  <2>1. Here' \in Table
    BY <1>0, <1>1, <1>2, <1>4 DEF Here, Table
  <2> QED BY <1>0, <1>1, <1>5, <2>1 DEF TypeOK
<1>7. Linked(Here)'
  <2>1. /\ \A t \in Sorts : members[t] \subseteq members'[t]
        /\ \A t \in Sorts : supersorts[t] \subseteq supersorts'[t]
    BY <1>0, <1>1, <1>2, GrowAdds
  <2>2. members = saved.members /\ supersorts = saved.supersorts
    BY <1>0, LoadedTable
  <2>3. \A c \in saved.constants : c.over \in Sorts /\ c.sort \in Sorts
    BY <1>0 DEF Table, Constant
  <2> QED BY <1>0, <1>1, <2>1, <2>2, <2>3 DEF Linked, Here
<1> QED BY <1>0, <1>1, <1>2, <1>3, <1>6, <1>7 DEF SortsInv

\* The parser ends and the next tool starts to load its table.
LEMMA RestartStep ==
  ASSUME SortsInv, Restart
  PROVE  SortsInv'
<1>0. Here \in Table /\ TypeOK /\ Sound(Here) /\ Linked(Here)
  BY DEF SortsInv, TypeOK
<1>1. /\ saved' = Here /\ toLoad' = declared /\ declared' = declared /\ loading' = TRUE
      /\ restarts' = restarts + 1 /\ restarts < MaxRestarts
      /\ members' = Nothing /\ supersorts' = Nothing /\ subsorts' = Nothing
      /\ domainType' = [s \in Sorts |-> "NO_DOMAIN"] /\ constants' = {}
  BY DEF Restart, EmptyTable
<1>2. declared \subseteq Sorts
  BY <1>0 DEF Here, Table
<1>3. restarts' \in 0..MaxRestarts
  BY <1>0, <1>1, SortsAssumption DEF TypeOK
<1>4. Here' \in Table
  BY <1>1, <1>2 DEF Here, Table, Nothing, DomainType
<1>5. TypeOK'
  BY <1>0, <1>1, <1>2, <1>3, <1>4 DEF TypeOK
<1>6. Sound(Here)' /\ Linked(Here)'
  <2>1. TypeOfSet({}) = "NO_DOMAIN"
    BY DEF TypeOfSet
  <2>2. Fits(Here)'
    BY <1>1, <2>1 DEF Fits, Here, Nothing
  <2>3. Climbs(Here)' /\ Agrees(Here)' /\ Contained(Here)' /\ Linked(Here)'
    BY <1>1 DEF Climbs, Agrees, Contained, Linked, Here, Nothing
  <2> QED BY <2>2, <2>3 DEF Sound
<1>7. Sound(saved)' /\ Linked(saved)'
  BY <1>0, <1>1 DEF Sound, Climbs, Agrees, Fits, Contained, Linked
<1>8. LoadProgress'
  <2>1. \A s \in Sorts \ declared : members[s] = {} /\ subsorts[s] = {}
    BY <1>0 DEF Sound, Contained, Here
  <2>2. /\ saved'.declared = declared /\ saved'.members = members
        /\ saved'.subsorts = subsorts /\ saved'.supersorts = supersorts
    BY <1>1 DEF Here
  <2>3. \A s \in Sorts : members'[s] = {} /\ supersorts'[s] = {}
    BY <1>1 DEF Nothing
  <2> HIDE DEF Here
  <2> QED BY <1>1, <2>1, <2>2, <2>3 DEF LoadProgress
<1> QED BY <1>1, <1>5, <1>6, <1>7, <1>8 DEF SortsInv

LEMMA StepSorts == SortsInv /\ [Next]_vars => SortsInv'
<1> SUFFICES ASSUME SortsInv, [Next]_vars  PROVE SortsInv'
  OBVIOUS
<1>0. Here \in Table /\ TypeOK /\ declared \subseteq Sorts /\ constants \subseteq Constant
  BY DEF SortsInv, TypeOK, Here, Table
<1>1. ASSUME NEW s \in Sorts, DeclareSort(s)
      PROVE  SortsInv'
  <2>1. Parsing /\ declared' = declared \cup {s} /\ UNCHANGED <<sortVars, constants>>
    BY <1>1 DEF DeclareSort
  <2>2. Sound(Here)'
    BY <2>1 DEF SortsInv, Sound, Climbs, Agrees, Fits, Contained, Here, sortVars
  <2>3. Linked(Here)'
    BY <2>1 DEF SortsInv, Linked, Here, sortVars
  <2> QED BY <1>0, <2>1, <2>2, <2>3, ParserStep DEF Here, Table, sortVars
<1>2. ASSUME NEW s \in Sorts, NEW o \in Objects, AddObject(s, o)
      PROVE  SortsInv'
  <2>1. {} \in SUBSET declared /\ {o} \in SUBSET Objects
    OBVIOUS
  <2> QED BY <1>2, <2>1, GrowStep DEF AddObject
<1>3. ASSUME NEW high \in Sorts, NEW low \in Sorts, AddSubSort(high, low)
      PROVE  SortsInv'
  <2>1. {low} \in SUBSET declared /\ {} \in SUBSET Objects /\ high \in declared
    BY <1>3 DEF AddSubSort
  <2> QED BY <1>3, <2>1, GrowStep DEF AddSubSort
<1>4. ASSUME NEW s \in Sorts, NEW o \in Objects, SortExpression(s, o)
      PROVE  SortsInv'
  <2>1. Parsing /\ Plus(s, o) /\ constants' = constants
    BY <1>4 DEF SortExpression
  <2>2. Linked(Here)'
    BY <2>1, PlusSound, LinkedKept
  <2> QED BY <1>0, <2>1, <2>2, PlusSound, ParserStep
<1>5. ASSUME NEW s \in Sorts, DeclareExternal(s)
      PROVE  SortsInv'
  <2>1. Parsing /\ Plus(s, Unknown) /\ Declare("external", s, PlusSort(s, Unknown))
    BY <1>5 DEF DeclareExternal
  <2>2. Unknown \in Objects
    BY SortsAssumption
  <2>3. constants' \subseteq Constant /\ Linked(Here)'
    BY <2>1, <2>2, PlusSound, DeclareLinked
  <2> QED BY <2>1, <2>2, <2>3, PlusSound, ParserStep
<1>6. ASSUME NEW s \in Sorts, DeclareAbAction(s)
      PROVE  SortsInv'
  <2>1. CASE domainType[s] = "BOOLEAN"
    <3>1. Parsing /\ UNCHANGED <<declared, sortVars>> /\ Declare("abAction", s, s)
      BY <1>6, <2>1 DEF DeclareAbAction
    <3>2. Sound(Here)'
      BY <3>1 DEF SortsInv, Sound, Climbs, Agrees, Fits, Contained, Here, sortVars
    <3>3. constants' \subseteq Constant /\ Linked(Here)'
      BY <3>1, DeclareLinked DEF sortVars
    <3> QED BY <1>0, <3>1, <3>2, <3>3, ParserStep DEF Here, Table, sortVars
  <2>2. CASE domainType[s] # "BOOLEAN"
    <3>1. Parsing /\ Plus(s, None) /\ Declare("abAction", s, PlusSort(s, None))
      BY <1>6, <2>2 DEF DeclareAbAction
    <3>2. None \in Objects
      BY SortsAssumption
    <3>3. constants' \subseteq Constant /\ Linked(Here)'
      BY <3>1, <3>2, PlusSound, DeclareLinked
    <3> QED BY <3>1, <3>2, <3>3, PlusSound, ParserStep
  <2> QED BY <2>1, <2>2
<1>7. CASE UNCHANGED vars
  <2>1. /\ UNCHANGED <<declared, members, supersorts, subsorts, domainType, constants>>
        /\ UNCHANGED <<saved, toLoad, loading, restarts>>
    BY <1>7 DEF vars, sortVars
  <2> QED BY <2>1 DEF SortsInv, TypeOK, Sound, Climbs, Agrees, Fits, Contained, Linked,
                      LoadProgress, Here
<1> QED BY <1>1, <1>2, <1>3, <1>4, <1>5, <1>6, <1>7, LoadStep, FinishStep, RestartStep
        DEF Next

LEMMA SortsInvariant == Spec => []SortsInv
  BY InitSorts, StepSorts, PTL DEF Spec

-----------------------------------------------------------------------------
(* Theorems *)

\* Every variable has its type.
THEOREM SortsTypeSafety == Spec => []TypeOK
<1>1. SortsInv => TypeOK
  BY DEF SortsInv
<1> QED BY <1>1, SortsInvariant, PTL

\* Whatever the order of the declarations, every object of a sort belongs to
\* its super-sorts: add() and addSuperSort() leave no object behind.
THEOREM ObjectsClimb == Spec => []MembersClimb
<1>1. SortsInv => MembersClimb
  BY DEF SortsInv, Sound, Climbs, MembersClimb, TypeOK, Here, Table
<1> QED BY <1>1, SortsInvariant, PTL

\* The super-sorts and the sub-sorts are one relation, read both ways.
THEOREM LinksAreMutual == Spec => []LinksAgree
<1>1. SortsInv => LinksAgree
  BY DEF SortsInv, Sound, Agrees, LinksAgree, Here
<1> QED BY <1>1, SortsInvariant, PTL

\* The domain type kept in a sort is the one its objects have.
THEOREM DomainTypesAreRight == Spec => []DomainTypeFits
<1>1. SortsInv => DomainTypeFits
  BY DEF SortsInv, Sound, Fits, DomainTypeFits, Here
<1> QED BY <1>1, SortsInvariant, PTL

\* A constant takes every value of the sort it was declared over, also those
\* declared after it and after a restart; an external one can be unknown.
THEOREM ConstantsKeepTheirValues == Spec => []ConstantsCovered
<1>1. SortsInv => ConstantsCovered
  BY DEF SortsInv, Sound, Climbs, Linked, ConstantsCovered, TypeOK, Here, Table, Constant
<1> QED BY <1>1, SortsInvariant, PTL

\* Loading gives back the table that was saved.
THEOREM LoadingRestores == Spec => []LoadedIsSaved
<1>1. SortsInv => LoadedIsSaved
  BY LoadedTable DEF LoadedIsSaved
<1> QED BY <1>1, SortsInvariant, PTL
=============================================================================
