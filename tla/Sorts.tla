-------------------------------- MODULE Sorts --------------------------------
(***************************************************************************)
(* The sorts of a BC+ or C+ program: SortSymbol, and the operations of the  *)
(* parser and of SymbolTable that change sorts.  A sort keeps its objects,   *)
(* its super-sorts, its sub-sorts and a domain type that sums its objects up. *)
(* The lists are grown one declaration at a time, in any order the program  *)
(* is written in, and an object or a link that comes late has to travel     *)
(* through links made before it.  The table is saved when the parser ends    *)
(* (--symtab-out) and the next tool starts from it (--symtab-in).            *)
(*                                                                         *)
(* A number range is an object here, of type INTEGRAL: the two add()s of    *)
(* SortSymbol are the same code on two lists.                               *)
(***************************************************************************)
EXTENDS Naturals, FiniteSets

CONSTANTS Sorts,        \* the names a sort can have
          Objects,      \* objects and number ranges
          Kind,         \* Kind[o]: ObjectSymbol::domainType()
          Boolean,      \* the built-in sort
          Truths,       \* its objects, true and false
          None, Unknown, \* the built-in objects of s* and of s^
          PlusName,     \* PlusName[<<s, o>>]: the sort called s__o
          MaxRestarts,  \* bound: times the table is saved and loaded again
          MaxConstants  \* bound: constants declared

KindType == {"INTEGRAL", "BOOLEAN", "OTHER"}
DomainType == KindType \cup {"NO_DOMAIN"}

ASSUME SortsAssumption ==
  /\ Boolean \in Sorts
  /\ Kind \in [Objects -> KindType]
  /\ Truths \subseteq Objects
  /\ Truths # {} /\ \A o \in Truths : Kind[o] = "BOOLEAN"
  /\ None \in Objects /\ Unknown \in Objects
  /\ DOMAIN PlusName \subseteq Sorts \X Objects
  /\ \A p \in DOMAIN PlusName : PlusName[p] \in Sorts \ {p[1]}
  /\ MaxRestarts \in Nat /\ MaxConstants \in Nat

VARIABLES declared,    \* the sorts in the table
          members,     \* members[s]: _objects and _ranges
          supersorts,  \* supersorts[s]: _supersorts
          subsorts,    \* subsorts[s]: _subsorts
          domainType,  \* domainType[s]: _dt
          constants,   \* the constants declared over a sort
          saved,       \* the saved table, while it is being loaded
          toLoad,      \* sorts whose definition is still to be read from it
          loading,     \* the table is being loaded
          restarts     \* tools that started from a saved table

sortVars == <<members, supersorts, subsorts, domainType>>
vars == <<declared, sortVars, constants, saved, toLoad, loading, restarts>>

\* A constant declared over a sort: its kind, the sort the program names
\* and the sort the symbol is given.
Constant == [kind : {"external", "abAction"}, over : Sorts, sort : Sorts]

Table == [declared : SUBSET Sorts, members : [Sorts -> SUBSET Objects],
          supersorts : [Sorts -> SUBSET Sorts], subsorts : [Sorts -> SUBSET Sorts],
          domainType : [Sorts -> DomainType], constants : SUBSET Constant]

Here == [declared |-> declared, members |-> members, supersorts |-> supersorts,
         subsorts |-> subsorts, domainType |-> domainType, constants |-> constants]

Nothing == [s \in Sorts |-> {}]

\* Mutant: _dt starts as UNKNOWN, another value of the enumeration.
UnknownTable == [declared |-> {}, members |-> Nothing, supersorts |-> Nothing,
                 subsorts |-> Nothing, domainType |-> [s \in Sorts |-> "UNKNOWN"],
                 constants |-> {}]

EmptyTable == [declared |-> {}, members |-> Nothing, supersorts |-> Nothing,
               subsorts |-> Nothing, domainType |-> [s \in Sorts |-> "NO_DOMAIN"],
               constants |-> {}]

-----------------------------------------------------------------------------
(* Growing a sort *)

\* Sorts that pass o on to all their super-sorts that do not have it yet.
PassesOn(T, sup, o) ==
  \A t \in T : \A u \in sup[t] : o \notin members[u] => u \in T

\* The sorts that receive o when it is added to s: add() stops at a sort that
\* has the object and goes on to the super-sorts of one that has not.
Reached(sup, s, o) ==
  {t \in Sorts : /\ o \notin members[s]
                 /\ \A T \in SUBSET Sorts : s \in T /\ PassesOn(T, sup, o) => t \in T}

\* Mutant: the last object decides.
RetypedByLast(dt, kinds) == IF kinds = {} THEN dt ELSE CHOOSE k \in kinds : TRUE

\* The domain type of a sort of type dt that receives objects of these kinds.
Retyped(dt, kinds) ==
  IF kinds = {} THEN dt
  ELSE LET first == IF dt = "NO_DOMAIN" THEN CHOOSE k \in kinds : TRUE ELSE dt
       IN  IF kinds \subseteq {first} THEN first ELSE "OTHER"

\* Among lows, the sorts that are no sub-sorts of high yet, and among these
\* the ones that do not know high as a super-sort.
NewSubs(high, lows) == lows \ subsorts[high]
NewUnder(high, lows) == {l \in NewSubs(high, lows) : high \notin supersorts[l]}

\* Mutant: addSuperSort() does not pass on the objects it finds.
OfferedOwn(high, lows, own) == own

\* What high is offered: objects of its own and those of its new sub-sorts.
Offered(high, lows, own) == own \cup UNION {members[l] : l \in NewUnder(high, lows)}

\* Mutant: addSubSort() does not tell the sub-sort.
SupersBefore(high, lows) == supersorts

SupersAfter(high, lows) ==
  [s \in Sorts |-> IF s \in NewUnder(high, lows) THEN supersorts[s] \cup {high}
                   ELSE supersorts[s]]

Gains(high, lows, own, t) ==
  {o \in Offered(high, lows, own) : t \in Reached(SupersAfter(high, lows), high, o)}

\* The objects of own are added to high and the sorts of lows become its
\* sub-sorts.  addSubSort() and addSuperSort() call one another until both
\* lists hold the link; the objects of the lower sort then climb.
Grow(high, lows, own) ==
  /\ subsorts' = [subsorts EXCEPT ![high] = @ \cup lows]
  /\ supersorts' = SupersAfter(high, lows)
  /\ members' = [t \in Sorts |-> members[t] \cup Gains(high, lows, own, t)]
  /\ domainType' = [t \in Sorts |->
        Retyped(domainType[t],
                {Kind[o] : o \in Gains(high, lows, own, t) \ members[t]})]

-----------------------------------------------------------------------------
(* What the parser does with sorts *)

Init ==
  /\ declared = {Boolean}
  /\ members = [Nothing EXCEPT ![Boolean] = Truths]
  /\ supersorts = Nothing /\ subsorts = Nothing
  /\ domainType = [s \in Sorts |-> IF s = Boolean THEN "BOOLEAN" ELSE "NO_DOMAIN"]
  /\ constants = {}
  /\ saved = EmptyTable
  /\ toLoad = {} /\ loading = FALSE /\ restarts = 0

Parsing == ~loading /\ UNCHANGED <<saved, toLoad, loading, restarts>>

\* A sort is named in a :- sorts declaration.
DeclareSort(s) ==
  /\ Parsing
  /\ s \notin declared
  /\ declared' = declared \cup {s}
  /\ UNCHANGED <<sortVars, constants>>

\* An object is declared in a sort.  true and false are keywords, not names.
AddObject(s, o) ==
  /\ Parsing
  /\ s \in declared /\ o \notin Truths
  /\ Grow(s, {}, {o})
  /\ UNCHANGED <<declared, constants>>

\* low << high, or high >> low.
AddSubSort(high, low) ==
  /\ Parsing
  /\ {high, low} \subseteq declared
  /\ Grow(high, {low}, {})
  /\ UNCHANGED <<declared, constants>>

\* The sort for the values of s and the object o: s itself when it has o.
PlusSort(s, o) == IF o \in members[s] THEN s ELSE PlusName[<<s, o>>]

\* Mutant: without ret->addSubSort(parent).
PlusAlone(s, o) ==
  /\ s \in declared
  /\ o \notin members[s] => <<s, o>> \in DOMAIN PlusName
  /\ IF o \in members[s]
     THEN UNCHANGED <<declared, sortVars>>
     ELSE /\ declared' = declared \cup {PlusSort(s, o)}
          /\ Grow(PlusSort(s, o), {}, {o})

\* SymbolTable::plus creates that sort, or finds one of that name.
Plus(s, o) ==
  /\ s \in declared
  /\ o \notin members[s] => <<s, o>> \in DOMAIN PlusName
  /\ IF o \in members[s]
     THEN UNCHANGED <<declared, sortVars>>
     ELSE /\ declared' = declared \cup {PlusSort(s, o)}
          /\ Grow(PlusSort(s, o), {s}, {o})

\* A sort expression: s*, s^ or s + o.
SortExpression(s, o) ==
  /\ Parsing
  /\ o \notin Truths
  /\ Plus(s, o)
  /\ UNCHANGED constants

Declare(kind, s, sort) ==
  /\ Cardinality(constants) < MaxConstants
  /\ constants' = constants \cup {[kind |-> kind, over |-> s, sort |-> sort]}

\* An external constant may be unknown.
DeclareExternal(s) ==
  /\ Parsing
  /\ Plus(s, Unknown)
  /\ Declare("external", s, PlusSort(s, Unknown))

\* An abAction may be none, unless its sort is Boolean when it is declared.
DeclareAbAction(s) ==
  /\ Parsing
  /\ IF domainType[s] = "BOOLEAN"
     THEN /\ s \in declared
          /\ UNCHANGED <<declared, sortVars>>
          /\ Declare("abAction", s, s)
     ELSE /\ Plus(s, None)
          /\ Declare("abAction", s, PlusSort(s, None))

-----------------------------------------------------------------------------
(* Saving the table and loading it *)

\* The parser ends and writes its table; the next tool reads it.  The first
\* pass over the file makes every sort, empty.
Restart ==
  /\ ~loading
  /\ restarts < MaxRestarts
  /\ restarts' = restarts + 1
  /\ saved' = Here
  /\ loading' = TRUE
  /\ toLoad' = declared
  /\ members' = EmptyTable.members /\ domainType' = EmptyTable.domainType
  /\ supersorts' = EmptyTable.supersorts /\ subsorts' = EmptyTable.subsorts
  /\ constants' = {}
  /\ UNCHANGED declared

\* Mutant: the sub-sorts of the file are skipped.
LoadMembers(s) ==
  /\ loading
  /\ s \in toLoad
  /\ toLoad' = toLoad \ {s}
  /\ Grow(s, {}, saved.members[s])
  /\ UNCHANGED <<declared, constants, saved, loading, restarts>>

\* The second pass reads the definition of s: its objects and its sub-sorts.
\* Its super-sorts are not in the file.
LoadDefinition(s) ==
  /\ loading
  /\ s \in toLoad
  /\ toLoad' = toLoad \ {s}
  /\ Grow(s, saved.subsorts[s], saved.members[s])
  /\ UNCHANGED <<declared, constants, saved, loading, restarts>>

\* The constants are read, and the constructor fills the built-in sort.
FinishLoad ==
  /\ loading
  /\ toLoad = {}
  /\ loading' = FALSE
  /\ constants' = saved.constants
  /\ Grow(Boolean, {}, Truths)
  /\ saved' = EmptyTable
  /\ UNCHANGED <<declared, toLoad, restarts>>

Next ==
  \/ \E s \in Sorts : \/ DeclareSort(s)
                      \/ DeclareExternal(s)
                      \/ DeclareAbAction(s)
                      \/ LoadDefinition(s)
  \/ \E s \in Sorts, o \in Objects : AddObject(s, o) \/ SortExpression(s, o)
  \/ \E high, low \in Sorts : AddSubSort(high, low)
  \/ Restart
  \/ FinishLoad

Spec == Init /\ [][Next]_vars

-----------------------------------------------------------------------------
(* Properties *)

\* Every variable has its type.
TypeOK ==
  /\ Here \in Table /\ saved \in Table
  /\ toLoad \subseteq Sorts /\ loading \in BOOLEAN /\ restarts \in 0..MaxRestarts

\* Every object of a sort belongs to all super-sorts of the sort, whichever of
\* the object and the links was declared first, through cycles too.
MembersClimb ==
  \A s \in Sorts : \A t \in supersorts[s] : members[s] \subseteq members[t]

\* Two sorts agree on being above and below one another.
LinksAgree ==
  \A s, t \in Sorts : t \in supersorts[s] <=> s \in subsorts[t]

\* The domain type of a set of objects.
TypeOfSet(S) ==
  IF S = {} THEN "NO_DOMAIN"
  ELSE LET k == CHOOSE k \in {Kind[o] : o \in S} : TRUE
       IN  IF \A o \in S : Kind[o] = k THEN k ELSE "OTHER"

\* The domain type kept with a sort, updated as objects arrive one by one and
\* from below, is the one its objects have.
DomainTypeFits == \A s \in Sorts : domainType[s] = TypeOfSet(members[s])

\* A constant can take every value of the sort it was declared over, the values
\* that sort receives later included, and an external constant can be unknown.
ConstantsCovered ==
  \A c \in constants : /\ members[c.over] \subseteq members[c.sort]
                       /\ c.kind = "external" => Unknown \in members[c.sort]

\* A table whose definitions have all been read is the one that was saved, in
\* whichever order they came and though super-sorts are not in the file.
LoadedIsSaved ==
  loading /\ toLoad = {} =>
    /\ members = saved.members
    /\ supersorts = saved.supersorts
    /\ subsorts = saved.subsorts
    /\ domainType = saved.domainType
=============================================================================
