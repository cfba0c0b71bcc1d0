----------------------------- MODULE Laws_proofs -----------------------------
(***************************************************************************)
(* Proofs about the translator of laws, for every set of constants, every   *)
(* program and every horizon: which rules the two outputs hold, that each   *)
(* stands in a part where its step variable has a value, that both outputs  *)
(* ground to the same program, and that this is the one the laws define.    *)
(*                                                                         *)
(* The argument: the static output is the incremental one without parts and *)
(* without the query rules for maxstep = 0; the rules of laws and of        *)
(* declarations in it are exactly those of the statements accepted; and a    *)
(* rule for every state comes with its copy for the initial state, which is  *)
(* what makes a variable that starts at 0 and one that starts at 1 agree, or  *)
(* is that of a law whose exception alone looks back.                        *)
(***************************************************************************)
EXTENDS Laws, TLAPS

(* Rules and their time stamps. *)

\* What rules do: those of no part, those of declarations, and the others.
Partless == {"observed", "temporalConstraint"}
Declared == {"oneValue", "mayBeNone", "external", "mayBeUnknown", "noneWithParent",
             "mayBe", "contribute", "sum", "inDomain"}
Doings == Partless \cup Declared
            \cup {"law", "contributor", "contribution", "query", "queryAtZero", "exclude"}

Times == {"zero", "one", "static", "dynamic", "action", "maxstep"}
Steady == {"zero", "one"}
Timed == [of : SUBSET Symbols, neg : BOOLEAN, ts : Times]
RuleType == [part : Parts, does : Doings, head : Timed, body : SUBSET Timed]

\* The time stamps that have a value in a part; without a part, in every one.
Allowed(p) ==
  CASE p \in {"none", "base"} -> Steady
    [] p = "cumulative" -> Times \ {"maxstep"}
    [] p = "volatile" -> Steady \cup {"maxstep"}
Sound(r) == r \in RuleType /\ Stamps(r) \subseteq Allowed(r.part)

Unparted(r) == [r EXCEPT !.part = "none"]
Doing(rs, what) == {r \in rs : r.does = what}
Printed(rs) == {Unparted(r) : r \in {r \in rs : r.does # "queryAtZero"}}

LEMMA RuleFields ==
  ASSUME NEW p, NEW d, NEW h, NEW b
  PROVE  /\ Rule(p, d, h, b).part = p /\ Rule(p, d, h, b).does = d
         /\ Rule(p, d, h, b).head = h /\ Rule(p, d, h, b).body = b
         /\ Stamps(Rule(p, d, h, b)) = {j.ts : j \in b} \cup {h.ts}
  BY DEF Rule, Stamps

LEMMA AtType ==
  ASSUME NEW f \in Formulas, NEW ts \in Times
  PROVE  At(f, ts) \in SUBSET Timed /\ \A j \in At(f, ts) : j.ts = ts
  BY DEF At, Formulas, Timed

LEMMA HeadType ==
  ASSUME NEW cs \in SUBSET Symbols, NEW ts \in Times
  PROVE  HeadAt(cs, ts) \in Timed /\ HeadAt(cs, ts).ts = ts /\ HeadAt(cs, ts).of = cs
  BY DEF HeadAt, Timed

LEMMA SoundRule ==
  ASSUME NEW p \in Parts, NEW d \in Doings, NEW h \in Timed, NEW b \in SUBSET Timed,
         h.ts \in Allowed(p), \A j \in b : j.ts \in Allowed(p)
  PROVE  Sound(Rule(p, d, h, b))
<1>1. Rule(p, d, h, b) \in RuleType
  BY DEF Rule, RuleType
<1>2. Stamps(Rule(p, d, h, b)) \subseteq Allowed(p)
  BY RuleFields
<1> QED BY <1>1, <1>2, RuleFields DEF Sound

LEMMA AllowedIs ==
  /\ Allowed("none") = Steady /\ Allowed("base") = Steady
  /\ Allowed("cumulative") = {"zero", "one", "static", "dynamic", "action"}
  /\ Allowed("volatile") = {"zero", "one", "maxstep"}
  /\ \A p \in Parts : Steady \subseteq Allowed(p) /\ Allowed(p) \subseteq Times
<1>1. Allowed("none") = Steady /\ Allowed("base") = Steady
  BY DEF Allowed
<1>2. Allowed("cumulative") = {"zero", "one", "static", "dynamic", "action"}
  BY DEF Allowed, Times
<1>3. Allowed("volatile") = {"zero", "one", "maxstep"}
  BY DEF Allowed, Steady
<1> QED BY <1>1, <1>2, <1>3 DEF Parts, Steady, Times

\* A rule in another part.
LEMMA Repart ==
  ASSUME NEW r \in RuleType, NEW x \in Parts
  PROVE  LET q == [r EXCEPT !.part = x]
         IN /\ q \in RuleType /\ q.part = x /\ q.does = r.does
            /\ q.head = r.head /\ q.body = r.body /\ Stamps(q) = Stamps(r)
            /\ Unparted(q) = Unparted(r)
            /\ x = r.part => q = r
<1> DEFINE q == [r EXCEPT !.part = x]
<1>1. q \in RuleType /\ q.part = x /\ q.does = r.does /\ q.head = r.head /\ q.body = r.body
  BY DEF RuleType
<1>2. Stamps(q) = Stamps(r)
  BY <1>1 DEF Stamps
<1>3. Unparted(q) = Unparted(r)
  BY DEF Unparted, RuleType
<1>4. x = r.part => q = r
  BY DEF RuleType
<1> QED BY <1>1, <1>2, <1>3, <1>4
-----------------------------------------------------------------------------
(* The two outputs. *)

OutInv ==
  /\ ipart \in [Modes -> Parts]
  /\ ipart["static"] = "none" /\ ipart["incremental"] # "none"
  /\ \A r \in out["incremental"] : Sound(r) /\ r.part # "none"
  /\ out["static"] = Printed(out["incremental"])

\* A rule for every state speaks of nothing else and has its initial copy, unless
\* it is that of a law, which may look back at an action.
AtZero(j) == [of |-> j.of, neg |-> j.neg, ts |-> "zero"]
ZeroOf(r) == Rule("base", r.does, AtZero(r.head), {AtZero(j) : j \in r.body})
Mixed(r) == r.does = "law" /\ {"static", "action"} \subseteq Stamps(r)
Paired(rs) ==
  \A r \in rs : "static" \in Stamps(r) =>
                Mixed(r) \/ (Stamps(r) = {"static"} /\ ZeroOf(r) \in rs)

\* The rules added to the two outputs are those of the incremental one, each in
\* its part or, with none, in the current one.
LEMMA EmitRules ==
  ASSUME OutInv, NEW pre, NEW main, NEW last \in Parts, NEW A,
         Emit(pre, main, last),
         pre \cup main["incremental"] = A,
         pre \cup main["static"] = {r \in A : r.does # "queryAtZero"},
         \A r \in A : Sound(r) /\ (r.part = "none" => r.does \in Partless)
  PROVE  /\ OutInv'
         /\ out'["incremental"] = out["incremental"] \cup Placed("incremental", ipart["incremental"], A)
         /\ \A what \in Doings \ Partless :
              Doing(out'["incremental"], what) = Doing(out["incremental"], what) \cup Doing(A, what)
         /\ Paired(out["incremental"]) /\ Paired(A) => Paired(out'["incremental"])
<1> DEFINE now == ipart["incremental"]
           put(r) == [r EXCEPT !.part = Asserted("incremental", now, @)]
           B == Placed("incremental", now, A)
<1>1. now \in Parts /\ now # "none" /\ "static" \in Modes /\ "incremental" \in Modes
  BY DEF OutInv, Modes
<1>2. B = {put(r) : r \in A}
  BY DEF Placed
<1>3. \A r \in A : /\ r \in RuleType /\ put(r) \in RuleType
                   /\ put(r).does = r.does /\ Stamps(put(r)) = Stamps(r)
                   /\ Unparted(put(r)) = Unparted(r)
                   /\ put(r).part = (IF r.part = "none" THEN now ELSE r.part)
                   /\ r.part # "none" => put(r) = r
  <2> SUFFICES ASSUME NEW r \in A
               PROVE  /\ r \in RuleType /\ put(r) \in RuleType
                      /\ put(r).does = r.does /\ Stamps(put(r)) = Stamps(r)
                      /\ Unparted(put(r)) = Unparted(r)
                      /\ put(r).part = (IF r.part = "none" THEN now ELSE r.part)
                      /\ r.part # "none" => put(r) = r
    OBVIOUS
  <2> DEFINE x == IF r.part = "none" THEN now ELSE r.part
  <2>1. r \in RuleType /\ x \in Parts
    BY <1>1 DEF Sound, RuleType
  <2>2. put(r) = [r EXCEPT !.part = x]
    BY <1>1 DEF Asserted
  <2>3. r.part # "none" => x = r.part
    OBVIOUS
  <2> HIDE DEF put, x
  <2>4. /\ put(r) \in RuleType /\ put(r).part = x /\ put(r).does = r.does
        /\ Stamps(put(r)) = Stamps(r) /\ Unparted(put(r)) = Unparted(r)
        /\ x = r.part => put(r) = r
    BY <2>1, <2>2, Repart
  <2> QED BY <2>1, <2>3, <2>4 DEF x
<1> HIDE DEF put, B
<1>4. \A r \in A : Sound(put(r)) /\ put(r).part # "none"
  <2> SUFFICES ASSUME NEW r \in A PROVE Sound(put(r)) /\ put(r).part # "none"
    OBVIOUS
  <2>1. Stamps(r) \subseteq Allowed(r.part)
    BY DEF Sound
  <2>2. CASE r.part = "none"
    <3>1. put(r).part = now /\ Stamps(put(r)) \subseteq Steady
      BY <1>3, <2>1, <2>2, AllowedIs
    <3>2. Steady \subseteq Allowed(now)
      BY <1>1, AllowedIs
    <3> QED BY <1>1, <1>3, <3>1, <3>2 DEF Sound
  <2>3. CASE r.part # "none"
    BY <1>3, <2>3
  <2> QED BY <2>2, <2>3
<1>5. out'["incremental"] = out["incremental"] \cup B
  BY <1>1 DEF Emit, B
<1>6. out'["static"] = out["static"] \cup {Unparted(r) : r \in {r \in A : r.does # "queryAtZero"}}
  <2>1. out'["static"] = out["static"] \cup Placed("static", ipart["static"], pre \cup main["static"])
    BY <1>1, Zenon DEF Emit
  <2>2. \A rs : Placed("static", ipart["static"], rs) = {Unparted(r) : r \in rs}
    BY DEF OutInv, Placed, Unparted, Asserted
  <2> QED BY <2>1, <2>2, Zenon
<1>7. Printed(B) = {Unparted(r) : r \in {r \in A : r.does # "queryAtZero"}}
  <2> DEFINE U == {Unparted(r) : r \in {r \in A : r.does # "queryAtZero"}}
  <2>1. ASSUME NEW x \in Printed(B) PROVE x \in U
    <3>1. PICK q \in B : q.does # "queryAtZero" /\ x = Unparted(q)
      BY <2>1, Zenon DEF Printed
    <3>2. PICK r \in A : q = put(r)
      BY <1>2, Zenon
    <3>3. r.does # "queryAtZero" /\ x = Unparted(r)
      BY <1>3, <3>1, <3>2, Zenon
    <3> QED BY <3>3, Zenon
  <2>2. ASSUME NEW x \in U PROVE x \in Printed(B)
    <3>1. PICK r \in A : r.does # "queryAtZero" /\ x = Unparted(r)
      BY <2>2, Zenon
    <3>2. put(r) \in B
      BY <1>2
    <3>3. put(r).does # "queryAtZero" /\ x = Unparted(put(r))
      BY <1>3, <3>1
    <3> QED BY <3>2, <3>3, Zenon DEF Printed
  <2> HIDE DEF U
  <2>3. Printed(B) \subseteq U /\ U \subseteq Printed(B)
    BY <2>1, <2>2, Zenon
  <2>4. Printed(B) = U
    BY <2>3, Zenon
  <2> QED BY <2>4 DEF U
<1>8. out'["static"] = Printed(out'["incremental"])
  <2>1. Printed(out["incremental"] \cup B) = Printed(out["incremental"]) \cup Printed(B)
    BY Zenon DEF Printed
  <2> QED BY <1>5, <1>6, <1>7, <2>1, Zenon DEF OutInv
<1>9. \A r \in out'["incremental"] : Sound(r) /\ r.part # "none"
  BY <1>2, <1>4, <1>5, Zenon DEF OutInv
<1>10. ipart' \in [Modes -> Parts] /\ ipart'["static"] = "none" /\ ipart'["incremental"] # "none"
  <2>1. /\ ipart' = [m \in Modes |-> Asserted(m, ipart[m], last)]
        /\ \A m \in Modes : ipart[m] \in Parts
    BY DEF Emit, OutInv
  <2>2. \A m \in Modes : Asserted(m, ipart[m], last) \in Parts
    BY <2>1 DEF Asserted
  <2> QED BY <1>1, <2>1, <2>2 DEF Asserted, OutInv
<1>11. OutInv'
  BY <1>8, <1>9, <1>10 DEF OutInv, Sound, Stamps, Printed, Unparted
<1>12. ASSUME NEW what \in Doings \ Partless
       PROVE  Doing(out'["incremental"], what) = Doing(out["incremental"], what) \cup Doing(A, what)
  <2>1. Doing(B, what) = Doing(A, what)
    <3>1. \A r \in A : r.does = what => put(r) = r
      BY <1>3, <1>12
    <3>2. ASSUME NEW x \in Doing(B, what) PROVE x \in Doing(A, what)
      BY <1>2, <1>3, <3>1, <3>2 DEF Doing
    <3>3. ASSUME NEW x \in Doing(A, what) PROVE x \in Doing(B, what)
      BY <1>2, <3>1, <3>3 DEF Doing
    <3> QED BY <3>2, <3>3 DEF Doing
  <2> QED BY <1>5, <2>1, Zenon DEF Doing
<1>13. ASSUME Paired(out["incremental"]), Paired(A)
       PROVE  Paired(out'["incremental"])
  <2>1. ASSUME NEW r \in A, "static" \in Stamps(r) PROVE r.part = "cumulative"
    <3>1. "static" \in Allowed(r.part) /\ r.part \in Parts
      BY <2>1 DEF Sound, RuleType
    <3> QED BY <3>1, AllowedIs DEF Parts, Steady
  <2>3. ASSUME NEW r \in A, "static" \in Stamps(r), ~Mixed(r)
        PROVE  Stamps(r) = {"static"} /\ ZeroOf(r) \in B
    <3>3. Stamps(r) = {"static"} /\ ZeroOf(r) \in A /\ ZeroOf(r).part = "base"
      <4>1. Stamps(r) = {"static"} /\ ZeroOf(r) \in A
        BY <1>13, <2>3, Zenon DEF Paired
      <4>2. ZeroOf(r).part = "base"
        BY DEF ZeroOf, Rule
      <4> QED BY <4>1, <4>2
    <3>4. put(ZeroOf(r)) = ZeroOf(r)
      BY <1>3, <3>3
    <3>5. put(ZeroOf(r)) \in B
      BY <1>2, <3>3
    <3> QED BY <3>3, <3>4, <3>5
  <2>2. ASSUME NEW q \in B, "static" \in Stamps(q)
        PROVE  Mixed(q) \/ (Stamps(q) = {"static"} /\ ZeroOf(q) \in B)
    <3>1. PICK r \in A : q = put(r)
      BY <1>2, Zenon
    <3>2. "static" \in Stamps(r)
      BY <1>3, <2>2, <3>1
    <3>3. q = r
      BY <1>3, <2>1, <3>1, <3>2
    <3> QED BY <2>3, <3>1, <3>2, <3>3
  <2> QED BY <1>5, <1>13, <2>2, Zenon DEF Paired
<1> QED BY <1>5, <1>11, <1>12, <1>13 DEF B
-----------------------------------------------------------------------------
(* The rules of declarations. *)

\* Rules as a declaration prints them.
Neat(rs) ==
  /\ \A r \in rs : Sound(r) /\ r.part # "none" /\ r.does \in Declared
  /\ Paired(rs)

Plain(c, p, d, ts) == Rule(p, d, HeadAt({c}, ts), {})

LEMMA DeclaredDoings == ASSUME NEW d \in Declared PROVE d \in Doings /\ d \notin Partless
  BY DEF Declared, Doings, Partless

LEMMA PlainRule ==
  ASSUME NEW c \in Symbols, NEW p \in {"base", "cumulative"}, NEW d \in Declared,
         NEW ts \in Allowed(p)
  PROVE  /\ Sound(Plain(c, p, d, ts)) /\ Plain(c, p, d, ts).part = p
         /\ Plain(c, p, d, ts).does = d /\ Stamps(Plain(c, p, d, ts)) = {ts}
         /\ ZeroOf(Plain(c, p, d, ts)) = Plain(c, "base", d, "zero")
<1>1. p \in Parts /\ d \in Doings /\ {c} \in SUBSET Symbols
  BY DeclaredDoings DEF Parts
<1>. ts \in Times
  BY <1>1, AllowedIs
<1>2. HeadAt({c}, ts) \in Timed /\ HeadAt({c}, ts).ts = ts
  BY <1>1, HeadType
<1>3. Sound(Plain(c, p, d, ts))
  BY <1>1, <1>2, SoundRule DEF Plain
<1>4. /\ Plain(c, p, d, ts).part = p /\ Plain(c, p, d, ts).does = d
      /\ Plain(c, p, d, ts).head = HeadAt({c}, ts) /\ Plain(c, p, d, ts).body = {}
      /\ Stamps(Plain(c, p, d, ts)) = {ts}
  BY <1>2 DEF Plain, Rule, Stamps
<1>5. AtZero(HeadAt({c}, ts)) = HeadAt({c}, "zero")
  BY DEF HeadAt, AtZero
<1>6. ZeroOf(Plain(c, p, d, ts)) = Plain(c, "base", d, "zero")
  <2>1. {AtZero(j) : j \in {}} = {}
    OBVIOUS
  <2> QED BY <1>4, <1>5, <2>1 DEF ZeroOf, Plain
<1> QED BY <1>3, <1>4, <1>6

LEMMA PlainNeat ==
  ASSUME NEW c \in Symbols, NEW p \in {"base", "cumulative"}, NEW d \in Declared
  PROVE  /\ \A ts \in Allowed(p) \ {"static"} : Neat({Plain(c, p, d, ts)})
         /\ Neat({Plain(c, "base", d, "zero"), Plain(c, "cumulative", d, "static")})
<1>1. ASSUME NEW ts \in Allowed(p), ts # "static"
      PROVE  Neat({Plain(c, p, d, ts)})
  BY <1>1, PlainRule DEF Neat, Paired
<1>2. Neat({Plain(c, "base", d, "zero"), Plain(c, "cumulative", d, "static")})
  <2>1. "zero" \in Allowed("base") /\ "static" \in Allowed("cumulative")
    BY AllowedIs DEF Steady
  <2> QED BY <2>1, PlainRule DEF Neat, Paired
<1> QED BY <1>1, <1>2

\* A rule about a step that looks at the step before.
LEMMA MemoryNeat ==
  ASSUME NEW c \in Symbols, NEW d \in Declared, NEW ts \in {"action", "dynamic"},
         NEW b \in {{}, At({Conjunct({c})}, "action")}
  PROVE  /\ Neat({Rule("cumulative", d, HeadAt({c}, ts), b)})
         /\ Rule("cumulative", d, HeadAt({c}, ts), b).does = d
<1>1. {Conjunct({c})} \in Formulas /\ {c} \in SUBSET Symbols /\ ts \in Times /\ "action" \in Times
  BY DEF Conjunct, Formulas, Times
<1>2. b \in SUBSET Timed /\ \A j \in b : j.ts = "action"
  BY <1>1, AtType
<1>3. HeadAt({c}, ts) \in Timed /\ HeadAt({c}, ts).ts = ts
  BY <1>1, HeadType
<1>4. Sound(Rule("cumulative", d, HeadAt({c}, ts), b))
  <2>1. "cumulative" \in Parts /\ d \in Doings /\ {"action", "dynamic"} \subseteq Allowed("cumulative")
    BY AllowedIs, DeclaredDoings DEF Parts
  <2> QED BY <1>2, <1>3, <2>1, SoundRule
<1>5. "static" \notin Stamps(Rule("cumulative", d, HeadAt({c}, ts), b))
  BY <1>2, <1>3, RuleFields
<1> QED BY <1>4, <1>5, RuleFields DEF Neat, Paired

LEMMA NeatUnion ==
  /\ Neat({})
  /\ \A A, B : Neat(A) /\ Neat(B) => Neat(A \cup B)
  /\ \A As : (\A A \in As : Neat(A)) => Neat(UNION As)
<1>1. Neat({})
  BY DEF Neat, Paired
<1>2. ASSUME NEW As, \A A \in As : Neat(A) PROVE Neat(UNION As)
  BY <1>2, Zenon DEF Neat, Paired
<1>3. ASSUME NEW A, NEW B, Neat(A), Neat(B) PROVE Neat(A \cup B)
  BY <1>3, Zenon DEF Neat, Paired
<1> QED BY <1>1, <1>2, <1>3, Zenon

\* The rules that give c one value.
Values(c) ==
  When(Type[c] \notin Actions, {Plain(c, "base", "oneValue", "zero")})
    \cup When(Type[c] # "rigid",
              {Plain(c, "cumulative", "oneValue",
                     IF Type[c] \in Actions THEN "action" ELSE "dynamic")})

LEMMA DefaultsNeat ==
  ASSUME NEW c \in Symbols
  PROVE  Neat(Defaults(c)) /\ Doing(Defaults(c), "oneValue") = {}
<1> DEFINE ts == IF Type[c] \in Actions THEN "action" ELSE "static"
           step == IF Type[c] \in Actions THEN "action" ELSE "dynamic"
           about(p, d, x) == Rule(p, d, HeadAt({c}, x), {})
           Fine(rs) == Neat(rs) /\ \A r \in rs : r.does # "oneValue"
           two == {"external", "mayBeUnknown"}
           D1 == {about("cumulative", "mayBeNone", "action")}
           D2 == {about("cumulative", d, ts) : d \in two}
                   \cup When(Type[c] \in Fluents, {about("base", d, "zero") : d \in two})
           D3 == {about("cumulative", d, "action") : d \in {"noneWithParent", "mayBe"}}
           D4 == {about("cumulative", "mayBe", "action")}
           sum == Rule("cumulative", "sum", HeadAt({c}, step),
                       When(Type[c] \in Fluents, At({Conjunct({c})}, "action")))
           D5 == {about("cumulative", "contribute", "action"), sum}
           D6 == {Rule("cumulative", "mayBe", HeadAt({c}, "dynamic"), At({Conjunct({c})}, "action"))}
<1>0. Defaults(c) = CASE DefaultType(c) = "abAction" -> D1
                      [] DefaultType(c) \in External -> D2
                      [] DefaultType(c) = "attribute" -> D3
                      [] DefaultType(c) = "exogenousAction" -> D4
                      [] DefaultType(c) \in Additive -> D5
                      [] DefaultType(c) = "inertialFluent" -> D6
                      [] OTHER -> {}
  BY Zenon DEF Defaults
<1> \A p, d, x : about(p, d, x) = Plain(c, p, d, x)
  BY DEF Plain
<1>2. \A d \in Declared \ {"oneValue"} :
         /\ Fine({Plain(c, "cumulative", d, "action")})
         /\ Fine({Plain(c, "base", d, "zero"), Plain(c, "cumulative", d, "static")})
  <2> SUFFICES ASSUME NEW d \in Declared \ {"oneValue"}
               PROVE  /\ Fine({Plain(c, "cumulative", d, "action")})
                      /\ Fine({Plain(c, "base", d, "zero"), Plain(c, "cumulative", d, "static")})
    OBVIOUS
  <2>1. "action" \in Allowed("cumulative") \ {"static"} /\ "zero" \in Allowed("base")
        /\ "static" \in Allowed("cumulative")
    BY AllowedIs DEF Steady
  <2>2. /\ Neat({Plain(c, "cumulative", d, "action")})
        /\ Neat({Plain(c, "base", d, "zero"), Plain(c, "cumulative", d, "static")})
    BY <2>1, PlainNeat
  <2>3. /\ Plain(c, "cumulative", d, "action").does = d /\ Plain(c, "base", d, "zero").does = d
        /\ Plain(c, "cumulative", d, "static").does = d
    BY <2>1, PlainRule
  <2> QED BY <2>2, <2>3
<1>3. \A A, B : Fine(A) /\ Fine(B) => Fine(A \cup B)
  BY NeatUnion
<1>4. Fine({})
  BY NeatUnion
<1> HIDE DEF Fine
<1>5. Fine(D1)
  <2>1. D1 = {Plain(c, "cumulative", "mayBeNone", "action")}
    BY Zenon DEF Plain
  <2>2. "mayBeNone" \in Declared \ {"oneValue"}
    BY DEF Declared
  <2> HIDE DEF D1
  <2> QED BY <1>2, <2>1, <2>2
<1>6. ASSUME DefaultType(c) \in External PROVE Fine(D2)
  <2>1. {"external", "mayBeUnknown"} \subseteq Declared \ {"oneValue"}
    BY DEF Declared
  <2>2. {about("cumulative", d, ts) : d \in two} =
          {Plain(c, "cumulative", "external", ts), Plain(c, "cumulative", "mayBeUnknown", ts)}
    BY DEF Plain
  <2>3. {about("base", d, "zero") : d \in two} =
          {Plain(c, "base", "external", "zero"), Plain(c, "base", "mayBeUnknown", "zero")}
    BY DEF Plain
  <2> DEFINE S == {about("cumulative", d, ts) : d \in two}
             Z == {about("base", d, "zero") : d \in two}
  <2> HIDE DEF S, Z
  <2>4. CASE Type[c] \in Actions
    <3>1. Type[c] \notin Fluents
      BY <2>4 DEF Fluents, SimpleFluents, Actions, Regular
    <3>2. D2 = {Plain(c, "cumulative", "external", "action")}
                 \cup {Plain(c, "cumulative", "mayBeUnknown", "action")}
      BY <2>2, <2>4, <3>1 DEF When
    <3> QED BY <1>2, <1>3, <2>1, <3>2
  <2>5. CASE Type[c] \notin Actions
    <3>1. Type[c] \in Fluents
      BY <1>6, <2>5 DEF DefaultType, External, Fluents, Actions
    <3>2. D2 = {Plain(c, "base", "external", "zero"), Plain(c, "cumulative", "external", "static")}
                \cup {Plain(c, "base", "mayBeUnknown", "zero"),
                      Plain(c, "cumulative", "mayBeUnknown", "static")}
      BY <2>2, <2>3, <2>5, <3>1 DEF When
    <3> QED BY <1>2, <1>3, <2>1, <3>2
  <2> QED BY <2>4, <2>5
<1>7. Fine(D3)
  <2>1. D3 = {Plain(c, "cumulative", "noneWithParent", "action")}
               \cup {Plain(c, "cumulative", "mayBe", "action")}
    BY DEF Plain
  <2>2. {"noneWithParent", "mayBe"} \subseteq Declared \ {"oneValue"}
    BY DEF Declared
  <2> HIDE DEF D3
  <2> QED BY <1>2, <1>3, <2>1, <2>2
<1>8. Fine(D4)
  <2>1. D4 = {Plain(c, "cumulative", "mayBe", "action")}
    BY Zenon DEF Plain
  <2>2. "mayBe" \in Declared \ {"oneValue"}
    BY DEF Declared
  <2> HIDE DEF D4
  <2> QED BY <1>2, <2>1, <2>2
<1>9. Fine(D5)
  <2>1. D5 = {Plain(c, "cumulative", "contribute", "action")} \cup {sum}
    BY DEF Plain
  <2>2. {"sum", "contribute"} \subseteq Declared \ {"oneValue"}
    BY DEF Declared
  <2>3. Neat({sum}) /\ sum.does = "sum"
    <3> DEFINE b == When(Type[c] \in Fluents, At({Conjunct({c})}, "action"))
    <3>0. "sum" \in Declared
      BY <2>2
    <3>1. step \in {"action", "dynamic"} /\ b \in {{}, At({Conjunct({c})}, "action")}
      BY DEF When
    <3> HIDE DEF b, step
    <3>2. /\ Neat({Rule("cumulative", "sum", HeadAt({c}, step), b)})
          /\ Rule("cumulative", "sum", HeadAt({c}, step), b).does = "sum"
      BY <3>0, <3>1, MemoryNeat, Zenon
    <3> QED BY <3>2 DEF b
  <2> HIDE DEF D5, sum
  <2>4. Fine({sum})
    BY <2>3 DEF Fine
  <2> QED BY <1>2, <1>3, <2>1, <2>2, <2>4
<1>10. Fine(D6)
  <2> DEFINE r == Rule("cumulative", "mayBe", HeadAt({c}, "dynamic"), At({Conjunct({c})}, "action"))
  <2>1. "mayBe" \in Declared
    BY DEF Declared
  <2>2. Neat({r}) /\ r.does = "mayBe"
    BY <2>1, MemoryNeat
  <2> HIDE DEF r
  <2>3. Fine({r})
    BY <2>2 DEF Fine
  <2> QED BY <2>3 DEF r
<1> HIDE DEF D1, D2, D3, D4, D5, D6
<1>11. Fine(Defaults(c))
  BY <1>0, <1>4, <1>5, <1>6, <1>7, <1>8, <1>9, <1>10
<1> QED BY <1>11 DEF Fine, Doing

LEMMA DeclarationNeat ==
  ASSUME NEW c \in Symbols
  PROVE  Neat(Declaration(c)) /\ Doing(Declaration(c), "oneValue") = Values(c)
<1> DEFINE ats == IF Type[c] \in Actions THEN "action" ELSE "dynamic"
           A == When(Type[c] \notin Actions, {Plain(c, "base", "oneValue", "zero")})
           B == When(Type[c] # "rigid", {Plain(c, "cumulative", "oneValue", ats)})
           C == When(Type[c] \in SimpleFluents, {Plain(c, "base", "mayBe", "zero")})
           D == When(c \in Restricted, Domain(c))
<1>1. Declaration(c) = A \cup B \cup Defaults(c) \cup C \cup D
  BY Zenon DEF Declaration, Plain
<1>2. Values(c) = A \cup B
  BY Zenon DEF Values
<1>3. "zero" \in Allowed("base") \ {"static"} /\ ats \in Allowed("cumulative") \ {"static"}
      /\ "static" \in Allowed("cumulative") /\ "action" \in Allowed("cumulative") \ {"static"}
  BY AllowedIs DEF Steady
<1>4. {"oneValue", "mayBe", "inDomain"} \subseteq Declared
  BY DEF Declared
<1>. \A d \in Declared : Neat({Plain(c, "base", d, "zero")})
  BY <1>3, PlainNeat
<1>5. Neat(A) /\ Neat(B) /\ Neat(C)
  BY <1>3, <1>4, PlainNeat, NeatUnion DEF When
<1>6. Neat(D)
  <2>1. CASE Type[c] \in Actions
    <3>1. Type[c] # "rigid"
      BY <2>1 DEF Actions, Regular
    <3>2. Domain(c) = {Plain(c, "cumulative", "inDomain", "action")}
      BY <2>1, <3>1 DEF Domain, When, Plain
    <3>3. Neat(Domain(c))
      BY <1>3, <1>4, <3>2, PlainNeat
    <3> QED BY <3>3, NeatUnion DEF When
  <2>2. CASE Type[c] \notin Actions /\ Type[c] # "rigid"
    <3>1. Domain(c) = {Plain(c, "base", "inDomain", "zero"), Plain(c, "cumulative", "inDomain", "static")}
      BY <2>2 DEF Domain, When, Plain
    <3>2. Neat(Domain(c))
      BY <1>4, <3>1, PlainNeat
    <3> QED BY <3>2, NeatUnion DEF When
  <2>3. CASE Type[c] = "rigid" /\ Type[c] \notin Actions
    <3>1. Domain(c) = {Plain(c, "base", "inDomain", "zero")}
      BY <2>3 DEF Domain, When, Plain
    <3>2. Neat(Domain(c))
      BY <1>3, <1>4, <3>1, PlainNeat
    <3> QED BY <3>2, NeatUnion DEF When
  <2> QED BY <2>1, <2>2, <2>3
<1>7. \A r \in A \cup B : r.does = "oneValue"
  BY <1>3, <1>4, PlainRule DEF When
<1>8. \A r \in C \cup D : r.does # "oneValue"
  <2>1. \A r \in C : r.does # "oneValue"
    BY <1>3, <1>4, PlainRule DEF When
  <2>2. \A r \in D : r.does = "inDomain"
    BY DEF When, Domain, Rule
  <2> QED BY <2>1, <2>2
<1>9. Neat(Defaults(c)) /\ Doing(Defaults(c), "oneValue") = {}
  BY DefaultsNeat
<1> HIDE DEF A, B, C, D
<1>10. Neat(Declaration(c))
  BY <1>1, <1>5, <1>6, <1>9, NeatUnion
<1>11. Doing(Declaration(c), "oneValue") = Values(c)
  BY <1>1, <1>2, <1>7, <1>8, <1>9 DEF Doing
<1> QED BY <1>10, <1>11

\* The constants of cs that have no declaration get theirs.
LEMMA DeclarationsNeat ==
  ASSUME NEW cs \in SUBSET Symbols
  PROVE  /\ Neat(Declarations(cs))
         /\ Doing(Declarations(cs), "oneValue") = UNION {Values(c) : c \in cs \ translated}
         /\ \A what \in Doings \ Declared : Doing(Declarations(cs), what) = {}
<1>1. \A c \in cs : Neat(Declaration(c)) /\ Doing(Declaration(c), "oneValue") = Values(c)
  BY DeclarationNeat
<1>2. Neat(Declarations(cs))
  <2>1. \A A \in {Declaration(c) : c \in cs \ translated} : Neat(A)
    BY <1>1
  <2> QED BY <2>1, NeatUnion, Zenon DEF Declarations
<1>3. Doing(Declarations(cs), "oneValue") \subseteq UNION {Values(c) : c \in cs \ translated}
  BY <1>1, Zenon DEF Declarations, Doing
<1>4. UNION {Values(c) : c \in cs \ translated} \subseteq Doing(Declarations(cs), "oneValue")
  BY <1>1, Zenon DEF Declarations, Doing
<1>5. \A what \in Doings \ Declared : Doing(Declarations(cs), what) = {}
  BY <1>2 DEF Neat, Doing
<1> QED BY <1>2, <1>3, <1>4, <1>5
-----------------------------------------------------------------------------
(* The rules of laws. *)

LawForms == [head : SUBSET Symbols, if : Formulas, ifcons : Formulas,
             after : Formulas, unless : Formulas]

LEMMA FormulaParts ==
  /\ {} \in Formulas
  /\ \A f, g \in Formulas : f \cup g \in Formulas
  /\ \A f \in Formulas : Negated(f) \in Formulas
  /\ \A cs \in SUBSET Symbols : {Conjunct(cs)} \in Formulas
<1>1. {} \in Formulas /\ \A f, g \in Formulas : f \cup g \in Formulas
  BY DEF Formulas
<1>2. \A f \in Formulas : Negated(f) \in Formulas
  BY DEF Formulas, Negated
<1>3. \A cs \in SUBSET Symbols : {Conjunct(cs)} \in Formulas
  BY DEF Formulas, Conjunct
<1> QED BY <1>1, <1>2, <1>3

\* Every form of law is brought to what it says of the state it is about and
\* of the state before.
LEMMA NormalSays ==
  ASSUME NEW s \in Input, s.kind \in LawKinds
  PROVE  /\ Normal(s) \in LawForms
         /\ Normal(s).head = s.head /\ Normal(s).unless = s.unless
         /\ Normal(s).if \cup Normal(s).ifcons = Now(s)
         /\ Normal(s).after = Before(s)
<1> DEFINE law(h, i, n, a) == [head |-> h, if |-> i, ifcons |-> n, after |-> a,
                               unless |-> s.unless]
           self == {Conjunct(s.head)}
           Says(h, i, n, a) == /\ Normal(s) = law(h, i, n, a)
                               /\ h = s.head /\ i \in Formulas /\ n \in Formulas
                               /\ a \in Formulas /\ i \cup n = Now(s) /\ a = Before(s)
<1>1. /\ s.head \in SUBSET Symbols /\ s.body \in Formulas /\ s.if \in Formulas
      /\ s.ifcons \in Formulas /\ s.after \in Formulas /\ s.unless \in Formulas
  BY InputAssumption, Zenon DEF Statements
<1>2. /\ s.kind \in {"always", "constraint", "impossible", "never", "nonexecutable"} => s.head = {}
      /\ s.kind = "implication" => s.after = {}
  BY InputAssumption
<1>3. self \in Formulas /\ Negated(s.body) \in Formulas
  BY <1>1, FormulaParts
<1> HIDE DEF self
<1>4. \A f, g \in Formulas : f \cup g \in Formulas /\ {} \in Formulas
  BY FormulaParts
<1>5. ASSUME s.kind \in {"basic", "caused"}
      PROVE  Says(s.head, s.if, s.ifcons, s.after)
  BY <1>1, <1>5 DEF Normal, Now, Before
<1>6. ASSUME s.kind \in {"possiblyCaused", "default", "exogenous"}
      PROVE  Says(s.head, s.if, s.ifcons \cup self, s.after)
  BY <1>1, <1>3, <1>4, <1>6 DEF Normal, Now, Before, self
<1>7. ASSUME s.kind = "implication" PROVE Says(s.head, s.body, {}, {})
  BY <1>1, <1>2, <1>4, <1>7 DEF Normal, Now, Before
<1>8. ASSUME s.kind = "causes" PROVE Says(s.head, {}, {}, s.body \cup s.if)
  BY <1>1, <1>4, <1>8 DEF Normal, Now, Before
<1>9. ASSUME s.kind = "mayCause" PROVE Says(s.head, {}, self, s.body \cup s.if)
  BY <1>1, <1>3, <1>4, <1>9 DEF Normal, Now, Before, self
<1>10. ASSUME s.kind = "always" PROVE Says({}, {}, {}, s.after \cup Negated(s.body))
  BY <1>1, <1>2, <1>3, <1>4, <1>10 DEF Normal, Now, Before
<1>11. ASSUME s.kind = "constraint" PROVE Says({}, Negated(s.body), {}, s.after)
  BY <1>1, <1>2, <1>3, <1>4, <1>11 DEF Normal, Now, Before
<1>12. ASSUME s.kind \in {"impossible", "never"} PROVE Says({}, s.body, {}, s.after)
  BY <1>1, <1>2, <1>4, <1>12 DEF Normal, Now, Before
<1>13. ASSUME s.kind = "inertial"
       PROVE  Says(s.head, s.if, s.ifcons \cup self, s.after \cup self)
  BY <1>1, <1>3, <1>4, <1>13 DEF Normal, Now, Before, self
<1>14. ASSUME s.kind = "nonexecutable" PROVE Says({}, {}, {}, s.body \cup s.if)
  BY <1>1, <1>2, <1>4, <1>14 DEF Normal, Now, Before
<1>15. ASSUME s.kind = "rigid" PROVE Says(s.head, {}, {}, self)
  BY <1>1, <1>3, <1>4, <1>15 DEF Normal, Now, Before, self
<1>16. \E h, i, n, a : Says(h, i, n, a)
  <2> HIDE DEF Says
  <2> QED BY <1>5, <1>6, <1>7, <1>8, <1>9, <1>10, <1>11, <1>12, <1>13, <1>14, <1>15 DEF LawKinds
<1>17. PICK h, i, n, a : Says(h, i, n, a)
  BY <1>16
<1> QED BY <1>1, <1>17 DEF LawForms

LEMMA CopiesSound ==
  ASSUME NEW l \in LawForms
  PROVE  /\ \A r \in {BaseCopy(l), StepCopy(l)} :
              Sound(r) /\ r.part \in {"base", "cumulative"} /\ r.does = "law"
         /\ BaseCopy(l).head = HeadAt(l.head, "zero")
         /\ BaseCopy(l).body = At(l.if \cup l.ifcons, "zero")
         /\ StepCopy(l).head = HeadAt(l.head, HeadTime(l))
         /\ StepCopy(l).body = At(l.if \cup l.ifcons, HeadTime(l))
                                 \cup At(l.after \cup l.unless, "action")
         /\ BaseCopy(l).part = "base" /\ StepCopy(l).part = "cumulative"
<1>1. /\ l.head \in SUBSET Symbols /\ l.if \cup l.ifcons \in Formulas
      /\ l.after \cup l.unless \in Formulas
  BY DEF LawForms, Formulas
<1>2. HeadTime(l) \in {"action", "dynamic", "static"}
  BY DEF HeadTime
<1>3. {"zero", "action", "dynamic", "static"} \subseteq Times
  BY DEF Times
<1>4. /\ "zero" \in Allowed("base") /\ {"action", "dynamic", "static"} \subseteq Allowed("cumulative")
      /\ {"base", "cumulative"} \subseteq Parts /\ "law" \in Doings
  BY AllowedIs DEF Parts, Steady, Doings
<1>5. Sound(BaseCopy(l))
  <2> DEFINE h == HeadAt(l.head, "zero")
             b == At(l.if \cup l.ifcons, "zero")
  <2>1. h \in Timed /\ h.ts = "zero" /\ b \in SUBSET Timed /\ \A j \in b : j.ts = "zero"
    BY <1>1, <1>3, AtType, HeadType
  <2> HIDE DEF h, b
  <2>2. Sound(Rule("base", "law", h, b))
    BY <1>4, <2>1, SoundRule
  <2> QED BY <2>2 DEF BaseCopy, h, b
<1>6. Sound(StepCopy(l))
  <2> DEFINE h == HeadAt(l.head, HeadTime(l))
             b == At(l.if \cup l.ifcons, HeadTime(l))
             a == At(l.after \cup l.unless, "action")
  <2>1. h \in Timed /\ h.ts = HeadTime(l)
    BY <1>1, <1>2, <1>3, HeadType
  <2>2. b \in SUBSET Timed /\ \A j \in b : j.ts = HeadTime(l)
    BY <1>1, <1>2, <1>3, AtType
  <2>3. a \in SUBSET Timed /\ \A j \in a : j.ts = "action"
    BY <1>1, <1>3, AtType
  <2> HIDE DEF h, b, a
  <2>4. Sound(Rule("cumulative", "law", h, b \cup a))
    BY <1>2, <1>4, <2>1, <2>2, <2>3, SoundRule
  <2> QED BY <2>4 DEF StepCopy, h, b, a
<1>7. /\ BaseCopy(l).head = HeadAt(l.head, "zero")
      /\ BaseCopy(l).body = At(l.if \cup l.ifcons, "zero")
      /\ StepCopy(l).head = HeadAt(l.head, HeadTime(l))
      /\ StepCopy(l).body = At(l.if \cup l.ifcons, HeadTime(l))
                              \cup At(l.after \cup l.unless, "action")
      /\ BaseCopy(l).part = "base" /\ StepCopy(l).part = "cumulative"
      /\ BaseCopy(l).does = "law" /\ StepCopy(l).does = "law"
  BY DEF BaseCopy, StepCopy, Rule
<1> QED BY <1>5, <1>6, <1>7

LEMMA LawRules ==
  ASSUME NEW l \in LawForms
  PROVE  /\ \A r \in RulesOf(l) : Sound(r) /\ r.part # "none" /\ r.does = "law"
         /\ Paired(RulesOf(l))
<1>1. RulesOf(l) \subseteq {BaseCopy(l), StepCopy(l)}
  BY DEF RulesOf, When
<1>2. \A r \in RulesOf(l) : Sound(r) /\ r.part # "none" /\ r.does = "law"
  BY <1>1, CopiesSound
<1>3. ASSUME NEW r \in RulesOf(l), "static" \in Stamps(r), ~Mixed(r)
      PROVE  Stamps(r) = {"static"} /\ ZeroOf(r) \in RulesOf(l)
  <2>1. r # BaseCopy(l)
    <3>1. Stamps(BaseCopy(l)) \subseteq Steady
      BY CopiesSound, AllowedIs DEF Sound
    <3> QED BY <1>3, <3>1 DEF Steady
  <2>2. r = StepCopy(l) /\ LawType(l) # "rigid"
    <3>1. LawType(l) = "rigid" => RulesOf(l) = {BaseCopy(l)}
      BY DEF RulesOf, When
    <3> QED BY <1>1, <1>3, <2>1, <3>1
  <2>3. /\ r.head = HeadAt(l.head, HeadTime(l)) /\ r.head.ts = HeadTime(l)
        /\ r.body = At(l.if \cup l.ifcons, HeadTime(l)) \cup At(l.after \cup l.unless, "action")
    <3>1. /\ r.head = HeadAt(l.head, HeadTime(l))
          /\ r.body = At(l.if \cup l.ifcons, HeadTime(l)) \cup At(l.after \cup l.unless, "action")
      BY <2>2, CopiesSound, Zenon
    <3> QED BY <3>1 DEF HeadAt
  <2>4. HeadTime(l) = "static"
    BY <1>3, <2>3 DEF Stamps, At
  <2>5. HeadMask(l.head) \cap Actions = {} /\ l.after = {} /\ l.unless = {}
    <3>1. HeadMask(l.head) \cap Actions = {} /\ l.after = {}
      BY <2>4 DEF HeadTime
    <3>2. "action" \notin Stamps(r)
      BY <1>2, <1>3 DEF Mixed
    <3>3. ASSUME NEW j \in l.unless PROVE FALSE
      <4>1. [of |-> j.of, neg |-> j.neg, ts |-> "action"] \in r.body
        BY <2>3 DEF At
      <4> QED BY <3>2, <4>1 DEF Stamps
    <3> QED BY <3>1, <3>3
  <2>6. r.body = At(l.if \cup l.ifcons, "static")
    BY <2>3, <2>4, <2>5 DEF At
  <2>7. Stamps(r) = {"static"}
    BY <2>3, <2>4, <2>6 DEF Stamps, At
  <2>8. BaseCopy(l) \in RulesOf(l)
    <3>1. LawType(l) \in {"rigid", "static"}
      BY <2>5 DEF LawType, Dynamic
    <3> QED BY <3>1 DEF RulesOf, When
  <2>9. ZeroOf(r) = BaseCopy(l)
    <3>1. AtZero(r.head) = HeadAt(l.head, "zero")
      BY <2>3 DEF AtZero, HeadAt
    <3>2. {AtZero(j) : j \in r.body} = At(l.if \cup l.ifcons, "zero")
      <4> DEFINE f == l.if \cup l.ifcons
      <4>1. \A j \in f : AtZero([of |-> j.of, neg |-> j.neg, ts |-> "static"]) =
                          [of |-> j.of, neg |-> j.neg, ts |-> "zero"]
        BY DEF AtZero
      <4>2. {AtZero(j) : j \in At(f, "static")} =
              {AtZero([of |-> j.of, neg |-> j.neg, ts |-> "static"]) : j \in f}
        BY Zenon DEF At
      <4>3. {AtZero(j) : j \in At(f, "static")} = At(f, "zero")
        BY <4>1, <4>2, Zenon DEF At
      <4> QED BY <2>6, <4>3
    <3>3. r.does = "law"
      BY <1>2
    <3> QED BY <3>1, <3>2, <3>3 DEF ZeroOf, BaseCopy
  <2> QED BY <2>7, <2>8, <2>9
<1> QED BY <1>2, <1>3 DEF Paired
-----------------------------------------------------------------------------
(* The invariant: the rules of laws are those of the laws accepted, the rules *)
(* that give constants a value those of the constants translated, and those  *)
(* that exclude actions those of the epilogue.                               *)

TypeInv ==
  /\ language \in Languages /\ translated \subseteq Symbols /\ accepted \subseteq Input
  /\ strong \in BOOLEAN /\ noconcurrency \in BOOLEAN /\ ended \in BOOLEAN
  /\ read \in 0..MaxStatements
AcceptedInv == \A s \in accepted : s.kind \in LawKinds /\ WellFormed(Normal(s))
LawInv == Doing(out["incremental"], "law") = UNION {RulesOf(Normal(s)) : s \in accepted}
ValueInv == Doing(out["incremental"], "oneValue") = UNION {Values(c) : c \in translated}
Exclusion(c, d) ==
  Rule("cumulative", "exclude", HeadAt({}, "action"),
       At({Conjunct({c}), Conjunct({d})}, "action"))
Exclusions == {Exclusion(p[1], p[2]) : p \in {q \in Excluding \X Excluding : q[1] # q[2]}}
ExclusionInv ==
  Doing(out["incremental"], "exclude") =
    When(ended /\ (noconcurrency \/ strong), Exclusions)
Inv == TypeInv /\ OutInv /\ AcceptedInv /\ LawInv /\ ValueInv /\ ExclusionInv

\* What a step that prints the rules of A leaves of the invariant.
Printing(A) ==
  /\ OutInv'
  /\ Doing(out'["incremental"], "law") = Doing(out["incremental"], "law") \cup Doing(A, "law")
  /\ Doing(out'["incremental"], "oneValue") =
       Doing(out["incremental"], "oneValue") \cup Doing(A, "oneValue")
  /\ Doing(out'["incremental"], "exclude") =
       Doing(out["incremental"], "exclude") \cup Doing(A, "exclude")
  /\ Paired(out["incremental"]) /\ Paired(A) => Paired(out'["incremental"])

LEMMA EmitPrints ==
  ASSUME OutInv, NEW pre, NEW main, NEW last \in Parts, NEW A,
         Emit(pre, main, last),
         pre \cup main["incremental"] = A,
         pre \cup main["static"] = {r \in A : r.does # "queryAtZero"},
         \A r \in A : Sound(r) /\ (r.part = "none" => r.does \in Partless)
  PROVE  Printing(A)
<1>1. {"law", "oneValue", "exclude"} \subseteq Doings \ Partless
  BY DEF Doings, Declared, Partless
<1>2. /\ OutInv'
      /\ \A what \in Doings \ Partless :
           Doing(out'["incremental"], what) = Doing(out["incremental"], what) \cup Doing(A, what)
      /\ Paired(out["incremental"]) /\ Paired(A) => Paired(out'["incremental"])
  BY EmitRules
<1> QED BY <1>1, <1>2 DEF Printing

\* Most statements print the same rules in both outputs.
LEMMA EmitBoth ==
  ASSUME OutInv, NEW pre, NEW rs, NEW last \in Parts, Emit(pre, Both(rs), last),
         \A r \in pre \cup rs : /\ Sound(r) /\ (r.part = "none" => r.does \in Partless)
                              /\ r.does # "queryAtZero"
  PROVE  Printing(pre \cup rs)
<1>1. Both(rs)["incremental"] = rs /\ Both(rs)["static"] = rs
  BY DEF Both, Modes
<1>2. pre \cup Both(rs)["static"] = {r \in pre \cup rs : r.does # "queryAtZero"}
  BY <1>1
<1> QED BY <1>1, <1>2, EmitPrints

LEMMA NothingPrinted ==
  ASSUME OutInv, EmitNothing
  PROVE  OutInv' /\ out'["incremental"] = out["incremental"]
  BY DEF EmitNothing, OutInv

LEMMA NeatBoth ==
  ASSUME NEW rs, Neat(rs)
  PROVE  \A r \in rs : /\ Sound(r) /\ (r.part = "none" => r.does \in Partless)
                      /\ r.does # "queryAtZero" /\ r.does # "law"
  BY DEF Neat, Declared

LEMMA ReadingKeeps ==
  ASSUME TypeInv, NEW s \in Input, NEW kinds, Reading(s, kinds)
  PROVE  /\ s.kind \in kinds /\ ~ended /\ ended' = FALSE /\ language' = language
         /\ read' \in 0..MaxStatements
         /\ s \in Statements /\ s.head \in SUBSET Symbols /\ UnlessSymbols(s) \in SUBSET Symbols
         /\ s.body \in Formulas /\ s.if \in Formulas /\ s.unless \in Formulas
<1>1. s \in Statements /\ s.head \in SUBSET Symbols /\ s.unless \in Formulas
      /\ s.body \in Formulas /\ s.if \in Formulas
  BY InputAssumption, Zenon DEF Statements
<1>2. UnlessSymbols(s) \in SUBSET Symbols
  BY <1>1 DEF UnlessSymbols, Formulas
<1>3. s.kind \in kinds /\ ~ended /\ ended' = FALSE /\ language' = language
  BY DEF Reading, TypeInv
<1>4. read' \in 0..MaxStatements
  BY LawsAssumption DEF Reading, TypeInv
<1> QED BY <1>1, <1>2, <1>3, <1>4

PairInv == Paired(out["incremental"])

\* Statements that are not laws print no rules of laws, and the declarations
\* of the constants they mention.
LEMMA OtherStatement ==
  ASSUME Inv, NEW s \in Input, NEW kinds, Reading(s, kinds),
         NEW A, Printing(A), NEW cs \in SUBSET Symbols,
         Doing(A, "law") = {}, Doing(A, "exclude") = {},
         Doing(A, "oneValue") = UNION {Values(c) : c \in cs \ translated},
         translated' = translated \cup cs, accepted' = accepted,
         strong' = strong, noconcurrency' = noconcurrency
  PROVE  Inv' /\ (Paired(A) /\ PairInv => PairInv')
<1>1. /\ ~ended /\ ended' = FALSE /\ language' = language /\ read' \in 0..MaxStatements
  BY ReadingKeeps DEF Inv
<1>2. TypeInv'
  BY <1>1 DEF Inv, TypeInv
<1>3. OutInv' /\ LawInv' /\ AcceptedInv'
  BY DEF Inv, LawInv, AcceptedInv, Printing
<1>4. ValueInv'
  <2>1. UNION {Values(c) : c \in translated \cup cs} =
          (UNION {Values(c) : c \in translated}) \cup UNION {Values(c) : c \in cs \ translated}
    BY Zenon
  <2> QED BY <2>1, Zenon DEF Inv, ValueInv, Printing
<1>5. ExclusionInv'
  BY <1>1 DEF Inv, ExclusionInv, Printing, When
<1>6. Paired(A) /\ PairInv => PairInv'
  BY DEF PairInv, Printing
<1> QED BY <1>2, <1>3, <1>4, <1>5, <1>6 DEF Inv

LEMMA NothingDone ==
  ASSUME Inv, NEW s \in Input, NEW kinds, Reading(s, kinds),
         OutInv', out'["incremental"] = out["incremental"],
         translated' = translated, accepted' = accepted,
         strong' \in BOOLEAN, noconcurrency' \in BOOLEAN
  PROVE  Inv' /\ (PairInv => PairInv')
<1>1. /\ ~ended /\ ended' = FALSE /\ language' = language /\ read' \in 0..MaxStatements
  BY ReadingKeeps DEF Inv
<1>2. TypeInv' /\ ExclusionInv'
  BY <1>1 DEF Inv, TypeInv, ExclusionInv, Doing, When
<1> QED BY <1>2, Zenon DEF Inv, AcceptedInv, LawInv, ValueInv, PairInv

LEMMA ConstantsStep ==
  ASSUME Inv, NEW s \in Input, TranslateConstants(s)
  PROVE  Inv' /\ (PairInv => PairInv')
<1> DEFINE A == Declarations(s.head)
<1>1. /\ Reading(s, {"constants"}) /\ Emit(A, Both({}), "none")
      /\ translated' = translated \cup s.head
      /\ accepted' = accepted /\ strong' = strong /\ noconcurrency' = noconcurrency
  BY Zenon DEF TranslateConstants
<1>2. s.head \in SUBSET Symbols
  BY <1>1, ReadingKeeps DEF Inv
<1>3. /\ Neat(A) /\ Doing(A, "oneValue") = UNION {Values(c) : c \in s.head \ translated}
      /\ Doing(A, "law") = {} /\ Doing(A, "exclude") = {}
  BY <1>2, DeclarationsNeat DEF Doings, Declared
<1> HIDE DEF A
<1>4. Printing(A)
  <2>1. "none" \in Parts
    BY DEF Parts
  <2>2. \A r \in A \cup {} : /\ Sound(r) /\ (r.part = "none" => r.does \in Partless)
                           /\ r.does # "queryAtZero"
    BY <1>3, NeatBoth
  <2>3. Printing(A \cup {})
    BY <1>1, <2>1, <2>2, EmitBoth DEF Inv
  <2>4. A \cup {} = A
    OBVIOUS
  <2> QED BY <2>3, <2>4
<1>5. Paired(A)
  BY <1>3 DEF Neat
<1> QED BY <1>1, <1>2, <1>3, <1>4, <1>5, OtherStatement

LEMMA LawStep ==
  ASSUME Inv, NEW s \in Input, TranslateLaw(s)
  PROVE  Inv' /\ (PairInv => PairInv')
<1> DEFINE l == Normal(s)
           u == UnlessSymbols(s)
           A == Declarations(u)
           B == RulesOf(l)
           last == IF LawType(l) = "rigid" THEN "base" ELSE "cumulative"
<1>1. /\ Reading(s, LawKinds) /\ strong' = strong /\ noconcurrency' = noconcurrency
  BY Zenon DEF TranslateLaw
<1>2. /\ s.kind \in LawKinds /\ ~ended /\ ended' = FALSE /\ language' = language
      /\ read' \in 0..MaxStatements /\ u \in SUBSET Symbols
  BY <1>1, ReadingKeeps DEF Inv
<1>3. CASE BodyFits(s) /\ WellFormed(l)
  <2>1. /\ Emit(A, Both(B), last) /\ translated' = translated \cup u
        /\ accepted' = accepted \cup {s}
    BY <1>3, Zenon DEF TranslateLaw
  <2>2. /\ Neat(A) /\ Doing(A, "oneValue") = UNION {Values(c) : c \in u \ translated}
        /\ Doing(A, "law") = {} /\ Doing(A, "exclude") = {}
    BY <1>2, DeclarationsNeat DEF Doings, Declared
  <2>3. l \in LawForms /\ l.unless = s.unless /\ l.after = Before(s)
    BY <1>2, NormalSays
  <2>4. /\ \A r \in B : Sound(r) /\ r.part # "none" /\ r.does = "law"
        /\ Paired(B)
    BY <2>3, LawRules
  <2>5. last \in Parts
    BY DEF Parts
  <2>a. WellFormed(Normal(s))
    BY <1>3
  <2>b. B = RulesOf(Normal(s))
    OBVIOUS
  <2> HIDE DEF A, B, last, l, u
  <2>6. \A r \in A \cup B : /\ Sound(r) /\ (r.part = "none" => r.does \in Partless)
                           /\ r.does # "queryAtZero"
    BY <2>2, <2>4, NeatBoth
  <2>7. Printing(A \cup B)
    BY <2>1, <2>5, <2>6, EmitBoth DEF Inv
  <2>8. /\ Doing(A \cup B, "law") = B /\ Doing(A \cup B, "oneValue") = Doing(A, "oneValue")
        /\ Doing(A \cup B, "exclude") = {}
    BY <2>2, <2>4 DEF Doing
  <2>9. TypeInv'
    BY <1>1, <1>2, <2>1 DEF Inv, TypeInv
  <2>10. OutInv' /\ AcceptedInv'
    BY <1>2, <2>1, <2>7, <2>a DEF Inv, AcceptedInv, Printing
  <2>11. LawInv'
    <3>1. UNION {RulesOf(Normal(x)) : x \in accepted \cup {s}} =
            (UNION {RulesOf(Normal(x)) : x \in accepted}) \cup RulesOf(Normal(s))
      BY Zenon
    <3> QED BY <2>1, <2>7, <2>8, <2>b, <3>1, Zenon DEF Inv, LawInv, Printing
  <2>12. ValueInv'
    <3>1. UNION {Values(c) : c \in translated \cup u} =
            (UNION {Values(c) : c \in translated}) \cup UNION {Values(c) : c \in u \ translated}
      BY Zenon
    <3> QED BY <2>1, <2>2, <2>7, <2>8, <3>1, Zenon DEF Inv, ValueInv, Printing
  <2>13. ExclusionInv'
    BY <1>2, <2>7, <2>8 DEF Inv, ExclusionInv, Printing, When
  <2>14. PairInv => PairInv'
    <3>1. Paired(A \cup B)
      BY <2>2, <2>4, Zenon DEF Neat, Paired
    <3> QED BY <2>7, <3>1 DEF PairInv, Printing
  <2> QED BY <2>9, <2>10, <2>11, <2>12, <2>13, <2>14 DEF Inv
<1>4. CASE ~(BodyFits(s) /\ WellFormed(l))
  <2>1. EmitNothing /\ translated' = translated /\ accepted' = accepted
    BY <1>4, Zenon DEF TranslateLaw
  <2>2. OutInv' /\ out'["incremental"] = out["incremental"]
    BY <2>1, NothingPrinted DEF Inv
  <2> QED BY <1>1, <2>1, <2>2, NothingDone DEF Inv, TypeInv
<1> QED BY <1>3, <1>4

\* One rule, whose head and body each have one time stamp.
LEMMA OneRule ==
  ASSUME NEW p \in Parts, NEW d \in Doings, NEW cs, cs \subseteq Symbols, NEW f \in Formulas,
         NEW ht \in Allowed(p) \ {"static"}, NEW bt \in Allowed(p) \ {"static"}
  PROVE  LET r == Rule(p, d, HeadAt(cs, ht), At(f, bt))
         IN /\ Sound(r) /\ r.part = p /\ r.does = d
            /\ "static" \notin Stamps(r) /\ Paired({r})
<1> DEFINE r == Rule(p, d, HeadAt(cs, ht), At(f, bt))
<1>1. ht \in Times /\ bt \in Times
  BY AllowedIs
<1>2. /\ HeadAt(cs, ht) \in Timed /\ HeadAt(cs, ht).ts = ht
      /\ At(f, bt) \in SUBSET Timed /\ \A j \in At(f, bt) : j.ts = bt
  BY <1>1, AtType, HeadType
<1>3. Sound(r)
  BY <1>2, SoundRule
<1>4. r.part = p /\ r.does = d
  BY DEF Rule
<1>5. "static" \notin Stamps(r)
  BY <1>2, RuleFields
<1> HIDE DEF r
<1>6. Paired({r})
  BY <1>5 DEF Paired
<1> QED BY <1>3, <1>4, <1>5, <1>6 DEF r

LEMMA AdditiveStep ==
  ASSUME Inv, NEW s \in Input, TranslateAdditive(s)
  PROVE  Inv' /\ (PairInv => PairInv')
<1> DEFINE u == UnlessSymbols(s)
           D == Declarations(u)
           f == s.body \cup s.if \cup s.unless
           r1 == Rule("base", "contributor", HeadAt(s.head, "zero"), {})
           r2 == Rule("cumulative", "contribution", HeadAt(s.head, "action"), At(f, "action"))
           fits == /\ Mask(s.body) \subseteq Actions /\ HeadMask(s.head) \subseteq Additive
                   /\ Mask(s.unless) \subseteq {"abAction"}
<1>1. /\ Reading(s, {"increments", "decrements"})
      /\ accepted' = accepted /\ strong' = strong /\ noconcurrency' = noconcurrency
  BY Zenon DEF TranslateAdditive
<1>2. /\ u \in SUBSET Symbols /\ s.head \in SUBSET Symbols /\ s.body \in Formulas
      /\ s.if \in Formulas /\ s.unless \in Formulas
  BY <1>1, ReadingKeeps DEF Inv
<1>3. f \in Formulas /\ {} \in Formulas
  BY <1>2 DEF Formulas
<1>4. {"base", "cumulative"} \subseteq Parts /\ {"contributor", "contribution"} \subseteq Doings
  BY DEF Parts, Doings
<1>5. "zero" \in Allowed("base") \ {"static"} /\ "action" \in Allowed("cumulative") \ {"static"}
  BY AllowedIs DEF Steady
<1>6. Sound(r1) /\ r1.part = "base" /\ r1.does = "contributor" /\ Paired({r1})
  <2> DEFINE q == Rule("base", "contributor", HeadAt(s.head, "zero"), At({}, "zero"))
  <2>1. Sound(q) /\ q.part = "base" /\ q.does = "contributor" /\ Paired({q})
    BY <1>2, <1>3, <1>4, <1>5, OneRule
  <2>2. At({}, "zero") = {}
    BY DEF At
  <2> QED BY <2>1, <2>2
<1>7. Sound(r2) /\ r2.part = "cumulative" /\ r2.does = "contribution" /\ Paired({r2})
  <2> HIDE DEF f
  <2> QED BY <1>2, <1>3, <1>4, <1>5, OneRule
<1>8. CASE fits
  <2>1. Emit({r1} \cup D, Both({r2}), "cumulative") /\ translated' = translated \cup u
    BY <1>8, Zenon DEF TranslateAdditive
  <2>2. /\ Neat(D) /\ Doing(D, "oneValue") = UNION {Values(c) : c \in u \ translated}
        /\ Doing(D, "law") = {} /\ Doing(D, "exclude") = {}
    BY <1>2, DeclarationsNeat DEF Doings, Declared
  <2> DEFINE A == {r1} \cup D \cup {r2}
  <2> HIDE DEF r1, r2, D, u, f
  <2>3. \A r \in A : /\ Sound(r) /\ (r.part = "none" => r.does \in Partless)
                    /\ r.does # "queryAtZero"
    BY <1>6, <1>7, <2>2, NeatBoth
  <2>4. Printing(A)
    BY <1>4, <2>1, <2>3, EmitBoth DEF Inv
  <2>5. /\ Doing(A, "law") = {} /\ Doing(A, "oneValue") = Doing(D, "oneValue")
        /\ Doing(A, "exclude") = {}
    BY <1>6, <1>7, <2>2 DEF Doing
  <2>6. Paired(A)
    BY <1>6, <1>7, <2>2, Zenon DEF Neat, Paired
  <2> HIDE DEF A
  <2> QED BY <1>1, <1>2, <2>1, <2>2, <2>4, <2>5, <2>6, OtherStatement
<1>9. CASE ~fits
  <2>1. Emit({}, Both({}), "cumulative") /\ translated' = translated
    BY <1>9, Zenon DEF TranslateAdditive
  <2>2. Printing({} \cup {})
    BY <1>4, <2>1, EmitBoth DEF Inv
  <2>3. Printing({}) /\ translated' = translated \cup {} /\ {} \in SUBSET Symbols
    BY <2>1, <2>2
  <2>4. Doing({}, "law") = {} /\ Doing({}, "oneValue") = UNION {Values(c) : c \in {} \ translated}
        /\ Doing({}, "exclude") = {} /\ Paired({})
    BY DEF Doing, Paired
  <2> QED BY <1>1, <2>3, <2>4, OtherStatement
<1> QED BY <1>8, <1>9

LEMMA AtStepStep ==
  ASSUME Inv, NEW s \in Input, TranslateAtStep(s)
  PROVE  Inv' /\ (PairInv => PairInv')
<1> DEFINE kinds == {"observed", "temporalConstraint"}
           r == Rule("none", s.kind, HeadAt(s.head, s.step), At(s.body, s.step))
           fits == s.kind = "observed" => HeadMask(s.head) \subseteq External
<1>1. /\ Reading(s, kinds) /\ translated' = translated
      /\ accepted' = accepted /\ strong' = strong /\ noconcurrency' = noconcurrency
  BY Zenon DEF TranslateAtStep
<1>2. s.kind \in kinds /\ s.head \in SUBSET Symbols /\ s.body \in Formulas
  BY <1>1, ReadingKeeps DEF Inv
<1>3. s.step \in {"zero", "one"}
  BY <1>2, InputAssumption
<1>4. CASE fits
  <2>1. Emit({}, Both({r}), "none")
    BY <1>4, Zenon DEF TranslateAtStep
  <2>2. /\ "none" \in Parts /\ s.kind \in Doings /\ s.kind \in Partless
        /\ s.kind # "law" /\ s.kind # "oneValue" /\ s.kind # "queryAtZero"
        /\ s.kind # "exclude"
    BY <1>2 DEF Parts, Doings, Partless
  <2>3. s.step \in Allowed("none") \ {"static"}
    BY <1>3, AllowedIs DEF Steady
  <2>4. Sound(r) /\ r.does = s.kind /\ Paired({r})
    <3> DEFINE cs == s.head
               f == s.body
               d == s.kind
               ts == s.step
    <3>1. /\ "none" \in Parts /\ d \in Doings /\ cs \subseteq Symbols /\ f \in Formulas
          /\ ts \in Allowed("none") \ {"static"}
      BY <1>2, <2>2, <2>3
    <3> HIDE DEF cs, f, d, ts
    <3>2. LET q == Rule("none", d, HeadAt(cs, ts), At(f, ts))
          IN Sound(q) /\ q.does = d /\ Paired({q})
      BY <3>1, OneRule
    <3> QED BY <3>2 DEF cs, f, d, ts
  <2> HIDE DEF r
  <2>5. Printing({} \cup {r})
    <3>1. \A q \in {} \cup {r} : /\ Sound(q) /\ (q.part = "none" => q.does \in Partless)
                               /\ q.does # "queryAtZero"
      BY <2>2, <2>4
    <3> QED BY <2>1, <2>2, <3>1, EmitBoth DEF Inv
  <2>6. Printing({r}) /\ translated' = translated \cup {} /\ {} \in SUBSET Symbols
    BY <1>1, <2>5
  <2>7. /\ Doing({r}, "law") = {} /\ Doing({r}, "exclude") = {}
        /\ Doing({r}, "oneValue") = UNION {Values(c) : c \in {} \ translated}
    BY <2>2, <2>4 DEF Doing
  <2> QED BY <1>1, <2>4, <2>6, <2>7, OtherStatement
<1>5. CASE ~fits
  <2>1. EmitNothing
    BY <1>5, Zenon DEF TranslateAtStep
  <2>2. OutInv' /\ out'["incremental"] = out["incremental"]
    BY <2>1, NothingPrinted DEF Inv
  <2> QED BY <1>1, <2>2, NothingDone DEF Inv, TypeInv
<1> QED BY <1>4, <1>5

\* A query about a step that may be the initial one has a copy for horizon 0,
\* which only the incremental output holds.
LEMMA QueryStep ==
  ASSUME Inv, NEW s \in Input, TranslateQuery(s)
  PROVE  Inv' /\ (PairInv => PairInv')
<1> DEFINE zero == Rule("base", "query", HeadAt({}, "zero"), At(s.body, "zero"))
           later == Rule("volatile", "query", HeadAt({}, s.step), At(s.body, s.step))
           bt == IF s.step = "maxstep" THEN "zero" ELSE s.step
           idle == Rule("base", "queryAtZero", HeadAt({}, "zero"), At(s.body, bt))
           both == Mask(s.body) \cap Actions = {}
           last == IF s.step = "zero" THEN "base" ELSE "volatile"
           A == QueryRules(s)["incremental"]
<1>1. /\ Reading(s, {"query"}) /\ translated' = translated
      /\ accepted' = accepted /\ strong' = strong /\ noconcurrency' = noconcurrency
      /\ Emit({}, QueryRules(s), last)
  BY Zenon DEF TranslateQuery
<1>2. s.kind \in {"query"} /\ s.body \in Formulas
  BY <1>1, ReadingKeeps DEF Inv
<1>3. s.step \in {"zero", "one", "maxstep"}
  BY <1>2, InputAssumption
<1>4. /\ {"base", "volatile"} \subseteq Parts /\ {"query", "queryAtZero"} \subseteq Doings
      /\ s.step # "zero" => s.step \in Allowed("volatile") \ {"static"}
      /\ bt \in Allowed("base") \ {"static"} /\ "zero" \in Allowed("base") \ {"static"}
  BY <1>3, AllowedIs DEF Parts, Doings, Steady
<1>b. {} \subseteq Symbols
  OBVIOUS
<1>5. Sound(zero) /\ "static" \notin Stamps(zero)
  <2>1. /\ "base" \in Parts /\ "query" \in Doings /\ s.body \in Formulas
        /\ "zero" \in Allowed("base") \ {"static"}
    BY <1>2, <1>4
  <2> QED BY <1>b, <2>1, OneRule, Zenon
<1>6. s.step # "zero" => Sound(later) /\ "static" \notin Stamps(later)
  <2> SUFFICES ASSUME s.step # "zero" PROVE Sound(later) /\ "static" \notin Stamps(later)
    OBVIOUS
  <2>1. s.step \in Allowed("volatile") \ {"static"} /\ "volatile" \in Parts /\ "query" \in Doings
    BY <1>4
  <2> QED BY <1>2, <1>b, <2>1, OneRule, Zenon
<1>7. Sound(idle) /\ "static" \notin Stamps(idle)
  <2> HIDE DEF bt
  <2>1. /\ "base" \in Parts /\ "queryAtZero" \in Doings /\ s.body \in Formulas
        /\ {"zero", bt} \subseteq Allowed("base") \ {"static"}
    BY <1>2, <1>4
  <2> QED BY <1>b, <2>1, OneRule
<1>a. /\ zero.part = "base" /\ zero.does = "query"
      /\ later.part = "volatile" /\ later.does = "query"
      /\ idle.part = "base" /\ idle.does = "queryAtZero"
  BY DEF Rule
<1>8. /\ s.step = "zero" => A = {zero} /\ QueryRules(s)["static"] = {zero}
      /\ s.step # "zero" => /\ A = {later} \cup When(both, {idle})
                            /\ QueryRules(s)["static"] = {later}
  <2>1. \A m \in Modes : QueryRules(s)[m] =
          IF s.step = "zero" THEN {zero}
          ELSE {later} \cup When(m = "incremental" /\ both, {idle})
    BY Zenon DEF QueryRules
  <2> HIDE DEF zero, later, idle, both
  <2>2. \A S : When(FALSE, S) = {}
    BY DEF When
  <2>3. "static" \in Modes /\ "incremental" \in Modes
    BY DEF Modes
  <2> QED BY <2>1, <2>2, <2>3 DEF When
<1> HIDE DEF zero, later, idle, both, last, bt
<1>9. A \subseteq {zero, later, idle} /\ (later \in A => s.step # "zero" \/ later = zero)
  BY <1>8 DEF When
<1>10. /\ {} \cup QueryRules(s)["incremental"] = A
       /\ {} \cup QueryRules(s)["static"] = {r \in A : r.does # "queryAtZero"}
  <2>1. CASE s.step = "zero"
    BY <1>5, <1>a, <1>8, <2>1
  <2>2. CASE s.step # "zero"
    BY <1>6, <1>7, <1>a, <1>8, <2>2 DEF When
  <2> QED BY <2>1, <2>2
<1> HIDE DEF A
<1>11. \A r \in A : /\ Sound(r) /\ r.part # "none" /\ r.does # "law" /\ r.does # "oneValue"
                   /\ r.does # "exclude" /\ "static" \notin Stamps(r)
  BY <1>5, <1>6, <1>7, <1>a, <1>9
<1>12. Printing(A)
  <2>1. last \in Parts
    BY <1>4 DEF last
  <2> QED BY <1>1, <1>10, <1>11, <2>1, EmitPrints DEF Inv
<1>13. /\ Doing(A, "law") = {} /\ Doing(A, "oneValue") = UNION {Values(c) : c \in {} \ translated}
       /\ Doing(A, "exclude") = {} /\ Paired(A) /\ translated' = translated \cup {}
  BY <1>1, <1>11 DEF Doing, Paired
<1>14. {} \in SUBSET Symbols
  OBVIOUS
<1> QED BY <1>1, <1>12, <1>13, <1>14, OtherStatement

LEMMA NoConcurrencyStep ==
  ASSUME Inv, NEW s \in Input, TranslateNoConcurrency(s)
  PROVE  Inv' /\ (PairInv => PairInv')
<1>1. /\ Reading(s, {"noconcurrency", "strongNoconcurrency"})
      /\ translated' = translated /\ accepted' = accepted
      /\ strong' \in BOOLEAN /\ noconcurrency' \in BOOLEAN /\ EmitNothing
  BY DEF TranslateNoConcurrency, EmitNothing, Inv, TypeInv
<1>2. OutInv' /\ out'["incremental"] = out["incremental"]
  BY <1>1, NothingPrinted DEF Inv
<1> QED BY <1>1, <1>2, NothingDone

LEMMA EpilogueStep ==
  ASSUME Inv, Epilogue
  PROVE  Inv' /\ (PairInv => PairInv')
<1> DEFINE pairs == {q \in Excluding \X Excluding : q[1] # q[2]}
           all == {Rule("cumulative", "exclude", HeadAt({}, "action"),
                        At({Conjunct({p[1]}), Conjunct({p[2]})}, "action")) : p \in pairs}
           A == When(noconcurrency \/ strong, all)
<1>1. /\ ~ended /\ ended' = TRUE /\ Emit({}, Both(A), "volatile")
      /\ UNCHANGED <<language, translated, accepted, strong, noconcurrency, read>>
  BY Zenon DEF Epilogue
<1>2. all = {Exclusion(p[1], p[2]) : p \in pairs} /\ all = Exclusions
  BY DEF Exclusion, Exclusions
<1>4. \A r \in all : /\ Sound(r) /\ r.part = "cumulative" /\ r.does = "exclude"
                    /\ "static" \notin Stamps(r)
  <2> SUFFICES ASSUME NEW p \in pairs
               PROVE  LET r == Exclusion(p[1], p[2])
                      IN /\ Sound(r) /\ r.part = "cumulative" /\ r.does = "exclude"
                         /\ "static" \notin Stamps(r)
    BY <1>2
  <2>1. p[1] \in Symbols /\ p[2] \in Symbols
    BY DEF Excluding
  <2>2. {Conjunct({p[1]}), Conjunct({p[2]})} \in Formulas
    BY <2>1 DEF Conjunct, Formulas
  <2>3. /\ "cumulative" \in Parts /\ "exclude" \in Doings
        /\ "action" \in Allowed("cumulative") \ {"static"}
    BY AllowedIs DEF Parts, Doings
  <2> DEFINE r == Exclusion(p[1], p[2])
  <2>4. Sound(r) /\ "static" \notin Stamps(r)
    <3> DEFINE f == {Conjunct({p[1]}), Conjunct({p[2]})}
    <3> HIDE DEF f
    <3>1. f \in Formulas
      BY <2>2 DEF f
    <3>2. LET q == Rule("cumulative", "exclude", HeadAt({}, "action"), At(f, "action"))
          IN Sound(q) /\ "static" \notin Stamps(q)
      BY <2>3, <3>1, OneRule
    <3> QED BY <3>2 DEF Exclusion, f
  <2>5. r.part = "cumulative" /\ r.does = "exclude"
    BY DEF Exclusion, Rule
  <2> QED BY <2>4, <2>5
<1> HIDE DEF all, pairs
<1>5. \A r \in A : /\ Sound(r) /\ r.part = "cumulative" /\ r.does = "exclude"
                  /\ "static" \notin Stamps(r)
  BY <1>4 DEF When
<1>6. A = When(noconcurrency \/ strong, Exclusions)
  BY <1>2
<1> HIDE DEF A
<1>7. Printing(A)
  <2>1. "volatile" \in Parts /\ Both(A)["incremental"] = A /\ Both(A)["static"] = A
    BY DEF Parts, Both, Modes
  <2>2. /\ {} \cup Both(A)["incremental"] = A
        /\ {} \cup Both(A)["static"] = {r \in A : r.does # "queryAtZero"}
    BY <1>5, <2>1
  <2>3. \A r \in A : Sound(r) /\ (r.part = "none" => r.does \in Partless)
    BY <1>5
  <2> QED BY <1>1, <2>1, <2>2, <2>3, EmitPrints DEF Inv
<1>8. /\ Doing(A, "law") = {} /\ Doing(A, "oneValue") = {} /\ Paired(A)
      /\ Doing(A, "exclude") = A
  BY <1>5 DEF Doing, Paired
<1>9. TypeInv' /\ OutInv' /\ AcceptedInv' /\ LawInv' /\ ValueInv'
  <2>1. TypeInv'
    BY <1>1 DEF Inv, TypeInv
  <2>2. OutInv' /\ AcceptedInv' /\ LawInv' /\ ValueInv'
    BY <1>1, <1>7, <1>8 DEF Inv, AcceptedInv, LawInv, ValueInv, Printing
  <2> QED BY <2>1, <2>2
<1>10. ExclusionInv'
  <2>1. Exclusions' = Exclusions
    BY <1>1 DEF Exclusions, Exclusion, Excluding
  <2>2. Doing(out["incremental"], "exclude") = {}
    BY <1>1 DEF Inv, ExclusionInv, When
  <2>3. Doing(out'["incremental"], "exclude") = A
    BY <1>7, <1>8, <2>2 DEF Printing
  <2> QED BY <1>1, <1>6, <2>1, <2>3 DEF ExclusionInv
<1>11. PairInv => PairInv'
  BY <1>7, <1>8 DEF PairInv, Printing
<1> QED BY <1>9, <1>10, <1>11 DEF Inv

LEMMA InitInv ==
  ASSUME Init
  PROVE  Inv /\ PairInv
<1>1. /\ ipart["static"] = "none" /\ ipart["incremental"] = "base" /\ ipart \in [Modes -> Parts]
      /\ out["static"] = {} /\ out["incremental"] = {}
  <2>1. "static" \in Modes /\ "incremental" \in Modes
    BY DEF Modes
  <2>2. ipart = [m \in Modes |-> Asserted(m, "none", "base")] /\ out = [m \in Modes |-> {}]
    BY Zenon DEF Init, Both
  <2>3. Asserted("static", "none", "base") = "none" /\ Asserted("incremental", "none", "base") = "base"
        /\ \A m : Asserted(m, "none", "base") \in Parts
    BY DEF Asserted, Parts
  <2> QED BY <2>1, <2>2, <2>3
<1>2. TypeInv
  <2>1. read \in 0..MaxStatements
    BY LawsAssumption DEF Init
  <2>2. translated \subseteq Symbols /\ accepted \subseteq Input
    BY DEF Init
  <2> QED BY <2>1, <2>2 DEF Init, TypeInv
<1>3. /\ Printed({}) = {} /\ Paired({})
      /\ Doing({}, "law") = {} /\ Doing({}, "oneValue") = {} /\ Doing({}, "exclude") = {}
  <2>1. Printed({}) = {}
    BY Zenon DEF Printed
  <2> QED BY <2>1 DEF Doing, Paired
<1>4. OutInv
  BY <1>1, <1>3 DEF OutInv
<1>5. AcceptedInv /\ LawInv /\ ValueInv /\ ExclusionInv /\ PairInv
  BY <1>1, <1>3 DEF Init, AcceptedInv, LawInv, ValueInv, ExclusionInv, PairInv,
                      When
<1> QED BY <1>2, <1>4, <1>5 DEF Inv

LEMMA NextInv ==
  ASSUME Inv, [Next]_vars
  PROVE  Inv' /\ (PairInv => PairInv')
<1>1. CASE UNCHANGED vars
  BY <1>1 DEF vars, Inv, TypeInv, OutInv, AcceptedInv, LawInv, ValueInv, ExclusionInv,
              Exclusions, Excluding, PairInv
<1>2. ASSUME NEW s \in Input,
             \/ TranslateConstants(s) \/ TranslateLaw(s) \/ TranslateAdditive(s)
             \/ TranslateAtStep(s) \/ TranslateQuery(s) \/ TranslateNoConcurrency(s)
      PROVE  Inv' /\ (PairInv => PairInv')
  BY <1>2, ConstantsStep, LawStep, AdditiveStep, AtStepStep, QueryStep, NoConcurrencyStep
<1>3. CASE Epilogue
  BY <1>3, EpilogueStep
<1> QED BY <1>1, <1>2, <1>3 DEF Next

LEMMA AlwaysInv == Spec => []Inv
<1>1. Init => Inv
  BY InitInv
<1>2. Inv /\ [Next]_vars => Inv'
  BY NextInv
<1> QED BY <1>1, <1>2, PTL DEF Spec

\* Every variable has its type, and every rule is in a part.
THEOREM TypesAlwaysOK == Spec => []LawsTypeOK
<1>1. ASSUME Inv PROVE LawsTypeOK
  <2>1. TypeInv /\ OutInv
    BY <1>1 DEF Inv
  <2>2. \A r \in out["incremental"] : r.part \in Parts
    BY <2>1 DEF OutInv, Sound, RuleType
  <2>3. \A r \in out["static"] : r.part = "none"
    <3>1. \A r \in out["incremental"] : Unparted(r).part = "none"
      BY <2>1 DEF OutInv, Sound, RuleType, Unparted
    <3> QED BY <2>1, <3>1 DEF OutInv, Printed
  <2>4. \A m \in Modes : {r.part : r \in out[m]} \subseteq Parts
    BY <2>2, <2>3 DEF Modes, Parts
  <2> QED BY <2>1, <2>4 DEF LawsTypeOK, TypeInv, OutInv
<1> QED BY <1>1, AlwaysInv, PTL

\* A rule is in a part where its step variable has a value: the part that a
\* statement leaves the output in never takes a rule of another.
THEOREM PartsAlwaysFit == Spec => []PartsFit
<1>1. ASSUME Inv PROVE PartsFit
  <2> SUFFICES ASSUME NEW r \in out["incremental"]
               PROVE  /\ r.part # "none"
                      /\ r.part = "base" => Stamps(r) \subseteq {"zero", "one"}
                      /\ r.part = "cumulative" => "maxstep" \notin Stamps(r)
    BY DEF PartsFit
  <2>1. Stamps(r) \subseteq Allowed(r.part) /\ r.part # "none"
    BY <1>1 DEF Inv, OutInv, Sound
  <2> QED BY <2>1, AllowedIs DEF Steady
<1> QED BY <1>1, AlwaysInv, PTL
-----------------------------------------------------------------------------
(* The ground programs. *)

\* Both programs are made of the rules of the incremental output.
LEMMA ProgramIs ==
  ASSUME OutInv, NEW m \in Modes, NEW h, NEW g
  PROVE  g \in Program(m, h) <=>
           \E r \in out["incremental"] :
             r.does # "queryAtZero" /\ \E v \in Valuations(m, r, h) : g = GroundRule(r, v, h)
<1>1. g \in Program(m, h) <=>
        \E q \in out[m] :
          q.does # "queryAtZero" /\ \E v \in Valuations(m, q, h) : g = GroundRule(q, v, h)
  <2> DEFINE Q == {r \in out[m] : r.does # "queryAtZero"}
             G(q) == {GroundRule(q, v, h) : v \in Valuations(m, q, h)}
  <2>1. Program(m, h) = UNION {G(q) : q \in Q}
    BY Zenon DEF Program
  <2>2. \A q : g \in G(q) <=> \E v \in Valuations(m, q, h) : g = GroundRule(q, v, h)
    OBVIOUS
  <2>3. \A q : q \in Q <=> q \in out[m] /\ q.does # "queryAtZero"
    OBVIOUS
  <2> HIDE DEF Q, G
  <2>4. g \in Program(m, h) <=> \E q \in Q : g \in G(q)
    BY <2>1
  <2> QED BY <2>2, <2>3, <2>4
<1>2. CASE m = "incremental"
  BY <1>1, <1>2
<1>3. CASE m = "static"
  <2>1. \A r \in out["incremental"] :
          /\ Valuations("static", Unparted(r), h) = Valuations("static", r, h)
          /\ \A v : GroundRule(Unparted(r), v, h) = GroundRule(r, v, h)
          /\ Unparted(r).does = r.does
    <3> SUFFICES ASSUME NEW r \in out["incremental"]
                 PROVE  /\ Valuations("static", Unparted(r), h) = Valuations("static", r, h)
                        /\ \A v : GroundRule(Unparted(r), v, h) = GroundRule(r, v, h)
                        /\ Unparted(r).does = r.does
      OBVIOUS
    <3>1. r \in RuleType /\ "none" \in Parts
      BY DEF OutInv, Sound, Parts
    <3>2. /\ Unparted(r).does = r.does /\ Unparted(r).head = r.head
          /\ Unparted(r).body = r.body /\ Stamps(Unparted(r)) = Stamps(r)
      BY <3>1, Repart DEF Unparted
    <3>3. Valuations("static", Unparted(r), h) = Valuations("static", r, h)
      BY <3>2 DEF Valuations
    <3>4. \A v : GroundRule(Unparted(r), v, h) = GroundRule(r, v, h)
      BY <3>2 DEF GroundRule
    <3> QED BY <3>2, <3>3, <3>4
  <2>2. \A q : q \in out["static"] <=>
          \E r \in out["incremental"] : r.does # "queryAtZero" /\ q = Unparted(r)
    BY DEF OutInv, Printed
  <2>3. ASSUME g \in Program(m, h)
        PROVE  \E r \in out["incremental"] :
                 r.does # "queryAtZero" /\ \E v \in Valuations(m, r, h) : g = GroundRule(r, v, h)
    <3>1. PICK q \in out["static"] : \E v \in Valuations("static", q, h) : g = GroundRule(q, v, h)
      BY <1>1, <1>3, <2>3
    <3>2. PICK r \in out["incremental"] : r.does # "queryAtZero" /\ q = Unparted(r)
      BY <2>2
    <3> QED BY <1>3, <2>1, <3>1, <3>2
  <2>4. ASSUME NEW r \in out["incremental"], r.does # "queryAtZero",
               NEW v \in Valuations(m, r, h), g = GroundRule(r, v, h)
        PROVE  g \in Program(m, h)
    <3>1. Unparted(r) \in out["static"] /\ Unparted(r).does # "queryAtZero"
      BY <2>1, <2>2, <2>4
    <3>2. v \in Valuations("static", Unparted(r), h) /\ g = GroundRule(Unparted(r), v, h)
      BY <1>3, <2>1, <2>4
    <3> QED BY <1>1, <1>3, <3>1, <3>2
  <2> QED BY <2>3, <2>4
<1> QED BY <1>2, <1>3 DEF Modes

\* A formula at a step, and the body of a rule at the steps of a valuation.
FormulaAt(f, n) == {Ground(j, n) : j \in f}
BodyAt(f, v, h) == {Ground(j, StepOf(j.ts, v, h)) : j \in f}

LEMMA GroundFields ==
  ASSUME NEW r, NEW v, NEW h
  PROVE  /\ GroundRule(r, v, h).does = r.does
         /\ GroundRule(r, v, h).head = Ground(r.head, StepOf(r.head.ts, v, h))
         /\ GroundRule(r, v, h).head.of = r.head.of
         /\ GroundRule(r, v, h).body = BodyAt(r.body, v, h)
<1>1. /\ GroundRule(r, v, h).does = r.does
      /\ GroundRule(r, v, h).head = Ground(r.head, StepOf(r.head.ts, v, h))
      /\ GroundRule(r, v, h).body = {Ground(j, StepOf(j.ts, v, h)) : j \in r.body}
  BY DEF GroundRule
<1>2. \A j, n : Ground(j, n).of = j.of
  BY DEF Ground
<1> QED BY <1>1, <1>2 DEF BodyAt

LEMMA PairFields ==
  ASSUME NEW S, NEW T
  PROVE  /\ \A a \in S, b \in T : [st |-> a, at |-> b] \in [st : S, at : T]
         /\ \A v \in [st : S, at : T] : v.st \in S /\ v.at \in T
  OBVIOUS

\* What the step variables say of the steps of a rule.
LEMMA StepsAre ==
  ASSUME NEW m \in Modes, NEW h \in Nat \ {0}, NEW r, r.part \in {"base", "cumulative", "volatile"}
  PROVE  /\ Valuations(m, r, h) # {}
         /\ \A v \in Valuations(m, r, h) : v.st \in 0..h /\ v.at \in 0..h
         /\ ("dynamic" \in Stamps(r) \/ "action" \in Stamps(r)) /\ r.part = "cumulative" =>
              /\ \A v \in Valuations(m, r, h) : v.at \in 1..h
              /\ \A n \in 1..h : \E v \in Valuations(m, r, h) : v.at = n
<1>z. 0 \in 0..h /\ h \in 0..h /\ 1 \in 1..h /\ 1..h \subseteq 0..h
  OBVIOUS
<1>1. CASE m = "static"
  <2> DEFINE ats == IF Stamps(r) \cap {"dynamic", "action"} = {} THEN {1} ELSE 1..h
  <2>1. Valuations(m, r, h) = [st : 0..h, at : ats]
    BY <1>1 DEF Valuations
  <2>2. 1 \in ats /\ ats \subseteq 1..h /\ 0 \in 0..h
    OBVIOUS
  <2>3. "dynamic" \in Stamps(r) \/ "action" \in Stamps(r) => ats = 1..h
    OBVIOUS
  <2> HIDE DEF ats
  <2>4. \A n \in ats : [st |-> 0, at |-> n] \in Valuations(m, r, h)
    BY <1>z, <2>1, PairFields
  <2>5. \A v \in Valuations(m, r, h) : v.st \in 0..h /\ v.at \in 1..h
    <3>1. \A v \in Valuations(m, r, h) : v.st \in 0..h /\ v.at \in ats
      BY <2>1, PairFields
    <3> QED BY <2>2, <3>1
  <2>6. \A n \in ats : \E v \in Valuations(m, r, h) : v.at = n
    <3> SUFFICES ASSUME NEW n \in ats PROVE \E v \in Valuations(m, r, h) : v.at = n
      OBVIOUS
    <3>1. [st |-> 0, at |-> n] \in Valuations(m, r, h) /\ [st |-> 0, at |-> n].at = n
      BY <2>4
    <3> QED BY <3>1, Zenon
  <2>7. 1..h \subseteq 0..h
    OBVIOUS
  <2> QED BY <2>2, <2>3, <2>4, <2>5, <2>6, <2>7
<1>2. CASE m = "incremental"
  <2>1. CASE r.part = "cumulative"
    <3>1. Valuations(m, r, h) = {[st |-> t, at |-> t] : t \in 1..h}
      BY <1>2, <2>1 DEF Valuations
    <3>2. 1 \in 1..h /\ 1..h \subseteq 0..h
      OBVIOUS
    <3>3. \A v \in Valuations(m, r, h) : v.st \in 1..h /\ v.at \in 1..h
      BY <3>1
    <3>4. \A n \in 1..h : [st |-> n, at |-> n] \in Valuations(m, r, h)
      BY <3>1
    <3>5. \A n \in 1..h : \E v \in Valuations(m, r, h) : v.at = n
      <4> SUFFICES ASSUME NEW n \in 1..h PROVE \E v \in Valuations(m, r, h) : v.at = n
        OBVIOUS
      <4>1. [st |-> n, at |-> n] \in Valuations(m, r, h) /\ [st |-> n, at |-> n].at = n
        BY <3>4
      <4> QED BY <4>1, Zenon
    <3> QED BY <3>2, <3>3, <3>4, <3>5
  <2>2. CASE r.part = "base"
    <3>1. Valuations(m, r, h) = [st : {0}, at : {0}]
      BY <1>2, <2>2 DEF Valuations
    <3>2. [st |-> 0, at |-> 0] \in Valuations(m, r, h)
      BY <3>1
    <3>3. \A v \in Valuations(m, r, h) : v.st = 0 /\ v.at = 0
      BY <3>1
    <3> QED BY <1>z, <2>2, <3>2, <3>3
  <2>3. CASE r.part = "volatile"
    <3>1. Valuations(m, r, h) = [st : {h}, at : {h}]
      BY <1>2, <2>3 DEF Valuations
    <3>2. [st |-> h, at |-> h] \in Valuations(m, r, h)
      BY <3>1
    <3>3. \A v \in Valuations(m, r, h) : v.st = h /\ v.at = h
      BY <3>1
    <3> QED BY <1>z, <2>3, <3>2, <3>3
  <2> QED BY <2>1, <2>2, <2>3
<1> QED BY <1>1, <1>2 DEF Modes

LEMMA StampOf ==
  ASSUME NEW r
  PROVE  r.head.ts \in Stamps(r) /\ \A j \in r.body : j.ts \in Stamps(r)
  BY DEF Stamps

\* Only the steps that the time stamps of a rule stand for count.
LEMMA SameGround ==
  ASSUME NEW r, NEW v, NEW w, NEW h,
         \A ts \in Stamps(r) : StepOf(ts, v, h) = StepOf(ts, w, h)
  PROVE  GroundRule(r, v, h) = GroundRule(r, w, h)
<1>1. StepOf(r.head.ts, v, h) = StepOf(r.head.ts, w, h)
  BY StampOf
<1>2. \A j \in r.body : Ground(j, StepOf(j.ts, v, h)) = Ground(j, StepOf(j.ts, w, h))
  BY StampOf
<1>3. {Ground(j, StepOf(j.ts, v, h)) : j \in r.body} = {Ground(j, StepOf(j.ts, w, h)) : j \in r.body}
  BY <1>2, Zenon
<1> QED BY <1>1, <1>3, Zenon DEF GroundRule

\* A formula with one time stamp is, at a step, the formula at that step.
LEMMA AtGround ==
  ASSUME NEW f, NEW ts, NEW v, NEW h, NEW n, StepOf(ts, v, h) = n
  PROVE  BodyAt(At(f, ts), v, h) = FormulaAt(f, n)
<1> DEFINE stamped(j) == [of |-> j.of, neg |-> j.neg, ts |-> ts]
<1>1. \A j : Ground(stamped(j), StepOf(stamped(j).ts, v, h)) = Ground(j, n)
  BY DEF Ground
<1>2. At(f, ts) = {stamped(j) : j \in f}
  BY DEF At
<1> HIDE DEF stamped
<1>3. {Ground(j, StepOf(j.ts, v, h)) : j \in {stamped(j) : j \in f}} =
        {Ground(stamped(j), StepOf(stamped(j).ts, v, h)) : j \in f}
  BY Zenon
<1>4. {Ground(stamped(j), StepOf(stamped(j).ts, v, h)) : j \in f} = {Ground(j, n) : j \in f}
  BY <1>1, Zenon
<1> QED BY <1>2, <1>3, <1>4 DEF BodyAt, FormulaAt

LEMMA StepIs ==
  ASSUME NEW v, NEW h
  PROVE  /\ StepOf("zero", v, h) = 0 /\ StepOf("one", v, h) = 1 /\ StepOf("static", v, h) = v.st
         /\ StepOf("dynamic", v, h) = v.at /\ StepOf("action", v, h) = v.at - 1
         /\ StepOf("maxstep", v, h) = h
  BY DEF StepOf

\* The copy of a rule for every state is what it says of the initial one.
LEMMA ZeroGround ==
  ASSUME NEW r, Stamps(r) = {"static"}, NEW v, v.st = 0, NEW w, NEW h
  PROVE  GroundRule(ZeroOf(r), w, h) = GroundRule(r, v, h)
<1>1. /\ ZeroOf(r).does = r.does /\ ZeroOf(r).head = AtZero(r.head)
      /\ ZeroOf(r).body = {AtZero(j) : j \in r.body}
  BY DEF ZeroOf, Rule
<1>2. \A j, n : Ground(AtZero(j), n) = Ground(j, n) /\ AtZero(j).ts = "zero"
  BY DEF Ground, AtZero
<1>3. r.head.ts = "static" /\ \A j \in r.body : j.ts = "static"
  BY StampOf
<1>4. \A j : j.ts = "static" =>
        Ground(AtZero(j), StepOf(AtZero(j).ts, w, h)) = Ground(j, StepOf(j.ts, v, h))
  BY <1>2, StepIs
<1>5. {Ground(j, StepOf(j.ts, w, h)) : j \in {AtZero(j) : j \in r.body}} =
        {Ground(AtZero(j), StepOf(AtZero(j).ts, w, h)) : j \in r.body}
  BY Zenon
<1>6. {Ground(AtZero(j), StepOf(AtZero(j).ts, w, h)) : j \in r.body} =
        {Ground(j, StepOf(j.ts, v, h)) : j \in r.body}
  BY <1>3, <1>4, Zenon
<1>7. Ground(AtZero(r.head), StepOf(AtZero(r.head).ts, w, h)) = Ground(r.head, StepOf(r.head.ts, v, h))
  BY <1>3, <1>4
<1>8. {Ground(j, StepOf(j.ts, w, h)) : j \in ZeroOf(r).body} = {Ground(j, StepOf(j.ts, v, h)) : j \in r.body}
  BY <1>1, <1>5, <1>6
<1> QED BY <1>1, <1>7, <1>8, Zenon DEF GroundRule

\* The values of the step variables that a rule of each part takes.
LEMMA ValuationsOf ==
  ASSUME NEW h \in Nat \ {0}, NEW r
  PROVE  /\ \A a \in 0..h, b \in 1..h :
              b = 1 \/ Stamps(r) \cap {"dynamic", "action"} # {} =>
                [st |-> a, at |-> b] \in Valuations("static", r, h)
         /\ \A v \in Valuations("static", r, h) : v.st \in 0..h /\ v.at \in 1..h
         /\ r.part = "cumulative" =>
              /\ \A n \in 1..h : [st |-> n, at |-> n] \in Valuations("incremental", r, h)
              /\ \A v \in Valuations("incremental", r, h) : v.st \in 1..h /\ v.at = v.st
         /\ r.part = "base" => [st |-> 0, at |-> 0] \in Valuations("incremental", r, h)
         /\ r.part = "volatile" => [st |-> h, at |-> h] \in Valuations("incremental", r, h)
<1> DEFINE ats == IF Stamps(r) \cap {"dynamic", "action"} = {} THEN {1} ELSE 1..h
<1>1. Valuations("static", r, h) = [st : 0..h, at : ats]
  BY DEF Valuations
<1>2. 1 \in 1..h /\ ats \subseteq 1..h /\ 1 \in ats
  OBVIOUS
<1>3. \A b \in 1..h : b = 1 \/ Stamps(r) \cap {"dynamic", "action"} # {} => b \in ats
  OBVIOUS
<1> HIDE DEF ats
<1>4. \A a \in 0..h, b \in ats : [st |-> a, at |-> b] \in Valuations("static", r, h)
  BY <1>1, PairFields
<1>5. \A v \in Valuations("static", r, h) : v.st \in 0..h /\ v.at \in ats
  BY <1>1, PairFields
<1>6. ASSUME r.part = "cumulative"
      PROVE  /\ \A n \in 1..h : [st |-> n, at |-> n] \in Valuations("incremental", r, h)
             /\ \A v \in Valuations("incremental", r, h) : v.st \in 1..h /\ v.at = v.st
  <2>1. Valuations("incremental", r, h) = {[st |-> t, at |-> t] : t \in 1..h}
    BY <1>6 DEF Valuations
  <2>2. \A v \in Valuations("incremental", r, h) : v.st \in 1..h /\ v.at = v.st
    BY <2>1
  <2>3. \A n \in 1..h : [st |-> n, at |-> n] \in Valuations("incremental", r, h)
    BY <2>1
  <2> QED BY <2>2, <2>3
<1>7. r.part = "base" => [st |-> 0, at |-> 0] \in Valuations("incremental", r, h)
  BY PairFields DEF Valuations
<1>8. r.part = "volatile" => [st |-> h, at |-> h] \in Valuations("incremental", r, h)
  BY PairFields DEF Valuations
<1> QED BY <1>2, <1>3, <1>4, <1>5, <1>6, <1>7, <1>8

\* A static instance of a rule that looks back, if at all, from the step it is
\* about is an incremental one of the rule, or of its copy for the initial state.
LEMMA StaticIsIncremental ==
  ASSUME OutInv, PairInv, NEW h \in Nat \ {0},
         NEW r \in out["incremental"], ~Mixed(r), NEW v \in Valuations("static", r, h)
  PROVE  \E q \in out["incremental"] :
           q.does = r.does /\ \E w \in Valuations("incremental", q, h) :
                                GroundRule(r, v, h) = GroundRule(q, w, h)
<1>1. v.st \in 0..h /\ v.at \in 1..h
  BY ValuationsOf
<1>2. /\ Stamps(r) \subseteq Allowed(r.part) /\ r.part \in {"base", "cumulative", "volatile"}
  BY DEF OutInv, Sound, RuleType, Parts
<1> DEFINE Same(q, w) == /\ q.does = r.does /\ w \in Valuations("incremental", q, h)
                         /\ GroundRule(r, v, h) = GroundRule(q, w, h)
<1>3. CASE r.part \in {"base", "volatile"}
  <2> DEFINE n == IF r.part = "base" THEN 0 ELSE h
             w == [st |-> n, at |-> n]
  <2>1. w \in Valuations("incremental", r, h)
    BY <1>3, ValuationsOf
  <2>2. Stamps(r) \subseteq {"zero", "one", "maxstep"}
    BY <1>2, <1>3, AllowedIs DEF Steady
  <2> HIDE DEF w
  <2>3. \A ts \in Stamps(r) : StepOf(ts, v, h) = StepOf(ts, w, h)
    BY <2>2, StepIs
  <2>4. Same(r, w)
    BY <2>1, <2>3, SameGround
  <2> QED BY <2>4
<1>4. CASE r.part = "cumulative" /\ "static" \notin Stamps(r)
  <2> DEFINE w == [st |-> v.at, at |-> v.at]
  <2>1. w \in Valuations("incremental", r, h) /\ w.at = v.at
    BY <1>1, <1>4, ValuationsOf
  <2>2. Stamps(r) \subseteq {"zero", "one", "dynamic", "action"}
    BY <1>2, <1>4, AllowedIs
  <2> HIDE DEF w
  <2>3. \A ts \in Stamps(r) : StepOf(ts, v, h) = StepOf(ts, w, h)
    BY <2>1, <2>2, StepIs
  <2>4. Same(r, w)
    BY <2>1, <2>3, SameGround
  <2> QED BY <2>4
<1>5. CASE r.part = "cumulative" /\ "static" \in Stamps(r)
  <2>1. Stamps(r) = {"static"} /\ ZeroOf(r) \in out["incremental"]
    BY <1>5, Zenon DEF PairInv, Paired
  <2>2. CASE v.st = 0
    <3> DEFINE w == [st |-> 0, at |-> 0]
    <3>1. ZeroOf(r).part = "base" /\ ZeroOf(r).does = r.does
      BY DEF ZeroOf, Rule
    <3>2. w \in Valuations("incremental", ZeroOf(r), h)
      BY <3>1, ValuationsOf
    <3> HIDE DEF w
    <3>3. GroundRule(ZeroOf(r), w, h) = GroundRule(r, v, h)
      BY <2>1, <2>2, ZeroGround
    <3> QED BY <2>1, <3>1, <3>2, <3>3
  <2>3. CASE v.st # 0
    <3> DEFINE w == [st |-> v.st, at |-> v.st]
    <3>1. v.st \in 1..h
      BY <1>1, <2>3
    <3>2. w \in Valuations("incremental", r, h) /\ w.st = v.st
      BY <1>5, <3>1, ValuationsOf
    <3> HIDE DEF w
    <3>3. \A ts \in Stamps(r) : StepOf(ts, v, h) = StepOf(ts, w, h)
      BY <2>1, <3>2, StepIs
    <3>4. Same(r, w)
      BY <3>2, <3>3, SameGround
    <3> QED BY <3>4
  <2> QED BY <2>2, <2>3
<1> QED BY <1>2, <1>3, <1>4, <1>5

LEMMA IncrementalIsStatic ==
  ASSUME OutInv, PairInv, NEW h \in Nat \ {0},
         NEW r \in out["incremental"], NEW v \in Valuations("incremental", r, h)
  PROVE  \E w \in Valuations("static", r, h) : GroundRule(r, v, h) = GroundRule(r, w, h)
<1>1. /\ Stamps(r) \subseteq Allowed(r.part) /\ r.part \in {"base", "cumulative", "volatile"}
  BY DEF OutInv, Sound, RuleType, Parts
<1>2. 0 \in 0..h /\ 1 \in 1..h /\ 1..h \subseteq 0..h
  OBVIOUS
<1>3. CASE r.part \in {"base", "volatile"}
  <2> DEFINE w == [st |-> 0, at |-> 1]
  <2>1. w \in Valuations("static", r, h)
    BY <1>2, ValuationsOf
  <2>2. Stamps(r) \subseteq {"zero", "one", "maxstep"}
    BY <1>1, <1>3, AllowedIs DEF Steady
  <2> HIDE DEF w
  <2>3. \A ts \in Stamps(r) : StepOf(ts, v, h) = StepOf(ts, w, h)
    BY <2>2, StepIs
  <2> QED BY <2>1, <2>3, SameGround
<1>4. CASE r.part = "cumulative"
  <2>1. v.st \in 1..h /\ v.at = v.st
    BY <1>4, ValuationsOf
  <2>2. CASE Stamps(r) \cap {"dynamic", "action"} # {}
    <3> DEFINE w == [st |-> v.st, at |-> v.st]
    <3>1. w \in Valuations("static", r, h) /\ w.st = v.st /\ w.at = v.at
      BY <1>2, <2>1, <2>2, ValuationsOf
    <3> HIDE DEF w
    <3>2. \A ts \in Stamps(r) : StepOf(ts, v, h) = StepOf(ts, w, h)
      BY <3>1, SMT DEF StepOf
    <3> QED BY <3>1, <3>2, SameGround
  <2>3. CASE Stamps(r) \cap {"dynamic", "action"} = {}
    <3> DEFINE w == [st |-> v.st, at |-> 1]
    <3>1. w \in Valuations("static", r, h) /\ w.st = v.st
      BY <1>2, <2>1, ValuationsOf
    <3>2. Stamps(r) \subseteq {"zero", "one", "static"}
      BY <1>1, <1>4, <2>3, AllowedIs
    <3> HIDE DEF w
    <3>3. \A ts \in Stamps(r) : StepOf(ts, v, h) = StepOf(ts, w, h)
      BY <3>1, <3>2, StepIs
    <3> QED BY <3>1, <3>3, SameGround
  <2> QED BY <2>2, <2>3
<1> QED BY <1>1, <1>3, <1>4

\* The rules that look back from every state are those of the unanchored laws.
LEMMA MixedRules ==
  ASSUME Inv, NEW r \in out["incremental"], Mixed(r)
  PROVE  \E s \in accepted : Unanchored(s) /\ r = StepCopy(Normal(s)) /\ HeadTime(Normal(s)) = "static"
<1>1. r \in Doing(out["incremental"], "law")
  BY DEF Mixed, Doing
<1>2. PICK s \in accepted : r \in RulesOf(Normal(s))
  BY <1>1, Zenon DEF Inv, LawInv
<1> DEFINE l == Normal(s)
<1>3. l \in LawForms /\ l.unless = s.unless /\ l.after = Before(s)
  BY NormalSays DEF Inv, TypeInv, AcceptedInv
<1>a. r \in {BaseCopy(l), StepCopy(l)}
  BY <1>2 DEF RulesOf, When
<1> HIDE DEF l
<1>4. r = StepCopy(l)
  <2>1. Stamps(BaseCopy(l)) \subseteq Steady
    BY <1>3, CopiesSound, AllowedIs DEF Sound
  <2> QED BY <1>a, <2>1 DEF Mixed, Steady
<1>5. /\ r.head.ts = HeadTime(l)
      /\ r.body = At(l.if \cup l.ifcons, HeadTime(l)) \cup At(l.after \cup l.unless, "action")
  <2>1. /\ r.head = HeadAt(l.head, HeadTime(l))
        /\ r.body = At(l.if \cup l.ifcons, HeadTime(l)) \cup At(l.after \cup l.unless, "action")
    BY <1>3, <1>4, CopiesSound, Zenon
  <2> QED BY <2>1 DEF HeadAt
<1>6. HeadTime(l) = "static"
  BY <1>5 DEF Mixed, Stamps, At
<1>7. l.after = {}
  BY <1>6 DEF HeadTime
<1>8. l.unless # {}
  <2>1. l.after \cup l.unless = {} => \A j \in r.body : j.ts = "static"
    BY <1>5, <1>6 DEF At
  <2> QED BY <1>5, <1>6, <1>7, <2>1 DEF Mixed, Stamps
<1> QED BY <1>3, <1>4, <1>6, <1>7, <1>8 DEF Unanchored, l

\* And the other way round: an unanchored law is printed for every state.
LEMMA UnanchoredRule ==
  ASSUME Inv, NEW s \in accepted, Unanchored(s)
  PROVE  /\ StepCopy(Normal(s)) \in out["incremental"]
         /\ HeadTime(Normal(s)) = "static" /\ "action" \in Stamps(StepCopy(Normal(s)))
<1> DEFINE l == Normal(s)
<1>1. /\ l \in LawForms /\ l.unless = s.unless /\ l.after = Before(s) /\ WellFormed(l)
  BY NormalSays DEF Inv, TypeInv, AcceptedInv
<1> HIDE DEF l
<1>2. Dynamic(l) /\ LawType(l) \notin {"rigid", "actionDynamic"}
  BY <1>1 DEF Unanchored, Dynamic, WellFormed
<1>3. HeadMask(l.head) \cap Actions = {}
  BY <1>2 DEF LawType
<1>4. HeadTime(l) = "static"
  BY <1>1, <1>3 DEF HeadTime, Unanchored
<1>5. StepCopy(l) \in RulesOf(l)
  BY <1>2 DEF RulesOf, When
<1>6. StepCopy(l) \in out["incremental"]
  <2>1. StepCopy(l) \in UNION {RulesOf(Normal(x)) : x \in accepted}
    BY <1>5 DEF l
  <2> QED BY <2>1 DEF Inv, LawInv, Doing
<1>7. "action" \in Stamps(StepCopy(l))
  <2>1. PICK j \in l.unless : TRUE
    BY <1>1 DEF Unanchored
  <2>2. [of |-> j.of, neg |-> j.neg, ts |-> "action"] \in At(l.after \cup l.unless, "action")
    BY DEF At
  <2>3. [of |-> j.of, neg |-> j.neg, ts |-> "action"] \in StepCopy(l).body
    BY <1>1, <2>2, CopiesSound
  <2> QED BY <2>3 DEF Stamps
<1> QED BY <1>4, <1>6, <1>7 DEF l

\* An instance of the rule of an unanchored law: the state and the action its
\* step variables stand for, each on its own.
LEMMA CrossingIs ==
  ASSUME Inv, NEW s \in accepted, HeadTime(Normal(s)) = "static", Before(s) = {}, NEW v, NEW h
  PROVE  GroundRule(StepCopy(Normal(s)), v, h) = Crossing(s, v.st, v.at - 1)
<1> DEFINE l == Normal(s)
           r == StepCopy(l)
<1>1. /\ l \in LawForms /\ l.head = s.head /\ l.unless = s.unless /\ l.after = {}
      /\ l.if \cup l.ifcons = Now(s) /\ HeadTime(l) = "static"
  BY NormalSays DEF Inv, TypeInv, AcceptedInv
<1> HIDE DEF l
<1>2. /\ r.head = HeadAt(s.head, "static") /\ r.does = "law"
      /\ r.body = At(Now(s), "static") \cup At(s.unless, "action")
  <2>1. l.after \cup l.unless = s.unless
    BY <1>1
  <2>2. /\ r.head = HeadAt(l.head, HeadTime(l)) /\ r.does = "law"
        /\ r.body = At(l.if \cup l.ifcons, HeadTime(l)) \cup At(l.after \cup l.unless, "action")
    BY <1>1, CopiesSound, Zenon
  <2> QED BY <1>1, <2>1, <2>2
<1> HIDE DEF r
<1>3. StepOf("static", v, h) = v.st /\ StepOf("action", v, h) = v.at - 1
  BY StepIs
<1>4. BodyAt(r.body, v, h) = FormulaAt(Now(s), v.st) \cup FormulaAt(s.unless, v.at - 1)
  <2>1. BodyAt(At(Now(s), "static"), v, h) = FormulaAt(Now(s), v.st)
    BY <1>3, AtGround
  <2>3. BodyAt(At(s.unless, "action"), v, h) = FormulaAt(s.unless, v.at - 1)
    BY <1>3, AtGround
  <2>2. \A f, g : BodyAt(f \cup g, v, h) = BodyAt(f, v, h) \cup BodyAt(g, v, h)
    BY Zenon DEF BodyAt
  <2>4. BodyAt(r.body, v, h) =
          BodyAt(At(Now(s), "static"), v, h) \cup BodyAt(At(s.unless, "action"), v, h)
    BY <1>2, <2>2
  <2> QED BY <2>1, <2>3, <2>4
<1>5. Ground(r.head, StepOf(r.head.ts, v, h)) = Ground(HeadAt(s.head, "zero"), v.st)
  <2>1. r.head.ts = "static" /\ \A n : Ground(r.head, n) = Ground(HeadAt(s.head, "zero"), n)
    BY <1>2 DEF Ground, HeadAt
  <2> QED BY <1>3, <2>1
<1>6. GroundRule(r, v, h) =
        [does |-> r.does, head |-> Ground(r.head, StepOf(r.head.ts, v, h)),
         body |-> BodyAt(r.body, v, h)]
  BY Zenon DEF GroundRule, BodyAt
<1>7. GroundRule(r, v, h) = Crossing(s, v.st, v.at - 1)
  BY <1>2, <1>4, <1>5, <1>6, Zenon DEF Crossing, FormulaAt
<1> QED BY <1>7 DEF r, l

LEMMA CrossedIs ==
  ASSUME NEW h, NEW g
  PROVE  g \in Crossed(h) <=>
           \E s \in accepted, n \in 0..h, k \in 0..(h - 1) : Unanchored(s) /\ g = Crossing(s, n, k)
<1> DEFINE Of(s) == {Crossing(s, n, k) : n \in 0..h, k \in 0..(h - 1)}
           S == {s \in accepted : Unanchored(s)}
<1>1. Crossed(h) = UNION {Of(s) : s \in S}
  BY DEF Crossed
<1>2. \A s : g \in Of(s) <=> \E n \in 0..h, k \in 0..(h - 1) : g = Crossing(s, n, k)
  OBVIOUS
<1>3. \A s : s \in S <=> s \in accepted /\ Unanchored(s)
  OBVIOUS
<1> HIDE DEF Of, S
<1>4. g \in Crossed(h) <=> \E s \in S : g \in Of(s)
  BY <1>1
<1> QED BY <1>2, <1>3, <1>4

\* The static and the incremental output ground to the same program at every
\* horizon, but for the laws with an exception and no look at the step before:
\* of those the static output holds every state with every action.
THEOREM ModesAlwaysAgree == Spec => []ModesAgree
<1>1. ASSUME Inv, PairInv PROVE ModesAgree
  <2> SUFFICES ASSUME NEW h \in 1..MaxStep
               PROVE  Program("static", h) = Program("incremental", h) \cup Crossed(h)
    BY DEF ModesAgree
  <2>1. OutInv /\ h \in Nat \ {0}
    BY <1>1, LawsAssumption DEF Inv
  <2>2. "static" \in Modes /\ "incremental" \in Modes
    BY DEF Modes
  <2>3. ASSUME NEW g \in Program("static", h)
        PROVE  g \in Program("incremental", h) \cup Crossed(h)
    <3>1. PICK r \in out["incremental"] :
            r.does # "queryAtZero" /\ \E v \in Valuations("static", r, h) : g = GroundRule(r, v, h)
      BY <2>1, <2>2, ProgramIs
    <3>2. PICK v \in Valuations("static", r, h) : g = GroundRule(r, v, h)
      BY <3>1
    <3>3. CASE ~Mixed(r)
      <4>1. \E q \in out["incremental"] :
              q.does = r.does /\ \E w \in Valuations("incremental", q, h) :
                                   GroundRule(r, v, h) = GroundRule(q, w, h)
        BY <1>1, <2>1, <3>3, StaticIsIncremental
      <4>2. \E q \in out["incremental"] :
              q.does # "queryAtZero"
              /\ \E w \in Valuations("incremental", q, h) : g = GroundRule(q, w, h)
        BY <3>1, <3>2, <4>1
      <4> QED BY <2>1, <2>2, <4>2, ProgramIs
    <3>4. CASE Mixed(r)
      <4>1. PICK s \in accepted : /\ Unanchored(s) /\ r = StepCopy(Normal(s))
                                 /\ HeadTime(Normal(s)) = "static"
        BY <1>1, <3>4, MixedRules
      <4>2. g = Crossing(s, v.st, v.at - 1)
        BY <1>1, <3>2, <4>1, CrossingIs DEF Unanchored
      <4>3. v.st \in 0..h /\ v.at - 1 \in 0..(h - 1)
        <5>1. v.st \in 0..h /\ v.at \in 1..h
          BY <2>1, ValuationsOf
        <5> QED BY <2>1, <5>1
      <4> QED BY <4>1, <4>2, <4>3, CrossedIs
    <3> QED BY <3>3, <3>4
  <2>4. ASSUME NEW g \in Program("incremental", h) PROVE g \in Program("static", h)
    <3>1. PICK r \in out["incremental"] :
            r.does # "queryAtZero" /\ \E v \in Valuations("incremental", r, h) : g = GroundRule(r, v, h)
      BY <2>1, <2>2, ProgramIs
    <3>2. PICK v \in Valuations("incremental", r, h) : g = GroundRule(r, v, h)
      BY <3>1
    <3>3. \E w \in Valuations("static", r, h) : g = GroundRule(r, w, h)
      BY <1>1, <2>1, <3>2, IncrementalIsStatic
    <3> QED BY <2>1, <2>2, <3>1, <3>3, ProgramIs
  <2>5. ASSUME NEW g \in Crossed(h) PROVE g \in Program("static", h)
    <3>1. PICK s \in accepted, n \in 0..h, k \in 0..(h - 1) :
            Unanchored(s) /\ g = Crossing(s, n, k)
      BY CrossedIs
    <3> DEFINE r == StepCopy(Normal(s))
               v == [st |-> n, at |-> k + 1]
    <3>2. r \in out["incremental"] /\ HeadTime(Normal(s)) = "static" /\ "action" \in Stamps(r)
      BY <1>1, <3>1, UnanchoredRule
    <3>3. v.st = n /\ v.at - 1 = k /\ k + 1 \in 1..h
      BY <2>1
    <3>4. v \in Valuations("static", r, h)
      <4> HIDE DEF r
      <4> QED BY <2>1, <3>2, <3>3, ValuationsOf
    <3>5. GroundRule(r, v, h) = Crossing(s, v.st, v.at - 1)
      <4> HIDE DEF v
      <4> QED BY <1>1, <3>1, <3>2, CrossingIs DEF Unanchored
    <3>6. g = GroundRule(r, v, h)
      BY <3>1, <3>3, <3>5
    <3>7. r.does # "queryAtZero"
      BY DEF StepCopy, Rule
    <3> HIDE DEF r, v
    <3> QED BY <2>1, <2>2, <3>2, <3>4, <3>6, <3>7, ProgramIs
  <2>6. /\ Program("static", h) \subseteq Program("incremental", h) \cup Crossed(h)
        /\ Program("incremental", h) \cup Crossed(h) \subseteq Program("static", h)
    BY <2>3, <2>4, <2>5, Zenon
  <2> QED BY <2>6, Zenon
<1>2. Init => Inv /\ PairInv
  BY InitInv
<1>3. Inv /\ PairInv /\ [Next]_vars => Inv' /\ PairInv'
  BY NextInv
<1> QED BY <1>1, <1>2, <1>3, PTL DEF Spec
-----------------------------------------------------------------------------
(* One value, and actions that exclude one another. *)

\* The instance of a rule that gives c one value at a step.
Gives(g, c, n) == /\ g.does = "oneValue" /\ g.head.of = {c}
                  /\ Type[c] = "rigid" => g.head.at = {}
                  /\ Type[c] # "rigid" => g.head.at = {n}

LEMMA ValueGround ==
  ASSUME NEW c \in Symbols, NEW p, NEW ts, NEW v, NEW h
  PROVE  Gives(GroundRule(Plain(c, p, "oneValue", ts), v, h), c, StepOf(ts, v, h))
<1> DEFINE r == Plain(c, p, "oneValue", ts)
<1>1. r.does = "oneValue" /\ r.head = HeadAt({c}, ts) /\ r.head.of = {c} /\ r.head.ts = ts
  BY DEF Plain, Rule, HeadAt
<1>2. {Type[x] : x \in {c}} \subseteq {"rigid"} <=> Type[c] = "rigid"
  OBVIOUS
<1>3. /\ Type[c] = "rigid" => \A n : Ground(r.head, n).at = {}
      /\ Type[c] # "rigid" => \A n : Ground(r.head, n).at = {n}
  BY <1>1, <1>2 DEF Ground
<1> HIDE DEF r
<1> DEFINE g == GroundRule(r, v, h)
<1>4. /\ g.does = r.does /\ g.head.of = r.head.of
      /\ g.head = Ground(r.head, StepOf(r.head.ts, v, h))
  BY GroundFields
<1> HIDE DEF g
<1>5. Gives(g, c, StepOf(ts, v, h))
  BY <1>1, <1>3, <1>4, Zenon DEF Gives
<1> QED BY <1>5 DEF g, r

LEMMA ValueRules ==
  ASSUME NEW c \in Symbols
  PROVE  /\ Type[c] = "rigid" => Values(c) = {Plain(c, "base", "oneValue", "zero")}
         /\ Type[c] \in Actions => Values(c) = {Plain(c, "cumulative", "oneValue", "action")}
         /\ Type[c] \notin Actions \cup {"rigid"} =>
              Values(c) = {Plain(c, "base", "oneValue", "zero"),
                           Plain(c, "cumulative", "oneValue", "dynamic")}
<1>1. "rigid" \notin Actions
  BY DEF Actions, Regular
<1> QED BY <1>1 DEF Values, When

LEMMA PlainFields ==
  ASSUME NEW c, NEW p, NEW d, NEW ts
  PROVE  /\ Plain(c, p, d, ts).part = p /\ Plain(c, p, d, ts).does = d
         /\ Plain(c, p, d, ts).head.of = {c} /\ Stamps(Plain(c, p, d, ts)) = {ts}
  BY DEF Plain, Rule, HeadAt, Stamps

\* The steps of the heads of the instances of a rule.
HeadSteps(m, r, h) == {GroundRule(r, v, h).head.at : v \in Valuations(m, r, h)}

\* At which steps a constant that was translated has one value.
LEMMA ValuesAt ==
  ASSUME Inv, NEW m \in Modes, NEW h \in Nat \ {0}, NEW c \in translated
  PROVE  {r.head.at : r \in {r \in Program(m, h) : r.does = "oneValue" /\ r.head.of = {c}}} =
           UNION {HeadSteps(m, r, h) : r \in Values(c)}
<1>0. /\ OutInv /\ c \in Symbols /\ translated \subseteq Symbols
      /\ Doing(out["incremental"], "oneValue") = UNION {Values(d) : d \in translated}
  BY DEF Inv, TypeInv, ValueInv
<1>1. ASSUME NEW d \in translated, NEW r \in Values(d), NEW v
      PROVE  GroundRule(r, v, h).does = "oneValue" /\ GroundRule(r, v, h).head.of = {d}
  <2>1. d \in Symbols
    BY <1>0
  <2>2. PICK p, ts : r = Plain(d, p, "oneValue", ts)
    BY DEF Values, When
  <2>3. Gives(GroundRule(r, v, h), d, StepOf(ts, v, h))
    BY <2>1, <2>2, ValueGround
  <2> QED BY <2>3 DEF Gives
<1> DEFINE P == {r \in Program(m, h) : r.does = "oneValue" /\ r.head.of = {c}}
           I == UNION {{GroundRule(r, v, h) : v \in Valuations(m, r, h)} : r \in Values(c)}
<1>2. ASSUME NEW g \in P PROVE g \in I
  <2>1. PICK r \in out["incremental"] : \E v \in Valuations(m, r, h) : g = GroundRule(r, v, h)
    BY <1>0, ProgramIs
  <2>2. PICK v \in Valuations(m, r, h) : g = GroundRule(r, v, h)
    BY <2>1
  <2>3. g.does = "oneValue" /\ g.head.of = {c}
    OBVIOUS
  <2>4. r.does = "oneValue"
    <3>1. GroundRule(r, v, h).does = r.does
      BY GroundFields
    <3> QED BY <2>2, <2>3, <3>1
  <2>5. PICK d \in translated : r \in Values(d)
    BY <1>0, <2>4 DEF Doing
  <2>6. GroundRule(r, v, h).head.of = {d}
    BY <1>1, <2>5
  <2>7. d = c
    BY <2>2, <2>3, <2>6
  <2> QED BY <2>2, <2>5, <2>7
<1>3. ASSUME NEW r \in Values(c), NEW v \in Valuations(m, r, h)
      PROVE  GroundRule(r, v, h) \in P
  <2>1. r \in out["incremental"] /\ r.does = "oneValue"
    BY <1>0 DEF Doing
  <2>2. GroundRule(r, v, h) \in Program(m, h)
    BY <1>0, <2>1, ProgramIs
  <2> QED BY <1>1, <2>2
<1>4. P = I
  BY <1>2, <1>3
<1>5. {g.head.at : g \in I} = UNION {HeadSteps(m, r, h) : r \in Values(c)}
  <2>1. ASSUME NEW r \in Values(c), NEW v \in Valuations(m, r, h)
        PROVE  GroundRule(r, v, h) \in I /\ GroundRule(r, v, h).head.at \in HeadSteps(m, r, h)
    BY DEF HeadSteps
  <2>2. \A g \in I : \E r \in Values(c) : \E v \in Valuations(m, r, h) : g = GroundRule(r, v, h)
    OBVIOUS
  <2>3. \A r : \A x \in HeadSteps(m, r, h) : \E v \in Valuations(m, r, h) : x = GroundRule(r, v, h).head.at
    BY DEF HeadSteps
  <2> HIDE DEF I
  <2>4. ASSUME NEW g \in I PROVE g.head.at \in UNION {HeadSteps(m, r, h) : r \in Values(c)}
    BY <2>1, <2>2
  <2>5. ASSUME NEW r \in Values(c), NEW x \in HeadSteps(m, r, h) PROVE x \in {g.head.at : g \in I}
    BY <2>1, <2>3
  <2> QED BY <2>4, <2>5
<1> QED BY <1>4, <1>5

LEMMA HeadStepsOf ==
  ASSUME NEW m \in Modes, NEW h \in Nat \ {0}, NEW c \in Symbols
  PROVE  /\ Type[c] = "rigid" => HeadSteps(m, Plain(c, "base", "oneValue", "zero"), h) = {{}}
         /\ Type[c] # "rigid" =>
              /\ HeadSteps(m, Plain(c, "base", "oneValue", "zero"), h) = {{0}}
              /\ HeadSteps(m, Plain(c, "cumulative", "oneValue", "action"), h) =
                   {{n - 1} : n \in 1..h}
              /\ HeadSteps(m, Plain(c, "cumulative", "oneValue", "dynamic"), h) =
                   {{n} : n \in 1..h}
<1> DEFINE rb == Plain(c, "base", "oneValue", "zero")
           ra == Plain(c, "cumulative", "oneValue", "action")
           rd == Plain(c, "cumulative", "oneValue", "dynamic")
<1>1. /\ rb.part = "base" /\ ra.part = "cumulative" /\ rd.part = "cumulative"
      /\ Stamps(ra) = {"action"} /\ Stamps(rd) = {"dynamic"}
  BY PlainFields
<1>2. \A v : /\ Gives(GroundRule(rb, v, h), c, 0)
             /\ Gives(GroundRule(ra, v, h), c, v.at - 1)
             /\ Gives(GroundRule(rd, v, h), c, v.at)
  <2> SUFFICES ASSUME NEW v
               PROVE  /\ Gives(GroundRule(rb, v, h), c, 0)
                      /\ Gives(GroundRule(ra, v, h), c, v.at - 1)
                      /\ Gives(GroundRule(rd, v, h), c, v.at)
    OBVIOUS
  <2>1. /\ Gives(GroundRule(rb, v, h), c, StepOf("zero", v, h))
        /\ Gives(GroundRule(ra, v, h), c, StepOf("action", v, h))
        /\ Gives(GroundRule(rd, v, h), c, StepOf("dynamic", v, h))
    BY ValueGround
  <2> QED BY <2>1, StepIs
<1>3. /\ "dynamic" \in Stamps(rd) /\ "action" \in Stamps(ra)
      /\ {rb.part, ra.part, rd.part} \subseteq {"base", "cumulative", "volatile"}
  BY <1>1
<1> HIDE DEF rb, ra, rd
<1>4. Valuations(m, rb, h) # {}
  BY <1>3, StepsAre
<1>5. /\ \A v \in Valuations(m, ra, h) : v.at \in 1..h
      /\ \A n \in 1..h : \E v \in Valuations(m, ra, h) : v.at = n
  BY <1>1, <1>3, StepsAre
<1>6. /\ \A v \in Valuations(m, rd, h) : v.at \in 1..h
      /\ \A n \in 1..h : \E v \in Valuations(m, rd, h) : v.at = n
  BY <1>1, <1>3, StepsAre
<1>7. Type[c] = "rigid" => HeadSteps(m, rb, h) = {{}}
  BY <1>2, <1>4 DEF HeadSteps, Gives
<1>8. ASSUME Type[c] # "rigid"
      PROVE  /\ HeadSteps(m, rb, h) = {{0}}
             /\ HeadSteps(m, ra, h) = {{n - 1} : n \in 1..h}
             /\ HeadSteps(m, rd, h) = {{n} : n \in 1..h}
  <2> DEFINE at(r, v) == GroundRule(r, v, h).head.at
  <2>a. \A r : HeadSteps(m, r, h) = {at(r, v) : v \in Valuations(m, r, h)}
    BY Zenon DEF HeadSteps
  <2>b. ASSUME NEW v PROVE at(rb, v) = {0}
    BY <1>2, <1>8 DEF Gives
  <2>c. ASSUME NEW v PROVE at(ra, v) = {v.at - 1}
    BY <1>2, <1>8 DEF Gives
  <2>d. ASSUME NEW v PROVE at(rd, v) = {v.at}
    BY <1>2, <1>8 DEF Gives
  <2> HIDE DEF at
  <2>1. HeadSteps(m, rb, h) = {{0}}
    <3>1. \E v \in Valuations(m, rb, h) : TRUE
      BY <1>4
    <3>2. {at(rb, v) : v \in Valuations(m, rb, h)} = {{0}}
      BY <2>b, <3>1
    <3> QED BY <2>a, <3>2
  <2>2. HeadSteps(m, ra, h) = {{n - 1} : n \in 1..h}
    <3>1. \A v \in Valuations(m, ra, h) : at(ra, v) \in {{n - 1} : n \in 1..h}
      BY <1>5, <2>c
    <3>2. \A n \in 1..h : \E v \in Valuations(m, ra, h) : at(ra, v) = {n - 1}
      BY <1>5, <2>c
    <3>3. {at(ra, v) : v \in Valuations(m, ra, h)} = {{n - 1} : n \in 1..h}
      BY <3>1, <3>2
    <3> QED BY <2>a, <3>3
  <2>3. HeadSteps(m, rd, h) = {{n} : n \in 1..h}
    <3>1. \A v \in Valuations(m, rd, h) : at(rd, v) \in {{n} : n \in 1..h}
      BY <1>6, <2>d
    <3>2. \A n \in 1..h : \E v \in Valuations(m, rd, h) : at(rd, v) = {n}
      BY <1>6, <2>d
    <3>3. {at(rd, v) : v \in Valuations(m, rd, h)} = {{n} : n \in 1..h}
      BY <3>1, <3>2
    <3> QED BY <2>a, <3>3
  <2> QED BY <2>1, <2>2, <2>3
<1> QED BY <1>7, <1>8 DEF rb, ra, rd

\* A constant that was declared has one value at each of its steps: a rigid one
\* once, an action where an action can happen, a fluent in every state.
THEOREM OneValueAtEveryStep == Spec => []OneValuePerStep
<1>1. ASSUME Inv PROVE OneValuePerStep
  <2> SUFFICES ASSUME NEW m \in Modes, NEW h \in 1..MaxStep, NEW c \in translated
               PROVE  {r.head.at : r \in {r \in Program(m, h) : r.does = "oneValue" /\ r.head.of = {c}}} =
                        CASE Type[c] = "rigid" -> {{}}
                          [] Type[c] \in Actions -> {{n} : n \in 0..(h - 1)}
                          [] OTHER -> {{n} : n \in 0..h}
    BY DEF OneValuePerStep
  <2> DEFINE L == {r.head.at : r \in {r \in Program(m, h) : r.does = "oneValue" /\ r.head.of = {c}}}
             rb == Plain(c, "base", "oneValue", "zero")
             ra == Plain(c, "cumulative", "oneValue", "action")
             rd == Plain(c, "cumulative", "oneValue", "dynamic")
  <2>1. h \in Nat \ {0} /\ c \in Symbols
    BY <1>1, LawsAssumption DEF Inv, TypeInv
  <2>2. L = UNION {HeadSteps(m, r, h) : r \in Values(c)}
    BY <1>1, <2>1, ValuesAt
  <2>3. /\ Type[c] = "rigid" => Values(c) = {rb}
        /\ Type[c] \in Actions => Values(c) = {ra}
        /\ Type[c] \notin Actions \cup {"rigid"} => Values(c) = {rb, rd}
    BY <2>1, ValueRules
  <2>4. /\ Type[c] = "rigid" => HeadSteps(m, rb, h) = {{}}
        /\ Type[c] # "rigid" => /\ HeadSteps(m, rb, h) = {{0}}
                                /\ HeadSteps(m, ra, h) = {{n - 1} : n \in 1..h}
                                /\ HeadSteps(m, rd, h) = {{n} : n \in 1..h}
    BY <2>1, HeadStepsOf
  <2>5. "rigid" \notin Actions
    BY DEF Actions, Regular
  <2> HIDE DEF L, rb, ra, rd
  <2>6. ASSUME Type[c] = "rigid" PROVE L = {{}}
    BY <2>2, <2>3, <2>4, <2>6
  <2>7. ASSUME Type[c] \in Actions PROVE L = {{n} : n \in 0..(h - 1)}
    <3>1. L = {{n - 1} : n \in 1..h}
      BY <2>2, <2>3, <2>4, <2>5, <2>7
    <3>2. {{n - 1} : n \in 1..h} \subseteq {{n} : n \in 0..(h - 1)}
      BY <2>1
    <3>3. ASSUME NEW n \in 0..(h - 1) PROVE {n} \in {{k - 1} : k \in 1..h}
      <4>1. n + 1 \in 1..h /\ (n + 1) - 1 = n
        BY <2>1
      <4> QED BY <4>1, Zenon
    <3> QED BY <3>1, <3>2, <3>3
  <2>8. ASSUME Type[c] \notin Actions \cup {"rigid"} PROVE L = {{n} : n \in 0..h}
    <3>1. L = {{0}} \cup {{n} : n \in 1..h}
      BY <2>2, <2>3, <2>4, <2>8
    <3>2. 0..h = {0} \cup 1..h
      BY <2>1
    <3> QED BY <3>1, <3>2
  <2>9. L = CASE Type[c] = "rigid" -> {{}}
              [] Type[c] \in Actions -> {{n} : n \in 0..(h - 1)}
              [] OTHER -> {{n} : n \in 0..h}
    BY <2>5, <2>6, <2>7, <2>8
  <2> QED BY <2>9 DEF L
<1> QED BY <1>1, AlwaysInv, PTL

BodiesOf(m, r, h) == {GroundRule(r, v, h).body : v \in Valuations(m, r, h)}
PairsAt(c, d, h) == {{Ground(Conjunct({c}), n), Ground(Conjunct({d}), n)} : n \in 0..(h - 1)}

\* Two actions exclude one another at the step before each value of AT or t.
LEMMA ExclusionBodies ==
  ASSUME NEW m \in Modes, NEW h \in Nat \ {0}, NEW c, NEW d
  PROVE  BodiesOf(m, Exclusion(c, d), h) = PairsAt(c, d, h)
<1> DEFINE r == Exclusion(c, d)
           f == {Conjunct({c}), Conjunct({d})}
           Pair(n) == {Ground(Conjunct({c}), n), Ground(Conjunct({d}), n)}
           V == Valuations(m, r, h)
<1>1. r.part = "cumulative" /\ r.head.ts = "action" /\ r.body = At(f, "action")
  BY DEF Exclusion, Rule, HeadAt
<1>2. "action" \in Stamps(r) /\ r.part \in {"base", "cumulative", "volatile"}
  BY <1>1 DEF Stamps
<1> HIDE DEF r
<1>3. /\ \A v \in V : v.at \in 1..h
      /\ \A n \in 1..h : \E v \in V : v.at = n
  BY <1>1, <1>2, StepsAre
<1>4. ASSUME NEW v PROVE GroundRule(r, v, h).body = Pair(v.at - 1)
  <2>1. GroundRule(r, v, h).body = BodyAt(At(f, "action"), v, h)
    BY <1>1, GroundFields, Zenon
  <2>2. BodyAt(At(f, "action"), v, h) = FormulaAt(f, v.at - 1)
    <3>1. StepOf("action", v, h) = v.at - 1
      BY StepIs
    <3> HIDE DEF f
    <3> QED BY <3>1, AtGround
  <2>3. FormulaAt(f, v.at - 1) = Pair(v.at - 1)
    BY DEF FormulaAt
  <2> QED BY <2>1, <2>2, <2>3, Zenon
<1> HIDE DEF Pair, V
<1>5. ASSUME NEW v \in V PROVE v.at - 1 \in 0..(h - 1)
  BY <1>3
<1>6. ASSUME NEW n \in 0..(h - 1) PROVE \E v \in V : v.at - 1 = n
  <2>1. n + 1 \in 1..h /\ (n + 1) - 1 = n
    OBVIOUS
  <2> QED BY <1>3, <2>1
<1>7. {GroundRule(r, v, h).body : v \in V} = {Pair(n) : n \in 0..(h - 1)}
  <2>1. {GroundRule(r, v, h).body : v \in V} \subseteq {Pair(n) : n \in 0..(h - 1)}
    BY <1>4, <1>5
  <2>2. {Pair(n) : n \in 0..(h - 1)} \subseteq {GroundRule(r, v, h).body : v \in V}
    BY <1>4, <1>6
  <2> QED BY <2>1, <2>2, Zenon
<1> QED BY <1>7, Zenon DEF r, V, Pair, BodiesOf, PairsAt

\* After the epilogue, and not before, exactly the actions that must not happen
\* together exclude one another, at every step where an action can happen.
THEOREM ActionsAlwaysExclude == Spec => []ActionsExclude
<1>1. ASSUME Inv PROVE ActionsExclude
  <2> SUFFICES ASSUME NEW m \in Modes, NEW h \in 1..MaxStep
               PROVE  {r.body : r \in {r \in Program(m, h) : r.does = "exclude"}} =
                        UNION {{{Ground(Conjunct({p[1]}), n), Ground(Conjunct({p[2]}), n)} :
                                  n \in 0..(h - 1)} :
                          p \in {q \in Symbols \X Symbols : ended /\ MustExclude(q[1], q[2])}}
    BY Zenon DEF ActionsExclude
  <2> DEFINE P == {q \in Symbols \X Symbols : ended /\ MustExclude(q[1], q[2])}
             Bodies(p) == PairsAt(p[1], p[2], h)
             Said == {r.body : r \in {r \in Program(m, h) : r.does = "exclude"}}
             R(p) == Exclusion(p[1], p[2])
             E == Doing(out["incremental"], "exclude")
  <2>1. h \in Nat \ {0} /\ OutInv
    BY <1>1, LawsAssumption DEF Inv
  <2>2. E = {R(p) : p \in P}
    <3>1. ended /\ (noconcurrency \/ strong) =>
            P = {q \in Excluding \X Excluding : q[1] # q[2]}
      BY DEF MustExclude, Excluding
    <3>2. ~(ended /\ (noconcurrency \/ strong)) => P = {}
      BY DEF MustExclude
    <3>3. E = When(ended /\ (noconcurrency \/ strong), Exclusions)
      BY <1>1 DEF Inv, ExclusionInv
    <3> HIDE DEF P, E
    <3>4. CASE ended /\ (noconcurrency \/ strong)
      BY <3>1, <3>3, <3>4, Zenon DEF When, Exclusions
    <3>5. CASE ~(ended /\ (noconcurrency \/ strong))
      BY <3>2, <3>3, <3>5 DEF When
    <3> QED BY <3>4, <3>5
  <2>3. \A p : Bodies(p) = BodiesOf(m, R(p), h)
    BY <2>1, ExclusionBodies
  <2>4. ASSUME NEW b
        PROVE  b \in Said <=> \E r \in E : \E v \in Valuations(m, r, h) : b = GroundRule(r, v, h).body
    <3>1. \A r, v : GroundRule(r, v, h).does = r.does
      BY GroundFields
    <3>2. \A g : g \in Program(m, h) <=>
            \E r \in out["incremental"] :
              r.does # "queryAtZero" /\ \E v \in Valuations(m, r, h) : g = GroundRule(r, v, h)
      BY <2>1, ProgramIs
    <3>3. ASSUME b \in Said
          PROVE  \E r \in E : \E v \in Valuations(m, r, h) : b = GroundRule(r, v, h).body
      <4>1. PICK g \in Program(m, h) : g.does = "exclude" /\ b = g.body
        BY <3>3
      <4>2. PICK r \in out["incremental"] : \E v \in Valuations(m, r, h) : g = GroundRule(r, v, h)
        BY <3>2
      <4>3. PICK v \in Valuations(m, r, h) : g = GroundRule(r, v, h)
        BY <4>2
      <4>4. r \in E
        BY <3>1, <4>1, <4>3 DEF Doing
      <4> QED BY <4>1, <4>3, <4>4
    <3>4. ASSUME NEW r \in E, NEW v \in Valuations(m, r, h), b = GroundRule(r, v, h).body
          PROVE  b \in Said
      <4>1. r \in out["incremental"] /\ r.does = "exclude"
        BY DEF Doing
      <4>2. GroundRule(r, v, h) \in Program(m, h) /\ GroundRule(r, v, h).does = "exclude"
        BY <3>1, <3>2, <4>1
      <4> QED BY <3>4, <4>2
    <3> QED BY <3>3, <3>4
  <2> HIDE DEF P, R, E, Bodies, Said
  <2>5. \A b : b \in Said <=> \E p \in P : b \in Bodies(p)
    <3>1. \A b, r : b \in BodiesOf(m, r, h) <=>
                     \E v \in Valuations(m, r, h) : b = GroundRule(r, v, h).body
      BY DEF BodiesOf
    <3> QED BY <2>2, <2>3, <2>4, <3>1
  <2>6. Said = UNION {Bodies(p) : p \in P}
    BY <2>5
  <2> QED BY <2>6, Zenon DEF Said, Bodies, P, PairsAt
<1> QED BY <1>1, AlwaysInv, PTL
-----------------------------------------------------------------------------
(* The rules of laws. *)

LEMMA MaskIs == ASSUME NEW f, NEW x PROVE x \in Mask(f) <=> \E j \in f : \E c \in j.of : x = Type[c]
<1> DEFINE types(j) == {Type[c] : c \in j.of}
<1>1. Mask(f) = UNION {types(j) : j \in f}
  BY Zenon DEF Mask
<1>2. \A j : x \in types(j) <=> \E c \in j.of : x = Type[c]
  OBVIOUS
<1> HIDE DEF types
<1> QED BY <1>1, <1>2

LEMMA MaskUnion == ASSUME NEW f, NEW g PROVE Mask(f \cup g) = Mask(f) \cup Mask(g)
<1> SUFFICES ASSUME NEW x PROVE x \in Mask(f \cup g) <=> x \in Mask(f) \cup Mask(g)
  OBVIOUS
<1> QED BY MaskIs

\* A formula keeps its mask at a time stamp and at a step.
LEMMA MaskKept ==
  ASSUME NEW f
  PROVE  /\ \A ts : Mask(At(f, ts)) = Mask(f)
         /\ \A v, h : Mask(BodyAt(f, v, h)) = Mask(f)
<1>1. ASSUME NEW g, \A j \in f : \E k \in g : k.of = j.of, \A k \in g : \E j \in f : k.of = j.of
      PROVE  Mask(g) = Mask(f)
  <2> SUFFICES ASSUME NEW x PROVE x \in Mask(g) <=> x \in Mask(f)
    OBVIOUS
  <2> QED BY <1>1, MaskIs
<1>2. ASSUME NEW ts PROVE Mask(At(f, ts)) = Mask(f)
  <2> DEFINE g == At(f, ts)
             stamped(j) == [of |-> j.of, neg |-> j.neg, ts |-> ts]
  <2>1. /\ \A j \in f : stamped(j) \in g
        /\ \A k \in g : \E j \in f : k = stamped(j)
    BY Zenon DEF At
  <2>a. \A j : stamped(j).of = j.of
    OBVIOUS
  <2> HIDE DEF g, stamped
  <2>2. (\A j \in f : \E k \in g : k.of = j.of) /\ \A k \in g : \E j \in f : k.of = j.of
    BY <2>1, <2>a
  <2>3. Mask(g) = Mask(f)
    BY <1>1, <2>2
  <2> QED BY <2>3 DEF g
<1>3. ASSUME NEW v, NEW h PROVE Mask(BodyAt(f, v, h)) = Mask(f)
  <2> DEFINE g == BodyAt(f, v, h)
  <2>1. \A j, n : Ground(j, n).of = j.of
    BY DEF Ground
  <2>2. \A j \in f : \E k \in g : k.of = j.of
    <3>1. \A j \in f : Ground(j, StepOf(j.ts, v, h)) \in g
      BY Zenon DEF BodyAt
    <3> QED BY <2>1, <3>1
  <2>3. \A k \in g : \E j \in f : k.of = j.of
    <3>1. \A k \in g : \E j \in f : k = Ground(j, StepOf(j.ts, v, h))
      BY Zenon DEF BodyAt
    <3> QED BY <2>1, <3>1
  <2> HIDE DEF g
  <2>4. Mask(g) = Mask(f)
    BY <1>1, <2>2, <2>3
  <2> QED BY <2>4 DEF g
<1> QED BY <1>2, <1>3

\* Which copies a law has: one of the initial state only when it looks at one
\* state and has no exception.
LEMMA CopiesOf ==
  ASSUME NEW s \in Input, s.kind \in LawKinds, WellFormed(Normal(s))
  PROVE  LET l == Normal(s)
         IN /\ LawType(l) \in {"rigid", "static"} => Before(s) = {} /\ s.unless = {}
            /\ LawType(l) = "rigid" => RulesOf(l) = {BaseCopy(l)}
            /\ LawType(l) = "static" => RulesOf(l) = {BaseCopy(l), StepCopy(l)}
            /\ LawType(l) \notin {"rigid", "static"} => RulesOf(l) = {StepCopy(l)}
<1> DEFINE l == Normal(s)
<1>1. l.after = Before(s) /\ l.unless = s.unless
  BY NormalSays
<1> HIDE DEF l
<1>2. WellFormed(l)
  BY DEF l
<1>3. LawType(l) \in {"rigid", "static"} => l.after = {} /\ l.unless = {}
  BY <1>2 DEF WellFormed, LawType, Dynamic
<1>4. /\ LawType(l) = "rigid" => RulesOf(l) = {BaseCopy(l)}
      /\ LawType(l) = "static" => RulesOf(l) = {BaseCopy(l), StepCopy(l)}
      /\ LawType(l) \notin {"rigid", "static"} => RulesOf(l) = {StepCopy(l)}
  BY DEF RulesOf, When
<1> QED BY <1>1, <1>3, <1>4 DEF l

\* The rules of a law have the mask of its whole body.
LEMMA BodyMask ==
  ASSUME NEW s \in Input, s.kind \in LawKinds, WellFormed(Normal(s)),
         NEW r \in RulesOf(Normal(s)), NEW v, NEW h
  PROVE  Mask(GroundRule(r, v, h).body) = Mask(Now(s) \cup Before(s) \cup s.unless)
<1> DEFINE l == Normal(s)
<1>1. /\ l \in LawForms /\ l.unless = s.unless
      /\ l.if \cup l.ifcons = Now(s) /\ l.after = Before(s)
  BY NormalSays
<1>2. /\ LawType(l) \in {"rigid", "static"} => Before(s) = {} /\ s.unless = {}
      /\ r = BaseCopy(l) => LawType(l) \in {"rigid", "static"}
      /\ r \in {BaseCopy(l), StepCopy(l)}
  <2>1. BaseCopy(l) # StepCopy(l)
    BY <1>1, CopiesSound
  <2> QED BY <2>1, CopiesOf
<1> HIDE DEF l
<1>3. Mask(r.body) = Mask(Now(s) \cup Before(s) \cup s.unless)
  <2>1. CASE r = BaseCopy(l)
    <3>1. Now(s) \cup Before(s) \cup s.unless = Now(s)
      BY <1>2, <2>1
    <3>2. r.body = At(Now(s), "zero")
      BY <1>1, <2>1, CopiesSound
    <3> QED BY <3>1, <3>2, MaskKept
  <2>2. CASE r = StepCopy(l)
    <3>1. r.body = At(Now(s), HeadTime(l)) \cup At(Before(s) \cup s.unless, "action")
      BY <1>1, <2>2, CopiesSound, Zenon
    <3>2. Mask(r.body) = Mask(Now(s)) \cup Mask(Before(s) \cup s.unless)
      <4> DEFINE A == At(Now(s), HeadTime(l))
                 B == At(Before(s) \cup s.unless, "action")
      <4>1. Mask(A) = Mask(Now(s)) /\ Mask(B) = Mask(Before(s) \cup s.unless)
        BY MaskKept, Zenon
      <4> HIDE DEF A, B
      <4>2. Mask(A \cup B) = Mask(A) \cup Mask(B)
        BY MaskUnion
      <4>3. r.body = A \cup B
        BY <3>1 DEF A, B
      <4> QED BY <4>1, <4>2, <4>3
    <3>3. Now(s) \cup Before(s) \cup s.unless = Now(s) \cup (Before(s) \cup s.unless)
      OBVIOUS
    <3> QED BY <3>2, <3>3, MaskUnion, Zenon
  <2> QED BY <1>2, <2>1, <2>2
<1>4. Mask(GroundRule(r, v, h).body) = Mask(r.body)
  BY GroundFields, MaskKept
<1> QED BY <1>3, <1>4

\* What a law says at step n.
Says(s, n) ==
  [does |-> "law", head |-> Ground(HeadAt(s.head, "zero"), n),
   body |-> FormulaAt(Now(s), n) \cup FormulaAt(Before(s), n - 1)]

LEMMA MeaningIs ==
  ASSUME NEW s, NEW h, NEW g
  PROVE  g \in Meaning(s, h) <=> \E n \in StepsOf(s, h) : g = Says(s, n)
<1>1. Meaning(s, h) = {Says(s, n) : n \in StepsOf(s, h)}
  BY Zenon DEF Meaning, Says, FormulaAt
<1> HIDE DEF Says
<1> QED BY <1>1

\* The ground rules of a law without exceptions are what it says at the step of
\* the state it is about.
LEMMA CopySays ==
  ASSUME NEW s \in Input, s.kind \in LawKinds, WellFormed(Normal(s)), s.unless = {}, NEW v, NEW h
  PROVE  LET l == Normal(s)
         IN /\ Before(s) = {} => GroundRule(BaseCopy(l), v, h) = Says(s, 0)
            /\ Before(s) # {} => HeadTime(l) = "dynamic"
            /\ GroundRule(StepCopy(l), v, h) = Says(s, StepOf(HeadTime(l), v, h))
<1> DEFINE l == Normal(s)
<1>1. /\ l \in LawForms /\ l.unless = {} /\ l.head = s.head
      /\ l.if \cup l.ifcons = Now(s) /\ l.after = Before(s)
  BY NormalSays
<1>2. WellFormed(l)
  OBVIOUS
<1> HIDE DEF l
<1>3. Before(s) # {} => HeadTime(l) = "dynamic"
  BY <1>1, <1>2 DEF WellFormed, LawType, HeadTime, Dynamic
<1>4. \A ts, n : Ground(HeadAt(s.head, ts), n) = Ground(HeadAt(s.head, "zero"), n)
                 /\ HeadAt(s.head, ts).ts = ts
  BY DEF Ground, HeadAt
<1>5. \A r : GroundRule(r, v, h) = [does |-> r.does, head |-> Ground(r.head, StepOf(r.head.ts, v, h)),
                                    body |-> BodyAt(r.body, v, h)]
  BY Zenon DEF GroundRule, BodyAt
<1>6. ASSUME Before(s) = {} PROVE GroundRule(BaseCopy(l), v, h) = Says(s, 0)
  <2> DEFINE r == BaseCopy(l)
  <2>1. r.does = "law" /\ r.head = HeadAt(s.head, "zero") /\ r.body = At(Now(s), "zero")
    BY <1>1, CopiesSound
  <2> HIDE DEF r
  <2>2. StepOf("zero", v, h) = 0
    BY StepIs
  <2>3. BodyAt(At(Now(s), "zero"), v, h) = FormulaAt(Now(s), 0)
    BY <2>2, AtGround, Zenon
  <2>4. FormulaAt(Now(s), 0) = FormulaAt(Now(s), 0) \cup FormulaAt(Before(s), 0 - 1)
    BY <1>6 DEF FormulaAt
  <2>5. GroundRule(r, v, h) = [does |-> "law", head |-> Ground(HeadAt(s.head, "zero"), 0),
                               body |-> FormulaAt(Now(s), 0)]
    <3>1. GroundRule(r, v, h) = [does |-> r.does, head |-> Ground(r.head, StepOf(r.head.ts, v, h)),
                                 body |-> BodyAt(r.body, v, h)]
      BY <1>5, Zenon
    <3>2. r.head.ts = "zero" /\ Ground(r.head, 0) = Ground(HeadAt(s.head, "zero"), 0)
      BY <1>4, <2>1, Zenon
    <3>3. BodyAt(r.body, v, h) = FormulaAt(Now(s), 0)
      BY <2>1, <2>3, Zenon
    <3>4. StepOf(r.head.ts, v, h) = 0
      BY <2>2, <3>2, Zenon
    <3>5. Ground(r.head, StepOf(r.head.ts, v, h)) = Ground(HeadAt(s.head, "zero"), 0)
      BY <3>2, <3>4, Zenon
    <3> QED BY <2>1, <3>1, <3>3, <3>5, Zenon
  <2>6. GroundRule(r, v, h) = Says(s, 0)
    BY <2>4, <2>5, Zenon DEF Says
  <2> QED BY <2>6 DEF r
<1>7. GroundRule(StepCopy(l), v, h) = Says(s, StepOf(HeadTime(l), v, h))
  <2> DEFINE r == StepCopy(l)
             n == StepOf(HeadTime(l), v, h)
             b == Before(s)
  <2>1. /\ r.does = "law" /\ r.head = HeadAt(s.head, HeadTime(l))
        /\ r.body = At(Now(s), HeadTime(l)) \cup At(b, "action")
    <3>1. b \cup l.unless = b
      BY <1>1
    <3> QED BY <1>1, <3>1, CopiesSound
  <2> HIDE DEF r, n, b
  <2>2. BodyAt(At(Now(s), HeadTime(l)), v, h) = FormulaAt(Now(s), n)
    <3> DEFINE ts == HeadTime(l)
    <3>1. StepOf(ts, v, h) = n
      BY Zenon DEF n
    <3> HIDE DEF ts
    <3>2. BodyAt(At(Now(s), ts), v, h) = FormulaAt(Now(s), n)
      BY <3>1, AtGround, Zenon
    <3> QED BY <3>2 DEF ts
  <2>3. BodyAt(At(b, "action"), v, h) = FormulaAt(b, n - 1)
    <3>1. CASE b = {}
      <4>1. At(b, "action") = {}
        BY <3>1 DEF At
      <4> QED BY <3>1, <4>1 DEF BodyAt, FormulaAt
    <3>2. CASE b # {}
      <4>1. StepOf("action", v, h) = n - 1
        BY <1>3, <3>2, StepIs DEF n, b
      <4> DEFINE k == n - 1
      <4>2. StepOf("action", v, h) = k
        BY <4>1
      <4> HIDE DEF k
      <4>3. BodyAt(At(b, "action"), v, h) = FormulaAt(b, k)
        BY <4>2, AtGround
      <4> QED BY <4>3 DEF k
    <3> QED BY <3>1, <3>2
  <2>4. \A f, g : BodyAt(f \cup g, v, h) = BodyAt(f, v, h) \cup BodyAt(g, v, h)
    BY Zenon DEF BodyAt
  <2>5. BodyAt(r.body, v, h) = FormulaAt(Now(s), n) \cup FormulaAt(b, n - 1)
    <3> DEFINE A == At(Now(s), HeadTime(l))
               B == At(b, "action")
    <3>1. r.body = A \cup B
      BY <2>1
    <3>2. BodyAt(A, v, h) = FormulaAt(Now(s), n) /\ BodyAt(B, v, h) = FormulaAt(b, n - 1)
      BY <2>2, <2>3
    <3> HIDE DEF A, B
    <3>3. BodyAt(A \cup B, v, h) = BodyAt(A, v, h) \cup BodyAt(B, v, h)
      BY <2>4
    <3> QED BY <3>1, <3>2, <3>3
  <2>6. Ground(r.head, StepOf(r.head.ts, v, h)) = Ground(HeadAt(s.head, "zero"), n)
    BY <1>4, <2>1, Zenon DEF n
  <2>7. GroundRule(r, v, h) = Says(s, n)
    BY <1>5, <2>1, <2>5, <2>6, Zenon DEF Says, b
  <2> QED BY <2>7 DEF r, n
<1> QED BY <1>3, <1>6, <1>7 DEF l

\* The static step of a rule for every state is each state but the first.
LEMMA StatesAre ==
  ASSUME NEW m \in Modes, NEW h \in Nat \ {0}, NEW r, r.part = "cumulative"
  PROVE  \A n \in 1..h : \E v \in Valuations(m, r, h) : v.st = n
<1> SUFFICES ASSUME NEW n \in 1..h PROVE \E v \in Valuations(m, r, h) : v.st = n
  OBVIOUS
<1>1. CASE m = "static"
  <2> DEFINE ats == IF Stamps(r) \cap {"dynamic", "action"} = {} THEN {1} ELSE 1..h
  <2>1. Valuations(m, r, h) = [st : 0..h, at : ats]
    BY <1>1 DEF Valuations
  <2>2. 1 \in ats /\ n \in 0..h
    OBVIOUS
  <2> HIDE DEF ats
  <2>3. [st |-> n, at |-> 1] \in Valuations(m, r, h)
    BY <2>1, <2>2, PairFields
  <2> QED BY <2>3, PairFields
<1>2. CASE m = "incremental"
  <2>1. Valuations(m, r, h) = {[st |-> t, at |-> t] : t \in 1..h}
    BY <1>2 DEF Valuations
  <2>2. [st |-> n, at |-> n] \in Valuations(m, r, h)
    BY <2>1
  <2> QED BY <2>2, PairFields
<1> QED BY <1>1, <1>2 DEF Modes

\* A law about rigid constants says the same at every step.
Rigid(s) == HeadMask(s.head) \cup Mask(Now(s) \cup Before(s)) \subseteq {"rigid"}

LEMMA RigidSays ==
  ASSUME NEW s, Rigid(s), NEW n, NEW k
  PROVE  Says(s, n) = Says(s, k)
<1>1. ASSUME NEW j \in Now(s) \cup Before(s), NEW x, NEW y PROVE Ground(j, x) = Ground(j, y)
  <2>1. \A c \in j.of : Type[c] \in Mask(Now(s) \cup Before(s))
    BY MaskIs, Zenon
  <2>2. {Type[c] : c \in j.of} \subseteq {"rigid"}
    BY <2>1 DEF Rigid
  <2> QED BY <2>2 DEF Ground
<1>2. Ground(HeadAt(s.head, "zero"), n) = Ground(HeadAt(s.head, "zero"), k)
  <2>1. {Type[c] : c \in HeadAt(s.head, "zero").of} \subseteq {"rigid"}
    BY DEF Rigid, HeadMask, HeadAt
  <2> QED BY <2>1 DEF Ground
<1>3. ASSUME NEW f, f \subseteq Now(s) \cup Before(s), NEW x, NEW y
      PROVE  FormulaAt(f, x) = FormulaAt(f, y)
  BY <1>1, <1>3 DEF FormulaAt
<1>4. FormulaAt(Now(s), n) = FormulaAt(Now(s), k)
  BY <1>3
<1>5. FormulaAt(Before(s), n - 1) = FormulaAt(Before(s), k - 1)
  BY <1>3
<1> QED BY <1>2, <1>4, <1>5 DEF Says

\* The ground rules of a law without exceptions are what it means.
LEMMA InstancesMean ==
  ASSUME HeadsUnmixed(Input), NEW m \in Modes, NEW h \in Nat \ {0},
         NEW s \in Input, s.kind \in LawKinds, WellFormed(Normal(s)), s.unless = {}, NEW g
  PROVE  (\E r \in RulesOf(Normal(s)) : \E v \in Valuations(m, r, h) : g = GroundRule(r, v, h))
           <=> g \in Meaning(s, h)
<1> DEFINE l == Normal(s)
           b == BaseCopy(l)
           c == StepCopy(l)
           ts == HeadTime(l)
           Is(r) == \E v \in Valuations(m, r, h) : g = GroundRule(r, v, h)
<1>1. /\ l \in LawForms /\ l.unless = {} /\ l.head = s.head
      /\ l.if \cup l.ifcons = Now(s) /\ l.after = Before(s)
  BY NormalSays
<1>2. WellFormed(l)
  OBVIOUS
<1>3. /\ LawType(l) \in {"rigid", "static"} => Before(s) = {}
      /\ LawType(l) = "rigid" => RulesOf(l) = {b}
      /\ LawType(l) = "static" => RulesOf(l) = {b, c}
      /\ LawType(l) \notin {"rigid", "static"} => RulesOf(l) = {c}
  BY CopiesOf
<1>4. /\ b.part = "base" /\ c.part = "cumulative" /\ ts \in Stamps(c)
  <2>1. b.part = "base" /\ c.part = "cumulative" /\ c.head = HeadAt(l.head, ts)
    BY <1>1, CopiesSound
  <2>2. HeadAt(l.head, ts).ts = ts
    BY DEF HeadAt
  <2> HIDE DEF b, c, ts
  <2>3. ts \in Stamps(c)
    BY <2>1, <2>2 DEF Stamps
  <2> QED BY <2>1, <2>3
<1>5. /\ Before(s) = {} => \A v : GroundRule(b, v, h) = Says(s, 0)
      /\ \A v : GroundRule(c, v, h) = Says(s, StepOf(ts, v, h))
  BY CopySays
<1>6. Mask(Now(s) \cup Before(s)) = Mask(Now(s)) \cup Mask(Before(s))
  BY MaskUnion
<1>7. Mask({}) = {}
  BY DEF Mask
<1> HIDE DEF l, b, c, ts
<1>8. /\ Valuations(m, b, h) # {} /\ Valuations(m, c, h) # {}
      /\ \A v \in Valuations(m, c, h) : v.st \in 0..h
      /\ ts \in {"dynamic", "action"} => \A v \in Valuations(m, c, h) : v.at \in 1..h
      /\ ts \in {"dynamic", "action"} => \A n \in 1..h : \E v \in Valuations(m, c, h) : v.at = n
  BY <1>4, StepsAre
<1>9. \A n \in 1..h : \E v \in Valuations(m, c, h) : v.st = n
  BY <1>4, StatesAre
<1>10. Before(s) = {} => (Is(b) <=> g = Says(s, 0))
  BY <1>5, <1>8
<1>11. Is(c) <=> \E v \in Valuations(m, c, h) : g = Says(s, StepOf(ts, v, h))
  BY <1>5
<1>12. Is(c) <=> \E n \in {StepOf(ts, v, h) : v \in Valuations(m, c, h)} : g = Says(s, n)
  <2> HIDE DEF Is
  <2> QED BY <1>11, Zenon
<1>13. (\E r \in RulesOf(l) : Is(r)) <=>
          IF LawType(l) = "rigid" THEN Is(b)
          ELSE IF LawType(l) = "static" THEN Is(b) \/ Is(c) ELSE Is(c)
  <2> HIDE DEF Is
  <2> QED BY <1>3
<1>14. g \in Meaning(s, h) <=> \E n \in StepsOf(s, h) : g = Says(s, n)
  BY MeaningIs
<1>15. "rigid" \notin Actions
  BY DEF Actions, Regular
<1>16. CASE LawType(l) = "rigid"
  <2>1. Before(s) = {} /\ Mask(Now(s)) \subseteq {"rigid"}
    BY <1>1, <1>2, <1>3, <1>16 DEF WellFormed
  <2>2. HeadMask(s.head) \subseteq {"rigid"}
    BY <1>1, <1>16 DEF HeadsUnmixed, LawType
  <2>3. StepsOf(s, h) = {0}
    BY <1>6, <1>7, <2>1, <2>2 DEF StepsOf
  <2> QED BY <1>10, <1>13, <1>14, <1>16, <2>1, <2>3 DEF l
<1>17. CASE LawType(l) = "actionDynamic"
  <2>1. Before(s) = {} /\ HeadMask(s.head) \cap Actions # {} /\ ts = "action"
    BY <1>1, <1>2, <1>17 DEF WellFormed, LawType, Dynamic, HeadTime, ts
  <2>2. StepsOf(s, h) = 0..(h - 1)
    BY <1>15, <2>1 DEF StepsOf
  <2>3. \A v : StepOf(ts, v, h) = v.at - 1
    BY <2>1, StepIs
  <2>4. ASSUME NEW n \in 0..(h - 1)
        PROVE  \E v \in Valuations(m, c, h) : StepOf(ts, v, h) = n
    <3>1. n + 1 \in 1..h /\ (n + 1) - 1 = n
      OBVIOUS
    <3>2. PICK v \in Valuations(m, c, h) : v.at = n + 1
      BY <1>8, <2>1, <3>1
    <3> QED BY <2>3, <3>1, <3>2
  <2>5. ASSUME NEW v \in Valuations(m, c, h) PROVE StepOf(ts, v, h) \in 0..(h - 1)
    BY <1>8, <2>1, <2>3
  <2> QED BY <1>11, <1>13, <1>14, <1>17, <2>2, <2>4, <2>5 DEF l
<1>18. CASE LawType(l) = "fluentDynamic"
  <2>1. Before(s) # {} /\ HeadMask(s.head) \cap Actions = {} /\ ts = "dynamic"
    BY <1>1, <1>18 DEF LawType, Dynamic, HeadTime, ts
  <2>2. \A v : StepOf(ts, v, h) = v.at
    BY <2>1, StepIs
  <2>3. CASE Rigid(s)
    <3>1. StepsOf(s, h) = {0}
      BY <2>3 DEF StepsOf, Rigid
    <3>2. \A n : Says(s, n) = Says(s, 0)
      BY <2>3, RigidSays
    <3>3. Is(c) <=> g = Says(s, 0)
      BY <1>8, <1>11, <3>2
    <3> QED BY <1>13, <1>14, <1>18, <3>1, <3>3 DEF l
  <2>4. CASE ~Rigid(s)
    <3>1. StepsOf(s, h) = 1..h
      BY <2>1, <2>4 DEF StepsOf, Rigid
    <3> QED BY <1>8, <1>11, <1>13, <1>14, <1>18, <2>1, <2>2, <3>1 DEF l
  <2> QED BY <2>3, <2>4
<1>19. CASE LawType(l) = "static"
  <2>1. Before(s) = {} /\ HeadMask(s.head) \cap Actions = {} /\ ts = "static"
    BY <1>1, <1>3, <1>19 DEF LawType, HeadTime, ts
  <2>2. \A v : StepOf(ts, v, h) = v.st
    BY <2>1, StepIs
  <2>3. ~Rigid(s)
    BY <1>1, <1>3, <1>6, <1>7, <1>19 DEF LawType, Rigid, Dynamic
  <2>4. StepsOf(s, h) = 0..h
    BY <2>1, <2>3 DEF StepsOf, Rigid
  <2>5. Is(b) \/ Is(c) <=> \E n \in 0..h : g = Says(s, n)
    <3>1. ASSUME NEW n \in 0..h, g = Says(s, n) PROVE Is(b) \/ Is(c)
      <4>1. n = 0 \/ n \in 1..h
        OBVIOUS
      <4> QED BY <1>9, <1>10, <1>11, <2>1, <2>2, <3>1, <4>1
    <3>2. ASSUME Is(b) \/ Is(c) PROVE \E n \in 0..h : g = Says(s, n)
      BY <1>8, <1>10, <1>11, <2>1, <2>2, <3>2
    <3> QED BY <3>1, <3>2
  <2> QED BY <1>13, <1>14, <1>19, <2>4, <2>5 DEF l
<1>20. LawType(l) \in {"rigid", "static", "actionDynamic", "fluentDynamic"}
  BY DEF LawType
<1> QED BY <1>16, <1>17, <1>18, <1>19, <1>20

\* In both outputs the rules of laws say, at every step and nowhere else, what
\* the accepted laws mean, unless an exception is mentioned.
THEOREM LawsAlwaysHold == ASSUME HeadsUnmixed(Input) PROVE Spec => []LawsHold
<1>1. ASSUME Inv PROVE LawsHold
  <2> SUFFICES ASSUME NEW m \in Modes, NEW h \in 1..MaxStep
               PROVE  {r \in Program(m, h) : r.does = "law" /\ "abAction" \notin Mask(r.body)} =
                        UNION {Meaning(s, h) : s \in {s \in accepted :
                                 s.unless = {} /\ "abAction" \notin Mask(Now(s) \cup Before(s))}}
    BY Zenon DEF LawsHold
  <2> DEFINE L == {r \in Program(m, h) : r.does = "law" /\ "abAction" \notin Mask(r.body)}
             A == {s \in accepted : s.unless = {} /\ "abAction" \notin Mask(Now(s) \cup Before(s))}
             From(s, g) == \E r \in RulesOf(Normal(s)) :
                             \E v \in Valuations(m, r, h) : g = GroundRule(r, v, h)
  <2>1. h \in Nat \ {0} /\ OutInv
    BY <1>1, LawsAssumption DEF Inv
  <2>2. \A s \in accepted : s \in Input /\ s.kind \in LawKinds /\ WellFormed(Normal(s))
    BY <1>1 DEF Inv, TypeInv, AcceptedInv
  <2>3. \A r : r \in out["incremental"] /\ r.does = "law" <=>
                 \E s \in accepted : r \in RulesOf(Normal(s))
    BY <1>1 DEF Inv, LawInv, Doing
  <2>4. ASSUME NEW g
        PROVE  g \in Program(m, h) /\ g.does = "law" <=> \E s \in accepted : From(s, g)
    <3>1. g \in Program(m, h) <=>
            \E r \in out["incremental"] :
              r.does # "queryAtZero" /\ \E v \in Valuations(m, r, h) : g = GroundRule(r, v, h)
      BY <2>1, ProgramIs
    <3>2. \A r, v : GroundRule(r, v, h).does = r.does
      BY GroundFields
    <3> QED BY <2>3, <3>1, <3>2
  <2>5. ASSUME NEW s \in accepted, NEW g, From(s, g)
        PROVE  Mask(g.body) = Mask(Now(s) \cup Before(s) \cup s.unless)
    BY <2>2, <2>5, BodyMask
  <2>6. ASSUME NEW s \in accepted, s.unless # {}
        PROVE  "abAction" \in Mask(Now(s) \cup Before(s) \cup s.unless)
    <3>1. PICK j \in s.unless : j.of # {}
      BY <2>2, <2>6, InputAssumption
    <3>2. PICK c \in j.of : TRUE
      BY <3>1
    <3>3. Type[c] \in Mask(s.unless) /\ Mask(s.unless) \subseteq {"abAction"}
      <4>1. Normal(s).unless = s.unless
        BY <2>2, NormalSays
      <4>2. Mask(Normal(s).unless) \subseteq {"abAction"}
        BY <2>2 DEF WellFormed
      <4>3. Type[c] \in Mask(s.unless)
        BY <3>1, <3>2, MaskIs
      <4> QED BY <4>1, <4>2, <4>3
    <3> QED BY <3>3, MaskUnion
  <2>7. ASSUME NEW s \in accepted, s.unless = {}, NEW g
        PROVE  From(s, g) <=> g \in Meaning(s, h)
    BY <2>1, <2>2, <2>7, InstancesMean
  <2>8. \A s : s.unless = {} => Now(s) \cup Before(s) \cup s.unless = Now(s) \cup Before(s)
    OBVIOUS
  <2> HIDE DEF From
  <2>9. ASSUME NEW g \in L PROVE \E s \in A : g \in Meaning(s, h)
    <3>1. PICK s \in accepted : From(s, g)
      BY <2>4
    <3>2. "abAction" \notin Mask(Now(s) \cup Before(s) \cup s.unless)
      BY <2>5, <3>1
    <3>3. s.unless = {}
      BY <2>6, <3>2
    <3> QED BY <2>7, <2>8, <3>1, <3>2, <3>3
  <2>10. ASSUME NEW s \in A, NEW g \in Meaning(s, h) PROVE g \in L
    <3>1. From(s, g)
      BY <2>7
    <3>2. "abAction" \notin Mask(g.body)
      BY <2>5, <2>8, <3>1
    <3> QED BY <2>4, <3>1, <3>2
  <2> HIDE DEF L, A
  <2>11. L = UNION {Meaning(s, h) : s \in A}
    BY <2>9, <2>10
  <2> QED BY <2>11 DEF L, A
<1> QED BY <1>1, AlwaysInv, PTL
=============================================================================
