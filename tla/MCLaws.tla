------------------------------- MODULE MCLaws -------------------------------
(* One constant of each type that the rules tell apart, and every form of law *)
(* over clauses that mention a fluent, an action or a rigid constant.        *)
EXTENDS Laws, TLC

MCType ==
  "f" :> "simpleFluent" @@ "i" :> "inertialFluent" @@ "x" :> "externalFluent" @@
  "af" :> "additiveFluent" @@ "a" :> "exogenousAction" @@ "b" :> "action" @@
  "ab" :> "abAction" @@ "at" :> "attribute" @@ "xa" :> "externalAction" @@
  "aa" :> "additiveAction" @@ "r" :> "rigid"
MCSymbols == DOMAIN MCType
MCBooleans == MCSymbols \ {"b", "af", "aa"}

Statement(kind, head, body, if, ifcons, after, unless, step) ==
  [kind |-> kind, head |-> head, body |-> body, if |-> if, ifcons |-> ifcons,
   after |-> after, unless |-> unless, step |-> step]

Law(kind, head, body, if, ifcons, after, unless) ==
  Statement(kind, head, body, if, ifcons, after, unless, "none")

\* Absent, or one conjunct.
Clause(S) == {{}} \cup {{Conjunct(cs)} : cs \in S}
Formula(S) == {{Conjunct(cs)} : cs \in S}

WithClauses(kinds, heads) ==
  {Law(k, h, {}, i, {}, a, u) : k \in kinds, h \in heads,
     i \in Clause({{"f"}, {"a"}, {"r"}}), a \in Clause({{"a"}, {"f"}, {"a", "r"}}), u \in {{}}}
  \cup {Law(k, h, {}, {}, n, a, u) : k \in kinds, h \in heads,
          n \in Formula({{"f", "r"}, {"a"}}), a \in Clause({{"a"}}),
          u \in Clause({{"ab"}, {"a"}})}

MCLawInput ==
  WithClauses({"basic", "possiblyCaused"}, {{"f"}, {"a"}, {"r"}, {"x"}, {}})
  \cup WithClauses({"inertial"}, {{"i"}, {"r"}, {"a"}})
  \cup {Law(k, {"f"}, b, i, {}, {}, {}) : k \in {"causes", "mayCause", "implication"},
          b \in Formula({{"a"}, {"f"}}), i \in Clause({{"f"}})}
  \cup {Law(k, {}, b, {}, {}, a, {}) : k \in {"always", "constraint", "never"},
          b \in Formula({{"a"}, {"f"}, {"r"}}), a \in Clause({{"a"}, {"f"}})}
  \cup {Law("nonexecutable", {}, b, i, {}, {}, u) : b \in Formula({{"a"}, {"f"}}),
          i \in Clause({{"f"}}), u \in Clause({{"ab"}})}
  \cup {Law("rigid", {h}, {}, {}, {}, {}, {}) : h \in {"f", "r", "a"}}

MCOtherInput ==
  {Law("constants", cs, {}, {}, {}, {}, {}) : cs \in {MCSymbols, {"ab", "r"}}}
  \cup {Law("increments", {h}, {Conjunct({b})}, {}, {}, {}, u) : h \in {"af", "aa", "f"},
          b \in {"a", "f"}, u \in Clause({{"ab"}})}
  \cup {Statement("observed", {h}, {}, {}, {}, {}, {}, n) : h \in {"x", "f"}, n \in {"zero", "one"}}
  \cup {Statement("temporalConstraint", {}, {Conjunct({"f"})}, {}, {}, {}, {}, "one")}
  \cup {Statement("query", {}, {Conjunct(b)}, {}, {}, {}, {}, n) : b \in {{"f"}, {"a"}},
          n \in {"zero", "one", "maxstep"}}
  \cup {Law(k, {}, {}, {}, {}, {}, {}) : k \in {"noconcurrency", "strongNoconcurrency"}}

MCInput == MCLawInput \cup MCOtherInput
ASSUME InputKind == HeadsUnmixed(MCInput)

\* Laws whose head is more than one constant, and laws with exceptions.
MCMixedHeads ==
  WithClauses({"basic", "caused", "default", "exogenous"}, {{"f"}, {"r"}, {"f", "r"}})
=============================================================================
