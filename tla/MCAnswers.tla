------------------------------ MODULE MCAnswers ------------------------------
(* Solvers that find nothing, one answer or two, of fluents, actions, external *)
(* and rigid constants, listed in an order of their own.                     *)
EXTENDS Answers, Integers

MCTimeless == -1
P(form, time, sign, key) ==
  [is |-> "predicate", form |-> form, time |-> time, sign |-> sign, key |-> key]

\* The answers: steps in either order, one step left out, hidden predicates, and
\* a constant without a time.
MCHolds ==
  {<<P("fluent", 1, "positive", 2), P("fluent", 0, "positive", 1), P("action", 0, "positive", 3)>>,
   <<P("action", 0, "positive", 3), P("fluent", 0, "positive", 4), P("fluent", 0, "positive", 1)>>,
   <<P("fluent", 2, "positive", 1), P("rigid", MCTimeless, "positive", 5),
     P("fluent", 0, "negative", 2)>>,
   <<P("external action", 0, "positive", 6), P("fluent", 0, "positive", 7)>>}
Answer(holds) == [answered |-> TRUE, holds |-> holds]
NoAnswer == [answered |-> FALSE, holds |-> <<>>]
MCRuns == {<<NoAnswer>>} \cup {<<Answer(h)>> : h \in MCHolds}
            \cup {<<Answer(h), x>> : h \in MCHolds, x \in {NoAnswer} \cup {Answer(i) : i \in MCHolds}}

Header(w) == <<Word(w), Word("number"), Newline>>

\* clasp: headers, the answers, and the verdict.
ClaspText(runs) ==
  LET answers == Answered(runs)
  IN  Header("clasp") \o Header("Solving")
        \o FlattenSeq([i \in DOMAIN answers |-> Header("Answer:") \o answers[i].holds \o <<Newline>>])
        \o <<Word(IF answers = <<>> THEN "UNSATISFIABLE" ELSE "SATISFIABLE"), Newline>>
        \o Header("Models")

OclingoText(runs) == FlattenSeq([i \in DOMAIN runs |-> StepText(runs[i])])

MCTexts(p, runs) ==
  IF p = "bridge" THEN {OclingoText(runs)}
  ELSE {ClaspText(runs)} \cup {t \in {OclingoText(runs)} : Answered(runs) = runs}
MCPiece ==
  UNION {ToSet(t) : t \in UNION {MCTexts(p, r) : p \in {"as2transition", "bridge"}, r \in MCRuns}}
=============================================================================
