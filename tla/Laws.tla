-------------------------------- MODULE Laws --------------------------------
(***************************************************************************)
(* How cplus2asp.bin turns the causal laws, constant declarations and       *)
(* queries of a program into rules (Translator.cpp).  A law is brought to   *)
(* one form (head, if, ifcons, after, unless), classified, and printed once  *)
(* for the initial state and once for all later steps; the same laws must    *)
(* come out of the static output (one program for a fixed maxstep, grounded  *)
(* over step variables) and of the incremental one (parts #base,            *)
(* #cumulative t and #volatile t, grounded as the solver goes).             *)
(*                                                                         *)
(* A formula is the set of its conjuncts, a conjunct the set of constants it *)
(* mentions and whether it is negated; a clause that is not there is {}.     *)
(* Values, arguments, variables and `where', which mentions no constants,    *)
(* are left out, and so is the `not not' around a body.                     *)
(***************************************************************************)
EXTENDS Integers, FiniteSets

CONSTANTS Symbols,       \* the constants of the program
          Type,          \* Type[c]: ConstantSymbol::constType()
          BooleanSorts,  \* constants whose sort is Boolean
          Restricted,    \* constants whose domain is enforced by an option
          Input,         \* statements a program can hold
          MaxStatements, \* bound: statements translated
          MaxStep        \* bound: horizon of the ground programs compared

Regular == {"action", "additiveAction", "exogenousAction"}
Actions == Regular \cup {"abAction", "attribute", "externalAction"}
SimpleFluents == {"simpleFluent", "inertialFluent", "additiveFluent"}
Fluents == SimpleFluents \cup {"externalFluent", "sdFluent"}
Additive == {"additiveFluent", "additiveAction"}
External == {"externalFluent", "externalAction"}
ConstTypes == Fluents \cup Actions \cup {"rigid"}

ASSUME LawsAssumption ==
  /\ Type \in [Symbols -> ConstTypes]
  /\ BooleanSorts \subseteq Symbols /\ Restricted \subseteq Symbols
  /\ MaxStatements \in Nat /\ MaxStep \in Nat

Modes == {"static", "incremental"}
Languages == {"C+", "BC", "BC+"}
Parts == {"none", "base", "cumulative", "volatile"}

VARIABLES language,      \* the input language
          translated,    \* constants whose declaration was translated
          ipart,         \* ipart[m]: _ipart, the part the output is in
          out,           \* out[m]: the rules printed, each with its part
          accepted,      \* the laws that were translated without an error
          strong,        \* _strong_noconcurrency
          noconcurrency, \* _noconcurrency
          read,          \* statements read
          ended          \* the epilogue was printed
vars == <<language, translated, ipart, out, accepted, strong, noconcurrency, read, ended>>

-----------------------------------------------------------------------------
(* Formulas, laws and rules *)

Conjunct(cs) == [of |-> cs, neg |-> FALSE]
Negated(f) == {[c EXCEPT !.neg = ~@] : c \in f}
Mask(f) == UNION {{Type[c] : c \in j.of} : j \in f}
HeadMask(h) == {Type[c] : c \in h}

\* A law of any of the forms of the language as head, if, ifcons, after, unless.
Normal(s) ==
  LET law(h, i, n, a) == [head |-> h, if |-> i, ifcons |-> n, after |-> a,
                          unless |-> s.unless]
      self == {Conjunct(s.head)}
  IN  CASE s.kind \in {"basic", "caused"} -> law(s.head, s.if, s.ifcons, s.after)
        [] s.kind \in {"possiblyCaused", "default", "exogenous"} ->
             law(s.head, s.if, s.ifcons \cup self, s.after)
        [] s.kind = "implication" -> law(s.head, s.body, {}, {})
        [] s.kind = "causes" -> law(s.head, {}, {}, s.body \cup s.if)
        [] s.kind = "mayCause" -> law(s.head, {}, self, s.body \cup s.if)
        [] s.kind = "always" -> law({}, {}, {}, s.after \cup Negated(s.body))
        [] s.kind = "constraint" -> law({}, Negated(s.body), {}, s.after)
        [] s.kind \in {"impossible", "never"} -> law({}, s.body, {}, s.after)
        [] s.kind = "inertial" -> law(s.head, s.if, s.ifcons \cup self, s.after \cup self)
        [] s.kind = "nonexecutable" -> law({}, {}, {}, s.body \cup s.if)
        [] s.kind = "rigid" -> law(s.head, {}, {}, self)

\* What a form of law asks of its body before it is normalised.
BodyFits(s) ==
  /\ s.kind \in {"causes", "mayCause"} => Mask(s.body) \cap Actions # {}
  /\ s.kind = "constraint" => Mask(s.body) \cap Actions = {}
  /\ s.kind = "nonexecutable" => Mask(s.body) \subseteq Actions

Dynamic(l) == l.after # {} \/ l.unless # {}

LawType(l) ==
  IF \/ "rigid" \in HeadMask(l.head)
     \/ ~Dynamic(l) /\ HeadMask(l.head) \cup Mask(l.if \cup l.ifcons) \subseteq {"rigid"}
  THEN "rigid"
  ELSE IF HeadMask(l.head) \cap Actions # {} THEN "actionDynamic"
  ELSE IF Dynamic(l) THEN "fluentDynamic" ELSE "static"

\* The law gets no error message.
WellFormed(l) ==
  /\ HeadMask(l.head) \cap (Additive \cup External) = {}
  /\ LawType(l) = "rigid" => ~Dynamic(l) /\ Mask(l.if \cup l.ifcons) \subseteq {"rigid"}
  /\ LawType(l) = "actionDynamic" => ~Dynamic(l)
  /\ LawType(l) \in {"static", "fluentDynamic"} => Mask(l.if \cup l.ifcons) \cap Actions = {}
  /\ Mask(l.unless) \subseteq {"abAction"}

\* A formula printed with a time stamp, and a rule that does something with
\* its head in a part of the program.
At(f, ts) == {[of |-> j.of, neg |-> j.neg, ts |-> ts] : j \in f}
HeadAt(cs, ts) == [of |-> cs, neg |-> FALSE, ts |-> ts]
Rule(part, does, head, body) ==
  [part |-> part, does |-> does, head |-> head, body |-> body]

\* Mutant: a dynamic law keeps the time stamp of a static one.
HeadTimeStatic(l) == IF HeadMask(l.head) \cap Actions # {} THEN "action" ELSE "static"

HeadTime(l) ==
  IF HeadMask(l.head) \cap Actions # {} THEN "action"
  ELSE IF l.after # {} THEN "dynamic" ELSE "static"

When(cond, S) == IF cond THEN S ELSE {}

BaseCopy(l) == Rule("base", "law", HeadAt(l.head, "zero"), At(l.if \cup l.ifcons, "zero"))
StepCopy(l) ==
  Rule("cumulative", "law", HeadAt(l.head, HeadTime(l)),
       At(l.if \cup l.ifcons, HeadTime(l)) \cup At(l.after \cup l.unless, "action"))

\* Mutant: a static law is printed for the steps only.
RulesOfStepsOnly(l) == IF LawType(l) = "rigid" THEN {BaseCopy(l)} ELSE {StepCopy(l)}

\* translateCausalLaw: the copy for the initial state and the one for steps.
RulesOf(l) ==
  When(LawType(l) \in {"rigid", "static"}, {BaseCopy(l)})
    \cup When(LawType(l) # "rigid", {StepCopy(l)})

-----------------------------------------------------------------------------
(* Constant declarations *)

\* The constant type that decides the defaults: in BC all actions are exogenous.
DefaultType(c) ==
  IF language = "BC" /\ Type[c] \in Actions THEN "exogenousAction" ELSE Type[c]

\* The rules of a default: what they say of c, and c before for an inertial one.
Defaults(c) ==
  LET about(part, does, ts) == Rule(part, does, HeadAt({c}, ts), {})
      ts == IF Type[c] \in Actions THEN "action" ELSE "static"
      step == IF Type[c] \in Actions THEN "action" ELSE "dynamic"
  IN CASE DefaultType(c) = "abAction" -> {about("cumulative", "mayBeNone", "action")}
       [] DefaultType(c) \in External ->
            {about("cumulative", d, ts) : d \in {"external", "mayBeUnknown"}}
            \cup When(Type[c] \in Fluents,
                      {about("base", d, "zero") : d \in {"external", "mayBeUnknown"}})
       [] DefaultType(c) = "attribute" -> {about("cumulative", d, "action") :
                                             d \in {"noneWithParent", "mayBe"}}
       [] DefaultType(c) = "exogenousAction" -> {about("cumulative", "mayBe", "action")}
       [] DefaultType(c) \in Additive ->
            {about("cumulative", "contribute", "action"),
             Rule("cumulative", "sum", HeadAt({c}, step),
                  When(Type[c] \in Fluents, At({Conjunct({c})}, "action")))}
       [] DefaultType(c) = "inertialFluent" ->
            {Rule("cumulative", "mayBe", HeadAt({c}, "dynamic"), At({Conjunct({c})}, "action"))}
       [] OTHER -> {}

\* Mutant: every constant has one value in the initial state.
DeclarationOfFluents(c) ==
  {Rule("base", "oneValue", HeadAt({c}, "zero"), {}),
   Rule("cumulative", "oneValue", HeadAt({c}, "dynamic"), {})} \cup Defaults(c)

\* The domain of c is enforced by constraints.
Domain(c) ==
  When(Type[c] \notin Actions, {Rule("base", "inDomain", HeadAt({c}, "zero"), {})})
    \cup When(Type[c] # "rigid",
              {Rule("cumulative", "inDomain",
                    HeadAt({c}, IF Type[c] \in Actions THEN "action" ELSE "static"), {})})

\* translateConstDeclaration.
Declaration(c) ==
  When(Type[c] \notin Actions, {Rule("base", "oneValue", HeadAt({c}, "zero"), {})})
    \cup When(Type[c] # "rigid",
              {Rule("cumulative", "oneValue",
                    HeadAt({c}, IF Type[c] \in Actions THEN "action" ELSE "dynamic"), {})})
    \cup Defaults(c)
    \cup When(Type[c] \in SimpleFluents, {Rule("base", "mayBe", HeadAt({c}, "zero"), {})})
    \cup When(c \in Restricted, Domain(c))

\* A constant is declared once, whichever statement mentions it first.
Declarations(cs) == UNION {Declaration(c) : c \in cs \ translated}

-----------------------------------------------------------------------------
(* The output *)

\* assertIPart: the part the output is in when part p was asked for.
Asserted(m, now, p) == IF m = "static" \/ p = "none" THEN now ELSE p

Placed(m, now, rs) == {[r EXCEPT !.part = Asserted(m, now, @)] : r \in rs}
Both(rs) == [m \in Modes |-> rs]

\* Mutant: HANDLE_PRESTMTS leaves the output in the part of the last one.
EmitUnrestored(pre, main, last) ==
  /\ out' = [m \in Modes |-> out[m] \cup Placed(m, ipart[m], pre) \cup
       IF m = "incremental" /\ (\E r \in pre : r.part = "base")
       THEN {[r EXCEPT !.part = "base"] : r \in main[m]}
       ELSE Placed(m, ipart[m], main[m])]
  /\ ipart' = [m \in Modes |-> Asserted(m, ipart[m], last)]

\* A statement prints the rules it needs (HANDLE_PRESTMTS) and its own, each
\* in its part, and leaves the output in the last part it asked for.
Emit(pre, main, last) ==
  /\ out' = [m \in Modes |-> out[m] \cup Placed(m, ipart[m], pre \cup main[m])]
  /\ ipart' = [m \in Modes |-> Asserted(m, ipart[m], last)]

EmitNothing == UNCHANGED <<out, ipart>>

Reading(s, kinds) ==
  /\ ~ended
  /\ read < MaxStatements
  /\ s.kind \in kinds
  /\ read' = read + 1
  /\ UNCHANGED <<language, ended>>

UnlessSymbols(s) == UNION {j.of : j \in s.unless}

-----------------------------------------------------------------------------
(* The statements *)

LawKinds == {"basic", "caused", "possiblyCaused", "default", "exogenous", "implication",
             "causes", "mayCause", "always", "constraint", "impossible", "never",
             "inertial", "nonexecutable", "rigid"}
Kinds == LawKinds \cup {"constants", "increments", "decrements", "observed",
                        "temporalConstraint", "query", "noconcurrency", "strongNoconcurrency"}
Formulas == SUBSET [of : SUBSET Symbols, neg : BOOLEAN]
Statements ==
  [kind : Kinds, head : SUBSET Symbols, body : Formulas, if : Formulas, ifcons : Formulas,
   after : Formulas, unless : Formulas, step : {"none", "zero", "one", "maxstep"}]

\* The clauses that the forms of statements have.
ASSUME InputAssumption ==
  \A s \in Input :
    /\ s \in Statements
    /\ s.kind \in {"always", "constraint", "impossible", "never", "nonexecutable"} => s.head = {}
    /\ s.kind \in {"implication", "rigid"} => s.after = {} /\ s.unless = {}
    /\ s.kind \in {"observed", "temporalConstraint"} => s.step \in {"zero", "one"}
    /\ s.kind = "query" => s.step \in {"zero", "one", "maxstep"}
    /\ \A j \in s.unless : j.of # {}

TranslateConstants(s) ==
  /\ Reading(s, {"constants"})
  /\ Emit(Declarations(s.head), Both({}), "none")
  /\ translated' = translated \cup s.head
  /\ UNCHANGED <<accepted, strong, noconcurrency>>

\* The abActions of an unless clause are declared with the law.
TranslateLaw(s) ==
  /\ Reading(s, LawKinds)
  /\ LET l == Normal(s)
     IN IF BodyFits(s) /\ WellFormed(l)
        THEN /\ Emit(Declarations(UnlessSymbols(s)), Both(RulesOf(l)),
                      IF LawType(l) = "rigid" THEN "base" ELSE "cumulative")
             /\ translated' = translated \cup UnlessSymbols(s)
             /\ accepted' = accepted \cup {s}
        ELSE EmitNothing /\ UNCHANGED <<translated, accepted>>
  /\ UNCHANGED <<strong, noconcurrency>>

\* `a increments c by v': a contribution to c at the step of the action.
TranslateAdditive(s) ==
  /\ Reading(s, {"increments", "decrements"})
  /\ IF /\ Mask(s.body) \subseteq Actions
        /\ HeadMask(s.head) \subseteq Additive
        /\ Mask(s.unless) \subseteq {"abAction"}
     THEN /\ Emit({Rule("base", "contributor", HeadAt(s.head, "zero"), {})}
                     \cup Declarations(UnlessSymbols(s)),
                   Both({Rule("cumulative", "contribution", HeadAt(s.head, "action"),
                              At(s.body \cup s.if \cup s.unless, "action"))}),
                   "cumulative")
          /\ translated' = translated \cup UnlessSymbols(s)
     ELSE Emit({}, Both({}), "cumulative") /\ UNCHANGED translated
  /\ UNCHANGED <<accepted, strong, noconcurrency>>

\* Mutant: assertIPart(IPart::EXTERNAL), which is commented out.
TranslateInOwnPart(s) ==
  /\ Reading(s, {"observed", "temporalConstraint"})
  /\ IF s.kind = "observed" => HeadMask(s.head) \subseteq External
     THEN Emit({}, Both({Rule("external", s.kind, HeadAt(s.head, s.step), At(s.body, s.step))}),
               "external")
     ELSE EmitNothing
  /\ UNCHANGED <<translated, accepted, strong, noconcurrency>>

\* An observation or a constraint at a step: no part is asked for.
TranslateAtStep(s) ==
  /\ Reading(s, {"observed", "temporalConstraint"})
  /\ IF s.kind = "observed" => HeadMask(s.head) \subseteq External
     THEN Emit({}, Both({Rule("none", s.kind, HeadAt(s.head, s.step), At(s.body, s.step))}),
                "none")
     ELSE EmitNothing
  /\ UNCHANGED <<translated, accepted, strong, noconcurrency>>

\* What is printed of a query formula: `maxstep' is 0 in the base part.
QueryRules(s) ==
  [m \in Modes |->
    IF s.step = "zero" THEN {Rule("base", "query", HeadAt({}, "zero"), At(s.body, "zero"))}
    ELSE {Rule("volatile", "query", HeadAt({}, s.step), At(s.body, s.step))}
         \cup When(m = "incremental" /\ Mask(s.body) \cap Actions = {},
                   {Rule("base", "queryAtZero", HeadAt({}, "zero"),
                         At(s.body, IF s.step = "maxstep" THEN "zero" ELSE s.step))})]

TranslateQuery(s) ==
  /\ Reading(s, {"query"})
  /\ Emit({}, QueryRules(s), IF s.step = "zero" THEN "base" ELSE "volatile")
  /\ UNCHANGED <<translated, accepted, strong, noconcurrency>>

TranslateNoConcurrency(s) ==
  /\ Reading(s, {"noconcurrency", "strongNoconcurrency"})
  /\ noconcurrency' = (noconcurrency \/ s.kind = "noconcurrency")
  /\ strong' = (strong \/ s.kind = "strongNoconcurrency")
  /\ UNCHANGED <<translated, accepted, out, ipart>>

\* Mutant: strong_noconcurrency is taken for noconcurrency.
ExcludingBoolean == {c \in BooleanSorts : Type[c] \in Regular}

\* The actions that exclude one another.
Excluding == {c \in Symbols : /\ Type[c] \in Regular
                              /\ c \in BooleanSorts \/ strong \/ language # "C+"}

\* epilogue(), with the rules of noconcurrency.
Epilogue ==
  /\ ~ended
  /\ ended' = TRUE
  /\ Emit({}, Both(When(noconcurrency \/ strong,
                         {Rule("cumulative", "exclude", HeadAt({}, "action"),
                               At({Conjunct({p[1]}), Conjunct({p[2]})}, "action")) :
                            p \in {q \in Excluding \X Excluding : q[1] # q[2]}})),
           "volatile")
  /\ UNCHANGED <<language, translated, accepted, strong, noconcurrency, read>>

Init ==
  /\ language \in Languages
  /\ translated = {} /\ accepted = {}
  /\ ipart = [m \in Modes |-> Asserted(m, "none", "base")]
  /\ out = Both({})
  /\ strong = FALSE /\ noconcurrency = FALSE
  /\ read = 0 /\ ended = FALSE

Next ==
  \/ \E s \in Input : \/ TranslateConstants(s)
                      \/ TranslateLaw(s)
                      \/ TranslateAdditive(s)
                      \/ TranslateAtStep(s)
                      \/ TranslateQuery(s)
                      \/ TranslateNoConcurrency(s)
  \/ Epilogue

Spec == Init /\ [][Next]_vars

-----------------------------------------------------------------------------
(* The ground programs: what a solver makes of the rules *)

Stamps(r) == {j.ts : j \in r.body} \cup {r.head.ts}

\* Values of the step variables: ST and AT in the static output, t elsewhere.
Valuations(m, r, h) ==
  IF m = "static"
  THEN [st : 0..h, at : IF Stamps(r) \cap {"dynamic", "action"} = {} THEN {1} ELSE 1..h]
  ELSE CASE r.part = "base" -> [st : {0}, at : {0}]
         [] r.part = "cumulative" -> {[st |-> t, at |-> t] : t \in 1..h}
         [] r.part = "volatile" -> [st : {h}, at : {h}]

StepOf(ts, v, h) ==
  CASE ts = "zero" -> 0
    [] ts = "one" -> 1
    [] ts = "static" -> v.st
    [] ts = "dynamic" -> v.at
    [] ts = "action" -> v.at - 1
    [] ts = "maxstep" -> h

\* A conjunct at a step; rigid constants have none.
Ground(j, n) ==
  [of |-> j.of, neg |-> j.neg,
   at |-> IF {Type[c] : c \in j.of} \subseteq {"rigid"} THEN {} ELSE {n}]

GroundRule(r, v, h) ==
  [does |-> r.does, head |-> Ground(r.head, StepOf(r.head.ts, v, h)),
   body |-> {Ground(j, StepOf(j.ts, v, h)) : j \in r.body}]

\* The program for horizon h > 0, where the query rules for maxstep = 0 are idle.
Program(m, h) ==
  UNION {{GroundRule(r, v, h) : v \in Valuations(m, r, h)} :
           r \in {r \in out[m] : r.does # "queryAtZero"}}

\* What a law without `unless' says, by the definition of its form: what it
\* asks of the state it is about and of the state before.
Before(s) ==
  CASE s.kind \in {"causes", "mayCause", "nonexecutable"} -> s.body \cup s.if
    [] s.kind = "always" -> s.after \cup Negated(s.body)
    [] s.kind = "inertial" -> s.after \cup {Conjunct(s.head)}
    [] s.kind = "rigid" -> {Conjunct(s.head)}
    [] OTHER -> s.after

Now(s) ==
  CASE s.kind \in {"causes", "always", "nonexecutable", "rigid"} -> {}
    [] s.kind = "mayCause" -> {Conjunct(s.head)}
    [] s.kind \in {"implication", "impossible", "never"} -> s.body
    [] s.kind = "constraint" -> Negated(s.body)
    [] s.kind \in {"basic", "caused"} -> s.if \cup s.ifcons
    [] OTHER -> s.if \cup s.ifcons \cup {Conjunct(s.head)}

\* The steps a law speaks of: a law about rigid constants once, about actions
\* wherever an action can happen, about a transition after each of them.
StepsOf(s, h) ==
  IF HeadMask(s.head) \cup Mask(Now(s) \cup Before(s)) \subseteq {"rigid"} THEN {0}
  ELSE IF HeadMask(s.head) \cap Actions # {} THEN 0..(h - 1)
  ELSE IF Before(s) # {} THEN 1..h ELSE 0..h

Meaning(s, h) ==
  {[does |-> "law", head |-> Ground(HeadAt(s.head, "zero"), n),
    body |-> {Ground(j, n) : j \in Now(s)} \cup {Ground(j, n - 1) : j \in Before(s)}] :
     n \in StepsOf(s, h)}

\* A law with an exception, which is about the step before, and nothing else
\* about it: what it says of the state at n with the exception at k.
Unanchored(s) == s.unless # {} /\ Before(s) = {}
Crossing(s, n, k) ==
  [does |-> "law", head |-> Ground(HeadAt(s.head, "zero"), n),
   body |-> {Ground(j, n) : j \in Now(s)} \cup {Ground(j, k) : j \in s.unless}]
Crossed(h) ==
  UNION {{Crossing(s, n, k) : n \in 0..h, k \in 0..(h - 1)} :
           s \in {s \in accepted : Unanchored(s)}}

-----------------------------------------------------------------------------
(* Properties *)

\* Programs whose laws say what their forms define: a law with a rigid constant
\* in its head is printed for the initial state only, whatever else is there.
HeadsUnmixed(input) ==
  \A s \in input : s.kind \in LawKinds /\ "rigid" \in HeadMask(s.head) => HeadMask(s.head) = {"rigid"}

\* Every variable has its type.
LawsTypeOK ==
  /\ language \in Languages /\ translated \subseteq Symbols
  /\ ipart \in [Modes -> Parts] /\ accepted \subseteq Input
  /\ \A m \in Modes : {r.part : r \in out[m]} \subseteq Parts
  /\ strong \in BOOLEAN /\ noconcurrency \in BOOLEAN /\ ended \in BOOLEAN
  /\ read \in 0..MaxStatements

\* The static and the incremental output are the same program at every horizon:
\* ST and AT, which range on their own, say what t says alone.  The one exception
\* is a law with `unless' and without `after': its head and its body are stamped
\* ST and its exception AT-1 (Translator.cpp:1287, 1302), so the static output holds
\* it for each state with the abActions of each step, the incremental one for
\* each state but the initial one with those of the step before.
ModesAgree ==
  \A h \in 1..MaxStep : Program("static", h) = Program("incremental", h) \cup Crossed(h)

\* A rule is in a part where its step variable has a value: none mentions t in
\* #base, though statements switch the part and statements print rules of others.
PartsFit ==
  \A r \in out["incremental"] :
    /\ r.part # "none"
    /\ r.part = "base" => Stamps(r) \subseteq {"zero", "one"}
    /\ r.part = "cumulative" => "maxstep" \notin Stamps(r)

\* The rules of laws are, in both outputs, exactly the instances the laws have
\* by the definition of their forms, at the first and the last step too.  Laws
\* that mention abActions are not looked at: `unless' is what ExceptionsBlock says.
LawsHold ==
  \A m \in Modes, h \in 1..MaxStep :
    {r \in Program(m, h) : r.does = "law" /\ "abAction" \notin Mask(r.body)} =
      UNION {Meaning(s, h) : s \in {s \in accepted :
               s.unless = {} /\ "abAction" \notin Mask(Now(s) \cup Before(s))}}

\* A constant that was declared, by its statement or by the law that mentions
\* it, has one value at each of its steps.
OneValuePerStep ==
  \A m \in Modes, h \in 1..MaxStep : \A c \in translated :
    {r.head.at : r \in {r \in Program(m, h) : r.does = "oneValue" /\ r.head.of = {c}}} =
      CASE Type[c] = "rigid" -> {{}}
        [] Type[c] \in Actions -> {{n} : n \in 0..(h - 1)}
        [] OTHER -> {{n} : n \in 0..h}

\* Two actions that must not happen at one step: under noconcurrency Boolean
\* ones, under strong_noconcurrency, and in BC and BC+, any.
MustExclude(c, d) ==
  /\ noconcurrency \/ strong
  /\ c # d /\ {Type[c], Type[d]} \subseteq Regular
  /\ strong \/ language # "C+" \/ {c, d} \subseteq BooleanSorts

\* When the epilogue is printed, and no sooner, exactly the actions that must not
\* happen together exclude one another, at each step at which an action can happen.
ActionsExclude ==
  \A m \in Modes, h \in 1..MaxStep :
    {r.body : r \in {r \in Program(m, h) : r.does = "exclude"}} =
      UNION {{{Ground(Conjunct({p[1]}), n), Ground(Conjunct({p[2]}), n)} : n \in 0..(h - 1)} :
               p \in {q \in Symbols \X Symbols : ended /\ MustExclude(q[1], q[2])}}

\* The examples: an abAction of an `unless' clause lifts the law.
ExceptionsBlock ==
  \A s \in accepted, m \in Modes :
    s.unless # {} =>
      \E r \in out[m] : /\ r.does = "law" /\ r.head.of = s.head
                        /\ At(Negated(s.unless), "action") \subseteq r.body
=============================================================================
