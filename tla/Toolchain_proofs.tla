--------------------------- MODULE Toolchain_proofs ---------------------------
(***************************************************************************)
(* Proofs about the orchestrator, for every command line of any length, any *)
(* range of the step counter and any queries of the domain.                 *)
(***************************************************************************)
EXTENDS Toolchain, SequenceTheorems, TLAPS

\* Steps are natural numbers, 0, 1 and UNDEFINED among them.
LEMMA StepIsNat == Step \subseteq Nat /\ 0 \in Step /\ 1 \in Step /\ Undefined \in Step
<1>1. Undefined \in Nat /\ Undefined > 1
  BY ConfigAssumption DEF ConfigAssumption
<1>2. \A x \in 0..Undefined : x \in Nat
  BY <1>1
<1>3. 0 \in 0..Undefined /\ 1 \in 0..Undefined /\ Undefined \in 0..Undefined
  BY <1>1
<1>. QED BY <1>2, <1>3 DEF Step

\* The steps of a query.
QuerySpace == [minstep : Step, maxstep : Step]

\* A known query has a name, and its steps are steps.
LEMMA KnownQueries ==
  ASSUME NEW q \in DOMAIN Queries
  PROVE  q # "" /\ q \in QueryName /\ Queries[q] \in QuerySpace
<1>1. Between(0, 0) \in QuerySpace /\ Between(1, 1) \in QuerySpace
  BY StepIsNat DEF Between, QuerySpace
<1>2. CASE q \in DOMAIN BuiltInQueries
  <2>1. q \in {"sat", "transitions", "states"}
    BY <1>2 DEF BuiltInQueries
  <2>2. Queries[q] = BuiltInQueries[q]
    BY <1>2 DEF Queries
  <2>3. Queries[q] \in {Between(1, 1), Between(0, 0)}
    BY <1>2, <2>2 DEF BuiltInQueries
  <2>4. Queries[q] \in QuerySpace
    BY <1>1, <2>3
  <2>5. q # ""
    BY <2>1
  <2>6. q \in QueryName
    BY <2>1 DEF QueryName
  <2>. QED BY <2>4, <2>5, <2>6
<1>3. CASE q \notin DOMAIN BuiltInQueries
  <2>1. q \in DOMAIN DomainQueries /\ Queries[q] = DomainQueries[q]
    BY <1>3 DEF Queries
  <2>. QED BY <2>1, ConfigAssumption DEF ConfigAssumption, QuerySpace, QueryName
<1>. QED BY <1>2, <1>3

 
\* Every input file was an option of the command line.
InputsCounted == \A t \in Tools : mInputs[t] <= parsed

\* Parsing one option keeps the type of the configuration.
LEMMA OptionsKeepType ==
  ASSUME ConfigTypeOK, InputsCounted, ParseOption
  PROVE  ConfigTypeOK' /\ InputsCounted'
<1>. USE DEF ConfigTypeOK, InputsCounted
<1>1. PICK o \in Options : OptRun(o) \/ OptCommand(o) \/ OptInput(o) \/ OptMode(o) \/ OptLang(o)
                           \/ OptQuery(o) \/ OptAuto(o) \/ OptConst(o) \/ OptMaxstep(o)
                           \/ OptMinstep(o)
  BY DEF ParseOption
<1>2. o \in OptionSpace /\ MaxOptions \in Nat
  BY <1>1, ConfigAssumption DEF ConfigAssumption
<1>3. parsed < MaxOptions /\ parsed' = parsed + 1 /\ parsed' \in 0..MaxOptions
  <2>1. parsed < MaxOptions /\ parsed' = parsed + 1
    BY <1>1 DEF NextOption, OptRun, OptCommand, OptInput, OptMode, OptLang, OptQuery, OptAuto,
                OptConst, OptMaxstep, OptMinstep
  <2>. QED BY <1>2, <2>1
<1>4. CASE OptRun(o)
  <2>1. o.tool \in Tools /\ mRun' \subseteq Tools
    BY <1>2, <1>4 DEF OptRun, OptionSpace, Tools
  <2>. QED BY <1>3, <1>4, <2>1 DEF OptRun, modeVars, stepVars, queryVars
<1>5. CASE OptCommand(o)
  <2>1. o.tool \in Tools
    BY <1>2, <1>5 DEF OptCommand, OptionSpace, Tools
  <2>. QED BY <1>3, <1>5, <2>1 DEF OptCommand, modeVars, stepVars, queryVars
<1>6. CASE OptInput(o)
  <2>1. o.tool \in Tools
    BY <1>2, <1>6 DEF OptInput, OptionSpace, Tools
  <2>2. \A t \in Tools : mInputs'[t] \in 0..MaxOptions /\ mInputs'[t] <= parsed'
    BY <1>2, <1>3, <1>6, <2>1 DEF OptInput
  <2>. QED BY <1>3, <1>6, <2>2 DEF OptInput, modeVars, stepVars, queryVars
<1>7. CASE OptMode(o)
  <2>1. o.mode \in Modes
    BY <1>2, <1>7 DEF OptMode, OptionSpace
  <2>2. mRun' \subseteq Tools /\ mRunningMode' \in Modes /\ mCustomRunningMode' \in BOOLEAN
    BY <1>7, <2>1 DEF OptMode, Mode
  <2>. QED BY <1>3, <1>7, <2>2 DEF OptMode, stepVars, queryVars
<1>8. CASE OptLang(o)
  <2>1. o.mvpf \in BOOLEAN
    BY <1>2, <1>8 DEF OptLang, OptionSpace
  <2>2. mMvpf' \in BOOLEAN /\ strQuery' \in QueryName
    BY <1>8, <2>1 DEF OptLang, QueryName
  <2>3. mRunningMode' \in Modes /\ mCustomRunningMode' \in BOOLEAN
    BY <1>8 DEF OptLang, Modes, modeVars
  <2>. QED BY <1>3, <1>8, <2>2, <2>3 DEF OptLang, runVars, stepVars
<1>9. CASE OptQuery(o)
  <2>1. strQuery' \in QueryName
    BY <1>1, <1>9 DEF OptQuery, QueryName
  <2>. QED BY <1>3, <1>9, <2>1 DEF OptQuery, runVars, modeVars, stepVars
<1>10. CASE OptAuto(o)
  BY <1>3, <1>10 DEF OptAuto, runVars, modeVars, stepVars, queryVars
<1>11. CASE OptConst(o)
  <2>1. o.first \in Step /\ o.second \in Step
    BY <1>2, <1>11 DEF OptConst, OptionSpace
  <2>. QED BY <1>3, <1>11, <2>1 DEF OptConst, runVars, modeVars, queryVars
<1>12. CASE OptMaxstep(o)
  <2>1. o.first \in Step /\ o.second \in Step
    BY <1>2, <1>12 DEF OptMaxstep, OptionSpace
  <2>2. minStep' \in Step /\ maxStep' \in Step
    BY <1>12, <2>1 DEF OptMaxstep
  <2>. QED BY <1>3, <1>12, <2>2 DEF OptMaxstep, runVars, modeVars, queryVars
<1>13. CASE OptMinstep(o)
  <2>1. o.step \in Step
    BY <1>2, <1>13 DEF OptMinstep, OptionSpace
  <2>. QED BY <1>3, <1>13, <2>1 DEF OptMinstep, runVars, modeVars, queryVars
<1>. QED BY <1>1, <1>4, <1>5, <1>6, <1>7, <1>8, <1>9, <1>10, <1>11, <1>12, <1>13

\* A step of main() that leaves the configuration alone keeps its type.
LEMMA ConfigUnchanged ==
  ASSUME ConfigTypeOK, UNCHANGED configVars
  PROVE  ConfigTypeOK'
BY DEF ConfigTypeOK, configVars

\* The six tools are all the tools.
LEMMA ToolsAre ==
  {Translator, Preproc, C4Preproc, Solver, Postproc, ReactiveBridge} = Tools
BY DEF Translator, Preproc, C4Preproc, Solver, Postproc, ReactiveBridge, Tools

\* Where the stages lead.
LEMMA PlacesAre ==
  /\ {"preproc", "c4", "symtab", "postproc", "advance"} \subseteq Places
  /\ {"translator error", "preproc error"} \subseteq ExitCodes
BY DEF Places, ExitCodes

\* A launch reads outputs of tools.
LEMMA LaunchKeepsType ==
  ASSUME ToolchainTypeOK, NEW tool, Launch(tool)
  PROVE  fed' \subseteq Outputs
<1>1. \A t \in Feeder(tool) : output[t] \in Outputs
  BY DEF Feeder, ToolchainTypeOK, ConfigTypeOK
<1>. QED BY <1>1 DEF Launch, ToolchainTypeOK

\* A run leaves an output behind, whatever its status.
LEMMA WrittenKeepsType ==
  ASSUME ToolchainTypeOK, NEW tool \in Tools, NEW status, Written(tool, status)
  PROVE  output' \in [Tools -> Outputs]
BY DEF ToolchainTypeOK, Written, Outputs

\* A tool that runs once keeps the types.
LEMMA StageKeepsType ==
  ASSUME ToolchainTypeOK, NEW l, NEW tool \in Tools, NEW shown, NEW code \in ExitCodes,
         NEW next \in Places, Stage(l, tool, shown, code, next)
  PROVE  ToolchainTypeOK'
<1>1. PICK status : Written(tool, status) /\ (EchoFails(shown) \/ Goto(next) \/ Leave(code))
  BY DEF Stage
<1>2. output' \in [Tools -> Outputs] /\ fed' \subseteq Outputs
  BY <1>1, WrittenKeepsType, LaunchKeepsType DEF Stage
<1>3. at' \in Places /\ exit' \in ExitCodes
  BY <1>1 DEF Goto, Leave, EchoFails, Places, ExitCodes, ToolchainTypeOK
<1>4. translated' \in Modes \cup {""}
  BY DEF Stage, ToolchainTypeOK, ConfigTypeOK
<1>5. ConfigTypeOK'
  BY ConfigUnchanged DEF Stage, ToolchainTypeOK
<1>. QED BY <1>2, <1>3, <1>4, <1>5 DEF Stage, ToolchainTypeOK, searchVars

\* Skipping a tool keeps the types.
LEMMA SkipKeepsType ==
  ASSUME ToolchainTypeOK, NEW l, NEW tool, NEW next \in Places, SkipStage(l, tool, next)
  PROVE  ToolchainTypeOK'
<1>1. ConfigTypeOK'
  BY ConfigUnchanged DEF SkipStage, ToolchainTypeOK
<1>. QED BY <1>1 DEF SkipStage, Goto, ToolchainTypeOK, searchVars, fileVars

\* mode() turns tools off only.
LEMMA ModeKeepsType ==
  ASSUME ConfigTypeOK, NEW m \in Modes, Mode(m)
  PROVE  mRun' \subseteq Tools /\ mRunningMode' \in Modes
BY DEF Mode, ConfigTypeOK

\* The start of a search keeps the types.
LEMMA SearchStarts ==
  ASSUME ToolchainTypeOK, NEW r \in RunConfig, StartSearch(r)
  PROVE  ToolchainTypeOK'
<1>1. maxmaxstep' \in Step /\ runConfig' \in RunConfig /\ tried' \in Seq(Attempt)
  <2>1. r.minstep \in Step /\ r.maxstep \in Step
    BY DEF RunConfig
  <2>2. tried' = <<>> /\ maxmaxstep' = r.maxstep
    BY DEF StartSearch
  <2>3. runConfig' = [r EXCEPT !.maxstep = r.minstep] \/ runConfig' = [r EXCEPT !.maxstep = r.maxstep]
    BY DEF StartSearch
  <2>. QED BY <2>1, <2>2, <2>3 DEF RunConfig
<1>2. at' \in Places /\ exit' \in ExitCodes /\ foundEarlier' \in BOOLEAN
  BY DEF StartSearch, Goto, Leave, Places, ExitCodes, ToolchainTypeOK
<1>3. ConfigTypeOK'
  BY ConfigUnchanged DEF StartSearch, ToolchainTypeOK
<1>. QED BY <1>1, <1>2, <1>3 DEF StartSearch, ToolchainTypeOK, fileVars

\* The options are a configuration of the solver.
LEMMA ConfiguredType ==
  ASSUME ConfigTypeOK
  PROVE  Configured \in RunConfig
BY DEF Configured, ConfigTypeOK, RunConfig

\* What follows from a query is a configuration of the solver.
LEMMA ResolvedType ==
  ASSUME ConfigTypeOK, NEW q \in DOMAIN Queries, NEW run \in RunConfig
  PROVE  Resolve(q, run) \in RunConfig
<1>1. q \in QueryName /\ Queries[q].minstep \in Step /\ Queries[q].maxstep \in Step
  BY KnownQueries DEF QuerySpace
<1>. QED BY <1>1, StepIsNat DEF Resolve, RunConfig, ConfigTypeOK

TypeInv == ToolchainTypeOK /\ InputsCounted

\* A step that changes only where main() is keeps the types.
LEMMA LeavingKeepsType ==
  ASSUME ToolchainTypeOK, UNCHANGED <<configVars, searchVars, fileVars>>,
         at' \in Places, exit' \in ExitCodes
  PROVE  ToolchainTypeOK'
<1>1. ConfigTypeOK'
  BY ConfigUnchanged DEF ToolchainTypeOK
<1>. QED BY <1>1 DEF ToolchainTypeOK, searchVars, fileVars

\* Marking the last run of the solver as one that found changes nothing else.
LEMMA LastFound ==
  ASSUME NEW s \in Seq(Attempt), s # <<>>
  PROVE  LET t == [s EXCEPT ![Len(s)].found = TRUE] IN
         /\ t \in Seq(Attempt) /\ Len(t) = Len(s) /\ Len(s) \in Nat \ {0}
         /\ \A i \in 1..Len(s) :
              t[i].step = s[i].step /\ (i # Len(s) => t[i].found = s[i].found)
<1>. DEFINE n == Len(s)
            last == [s[n] EXCEPT !.found = TRUE]
            t == [s EXCEPT ![n] = last]
<1>1. n \in Nat \ {0} /\ n \in 1..n
  BY EmptySeq
<1>2. s[n] \in Attempt
  BY <1>1, ElementOfSeq
<1>3. last \in Attempt /\ last.step = s[n].step
  BY <1>2 DEF Attempt
<1>4. /\ t \in Seq(Attempt) /\ Len(t) = n
      /\ \A i \in 1..n : t[i] = IF i = n THEN last ELSE s[i]
  BY <1>1, <1>3, ExceptSeq
<1>. HIDE DEF last
<1>5. \A i \in 1..n : t[i].step = s[i].step /\ (i # n => t[i].found = s[i].found)
  BY <1>3, <1>4
<1>. USE DEF last
<1>. QED BY <1>1, <1>4, <1>5

\* One more run of the solver is recorded.
LEMMA TriedKeepsType ==
  ASSUME ToolchainTypeOK, NEW found \in BOOLEAN, Tried(found)
  PROVE  tried' \in Seq(Attempt)
<1>1. [step |-> runConfig.maxstep, found |-> found] \in Attempt
  BY DEF Attempt, ToolchainTypeOK, RunConfig
<1>2. (IF mRunningMode = "static-auto" THEN tried ELSE <<>>) \in Seq(Attempt)
  <2>1. tried \in Seq(Attempt)
    BY DEF ToolchainTypeOK
  <2>2. <<>> \in Seq(Attempt)
    OBVIOUS
  <2>. QED BY <2>1, <2>2
<1>. QED BY <1>1, <1>2 DEF Tried

\* The step after a step, which may have wrapped, is a step.
LEMMA NextStepType ==
  ASSUME NEW step \in Step
  PROVE  (step + 1) % (Undefined + 1) \in Step
<1>1. Undefined \in Nat
  BY ConfigAssumption DEF ConfigAssumption
<1>2. step \in Nat
  BY StepIsNat
<1>. QED BY <1>1, <1>2 DEF Step

\* Natural numbers are ordered.
LEMMA NatOrder == \A a, b \in Nat : a > b \/ a <= b
OBVIOUS

\* Only the largest unsigned number wraps.
LEMMA NoWrap ==
  ASSUME NEW m \in Nat, NEW x \in 0..m, x # m
  PROVE  (x + 1) % (m + 1) = x + 1
OBVIOUS

\* Every step keeps the types; an input file is an option, so there are at most MaxOptions.
LEMMA TypeStep ==
  ASSUME TypeInv, [ToolchainNext]_toolchainVars
  PROVE  TypeInv'
<1>. USE DEF TypeInv
<1>1. CASE Parse
  <2>1. ConfigTypeOK' /\ InputsCounted'
    BY <1>1, OptionsKeepType DEF Parse, ToolchainTypeOK
  <2>. QED BY <1>1, <2>1 DEF Parse, ToolchainTypeOK, mainVars
<1>2. CASE LeaveEarly
  BY <1>2, LeavingKeepsType DEF LeaveEarly, Leave, Places, ExitCodes, InputsCounted, configVars
<1>3. CASE StartTools
  <2>1. mRun' \subseteq Tools /\ mRunningMode' \in Modes /\ mCustomRunningMode' \in BOOLEAN
    BY <1>3, ModeKeepsType DEF StartTools, Modes, ToolchainTypeOK, ConfigTypeOK
  <2>2. at' \in Places /\ exit' \in ExitCodes
    BY <1>3 DEF StartTools, Goto, Leave, Places, ExitCodes, ToolchainTypeOK
  <2>3. ConfigTypeOK' /\ InputsCounted'
    BY <1>3, <2>1 DEF StartTools, stepVars, queryVars, ToolchainTypeOK, ConfigTypeOK, InputsCounted
  <2>. QED BY <1>3, <2>2, <2>3 DEF StartTools, searchVars, fileVars, ToolchainTypeOK
<1>4. CASE Translation
  <2>1. CASE RunTranslator
    <3>1. \/ Stage("translator", Translator, Shown(Translator, Preproc), "translator error", "preproc")
          \/ SkipStage("translator", Translator, "preproc")
      BY <2>1 DEF RunTranslator
    <3>2. UNCHANGED configVars
      BY <3>1 DEF Stage, SkipStage
    <3>3. ToolchainTypeOK'
      BY <3>1, ToolsAre, PlacesAre, StageKeepsType, SkipKeepsType
    <3>. QED BY <3>2, <3>3 DEF InputsCounted, configVars
  <2>2. CASE RunPreproc
    <3>1. \/ Stage("preproc", Preproc, Shown(Preproc, Solver), "preproc error", "c4")
          \/ SkipStage("preproc", Preproc, "c4")
      BY <2>2 DEF RunPreproc
    <3>2. UNCHANGED configVars
      BY <3>1 DEF Stage, SkipStage
    <3>3. ToolchainTypeOK'
      BY <3>1, ToolsAre, PlacesAre, StageKeepsType, SkipKeepsType
    <3>. QED BY <3>2, <3>3 DEF InputsCounted, configVars
  <2>3. CASE RunC4Preproc
    <3>1. \/ Stage("c4", C4Preproc, Shown(Preproc, Solver), "preproc error", "symtab")
          \/ SkipStage("c4", C4Preproc, "symtab")
      BY <2>3 DEF RunC4Preproc
    <3>2. UNCHANGED configVars
      BY <3>1 DEF Stage, SkipStage
    <3>3. ToolchainTypeOK'
      BY <3>1, ToolsAre, PlacesAre, StageKeepsType, SkipKeepsType
    <3>. QED BY <3>2, <3>3 DEF InputsCounted, configVars
  <2>4. ASSUME NEW external \in BOOLEAN, ReadSymbols(external) PROVE TypeInv'
    <3>1. mRun' \subseteq Tools /\ mRunningMode' \in Modes /\ mCustomRunningMode' \in BOOLEAN
      BY <2>4, ModeKeepsType DEF ReadSymbols, SwitchToReactive, Modes, ToolchainTypeOK, ConfigTypeOK
    <3>2. at' \in Places /\ exit' \in ExitCodes /\ symtab' \in BOOLEAN
      BY <2>4 DEF ReadSymbols, Goto, Places, ToolchainTypeOK
    <3>3. ConfigTypeOK' /\ InputsCounted'
      BY <2>4, <3>1 DEF ReadSymbols, stepVars, queryVars, ToolchainTypeOK, ConfigTypeOK, InputsCounted
    <3>. QED BY <2>4, <3>2, <3>3 DEF ReadSymbols, searchVars, ToolchainTypeOK
  <2>5. CASE NoMaxAdditive
    BY <2>5, LeavingKeepsType DEF NoMaxAdditive, Leave, Places, ExitCodes, InputsCounted, configVars
  <2>. QED BY <1>4, <2>1, <2>2, <2>3, <2>4, <2>5 DEF Translation
<1>5. CASE ProgramMissing
  BY <1>5, LeavingKeepsType DEF ProgramMissing, Leave, Places, ExitCodes, InputsCounted, configVars
<1>6. CASE Query \/ User
  <2>1. CASE BeginQuery
    BY <2>1, SearchStarts, ConfiguredType
       DEF BeginQuery, StartSearch, InputsCounted, configVars, ToolchainTypeOK
  <2>2. CASE BeginKnownQuery
    BY <2>2, SearchStarts, ConfiguredType, ResolvedType
       DEF BeginKnownQuery, StartSearch, InputsCounted, configVars, ToolchainTypeOK
  <2>3. CASE RefuseQuery
    BY <2>3, LeavingKeepsType DEF RefuseQuery, Leave, Places, ExitCodes, InputsCounted, configVars
  <2>4. CASE Prompt
    <3>1. ConfigTypeOK' /\ InputsCounted' /\ at' \in Places
      BY <2>4, ConfigUnchanged
         DEF Prompt, Goto, Places, InputsCounted, configVars, ToolchainTypeOK
    <3>. QED BY <2>4, <3>1, ConfiguredType DEF Prompt, Goto, ToolchainTypeOK, fileVars
  <2>5. CASE PromptSteps
    <3>1. ConfigTypeOK' /\ InputsCounted'
      BY <2>5, ConfigUnchanged DEF PromptSteps, InputsCounted, configVars, ToolchainTypeOK
    <3>2. runConfig' \in RunConfig
      BY <2>5, StepsAssumption, StepIsNat
         DEF PromptSteps, StepsAssumption, RunConfig, ToolchainTypeOK
    <3>. QED BY <2>5, <3>1, <3>2 DEF PromptSteps, ToolchainTypeOK, fileVars
  <2>6. CASE PromptQuery
    BY <2>6, SearchStarts, ResolvedType
       DEF PromptQuery, StartSearch, InputsCounted, configVars, ToolchainTypeOK
  <2>7. CASE PromptExit
    BY <2>7, LeavingKeepsType DEF PromptExit, Leave, Places, ExitCodes, InputsCounted, configVars
  <2>. QED BY <1>6, <2>1, <2>2, <2>3, <2>4, <2>5, <2>6, <2>7 DEF Query, User
<1>7. CASE Search
  <2>1. CASE SolverInBackground
    <3>1. ConfigTypeOK' /\ InputsCounted' /\ at' \in Places
      BY <2>1, ConfigUnchanged
         DEF SolverInBackground, Goto, Places, InputsCounted, configVars, ToolchainTypeOK
    <3>2. fed' \subseteq Outputs /\ tried' \in Seq(Attempt)
      BY <2>1, LaunchKeepsType, TriedKeepsType DEF SolverInBackground
    <3>. QED BY <2>1, <3>1, <3>2 DEF SolverInBackground, Goto, ToolchainTypeOK
  <2>2. CASE RunSolver
    <3>1. PICK status : /\ Written(Solver, status) /\ Tried(status = "found")
                        /\ at' \in {"postproc", "exit"}
                        /\ exit' \in {exit, "echo error", "solver error"}
                        /\ blnFoundSolutions' = (blnFoundSolutions \/ status = "found")
      BY <2>2 DEF RunSolver, EchoFails, Goto, Leave
    <3>2. ConfigTypeOK' /\ InputsCounted' /\ at' \in Places /\ exit' \in ExitCodes
      BY <2>2, <3>1, ConfigUnchanged
         DEF RunSolver, Places, ExitCodes, InputsCounted, configVars, ToolchainTypeOK
    <3>3. fed' \subseteq Outputs /\ tried' \in Seq(Attempt)
      BY <2>2, <3>1, LaunchKeepsType, TriedKeepsType DEF RunSolver
    <3>4. output' \in [Tools -> Outputs]
      BY <3>1, WrittenKeepsType, ToolsAre
    <3>5. blnFoundSolutions' \in BOOLEAN
      BY <3>1
    <3>. QED BY <2>2, <3>2, <3>3, <3>4, <3>5 DEF RunSolver, ToolchainTypeOK
  <2>3. CASE SkipSolver
    BY <2>3, SkipKeepsType DEF SkipSolver, SkipStage, Places, InputsCounted, configVars
  <2>4. CASE RunPostproc
    <3>1. PICK status : /\ Written(Postproc, status)
                        /\ at' \in {"advance", "exit"}
                        /\ exit' \in {exit, "echo error", "postproc error"}
                        /\ blnFoundSolutions' = (blnFoundSolutions \/ status = "found")
                        /\ tried' = IF tried # <<>> /\ status = "found"
                                    THEN [tried EXCEPT ![Len(tried)].found = TRUE] ELSE tried
      BY <2>4 DEF RunPostproc, EchoFails, Goto, Leave
    <3>2. ConfigTypeOK' /\ InputsCounted' /\ at' \in Places /\ exit' \in ExitCodes
      BY <2>4, <3>1, ConfigUnchanged
         DEF RunPostproc, Places, ExitCodes, InputsCounted, configVars, ToolchainTypeOK
    <3>3. fed' \subseteq Outputs
      BY <2>4, LaunchKeepsType DEF RunPostproc
    <3>4. output' \in [Tools -> Outputs]
      BY <3>1, WrittenKeepsType, ToolsAre
    <3>5. blnFoundSolutions' \in BOOLEAN
      BY <3>1
    <3>6. tried' \in Seq(Attempt)
      BY <3>1, LastFound DEF ToolchainTypeOK
    <3>. QED BY <2>4, <3>2, <3>3, <3>4, <3>5, <3>6 DEF RunPostproc, ToolchainTypeOK
  <2>5. CASE SkipPostproc
    BY <2>5, SkipKeepsType DEF SkipPostproc, SkipStage, Places, InputsCounted, configVars
  <2>6. CASE RunBridge
    BY <2>6, LeavingKeepsType
       DEF RunBridge, Goto, Leave, Places, ExitCodes, InputsCounted, configVars, ToolchainTypeOK
  <2>7. CASE SkipBridge
    BY <2>7, SkipKeepsType DEF SkipBridge, SkipStage, Places, InputsCounted, configVars
  <2>8. CASE Advance
    <3>1. ConfigTypeOK' /\ InputsCounted' /\ at' \in Places
      BY <2>8, ConfigUnchanged
         DEF Advance, Goto, Places, InputsCounted, configVars, ToolchainTypeOK
    <3>2. PICK step : /\ step \in Steps \cup {Undefined, runConfig.maxstep,
                                              (runConfig.maxstep + 1) % (Undefined + 1)}
                      /\ runConfig' = [runConfig EXCEPT !.maxstep = step]
      BY <2>8 DEF Advance
    <3>3. runConfig.maxstep \in Step
      BY DEF ToolchainTypeOK, RunConfig
    <3>4. step \in Step
      BY <3>2, <3>3, StepsAssumption, StepIsNat, NextStepType DEF StepsAssumption
    <3>5. runConfig' \in RunConfig
      BY <3>2, <3>4 DEF ToolchainTypeOK, RunConfig
    <3>. QED BY <2>8, <3>1, <3>5 DEF Advance, Goto, ToolchainTypeOK, fileVars
  <2>9. CASE NextQuery
    BY <2>9, LeavingKeepsType
       DEF NextQuery, Goto, Leave, Places, ExitCodes, InputsCounted, configVars, ToolchainTypeOK
  <2>. QED BY <1>7, <2>1, <2>2, <2>3, <2>4, <2>5, <2>6, <2>7, <2>8, <2>9 DEF Search
<1>8. CASE UNCHANGED toolchainVars
  <2>1. UNCHANGED configVars /\ UNCHANGED mainVars
    BY <1>8 DEF toolchainVars
  <2>. QED BY <2>1, ConfigUnchanged DEF ToolchainTypeOK, InputsCounted, mainVars, configVars
<1>. QED BY <1>1, <1>2, <1>3, <1>4, <1>5, <1>6, <1>7, <1>8 DEF ToolchainNext

\* main() starts with the types.
LEMMA TypeInit == ToolchainInit => TypeInv
<1>. SUFFICES ASSUME ToolchainInit PROVE TypeInv
  OBVIOUS
<1>1. ConfigTypeOK /\ InputsCounted
  <2>1. MaxOptions \in Nat
    BY ConfigAssumption DEF ConfigAssumption
  <2>2. 0 \in 0..MaxOptions
    BY <2>1
  <2>3. mInputs = [t \in Tools |-> 0] /\ parsed = 0
    BY DEF ToolchainInit, ConfigInit
  <2>4. mInputs \in [Tools -> 0..MaxOptions] /\ \A t \in Tools : mInputs[t] <= parsed
    BY <2>2, <2>3
  <2>5. mRunningMode \in Modes /\ strQuery \in QueryName
    BY DEF ToolchainInit, ConfigInit, Modes, QueryName
  <2>. QED BY <2>2, <2>4, <2>5, StepIsNat
           DEF ToolchainInit, ConfigInit, ConfigTypeOK, InputsCounted
<1>2. at \in Places /\ exit \in ExitCodes /\ runConfig \in RunConfig
  BY StepIsNat DEF ToolchainInit, Places, ExitCodes, RunConfig, QueryName
<1>3. tried \in Seq(Attempt)
  BY EmptySeq DEF ToolchainInit
<1>. QED BY <1>1, <1>2, <1>3, StepIsNat DEF ToolchainInit, ToolchainTypeOK, TypeInv, Outputs

\* The inductive form of TypeCorrect: the number of inputs is bounded by the number
\* of options parsed.
THEOREM TypesHold == ToolchainSpec => []TypeInv
<1>. QED BY TypeInit, TypeStep, PTL DEF ToolchainSpec

\* main() and the configuration keep the types ToolchainTypeOK gives them.
THEOREM TypeCorrect == ToolchainSpec => []ToolchainTypeOK
<1>1. TypeInv => ToolchainTypeOK
  BY DEF TypeInv
<1>. QED BY <1>1, TypesHold, PTL

\* A tool is looked for only where it runs.
LEMMA MissingWhere ==
  ASSUME ProgramMissing
  PROVE  at \in {"translator", "preproc", "c4", "solver", "postproc"}
<1>1. CASE at = "postproc"
  BY <1>1
<1>2. ASSUME NEW tool \in {Translator, Preproc, C4Preproc, Solver},
             at = <<"translator", "preproc", "c4", "solver">>[tool]
      PROVE  at \in {"translator", "preproc", "c4", "solver"}
  <2>1. tool \in {1, 2, 3, 5 - 1}
    BY DEF Translator, Preproc, C4Preproc, Solver
  <2>2. tool \in 1..4
    BY <2>1
  <2>. QED BY <1>2, <2>2
<1>. QED BY <1>1, <1>2 DEF ProgramMissing

\* As long as main() runs no tool has failed.
CleanInv ==
  /\ "failed" \notin fed
  /\ at # "exit" => \A t \in Tools : output[t] # "failed"

\* As long as no output is of a failed tool, none is read.
LEMMA LaunchIsClean ==
  ASSUME ToolchainTypeOK, CleanInv, at # "exit", NEW tool, Launch(tool)
  PROVE  "failed" \notin fed'
BY DEF Launch, Feeder, CleanInv, ToolchainTypeOK, ConfigTypeOK

\* A tool that does not fail leaves no output of a failed one.
LEMMA WrittenIsClean ==
  ASSUME ToolchainTypeOK, CleanInv, at # "exit", NEW tool \in Tools, NEW status,
         Written(tool, status), status # "error"
  PROVE  \A t \in Tools : output'[t] # "failed"
BY DEF Written, CleanInv, ToolchainTypeOK

\* A tool that fails stops the program.
LEMMA StageIsClean ==
  ASSUME ToolchainTypeOK, CleanInv, at # "exit", NEW l, NEW tool \in Tools, NEW shown, NEW code,
         NEW next, Stage(l, tool, shown, code, next)
  PROVE  CleanInv'
<1>1. PICK status : /\ Written(tool, status)
                    /\ status # "ok" => at' = "exit"
  BY DEF Stage, EchoFails, Leave
<1>2. "failed" \notin fed'
  BY LaunchIsClean DEF Stage
<1>3. ASSUME at' # "exit" PROVE \A t \in Tools : output'[t] # "failed"
  BY <1>1, <1>3, WrittenIsClean
<1>. QED BY <1>2, <1>3 DEF CleanInv

\* Every step keeps the outputs clean until the program ends.
LEMMA CleanStep ==
  ASSUME ToolchainTypeOK, CleanInv, [ToolchainNext]_toolchainVars
  PROVE  CleanInv'
<1>1. CASE at # "exit" /\ output' = output /\ fed' = fed
  BY <1>1 DEF CleanInv
<1>2. CASE UNCHANGED toolchainVars
  BY <1>2 DEF CleanInv, toolchainVars, mainVars
<1>3. CASE Parse \/ LeaveEarly \/ StartTools \/ ProgramMissing
  <2>1. at # "exit"
    BY <1>3, MissingWhere DEF Parse, LeaveEarly, StartTools
  <2>2. output' = output /\ fed' = fed
    BY <1>3 DEF Parse, LeaveEarly, StartTools, ProgramMissing, mainVars, fileVars
  <2>. QED BY <1>1, <2>1, <2>2
<1>4. CASE Query \/ User
  BY <1>1, <1>4 DEF Query, User, BeginQuery, BeginKnownQuery, RefuseQuery, Prompt, PromptSteps,
                    PromptQuery, PromptExit, StartSearch, fileVars
<1>5. CASE Translation
  <2>1. CASE RunTranslator
    <3>1. \/ Stage("translator", Translator, Shown(Translator, Preproc), "translator error", "preproc")
          \/ SkipStage("translator", Translator, "preproc")
      BY <2>1 DEF RunTranslator
    <3>. QED BY <3>1, <1>1, ToolsAre, StageIsClean DEF Stage, SkipStage, fileVars
  <2>2. CASE RunPreproc
    <3>1. \/ Stage("preproc", Preproc, Shown(Preproc, Solver), "preproc error", "c4")
          \/ SkipStage("preproc", Preproc, "c4")
      BY <2>2 DEF RunPreproc
    <3>. QED BY <3>1, <1>1, ToolsAre, StageIsClean DEF Stage, SkipStage, fileVars
  <2>3. CASE RunC4Preproc
    <3>1. \/ Stage("c4", C4Preproc, Shown(Preproc, Solver), "preproc error", "symtab")
          \/ SkipStage("c4", C4Preproc, "symtab")
      BY <2>3 DEF RunC4Preproc
    <3>. QED BY <3>1, <1>1, ToolsAre, StageIsClean DEF Stage, SkipStage, fileVars
  <2>4. CASE NoMaxAdditive \/ \E external \in BOOLEAN : ReadSymbols(external)
    BY <2>4, <1>1 DEF NoMaxAdditive, ReadSymbols, fileVars
  <2>. QED BY <1>5, <2>1, <2>2, <2>3, <2>4 DEF Translation
<1>6. CASE Search
  <2>1. CASE SolverInBackground
    BY <2>1, LaunchIsClean DEF SolverInBackground, CleanInv
  <2>2. CASE RunSolver
    <3>1. PICK status : Written(Solver, status) /\ (status = "error" => at' = "exit")
      BY <2>2 DEF RunSolver, EchoFails, Leave
    <3>2. at # "exit" /\ "failed" \notin fed'
      BY <2>2, LaunchIsClean DEF RunSolver
    <3>. QED BY <3>1, <3>2, ToolsAre, WrittenIsClean DEF CleanInv
  <2>3. CASE RunPostproc
    <3>1. PICK status : Written(Postproc, status) /\ (status = "error" => at' = "exit")
      BY <2>3 DEF RunPostproc, EchoFails, Leave
    <3>2. at # "exit" /\ "failed" \notin fed'
      BY <2>3, LaunchIsClean DEF RunPostproc
    <3>. QED BY <3>1, <3>2, ToolsAre, WrittenIsClean DEF CleanInv
  <2>4. CASE SkipSolver \/ SkipPostproc \/ RunBridge \/ SkipBridge \/ Advance \/ NextQuery
    BY <2>4, <1>1 DEF SkipSolver, SkipPostproc, SkipStage, RunBridge, SkipBridge, Advance,
                      NextQuery, fileVars
  <2>. QED BY <1>6, <2>1, <2>2, <2>3, <2>4 DEF Search
<1>. QED BY <1>2, <1>3, <1>4, <1>5, <1>6 DEF ToolchainNext

\* No tool is ever given what a failed tool left behind: main() leaves at every
\* status that is not a success, in whatever loop it is.
THEOREM FailedOutputUnused == ToolchainSpec => []NothingFailedIsUsed
<1>1. ToolchainInit => CleanInv
  BY DEF ToolchainInit, CleanInv
<1>2. CleanInv => NothingFailedIsUsed
  BY DEF CleanInv, NothingFailedIsUsed
<1>. QED BY <1>1, <1>2, CleanStep, TypeCorrect, PTL DEF ToolchainSpec

(* The mode of the solver and the mode of the translation. *)

\* No language but MVPF is asked for.
OnlyMvpf == \A o \in Options : o.opt = "lang" => o.mvpf

StaticModes == {"static-auto", "static-manual"}

\* The mode follows from the language until one is asked for, and stays as static
\* or not static as the translation.
ModeInv ==
  /\ ~mCustomRunningMode => mRunningMode = IF mMvpf THEN "static-auto" ELSE "incremental"
  /\ at \in {"options", "translator"} => translated = ""
  /\ at \notin {"options", "translator"} /\ translated # "" =>
       (translated \in StaticModes <=> Static)

\* Without a mode asked for, the mode follows from the language.
LEMMA OptionsKeepMode ==
  ASSUME OnlyMvpf, ModeInv, ParseOption
  PROVE  ~mCustomRunningMode' => mRunningMode' = IF mMvpf' THEN "static-auto" ELSE "incremental"
<1>1. PICK o \in Options : OptRun(o) \/ OptCommand(o) \/ OptInput(o) \/ OptMode(o) \/ OptLang(o)
                           \/ OptQuery(o) \/ OptAuto(o) \/ OptConst(o) \/ OptMaxstep(o)
                           \/ OptMinstep(o)
  BY DEF ParseOption
<1>2. CASE UNCHANGED <<mCustomRunningMode, mRunningMode, mMvpf>>
  BY <1>2 DEF ModeInv
<1>3. CASE OptMode(o)
  BY <1>3 DEF OptMode
<1>4. CASE OptLang(o)
  <2>1. o.mvpf /\ mMvpf'
    BY <1>1, <1>4 DEF OptLang, OnlyMvpf
  <2>2. CASE mMvpf
    <3>1. mRunningMode' = mRunningMode /\ mCustomRunningMode' = mCustomRunningMode
      BY <1>4, <2>2 DEF OptLang, modeVars
    <3>. QED BY <2>1, <2>2, <3>1 DEF ModeInv
  <2>3. CASE ~mMvpf
    <3>1. /\ mRunningMode' = IF mCustomRunningMode THEN mRunningMode ELSE "static-auto"
          /\ mCustomRunningMode' = mCustomRunningMode
      BY <1>4, <2>1, <2>3 DEF OptLang
    <3>. QED BY <2>1, <3>1
  <2>. QED BY <2>2, <2>3
<1>. QED BY <1>1, <1>2, <1>3, <1>4
         DEF OptRun, OptCommand, OptInput, OptQuery, OptAuto, OptConst, OptMaxstep, OptMinstep,
             runVars, modeVars, queryVars

\* Every step keeps the mode and the translation together.
LEMMA ModeStep ==
  ASSUME OnlyMvpf, ToolchainTypeOK, ModeInv, [ToolchainNext]_toolchainVars
  PROVE  ModeInv'
<1>1. CASE /\ UNCHANGED <<mCustomRunningMode, mRunningMode, mMvpf, translated>>
           /\ at = at' \/ at' \notin {"options", "translator"}
           /\ at' # at => at \notin {"options", "translator"} \/ translated = ""
  BY <1>1 DEF ModeInv, Static
<1>2. CASE UNCHANGED toolchainVars
  BY <1>1, <1>2 DEF toolchainVars, mainVars, configVars
<1>3. CASE Parse
  <2>1. at' = "options" /\ translated' = ""
    BY <1>3 DEF Parse, mainVars, ModeInv
  <2>. QED BY <1>3, <2>1, OptionsKeepMode DEF Parse, ModeInv
<1>4. CASE LeaveEarly \/ ProgramMissing
  BY <1>4, <1>1 DEF LeaveEarly, ProgramMissing, Leave, ModeInv, configVars, fileVars
<1>5. CASE StartTools
  BY <1>5 DEF StartTools, ModeInv, Mode, Goto, Leave, queryVars, fileVars
<1>6. CASE Translation
  <2>1. CASE RunTranslator
    <3>1. UNCHANGED configVars /\ at' \in {"preproc", "exit"}
          /\ (translated' = mRunningMode \/ translated' = "")
      BY <2>1 DEF RunTranslator, Stage, SkipStage, EchoFails, Goto, Leave, ModeInv, fileVars
    <3>. QED BY <3>1 DEF ModeInv, Static, StaticModes, configVars
  <2>2. CASE RunPreproc \/ RunC4Preproc \/ NoMaxAdditive
    <3>0. Preproc # Translator /\ C4Preproc # Translator
      BY DEF Translator, Preproc, C4Preproc
    <3>1. UNCHANGED configVars /\ translated' = translated
      BY <2>2, <3>0 DEF RunPreproc, RunC4Preproc, NoMaxAdditive, Stage, SkipStage, fileVars
    <3>2. at \notin {"options", "translator"} /\ at' \notin {"options", "translator"}
      BY <2>2 DEF RunPreproc, RunC4Preproc, NoMaxAdditive, Stage, SkipStage, EchoFails, Goto, Leave
    <3>. QED BY <3>1, <3>2, <1>1 DEF configVars
  <2>3. ASSUME NEW external \in BOOLEAN, ReadSymbols(external) PROVE ModeInv'
    <3>1. at = "symtab" /\ at' = "query" /\ UNCHANGED <<mMvpf, translated>>
      BY <2>3 DEF ReadSymbols, Goto, queryVars
    <3>2. CASE external /\ ~mCustomRunningMode
      BY <2>3, <3>1, <3>2
         DEF ReadSymbols, SwitchToReactive, Mode, ModeInv, Static, StaticModes
    <3>3. CASE ~(external /\ ~mCustomRunningMode)
      BY <2>3, <3>1, <3>3, <1>1 DEF ReadSymbols, SwitchToReactive
    <3>. QED BY <3>2, <3>3
  <2>. QED BY <1>6, <2>1, <2>2, <2>3 DEF Translation
<1>7. CASE Query \/ User
  <2>1. UNCHANGED configVars /\ translated' = translated
    BY <1>7 DEF Query, User, BeginQuery, BeginKnownQuery, RefuseQuery, Prompt, PromptSteps,
                PromptQuery, PromptExit, StartSearch, fileVars
  <2>2. at \notin {"options", "translator"} /\ at' \notin {"options", "translator"}
    BY <1>7 DEF Query, User, BeginQuery, BeginKnownQuery, RefuseQuery, Prompt, PromptSteps,
                PromptQuery, PromptExit, StartSearch, Goto, Leave
  <2>. QED BY <2>1, <2>2, <1>1 DEF configVars
<1>8. CASE Search
  <2>1. UNCHANGED configVars /\ translated' = translated
    BY <1>8 DEF Search, SolverInBackground, RunSolver, SkipSolver, RunPostproc, SkipPostproc,
                RunBridge, SkipBridge, Advance, NextQuery, SkipStage, fileVars
  <2>2. at \notin {"options", "translator"} /\ at' \notin {"options", "translator"}
    BY <1>8 DEF Search, SolverInBackground, RunSolver, SkipSolver, RunPostproc, SkipPostproc,
                RunBridge, SkipBridge, Advance, NextQuery, SkipStage, EchoFails, Goto, Leave
  <2>. QED BY <2>1, <2>2, <1>1 DEF configVars
<1>. QED BY <1>2, <1>3, <1>4, <1>5, <1>6, <1>7, <1>8 DEF ToolchainNext

\* The solver is run in a static mode exactly when the translator was, if MVPF is
\* the only language that is asked for: with another -l after it, lang() leaves
\* static-auto behind without remembering why.
THEOREM ModeFollowsTranslation ==
  ASSUME OnlyMvpf
  PROVE  ToolchainSpec => []SolvedAsTranslated
<1>1. ToolchainInit => ModeInv
  BY DEF ToolchainInit, ConfigInit, ModeInv
<1>2. ModeInv => SolvedAsTranslated
  <2>1. SUFFICES ASSUME ModeInv, at = "solver", translated # ""
                 PROVE  (translated \in StaticModes) = Static
    BY DEF SolvedAsTranslated, StaticModes
  <2>2. translated \in StaticModes <=> Static
    BY <2>1 DEF ModeInv
  <2>3. (translated \in StaticModes) \in BOOLEAN /\ Static \in BOOLEAN
    BY DEF Static
  <2>. QED BY <2>2, <2>3
<1>3. ToolchainTypeOK /\ ModeInv /\ [ToolchainNext]_toolchainVars => ModeInv'
  BY ModeStep
<1>. QED BY <1>1, <1>2, <1>3, TypeCorrect, PTL DEF ToolchainSpec

(* The configuration of the solver. *)

\* Where the step of the solver is decided on.
Searching == at \in {"solver", "postproc", "advance"}

\* The solver can be run for the steps of r.
Ready(r) ==
  /\ r.query # "" /\ r.minstep # Undefined
  /\ r.maxstep = Undefined \/ mRunningMode = "static-manual" \/ r.minstep <= r.maxstep
  /\ mRunningMode = "static-auto" => r.maxstep # Undefined

ReadyInv == Searching /\ Solver \in mRun => Ready(runConfig)

\* A search starts with a first step and a range that is not empty.
LEMMA SearchStartsReady ==
  ASSUME ToolchainTypeOK, NEW r \in RunConfig, StartSearch(r), at' = "solver",
         Solver \in mRun => r.query # "" /\ r.minstep # Undefined
  PROVE  ReadyInv'
<1>1. PICK first : /\ first = (IF Static THEN r.minstep ELSE r.maxstep)
                   /\ runConfig' = [r EXCEPT !.maxstep = first]
                   /\ ~(first # Undefined /\ r.minstep > first)
  BY DEF StartSearch, Leave, Goto
<1>2. /\ runConfig'.query = r.query /\ runConfig'.minstep = r.minstep
      /\ runConfig'.maxstep = first
  BY <1>1 DEF RunConfig
<1>3. r.minstep \in Nat /\ r.maxstep \in Nat /\ first \in Nat
  BY <1>1, StepIsNat DEF RunConfig
<1>4. first = Undefined \/ r.minstep <= first
  <2>1. ~(first # Undefined /\ r.minstep > first)
    BY <1>1
  <2>3. r.minstep > first \/ r.minstep <= first
    BY <1>3, NatOrder
  <2>. QED BY <2>1, <2>3
<1>5. mRunningMode' = mRunningMode /\ mRun' = mRun
  BY DEF StartSearch, configVars
<1>6. mRunningMode = "static-auto" => first = r.minstep
  BY <1>1 DEF Static
<1>. QED BY <1>2, <1>4, <1>5, <1>6 DEF ReadyInv, Ready

\* A query that is chosen gives a name and a first step.
LEMMA ResolvedReady ==
  ASSUME ConfigTypeOK, NEW q \in DOMAIN Queries, NEW run \in RunConfig
  PROVE  Resolve(q, run).query # "" /\ Resolve(q, run).minstep # Undefined
<1>1. q # ""
  BY KnownQueries
<1>2. 0 # Undefined
  <2>1. Undefined \in Nat /\ Undefined > 1
    BY ConfigAssumption DEF ConfigAssumption
  <2>. QED BY <2>1
<1>. QED BY <1>1, <1>2 DEF Resolve

\* Every step keeps the solver configured.
LEMMA ReadyStep ==
  ASSUME ToolchainTypeOK, ReadyInv, [ToolchainNext]_toolchainVars
  PROVE  ReadyInv'
<1>1. CASE ~Searching'
  BY <1>1 DEF ReadyInv
<1>2. CASE Searching /\ UNCHANGED <<runConfig, mRun, mRunningMode>>
  BY <1>2 DEF ReadyInv, Ready
<1>3. CASE UNCHANGED toolchainVars
  <2>1. UNCHANGED <<at, runConfig, mRun, mRunningMode>>
    BY <1>3 DEF toolchainVars, mainVars, configVars
  <2>. QED BY <2>1 DEF ReadyInv, Ready, Searching
<1>4. CASE Parse \/ LeaveEarly \/ StartTools \/ ProgramMissing \/ Translation
  BY <1>4, <1>1 DEF Parse, LeaveEarly, StartTools, ProgramMissing, Translation, RunTranslator,
     RunPreproc, RunC4Preproc, ReadSymbols, NoMaxAdditive, Stage, SkipStage, EchoFails, Goto,
     Leave, mainVars, Searching
<1>5. CASE Query \/ User
  <2>1. CASE BeginQuery
    <3>1. Configured \in RunConfig
      BY ConfiguredType DEF ToolchainTypeOK
    <3>2. Solver \in mRun => Configured.query # "" /\ Configured.minstep # Undefined
      BY <2>1 DEF BeginQuery, Asks, Configured
    <3>3. at' \in {"solver", "exit"}
      BY <2>1 DEF BeginQuery, StartSearch, Goto, Leave
    <3>. QED BY <2>1, <3>1, <3>2, <3>3, <1>1, SearchStartsReady DEF BeginQuery, Searching
  <2>2. ASSUME NEW q \in DOMAIN Queries, NEW run \in RunConfig, StartSearch(Resolve(q, run))
        PROVE  ReadyInv'
    <3>1. /\ Resolve(q, run) \in RunConfig
          /\ Resolve(q, run).query # "" /\ Resolve(q, run).minstep # Undefined
      BY ResolvedType, ResolvedReady DEF ToolchainTypeOK
    <3>2. at' \in {"solver", "exit"}
      BY <2>2 DEF StartSearch, Goto, Leave
    <3>. QED BY <2>2, <3>1, <3>2, <1>1, SearchStartsReady DEF Searching
  <2>3. CASE BeginKnownQuery
    BY <2>3, <2>2, ConfiguredType DEF BeginKnownQuery, ToolchainTypeOK
  <2>4. CASE PromptQuery
    BY <2>4, <2>2 DEF PromptQuery, ToolchainTypeOK
  <2>5. CASE RefuseQuery \/ Prompt \/ PromptSteps \/ PromptExit
    BY <2>5, <1>1 DEF RefuseQuery, Prompt, PromptSteps, PromptExit, Goto, Leave, Searching
  <2>. QED BY <1>5, <2>1, <2>3, <2>4, <2>5 DEF Query, User
<1>6. CASE Search
  <2>1. CASE SolverInBackground \/ RunSolver \/ SkipSolver \/ RunPostproc \/ SkipPostproc
             \/ RunBridge \/ SkipBridge
    BY <2>1, <1>2 DEF SolverInBackground, RunSolver, SkipSolver, RunPostproc, SkipPostproc,
       RunBridge, SkipBridge, SkipStage, Searching, configVars, searchVars
  <2>2. CASE NextQuery
    BY <2>2, <1>1 DEF NextQuery, Goto, Leave, Searching
  <2>3. CASE Advance
    <3>1. SUFFICES ASSUME Searching', Solver \in mRun
                   PROVE  Ready(runConfig)'
      BY <2>3 DEF ReadyInv, Advance, configVars
    <3>2. PICK step : /\ runConfig' = [runConfig EXCEPT !.maxstep = step]
                      /\ Goto(IF Again(step) THEN "solver" ELSE "outer")
                      /\ mRunningMode = "static-auto" =>
                           step = (runConfig.maxstep + 1) % (Undefined + 1)
      BY <2>3 DEF Advance
    <3>3. Again(step) /\ mRunningMode' = mRunningMode
      BY <2>3, <3>1, <3>2 DEF Goto, Searching, Advance, configVars
    <3>4. /\ runConfig'.query = runConfig.query /\ runConfig'.minstep = runConfig.minstep
          /\ runConfig'.maxstep = step
      BY <3>2 DEF ToolchainTypeOK, RunConfig
    <3>5. Ready(runConfig)
      BY <2>3, <3>1 DEF ReadyInv, Searching, Advance
    <3>6. step # Undefined /\ mRunningMode \in {"static-auto", "static-manual"}
      BY <3>3 DEF Again
    <3>7. CASE mRunningMode = "static-manual"
      BY <3>3, <3>4, <3>5, <3>6, <3>7 DEF Ready
    <3>8. CASE mRunningMode = "static-auto"
      <4>1. /\ Undefined \in Nat /\ runConfig.maxstep \in 0..Undefined
            /\ runConfig.minstep \in Nat
        BY ConfigAssumption, StepIsNat DEF ConfigAssumption, ToolchainTypeOK, RunConfig, Step
      <4>2. runConfig.maxstep # Undefined /\ runConfig.minstep <= runConfig.maxstep
        BY <3>5, <3>8 DEF Ready
      <4>3. step = runConfig.maxstep + 1
        BY <3>2, <3>8, <4>1, <4>2, NoWrap
      <4>4. runConfig.minstep <= step
        BY <4>1, <4>2, <4>3
      <4>. QED BY <3>3, <3>4, <3>5, <3>6, <4>4 DEF Ready
    <3>. QED BY <3>6, <3>7, <3>8
  <2>. QED BY <1>6, <2>1, <2>2, <2>3 DEF Search
<1>. QED BY <1>3, <1>4, <1>5, <1>6 DEF ToolchainNext

\* When the solver is about to run there are a query and a first step, and the range
\* of steps is not empty unless a user types the steps.
THEOREM SolverIsConfigured == ToolchainSpec => []SolverConfigured
<1>1. ToolchainInit => ReadyInv
  BY DEF ToolchainInit, ReadyInv, Searching
<1>2. ReadyInv => SolverConfigured
  BY DEF ReadyInv, Searching, Ready, SolverConfigured
<1>. QED BY <1>1, <1>2, ReadyStep, TypeCorrect, PTL DEF ToolchainSpec

(* The steps of a search in static-auto mode. *)

SearchPlaces == {"solver", "postproc", "advance", "outer"}

\* The solver was run for the steps from min on.
Consecutive(s, min, max) ==
  \A i \in 1..Len(s) :
    /\ s[i].step = min + i - 1
    /\ i > 1 /\ max # Undefined => s[i].step <= max

\* What holds before the solver runs, and after it: a solution that was found before
\* the last run of the solver is one of an earlier query.
Before ==
  /\ \A i \in 1..Len(tried) : ~tried[i].found
  /\ blnFoundSolutions => foundEarlier
  /\ IF Skips(Solver) THEN Len(tried) = 0
     ELSE /\ runConfig.maxstep = runConfig.minstep + Len(tried)
          /\ Len(tried) > 0 /\ maxmaxstep # Undefined => runConfig.maxstep <= maxmaxstep

After ==
  /\ \A i \in 1..Len(tried) : tried[i].found => i = Len(tried) /\ blnFoundSolutions
  /\ IF Skips(Solver) THEN Len(tried) = 0
     ELSE /\ Len(tried) > 0 /\ runConfig.maxstep = runConfig.minstep + Len(tried) - 1
          /\ blnFoundSolutions => foundEarlier \/ tried[Len(tried)].found

\* Of a search in static-auto mode, wherever it is.
OrderInv ==
  mRunningMode = "static-auto" /\ at \in SearchPlaces =>
    /\ Consecutive(tried, runConfig.minstep, maxmaxstep)
    /\ \A i \in 1..Len(tried) : tried[i].found => i = Len(tried)
    /\ at = "solver" => Before
    /\ at \in {"postproc", "advance"} => After
    /\ at = "outer" /\ ~Skips(Solver) => SearchEnded

\* Every step keeps the runs of the solver consecutive.
LEMMA OrderStep ==
  ASSUME ToolchainTypeOK, ReadyInv, OrderInv, [ToolchainNext]_toolchainVars
  PROVE  OrderInv'
<1>1. CASE ~(mRunningMode' = "static-auto" /\ at' \in SearchPlaces)
  BY <1>1 DEF OrderInv
<1>2. CASE UNCHANGED toolchainVars
  BY <1>2 DEF OrderInv, Before, After, SearchEnded, Consecutive, Skips, HasInput, OwnInputs, Counted,
              toolchainVars, mainVars, configVars
<1>3. CASE Parse \/ LeaveEarly \/ StartTools \/ ProgramMissing \/ Translation
  BY <1>3, <1>1 DEF Parse, LeaveEarly, StartTools, ProgramMissing, Translation, RunTranslator,
     RunPreproc, RunC4Preproc, ReadSymbols, NoMaxAdditive, Stage, SkipStage, EchoFails, Goto,
     Leave, mainVars, SearchPlaces
<1>4. ASSUME NEW r \in RunConfig, StartSearch(r), at' = "solver", mRunningMode' = "static-auto"
      PROVE  OrderInv'
  <2>1. tried' = <<>> /\ Len(tried') = 0
    BY <1>4 DEF StartSearch
  <2>2. Static
    BY <1>4 DEF StartSearch, configVars, Static
  <2>3. runConfig' = [r EXCEPT !.maxstep = r.minstep]
    BY <1>4, <2>2 DEF StartSearch
  <2>4. runConfig'.maxstep = runConfig'.minstep /\ runConfig'.minstep \in Nat
    BY <2>3, StepIsNat DEF RunConfig
  <2>5. runConfig'.maxstep = runConfig'.minstep + Len(tried')
    BY <2>1, <2>4
  <2>6. blnFoundSolutions' => foundEarlier'
    BY <1>4 DEF StartSearch
  <2>. QED BY <1>4, <2>1, <2>5, <2>6 DEF OrderInv, Before, Consecutive
<1>5. CASE Query \/ User
  <2>1. ASSUME at' \in SearchPlaces PROVE at' = "solver" /\ \E r \in RunConfig : StartSearch(r)
    <3>1. \/ BeginQuery \/ BeginKnownQuery \/ PromptQuery
      BY <1>5, <2>1 DEF Query, User, RefuseQuery, Prompt, PromptSteps, PromptExit, Goto, Leave,
                        SearchPlaces
    <3>2. \E r \in RunConfig : StartSearch(r)
      BY <3>1, ConfiguredType, ResolvedType
         DEF BeginQuery, BeginKnownQuery, PromptQuery, ToolchainTypeOK
    <3>. QED BY <2>1, <3>2 DEF StartSearch, Goto, Leave, SearchPlaces
  <2>. QED BY <1>1, <1>4, <2>1
<1>6. CASE Search /\ mRunningMode' = "static-auto" /\ at' \in SearchPlaces
  <2>. DEFINE n == Len(tried)
  <2>1. mRunningMode = "static-auto" /\ at \in SearchPlaces /\ UNCHANGED configVars
    BY <1>6 DEF Search, SolverInBackground, RunSolver, SkipSolver, RunPostproc, SkipPostproc,
       RunBridge, SkipBridge, Advance, NextQuery, SkipStage, configVars, SearchPlaces
  <2>2. Skips(Solver)' = Skips(Solver)
    BY <2>1 DEF Skips, HasInput, OwnInputs, Counted, configVars
  <2>3. /\ tried \in Seq(Attempt) /\ n \in Nat /\ runConfig \in RunConfig
        /\ runConfig.minstep \in Nat /\ runConfig.maxstep \in Nat
    BY StepIsNat, LenProperties DEF ToolchainTypeOK, RunConfig
  <2>4. /\ Consecutive(tried, runConfig.minstep, maxmaxstep)
        /\ \A i \in 1..n : tried[i].found => i = n
    BY <2>1 DEF OrderInv
  <2>5. CASE RunSolver
    <3>1. PICK found \in BOOLEAN : /\ Tried(found)
                                   /\ blnFoundSolutions' = (blnFoundSolutions \/ found)
      BY <2>5 DEF RunSolver
    <3>2. /\ at' = "postproc" /\ UNCHANGED <<runConfig, maxmaxstep, foundEarlier>>
          /\ ~Skips(Solver) /\ Before
      BY <1>6, <2>1, <2>5 DEF RunSolver, EchoFails, Goto, Leave, SearchPlaces, OrderInv
    <3>. DEFINE last == [step |-> runConfig.maxstep, found |-> found]
    <3>3. last \in Attempt /\ tried' = Append(tried, last)
      BY <2>1, <2>3, <3>1 DEF Tried, Attempt, RunConfig
    <3>4. /\ Len(tried') = n + 1 /\ tried'[n + 1] = last
          /\ \A i \in 1..n : tried'[i] = tried[i]
      BY <2>3, <3>3, AppendProperties
    <3>5. runConfig.maxstep = runConfig.minstep + n
          /\ (n > 0 /\ maxmaxstep # Undefined => runConfig.maxstep <= maxmaxstep)
      BY <3>2 DEF Before
    <3>6. ASSUME NEW i \in 1..(n + 1)
          PROVE  /\ tried'[i].step = runConfig.minstep + i - 1
                 /\ i > 1 /\ maxmaxstep # Undefined => tried'[i].step <= maxmaxstep
                 /\ tried'[i].found => i = n + 1 /\ blnFoundSolutions'
      <4>1. CASE i \in 1..n
        BY <2>4, <3>2, <3>4, <4>1 DEF Consecutive, Before
      <4>2. CASE i = n + 1
        <5>1. tried'[i].step = runConfig.maxstep /\ tried'[i].found = found
          BY <3>4, <4>2
        <5>2. runConfig.minstep + i - 1 = runConfig.minstep + n /\ (i > 1 => n > 0)
          BY <2>3, <4>2
        <5>. QED BY <3>1, <3>5, <4>2, <5>1, <5>2
      <4>. QED BY <2>3, <4>1, <4>2
    <3>7. /\ Consecutive(tried, runConfig.minstep, maxmaxstep)'
          /\ \A i \in 1..Len(tried') : tried'[i].found => i = Len(tried')
      BY <3>2, <3>4, <3>6 DEF Consecutive
    <3>8. After'
      <4>1. Len(tried') > 0 /\ runConfig.maxstep = runConfig.minstep + Len(tried') - 1
        BY <2>3, <3>4, <3>5
      <4>2. blnFoundSolutions' => foundEarlier' \/ tried'[Len(tried')].found
        BY <3>1, <3>2, <3>4 DEF Before
      <4>. QED BY <2>2, <3>2, <3>4, <3>6, <4>1, <4>2 DEF After
    <3>. QED BY <3>2, <3>7, <3>8 DEF OrderInv
  <2>6. CASE SkipSolver \/ SkipPostproc
    <3>1. UNCHANGED <<runConfig, maxmaxstep, tried, blnFoundSolutions, foundEarlier>>
      BY <2>6 DEF SkipSolver, SkipPostproc, SkipStage, searchVars
    <3>2. at' \in {"postproc", "advance"} /\ After
      <4>1. CASE SkipSolver
        <5>1. at' = "postproc" /\ Skips(Solver) /\ Before
          BY <2>1, <4>1 DEF SkipSolver, SkipStage, Goto, OrderInv, SearchPlaces
        <5>. QED BY <5>1 DEF Before, After
      <4>2. CASE SkipPostproc
        BY <2>1, <4>2 DEF SkipPostproc, SkipStage, Goto, OrderInv, SearchPlaces
      <4>. QED BY <2>6, <4>1, <4>2
    <3>. QED BY <2>2, <2>4, <3>1, <3>2 DEF OrderInv, After, Consecutive
  <2>7. CASE RunPostproc
    <3>1. PICK found \in BOOLEAN :
            /\ blnFoundSolutions' = (blnFoundSolutions \/ found)
            /\ tried' = IF tried # <<>> /\ found
                        THEN [tried EXCEPT ![Len(tried)].found = TRUE] ELSE tried
      BY <2>7 DEF RunPostproc
    <3>2. at' = "advance" /\ UNCHANGED <<runConfig, maxmaxstep, foundEarlier>> /\ After
      BY <1>6, <2>1, <2>7 DEF RunPostproc, EchoFails, Goto, Leave, SearchPlaces, OrderInv
    <3>3. /\ Len(tried') = n
          /\ \A i \in 1..n : /\ tried'[i].step = tried[i].step
                             /\ tried'[i].found => tried[i].found \/ (i = n /\ found)
      <4>1. CASE tried # <<>> /\ found
        BY <2>3, <3>1, <4>1, LastFound
      <4>2. CASE ~(tried # <<>> /\ found)
        BY <3>1, <4>2
      <4>. QED BY <4>1, <4>2
    <3>4. Consecutive(tried, runConfig.minstep, maxmaxstep)'
      BY <2>4, <3>2, <3>3 DEF Consecutive
    <3>5. \A i \in 1..Len(tried') : tried'[i].found => i = Len(tried') /\ blnFoundSolutions'
      BY <3>1, <3>2, <3>3 DEF After
    <3>6. n > 0 /\ blnFoundSolutions' /\ ~foundEarlier /\ ~Skips(Solver) => tried'[n].found
      <4>1. SUFFICES ASSUME n > 0, blnFoundSolutions', ~foundEarlier, ~Skips(Solver)
                     PROVE  tried'[n].found
        OBVIOUS
      <4>2. n \in 1..n /\ tried # <<>>
        BY <2>3, <4>1, EmptySeq
      <4>3. CASE found
        <5>1. tried' = [tried EXCEPT ![n] = [tried[n] EXCEPT !.found = TRUE]]
          BY <3>1, <4>2, <4>3
        <5>2. tried[n] \in Attempt
          BY <2>3, <4>2, ElementOfSeq
        <5>3. [tried[n] EXCEPT !.found = TRUE] \in Attempt /\ [tried[n] EXCEPT !.found = TRUE].found
          BY <5>2 DEF Attempt
        <5>. QED BY <2>3, <4>2, <5>1, <5>3, ExceptSeq
      <4>4. CASE ~found
        <5>1. tried[n].found /\ tried' = tried
          BY <3>1, <3>2, <4>1, <4>4 DEF After
        <5>. QED BY <5>1
      <4>. QED BY <4>3, <4>4
    <3>7. After'
      BY <2>2, <3>2, <3>3, <3>5, <3>6 DEF After
    <3>. QED BY <3>2, <3>4, <3>5, <3>7 DEF OrderInv
  <2>8. CASE Advance
    <3>1. PICK step : /\ runConfig' = [runConfig EXCEPT !.maxstep = step]
                      /\ Goto(IF Again(step) THEN "solver" ELSE "outer")
                      /\ step = (runConfig.maxstep + 1) % (Undefined + 1)
      BY <2>1, <2>8 DEF Advance
    <3>2. /\ UNCHANGED <<maxmaxstep, tried, blnFoundSolutions, foundEarlier>>
          /\ runConfig'.minstep = runConfig.minstep /\ runConfig'.maxstep = step
      BY <2>3, <2>8, <3>1 DEF Advance, RunConfig
    <3>3. /\ Consecutive(tried, runConfig.minstep, maxmaxstep)'
          /\ \A i \in 1..Len(tried') : tried'[i].found => i = Len(tried')
      BY <2>4, <3>2 DEF Consecutive
    <3>4. After
      BY <2>1, <2>8 DEF Advance, OrderInv, SearchPlaces
    <3>5. ASSUME ~Skips(Solver)
          PROVE  /\ n > 0 /\ runConfig.maxstep = runConfig.minstep + n - 1
                 /\ runConfig.maxstep # Undefined /\ step = runConfig.maxstep + 1
      <4>1. n > 0 /\ runConfig.maxstep = runConfig.minstep + n - 1
        BY <3>4, <3>5 DEF After
      <4>2. runConfig.maxstep # Undefined
        BY <2>1, <2>8, <3>5 DEF Skips, ReadyInv, Ready, Searching, Advance
      <4>3. Undefined \in Nat /\ runConfig.maxstep \in 0..Undefined
        BY <2>3, ConfigAssumption DEF ConfigAssumption, RunConfig, Step
      <4>4. step = runConfig.maxstep + 1
        BY <3>1, <4>2, <4>3, NoWrap
      <4>. QED BY <4>1, <4>2, <4>4
    <3>6. CASE at' = "outer"
      <4>1. ~Again(step)
        BY <3>1, <3>6 DEF Goto
      <4>2. ASSUME ~Skips(Solver) PROVE SearchEnded
        <5>1. n \in 1..n /\ tried[n].step = runConfig.minstep + n - 1
          BY <2>3, <2>4, <3>5, <4>2 DEF Consecutive
        <5>2. tried[n].step = runConfig.maxstep /\ step = tried[n].step + 1 /\ tried[n].step \in Nat
          BY <2>3, <3>5, <4>2, <5>1
        <5>3. Solver \in mRun
          BY <4>2 DEF Skips
        <5>4. CASE step = Undefined
          <6>1. tried[n].step = Undefined - 1
            BY <5>2, <5>4
          <6>. QED BY <3>5, <4>2, <6>1 DEF SearchEnded
        <5>5. CASE ~(maxmaxstep = Undefined \/ step <= maxmaxstep)
          <6>1. maxmaxstep \in Nat
            BY StepIsNat DEF ToolchainTypeOK
          <6>2. maxmaxstep # Undefined /\ tried[n].step >= maxmaxstep
            BY <5>2, <5>5, <6>1
          <6>. QED BY <3>5, <4>2, <6>2 DEF SearchEnded
        <5>6. CASE blnFoundSolutions
          BY <3>4, <3>5, <4>2, <5>6 DEF After, SearchEnded
        <5>. QED BY <2>1, <4>1, <5>3, <5>4, <5>5, <5>6 DEF Again
      <4>3. ~Skips(Solver)' => SearchEnded'
        BY <2>2, <3>2, <4>2 DEF SearchEnded
      <4>. QED BY <3>3, <3>6, <4>3 DEF OrderInv
    <3>7. CASE at' = "solver"
      <4>1. Again(step)
        BY <3>1, <3>7 DEF Goto
      <4>2. ~blnFoundSolutions /\ (maxmaxstep # Undefined => step <= maxmaxstep)
        BY <2>1, <4>1 DEF Again
      <4>3. \A i \in 1..n : ~tried[i].found
        BY <3>4, <4>2 DEF After
      <4>4. CASE Skips(Solver)
        BY <2>2, <3>2, <3>3, <3>4, <3>7, <4>2, <4>3, <4>4 DEF OrderInv, Before, After
      <4>5. CASE ~Skips(Solver)
        <5>1. step = runConfig.minstep + n
          BY <2>3, <3>5, <4>5
        <5>. QED BY <2>2, <3>2, <3>3, <3>7, <4>2, <4>3, <4>5, <5>1 DEF OrderInv, Before
      <4>. QED BY <4>4, <4>5
    <3>. QED BY <3>1, <3>6, <3>7 DEF Goto
  <2>9. CASE SolverInBackground \/ RunBridge \/ SkipBridge
    BY <2>1, <2>9 DEF SolverInBackground, RunBridge, SkipBridge
  <2>10. CASE NextQuery
    BY <1>6, <2>10 DEF NextQuery, Goto, Leave, SearchPlaces
  <2>. QED BY <1>6, <2>5, <2>6, <2>7, <2>8, <2>9, <2>10 DEF Search
<1>. QED BY <1>1, <1>2, <1>3, <1>5, <1>6 DEF ToolchainNext

\* In static-auto mode the solver is run for consecutive steps from the first, not
\* beyond the last, and not again after it found, and the search ends no earlier,
\* unless another query of the session found: the step counter never wraps between
\* two runs.
THEOREM StepsFollowInOrder == ToolchainSpec => []StepsInOrder
<1>1. ToolchainInit => ReadyInv /\ OrderInv
  BY DEF ToolchainInit, ReadyInv, Searching, OrderInv, SearchPlaces
<1>2. OrderInv => StepsInOrder
  BY DEF OrderInv, StepsInOrder, SearchPlaces, Consecutive
<1>3. ToolchainTypeOK /\ ReadyInv /\ OrderInv /\ [ToolchainNext]_toolchainVars
        => ReadyInv' /\ OrderInv'
  BY ReadyStep, OrderStep
<1>. QED BY <1>1, <1>2, <1>3, TypeCorrect, PTL DEF ToolchainSpec
===============================================================================
