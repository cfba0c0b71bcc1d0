------------------------------- MODULE Toolchain -------------------------------
(***************************************************************************)
(* The orchestrator (main() of src/cplus2asp/cplus2asp.r2c): it runs the    *)
(* translator, f2lp and clingo3to4 once, then, for each query, the solver   *)
(* and the post-processor once per step (static modes) or once (incremental *)
(* mode), or the solver in the background and the bridge (reactive mode).   *)
(* The tools are external: each may fail to start, fail to be written out,  *)
(* or end with any status; they are assumed to end.                         *)
(***************************************************************************)
EXTENDS Config

CONSTANT Steps   \* the steps a user may type at a prompt

ASSUME StepsAssumption == Steps \subseteq Step \ {Undefined}

VARIABLES
  at,                     \* where main() is
  runConfig,              \* the query and the steps to solve for
  maxmaxstep,             \* the last step of the query
  blnFoundSolutions,      \* whether the solver or the post-processor said "found"
  output,                 \* what each tool wrote: absent, good or failed (history)
  symtab,                 \* whether the symbol table was there to be read
  fed,                    \* the kinds of intermediate files that tools were given (history)
  translated,             \* the mode the translator was run in, or "" (history)
  tried,                  \* the runs of the solver for this query (history)
  foundEarlier,           \* whether a query before this one found (history)
  exit                    \* the exit code, or "running"

mainVars == <<at, runConfig, maxmaxstep, blnFoundSolutions, output, symtab, fed,
              translated, tried, foundEarlier, exit>>
toolchainVars == <<configVars, mainVars>>
searchVars == <<runConfig, maxmaxstep, blnFoundSolutions, tried, foundEarlier>>
fileVars == <<output, symtab, fed, translated>>

Static == mRunningMode \in {"static-auto", "static-manual"}

ToolchainInit ==
  /\ ConfigInit
  /\ at = "options"
  /\ runConfig = [query |-> "", minstep |-> Undefined, maxstep |-> Undefined]
  /\ maxmaxstep = Undefined /\ blnFoundSolutions = FALSE
  /\ output = [t \in Tools |-> "absent"] /\ symtab = FALSE /\ fed = {} /\ translated = ""
  /\ tried = <<>> /\ foundEarlier = FALSE /\ exit = "running"

Goto(l) == at' = l /\ UNCHANGED exit
\* exit(): cleanup() removes the file for the tools' errors and no other.
Leave(code) == at' = "exit" /\ exit' = code
-----------------------------------------------------------------------------
(* Command line. *)

Parse == at = "options" /\ ParseOption /\ UNCHANGED mainVars

\* A bad option, --help and --version.
LeaveEarly ==
  /\ at = "options"
  /\ Leave("bad args") \/ Leave("good")
  /\ UNCHANGED <<configVars, searchVars, fileVars>>

\* The options are read and sane; manual mode without a user becomes automatic mode.
\* "The toolchain is empty. Exiting." is only printed: pragma() does not exit.
StartTools ==
  /\ at = "options"
  /\ IF mInputs = [t \in Tools |-> 0]
     THEN Leave("bad args") /\ UNCHANGED <<mRunningMode, mCustomRunningMode, mRun>>
     ELSE /\ Goto("translator")
          /\ IF mRunningMode = "static-manual" /\ suppress
             THEN Mode("static-auto") /\ mCustomRunningMode' = TRUE
             ELSE UNCHANGED <<mRunningMode, mCustomRunningMode, mRun>>
  /\ UNCHANGED <<mCustomCmd, mInputs, stepVars, queryVars, suppress, parsed, searchVars, fileVars>>
-----------------------------------------------------------------------------
(* runTool(). *)

Skips(tool) == tool \notin mRun \/ (tool # ReactiveBridge /\ ~HasInput(tool))

\* The tool is given its input files; a failed launch is an exception.
Launch(tool) == fed' = fed \cup {output[t] : t \in Feeder(tool)}

\* What is left of a tool's output when it ended with a status.
Written(tool, status) ==
  output' = [output EXCEPT ![tool] = IF status = "io error" THEN @
                                     ELSE IF status = "error" THEN "failed" ELSE "good"]

\* No such program: find_executable_in_path throws and nothing catches it.
ProgramMissing ==
  /\ \/ \E tool \in {Translator, Preproc, C4Preproc, Solver} :
          at = <<"translator", "preproc", "c4", "solver">>[tool] /\ ~Skips(tool)
     \/ at = "postproc" /\ mRunningMode # "reactive" /\ ~Skips(Postproc)
     \/ at = "postproc" /\ mRunningMode = "reactive" /\ ~Skips(ReactiveBridge)
  /\ Leave("abort")
  /\ UNCHANGED <<configVars, searchVars, fileVars>>

\* A file that nobody wrote may not be there to be echoed: an error without cleanup().
EchoFails(shown) == (\E t \in shown : output'[t] = "absent") /\ Leave("echo error")

\* Mutant: the status is not looked at.
StageHeedless(l, tool, shown, code, next) ==
  /\ at = l /\ ~Skips(tool)
  /\ \E status \in {"ok", "error", "io error"} :
       /\ Written(tool, status)
       /\ Goto(next)
  /\ Launch(tool)
  /\ translated' = IF tool = Translator THEN mRunningMode ELSE translated
  /\ UNCHANGED <<configVars, searchVars, symtab>>

\* A tool that runs once: what it shows is echoed.
Stage(l, tool, shown, code, next) ==
  /\ at = l /\ ~Skips(tool)
  /\ \E status \in {"ok", "error", "io error"} :
       /\ Written(tool, status)
       /\ \/ EchoFails(shown)
          \/ status = "ok" /\ Goto(next)
          \/ status # "ok" /\ Leave(code)
  /\ Launch(tool)
  /\ translated' = IF tool = Translator THEN mRunningMode ELSE translated
  /\ UNCHANGED <<configVars, searchVars, symtab>>

SkipStage(l, tool, next) ==
  /\ at = l /\ Skips(tool)
  /\ Goto(next)
  /\ UNCHANGED <<configVars, searchVars, fileVars>>

\* The output of t, for the user, unless the tool that is asked about runs.
Shown(t, unless) == IF unless \in mRun THEN {} ELSE {t}

RunTranslator ==
  \/ Stage("translator", Translator, Shown(Translator, Preproc), "translator error", "preproc")
  \/ SkipStage("translator", Translator, "preproc")
RunPreproc ==
  \/ Stage("preproc", Preproc, Shown(Preproc, Solver), "preproc error", "c4")
  \/ SkipStage("preproc", Preproc, "c4")
\* It is the pre-processor's output that is echoed here.
RunC4Preproc ==
  \/ Stage("c4", C4Preproc, Shown(Preproc, Solver), "preproc error", "symtab")
  \/ SkipStage("c4", C4Preproc, "symtab")

\* Mutant: an explicit mode does not stop the switch.
SwitchAlways(external) ==
  IF external
  THEN Mode("reactive") /\ mCustomRunningMode' = TRUE
  ELSE UNCHANGED <<mRunningMode, mCustomRunningMode, mRun>>

\* External constants ask for reactive mode unless a mode was asked for.
SwitchToReactive(external) ==
  IF external /\ ~mCustomRunningMode
  THEN Mode("reactive") /\ mCustomRunningMode' = TRUE
  ELSE UNCHANGED <<mRunningMode, mCustomRunningMode, mRun>>

\* The symbol table is read, the one the translator wrote or one the user has:
\* MVPF has no external constants.
ReadSymbols(external) ==
  /\ at = "symtab"
  /\ symtab' \in (IF translated # "" THEN {TRUE} ELSE BOOLEAN)
  /\ external => symtab' /\ ~mMvpf
  /\ SwitchToReactive(external)
  /\ Goto("query")
  /\ UNCHANGED <<mCustomCmd, mInputs, stepVars, queryVars, suppress, parsed, searchVars,
                 output, fed, translated>>

\* A query of the domain with the name of a built-in one is ignored.
Queries ==
  [q \in DOMAIN BuiltInQueries \cup (IF symtab THEN DOMAIN DomainQueries ELSE {}) |->
     IF q \in DOMAIN BuiltInQueries THEN BuiltInQueries[q] ELSE DomainQueries[q]]

\* maxAdditive is needed and unknown: the user declines to give it, or may not be asked.
NoMaxAdditive ==
  /\ at = "symtab" /\ Solver \in mRun
  /\ Leave(IF suppress THEN "undefined constants" ELSE "good")
  /\ UNCHANGED <<configVars, searchVars, fileVars>>
-----------------------------------------------------------------------------
(* The outer loop: one query. *)

Asks == \/ strQuery = "" \/ minStep = Undefined \/ maxStep = Undefined

\* Mutant: minstep does not default to 0.
ResolveWithoutDefault(q, run) ==
  LET known == Queries[q]
      max == IF run.maxstep # Undefined THEN run.maxstep
             ELSE IF known.maxstep # Undefined THEN known.maxstep ELSE maxStep
  IN [query |-> q, minstep |-> IF run.minstep # Undefined THEN run.minstep ELSE known.minstep,
      maxstep |-> max]

\* What follows from the query q: its last step, and its first one or 0.
Resolve(q, run) ==
  LET known == Queries[q]
      min == IF run.minstep # Undefined THEN run.minstep
             ELSE IF known.minstep # Undefined THEN known.minstep ELSE 0
      max == IF run.maxstep # Undefined THEN run.maxstep
             ELSE IF known.maxstep # Undefined THEN known.maxstep ELSE maxStep
  IN [query |-> q, minstep |-> min, maxstep |-> max]

\* The first step to solve for, and the sanity check on the steps.
StartSearch(r) ==
  LET first == IF Static THEN r.minstep ELSE r.maxstep IN
  /\ maxmaxstep' = r.maxstep
  /\ runConfig' = [r EXCEPT !.maxstep = first]
  /\ tried' = <<>> /\ foundEarlier' = blnFoundSolutions
  /\ IF first # Undefined /\ r.minstep > first THEN Leave("invalid step") ELSE Goto("solver")
  /\ UNCHANGED <<configVars, blnFoundSolutions, fileVars>>

\* Each query starts again from the options.
Configured == [query |-> strQuery, minstep |-> minStep, maxstep |-> maxStep]

BeginQuery ==
  /\ at = "query"
  /\ Solver \notin mRun \/ ~Asks
  /\ StartSearch(Configured)

BeginKnownQuery ==
  /\ at = "query" /\ Solver \in mRun /\ Asks /\ strQuery \in DOMAIN Queries
  /\ StartSearch(Resolve(strQuery, Configured))

\* No query, and the user may not be asked; or an unknown query.
RefuseQuery ==
  /\ at = "query" /\ Solver \in mRun /\ Asks /\ strQuery \notin DOMAIN Queries
  /\ strQuery = "" => suppress
  /\ Leave(IF strQuery = "" THEN "undefined constants" ELSE "invalid query")
  /\ UNCHANGED <<configVars, searchVars, fileVars>>

\* Mutant: the user is asked although interaction is suppressed.
PromptAnyway ==
  /\ at = "query" /\ Solver \in mRun /\ strQuery = ""
  /\ Goto("prompt")
  /\ runConfig' = Configured
  /\ UNCHANGED <<configVars, maxmaxstep, blnFoundSolutions, tried, foundEarlier, fileVars>>

\* queryUserForQuery(): the user may set the steps before choosing the query.
Prompt ==
  /\ at = "query" /\ Solver \in mRun /\ strQuery = "" /\ ~suppress
  /\ Goto("prompt")
  /\ runConfig' = Configured
  /\ UNCHANGED <<configVars, maxmaxstep, blnFoundSolutions, tried, foundEarlier, fileVars>>

PromptSteps ==
  /\ at = "prompt"
  /\ \/ \E min \in Steps \cup {Undefined} : runConfig' = [runConfig EXCEPT !.minstep = min]
     \/ runConfig' = [runConfig EXCEPT !.maxstep = Undefined]
     \/ \E first \in Steps \cup {Undefined}, second \in Steps :
          runConfig' = [runConfig EXCEPT
            !.minstep = IF first # Undefined THEN first ELSE IF @ = Undefined THEN 0 ELSE @,
            !.maxstep = second]
  /\ UNCHANGED <<configVars, at, exit, maxmaxstep, blnFoundSolutions, tried, foundEarlier,
                 fileVars>>

PromptQuery ==
  /\ at = "prompt"
  /\ \E q \in DOMAIN Queries : StartSearch(Resolve(q, runConfig))

PromptExit ==
  /\ at = "prompt"
  /\ Leave("good")
  /\ UNCHANGED <<configVars, searchVars, fileVars>>
-----------------------------------------------------------------------------
(* The inner loop: one step. *)

\* The history of a search: of the user's in manual mode only the last step.
Tried(found) ==
  tried' = Append(IF mRunningMode = "static-auto" THEN tried ELSE <<>>,
                  [step |-> runConfig.maxstep, found |-> found])

\* In reactive mode the solver is left in the background.
SolverInBackground ==
  /\ at = "solver" /\ ~Skips(Solver) /\ mRunningMode = "reactive"
  /\ Launch(Solver) /\ Tried(FALSE)
  /\ Goto("postproc")
  /\ UNCHANGED <<configVars, runConfig, maxmaxstep, blnFoundSolutions, foundEarlier, output, symtab,
                 translated>>

RunSolver ==
  /\ at = "solver" /\ ~Skips(Solver) /\ mRunningMode # "reactive"
  /\ \E status \in {"ok", "found", "none", "error", "io error"} :
       /\ Written(Solver, status)
       /\ \/ EchoFails(Shown(Solver, Postproc))
          \/ status \in {"ok", "found", "none"} /\ Goto("postproc")
          \/ status \notin {"ok", "found", "none"} /\ Leave("solver error")
       /\ blnFoundSolutions' = (blnFoundSolutions \/ status = "found")
       /\ Tried(status = "found")
  /\ Launch(Solver)
  /\ UNCHANGED <<configVars, runConfig, maxmaxstep, foundEarlier, symtab, translated>>

SkipSolver == SkipStage("solver", Solver, "postproc")

RunPostproc ==
  /\ at = "postproc" /\ ~Skips(Postproc) /\ mRunningMode # "reactive"
  /\ \E status \in {"ok", "found", "none", "error", "io error"} :
       /\ Written(Postproc, status)
       /\ \/ EchoFails({Postproc})
          \/ status \in {"ok", "found", "none"} /\ Goto("advance")
          \/ status \notin {"ok", "found", "none"} /\ Leave("postproc error")
       /\ blnFoundSolutions' = (blnFoundSolutions \/ status = "found")
       /\ tried' = IF tried # <<>> /\ status = "found"
                   THEN [tried EXCEPT ![Len(tried)].found = TRUE] ELSE tried
  /\ Launch(Postproc)
  /\ UNCHANGED <<configVars, runConfig, maxmaxstep, foundEarlier, symtab, translated>>

SkipPostproc ==
  /\ mRunningMode # "reactive"
  /\ SkipStage("postproc", Postproc, "advance")

\* The bridge inherits the terminal: nothing of it is written or echoed.
RunBridge ==
  /\ at = "postproc" /\ ~Skips(ReactiveBridge) /\ mRunningMode = "reactive"
  /\ Goto("advance") \/ Leave("bridge error")
  /\ UNCHANGED <<configVars, searchVars, fileVars>>

SkipBridge ==
  /\ mRunningMode = "reactive"
  /\ SkipStage("postproc", ReactiveBridge, "advance")

\* Mutant: the search ends before the last step.
AgainBeforeLast(step) ==
  /\ step # Undefined
  /\ \/ mRunningMode = "static-manual"
     \/ /\ mRunningMode = "static-auto"
        /\ maxmaxstep = Undefined \/ step < maxmaxstep
        /\ ~blnFoundSolutions
  /\ mRun \cap {Solver, Postproc} # {}

\* The condition of the inner loop for the step that comes next.
Again(step) ==
  /\ step # Undefined
  /\ \/ mRunningMode = "static-manual"
     \/ /\ mRunningMode = "static-auto"
        /\ maxmaxstep = Undefined \/ step <= maxmaxstep
        /\ ~blnFoundSolutions
  /\ mRun \cap {Solver, Postproc} # {}

\* Mutant: the counter does not wrap.
AdvanceWide ==
  /\ at = "advance"
  /\ \E step \in (CASE mRunningMode = "static-manual" -> Steps \cup {Undefined}
                   [] mRunningMode = "static-auto" -> {runConfig.maxstep + 1}
                   [] OTHER -> {runConfig.maxstep}) :
       /\ runConfig' = [runConfig EXCEPT !.maxstep = step]
       /\ Goto(IF Again(step) THEN "solver" ELSE "outer")
  /\ UNCHANGED <<configVars, maxmaxstep, blnFoundSolutions, tried, foundEarlier, fileVars>>

\* The next step, an unsigned integer: the user's in manual mode (UNDEFINED is
\* "exit"), the one after this in automatic mode.
Advance ==
  /\ at = "advance"
  /\ \E step \in (CASE mRunningMode = "static-manual" ->
                      Steps \cup {Undefined, (runConfig.maxstep + 1) % (Undefined + 1)}
                   [] mRunningMode = "static-auto" -> {(runConfig.maxstep + 1) % (Undefined + 1)}
                   [] OTHER -> {runConfig.maxstep}) :
       /\ runConfig' = [runConfig EXCEPT !.maxstep = step]
       /\ Goto(IF Again(step) THEN "solver" ELSE "outer")
  /\ UNCHANGED <<configVars, maxmaxstep, blnFoundSolutions, tried, foundEarlier, fileVars>>

\* The condition of the outer loop: another query, or the end.
NextQuery ==
  /\ at = "outer"
  /\ IF ~suppress /\ Solver \in mRun /\ strQuery = "" THEN Goto("query") ELSE Leave("good")
  /\ UNCHANGED <<configVars, searchVars, fileVars>>
-----------------------------------------------------------------------------
Translation == \/ RunTranslator \/ RunPreproc \/ RunC4Preproc
               \/ \E external \in BOOLEAN : ReadSymbols(external)
               \/ NoMaxAdditive
Query == BeginQuery \/ BeginKnownQuery \/ RefuseQuery \/ Prompt
User == PromptSteps \/ PromptQuery \/ PromptExit
Search == \/ SolverInBackground \/ RunSolver \/ SkipSolver \/ RunPostproc \/ SkipPostproc
          \/ RunBridge \/ SkipBridge \/ Advance \/ NextQuery

ToolchainNext == Parse \/ LeaveEarly \/ StartTools \/ Translation \/ ProgramMissing
                 \/ Query \/ User \/ Search

\* main() runs on as long as it does not wait for the user.
ToolchainFairness == WF_toolchainVars(StartTools \/ Translation \/ Query \/ Search)

ToolchainSpec == ToolchainInit /\ [][ToolchainNext]_toolchainVars /\ ToolchainFairness
-----------------------------------------------------------------------------
(* Properties. *)

Places == {"options", "translator", "preproc", "c4", "symtab", "query", "prompt", "solver",
           "postproc", "advance", "outer", "exit"}
Outputs == {"absent", "good", "failed"}
RunConfig == [query : QueryName, minstep : Step, maxstep : Step]
Attempt == [step : Step, found : BOOLEAN]
ExitCodes == {"running", "bad args", "good", "abort", "echo error", "translator error",
              "preproc error", "undefined constants", "invalid query", "invalid step",
              "solver error", "postproc error", "bridge error"}

ToolchainTypeOK ==
  /\ ConfigTypeOK
  /\ at \in Places /\ exit \in ExitCodes
  /\ runConfig \in RunConfig
  /\ maxmaxstep \in Step /\ blnFoundSolutions \in BOOLEAN
  /\ output \in [Tools -> Outputs] /\ fed \subseteq Outputs
  /\ symtab \in BOOLEAN
  /\ translated \in Modes \cup {""}
  /\ tried \in Seq(Attempt) /\ foundEarlier \in BOOLEAN

\* What a failed tool left behind is never given to the next one, in this round
\* of the loops or a later one.
NothingFailedIsUsed == "failed" \notin fed

\* "We can guarantee that at this point the minimum step is defined" (main(), above
\* the solver), however the query and the steps were chosen; and the range of steps
\* is not empty, but where a user types a step before the first.
SolverConfigured ==
  at = "solver" /\ Solver \in mRun =>
    /\ runConfig.query # "" /\ runConfig.minstep # Undefined
    /\ \/ runConfig.maxstep = Undefined \/ mRunningMode = "static-manual"
       \/ runConfig.minstep <= runConfig.maxstep

\* A static translation is never solved incrementally, nor the other way round:
\* the mode may change between the translator and the solver.
SolvedAsTranslated ==
  at = "solver" /\ translated # "" =>
    (translated \in {"static-auto", "static-manual"}) = Static

\* What ends a search in static-auto mode: its last run of the solver found, or was
\* for the last step or the largest number, or an earlier query found.
SearchEnded ==
  LET last == tried[Len(tried)] IN
  /\ Len(tried) > 0
  /\ \/ last.found
     \/ maxmaxstep # Undefined /\ last.step >= maxmaxstep
     \/ last.step = Undefined - 1
     \/ foundEarlier

\* Static-auto mode solves for the first step and then for each next one, for none
\* beyond the last and none after a step with a solution; and it goes on until there
\* is a solution, the last step is done or the counter is at its end. A search begun
\* after another query found is excused from the latter: blnFoundSolutions is never
\* reset, and such a search ends after its first step, whatever it found.
StepsInOrder ==
  mRunningMode = "static-auto" /\ at \in {"solver", "postproc", "advance", "outer"} =>
    /\ \A i \in 1..Len(tried) :
         /\ tried[i].step = runConfig.minstep + i - 1
         /\ i > 1 /\ maxmaxstep # Undefined => tried[i].step <= maxmaxstep
         /\ tried[i].found => i = Len(tried)
    /\ at = "outer" /\ ~Skips(Solver) => SearchEnded

\* main() has no prompt to wait at.
NeverAsks == suppress \/ (Solver \notin mRun /\ mRunningMode # "static-manual")

\* Without a user to wait for, the program ends, also when no last step is known:
\* the step counter then runs until it reaches UNDEFINED.
AutomatedEnds == (at = "translator" /\ NeverAsks) ~> (at = "exit")
=============================================================================
