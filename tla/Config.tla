-------------------------------- MODULE Config --------------------------------
(***************************************************************************)
(* The configuration of the orchestrator (src/cplus2asp/Config.{h,r2c}) and *)
(* the command-line options that build it (parseCommandOptions).  A tool   *)
(* chain component is a number in the order of the enumeration Toolchain.   *)
(* Steps are unsigned machine integers; the largest one is UNDEFINED.       *)
(***************************************************************************)
EXTENDS Naturals, Sequences

CONSTANTS Options,     \* the options a command line is made of
          MaxOptions,  \* bound: options on a command line
          Undefined,   \* Config::UNDEFINED, the largest unsigned integer
          DomainQueries \* the queries of the symbol table: name -> steps

Translator == 1
Preproc == 2
C4Preproc == 3
Solver == 4
Postproc == 5
ReactiveBridge == 6
Tools == 1..6

Modes == {"static-auto", "static-manual", "incremental", "reactive"}
Step == 0..Undefined
Between(min, max) == [minstep |-> min, maxstep |-> max]

OptionSpace ==
       [opt : {"from", "to"}, tool : Tools \ {C4Preproc}]
  \cup [opt : {"just"}, tool : Tools \ {C4Preproc, ReactiveBridge}]
  \cup [opt : {"disable", "input"}, tool : Tools \ {C4Preproc}]
  \cup [opt : {"mode"}, mode : Modes]
  \cup [opt : {"lang"}, mvpf : BOOLEAN]
  \cup [opt : {"auto"}]
  \cup [opt : {"maxstep", "const"}, first : Step, second : Step \ {Undefined}]
  \cup [opt : {"minstep"}, step : Step \ {Undefined}]
  \cup [opt : {"query"}, query : STRING]

ASSUME ConfigAssumption ==
  /\ Undefined \in Nat /\ Undefined > 1
  /\ MaxOptions \in Nat
  /\ \A o \in Options : o \in OptionSpace
  /\ "" \notin DOMAIN DomainQueries
  /\ \A q \in DOMAIN DomainQueries : DomainQueries[q] \in [minstep : Step, maxstep : Step]

VARIABLES
  mRun,                \* the tools configured to run
  mRunningMode,
  mCustomRunningMode,  \* whether a mode was asked for
  mCustomCmd,          \* the tools whose command was changed
  mInputs,             \* how many input files were given for each tool
  mMvpf,               \* whether the input language is MVPF
  minStep, maxStep,    \* OPT_MINSTEP and OPT_MAXSTEP
  customMax,           \* whether OPT_MAXSTEP was set before
  strQuery,            \* STR_QUERY
  suppress,            \* OPT_SUPPRESS_INTERACTION
  parsed               \* options parsed so far

configVars == <<mRun, mRunningMode, mCustomRunningMode, mCustomCmd, mInputs, mMvpf, minStep,
                maxStep, customMax, strQuery, suppress, parsed>>
runVars == <<mRun, mCustomCmd, mInputs>>
modeVars == <<mRunningMode, mCustomRunningMode>>
stepVars == <<minStep, maxStep, customMax>>
queryVars == <<mMvpf, strQuery>>

ConfigInit ==
  /\ mRun = Tools /\ mCustomCmd = {} /\ mInputs = [t \in Tools |-> 0]
  /\ mRunningMode = "incremental" /\ mCustomRunningMode = FALSE
  /\ minStep = Undefined /\ maxStep = Undefined /\ customMax = FALSE
  /\ mMvpf = FALSE /\ strQuery = "" /\ suppress = FALSE
  /\ parsed = 0

NextOption(o) ==
  /\ o \in Options /\ parsed < MaxOptions
  /\ parsed' = parsed + 1

\* setRunFrom, setRunTo and setOnlyRun only ever disable the other tools; only
\* setOnlyRun enables the one it names.
OptRun(o) ==
  /\ NextOption(o)
  /\ \/ o.opt = "from" /\ mRun' = {t \in mRun : t >= o.tool}
     \/ o.opt = "to"   /\ mRun' = {t \in mRun : t <= o.tool}
     \/ o.opt = "just" /\ mRun' = {o.tool}
  /\ UNCHANGED <<mCustomCmd, mInputs, modeVars, stepVars, queryVars, suppress>>

\* command(tool, ""): an empty command disables the tool.
OptCommand(o) ==
  /\ NextOption(o) /\ o.opt = "disable"
  /\ mRun' = mRun \ {o.tool}
  /\ mCustomCmd' = mCustomCmd \cup {o.tool}
  /\ UNCHANGED <<mInputs, modeVars, stepVars, queryVars, suppress>>

\* addInput(): the extension of the file says which tool it is for.
OptInput(o) ==
  /\ NextOption(o) /\ o.opt = "input"
  /\ mInputs' = [mInputs EXCEPT ![o.tool] = @ + 1]
  /\ UNCHANGED <<mRun, mCustomCmd, modeVars, stepVars, queryVars, suppress>>

\* mode(): reactive mode turns the post-processor off for good.
Mode(m) ==
  /\ mRunningMode' = m
  /\ mRun' = IF m = "reactive" /\ m # mRunningMode /\ Postproc \notin mCustomCmd
             THEN mRun \ {Postproc} ELSE mRun

OptMode(o) ==
  /\ NextOption(o) /\ o.opt = "mode"
  /\ Mode(o.mode) /\ mCustomRunningMode' = TRUE
  /\ UNCHANGED <<mCustomCmd, mInputs, stepVars, queryVars, suppress>>

\* lang(): MVPF asks for no query, and for static-auto unless a mode was asked for;
\* a later choice of another language takes neither back.
OptLang(o) ==
  /\ NextOption(o) /\ o.opt = "lang"
  /\ mMvpf' = o.mvpf
  /\ IF o.mvpf /\ ~mMvpf
     THEN /\ strQuery' = "sat"
          /\ mRunningMode' = IF mCustomRunningMode THEN mRunningMode ELSE "static-auto"
          /\ UNCHANGED mCustomRunningMode
     ELSE UNCHANGED <<strQuery, modeVars>>
  /\ UNCHANGED <<runVars, stepVars, suppress>>

OptQuery(o) ==
  /\ NextOption(o) /\ o.opt = "query"
  /\ strQuery' = o.query
  /\ UNCHANGED <<runVars, modeVars, stepVars, mMvpf, suppress>>

OptAuto(o) ==
  /\ NextOption(o) /\ o.opt = "auto"
  /\ suppress' = TRUE
  /\ UNCHANGED <<runVars, modeVars, stepVars, queryVars>>

\* def(): the constant maxstep=[first..]second.
OptConst(o) ==
  /\ NextOption(o) /\ o.opt = "const"
  /\ maxStep' = o.second /\ customMax' = TRUE
  /\ minStep' = IF o.first # Undefined THEN o.first ELSE minStep
  /\ UNCHANGED <<runVars, modeVars, queryVars, suppress>>

\* --maxstep=[first..]second: the condition of the warning sets the options, and
\* its || leaves the minimum alone when the maximum was redefined.
OptMaxstep(o) ==
  /\ NextOption(o) /\ o.opt = "maxstep"
  /\ maxStep' = o.second /\ customMax' = TRUE
  /\ LET redefined == customMax /\ maxStep # o.second
     IN minStep' = IF o.first # Undefined /\ ~redefined THEN o.first ELSE minStep
  /\ UNCHANGED <<runVars, modeVars, queryVars, suppress>>

OptMinstep(o) ==
  /\ NextOption(o) /\ o.opt = "minstep"
  /\ minStep' = o.step
  /\ UNCHANGED <<runVars, modeVars, maxStep, customMax, queryVars, suppress>>

ParseOption == \E o \in Options :
  OptRun(o) \/ OptCommand(o) \/ OptInput(o) \/ OptMode(o) \/ OptLang(o) \/ OptQuery(o)
            \/ OptAuto(o) \/ OptConst(o) \/ OptMaxstep(o) \/ OptMinstep(o)
-----------------------------------------------------------------------------
(* What the configuration says. *)

\* The queries every configuration has, but for MVPF those about transitions.
BuiltInQueries ==
  [q \in {"sat"} \cup (IF mMvpf THEN {} ELSE {"transitions", "states"}) |->
     IF q = "transitions" THEN Between(1, 1) ELSE Between(0, 0)]

\* The input files of the tool and of the tools before it, back to one that runs.
OwnInputs(tool) ==
  {t \in 1..tool : mInputs[t] > 0 /\ \A u \in t..(tool - 1) : u \notin mRun}

\* The tools whose output cumulativeInputCount() counts: for clingo3to4 it asks for
\* the translator where compileInputArgs() asks for the pre-processor.
Counted(tool) ==
  CASE tool = Postproc  -> {Translator, C4Preproc, Solver}
    [] tool = Solver    -> {Translator, C4Preproc}
    [] tool = C4Preproc -> {Translator}
    [] tool = Preproc   -> {Translator}
    [] OTHER            -> {}

\* cumulativeInputCount(): only whether it is 0 matters to its callers.
HasInput(tool) == OwnInputs(tool) # {} \/ Counted(tool) \cap mRun # {}

\* compileInputArgs(): the tool whose output is passed to this one, if any.
Feeder(tool) ==
  IF tool = ReactiveBridge THEN {}
  ELSE {t \in mRun : t < tool /\ \A u \in mRun : u < tool => u <= t}
-----------------------------------------------------------------------------
QueryName == {"", "sat", "transitions", "states"} \cup DOMAIN DomainQueries
             \cup {o.query : o \in {p \in Options : p.opt = "query"}}

ConfigTypeOK ==
  /\ mRun \subseteq Tools /\ mCustomCmd \subseteq Tools
  /\ mInputs \in [Tools -> 0..MaxOptions]
  /\ mRunningMode \in Modes /\ mCustomRunningMode \in BOOLEAN
  /\ minStep \in Step /\ maxStep \in Step /\ customMax \in BOOLEAN
  /\ mMvpf \in BOOLEAN /\ strQuery \in QueryName /\ suppress \in BOOLEAN
  /\ parsed \in 0..MaxOptions
=============================================================================
