# A verification model of Cplus2ASP 3.1

Cplus2ASP turns action descriptions (C+, BC, BC+, MVPF) into answer set programs, runs a solver on
them and prints the transitions.  This directory holds TLA+ modules translated from its source,
TLC configurations that check them, and proofs checked by TLAPS.  Paths below are those of the
repository.

## 1. The system

| part | source | state it keeps | operations |
|---|---|---|---|
| Orchestrator | `src/cplus2asp/cplus2asp.r2c`, `main`, `runTool` | mode, tools that ran, query and steps, solutions found | run the tools once, then the query loop and the step loop; prompts |
| Configuration | `src/cplus2asp/Config.{h,r2c}` | enabled tools, inputs per tool, mode, language, steps, query | options in any order; which file goes to which tool |
| Reactive bridge | `src/bcbridge/Driver.{h,cpp}` | mClosing, the module being read, answer buffer | read an observation stream, translate each module, send it, show the answers |
| Socket client | `src/bcbridge/NetworkClient.{h,cpp}` | mWriteBuf, mOpen, mInternalMutex, Asio's queues | `write`, handlers, `close` |
| Translator | `src/cplus2asp.bin` | constants declared, current program part, noconcurrency | one statement at a time: a law, a declaration, a query; the epilogue |
| Scanner and parsers | `externals/bcplusparser/src/bcplus/parser` | sources not read yet, a token held back, statement being read, comments | next token with macros and includes resolved, next statement |
| Symbols, sorts | `externals/bcplusparser/src/bcplus/symbols` | symbol table, sort lattice, macros, reference counts | create, resolve, load, save |
| Clingo3to4 | `src/clingo3to4/f2lp_wrapper` | inside a script or not, part of the program, its step variable, domains | convert a line, a statement at a time, between F2LP and clingo |
| as2transition | `externals/as2transition` | path of time steps being filled, answers counted | read the solver's output, print transitions; its formatter also serves the bridge |
| F2LP, clingo, oClingo | external programs | | |

**Interaction.**  The orchestrator starts each tool as a process and waits for it: what one tool
writes is a file that the next one is given.  In reactive mode the solver (oClingo) stays in the
background and the bridge talks to it over TCP.  Inside the bridge two threads share the
client and `mClosing`: the main thread runs `Driver::run`, the io thread runs the Asio handlers,
one of which (`handler_read`) calls `Driver::processOclingoPacket`.  The bridge links the
translator and the parser as a library.

**Hard behaviours.**

* Two threads and one mutex that covers less than it seems to: `handler_write` unlocks before it
  asks whether the list is empty, `write` decides before it unlocks, `mOpen` and `mClosing` have no
  lock at all, and `close` runs on either thread.
* State read before a blocking `getline` and used after it.
* Ends of a connection: who noticed first, what was queued, which exit code.
* Options with side effects that depend on their order; "undefined" as the largest unsigned value;
  a loop that iterates over steps inside a loop that iterates over queries, sharing a flag.
* Declarations in any order: an object or a sub-sort that comes late has to travel through links
  made before it, cycles included, and summaries of a sort (its domain type, the sort an abAction
  is given) are taken early.  One tool saves the table without its super-sorts and the next tool
  rebuilds it.
* Tools that fail, are skipped, are missing, or are disabled, and the files they do not write.
* One source of laws, two outputs: a static program grounded over step variables and an incremental
  one whose parts are opened and closed while statements are printed in any order.
* Two LALR(1) parsers on top of each other: a token is out of the scanner before it is known
  whether an expansion or an included file has to go in front of it.
* A converter that works on one statement and depends on lines far before it: the part, the domains,
  the script it is in.
* Answers that come in any order of predicates and, over the network, cut into packets anywhere.

The properties that make each part correct, and the lines where they are at risk, are the
`hazards` of `PROJECT.json`.

## 2. Modules

| module | what it models |
|---|---|
| `NetworkClient` | the socket client with its two threads; `Spec`, `FairSpec` |
| `ObservationChannel` | the abstract channel that the bridge promises its user |
| `Bridge` | `Driver` composed with `NetworkClient`, and an external oClingo; `BridgeSpec`, `FairBridgeSpec` |
| `Bridge_proofs` | theorems about client and bridge: the client alone; the bridge for every user; for a user who waits for the prompt |
| `Config` | the configuration and the options that build it |
| `Toolchain` | `main()` on top of `Config`; the tools are external; `ToolchainSpec` |
| `Toolchain_proofs` | theorems about it |
| `Laws` | what `Translator` makes of laws, declarations, queries and noconcurrency, in both outputs |
| `Laws_proofs` | theorems about it |
| `Reader` | scanner, macro parser and parser: from text to statements |
| `Reader_proofs` | theorems about it |
| `Clingo3to4` | the converter from clingo 3 to clingo 4 |
| `Clingo3to4_proofs` | theorems about it |
| `Answers` | as2transition and the formatter it shares with the bridge's packet handler |
| `Answers_proofs` | theorems about it |
| `Recursion_proofs` | induction and recursive functions, for the proofs about `Reader`, `Answers` and `Clingo3to4` |
| `Sorts` | `SortSymbol`, and what parser and symbol table do with sorts; `Spec` |
| `Sorts_proofs` | theorems about it |
| `MCNetworkClient`, `MCBridge`, `MCToolchain`, `MCSorts`, `MCLaws`, `MCReader`, `MCClingo3to4`, `MCAnswers` | small instances for TLC |

### NetworkClient

One action is one stretch of code that the other thread cannot split observably; a lock, an
unlock and each unlocked access to `mWriteBuf`, `mSocket` or `mOpen` starts a new one.  `pc` says
where each thread is.

| code | actions |
|---|---|
| `write` | `WritePush` (lock, `write_in_progress`, `push_back("")`), `WriteFill` (`back() = msg`, unlock), `WriteStart` (`async_write`) |
| `handler_write` | `HandlerWrite`, `PopFront`, `CheckEmpty`, `WriteNext`; on an error `CloseSocket`, `ClearOpen` |
| `handler_read` | `HandlerRead`, then the owner's callback, then `AsyncReceive` |
| `handler_connect` | `HandlerConnect` |
| `close`, `do_close` | `BeginClose`, `CloseSocket`, `ClearOpen`, `DeleteThread` |
| Asio and the peer | `Connect`, `Transfer`, `PeerSends`, `PeerResets` |

`ops` are the `async_write`s under way in the order in which they get the socket (each sends one
piece and queues again, so that two of them interleave), `ready` the completed handlers that
`io_service::run` takes one at a time.  A write operation remembers the list node it was started
on: if that node was popped meanwhile, the operation reads freed memory.  Undefined behaviour is a
member of `ub`, and the behaviour ends there; the invariants say what holds up to then.
The two assignments `back() = msg` and `+= '\0'` are one step: no reader exists between them that
does not also exist before them.  `mExternalMutex` is left out because only `handler_read` takes it.
`infinite_connect` makes `async_connect` retry for ever and nothing closes the socket meanwhile, so
the error branch of `handler_connect` cannot run.

### Bridge

`at` is where `Driver::run` is; the client's `pc` is reused for both threads, so every step of the
client is a step of the bridge.  A law is what `run` reads off a statement: its time, whether its
head holds an action, whether parser and translator accept it.  `Paced` says whether the user types
a module only when all earlier ones were answered, as the prompt suggests.  `Unwind` is the path of
an exception (`f2lp` is not on the path): `~Driver` closes an open client, and the release of
`mClient` closes it again.

`ObservationChannel` is the promise: modules submitted arrive whole, once, in order, as long as the
connection stands.  `Bridge` maps to it by `submitted <- Len(sent)`, `received <- Received` (the
pieces on the wire cut at the end-of-message bytes), `standing <-` connected and running.  Its
specification is `Safety`, what the channel never does, and that it delivers what was submitted.

### Config and Toolchain

`Config` has one action per kind of option; `mRun`, `mInputs`, `mCustomCmd` and the step options are
the fields of the class.  `Mode`, `HasInput`, `Counted` and `Feeder` are the functions of the same
purpose (`mode`, `cumulativeInputCount`, `compileInputArgs`).  `--mode=reactive` stores
MODE_INCREMENTAL (`cplus2asp.r2c:1320`), `--reactive` stores MODE_REACTIVE: the option in the model
names the mode that is stored.

`Toolchain` follows `main()` with `at`.  A run of a tool chooses a status; `Written` is what is left
of its output file, `Launch` records what the next tool is given.  `Advance` computes modulo
`Undefined + 1`, as the unsigned counter does.  `output`, `fed`, `translated`, `tried` and
`foundEarlier` (a query before this search was solved) are history variables: no action of the
program reads them.  The check whether the toolchain is empty (`cplus2asp.r2c:437-446`) has no
counterpart, because it only prints (see the divergences).

### Sorts

`members`, `supersorts`, `subsorts` and `domainType` are the lists and `_dt` of every `SortSymbol`
of a table; `declared` is which sorts the table holds.

| code | definitions |
|---|---|
| `SortSymbol::add`, `addSuperSort`, `addSubSort` | `Grow`, with `Reached`, `NewUnder`, `Retyped` |
| `:- sorts`, `:- objects`, `<<` and `>>` in the grammar | `DeclareSort`, `AddObject`, `AddSubSort` |
| `SymbolTable::plus`, `star`, `carrot` | `Plus`, `SortExpression` |
| constants over a sort (`constant_bnd`) | `DeclareExternal`, `DeclareAbAction` |
| `SymbolTable::save`, `load` | `Restart`, `LoadDefinition`, `FinishLoad` |

The recursion of `add` stops at a sort that has the object already; its result is the least set of
sorts that contains the first and is closed under the super-sorts that lack the object, which is
what `Reached` says without recursion.  Objects do not influence one another on the way, so adding
several is one step, and so are `addSubSort` and `addSuperSort`, which call each other until both
lists hold the link.  A number range is an object of type INTEGRAL.  `true` and `false` are keyword
tokens and cannot be declared.  While a table is loaded, `saved` is the file and `toLoad` the
definitions not read yet, in any order.  The field `over` of a constant is history: the sort the
program named, where `sort` is the one the symbol was given.

### Laws

A law of any form is brought to head, `if`, `ifcons`, `after` and `unless` (`Normal`), as the
statement classes of the parser do, and classified by what it mentions (`LawType`).  A formula is
the set of its conjuncts and a conjunct the constants it mentions: that is all that decides time
stamps, parts and errors.  A rule in `out` has the part it was printed in, and a head and a body
with time stamps.

| code (`Translator.cpp`) | definitions |
|---|---|
| `translateCausalLaw` | `BodyFits`, `WellFormed`, `RulesOf`, `TranslateLaw` |
| `translateIncrementalLaw` | `TranslateAdditive` |
| `translateConstDeclaration` | `Declaration`, `Defaults`, `Domain`, `TranslateConstants` |
| `assertIPart`, `HANDLE_PRESTMTS` | `Asserted`, `Placed`, `Emit` |
| observations, constraints at a step, queries | `TranslateAtStep`, `QueryRules`, `TranslateQuery` |
| `noconcurrency`, `strong_noconcurrency`, `epilogue` | `TranslateNoConcurrency`, `Excluding`, `Epilogue` |

The two outputs are grounded by `Program`, which gives the step variables the values that the
prologue of the static output and the parts of the incremental one give them.  What a law ought to
say is `Meaning`, which does not look at the rules.  The two outputs differ in one form of law, one
with `unless` and without `after`: its head and its body are stamped ST, its exception AT-1
(`Translator.cpp:1287`, 1295-1303).  `Crossed` says what more the static output holds of them.

`InputAssumption` says of the statements what their classes do (`laws.h`): which clauses a form has,
and which steps the grammar lets an observation or a query name.  One property of a program is the
hypothesis of a theorem, and `MCLaws` asserts it of its statements.  `HeadsUnmixed`: a head that has a
rigid constant has nothing else, since a mixed head is printed for the initial state only (see the
divergences).

### Reader

The deque of sources is one sequence, `input`; what is pushed in front is prepended.  `held` is the
token that the macro parser has shifted and not reduced, because it waits for the one after it.
`Reduce` says what becomes of it: an expansion or a file goes in front of the token read ahead,
which is put back.  `SoftEof` and `HardEof` are the two visits of the end of the input that
`MacroParser::next` makes.  `Parse`, `TakeToken`, `TakeError` and `TakeEof` are `BCParser::parse`
and the loop of `main` around it.  The texts the reader starts on have every statement ended by its
period (`TextsFinished`, of which `MCReader` asserts that its texts have it) and declare a macro once;
the divergences below say what happens otherwise.  A macro has one parameter at most: the code
replaces several one after the other in the text of the body (`MacroSymbol.cpp:133`).

### Clingo3to4

A statement is the set of marks that the rules of `match_rule` look for in it.  `Rules` is their
order, `match_rule` the first that fits, `Rewritten` what is printed: the marks that are left, the
query that guards a constraint of the volatile part (`match_volatile_rule`), and the domains of its
variables (`remove_domain_variables`).  `CopyLine`, `SplitLine` and `ConvertStatement` are the two
reading loops, `convert_file` and `convert_stdin`, which differ in scripts only.  `current_scope` is
not initialised by the code; the model starts with any scope.

`TextsAssumption` says which programs are looked at: brackets of scripts are alone on their lines, a
statement outside scripts needs one rule at most, directives are no rules of the program
(`LineFits`), an incremental program opens a part before its first constraint, and a domain is
declared before its variable is used (`InOrder`).  F2LP also prints statements that need two rules,
such as a constraint with `#abs`; they are left out, since the converter goes wrong on them (see the
divergences), and with them the order in which `match_rule` tries its rules.  `Read` lists the statements of the lines that
are no script.  `Program3` is what clingo 3 reads in them, `Program4` what clingo 4 reads in the
output; both are lists, `Pick`ed from the rules at the places where one stands, so nothing may be
lost, doubled or moved.

### Answers

A text is a sequence of words, line ends and predicates.  `AddToPath`, `AddToStep`, `Insert` and
`StepOutput` are `TransitionPath::add`, `Timestep::add`, the ordered insertion and the output.
`ReadWord`, `SkipHeader`, `ShowAnswer` and `CopyLine` are the loop of as2transition's `main`,
`Packet` is `Driver::processOclingoPacket`.  The solver's text and the cuts of the network are
external.  `Shown` is what the mask leaves of a list (`Visible`), element by element (`Only`).
`AnswersAssumption` says what is needed of the text for as2transition: `Answer:` and
`Step:` stand at the start of a line that goes on, and there is one exactly if there was an answer.
`TextsAssumption` says what is needed to find an answer in a text: it is a list of predicates, none
twice; a text for as2transition has one marker for each answer, in order, and the answer is the line
behind the marker's (`AnswerPlaces`); a text for the bridge is its steps one after the other
(`StepPlaces`, `StepText`), and an answer of oClingo has a predicate with a time.
`MarkersWhole` restricts the cuts to those the callback is written for: no header or
marker is torn, and no packet holds the end of one step and the beginning of the next.  Without it
TLC finds lost answers at once; the second half of the restriction follows from the protocol when
the user waits for the prompt, since oClingo then does not begin a step before it got a module.

## 3. What is checked

| run | specification | shows |
|---|---|---|
| `netclient_greedy` | `FairSpec` | with an owner that writes at any time and closes at any time: no lost wake-up (`NoStrandedMessage`), one receive at a time and never none (`OneReceiveChain`), messages do not overtake (`NoOvertaking`), no string popped while it is filled (`NoTornPop`), the queue drains (`QueueDrains`) |
| `netclient_one_write` | `Spec` | counterexample to "Request to write if we aren't already" |
| `bridge_paced` | `FairBridgeSpec` | with a user who waits for the prompt: no access to an empty list or a freed node (`BufferSafe`), one write at a time, oClingo is said to have closed the connection only if it did or if `run()` ended by an exception (`BlameHasCause`), nothing composed after closing began is sent (`NothingSentAfterClosing`), closing and an exception end the process (`CloseEnds`), and `ObservationChannel` is implemented (`ImplementsChannel`) |
| `bridge_thread_deleted` | `BridgeSpec` | counterexample: `mIOThread` is deleted by both threads |
| `toolchain` | `ToolchainSpec` | nothing a failed tool left is used (`NothingFailedIsUsed`), the solver always gets a defined, non-empty range (`SolverConfigured`), in the mode the translation was made for (`SolvedAsTranslated`), steps in order, one after the other, until a solution or the last step unless an earlier query was solved (`StepsInOrder`), an automated run ends (`AutomatedEnds`) |
| `sorts` | `Spec` | objects belong to every super-sort (`MembersClimb`), super- and sub-sorts are one relation (`LinksAgree`), the domain type fits the objects (`DomainTypeFits`), a constant takes every value of its sort, later ones too (`ConstantsCovered`), and a loaded table is the saved one (`LoadedIsSaved`) |
| `laws` | `Spec` | the static and the incremental output are the same program at every horizon, but for the instances in `Crossed` (`ModesAgree`), and the one the laws define (`LawsHold`), no rule stands in a part where its step variable has no value (`PartsFit`), every declared constant has one value (`OneValuePerStep`), noconcurrency excludes the actions it should, no others, and not before the end (`ActionsExclude`) |
| `laws_unless` | `Spec` | counterexample: an exception of an `unless` clause is a condition of its law (`ExceptionsBlock`) |
| `reader` | `FairSpec` | what is translated is what the text says (`ReadAsWritten`), an error message makes the exit code bad (`ErrorsReported`), comments survive (`CommentsKept`), the reader ends (`ReaderEnds`) |
| `reader_include` | `Spec` | counterexample: an include that ends an included file at the end of the text is never followed |
| `clingo3to4` | `Spec` | clingo 4 reads in the output the rules that clingo 3 reads in the text, in the same parts, with the same domains, and every constraint of a volatile part limited to its step (`SameProgram`), for statements that need one rule each; scripts come out as they were written (`ScriptsKept`) |
| `answers` | `Spec` | each answer is shown once, whole and in order, for every cut of the text that tears no marker (`MarkersWhole`, `AnswersShown`), each step in one order (`ListedInOrder`), and as2transition's exit code tells whether there was an answer (`ExitCodeTells`) |

**Bounds.**  `MaxWrites = 3` and `Pieces = 2`: the race of the client needs one message being popped
and one being pushed, and a third to be stranded or overtaken; two pieces make interleaved writes
visible.  `MaxPackets` is 1 for the client alone, and 3 (one answer for each module) for the bridge.
`MaxLines = 5` holds two modules with a law and an end.  In `toolchain`, `Undefined = 4` makes the
step counter wrap within reach, `Steps = {0, 2}` are what a user types, and three options are enough
for each pair that interacts plus an input file; the options cover every action and the tools at
both ends and in the middle of the chain.  In `sorts` there are three sorts (the built-in one, one
of the program, and the one that `s^` makes of it, which the program may declare itself): enough for
chains of two links, for cycles, and for a sort that is found where another was to be made.  Three
objects give two domain types; the proofs cover the rest.  One restart and one constant
(`MaxRestarts`, `MaxConstants`) let declarations follow a load.  In `laws` there is one constant of
each type that the rules tell apart and every form of law over clauses of one conjunct; a horizon of
2 has a first, a middle and a last step, and two statements suffice because statements meet only
through the part the output is in and through what was declared before, which is one earlier
statement's doing.  In `reader` a text has up to three chunks out of thirteen: the interplay of a
declaration, a use that is read ahead, and the end of the input needs no more.  In `clingo3to4` five lines are the
opening of the base part, a domain, another part, a line in between and a rule; the step variable
is a single letter, as in the translator's output.  In `answers` the
solver finds up to two answers, so that text of one could leak into the other, and a packet holds
up to `MaxPacket = 9` pieces, longer than any answer.  Symmetry is not used: the actors differ.

**Deadlock** is checked in the runs of `Sorts`, `Reader` and `Answers` (the last two have an action
for the end of the program), and not in the others, whose systems stop (the owner has nothing more
to say, the process has exited, undefined behaviour was met, the epilogue was printed).

**Fairness.**  Client and bridge: both threads are scheduled (weak fairness of the io thread, and of
the main thread inside a call), and the kernel drains a connected socket.  None for the owner's
calls, the user's lines, oClingo's answers or its hanging up.  Toolchain: weak fairness of the
steps `main()` takes by itself, none for the user at a prompt; each tool is assumed to end, which
is part of the action that runs it.  Reader: weak fairness of the next step, as the program runs
on by itself.  Sorts, Laws, Clingo3to4, Answers: none, their properties are safety.

**Divergences** that the models show and no run is kept for:

* `blnFoundSolutions` is declared once and never reset (`cplus2asp.r2c:368`, 958): after a query of an
  interactive session found a plan, the search for the next query ends after its first step, against
  "Automatically iterates and resolves for all requested steps until a valid plan is found"
  (`README.md:68`).  `StepsInOrder` excuses exactly these searches (`foundEarlier`).
* An empty toolchain is reported with "The toolchain is empty. Exiting." (`cplus2asp.r2c:447`), but
  `pragma()` only prints (`utils.cpp:101-112`), and `main()` goes on with no tool to run.
* When `run()` ends by an exception, as when f2lp is missing, `~Driver` closes the connection without
  setting `mClosing`, and the aborted receive is reported as "closed remotely" (`Driver.cpp:389`);
  the release of `mClient` then closes once more and deletes `mIOThread` a second time
  (`NetworkClient.h:156`).  `BlameHasCause` excuses this case.
* A law with `unless` and without `after` is not the same in the two outputs: the static one relates
  each state to the abActions of every step, the incremental one only those of the step before, and
  neither has the law for the initial state without the exception (`Translator.cpp:1178`, 1287,
  1295-1303).
* `match_rule` applies one rule to a statement: a constraint of the volatile part that holds `#abs`,
  `#sum` or braces gets no query guard and stays for all later steps, and a statement with two
  constructs of clingo 3 keeps one of them (`clingo3to4.cpp:534`).  The statements of the run need one
  rule each.  A `#domain` is added to the statements after it only, and clingo 3 applies it to all.
* A script read from standard input, which is the default, is split at its periods and converted like
  rules, against "we dont want to do any processing for those commands" (`clingo3to4.cpp:124`); the
  orchestrator always passes a file.  The converter's exit code is 0 whatever happened
  (`main.cpp:10`).
* `--maxstep=a..b` after another maximum keeps the old minimum, because the condition of the warning
  sets the options and its `||` short-circuits (`cplus2asp.r2c:1262`, against the usage at 2851).
* A step that is enabled but has no input writes nothing, and the next one is started with the name
  of its file (`Config.r2c:336`, against `Config.h:495`).
* `-l mvpf` followed by another `-l` leaves static-auto behind as if no mode had been asked for
  (`Config.r2c:216-227`): external constants then switch to reactive mode after a static translation
  (`cplus2asp.r2c:575-578`).  The proof of `SolvedAsTranslated` assumes that this is not done, and
  so do the options of the run.
* A sort that stops being Boolean after an abAction was declared over it gives the abAction no
  `none` (`lemon_parser.y:1702`, against the comment at 1701).
* A law whose head mixes a rigid constant with others is taken for a rigid one when it is
  classified and not when it is printed (`Translator.cpp:1163`, 1206).  Observations and
  constraints at a step are printed into whichever part is open.
* An unfinished statement at the end of the input, or an include that fails there, prints an error,
  but `T_EOF` overwrites the status and the exit code is 0 (`BCParser.h:99`, `BCParser.cpp`).
  `:- include a, b` reads b before a.  A comment in front of the first statement is output after it.
  A `%` comment at the very end without a newline is never finished.
* A marker torn over two packets, and an answer in one packet with the next header, lose answers in
  the bridge (`Driver.cpp:362-386`); an answer of timeless predicates only is not shown
  (`Driver.cpp:449`).
* as2transition drops the last word of a text without a final newline (`main.cpp:335`, against
  "Just output whatever is left over"), counts a `Step:` without an answer as a solution, and stores
  a predicate's type before correcting it (`Predicate.cpp:118`, 130-133), so that the lists of
  external constants stay empty.

## 4. What is proved

`Bridge_proofs`, on the client, for every value of `MaxWrites`, `Pieces` and `MaxPackets` allowed by
`BoundsAssumption` (naturals, `Pieces` positive):

* `TypeSafety`: `Spec => []TypeOK`.  `TypeOK` is inductive; `TypeNext` has one step per action, and
  the sequence facts it needs are lemmas (`AbortedType`, `AsyncWriteType`, ...).
* `NoLostWakeup`: `Spec => []NoStrandedMessage`.  The invariant is not inductive alone:
  `handler_write` with an error leaves its message in the list, so one must know that an operation
  only fails on a connection that is gone (`FailuresMeanDown`); and that needs that nothing at
  all happens before the connection stands (`IdleUntilConnected`).  `WakeInv` is the conjunction;
  `IdleNext`, `FailuresNext` and `WakeNext` prove its parts.  The heart of `WakeNext` is the window
  between pop and test: `CheckEmpty` hands over to `WriteNext` exactly when the list is not empty,
  and a `write` that comes after the test has seen the list empty and starts the chain itself.
* `PopsAreWhole`: `Spec => NoTornPop`, from `LockInv`: the mutex is held exactly in the middle of
  `write`, and only then is the last string, and no other, unfilled.

On the client's two chains:

* `ReceivesNeverStop`: `Spec => []OneReceiveChain`.  What must be known besides is that nothing happens
  before the connection stands, and that the io thread never returns to its queue once it is in
  `close` (`CloseIsLast`), since it would otherwise be handling nothing and receiving nothing.
  `AbortElement` says what a lost connection puts behind the completed handlers.
* `MessagesInOrder`: `Spec => []NoOvertaking`, from `OrderInv`: the list is in order, no operation
  under way is for a message later than any in the list (`OpsInOrder`), and neither is anything on the
  wire, whose messages also come before those of the operations not begun (`WireInOrder`).  Two operations for one message are
  allowed: order holds although `OneWriteInProgress` does not.

`Bridge_proofs`, for every stream of laws as well:

* `BridgeKeepsClient`: `[](OneReceiveChain /\ NoOvertaking)` in the bridge.  A step of the bridge is a
  step of the client, except that `run` may close from the main thread (`BridgeCloses`), which
  `ClientInv` survives.
* `BridgeTypeSafety`: `[]BridgeTypeOK`.  A module has a largest time, so that its step is a number
  (`Bounds`, by the least element of a set of naturals); prompts are bounded because each is for a
  packet that came and was not handled before (`PromptsBehind`).
* `BlameAlwaysHasCause`: `[]BlameHasCause`, from `BlameInv`: a connection that is down, and an error in the
  callback, have a reason, which is the bridge's own closing, the peer, or an exception.
* `NothingFollowsClosing`: `[]NothingSentAfterClosing`, from `ClosingInv`: whoever sets `mClosing` between
  the test of `run` and `send` did so on a connection that is down, over which nothing is sent any more.

`Sorts_proofs`, for every set of sorts, objects and kinds and every bound allowed by
`SortsAssumption` (the built-in sort exists and has Boolean objects only, `s + o` is not called `s`):

* `SortsTypeSafety`, `ObjectsClimb`, `LinksAreMutual`, `DomainTypesAreRight`: `Spec` keeps `TypeOK`,
  `MembersClimb`, `LinksAgree` and `DomainTypeFits`.  The lemmas `ReachedFirst`, `ReachedOn` and
  `ReachedWithin` give what the least closed set is used for: it holds its first sort, it goes on,
  and it stays inside any closed set.  From them `GrowClimbs`, `GrowWithin` and `GrowSound` say that
  `Grow`, the only way sorts change, keeps members closed and types right.
* `ConstantsKeepTheirValues`: `Spec => []ConstantsCovered`.  A sort made for a constant is a
  super-sort of the one the program named, so later objects climb to it.  During a load there are
  no constants; the saved ones are covered by the saved table, and the loaded table equals it.
* `LoadingRestores`: `Spec => []LoadedIsSaved`.  `LoadProgress`, the extra invariant, holds the
  table being loaded between two bounds: it never exceeds the saved one, because that one is
  closed (`GrowWithin`), and it holds every definition already read.  When all are read, the bounds
  meet.  Super-sorts follow from sub-sorts because links are mutual, types because they fit.

`SortsInv` is the conjunction that is inductive; `StepSorts` has one step per action.

`Toolchain_proofs`, for every set of options, command lines of every length, every width of the
step counter above 1, every set of domain queries with names, and every step a user may type
(`ConfigAssumption`, `StepsAssumption`):

* `TypeCorrect`: `ToolchainSpec => []ToolchainTypeOK`.  Inductive together with `InputsCounted`: an
  input file takes an option, so there are at most `MaxOptions` of them.
* `FailedOutputUnused`: `ToolchainSpec => []NothingFailedIsUsed`, from `CleanInv`: as long as `main()`
  runs no tool has left a failed output, because each status that is not a success leads to the exit.
* `SolverIsConfigured`: `ToolchainSpec => []SolverConfigured`, from `ReadyInv`, which follows the
  configuration from the start of a search through every step: in automatic mode the counter is
  not UNDEFINED, so the next step is larger (`NoWrap`) and the range does not turn empty.
* `ModeFollowsTranslation`: `[]SolvedAsTranslated` for the command lines that name no language but
  MVPF.  `ModeInv`: without a mode asked for, the mode is the default of the language; so the switch
  to reactive mode, which needs external constants and therefore not MVPF, starts from
  incremental mode, and both are not static.
* `StepsFollowInOrder`: `ToolchainSpec => []StepsInOrder`, from `OrderInv` and `ReadyInv`.  `Before` and
  `After` relate the step counter to the number of runs before and after the solver; a run that
  found sets `blnFoundSolutions`, after which no further step begins, and without which (in this
  search or an earlier one, `foundEarlier`) the search goes on to its last step (`SearchEnded`).

In the second part of `Bridge_proofs`, for a user who waits for the prompt (`Paced`):

* `PacedBufferIsSafe` and `PacedWritesAlone`: `BridgeSpec => []BufferSafe` and `[]OneWriteInProgress`,
  which fail without `Paced`.  A module is written only when all earlier ones were answered; an
  answer is sent when its module was received whole; and Asio takes the completed handlers in order,
  so that the handler that pops a module runs before the one that shows its answer.  `PaceInv`, the inductive
  invariant, says this of the queue of handlers, the list and the packets (`PaceClient`) and of
  where the driver is (`PaceDriver`): there is at most one write, completed or not, and no
  handler of a write stands behind the packet that answers it.
* `BridgeImplementsChannel`: `BridgeSpec => Channel!Safety`.  A step simulation under `ChannelInv`: the
  pieces on the wire, cut at the end-of-message bytes, are whole messages and the beginning of one,
  so that the last piece of a message delivers it and no other step changes what was received.

`Laws_proofs`, for every set of constants with types, every set of statements that `InputAssumption`
allows, every number of statements and every horizon:

* `TypesAlwaysOK` and `PartsAlwaysFit`: `Spec => []LawsTypeOK` and `[]PartsFit`.  `OutInv` says of
  each rule in the output which parts it may be in and which step variables it may mention.
* `ModesAlwaysAgree`: `Spec => []ModesAgree`.  The static output is the incremental one without its
  parts and without the rules that a query for maxstep prints for a horizon of 0 (`Printed`, in
  `OutInv`); and a rule over a variable that starts at 0 in one output and at 1 in the other comes
  with its copy for the initial state (`PairInv`), so both ground to the same, or is the rule of an
  unanchored law (`MixedRules`), whose instances are those in `Crossed` (`CrossingIs`).
* `OneValueAtEveryStep`, `ActionsAlwaysExclude`: `Spec => []OneValuePerStep`, `[]ActionsExclude`.  The
  rules of declarations are exactly those of the constants `translated` (`ValueInv`), and those that
  exclude actions are those of the epilogue for each ordered pair, and none before it
  (`ExclusionInv`, an equation, so nothing is excluded too much).
* `LawsAlwaysHold`: for `HeadsUnmixed`, `Spec => []LawsHold`.  The rules of laws are exactly those of
  the statements in `accepted`; form by form, the grounding of their copies is `Meaning`.

`Reader_proofs`, for every set of tokens, programs, macros and files that `ReaderAssumption` allows:

* `TextsAlwaysTyped`: `Spec => []TypeInv`.  What an expansion and an include push is computed by
  recursion; that it is a text (`ExpansionIsText`), and a finished one (`IncludedIsText`), is
  proved without an induction rule, by the lemmas of `Recursion_proofs`: a set of numbers that holds 0
  and every successor holds all (`Climb`), because the least counterexample would have a
  predecessor, and least elements exist since `<` is well-founded (`LeastNumber`); and a function
  can be built step by step (`Iteration`), so that a recursive definition has one.
* `EveryCommentHandedOn`: `Spec => []CommentsKept`.  `CommentsInv`: a comment of the program has been
  handed on, or waits in the macro parser, or has yet to be read, the last only before the end
  of the input; a reduction pushes text in front and never drops any (`ReduceLeaves`).
* `EveryErrorDecides`: for texts and files that end their statements (`TextsFinished`),
  `Spec => []ErrorsReported`.  `ErrorsInv`: what there is to read, from the statement begun to the end
  of the input, is finished, first as a text that may end in an include, and after the first end of the
  input as one that ends in a period.  So the second end finds nothing that can fail, and `T_EOF`
  an empty statement; without the hypothesis the exit code is wrong (see the divergences).

`Answers_proofs`, for every set of pieces, runs and texts that `AnswersAssumption` and
`TextsAssumption` allow, every mask, both settings of `SeparateActions` and every size of a packet:

* `ExitCodeAlwaysTells`: `Spec => []ExitCodeTells`.  `CountInv`: while as2transition runs, the solver
  found an answer exactly if one was counted, or its marker is the word just read, or one is left in
  the text; and each marker left begins a line that goes on.  So no header or copied line drops a
  marker (`LinesKeepMarkers`), and the loop, which leaves without a look at the last word, does not
  leave before one (`RestOfText`).
* `AlwaysListedInOrder`: `Spec => []ListedInOrder`.  `Insert` keeps a list of one type sorted
  (`InsertSorts`), so a step keeps two sorted lists (`StepWithPredicate`), and so does every step of
  the path of a line (`PathOfText`, by induction over its predicates); the mask keeps the order of
  what it shows (`ShownIsSorted`, by induction over the list: what was taken is not larger than what
  comes).  `OutInv` says this of all that was printed, whichever packets it was collected from.
* `AnswersAlwaysShown`: for cuts that tear no marker (`MarkersWhole`), `Spec => []AnswersShown`.
  The path of a line holds what the line says, step by step (`PathHolds`, by induction over the line,
  `PathGains` for one more predicate), and what is printed of it is what the mask shows (`ShownSays`,
  `AnswerShown`).  For as2transition, `ReadInv`: the answers whose markers were read are the paths
  printed, and the other markers are in the text left or the word just read (`ReadUpTo`).  For the
  bridge, `CollectInv`: the paths printed are the answers of the steps that are over; between two
  steps nothing but line ends has been collected, and inside a step exactly what was read of it so
  far (`CollectUpTo`).  The last is what makes it inductive, since a packet may stop anywhere in an
  answer; `Over` counts ends of steps in the text left, and `StepsLeft` finds them one by one with a
  bijection.

`Clingo3to4_proofs`, for every set of statements and every program that `TextsAssumption` allows:

* `KeepsScripts`: `Spec => []ScriptsKept`.  `ScriptKnown`: the flag `is_script` tells whether the lines
  converted leave a script open (`Open`), and nothing of a script in a file is ever split
  into statements.  `ScriptsSoFar`: a script is open at the end of the output exactly if the flag is
  set, and its lines so far came out as they were; `InsideNext` says what one more line of output does
  to that.
* `ReadsTheSame`: `Spec => []SameProgram`.  `Pending` and `HeadIsNext`: outside scripts, the statement
  that is converted is the next of the program.  `RulesSoFar`: the rules that came out are those of the
  statements done (`Agree`), and what the converter remembers is what they say (`Knows`): the
  part that is open, the step of a volatile part, the domains declared.  It is `Knows` that makes
  `Agree` inductive: a constraint gets its query because `current_scope` is the scope of the part
  that is open (`GuardIsStep`), and a rule all its domains because none is declared later
  (`DomainsAreRead`).  What `Pick` and `Read` do at one more place is proved from `Recursion_proofs`
  (`PickNext`, `ReadNext`).

Only model-checked: `ReadAsWritten`, which compares with the recursive reading of `MCReader`; that
the channel delivers (the fairness in
`ImplementsChannel`) and the other liveness properties, which are out of the prover's reach.

## 5. Not modelled

* `parseConfigOptions`, the option-file twin of `parseCommandOptions` (it has the same `||`).
* Of the symbol table: all symbols but sorts and macros, the names of range sorts (`_rangeCount`
  restarts at 0 in a tool that loads `_range_N` sorts), attributes (saved as `constant`), the bounds
  of number ranges, and a load that fails halfway.
* Of the translator: values, arguments and variables of constants (a formula is the constants it
  mentions), F2LP's part of the work (quantifiers), show statements, ASP and Lua blocks, which are
  copied.
* Of the parsers: the grammar itself, apart from what declares sorts, objects, macros and includes.
* Of `Clingo3to4`: `f2lp_wrapper.cpp`, an older version that its Makefile does not compile, and the
  writing to a file instead of standard output.
* Reference counting (`babb/utils/memory`), used by one thread at a time.
* Output files, ports, number of solutions, the text of prompts and messages.
* Pipes between `runTool` and a tool: it reads standard output to its end before standard error.
* oClingo in the background as a process of its own; boost, editline, F2LP and clingo; the
  generated `.cpp` twins of the `.r2c` files and the generated scanners and parsers.

## 6. Plan

Done, in the order of importance: `NetworkClient`, `Bridge`, `Config` and `Toolchain`, `Sorts`,
`Laws`, `Reader`, `Clingo3to4`, `Answers`, and the proofs of section 4.  Left:

1. `SymbolTable` (`SymbolTable.cpp`): create, resolve and resolve-or-create over constants,
   objects and variables, the names of range sorts, attributes; a saved table loads back.
2. `RefCount` (`babb/utils/memory`): assignment, release and destruction of intrusive pointers.
3. `Answers` composed with `Bridge`, so that the order of prompts and packets is no assumption.
