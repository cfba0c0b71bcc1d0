------------------------------- MODULE Reader -------------------------------
(***************************************************************************)
(* How a program is read: the scanner (Scanner.1.cpp) gives the tokens of a  *)
(* deque of sources, the macro parser (MacroParser.cpp, lemon_macro.y)       *)
(* expands macros and includes files by pushing their text in front of the   *)
(* deque, and the parser (BCParser.cpp) gathers statements, which main()     *)
(* translates one by one.  Both parsers are LALR(1): a token waits in the    *)
(* macro parser until the next one has been read, so the next one may already *)
(* be out of the scanner when an expansion has to go before it, or when a     *)
(* statement is complete that defines it as a macro.                         *)
(*                                                                         *)
(* The sources are one sequence here: readToken() drops an exhausted source   *)
(* and gives T_EOF only when none is left.  A call id(arg) is one token,      *)
(* which the macro parser takes whole; so is an include or a macro            *)
(* declaration up to its period.                                             *)
(***************************************************************************)
EXTENDS Naturals, Sequences, FiniteSets

CONSTANTS Token,    \* tokens: [kind, id, arg, files]
          Programs, \* the texts the parser can be started on
          Body,     \* Body[m]: the expansion of macro m
          Files,    \* Files[f]: the text of a file that exists
          Word(_),  \* the token of an identifier or any other word
          Period    \* the token that ends a statement

ASSUME ReaderAssumption ==
  /\ Programs \subseteq Seq(Token)
  /\ \A m \in DOMAIN Body : Body[m] \in Seq(Token)
  /\ \A f \in DOMAIN Files : Files[f] \in Seq(Token)
  /\ Period \in Token /\ Period.kind = "period"
  /\ \A w \in {"(", ")"} \cup {t.id : t \in {t \in Token : t.kind = "call"}} :
       Word(w) \in Token /\ Word(w).kind = "word"
  /\ \A t \in Token : /\ t.kind = "call" => t.arg \in Seq(Token)
                      /\ t.kind = "word" => t.arg = <<>>
                      /\ t.kind = "define" => t.id \in DOMAIN Body
                      /\ t.kind = "include" => Len(t.files) \in Nat \ {0}

VARIABLES program,    \* the text, for reference
          input,      \* Scanner::_sources, concatenated
          held,       \* the token on the stack of the macro parser
          softEof,    \* soft_eof of MacroParser::next()
          tokens,     \* MacroParser::_tokens
          macroStat,  \* MacroParser::_stat
          comments,   \* MacroParser::_comments
          macros,     \* the macros in the symbol table
          stmt,       \* the tokens on the stack of BCParser
          stat,       \* BCParser::_stat
          phase,      \* at the start of parse(), in its loop, or main() ended
          statements, \* what main() translated
          remarks,    \* comments handed on
          complained, \* an error message was printed
          good        \* ret of main(): the exit code will be 0

macroVars == <<input, held, softEof, tokens, macroStat, comments, complained>>
parserVars == <<program, macros, stmt, stat, phase, statements, remarks, good>>
vars == <<macroVars, parserVars>>

-----------------------------------------------------------------------------
(* The macro parser *)

\* The body of a macro with its parameter replaced by the argument.  The code
\* replaces the parameters one after the other in the text of the body; a macro of
\* one parameter, whose name is a word of its own, is what one replacement does.
Expansion(m, arg) ==
  LET splice[n \in 0..Len(Body[m])] ==
        IF n = 0 THEN <<>>
        ELSE splice[n - 1] \o (IF Body[m][n].kind = "param" THEN arg ELSE <<Body[m][n]>>)
  IN  splice[Len(Body[m])]

IsMacro(t) == t.kind \in {"word", "call"} /\ t.id \in macros

\* The files of an include that come before the first one that is missing,
\* each pushed in front of the one before.
Included(fs) ==
  LET push[n \in 0..Len(fs)] ==
        IF n = 0 THEN <<>>
        ELSE IF \A i \in 1..n : fs[i] \in DOMAIN Files THEN Files[fs[n]] \o push[n - 1]
        ELSE push[n - 1]
  IN  push[Len(fs)]

Missing(fs) == \E i \in 1..Len(fs) : fs[i] \notin DOMAIN Files

\* A call of what is no macro is taken apart: its argument is read again.
OpenCall(t, rest) ==
  /\ input' = t.arg \o <<Word(")")>> \o rest
  /\ tokens' = tokens \o <<Word(t.id), Word("(")>> /\ held' = <<>>

HandOver(t, ahead, rest) == tokens' = Append(tokens, t) /\ held' = ahead /\ input' = rest

\* Mutant: the token read ahead is not put back before the expansion.
ReduceInto(t, ahead, rest) ==
  IF IsMacro(t) THEN input' = Expansion(t.id, t.arg) \o rest /\ held' = ahead /\ UNCHANGED tokens
  ELSE IF t.kind = "include"
       THEN input' = Included(t.files) \o rest /\ held' = ahead /\ UNCHANGED tokens
  ELSE IF t.kind = "call" THEN OpenCall(t, ahead \o rest) ELSE HandOver(t, ahead, rest)

\* The token t on the stack is reduced, `ahead' the one read after it, if any.
\* What is pushed in front of the rest of the input pushes `ahead' back first.
Reduce(t, ahead, rest) ==
  IF IsMacro(t) THEN input' = Expansion(t.id, t.arg) \o ahead \o rest /\ held' = <<>> /\ UNCHANGED tokens
  ELSE IF t.kind = "include"
       THEN input' = Included(t.files) \o ahead \o rest /\ held' = <<>> /\ UNCHANGED tokens
  ELSE IF t.kind = "call" THEN OpenCall(t, ahead \o rest) ELSE HandOver(t, ahead, rest)

\* What a reduction says of the status: an include may fail.
Fails(t) == t.kind = "include" /\ Missing(t.files)

ReduceHeld(ahead, rest) ==
  IF held = <<>> THEN held' = ahead /\ input' = rest /\ UNCHANGED tokens
  ELSE Reduce(held[1], ahead, rest)

HeldFails == \E i \in DOMAIN held : Fails(held[i])
HeldCall == \E i \in DOMAIN held : held[i].kind = "call"

\* next() is in its loop: nothing to hand over and no reason to stop.
Scanning == phase = "loop" /\ tokens = <<>> /\ macroStat = "OK"

\* The closing parenthesis of a call reduces it at once.
CloseCall ==
  /\ Scanning
  /\ HeldCall
  /\ Reduce(held[1], <<>>, input)
  /\ UNCHANGED <<parserVars, softEof, macroStat, comments, complained>>

Waiting == Scanning /\ ~HeldCall

ReadComment ==
  /\ Waiting
  /\ input # <<>> /\ Head(input).kind = "comment"
  /\ comments' = Append(comments, Head(input))
  /\ input' = Tail(input)
  /\ UNCHANGED <<parserVars, held, softEof, tokens, macroStat, complained>>

ReadToken ==
  /\ Waiting
  /\ input # <<>> /\ Head(input).kind # "comment"
  /\ ReduceHeld(<<Head(input)>>, Tail(input))
  /\ macroStat' = IF HeldFails THEN "ERR" ELSE macroStat
  /\ complained' = (complained \/ HeldFails)
  /\ UNCHANGED <<parserVars, softEof, comments>>

\* The first T_EOF of a call of next(): reduce, and go on with what that pushed.
SoftEof ==
  /\ Waiting
  /\ input = <<>> /\ ~softEof
  /\ softEof' = TRUE
  /\ ReduceHeld(<<>>, <<>>)
  /\ macroStat' = IF HeldFails THEN "ERR" ELSE macroStat
  /\ complained' = (complained \/ HeldFails)
  /\ UNCHANGED <<parserVars, comments>>

\* Mutant: soft_eof is cleared when the end is reached again.
SoftAgain ==
  /\ Waiting
  /\ input = <<>> /\ softEof
  /\ softEof' = FALSE
  /\ UNCHANGED <<parserVars, input, held, tokens, macroStat, comments, complained>>

\* The second one ends the input, whatever the last reduction pushed.
HardEof ==
  /\ Waiting
  /\ input = <<>> /\ softEof
  /\ ReduceHeld(<<>>, <<>>)
  /\ macroStat' = "END"
  /\ complained' = (complained \/ HeldFails)
  /\ UNCHANGED <<parserVars, softEof, comments>>

-----------------------------------------------------------------------------
(* The parser and main() *)

\* Mutant: the end of the input is tested before the comments.
EndBeforeComments ==
  /\ phase = "parse"
  /\ IF comments # <<>> /\ stat # "END"
     THEN /\ remarks' = remarks \o comments
          /\ comments' = <<>>
          /\ UNCHANGED <<stat, phase>>
     ELSE /\ phase' = IF stat = "END" THEN "done" ELSE "loop"
          /\ stat' = IF stat = "END" THEN stat ELSE "OK"
          /\ UNCHANGED <<remarks, comments>>
  /\ UNCHANGED <<program, input, held, softEof, tokens, macroStat, complained, macros, stmt,
                 statements, good>>

\* parse() is called: it hands on the comments met, or starts on a statement.
Parse ==
  /\ phase = "parse"
  /\ IF comments # <<>>
     THEN /\ remarks' = remarks \o comments
          /\ comments' = <<>>
          /\ UNCHANGED <<stat, phase>>
     ELSE /\ phase' = IF stat = "END" THEN "done" ELSE "loop"
          /\ stat' = IF stat = "END" THEN stat ELSE "OK"
          /\ UNCHANGED <<remarks, comments>>
  /\ UNCHANGED <<program, input, held, softEof, tokens, macroStat, complained, macros, stmt,
                 statements, good>>

\* The macro a declaration defines.
Defined(s) == {s[i].id : i \in {i \in DOMAIN s : s[i].kind = "define"}}

\* Mutant: the parser does not reduce at a period: a declaration is known one
\* statement later.
TakeTokenLate ==
  /\ phase = "loop" /\ tokens # <<>>
  /\ tokens' = Tail(tokens) /\ softEof' = FALSE
  /\ IF Head(tokens) = Period
     THEN /\ statements' = Append(statements, stmt)
          /\ stmt' = <<>> /\ phase' = "parse"
          /\ macros' = IF statements = <<>> THEN macros
                       ELSE macros \cup Defined(statements[Len(statements)])
     ELSE /\ stmt' = Append(stmt, Head(tokens))
          /\ UNCHANGED <<statements, phase, macros>>
  /\ UNCHANGED <<program, input, held, macroStat, comments, complained, stat, remarks, good>>

\* A token of next() for the parser.  At a period the statement is reduced at
\* once: the macros it declares are known to the next reduction.
TakeToken ==
  /\ phase = "loop" /\ tokens # <<>>
  /\ tokens' = Tail(tokens) /\ softEof' = FALSE
  /\ IF Head(tokens) = Period
     THEN /\ statements' = Append(statements, stmt)
          /\ macros' = macros \cup Defined(stmt)
          /\ stmt' = <<>> /\ phase' = "parse"
     ELSE /\ stmt' = Append(stmt, Head(tokens))
          /\ UNCHANGED <<statements, phase, macros>>
  /\ UNCHANGED <<program, input, held, macroStat, comments, complained, stat, remarks, good>>

\* Mutant: main() asks for the end only.
TakeErrorQuietly ==
  /\ phase = "loop" /\ tokens = <<>> /\ macroStat = "ERR"
  /\ macroStat' = "OK" /\ softEof' = FALSE
  /\ complained' = TRUE /\ stat' = "SYNTAX_ERR"
  /\ phase' = "parse"
  /\ UNCHANGED <<program, input, held, tokens, comments, macros, stmt, statements, remarks, good>>

\* T_ERR_SYNTAX: parse() returns the error, and is called again.
TakeError ==
  /\ phase = "loop" /\ tokens = <<>> /\ macroStat = "ERR"
  /\ macroStat' = "OK" /\ softEof' = FALSE
  /\ complained' = TRUE /\ stat' = "SYNTAX_ERR" /\ good' = FALSE
  /\ phase' = "parse"
  /\ UNCHANGED <<program, input, held, tokens, comments, macros, stmt, statements, remarks>>

\* T_EOF: an unfinished statement is an error, but the status says END_INPUT.
TakeEof ==
  /\ phase = "loop" /\ tokens = <<>> /\ macroStat = "END"
  /\ complained' = (complained \/ stmt # <<>>)
  /\ stmt' = <<>> /\ stat' = "END"
  /\ phase' = "parse"
  /\ UNCHANGED <<program, input, held, softEof, tokens, macroStat, comments, macros,
                 statements, remarks, good>>

Init ==
  /\ program \in Programs /\ input = program
  /\ held = <<>> /\ softEof = FALSE /\ tokens = <<>> /\ macroStat = "OK"
  /\ comments = <<>> /\ macros = {} /\ stmt = <<>> /\ stat = "OK"
  /\ phase = "parse" /\ statements = <<>> /\ remarks = <<>>
  /\ complained = FALSE /\ good = TRUE

\* main() has ended.
Done == phase = "done" /\ UNCHANGED vars

Next ==
  \/ CloseCall \/ ReadComment \/ ReadToken \/ SoftEof \/ HardEof
  \/ Parse \/ TakeToken \/ TakeError \/ TakeEof
  \/ Done

Spec == Init /\ [][Next]_vars

\* The program runs on by itself until it ends.
FairSpec == Spec /\ WF_vars(Next)

-----------------------------------------------------------------------------
(* Properties *)

\* Texts that end their last statement, and files that do so and are not empty:
\* at any other end of the input a message is printed that decides nothing.
Ends(t, included) == t = Period \/ (~included /\ t.kind = "include")
Finished(text, included) ==
  \A i \in 1..Len(text) : text[i].kind # "comment" => \E j \in i..Len(text) : Ends(text[j], included)
TextsFinished(programs, files) ==
  /\ \A p \in programs : Finished(p, FALSE)
  /\ \A f \in DOMAIN files : /\ Finished(files[f], TRUE)
                             /\ \E i \in 1..Len(files[f]) : files[f][i] = Period

\* A message that something is wrong makes main() fail.
ErrorsReported == phase = "done" /\ complained => ~good

\* Every comment that was read is handed on.
CommentsKept ==
  phase = "done" => /\ comments = <<>>
                    /\ \A i \in DOMAIN program :
                         program[i].kind = "comment" =>
                           \E j \in DOMAIN remarks : remarks[j] = program[i]

\* The reader comes to an end on every text.
ReaderEnds == <>(phase = "done")
=============================================================================
