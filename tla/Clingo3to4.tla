----------------------------- MODULE Clingo3to4 -----------------------------
(***************************************************************************)
(* The converter between F2LP and clingo (clingo3to4.cpp, domain.cpp).  It   *)
(* reads a program line by line and statement by statement and rewrites     *)
(* what clingo 4 writes in another way.  From line to line it remembers     *)
(* whether it is inside a script, which part of an incremental program it   *)
(* is in, the step variable of the volatile part, and the domains declared. *)
(*                                                                         *)
(* A statement is what match_rule looks for in it: the marks it holds (the   *)
(* directives, #abs, #sum, query_label(query), braces, the :- of a           *)
(* constraint in front, the brackets of a script), the variables it         *)
(* mentions, the domain a #domain declares, the step variable of a part.    *)
(* match_normal_rule is left out: it changes nothing and fits no statement  *)
(* that a rule after it fits.                                               *)
(***************************************************************************)
EXTENDS Naturals, SequencesExt

CONSTANTS Statement, \* the statements of programs
          Texts,     \* Texts[i]: programs, sequences of lines, with option -i or without
          Sources    \* where a program is read from

Parts == {"base", "cumulative", "volatile"}
Marks == Parts \cup {"hide", "abs", "sum", "label", "braces", "domain", "constraint", "begin", "end"}

\* A line inside the script that a line before it began.
Mentions(line, mark) == \E i \in DOMAIN line.of : mark \in line.of[i].marks
InScript(t, i) ==
  \E b \in 1..(i - 1) :
    Mentions(t[b], "begin") /\ \A e \in b..i : ~Mentions(t[e], "end")

\* The statements of the first n lines that are no script.
Read(t, n) ==
  LET read[i \in 0..n] ==
        IF i = 0 THEN <<>> ELSE IF InScript(t, i) THEN read[i - 1] ELSE read[i - 1] \o t[i].of
  IN  read[n]

\* The programs looked at: a bracket of a script is alone on its line and no line of
\* a script declares a domain or opens a part; elsewhere a statement needs one rule
\* at most (F2LP prints others too, of which the converter applies the first rule
\* only), and directives are no rules of the program.  A program with option -i
\* opens a part before its first constraint, and a domain is declared before its
\* variable is used.
LineFits(t, i) ==
  /\ t[i].kind # "statements" => t[i].of = <<>>
  /\ Mentions(t[i], "begin") \/ Mentions(t[i], "end") => Len(t[i].of) = 1
  /\ \A j \in 1..Len(t[i].of) :
       IF InScript(t, i)
       THEN t[i].of[j].name = "none" /\ t[i].of[j].marks \cap (Parts \cup {"domain"}) = {}
       ELSE /\ \A m, n \in t[i].of[j].marks : m = n
            /\ t[i].of[j].name # "none" =>
                 t[i].of[j].marks \cap (Parts \cup {"hide", "domain", "begin", "end"}) = {}
InOrder(read, incremental) ==
  \A k \in 1..Len(read) : read[k].name # "none" =>
    /\ incremental /\ "constraint" \in read[k].marks =>
         \E j \in 1..(k - 1) : read[j].marks \cap Parts # {}
    /\ \A j \in 1..Len(read) :
         "domain" \in read[j].marks /\ read[j].declares.variable \in read[k].variables => j < k

ASSUME SourcesAssumption == Sources \subseteq {"file", "stdin"}
ASSUME StatementAssumption == \A s \in Statement : s.marks \subseteq Marks
ASSUME TextsAssumption ==
  \A incremental \in BOOLEAN : \A t \in Texts[incremental] :
    /\ t \in Seq([kind : {"blank", "comment", "statements"}, of : Seq(Statement)])
    /\ \A i \in 1..Len(t) : LineFits(t, i)
    /\ InOrder(Read(t, Len(t)), incremental)

VARIABLES is_incremental,   \* option -i
          source,           \* option -f or -s
          text,             \* the program
          at,               \* lines read
          ind_commands,     \* statements of the line that are to be converted
          is_script, current_scope, vol_var_string, domain_list,
          output
vars == <<is_incremental, source, text, at, ind_commands, is_script, current_scope,
          vol_var_string, domain_list, output>>
options == <<is_incremental, source, text>>

IncrementalScope == [base |-> "BASE", cumulative |-> "CUMULATIVE", volatile |-> "VOLATILE"]

-----------------------------------------------------------------------------
(* One statement *)

clauses == <<"hide", "abs", "sum", "label", "base">>
           \o (IF is_incremental THEN <<"cumulative", "volatile">> ELSE <<>>)
Rules == clauses \o <<"braces", "domain", "constraint", "begin", "end">>

\* Mutant: a constraint is guarded in every part.
MatchInAnyScope(s) ==
  LET first == SelectInSeq(Rules, LAMBDA rule :
                 rule \in s.marks /\ (rule = "constraint" => is_incremental))
  IN  IF first = 0 THEN "none" ELSE Rules[first]

\* The rule that takes a statement: the first one that fits, and no other.
match_rule(s) ==
  LET first == SelectInSeq(Rules, LAMBDA rule :
                 /\ rule \in s.marks
                 /\ rule = "constraint" => is_incremental /\ current_scope = "VOLATILE")
  IN  IF first = 0 THEN "none" ELSE Rules[first]

OpensPart(rule) == is_incremental /\ rule \in Parts
Commented(rule) == rule \in {"hide", "domain"} \/ (rule = "base" /\ ~is_incremental)

\* The domains that are added to a statement: none to a comment or to what
\* begins with #.
remove_domain_variables(s, rule) ==
  IF Commented(rule) \/ s.marks \cap (Parts \cup {"domain"}) # {} THEN {}
  ELSE {d \in ToSet(domain_list) : d.variable \in s.variables}

\* What is printed for a statement: its marks but the one that was rewritten,
\* the query that guards a constraint, and its domains.  Inside a script
\* convert_stdin adds neither period nor domains.
Rewritten(s, rule) ==
  [is |-> "statement", name |-> s.name, commented |-> Commented(rule),
   part |-> IF OpensPart(rule) THEN rule ELSE "none", step |-> s.step,
   old |-> s.marks \ {rule, "constraint"},
   guard |-> IF rule = "constraint" THEN vol_var_string ELSE "none",
   domains |-> IF source = "stdin" /\ is_script THEN {} ELSE remove_domain_variables(s, rule),
   dot |-> ~(source = "stdin" /\ is_script)]
Script == [is |-> "script"]
EndScript(dot) == [is |-> "end of script", dot |-> dot]
Copied(line) == [is |-> "copy", line |-> line]

Converted(s, rule) ==
  CASE rule = "begin" -> Script
    [] rule = "end"   -> EndScript(TRUE)
    [] OTHER          -> Rewritten(s, rule)

-----------------------------------------------------------------------------
(* Reading a program *)

Init ==
  /\ is_incremental \in BOOLEAN /\ source \in Sources
  /\ text \in Texts[is_incremental]
  /\ at = 0 /\ ind_commands = <<>>
  /\ is_script = FALSE
  /\ current_scope \in {"NONE", "VOLATILE"}   \* not initialised, compared with VOLATILE only
  /\ vol_var_string = "" /\ domain_list = <<>>
  /\ output = <<>>

\* The next line, when all statements of the last one were converted.
Line == text[at + 1]
GetLine == ind_commands = <<>> /\ at < Len(text) /\ at' = at + 1

\* Mutant: the end of a script is not looked for.
CopyAllLines ==
  /\ GetLine
  /\ \/ Line.kind \in {"blank", "comment"}
     \/ source = "file" /\ is_script
  /\ output' = Append(output, Copied(Line))
  /\ UNCHANGED <<options, ind_commands, is_script, current_scope, vol_var_string, domain_list>>

\* Copied as they stand: empty lines, comments, and the lines of a script that
\* is read from a file, up to the one that ends it.
CopyLine ==
  /\ GetLine
  /\ \/ Line.kind \in {"blank", "comment"}
     \/ source = "file" /\ is_script
  /\ IF source = "file" /\ Mentions(Line, "end")
     THEN is_script' = FALSE /\ output' = Append(output, EndScript(FALSE))
     ELSE is_script' = is_script /\ output' = Append(output, Copied(Line))
  /\ UNCHANGED <<options, ind_commands, current_scope, vol_var_string, domain_list>>

\* Any other line is split at its periods.
SplitLine ==
  /\ GetLine
  /\ Line.kind = "statements" /\ ~(source = "file" /\ is_script)
  /\ ind_commands' = Line.of
  /\ UNCHANGED <<options, is_script, current_scope, vol_var_string, domain_list, output>>

\* The next statement of the line: the rule that takes it, and its output.
ConvertStatement ==
  /\ ind_commands # <<>>
  /\ LET s == Head(ind_commands)
         rule == match_rule(s)
     IN /\ output' = Append(output, Converted(s, rule))
        /\ current_scope' = IF OpensPart(rule) THEN IncrementalScope[rule] ELSE current_scope
        /\ vol_var_string' = IF OpensPart(rule) /\ rule = "volatile" THEN s.step
                             ELSE vol_var_string
        /\ domain_list' = IF rule = "domain" THEN Append(domain_list, s.declares)
                          ELSE domain_list
        /\ is_script' = (rule = "begin" \/ (is_script /\ rule # "end"))
  /\ ind_commands' = Tail(ind_commands)
  /\ UNCHANGED <<options, at>>

Next == CopyLine \/ SplitLine \/ ConvertStatement
Spec == Init /\ [][Next]_vars

Ended == at = Len(text) /\ ind_commands = <<>>

-----------------------------------------------------------------------------
(* Properties *)

\* The elements of s at those of the first n places that are in I.
Pick(s, I, n) ==
  LET picked[k \in 0..n] ==
        IF k = 0 THEN <<>> ELSE IF k \in I THEN Append(picked[k - 1], s[k]) ELSE picked[k - 1]
  IN  picked[n]

\* The last part opened up to place k of a sequence of statements.
OpenPart(stmts, k) ==
  LET opened == {j \in 1..k : stmts[j].part # "none"}
  IN IF opened = {} THEN [part |-> "none", step |-> "none"] ELSE stmts[Max(opened)]

\* The rules that clingo 3 reads in the text: the part each is in, the domains
\* of its variables, wherever they are declared, and for a constraint of a
\* volatile part the step it is limited to.
PartsIn(read) ==
  [k \in 1..Len(read) |->
     [step |-> read[k].step,
      part |-> IF is_incremental /\ read[k].marks \cap Parts # {}
               THEN CHOOSE p \in read[k].marks \cap Parts : TRUE ELSE "none"]]
Rule3(read, k) ==
  LET open == OpenPart(PartsIn(read), k)
      declared == {read[j].declares : j \in {j \in 1..Len(read) : "domain" \in read[j].marks}}
  IN  [name |-> read[k].name, part |-> open.part, old |-> {},
       domains |-> {d \in declared : d.variable \in read[k].variables},
       only |-> IF "constraint" \in read[k].marks /\ open.part = "volatile" THEN open.step ELSE "none"]
NamedIn(read) == {k \in 1..Len(read) : read[k].name # "none"}
Program3 ==
  LET read == Read(text, Len(text))
  IN  Pick([k \in 1..Len(read) |-> Rule3(read, k)], NamedIn(read), Len(read))

\* The rules that clingo 4 reads in the output: it knows no clingo 3 syntax and
\* no #domain, and it keeps every constraint unless a query guards it.
PartsOut(out) ==
  [k \in 1..Len(out) |->
     IF out[k].is = "statement" THEN [step |-> out[k].step, part |-> out[k].part]
     ELSE [step |-> "none", part |-> "none"]]
Rule4(out, k) ==
  [name |-> out[k].name, part |-> OpenPart(PartsOut(out), k).part, old |-> out[k].old,
   domains |-> out[k].domains, only |-> out[k].guard]
NamedOut(out) == {k \in 1..Len(out) : out[k].is = "statement" /\ out[k].name # "none"}
Program4 ==
  Pick([k \in NamedOut(output) |-> Rule4(output, k)], NamedOut(output), Len(output))

\* Both read the same rules, in the same order, whatever parts, domains,
\* scripts and comments lie between a rule and the lines it depends on.
SameProgram == Ended => Program4 = Program3

\* The places of the output after the beginning of a script and before its end.
Inside(out) ==
  {k \in 1..Len(out) :
     /\ out[k].is # "script"
     /\ \E b \in 1..k : out[b].is = "script" /\ \A j \in b..k : out[j].is # "end of script"}

\* A script comes out as it was written, every line of it between its two
\* brackets, whatever its lines look like.
ScriptsKept ==
  Ended /\ source = "file" =>
    Pick(output, Inside(output), Len(output)) =
      Pick([i \in 1..Len(text) |-> Copied(text[i])], {i \in 1..Len(text) : InScript(text, i)}, Len(text))
=============================================================================
