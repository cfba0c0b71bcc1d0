---------------------------- MODULE MCClingo3to4 ----------------------------
(* Short programs of the lines that F2LP prints: parts, a domain, rules of    *)
(* every kind, comments, and a script with lines that look like rules.       *)
EXTENDS Clingo3to4

S(name, marks, variables, step) ==
  [name |-> name, marks |-> marks, variables |-> variables, step |-> step,
   declares |-> [variable |-> "none", of |-> "none"]]
Directive(mark, step) == S("none", {mark}, {}, step)
Rule(name, marks) == S(name, marks, {"X"}, "none")
Domain(of) == [Directive("domain", "none") EXCEPT !.declares = [variable |-> "X", of |-> of]]
Statements(stmts) == [kind |-> "statements", of |-> stmts]

BlankLine == [kind |-> "blank", of |-> <<>>]
Comment == [kind |-> "comment", of |-> <<>>]
Opening(p, step) == Statements(<<Directive(p, step)>>)
Constraint == Statements(<<Rule("r", {"constraint"})>>)
Choice == Statements(<<Rule("c", {"braces"}), Directive("hide", "none")>>)
Label == Statements(<<S("l", {"label"}, {}, "none")>>)
Value == Statements(<<Rule("v", {"abs"}), Rule("s", {"sum"})>>)
Begin == Statements(<<Directive("begin", "none")>>)
End == Statements(<<Directive("end", "none")>>)
\* A table of the script, and an expression with a period.
Code == Statements(<<S("none", {"braces"}, {"X"}, "none"), S("none", {"constraint"}, {"X"}, "none")>>)

Outside == {BlankLine, Comment, Constraint, Choice, Label, Value, Begin, End,
            Statements(<<Domain("p")>>), Statements(<<Domain("q")>>)}
Opened == {Opening("base", "none"), Opening("cumulative", "t"), Opening("volatile", "t")}

\* The brackets of scripts match, code is inside them and rules are not, and a
\* domain is declared before it is used.
WellFormed(t) ==
  LET begins(i) == Cardinality({j \in 1..i : t[j] = Begin})
      ends(i) == Cardinality({j \in 1..i : t[j] = End})
  IN /\ begins(Len(t)) = ends(Len(t))
     /\ \A i \in DOMAIN t :
          /\ begins(i) - ends(i) \in {0, 1}
          /\ t[i] = Code => begins(i) > ends(i)
          /\ t[i] \notin {Begin, Code, BlankLine, Comment} => begins(i) = ends(i)
          /\ t[i] \in {Constraint, Choice, Value} =>
               \A j \in i..Len(t) : t[j].of # <<>> => "domain" \notin t[j].of[1].marks

\* A static program has no parts, but F2LP may put #base into it; an
\* incremental one opens the base part first.
MCTexts ==
  [i \in BOOLEAN |->
     IF i THEN {t \in {<<Opening("base", "none")>> \o u :
                         u \in SeqOf(Outside \cup Opened \cup {Code}, 4)} : WellFormed(t)}
     ELSE {t \in SeqOf(Outside \cup {Code, Opening("base", "none")}, 4) : WellFormed(t)}]
MCStatement == UNION {ToSet(line.of) : line \in Outside \cup Opened \cup {Code}}
=============================================================================
