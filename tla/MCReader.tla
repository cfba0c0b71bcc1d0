------------------------------ MODULE MCReader ------------------------------
(* Every text of a few statements: words, macros with and without arguments   *)
(* used before and after their declaration, includes and comments.           *)
EXTENDS Reader, TLC

T(kind, id, arg, files) == [kind |-> kind, id |-> id, arg |-> arg, files |-> files]
MCWord(w) == T("word", w, <<>>, <<>>)
MCPeriod == T("period", "", <<>>, <<>>)
Call(f, arg) == T("call", f, arg, <<>>)
Define(m) == T("define", m, <<>>, <<>>)
Include(fs) == T("include", "", <<>>, fs)
Comment(n) == T("comment", n, <<>>, <<>>)
Comments == {Comment("c1"), Comment("c2")}
W(w) == MCWord(w)
P == MCPeriod

\* m expands to another macro and a word, g to a word and its argument.
MCBody == "m" :> <<W("n"), W("u")>> @@ "n" :> <<W("v")>> @@
          "g" :> <<W("x"), T("param", "", <<>>, <<>>)>>

MCFiles == "a" :> <<W("fa"), P>> @@ "b" :> <<Include(<<"a">>), W("n"), P>>
\* A file that holds nothing but an include.
MCOnlyIncludes == "a" :> <<W("fa"), P>> @@ "b" :> <<Include(<<"a">>)>>

Declarations == {<<Define(m), P>> : m \in {"m", "n", "g"}}
Uses == {<<W("w"), P>>, <<W("m"), P>>, <<W("w"), W("n"), P>>,
         <<Call("f", <<W("m")>>), P>>, <<Call("g", <<W("m")>>), W("n"), P>>}
Includes == {<<Include(<<"a">>)>>, <<Include(<<"b", "a">>)>>, <<Include(<<"a", "none">>)>>}
Chunks == Declarations \cup Uses \cup Includes \cup {<<c>> : c \in Comments}

\* A second declaration of a macro would have its name expanded.
DeclaresOnce(text) ==
  \A i, j \in DOMAIN text : text[i].kind = "define" /\ text[i] = text[j] => i = j
MCPrograms ==
  {p \in {s \o t \o u : s, t, u \in Chunks} \cup {s \o t : s, t \in Chunks} \cup Chunks :
     DeclaresOnce(p)}
MCFewPrograms == {s \o t : s, t \in {<<W("w"), P>>} \cup {<<Include(<<"b">>)>>}}

\* Every token of these texts.
Words == {W(w) : w \in {"w", "m", "n", "u", "v", "x", "fa", "f", "g", "(", ")"}}
MCToken ==
  Words \cup Comments \cup {P, T("param", "", <<>>, <<>>)} \cup {Define(m) : m \in DOMAIN MCBody}
    \cup {Call(f, <<W("m")>>) : f \in {"f", "g"}}
    \cup {Include(fs) : fs \in {<<"a">>, <<"b">>, <<"b", "a">>, <<"a", "none">>}}
ASSUME TextsEnd == TextsFinished(MCPrograms, MCFiles)

\* What a text says: the statements one gets by reading it from the front,
\* without reading ahead.
RECURSIVE Meaning(_, _, _, _)
Meaning(text, known, said, stmts) ==
  IF text = <<>> THEN stmts
  ELSE LET t == Head(text)
           rest == Tail(text)
       IN CASE t.kind = "comment" -> Meaning(rest, known, said, stmts)
            [] t = P -> Meaning(rest, known \cup Defined(said), <<>>, Append(stmts, said))
            [] t.kind = "include" -> Meaning(Included(t.files) \o rest, known, said, stmts)
            [] t.kind \in {"word", "call"} /\ t.id \in known ->
                 Meaning(Expansion(t.id, t.arg) \o rest, known, said, stmts)
            [] t.kind = "call" ->
                 Meaning(t.arg \o <<W(")")>> \o rest, known, said \o <<W(t.id), W("(")>>, stmts)
            [] OTHER -> Meaning(rest, known, Append(said, t), stmts)

\* The statements translated are the ones the text says, in their order: what
\* was read ahead is put back behind an expansion or a file, and a macro is
\* known from the period of its declaration on, to the very next word.
ReadAsWritten == phase = "done" => statements = Meaning(program, {}, <<>>, <<>>)
=============================================================================
