----------------------------- MODULE MCToolchain -----------------------------
(* Toolchain with the options, queries and steps of a small command line. *)
EXTENDS Toolchain, TLC

MCOptions ==
       {[opt |-> "from", tool |-> Solver], [opt |-> "to", tool |-> Preproc]}
  \cup {[opt |-> "just", tool |-> Postproc], [opt |-> "disable", tool |-> Solver]}
  \cup {[opt |-> "input", tool |-> t] : t \in {Translator, Postproc}}
  \cup {[opt |-> "mode", mode |-> m] : m \in {"static-auto", "static-manual", "reactive"}}
  \cup {[opt |-> "lang", mvpf |-> TRUE], [opt |-> "auto"], [opt |-> "query", query |-> "1"]}
  \cup {[opt |-> "maxstep", first |-> 1, second |-> 2]}
  \cup {[opt |-> "const", first |-> 0, second |-> 1], [opt |-> "minstep", step |-> 2]}

\* The domain's query 1 ranges over steps 0..2, query 2 has no last step.
MCDomainQueries == ("1" :> Between(0, 2)) @@ ("2" :> Between(Undefined, Undefined))
=============================================================================
