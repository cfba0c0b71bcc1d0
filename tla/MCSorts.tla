------------------------------- MODULE MCSorts -------------------------------
(* The built-in sort, a sort of the program and the sort that ^ makes of it,   *)
(* which the program may also declare itself.                               *)
EXTENDS Sorts, TLC

CONSTANTS boolean, s1, s1_plus, true

MCSortNames == {boolean, s1, s1_plus}
MCObjects == {true, None, Unknown}
MCTruths == {true}
MCKind == true :> "BOOLEAN" @@ None :> "OTHER" @@ Unknown :> "OTHER"

MCCarrot == <<s1, Unknown>> :> s1_plus
=============================================================================
