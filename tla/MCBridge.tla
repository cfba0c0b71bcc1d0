------------------------------ MODULE MCBridge ------------------------------
(* Bridge with three laws: one about time 0, one with an action at time 1, *)
(* and one the translator rejects.                                         *)
EXTENDS Bridge

MCLaws == {[at |-> 0, action |-> FALSE, good |-> TRUE],
           [at |-> 1, action |-> TRUE,  good |-> TRUE],
           [at |-> 2, action |-> FALSE, good |-> FALSE]}
=============================================================================
