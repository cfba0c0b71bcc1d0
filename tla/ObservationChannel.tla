-------------------------- MODULE ObservationChannel --------------------------
(***************************************************************************)
(* What the bridge promises a user who answers its prompts: the modules    *)
(* submitted reach oClingo whole, once and in the order of submission, for *)
(* as long as the connection stands.                                       *)
(***************************************************************************)
EXTENDS Naturals, Sequences

CONSTANT Pieces     \* pieces one message is sent in

VARIABLES submitted,  \* modules submitted so far
          received,   \* what oClingo received, cut at the end-of-message bytes
          standing    \* whether the connection stands

vars == <<submitted, received, standing>>

\* Message m as oClingo must see it.
Whole(m) == [k \in 1..Pieces |-> [msg |-> m, piece |-> k]]

Init == submitted = 0 /\ received = <<>> /\ standing = FALSE

Establish == /\ submitted = 0 /\ ~standing
             /\ standing' = TRUE
             /\ UNCHANGED <<submitted, received>>

Submit == /\ submitted' = submitted + 1
          /\ UNCHANGED <<received, standing>>

Deliver == /\ standing
           /\ Len(received) < submitted
           /\ received' = Append(received, Whole(Len(received) + 1))
           /\ UNCHANGED <<submitted, standing>>

HangUp == /\ standing
          /\ standing' = FALSE
          /\ UNCHANGED <<submitted, received>>

Next == Establish \/ Submit \/ Deliver \/ HangUp

\* What the channel never does, and that it delivers.
Safety == Init /\ [][Next]_vars
Spec == Safety /\ WF_vars(Deliver)
=============================================================================
