-------------------------------- MODULE Checker --------------------------------
(***************************************************************************)
(* What a caller of checkMiter relies on: asked whether the output of a    *)
(* miter can be true, it answers TRUE for one that cannot be, and never    *)
(* anything else; for one that can be, it answers FALSE, or, once some     *)
(* call in it has failed, TRUE.  It is what CheckMiter of module Simulator *)
(* assumes.                                                                *)
(***************************************************************************)
CONSTANT NoMiter     \* nothing is asked

VARIABLES question,  \* "sat" or "unsat", a miter under check, or NoMiter
          answer,    \* the answer to the last question
          faulty     \* has a call failed?

Init == question = NoMiter /\ answer = TRUE /\ faulty = FALSE

Ask ==
    /\ question = NoMiter
    /\ question' \in {"sat", "unsat"}
    /\ UNCHANGED <<answer, faulty>>

Fail ==
    /\ question # NoMiter
    /\ faulty' = TRUE
    /\ UNCHANGED <<question, answer>>

Answer ==
    /\ question # NoMiter
    /\ \/ answer' = (question = "unsat")
       \/ faulty /\ answer' = TRUE
    /\ question' = NoMiter
    /\ UNCHANGED faulty

Next == Ask \/ Fail \/ Answer

Spec == Init /\ [][Next]_<<question, answer, faulty>>

===============================================================================
