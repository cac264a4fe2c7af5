------------------------------ MODULE MCSimulator ------------------------------
(***************************************************************************)
(* Instances of the simulator for TLC.                                     *)
(***************************************************************************)
EXTENDS Simulator

Names3 == 1..3

\* Every function of at most three inputs.
ConesUpTo3 == UNION {[ins : {1..n}, on : SUBSET (SUBSET (1..n))] : n \in 0..3}

\* Ascending, and one order that is not.
TwoOrders == UNION {{[k \in 1..n |-> k],
                     [k \in 1..n |-> IF k = n THEN 1 ELSE k + 1]} : n \in 0..3}

\* Every function of at most two inputs, and a ? b : c, the majority, a(b + c)
\* and a xor bc.
FewCones ==
    UNION {[ins : {1..n}, on : SUBSET (SUBSET (1..n))] : n \in 0..2}
    \cup [ins : {Names3},
          on : {{{1, 2}, {1, 2, 3}, {3}, {2, 3}}, {{1, 2}, {1, 3}, {2, 3}, {1, 2, 3}},
                {{1, 2}, {1, 3}, {1, 2, 3}}, {{1}, {1, 2}, {1, 3}, {2, 3}}}]

===============================================================================
