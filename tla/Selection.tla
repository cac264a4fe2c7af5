-------------------------------- MODULE Selection ------------------------------
(***************************************************************************)
(* What the reader's modules promise of the sequences they build: they     *)
(* list the elements at some positions of another sequence, in order.      *)
(***************************************************************************)
EXTENDS Integers, FiniteSets, Sequences

\* How many positions of P there are up to n.
Rank(P, n) == Cardinality({m \in P : m <= n})

\* The sequence seq lists all[n] for the positions n in P, in ascending order.
Selects(seq, all, P) ==
    /\ Len(seq) = Cardinality(P)
    /\ \A n \in P : seq[Rank(P, n)] = all[n]

================================================================================
