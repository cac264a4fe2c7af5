--------------------------- MODULE OrderedPartition ---------------------------
(***************************************************************************)
(* An ordered partition of a set is a sequence of disjoint sets that cover *)
(* it.  The matcher refines one by sending every cluster through a         *)
(* std::map from a small number (the key of an element in its cluster) to  *)
(* a set, and appending the sets of the map in ascending order of the key: *)
(* part is the sequence, key[k][x] the key of x in the k-th cluster.       *)
(***************************************************************************)
EXTENDS Integers, FiniteSets, Sequences

IsOrderedPartition(part, S) ==
    /\ \A j, k \in DOMAIN part : j # k => part[j] \cap part[k] = {}
    /\ UNION {part[k] : k \in DOMAIN part} = S

\* Every cluster of new lies in one of old, and in the same order.
Refines(new, old) ==
    /\ \A n \in DOMAIN new : \E k \in DOMAIN old : new[n] \subseteq old[k]
    /\ \A m, n \in DOMAIN new : \A j, k \in DOMAIN old :
          /\ m < n
          /\ new[m] \cap old[j] # {}
          /\ new[n] \cap old[k] # {}
          => j <= k

\* The pairs of a position and a key that get a cluster.
Slots(part, key) ==
    UNION {{<<k, key[k][x]>> : x \in part[k]} : k \in DOMAIN part}

\* The elements a slot receives.
Members(part, key, s) == {x \in part[s[1]] : key[s[1]][x] = s[2]}

\* The order in which the slots are appended, and the slot of a position.
Before(s, t) == s[1] < t[1] \/ (s[1] = t[1] /\ s[2] < t[2])
Predecessors(S, s) == {t \in S : Before(t, s)}
Position(S, s) == Cardinality(Predecessors(S, s)) + 1
SlotAt(S, n) == CHOOSE s \in S : Position(S, s) = n

SplitBy(part, key) ==
    LET S == Slots(part, key)
    IN  [n \in 1..Cardinality(S) |-> Members(part, key, SlotAt(S, n))]

===============================================================================
