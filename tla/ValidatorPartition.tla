--------------------------- MODULE ValidatorPartition --------------------------
(***************************************************************************)
(* Validator::partitionType1 and partitionType2: the clusters of an        *)
(* ordered partition of the inputs of a cone are split by the values of    *)
(* the output when one input of a cluster, or two, are flipped.  Every     *)
(* iteration starts from the partition that was given, and the iterations  *)
(* end when one splits a cluster.                                          *)
(***************************************************************************)
EXTENDS BoolCone, OrderedPartition

CONSTANTS Cones,       \* the cones
          Partitions,  \* for a set of inputs, the ordered partitions to split
          MaxIt        \* max_it

ASSUME MaxItAssumption == MaxIt \in Nat
ASSUME PartitionsAssumption ==
    \A cone \in Cones :
        /\ IsFiniteSet(cone.ins)
        /\ \A part \in Partitions[cone.ins] :
              part \in Seq(SUBSET cone.ins) /\ IsOrderedPartition(part, cone.ins)

VARIABLES poCone,     \* the cone of po
          type,       \* 1 or 2
          partition,
          new_partition,
          it,
          at,         \* i: the cluster an iteration is at; 0 between iterations
          done

partitionVars == <<poCone, type, partition, new_partition, it, at, done>>

PartitionInit ==
    /\ poCone \in Cones
    /\ type \in 1..2
    /\ partition \in Partitions[poCone.ins]
    /\ new_partition = partition
    /\ it = 0
    /\ at = 0
    /\ done = FALSE

\* What becomes of x: the output when x is flipped, or how often it is true
\* when x and another input of the cluster are.
Key(vec, cluster, x) ==
    IF type = 1 THEN IF EvalOutput(poCone, Flip(vec, x)) THEN 1 ELSE 0
    ELSE Cardinality({y \in cluster \ {x} : EvalOutput(poCone, Flip(Flip(vec, x), y))})

\* set0 and set1, or val_sets: the inputs of a cluster by ascending key.
Split(vec, cluster) ==
    SplitBy(<<cluster>>, <<[x \in cluster |-> Key(vec, cluster, x)]>>)

\* in_vec: one value for each cluster.
Vectors == {UNION {partition[j] : j \in true} : true \in SUBSET DOMAIN partition}

Continues == it < MaxIt /\ Len(new_partition) = Len(partition)

BeginIteration ==
    /\ at = 0 /\ ~done
    /\ Continues
    /\ new_partition' = <<>>
    /\ at' = 1
    /\ UNCHANGED <<poCone, type, partition, it, done>>

\* Mutant: the sets are put before the clusters that were split earlier.
SplitToFront ==
    /\ at \in DOMAIN partition
    /\ Len(partition) # 1
    /\ \E vec \in Vectors : new_partition' = Split(vec, partition[at]) \o new_partition
    /\ at' = at + 1
    /\ UNCHANGED <<poCone, type, partition, it, done>>

SplitCluster ==
    /\ at \in DOMAIN partition
    /\ Len(partition) # 1
    /\ \E vec \in Vectors : new_partition' = new_partition \o Split(vec, partition[at])
    /\ at' = at + 1
    /\ UNCHANGED <<poCone, type, partition, it, done>>

\* The test of the code is on the size of the partition, not of the cluster.
SkipCluster ==
    /\ at \in DOMAIN partition
    /\ Len(partition) = 1
    /\ at' = at + 1
    /\ UNCHANGED <<poCone, type, partition, new_partition, it, done>>

EndIteration ==
    /\ at = Len(partition) + 1
    /\ it' = it + 1
    /\ at' = 0
    /\ UNCHANGED <<poCone, type, partition, new_partition, done>>

ReturnPartition ==
    /\ at = 0 /\ ~done
    /\ ~Continues
    /\ done' = TRUE
    /\ UNCHANGED <<poCone, type, partition, new_partition, it, at>>

PartitionNext == BeginIteration \/ SplitCluster \/ SkipCluster \/ EndIteration \/ ReturnPartition

PartitionSpec == PartitionInit /\ [][PartitionNext]_partitionVars

-------------------------------------------------------------------------------
\* A partition of several clusters is refined in place, and none of its inputs
\* is lost: whatever vectors were drawn, and also when the iterations end
\* without a split.
Refined ==
    done /\ Len(partition) # 1 =>
        /\ IsOrderedPartition(new_partition, poCone.ins)
        /\ Refines(new_partition, partition)

===============================================================================
