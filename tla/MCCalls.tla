-------------------------------- MODULE MCCalls --------------------------------
(***************************************************************************)
(* Instances, for TLC, of the calls that depend on nothing but their       *)
(* arguments: combCount, the sorting and printing of a circuit,            *)
(* validateMatching, the partition functions, and getResult of the old     *)
(* matcher.  A behaviour is one of these calls on arguments chosen at      *)
(* first; the variables of the others stay as they are.                    *)
(***************************************************************************)
EXTENDS Counting, SortNodes, Validator, ValidatorPartition, OldMatcher

CONSTANTS Inputs1, Inputs2, Outputs1, Outputs2   \* of the old matcher's circuits

VARIABLE running   \* the call

-------------------------------------------------------------------------------
(***************************************************************************)
(* Arguments.                                                              *)
(***************************************************************************)
\* All circuits of three gates that read the input, a constant, or one or two
\* gates, in circles too.
GateNets == <<"w1", "w2", "f">>
ReadLists ==
    {<<x>> : x \in {"a", "w1", "w2", "f"}} \cup {<<"a", "0">>}
    \cup {<<"w2", "w1">>, <<"w1", "f">>, <<"f", "w2">>}

ThreeGates ==
    {[ins |-> {"a"}, outs |-> {"f"},
      gates |-> [k \in 1..3 |-> [out |-> GateNets[k], in |-> reads[k]]]] :
        reads \in [1..3 -> ReadLists]}

Renamed == {"w1", "a"}
Fresh == {"n", "w1"}

Names3 == 1..3
Functions(k) == [ins : {1..k}, on : SUBSET (SUBSET (1..k))]
One(cone, k) == [ins |-> 1..k, outs |-> <<cone>>]

\* A function of three inputs read backwards.
Backwards(cone) == [cone EXCEPT !.on = {{4 - x : x \in vec} : vec \in cone.on}]

\* One output each: every pair of functions of two inputs, of which a circuit
\* may have one more that nothing reads, and every function of three inputs
\* against its renaming and against its complement.
OneOutput ==
    UNION {{<<One(c1, k), One(c2, l)>> : c1 \in Functions(2), c2 \in Functions(2)} :
              k, l \in 2..3}
    \cup {<<One(c, 3), One(Backwards(c), 3)>> : c \in Functions(3)}
    \cup {<<One(c, 3), One(InvertOutput(c), 3)>> : c \in Functions(3)}

\* Every function of three inputs, and of four: (a or b) c d, a xor b xor cd,
\* at least two of four, and a ? b : cd.
SomeCones ==
    Functions(3) \cup
    {[ins |-> 1..4, on |-> {vec \in SUBSET (1..4) : {3, 4} \subseteq vec /\ vec # {3, 4}}],
     [ins |-> 1..4, on |-> {vec \in SUBSET (1..4) :
         Cardinality((vec \cap {1, 2}) \cup (IF {3, 4} \subseteq vec THEN {3} ELSE {})) % 2 = 1}],
     [ins |-> 1..4, on |-> {vec \in SUBSET (1..4) : Cardinality(vec) >= 2}],
     [ins |-> 1..4, on |-> {vec \in SUBSET (1..4) :
         IF 1 \in vec THEN 2 \in vec ELSE {3, 4} \subseteq vec}]}

SomePartitions ==
    [ins \in {1..3, 1..4} |->
        IF ins = 1..3 THEN {<<{1, 2, 3}>>, <<{1, 2}, {3}>>, <<{3}, {1, 2}>>, <<{2}, {1, 3}>>}
        ELSE {<<{1, 2}, {3, 4}>>, <<{4}, {1, 2, 3}>>, <<{1}, {2, 3, 4}>>}]

\* Every output of each circuit reads any set of its inputs.  Inputs and outputs
\* are numbers: nothing compares names of the two circuits.
AllSupports ==
    {[k \in 1..2 |-> IF k = 1 THEN support1 ELSE support2] :
        support1 \in [Outputs1 -> SUBSET Inputs1], support2 \in [Outputs2 -> SUBSET Inputs2]}

-------------------------------------------------------------------------------
(***************************************************************************)
(* A call that is not made has trivial arguments.                          *)
(***************************************************************************)
NoCount ==
    /\ args = [a |-> 0, b |-> 0] /\ width = 0
    /\ upTo = 0 /\ factor = 1 /\ product = 1 /\ divisor = Pending /\ answer = Pending

NoPrint ==
    /\ net = [ins |-> {}, outs |-> {}, gates |-> <<>>]
    /\ nodes = <<>> /\ order = <<>> /\ stack = <<>> /\ renames = <<>>
    /\ sorting = FALSE /\ index = 1 /\ used = {}

NoValidator == cirs = <<>> /\ matching = <<>> /\ signs = <<>> /\ verdicts = <<{}, {}>>

NoPartition ==
    /\ poCone = [ins |-> {}, on |-> {}] /\ type = 1
    /\ partition = <<>> /\ new_partition = <<>>
    /\ it = 0 /\ at = 0 /\ done = TRUE

NoGetResult ==
    /\ data = [k \in 1..2 |-> InitData(<<>>)]
    /\ curMatch = [outputMatching |-> <<>>]
    /\ pick = NoPick /\ returned = TRUE
    /\ clusterOf = <<<<>>, <<>>>>

CallsInit ==
    /\ running \in {"combCount", "print", "validateMatching", "partition", "getResult"}
    /\ IF running = "combCount" THEN CountInit ELSE NoCount
    /\ IF running = "print" THEN PrintInit ELSE NoPrint
    /\ IF running = "validateMatching" THEN ValidatorInit ELSE NoValidator
    /\ IF running = "partition" THEN PartitionInit ELSE NoPartition
    /\ IF running = "getResult" THEN GetResultInit ELSE NoGetResult

allVars == <<countVars, printVars, validatorVars, partitionVars, getResultVars, running>>

Counts ==
    /\ running = "combCount" /\ CountNext
    /\ UNCHANGED <<printVars, validatorVars, partitionVars, getResultVars, running>>

Prints ==
    /\ running = "print" /\ PrintNext
    /\ UNCHANGED <<countVars, validatorVars, partitionVars, getResultVars, running>>

Validates ==
    /\ running = "validateMatching" /\ ValidatorNext
    /\ UNCHANGED <<countVars, printVars, partitionVars, getResultVars, running>>

Splits ==
    /\ running = "partition" /\ PartitionNext
    /\ UNCHANGED <<countVars, printVars, validatorVars, getResultVars, running>>

GetsResult ==
    /\ running = "getResult" /\ GetResultNext
    /\ UNCHANGED <<countVars, printVars, validatorVars, partitionVars, running>>

\* A call is sequential: it goes on as long as it has a step to take.
CallsSpec ==
    /\ CallsInit
    /\ [][Counts \/ Prints \/ Validates \/ Splits \/ GetsResult]_allVars
    /\ WF_allVars(GetsResult)

===============================================================================
