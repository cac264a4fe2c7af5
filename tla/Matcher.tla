-------------------------------- MODULE Matcher --------------------------------
(***************************************************************************)
(* The matcher of matcher.cpp as the command `split' of main.cpp drives    *)
(* it.  It keeps, for each of the two circuits, a partition of the outputs *)
(* by signature and, for each output, an ordered partition of the inputs   *)
(* of its cone, and refines both: by support size, by unateness, by        *)
(* symmetry, and then by simulation of type 1 and of type 2 with random    *)
(* vectors until a round has failed to split anything often enough.        *)
(* Outputs of the two circuits with equal signatures are the candidates    *)
(* for a match, and inputs in clusters of equal position their candidates. *)
(*                                                                         *)
(* The calls of Simulator::simulate and Simulator::simulateSym are         *)
(* modelled by their results, the exact unateness and symmetry classes of  *)
(* the cone; module Simulator models how those are found and checks that   *)
(* they are exact when the equivalence checker answers correctly.          *)
(***************************************************************************)
EXTENDS BoolCone, OrderedPartition, SequencesExt

CONSTANTS Names,       \* the ranks of the input names
          Instances,   \* pairs of circuits [ins, cones]; cones: output -> cone
          MaxIt,       \* the argument of splitBySimType1 and splitBySimType2
          WordBits     \* the length of size_t in bits

IsCircuit(c) ==
    /\ c.ins \subseteq Names
    /\ IsFiniteSet(DOMAIN c.cones)
    /\ \A po \in DOMAIN c.cones : IsCone(c.cones[po], c.ins)

ASSUME NamesAssumption == Names \subseteq Nat /\ IsFiniteSet(Names)
ASSUME MaxItAssumption == MaxIt \in Nat
ASSUME WordBitsAssumption == WordBits \in Nat \ {0}
ASSUME InstancesAssumption ==
    \A inst \in Instances : \A c \in {1, 2} : IsCircuit(inst[c])

VARIABLES cir,      \* the two circuits
          poPart,   \* cir1_po_partition, cir2_po_partition
          piPart,   \* cir1_pi_partitions, cir2_pi_partitions
          stage,    \* the call of the command `split' that comes next or runs
          it,       \* the counter of splitBySimType1(max_it), ...2(max_it)
          inRound,  \* is splitBySimType1() or ...2() running?
          todo,     \* its output clusters still to be visited
          ind,      \* its index i of the input cluster to try
          split     \* its flag

vars == <<cir, poPart, piPart, stage, it, inRound, todo, ind, split>>

Circuits == {1, 2}
Outputs(c) == DOMAIN cir[c].cones
Cone(c, po) == cir[c].cones[po]

Stages == <<"support", "unateness", "symmetry", "type1", "type2", "done">>
SimStages == {"type1", "type2"}
NextStage(s) ==
    LET n == CHOOSE n \in DOMAIN Stages : Stages[n] = s IN Stages[n + 1]

-------------------------------------------------------------------------------
(***************************************************************************)
(* Signatures of inputs and of outputs.                                    *)
(***************************************************************************)
PISignatures == [unat : 0..3, sym : 0..4, t1 : Seq({0, 1}), t2 : Seq(Nat)]

PISignature == [unat |-> UnknownUnateness, sym |-> UnknownSymmetry,
                t1 |-> <<>>, t2 |-> <<>>]

Clusters == [sig : PISignatures, ins : SUBSET Names]

\* PIPartition: an ordered partition of the inputs whose clusters are signed.
Sets(part) == [k \in DOMAIN part |-> part[k].ins]

POSignature(part) ==
    [support_size |-> SumFunction([k \in DOMAIN part |-> Cardinality(part[k].ins)]),
     input_signatures |->
         [k \in DOMAIN part |-> <<Cardinality(part[k].ins), part[k].sig>>]]

\* POSignature(Circuit *): the largest size_t is written -1.
InitialSignature(c) ==
    [support_size |-> -1,
     input_signatures |-> <<<<Cardinality(c.ins), PISignature>>>>]

\* operator< compares these numbers from left to right.  A length comes before
\* the vector it belongs to, so that the first difference decides.
Code(sign) ==
    LET pi(k) == sign.input_signatures[k][2]
        code(k) == <<sign.input_signatures[k][1], pi(k).unat, pi(k).sym,
                     Len(pi(k).t1)>> \o pi(k).t1
                   \o <<Len(pi(k).t2)>> \o pi(k).t2
    IN  <<sign.support_size, Len(sign.input_signatures)>>
        \o FlattenSeq([k \in DOMAIN sign.input_signatures |-> code(k)])

SignatureLess(a, b) ==
    \E n \in DOMAIN Code(a) \cap DOMAIN Code(b) :
        /\ Code(a)[n] < Code(b)[n]
        /\ \A m \in 1..(n - 1) : Code(a)[m] = Code(b)[m]

IsLeast(sign, signs) == \A s \in signs \ {sign} : SignatureLess(sign, s)

\* The partition of outputs that po_partition[POSignature(...)].insert(po)
\* builds from an empty map.
Regroup(pi) ==
    [s \in {POSignature(pi[po]) : po \in DOMAIN pi} |->
        {po \in DOMAIN pi : POSignature(pi[po]) = s}]

Common == DOMAIN poPart[1] \cap DOMAIN poPart[2]

-------------------------------------------------------------------------------
(***************************************************************************)
(* Splitting the inputs of one output.                                     *)
(***************************************************************************)
\* Each cluster of part by key; sig[s] is the signature of the slot's cluster.
SplitClusters(part, key, sig) ==
    LET S == Slots(Sets(part), key)
    IN  [n \in 1..Cardinality(S) |->
            [sig |-> sig[SlotAt(S, n)],
             ins |-> Members(Sets(part), key, SlotAt(S, n))]]

BySupport(f) == <<[sig |-> PISignature, ins |-> f.ins]>>

\* Mutant: the two cofactors are confused.
UnatenessOfSwapped(f, x) ==
    IF NegUnateIn(f, x) THEN PosUnate
    ELSE IF PosUnateIn(f, x) THEN NegUnate
    ELSE Binate

\* What simulate reports of an input, by the first of its properties in the
\* order splitByUnateness looks for them.
UnatenessOf(f, x) ==
    IF PosUnateIn(f, x) THEN PosUnate
    ELSE IF NegUnateIn(f, x) THEN NegUnate
    ELSE Binate

ByUnateness(f, part) ==
    LET key == [k \in DOMAIN part |->
                   [x \in part[k].ins |-> UnatenessOf(f, x)]]
    IN  SplitClusters(part, key,
            [s \in Slots(Sets(part), key) |->
                [part[s[1]].sig EXCEPT !.unat = s[2]]])

\* The number of names that precede every name of a symmetry class orders the
\* classes by their first name; the inputs without a partner come last.
ClassOrder(f, x) ==
    IF SymmetryClass(f, x) = {x} THEN Cardinality(f.ins)
    ELSE Cardinality({z \in f.ins : \A y \in SymmetryClass(f, x) : z < y})

\* Mutant: a class is pushed for each of its members; unviewed_inputs keeps them.
BySymmetryUnerased(f, part) ==
    LET key == [k \in DOMAIN part |-> [x \in part[k].ins |-> x]]
        halves == SplitClusters(part, key,
                      [s \in Slots(Sets(part), key) |-> part[s[1]].sig])
    IN  [n \in DOMAIN halves |->
            [halves[n] EXCEPT !.ins = UNION {SymmetryClass(f, x) : x \in @}]]

\* Mutant: non_sym_inputs is not emptied for the next cluster.
BySymmetryUnreset(f, part) ==
    LET key == [k \in DOMAIN part |-> [x \in part[k].ins |-> ClassOrder(f, x)]]
        halves == SplitClusters(part, key,
                      [s \in Slots(Sets(part), key) |-> part[s[1]].sig])
        single(n) == {x \in halves[n].ins : SymmetryClass(f, x) = {x}}
    IN  [n \in DOMAIN halves |->
            [halves[n] EXCEPT !.ins = @ \cup
                (IF single(n) = {} THEN {} ELSE UNION {single(m) : m \in 1..n})]]

\* A class is pushed whole, whichever cluster its members are in.
BySymmetry(f, part) ==
    LET key == [k \in DOMAIN part |->
                   [x \in part[k].ins |-> ClassOrder(f, x)]]
        sym(s) == IF s[2] = Cardinality(f.ins) THEN NoSymmetry ELSE NESymmetry
        halves == SplitClusters(part, key,
                      [s \in Slots(Sets(part), key) |->
                          [part[s[1]].sig EXCEPT !.sym = sym(s)]])
    IN  [n \in DOMAIN halves |->
            [halves[n] EXCEPT !.ins = UNION {SymmetryClass(f, x) : x \in @}]]

\* Mutant: only the first input of a cluster gets the cluster's value.
InVecOfFirst(part, base) ==
    {x \in UNION {part[k].ins : k \in {k \in DOMAIN part : base[k]}} :
        \A k \in DOMAIN part : x \in part[k].ins => \A y \in part[k].ins : x <= y}

\* in_vec: every input of cluster k has the value base[k].
InVec(part, base) == UNION {part[k].ins : k \in {k \in DOMAIN part : base[k]}}

Type1Key(f, vec, x) == IF EvalOutput(f, Flip(vec, x)) THEN 1 ELSE 0

\* Mutant: each pair of inputs is flipped once only.
Type2KeyOfLater(f, vec, cluster, x) ==
    Cardinality({y \in cluster : x < y /\ EvalOutput(f, Flip(Flip(vec, x), y))})

Type2Key(f, vec, cluster, x) ==
    Cardinality({y \in cluster \ {x} : EvalOutput(f, Flip(Flip(vec, x), y))})

\* Cluster i is the one to split; the others keep one key.
SimKey(kind, f, part, base, i) ==
    LET vec == InVec(part, base)
    IN  [k \in DOMAIN part |-> [x \in part[k].ins |->
            IF k # i THEN 0
            ELSE IF kind = "type1" THEN Type1Key(f, vec, x)
            ELSE Type2Key(f, vec, part[i].ins, x)]]

\* Mutant: val_sets.size() > 0.
CanSplitAlways(part, key, i) == part[i].ins # {}

CanSplit(part, key, i) == \E x, y \in part[i].ins : key[i][x] # key[i][y]

BySimulation(kind, part, key, i) ==
    LET sig(s) == IF s[1] # i THEN part[s[1]].sig
                  ELSE IF kind = "type1"
                       THEN [part[i].sig EXCEPT !.t1 = Append(@, s[2])]
                       ELSE [part[i].sig EXCEPT !.t2 = Append(@, s[2])]
    IN  IF CanSplit(part, key, i)
        THEN SplitClusters(part, key, [s \in Slots(Sets(part), key) |-> sig(s)])
        ELSE part

-------------------------------------------------------------------------------
(***************************************************************************)
(* The calls of the command `split'.                                       *)
(***************************************************************************)
Init ==
    /\ cir \in Instances
    /\ poPart = [c \in Circuits |-> [sign \in {InitialSignature(cir[1])} |-> Outputs(c)]]
    /\ piPart = [c \in Circuits |-> [po \in Outputs(c) |->
                    <<[sig |-> PISignature, ins |-> cir[c].ins]>>]]
    /\ stage = "support"
    /\ it = 0
    /\ inRound = FALSE
    /\ todo = {}
    /\ ind = 1
    /\ split = FALSE

\* One of the calls that visit every output of both circuits once.
SplitAll(call, new) ==
    /\ stage = call
    /\ piPart' = new
    /\ poPart' = [c \in Circuits |-> Regroup(new[c])]
    /\ stage' = NextStage(call)
    /\ UNCHANGED <<cir, it, inRound, todo, ind, split>>

SplitBySupport ==
    SplitAll("support",
        [c \in Circuits |-> [po \in Outputs(c) |-> BySupport(Cone(c, po))]])

SplitByUnateness ==
    SplitAll("unateness",
        [c \in Circuits |-> [po \in Outputs(c) |->
            ByUnateness(Cone(c, po), piPart[c][po])]])

SplitBySymmetry ==
    SplitAll("symmetry",
        [c \in Circuits |-> [po \in Outputs(c) |->
            BySymmetry(Cone(c, po), piPart[c][po])]])

\* Mutant: it <= max_it.
BeginRoundOnceMore ==
    /\ stage \in SimStages
    /\ ~inRound
    /\ it <= MaxIt
    /\ inRound' = TRUE
    /\ todo' = Common
    /\ ind' = 1
    /\ split' = FALSE
    /\ UNCHANGED <<cir, poPart, piPart, stage, it>>

\* splitBySimType1() or splitBySimType2() is called: it will visit the output
\* clusters of circuit 1 that circuit 2 has too, in the order of the map.
BeginRound ==
    /\ stage \in SimStages
    /\ ~inRound
    /\ it < MaxIt
    /\ inRound' = TRUE
    /\ todo' = Common
    /\ ind' = 1
    /\ split' = FALSE
    /\ UNCHANGED <<cir, poPart, piPart, stage, it>>

\* Mutant: new_partition.erase(sign) is forgotten.
ReinsertUnerased(part, sign, pi) ==
    LET signs == {POSignature(pi[po]) : po \in part[sign]}
    IN  [s \in DOMAIN part \cup signs |->
            (IF s \in DOMAIN part THEN part[s] ELSE {})
            \cup {po \in part[sign] : POSignature(pi[po]) = s}]

\* new_partition.erase(sign), then every output of sign inserted again.  The
\* code assigns new_partition back at the end of the round; until a split it
\* equals the old partition, and a split ends the visits of the round.
Reinsert(part, sign, pi) ==
    LET rest == DOMAIN part \ {sign}
        signs == {POSignature(pi[po]) : po \in part[sign]}
    IN  [s \in rest \cup signs |->
            (IF s \in rest THEN part[s] ELSE {})
            \cup {po \in part[sign] : POSignature(pi[po]) = s}]

\* One pass of the loop over i: the outputs of one cluster, of both circuits,
\* try to split input cluster ind with the same random value per cluster.
Attempt ==
    /\ stage \in SimStages
    /\ inRound
    /\ ~split
    /\ \E sign \in todo :
         /\ IsLeast(sign, todo)
         /\ ind <= Len(sign.input_signatures)
         /\ \E base \in [1..Len(sign.input_signatures) -> BOOLEAN] :
              LET key(c, po) == SimKey(stage, Cone(c, po), piPart[c][po], base, ind)
              IN  /\ piPart' = [c \in Circuits |-> [po \in Outputs(c) |->
                         IF po \in poPart[c][sign]
                         THEN BySimulation(stage, piPart[c][po], key(c, po), ind)
                         ELSE piPart[c][po]]]
                  /\ split' = \E c \in Circuits : \E po \in poPart[c][sign] :
                                 CanSplit(piPart[c][po], key(c, po), ind)
         /\ poPart' = [c \in Circuits |-> Reinsert(poPart[c], sign, piPart'[c])]
    /\ ind' = ind + 1
    /\ UNCHANGED <<cir, stage, it, inRound, todo>>

\* Every input cluster of the visited output cluster has been tried.
NextCluster ==
    /\ inRound
    /\ ~split
    /\ \E sign \in todo :
         /\ IsLeast(sign, todo)
         /\ ind > Len(sign.input_signatures)
         /\ todo' = todo \ {sign}
    /\ ind' = 1
    /\ UNCHANGED <<cir, poPart, piPart, stage, it, inRound, split>>

\* Mutant: a round that splits nothing does not count.
EndRoundUncounted ==
    /\ inRound
    /\ split \/ todo = {}
    /\ inRound' = FALSE
    /\ todo' = {}
    /\ ind' = 1
    /\ it' = IF split THEN 1 ELSE it
    /\ split' = FALSE
    /\ UNCHANGED <<cir, poPart, piPart, stage>>

\* The round returns split: after a split the counter is reset to 0 and then
\* incremented by the loop, so that it goes on from 1.
EndRound ==
    /\ inRound
    /\ split \/ todo = {}
    /\ inRound' = FALSE
    /\ todo' = {}
    /\ ind' = 1
    /\ it' = IF split THEN 1 ELSE it + 1
    /\ split' = FALSE
    /\ UNCHANGED <<cir, poPart, piPart, stage>>

EndLoop ==
    /\ stage \in SimStages
    /\ ~inRound
    /\ it >= MaxIt
    /\ stage' = NextStage(stage)
    /\ it' = 0
    /\ UNCHANGED <<cir, poPart, piPart, inRound, todo, ind, split>>

\* The command has returned.
Done == stage = "done" /\ UNCHANGED vars

Next ==
    \/ SplitBySupport \/ SplitByUnateness \/ SplitBySymmetry
    \/ BeginRound \/ Attempt \/ NextCluster \/ EndRound \/ EndLoop
    \/ Done

\* The program is sequential: it goes on as long as it has a step to take.
Spec == Init /\ [][Next]_vars /\ WF_vars(Next)

-------------------------------------------------------------------------------
(***************************************************************************)
(* calculatePossibleMatchings, which the command prints after each call.   *)
(***************************************************************************)
\* The local function fact of combCount multiplies 1..n-1, and each product is
\* a size_t.
Fact[n \in Nat] == IF n <= 1 THEN 1 ELSE ((n - 1) * Fact[n - 1]) % 2^WordBits

\* Division of a word by 0 is undefined; the machines of the build trap, and
\* the command prints nothing.
Fault == -1

combCount(a, b) ==
    LET larger == IF a < b THEN b ELSE a
        apart == IF a < b THEN b - a ELSE a - b
    IN  IF Fact[apart] = 0 THEN Fault ELSE Fact[larger] \div Fact[apart]

CountOf(sign) ==
    combCount(Cardinality(poPart[1][sign]), Cardinality(poPart[2][sign]))

\* output_matches_cnt is 0 at first, and is set to 1 whenever it is found 0: a
\* count that wrapped to 0 wipes out those before it and not those after it.
OutputMatches ==
    LET counted == {sign \in Common :
            \A s \in Common : CountOf(s) = 0 => s # sign /\ SignatureLess(s, sign)}
    IN  IF \E sign \in Common : CountOf(sign) = Fault THEN Fault
        ELSE FoldFunction(LAMBDA m, n : m * n, IF counted = {} THEN 0 ELSE 1,
                 [sign \in counted |-> CountOf(sign)])

\* The pairs of outputs with one signature, and the clusters in which the first
\* output of a pair has input x.
OutputPairs == UNION {poPart[1][sign] \X poPart[2][sign] : sign \in Common}
ClustersOf(x, po) == {k \in DOMAIN piPart[1][po] : x \in piPart[1][po][k].ins}

\* Mutant: pi_matches[pi] is assigned, not inserted into; one pair remains.
MatchesOfOnePair(x) ==
    LET pos == CHOOSE pos \in OutputPairs : ClustersOf(x, pos[1]) # {}
    IN  IF \E p \in OutputPairs : ClustersOf(x, p[1]) # {}
        THEN UNION {piPart[2][pos[2]][k].ins : k \in ClustersOf(x, pos[1])}
        ELSE {}

\* pi_matches: the inputs of circuit 2 that share a position with input x of
\* circuit 1 in some pair of outputs.
MatchesOf(x) ==
    UNION {UNION {piPart[2][pos[2]][k].ins : k \in ClustersOf(x, pos[1])} :
              pos \in OutputPairs}

InputMatchCount ==
    LET matched == {x \in cir[1].ins : \E pos \in OutputPairs : ClustersOf(x, pos[1]) # {}}
    IN  FoldFunction(LAMBDA m, n : m * n, IF matched = {} THEN 0 ELSE 1,
            [x \in matched |-> Cardinality(MatchesOf(x))])

\* The products are of type double: numbers that are not exact are rounded.
PossibleMatchings ==
    IF OutputMatches = Fault THEN Fault ELSE OutputMatches * InputMatchCount

-------------------------------------------------------------------------------
(***************************************************************************)
(* Properties.                                                             *)
(***************************************************************************)
\* A round runs inside one of the two loops only, and what it has still to
\* visit are signatures that both circuits have.
RoundOK ==
    /\ inRound => stage \in SimStages /\ it < MaxIt
    /\ ~inRound => todo = {} /\ ~split
    /\ ~split => todo \subseteq Common

TypeOK ==
    /\ \A c \in Circuits :
         /\ IsCircuit(cir[c])
         /\ piPart[c] \in [Outputs(c) -> Seq(Clusters)]
         /\ \A sign \in DOMAIN poPart[c] : poPart[c][sign] \subseteq Outputs(c)
    /\ stage \in {Stages[n] : n \in DOMAIN Stages}
    /\ it \in 0..MaxIt
    /\ inRound \in BOOLEAN
    /\ ind \in Nat \ {0}
    /\ split \in BOOLEAN
    /\ RoundOK

\* The clusters of every output are an ordered partition of the inputs of its
\* cone: no split loses an input or gives it to two clusters, also when a
\* symmetry class is pushed whole (matcher.cpp:259-267).
InputsPartitioned ==
    stage # "support" =>
        \A c \in Circuits : \A po \in Outputs(c) :
            IsOrderedPartition(Sets(piPart[c][po]), Cone(c, po).ins)

\* Every output is filed under the signature of its current clusters, although
\* the signature is erased and inserted again while the clusters change.
SignaturesCurrent ==
    stage # "support" => \A c \in Circuits : poPart[c] = Regroup(piPart[c])

\* Two inputs that can be exchanged are never separated, whatever the random
\* vectors: "Error during splitting by symmetry" is never logged, and no
\* simulation tells apart what is the same.
SymmetricTogether ==
    \A c \in Circuits : \A po \in Outputs(c) :
        LET f == Cone(c, po) part == piPart[c][po] IN
        \A x, y \in f.ins : \A k \in DOMAIN part :
            Exchangeable(f, x, y) /\ x \in part[k].ins => y \in part[k].ins

\* What a cluster's signature says of unateness and symmetry is true of each
\* input of the cluster, as long as both have been looked at.
SignaturesTruthful ==
    stage \in SimStages \cup {"done"} =>
        \A c \in Circuits : \A po \in Outputs(c) :
            LET f == Cone(c, po) part == piPart[c][po] IN
            \A k \in DOMAIN part : \A x \in part[k].ins :
                /\ CASE part[k].sig.unat = PosUnate -> PosUnateIn(f, x)
                     [] part[k].sig.unat = NegUnate -> NegUnateIn(f, x)
                     [] OTHER -> ~PosUnateIn(f, x) /\ ~NegUnateIn(f, x)
                /\ (part[k].sig.sym = NESymmetry) <=> (SymmetryClass(f, x) # {x})

\* The candidates contain every real match: when two outputs compute the same
\* function up to a renaming of inputs, their signatures are equal and the
\* renaming sends each cluster of one onto the cluster of the other with the
\* same position, at every moment and for every choice of random vectors.
MatchesKept ==
    \A po1 \in Outputs(1), po2 \in Outputs(2) :
        \A r \in InputMatches(Cone(1, po1), Cone(2, po2)) :
            stage # "support" =>
            /\ POSignature(piPart[1][po1]) = POSignature(piPart[2][po2])
            /\ \A k \in DOMAIN piPart[1][po1] :
                  Image(r, piPart[1][po1][k].ins) = piPart[2][po2][k].ins

\* Each input is among the candidates for the one it is renamed to.
RenamingsListed ==
    \A po1 \in Outputs(1), po2 \in Outputs(2) :
        \A r \in InputMatches(Cone(1, po1), Cone(2, po2)) :
            \A x \in Cone(1, po1).ins : r[x] \in MatchesOf(x)

\* When an output of one circuit computes the same function as one of the other
\* up to a renaming of inputs, the command does not print "Possible matchings:
\* 0": the number it prints after each call is positive, and the renaming is
\* among the matchings it counts.
MatchesCounted ==
    /\ RenamingsListed
    /\ \A po1 \in Outputs(1), po2 \in Outputs(2) :
          /\ InputMatches(Cone(1, po1), Cone(2, po2)) # {}
          /\ Cone(1, po1).ins # {}
          => PossibleMatchings > 0

\* The matchings of two circuits: a bijection of their outputs and one of their
\* inputs under which matched outputs compute the same function.
Matchings ==
    {m \in Bijection(Outputs(1), Outputs(2)) \X Bijection(cir[1].ins, cir[2].ins) :
        \A po \in Outputs(1) :
            /\ Image(m[2], Cone(1, po).ins) = Cone(2, m[1][po]).ins
            /\ EquivalentUnder(Cone(1, po), Cone(2, m[1][po]), m[2])}

\* The number the command prints as "Possible matchings" is never smaller than
\* the number of matchings there are.
AllMatchingsCounted == Cardinality(Matchings) <= PossibleMatchings

\* After the clusters have been set up, a step only refines them, in place.
OnlyRefines ==
    [][stage # "support" =>
        \A c \in Circuits : \A po \in Outputs(c) :
            Refines(Sets(piPart[c][po])', Sets(piPart[c][po]))]_vars

\* A round that reports a split has split something: it has more clusters than
\* it began with, which is why resetting the counter does not loop forever.
SplitIsProgress ==
    [][(split' /\ ~split) <=>
        \E c \in Circuits : \E po \in Outputs(c) :
            stage \in SimStages /\ Len(piPart'[c][po]) > Len(piPart[c][po])]_vars

\* The command returns, although each split resets the counter of its loop.
Terminates == <>(stage = "done")

===============================================================================
