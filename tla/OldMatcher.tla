------------------------------ MODULE OldMatcher -------------------------------
(***************************************************************************)
(* misc/old_matcher.cpp: a greedy matching of the outputs of two circuits  *)
(* by signatures.  The signature of an output has one character for each   *)
(* input of its support: the id of the input's cluster, or '0' while the   *)
(* input is unmatched.  Matching two outputs of equal signatures makes the *)
(* unmatched inputs of each a new cluster, which changes the signatures of *)
(* other outputs; when no signature is common, inputs of circuit 2 are     *)
(* stuck at constants until one is.                                        *)
(*                                                                         *)
(* A signature is a sequence of characters, each of them its code: the id  *)
(* of the n-th cluster is the character n places after '0', narrowed to a  *)
(* char, and strings are compared by unsigned char.                        *)
(***************************************************************************)
EXTENDS Integers, FiniteSets, Sequences, SequencesExt

CONSTANTS Supports,   \* pairs of circuits: for k in 1..2, output -> its inputs
          CharBits    \* the width of char

ASSUME SupportsAssumption ==
    \A pair \in Supports, k \in 1..2 :
        /\ IsFiniteSet(DOMAIN pair[k])
        /\ \A po \in DOMAIN pair[k] : IsFiniteSet(pair[k][po])

UnmatchedId == 48   \* '0'

ASSUME CharBitsAssumption == CharBits \in Nat /\ UnmatchedId < 2^CharBits

VARIABLES data,      \* data1, data2
          curMatch,  \* cur_match
          pick,      \* the output stickUnmatchedInputs works on and how often
                     \* it will go on, or NoPick
          returned,      \* getResult has returned
          clusterOf  \* history: the id under which an input was matched

getResultVars == <<data, curMatch, pick, returned, clusterOf>>

NoPick == <<>>
Repeat(id, n) == [i \in 1..n |-> id]

\* updateSignature: the first n unmatched characters get an id.
UpdateSignature(sign, id, n) ==
    LET before == {i \in DOMAIN sign : \A j \in 1..i : sign[j] # UnmatchedId}
        start == Cardinality(before) + 1
    IN  [i \in DOMAIN sign |-> IF i \in start .. start + n - 1 THEN id ELSE sign[i]]

\* getPrefix
PrefixOf(sign) ==
    SubSeq(sign, 1, Cardinality({i \in DOMAIN sign : \A j \in 1..i : sign[j] # UnmatchedId}))

\* operator< of std::string
SignLess(s, t) ==
    \E k \in 1 .. Len(t) :
        /\ k <= Len(s) + 1
        /\ \A i \in 1 .. k - 1 : s[i] = t[i]
        /\ k = Len(s) + 1 \/ s[k] < t[k]

Least(signs) == CHOOSE s \in signs : \A t \in signs \ {s} : SignLess(s, t)

\* The outputs filed under a signature.
At(clusters, sign) == IF sign \in DOMAIN clusters THEN clusters[sign] ELSE {}

\* Mutant: outputs are filed under their new signature and left under the old.
RefiledTwice(clusters, pos, arriving, new) ==
    [s \in DOMAIN clusters \cup {new[o] : o \in arriving} |->
        At(clusters, s) \cup {o \in arriving : new[o] = s}]

\* `pos' leave their clusters, `arriving' come into those of their new
\* signatures, and a cluster that has become empty is erased.
Refiled(clusters, pos, arriving, new) ==
    LET members(s) == (At(clusters, s) \ pos) \cup {o \in arriving : new[o] = s}
    IN  [s \in {t \in DOMAIN clusters \cup {new[o] : o \in arriving} : members(t) # {}} |->
            members(s)]

\* CircuitData::CircuitData.  An input that no output reads is never looked at,
\* and left out.
InitData(support) ==
    LET sign == [po \in DOMAIN support |-> Repeat(UnmatchedId, Cardinality(support[po]))]
        inputs == UNION {support[po] : po \in DOMAIN support}
    IN  [unmatchedInputs   |-> inputs,
         matchedInputs     |-> {},
         unmatchedOutputs  |-> DOMAIN support,
         matchedOutputs    |-> {},
         outputSupport     |-> support,
         inputSupport      |-> [pi \in inputs |-> {po \in DOMAIN support : pi \in support[po]}],
         outputSignatures  |-> sign,
         matchedClusters   |-> <<>>,
         unmatchedClusters |-> [s \in {sign[po] : po \in DOMAIN support} |->
                                   {po \in DOMAIN support : sign[po] = s}]]

\* getUnmatchedInputs
UnmatchedInputs(d, po) == d.outputSupport[po] \cap d.unmatchedInputs

\* new_cluster_id: one more than there are matched signatures, as a char.
NewClusterId(d) == (UnmatchedId + Cardinality(DOMAIN d.matchedClusters) + 1) % 2^CharBits

\* Mutant: only the signature of `po' is updated.
SignatureOfOne(d, po) ==
    [d.outputSignatures EXCEPT ![po] =
        UpdateSignature(@, NewClusterId(d), Cardinality(UnmatchedInputs(d, po)))]

\* The signatures after `po' is matched: all its inputs get the new id, in the
\* signature of each unmatched output that reads them.
SignaturesAfter(d, po) ==
    [o \in DOMAIN d.outputSignatures |->
        IF o \in d.unmatchedOutputs
        THEN UpdateSignature(d.outputSignatures[o], NewClusterId(d),
                 Cardinality(UnmatchedInputs(d, po) \cap d.outputSupport[o]))
        ELSE d.outputSignatures[o]]

\* CircuitData::match.  An output that comes to have the signature of `po' goes
\* to its cluster, and stays among the unmatched outputs.
MatchOutput(d, po) ==
    LET inputs == UnmatchedInputs(d, po)
        sign == SignaturesAfter(d, po)
        moved == {o \in d.unmatchedOutputs : sign[o] # d.outputSignatures[o]} \ {po}
        grouped == {o \in moved : sign[o] = sign[po]}
    IN  IF po \notin d.unmatchedOutputs THEN d
        ELSE [d EXCEPT !.matchedOutputs = @ \cup {po},
                       !.unmatchedOutputs = @ \ {po},
                       !.matchedInputs = @ \cup inputs,
                       !.unmatchedInputs = @ \ inputs,
                       !.outputSignatures = sign,
                       !.matchedClusters = Refiled(@, {}, {po} \cup grouped, sign),
                       !.unmatchedClusters = Refiled(@, {po} \cup moved, moved \ grouped, sign)]

\* The two sets CircuitData::match returns, of inputs and of outputs.
InputGroup(d, po) == IF po \in d.unmatchedOutputs THEN UnmatchedInputs(d, po) ELSE {}
OutputGroup(d, po) ==
    IF po \in d.unmatchedOutputs
    THEN MatchOutput(d, po).matchedClusters[SignaturesAfter(d, po)[po]] ELSE {}

\* Mutant: the signature keeps its length.
StickUnshortened(d, pi) ==
    [d EXCEPT !.outputSupport = [po \in DOMAIN @ |-> @[po] \ {pi}],
              !.unmatchedInputs = @ \ {pi}]

\* One iteration of CircuitData::stickUnmatchedInputs: an input leaves the
\* supports, and each output that read it loses its last character.
StickInput(d, pi) ==
    LET readers == d.inputSupport[pi]
        sign == [po \in DOMAIN d.outputSignatures |->
                    IF po \in readers THEN Front(d.outputSignatures[po])
                    ELSE d.outputSignatures[po]]
    IN  [d EXCEPT !.outputSupport = [po \in DOMAIN @ |->
                                        IF po \in readers THEN @[po] \ {pi} ELSE @[po]],
                  !.inputSupport = [x \in DOMAIN @ \ {pi} |-> @[x]],
                  !.outputSignatures = sign,
                  !.unmatchedClusters = Refiled(@, readers, readers, sign),
                  !.unmatchedInputs = @ \ {pi}]

Unmatched(k) == DOMAIN data[k].unmatchedClusters

\* getCommonUnmatchedSignatures
CommonSignatures == Unmatched(1) \cap Unmatched(2)

\* Mutant: signatures of any prefix are compared.
DiffIgnoringPrefix ==
    {p \in Unmatched(1) \X Unmatched(2) : Len(p[2]) > Len(p[1])}

\* getMinDiffSignatures: the pairs it compares, and the first of least difference.
DiffSignatures ==
    {p \in Unmatched(1) \X Unmatched(2) :
        PrefixOf(p[1]) = PrefixOf(p[2]) /\ Len(p[2]) > Len(p[1])}

MinDiffSignatures ==
    LET diff(p) == Len(p[2]) - Len(p[1])
        least == {p \in DiffSignatures : \A q \in DiffSignatures : diff(p) <= diff(q)}
        first == Least({p[1] : p \in least})
    IN  <<first, Least({p[2] : p \in {q \in least : q[1] = first}})>>

-------------------------------------------------------------------------------
GetResultInit ==
    /\ \E pair \in Supports : data = [k \in 1..2 |-> InitData(pair[k])]
    /\ curMatch = [inputMatching |-> <<>>, outputMatching |-> <<>>,
                   stuckInputs2 |-> {}, score |-> 0]
    /\ pick = NoPick
    /\ returned = FALSE
    /\ clusterOf = [k \in 1..2 |-> <<>>]

\* Matcher::match: the groups of inputs are recorded when the first is not
\* empty and the second is.
Record(group1, group2, outputs1, outputs2) ==
    [curMatch EXCEPT
        !.inputMatching = IF group1 # {} /\ group2 = {}
                          THEN Append(@, <<group1, group2>>) ELSE @,
        !.outputMatching = Append(@, <<outputs1, outputs2>>),
        !.score = @ + 10 + (Cardinality(outputs2) - 1)]

\* The inner loop of getResult: one output of each circuit with the least common
\* signature.  Matcher::match does nothing when their signatures differ.
MatchCommon ==
    /\ ~returned /\ pick = NoPick
    /\ CommonSignatures # {}
    /\ \E po1 \in data[1].unmatchedClusters[Least(CommonSignatures)],
          po2 \in data[2].unmatchedClusters[Least(CommonSignatures)] :
           LET po == <<po1, po2>>
               group(k) == InputGroup(data[k], po[k])
           IN  /\ data[1].outputSignatures[po1] = data[2].outputSignatures[po2]
               /\ data' = [k \in 1..2 |-> MatchOutput(data[k], po[k])]
               /\ curMatch' = Record(group(1), group(2),
                                     OutputGroup(data[1], po1), OutputGroup(data[2], po2))
               /\ clusterOf' = [k \in 1..2 |->
                      [pi \in DOMAIN clusterOf[k] \cup group(k) |->
                          IF pi \in group(k) THEN NewClusterId(data[k]) ELSE clusterOf[k][pi]]]
    /\ UNCHANGED <<pick, returned>>

\* No signature is common: an output of circuit 2 is chosen for losing inputs.
ChooseOutput ==
    /\ ~returned /\ pick = NoPick
    /\ CommonSignatures = {}
    /\ DiffSignatures # {}
    /\ \E po \in data[2].unmatchedClusters[MinDiffSignatures[2]] :
           pick' = <<po, Len(MinDiffSignatures[2]) - Len(MinDiffSignatures[1])>>
    /\ UNCHANGED <<data, curMatch, returned, clusterOf>>

StickOne ==
    /\ pick # NoPick
    /\ \E pi \in UnmatchedInputs(data[2], pick[1]) :
           /\ data' = [data EXCEPT ![2] = StickInput(@, pi)]
           /\ curMatch' = [curMatch EXCEPT !.stuckInputs2 = @ \cup {pi}]
    /\ pick' = IF pick[2] = 1 THEN NoPick ELSE <<pick[1], pick[2] - 1>>
    /\ UNCHANGED <<returned, clusterOf>>

ReturnResult ==
    /\ ~returned /\ pick = NoPick
    /\ CommonSignatures = {}
    /\ DiffSignatures = {}
    /\ returned' = TRUE
    /\ UNCHANGED <<data, curMatch, pick, clusterOf>>

GetResultNext == MatchCommon \/ ChooseOutput \/ StickOne \/ ReturnResult

GetResultSpec == GetResultInit /\ [][GetResultNext]_getResultVars

-------------------------------------------------------------------------------
Inputs(d) == DOMAIN d.inputSupport
OutputsOf(d) == DOMAIN d.outputSupport

\* Each output is filed under its present signature, in one cluster, and only
\* outputs that can still be matched are in the clusters getResult draws from:
\* `at' never throws and rand() is never taken modulo 0.
ClustersFiled ==
    \A k \in 1..2 :
        LET d == data[k]
        IN  /\ \A s \in DOMAIN d.unmatchedClusters :
                   d.unmatchedClusters[s] # {} /\ d.unmatchedClusters[s] \subseteq d.unmatchedOutputs
            /\ \A po \in OutputsOf(d), s \in DOMAIN d.unmatchedClusters \cup DOMAIN d.matchedClusters :
                   po \in At(d.unmatchedClusters, s) \cup At(d.matchedClusters, s) <=>
                       s = d.outputSignatures[po]
            /\ \A po \in OutputsOf(d) :
                   po \in At(d.unmatchedClusters, d.outputSignatures[po]) <=>
                       po \notin At(d.matchedClusters, d.outputSignatures[po])

\* Ids do not leave the range of a char: an output that is matched makes one
\* matched signature at most.
IdsFit ==
    \A pair \in Supports, k \in 1..2 : UnmatchedId + Cardinality(DOMAIN pair[k]) < 2^CharBits

\* The signature of an output lists the clusters its inputs were matched in, in
\* ascending order, and then a zero for each input that is unmatched, through
\* all matchings and all inputs stuck.
SignaturesDescribe ==
    \A k \in 1..2 : \A po \in OutputsOf(data[k]) :
        LET d == data[k]
            sign == d.outputSignatures[po]
            zeros == {i \in DOMAIN sign : sign[i] = UnmatchedId}
            ids == {clusterOf[k][pi] : pi \in d.outputSupport[po] \ d.unmatchedInputs}
        IN  /\ Cardinality(zeros) = Cardinality(UnmatchedInputs(d, po))
            /\ \A id \in ids :
                   Cardinality({i \in DOMAIN sign : sign[i] = id}) =
                   Cardinality({pi \in d.outputSupport[po] \ d.unmatchedInputs :
                                   clusterOf[k][pi] = id})
            /\ Len(sign) = Cardinality(d.outputSupport[po])
            /\ \A i, j \in DOMAIN sign :
                   i < j /\ sign[j] # UnmatchedId => sign[i] # UnmatchedId /\ sign[i] <= sign[j]

\* A cluster id means as many inputs in one circuit as in the other, although
\* each circuit counts its own matched signatures, and the groups of outputs
\* that were matched can be connected to inputs of corresponding clusters: each
\* reads as many inputs of every cluster as every output of the other group.
ClustersCorrespond ==
    LET members(k, id) == {pi \in DOMAIN clusterOf[k] : clusterOf[k][pi] = id}
        ids == {clusterOf[1][pi] : pi \in DOMAIN clusterOf[1]} \cup
               {clusterOf[2][pi] : pi \in DOMAIN clusterOf[2]}
        reads(k, po, id) == Cardinality(data[k].outputSupport[po] \cap members(k, id))
    IN  /\ \A id \in ids : Cardinality(members(1, id)) = Cardinality(members(2, id))
        /\ \A i \in DOMAIN curMatch.outputMatching :
               \A po1 \in curMatch.outputMatching[i][1], po2 \in curMatch.outputMatching[i][2] :
                   \A id \in ids : reads(1, po1, id) = reads(2, po2, id)

\* getResult returns, whatever rand() gives: every round of its loop matches an
\* output or takes an input away.
GetResultReturns == <>returned

===============================================================================
