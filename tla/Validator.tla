------------------------------- MODULE Validator -------------------------------
(***************************************************************************)
(* signdata.cpp and Validator::validateMatching: every output of two       *)
(* circuits gets a signature, its support and the unateness of inputs, and *)
(* each pair of a proposed matching is valid when the signatures agree in  *)
(* their numbers.                                                          *)
(*                                                                         *)
(* A circuit is its inputs and the cones of its outputs in the order of    *)
(* getOutputs().  The simulator is run on the whole circuit, as SignData   *)
(* does it: it evaluates the first output, and the miters it makes of two  *)
(* copies of the circuit join all outputs of both.                         *)
(***************************************************************************)
EXTENDS BoolCone, Sequences, SequencesExt

CONSTANTS Circuits,   \* pairs of circuits [ins, outs]
          Names       \* the ranks of the input names

ASSUME CircuitsAssumption ==
    \A pair \in Circuits, k \in 1..2 :
        /\ IsFiniteSet(pair[k].ins)
        /\ DOMAIN pair[k].outs = 1..Len(pair[k].outs)
        /\ Len(pair[k].outs) \in Nat
        /\ \A n \in DOMAIN pair[k].outs :
              IsCone(pair[k].outs[n], Names) /\ pair[k].outs[n].ins \subseteq pair[k].ins

VARIABLES cirs,        \* cir1, cir2
          matching,   \* output_matching
          signs,      \* signs1, signs2, so far
          verdicts      \* valid_matches and invalid_matches, so far

validatorVars == <<cirs, matching, signs, verdicts>>

-------------------------------------------------------------------------------
(***************************************************************************)
(* Simulator::simulate on a circuit with any number of outputs.            *)
(***************************************************************************)
\* What random vectors may have left of {PosUnate, NegUnate} for input x: at
\* least the properties that the first output has.
Unrefuted(c, x) ==
    LET f == [c.outs[1] EXCEPT !.ins = c.ins,
                               !.on = {vec \in SUBSET c.ins :
                                          EvalOutput(c.outs[1], vec \cap c.outs[1].ins)}]
        has == {p \in {PosUnate, NegUnate} :
                   IF p = PosUnate THEN PosUnateIn(f, x) ELSE NegUnateIn(f, x)}
    IN  {P \in SUBSET {PosUnate, NegUnate} : has \subseteq P}

\* The values of all outputs of a copy of c with x stuck at a constant, and the
\* first output inverted or not.
CopyOutputs(c, vec, x, value, inverted) ==
    [n \in DOMAIN c.outs |->
        LET stuck == IF value THEN vec \cup {x} ELSE vec \ {x}
            out == EvalOutput(c.outs[n], stuck \cap c.outs[n].ins)
        IN  IF n = 1 /\ inverted THEN ~out ELSE out]

\* The AND over all outputs of both copies can never be true.
ConfirmedBy(c, x, p) ==
    \A vec \in SUBSET (c.ins \ {x}) :
        FALSE \in ToSet(CopyOutputs(c, vec, x, FALSE, p = NegUnate)
                        \o CopyOutputs(c, vec, x, TRUE, p = PosUnate))

\* Mutant: what simulation has left is not confirmed.
UnconfirmedProperties(c, x) == Unrefuted(c, x)

InputProperties(c, x) ==
    {LET left == {p \in P : ConfirmedBy(c, x, p)}
     IN  IF left = {} THEN {Binate} ELSE left : P \in Unrefuted(c, x)}

Simulations(c) ==
    {props \in [c.ins -> SUBSET {Binate, PosUnate, NegUnate}] :
        \A x \in c.ins : props[x] \in InputProperties(c, x)}

-------------------------------------------------------------------------------
ValidatorInit ==
    /\ cirs \in Circuits
    /\ matching \in UNION {Injection(S, DOMAIN cirs[2].outs) :
                              S \in SUBSET DOMAIN cirs[1].outs}
    /\ signs = <<<<>>, <<>>>>
    /\ verdicts = <<{}, {}>>

Signed(k) == Len(signs[k]) = Len(cirs[k].outs)

\* One output of the loop of SignData; the circuits are signed one after the
\* other.
Sign(k) ==
    /\ ~Signed(k)
    /\ k = 2 => Signed(1)
    /\ \E props \in Simulations(cirs[k]) :
          signs' = [signs EXCEPT ![k] = Append(@,
              [support    |-> cirs[k].outs[Len(@) + 1].ins,
               properties |-> props])]
    /\ UNCHANGED <<cirs, matching, verdicts>>

\* splitByUnateness: positive, negative, binate and undefined.
UnatenessClusters(props) ==
    [n \in 1..4 |->
        {x \in DOMAIN props :
            CASE n = 1 -> PosUnate \in props[x] /\ NegUnate \notin props[x]
              [] n = 2 -> PosUnate \notin props[x] /\ NegUnate \in props[x]
              [] n = 3 -> PosUnate \notin props[x] /\ NegUnate \notin props[x]
              [] n = 4 -> PosUnate \in props[x] /\ NegUnate \in props[x]}]

SizesAgree(sign1, sign2) ==
    /\ Cardinality(sign1.support) = Cardinality(sign2.support)
    /\ \A n \in 1..4 : Cardinality(UnatenessClusters(sign1.properties)[n]) =
                        Cardinality(UnatenessClusters(sign2.properties)[n])

\* Mutant: the inputs of circuit 2 take the places after those of circuit 1.
CheckMatchShifted(sign1, sign2) ==
    [valid |-> SizesAgree(sign1, sign2),
     inputMatching |-> [n \in 1..4 |-> <<UnatenessClusters(sign1.properties)[n],
                                        UnatenessClusters(sign2.properties)[(n % 4) + 1]>>]]

CheckMatch(sign1, sign2) ==
    [valid |-> SizesAgree(sign1, sign2),
     inputMatching |-> [n \in 1..4 |-> <<UnatenessClusters(sign1.properties)[n],
                                        UnatenessClusters(sign2.properties)[n]>>]]

CheckOf(po) == CheckMatch(signs[1][po], signs[2][matching[po]])

\* The matches in the order of the std::map.
Validate ==
    /\ Signed(1) /\ Signed(2)
    /\ \E po \in DOMAIN matching \ (verdicts[1] \cup verdicts[2]) :
          /\ \A earlier \in DOMAIN matching : earlier < po => earlier \in verdicts[1] \cup verdicts[2]
          /\ verdicts' = IF CheckOf(po).valid THEN [verdicts EXCEPT ![1] = @ \cup {po}]
                       ELSE [verdicts EXCEPT ![2] = @ \cup {po}]
    /\ UNCHANGED <<cirs, matching, signs>>

ValidatorNext == (\E k \in 1..2 : Sign(k)) \/ Validate

ValidatorSpec == ValidatorInit /\ [][ValidatorNext]_validatorVars

-------------------------------------------------------------------------------
F(po) == cirs[1].outs[po]
G(po) == cirs[2].outs[matching[po]]
AsManyUnread(po) ==
    Cardinality(cirs[1].ins \ F(po).ins) = Cardinality(cirs[2].ins \ G(po).ins)

\* A pair is only found invalid when no renaming of inputs makes the outputs
\* equal, although the properties come from random simulation.  (Inputs that
\* an output does not read are in its property map: the circuits must have as
\* many of them.)
EquivalentStayValid ==
    \A po \in verdicts[2] : AsManyUnread(po) => InputMatches(F(po), G(po)) = {}

\* The pairs of clusters that checkMatch returns for a valid match contain every
\* renaming of inputs under which the outputs are equal.
RenamingsKept ==
    \A po \in verdicts[1] : \A n \in 1..4 :
        LET clusters == CheckOf(po).inputMatching[n]
        IN  \A r \in InputMatches(F(po), G(po)) :
                Image(r, clusters[1] \cap F(po).ins) = clusters[2] \cap G(po).ins

===============================================================================
