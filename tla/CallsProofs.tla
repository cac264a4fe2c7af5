------------------------------ MODULE CallsProofs ------------------------------
(***************************************************************************)
(* The calls that depend on nothing but their arguments, for all of them.  *)
(* validateMatching judges circuits of one output exactly, whatever random *)
(* vectors the simulator draws: what it leaves is confirmed, so that the   *)
(* properties of an input are those of the function, and a renaming under  *)
(* which two outputs are equal keeps them.  The partition functions lose   *)
(* no input.  sortNodes sorts, and print writes a circuit that computes    *)
(* what the one it prints does.  combCount never counts too many.          *)
(***************************************************************************)
EXTENDS Counting, Validator, ValidatorPartition, SortNodes, OldMatcher, OperatorProofs,
        SequenceTheorems, WellFoundedInduction

-------------------------------------------------------------------------------
(***************************************************************************)
(* What the simulator finds of a circuit with one output.                  *)
(***************************************************************************)
\* A circuit as the assumption has it.
IsDesign(c) ==
    /\ IsFiniteSet(c.ins)
    /\ DOMAIN c.outs = 1..Len(c.outs)
    /\ Len(c.outs) \in Nat
    /\ \A n \in DOMAIN c.outs : IsCone(c.outs[n], Names) /\ c.outs[n].ins \subseteq c.ins

\* A circuit with one output, f.
IsSingle(c, f) == IsDesign(c) /\ Len(c.outs) = 1 /\ c.outs[1] = f

\* The first output as a function of all inputs of the circuit.
Wide(c) ==
    [c.outs[1] EXCEPT !.ins = c.ins,
                      !.on = {vec \in SUBSET c.ins :
                                 EvalOutput(c.outs[1], vec \cap c.outs[1].ins)}]

\* What the wide function is.
LEMMA WideEvaluates ==
    ASSUME NEW c, NEW f, IsSingle(c, f)
    PROVE  /\ Wide(c).ins = c.ins
           /\ \A vec \in SUBSET c.ins :
                EvalOutput(Wide(c), vec) <=> EvalOutput(f, vec \cap f.ins)
<1>1. f \in [ins : SUBSET Names, on : SUBSET (SUBSET Names)]
  BY DEF IsSingle, IsDesign, IsCone
<1>2. c.outs[1] = f
  BY DEF IsSingle
<1>3. /\ Wide(c).ins = c.ins
      /\ Wide(c).on = {vec \in SUBSET c.ins : EvalOutput(f, vec \cap f.ins)}
  BY <1>1, <1>2 DEF Wide
<1> QED
  BY <1>3 DEF EvalOutput

\* The wide function is unate in an input that f reads as f is, and in one that
\* f does not read in both ways.
LEMMA WideUnate ==
    ASSUME NEW c, NEW f, IsSingle(c, f), NEW x \in c.ins
    PROVE  /\ PosUnateIn(Wide(c), x) <=> x \notin f.ins \/ PosUnateIn(f, x)
           /\ NegUnateIn(Wide(c), x) <=> x \notin f.ins \/ NegUnateIn(f, x)
<1> DEFINE w == Wide(c)
           Out(vec) == EvalOutput(f, vec \cap f.ins)
<1>1. f.ins \in SUBSET c.ins /\ w.ins = c.ins
  BY WideEvaluates DEF IsSingle, IsDesign
<1>2. \A vec \in SUBSET c.ins : EvalOutput(w, vec) <=> Out(vec)
  BY WideEvaluates
<1>3. \A vec \in SUBSET (c.ins \ {x}) : vec \in SUBSET c.ins /\ vec \cup {x} \in SUBSET c.ins
  OBVIOUS
<1> HIDE DEF w
<1>4. /\ PosUnateIn(w, x) <=> \A vec \in SUBSET (c.ins \ {x}) : Out(vec) => Out(vec \cup {x})
      /\ NegUnateIn(w, x) <=> \A vec \in SUBSET (c.ins \ {x}) : Out(vec \cup {x}) => Out(vec)
  BY <1>1, <1>2, <1>3 DEF PosUnateIn, NegUnateIn
<1>5. CASE x \notin f.ins
  <2>1. \A vec : (vec \cup {x}) \cap f.ins = vec \cap f.ins
    BY <1>5
  <2> QED
    BY <1>4, <1>5, <2>1 DEF w
<1>6. CASE x \in f.ins
  <2>1. ASSUME NEW vec \in SUBSET (f.ins \ {x})
        PROVE  /\ vec \in SUBSET (c.ins \ {x})
               /\ Out(vec) <=> EvalOutput(f, vec)
               /\ Out(vec \cup {x}) <=> EvalOutput(f, vec \cup {x})
    <3>1. vec \cap f.ins = vec /\ (vec \cup {x}) \cap f.ins = vec \cup {x}
      BY <1>6
    <3> QED
      BY <1>1, <3>1
  <2>2. ASSUME NEW vec \in SUBSET (c.ins \ {x})
        PROVE  /\ vec \cap f.ins \in SUBSET (f.ins \ {x})
               /\ Out(vec) <=> EvalOutput(f, vec \cap f.ins)
               /\ Out(vec \cup {x}) <=> EvalOutput(f, (vec \cap f.ins) \cup {x})
    <3>1. (vec \cup {x}) \cap f.ins = (vec \cap f.ins) \cup {x}
      BY <1>6
    <3> QED
      BY <3>1
  <2> HIDE DEF Out
  <2>3. /\ (\A vec \in SUBSET (c.ins \ {x}) : Out(vec) => Out(vec \cup {x})) <=> PosUnateIn(f, x)
        /\ (\A vec \in SUBSET (c.ins \ {x}) : Out(vec \cup {x}) => Out(vec)) <=> NegUnateIn(f, x)
    BY <2>1, <2>2 DEF PosUnateIn, NegUnateIn
  <2> QED
    BY <1>4, <1>6, <2>3 DEF w
<1> QED
  BY <1>5, <1>6

\* Two sequences of one value make a pair.
LEMMA PairOf ==
    ASSUME NEW S, NEW a \in S, NEW b \in S
    PROVE  <<a>> \o <<b>> = <<a, b>>
<1> DEFINE s == <<a>> \o <<b>>
<1>1. <<a>> \in Seq(S) /\ <<b>> \in Seq(S) /\ Len(<<a>>) = 1 /\ Len(<<b>>) = 1
  OBVIOUS
<1>2. s \in Seq(S) /\ Len(s) = 2 /\ s[1] = a /\ s[2] = b
  BY <1>1
<1> HIDE DEF s
<1>3. s = <<a, b>>
  BY <1>2
<1> QED
  BY <1>3 DEF s

\* The question to the checker about a circuit of one output is answered as the
\* wide function is unate.
LEMMA ConfirmedIsUnate ==
    ASSUME NEW c, NEW f, IsSingle(c, f), NEW x \in c.ins
    PROVE  /\ ConfirmedBy(c, x, PosUnate) <=> PosUnateIn(Wide(c), x)
           /\ ConfirmedBy(c, x, NegUnate) <=> NegUnateIn(Wide(c), x)
<1> DEFINE Out(vec) == EvalOutput(f, vec \cap f.ins)
<1>1. DOMAIN c.outs = {1} /\ c.outs[1] = f
  BY DEF IsSingle, IsDesign
<1>2. ASSUME NEW vec, NEW value \in BOOLEAN, NEW inverted \in BOOLEAN
      PROVE  CopyOutputs(c, vec, x, value, inverted) =
                <<LET out == Out(IF value THEN vec \cup {x} ELSE vec \ {x})
                  IN  IF inverted THEN ~out ELSE out>>
  <2> DEFINE out == Out(IF value THEN vec \cup {x} ELSE vec \ {x})
             copy == CopyOutputs(c, vec, x, value, inverted)
  <2>1. copy = [n \in {1} |-> IF n = 1 /\ inverted THEN ~EvalOutput(c.outs[n], (IF value THEN vec \cup {x} ELSE vec \ {x}) \cap c.outs[n].ins) ELSE EvalOutput(c.outs[n], (IF value THEN vec \cup {x} ELSE vec \ {x}) \cap c.outs[n].ins)]
    BY <1>1 DEF CopyOutputs
  <2>2. copy = [n \in {1} |-> IF inverted THEN ~out ELSE out]
    BY <1>1, <2>1
  <2>3. {1} = 1..1
    OBVIOUS
  <2> QED
    BY <2>2, <2>3
<1>3. \A a, b \in BOOLEAN : FALSE \in ToSet(<<a>> \o <<b>>) <=> ~(a /\ b)
  <2> SUFFICES ASSUME NEW a \in BOOLEAN, NEW b \in BOOLEAN
               PROVE  FALSE \in ToSet(<<a>> \o <<b>>) <=> ~(a /\ b)
    OBVIOUS
  <2>1. <<a>> \o <<b>> = <<a, b>>
    BY PairOf
  <2>2. ToSet(<<a, b>>) = {a, b}
    BY DEF ToSet
  <2> QED
    BY <2>1, <2>2
<1>4. \A vec : Out(vec) \in BOOLEAN
  BY DEF EvalOutput
<1>5. \A vec \in SUBSET (c.ins \ {x}) : vec \ {x} = vec
  OBVIOUS
<1> HIDE DEF Out
<1>6. ASSUME NEW vec \in SUBSET (c.ins \ {x})
      PROVE  /\ FALSE \in ToSet(CopyOutputs(c, vec, x, FALSE, FALSE)
                                \o CopyOutputs(c, vec, x, TRUE, TRUE))
                <=> (Out(vec) => Out(vec \cup {x}))
             /\ FALSE \in ToSet(CopyOutputs(c, vec, x, FALSE, TRUE)
                                \o CopyOutputs(c, vec, x, TRUE, FALSE))
                <=> (Out(vec \cup {x}) => Out(vec))
  <2>0. vec \ {x} = vec
    BY <1>5
  <2>1. /\ CopyOutputs(c, vec, x, FALSE, FALSE) = <<Out(vec)>>
        /\ CopyOutputs(c, vec, x, FALSE, TRUE) = <<~Out(vec)>>
        /\ CopyOutputs(c, vec, x, TRUE, FALSE) = <<Out(vec \cup {x})>>
        /\ CopyOutputs(c, vec, x, TRUE, TRUE) = <<~Out(vec \cup {x})>>
    <3>1. CopyOutputs(c, vec, x, FALSE, FALSE) = <<Out(vec)>>
      BY <1>2, <2>0
    <3>2. CopyOutputs(c, vec, x, FALSE, TRUE) = <<~Out(vec)>>
      BY <1>2, <2>0
    <3>3. CopyOutputs(c, vec, x, TRUE, FALSE) = <<Out(vec \cup {x})>>
      BY <1>2
    <3>4. CopyOutputs(c, vec, x, TRUE, TRUE) = <<~Out(vec \cup {x})>>
      BY <1>2
    <3> QED
      BY <3>1, <3>2, <3>3, <3>4
  <2>2. Out(vec) \in BOOLEAN /\ Out(vec \cup {x}) \in BOOLEAN
    BY <1>4
  <2> QED
    BY <1>3, <2>1, <2>2
<1>7. /\ (PosUnate = NegUnate) = FALSE /\ (PosUnate = PosUnate) = TRUE
      /\ (NegUnate = PosUnate) = FALSE /\ (NegUnate = NegUnate) = TRUE
  BY DEF PosUnate, NegUnate
<1>8. /\ ConfirmedBy(c, x, PosUnate) <=>
             \A vec \in SUBSET (c.ins \ {x}) : Out(vec) => Out(vec \cup {x})
      /\ ConfirmedBy(c, x, NegUnate) <=>
             \A vec \in SUBSET (c.ins \ {x}) : Out(vec \cup {x}) => Out(vec)
  BY <1>6, <1>7 DEF ConfirmedBy
<1>9. /\ PosUnateIn(Wide(c), x) <=>
             \A vec \in SUBSET (c.ins \ {x}) : Out(vec) => Out(vec \cup {x})
      /\ NegUnateIn(Wide(c), x) <=>
             \A vec \in SUBSET (c.ins \ {x}) : Out(vec \cup {x}) => Out(vec)
  <2>1. \A vec \in SUBSET (c.ins \ {x}) : vec \in SUBSET c.ins /\ vec \cup {x} \in SUBSET c.ins
    OBVIOUS
  <2> QED
    BY <2>1, WideEvaluates DEF PosUnateIn, NegUnateIn, Out
<1> QED
  BY <1>8, <1>9

\* The simulator finds the properties of an input exactly, whatever the vectors.
LEMMA PropertiesExact ==
    ASSUME NEW c, NEW f, IsSingle(c, f), NEW props \in Simulations(c), NEW x \in c.ins
    PROVE  /\ PosUnate \in props[x] <=> x \notin f.ins \/ PosUnateIn(f, x)
           /\ NegUnate \in props[x] <=> x \notin f.ins \/ NegUnateIn(f, x)
<1> DEFINE w == Wide(c)
           has == {p \in {PosUnate, NegUnate} :
                      IF p = PosUnate THEN PosUnateIn(w, x) ELSE NegUnateIn(w, x)}
<1>1. props[x] \in InputProperties(c, x)
  BY DEF Simulations
<1>2. Unrefuted(c, x) = {P \in SUBSET {PosUnate, NegUnate} : has \subseteq P}
  BY DEF Unrefuted, Wide
<1>3. PICK P \in Unrefuted(c, x) :
         props[x] = LET left == {p \in P : ConfirmedBy(c, x, p)}
                    IN  IF left = {} THEN {Binate} ELSE left
  BY <1>1 DEF InputProperties
<1> DEFINE left == {p \in P : ConfirmedBy(c, x, p)}
<1>4. props[x] = IF left = {} THEN {Binate} ELSE left
  BY <1>3
<1>5. Binate # PosUnate /\ Binate # NegUnate /\ PosUnate # NegUnate
  BY DEF Binate, PosUnate, NegUnate
<1>6. /\ PosUnate \in left <=> PosUnateIn(w, x)
      /\ NegUnate \in left <=> NegUnateIn(w, x)
  <2>1. PosUnateIn(w, x) => PosUnate \in P
    BY <1>2
  <2>2. NegUnateIn(w, x) => NegUnate \in P
    BY <1>2, <1>5
  <2> QED
    BY <2>1, <2>2, ConfirmedIsUnate
<1>7. /\ PosUnate \in props[x] <=> PosUnateIn(w, x)
      /\ NegUnate \in props[x] <=> NegUnateIn(w, x)
  <2> HIDE DEF left
  <2> QED
    BY <1>4, <1>5, <1>6
<1> QED
  BY <1>7, WideUnate

-------------------------------------------------------------------------------
(***************************************************************************)
(* The clusters of inputs that splitByUnateness makes.                     *)
(***************************************************************************)
\* Inputs that f reads, by their unateness.
Reading(f, n) ==
    {x \in f.ins :
        CASE n = 1 -> PosUnateIn(f, x) /\ ~NegUnateIn(f, x)
          [] n = 2 -> ~PosUnateIn(f, x) /\ NegUnateIn(f, x)
          [] n = 3 -> ~PosUnateIn(f, x) /\ ~NegUnateIn(f, x)
          [] n = 4 -> PosUnateIn(f, x) /\ NegUnateIn(f, x)}

\* The inputs that f does not read are in the last cluster.
LEMMA ClusterReads ==
    ASSUME NEW c, NEW f, IsSingle(c, f), NEW props \in Simulations(c), NEW n \in 1..4
    PROVE  UnatenessClusters(props)[n] =
               Reading(f, n) \cup (IF n = 4 THEN c.ins \ f.ins ELSE {})
<1>1. DOMAIN props = c.ins /\ f.ins \subseteq c.ins
  BY DEF Simulations, IsSingle, IsDesign
<1>2. \A x \in c.ins :
         /\ PosUnate \in props[x] <=> x \notin f.ins \/ PosUnateIn(f, x)
         /\ NegUnate \in props[x] <=> x \notin f.ins \/ NegUnateIn(f, x)
  BY PropertiesExact
<1>3. UnatenessClusters(props)[n] =
        {x \in c.ins :
            CASE n = 1 -> PosUnate \in props[x] /\ NegUnate \notin props[x]
              [] n = 2 -> PosUnate \notin props[x] /\ NegUnate \in props[x]
              [] n = 3 -> PosUnate \notin props[x] /\ NegUnate \notin props[x]
              [] n = 4 -> PosUnate \in props[x] /\ NegUnate \in props[x]}
  BY <1>1 DEF UnatenessClusters
<1>4. n = 1 \/ n = 2 \/ n = 3 \/ n = 4
  OBVIOUS
<1>5. CASE n = 1
  BY <1>1, <1>2, <1>3, <1>5 DEF Reading
<1>6. CASE n = 2
  BY <1>1, <1>2, <1>3, <1>6 DEF Reading
<1>7. CASE n = 3
  BY <1>1, <1>2, <1>3, <1>7 DEF Reading
<1>8. CASE n = 4
  BY <1>1, <1>2, <1>3, <1>8 DEF Reading
<1> QED
  BY <1>4, <1>5, <1>6, <1>7, <1>8

\* A renaming under which two functions are equal keeps the clusters.
LEMMA ReadingRenamed ==
    ASSUME NEW f, NEW g, NEW r, IsMatch(f, g, r), NEW n \in 1..4
    PROVE  Image(r, Reading(f, n)) = Reading(g, n)
<1>1. \A x \in f.ins : x \in Reading(f, n) <=> r[x] \in Reading(g, n)
  BY MatchUnate, MatchBijective DEF Reading
<1>2. Reading(f, n) \subseteq f.ins /\ Reading(g, n) \subseteq g.ins
  BY DEF Reading
<1> HIDE DEF Reading
<1> QED
  BY <1>1, <1>2, MatchBijective DEF Image
-------------------------------------------------------------------------------
(***************************************************************************)
(* The invariant of validateMatching: signatures are those of the outputs  *)
(* they are filed for, and no pair is judged before all are signed.        *)
(***************************************************************************)
SignsRight ==
    \A k \in 1..2 :
        /\ signs[k] \in Seq([support : SUBSET Names, properties : Simulations(cirs[k])])
        /\ Len(signs[k]) <= Len(cirs[k].outs)
        /\ \A n \in 1..Len(signs[k]) : signs[k][n].support = cirs[k].outs[n].ins

MatchingRight ==
    /\ DOMAIN matching \subseteq DOMAIN cirs[1].outs
    /\ \A po \in DOMAIN matching : matching[po] \in DOMAIN cirs[2].outs

VerdictsRight ==
    /\ verdicts[1] \subseteq DOMAIN matching /\ verdicts[2] \subseteq DOMAIN matching
    /\ verdicts[1] \cup verdicts[2] # {} => Signed(1) /\ Signed(2)
    /\ \A po \in verdicts[2] : ~CheckOf(po).valid

ValidatorInv ==
    /\ cirs \in Circuits
    /\ DOMAIN signs = 1..2 /\ DOMAIN verdicts = 1..2
    /\ SignsRight /\ MatchingRight /\ VerdictsRight

\* Nothing is signed or judged at first.
LEMMA ValidatorInvInit == ValidatorInit => ValidatorInv
<1> SUFFICES ASSUME ValidatorInit
             PROVE  ValidatorInv
  OBVIOUS
<1>1. cirs \in Circuits /\ signs = <<<<>>, <<>>>> /\ verdicts = <<{}, {}>>
  BY DEF ValidatorInit
<1>2. /\ DOMAIN signs = 1..2 /\ DOMAIN verdicts = 1..2
      /\ \A k \in 1..2 : signs[k] = <<>> /\ verdicts[k] = {}
  BY <1>1
<1>3. SignsRight
  <2>1. \A k \in 1..2 : Len(cirs[k].outs) \in Nat
    BY <1>1, CircuitsAssumption
  <2>2. ASSUME NEW k \in 1..2
        PROVE  /\ signs[k] \in Seq([support : SUBSET Names, properties : Simulations(cirs[k])])
               /\ Len(signs[k]) = 0
    <3>1. \A S : <<>> \in Seq(S)
      OBVIOUS
    <3>2. signs[k] = <<>> /\ Len(<<>>) = 0
      BY <1>2
    <3> QED
      BY <3>1, <3>2
  <2>3. ASSUME NEW k \in 1..2, NEW n \in 1..Len(signs[k])
        PROVE  signs[k][n].support = cirs[k].outs[n].ins
    BY <2>2
  <2> QED
    BY <2>1, <2>2, <2>3 DEF SignsRight
<1>4. MatchingRight
  <2>1. PICK S \in SUBSET DOMAIN cirs[1].outs : matching \in Injection(S, DOMAIN cirs[2].outs)
    BY DEF ValidatorInit
  <2>2. matching \in [S -> DOMAIN cirs[2].outs]
    BY <2>1 DEF Injection
  <2> QED
    BY <2>2 DEF MatchingRight
<1>5. VerdictsRight
  BY <1>2 DEF VerdictsRight
<1> QED
  BY <1>1, <1>2, <1>3, <1>4, <1>5 DEF ValidatorInv

\* A new signature is that of the next output.
LEMMA SignKeeps ==
    ASSUME ValidatorInv, NEW k \in 1..2, Sign(k)
    PROVE  ValidatorInv'
<1>1. PICK props \in Simulations(cirs[k]) :
         signs' = [signs EXCEPT ![k] = Append(@,
                      [support    |-> cirs[k].outs[Len(@) + 1].ins,
                       properties |-> props])]
  BY DEF Sign
<1> DEFINE sign == [support |-> cirs[k].outs[Len(signs[k]) + 1].ins, properties |-> props]
           Signature(j) == [support : SUBSET Names, properties : Simulations(cirs[j])]
<1>2. UNCHANGED <<cirs, matching, verdicts>> /\ ~Signed(k)
  BY DEF Sign
<1>3. DOMAIN signs = 1..2 /\ SignsRight
  BY DEF ValidatorInv
<1>4. /\ DOMAIN signs' = 1..2
      /\ signs'[k] = Append(signs[k], sign)
      /\ \A j \in 1..2 : j # k => signs'[j] = signs[j]
  BY <1>1, <1>3
<1>5. /\ Len(cirs[k].outs) \in Nat /\ DOMAIN cirs[k].outs = 1..Len(cirs[k].outs)
      /\ \A n \in DOMAIN cirs[k].outs : cirs[k].outs[n].ins \in SUBSET Names
  BY CircuitsAssumption DEF ValidatorInv, IsCone
<1>6. signs[k] \in Seq(Signature(k)) /\ Len(signs[k]) <= Len(cirs[k].outs)
  BY <1>3 DEF SignsRight
<1>7. Len(signs[k]) \in Nat /\ Len(signs[k]) + 1 \in 1..Len(cirs[k].outs)
  BY <1>2, <1>5, <1>6 DEF Signed
<1>8. sign \in Signature(k) /\ sign.support = cirs[k].outs[Len(signs[k]) + 1].ins
  BY <1>5, <1>7
<1> HIDE DEF sign, Signature
<1>9. /\ signs'[k] \in Seq(Signature(k))
      /\ Len(signs'[k]) = Len(signs[k]) + 1
      /\ \A n \in 1..Len(signs[k]) : signs'[k][n] = signs[k][n]
      /\ signs'[k][Len(signs[k]) + 1] = sign
  BY <1>4, <1>6, <1>8
<1>10. \A n \in 1..Len(signs'[k]) : signs'[k][n].support = cirs[k].outs[n].ins
  <2> SUFFICES ASSUME NEW n \in 1..Len(signs'[k])
               PROVE  signs'[k][n].support = cirs[k].outs[n].ins
    OBVIOUS
  <2>1. CASE n \in 1..Len(signs[k])
    BY <1>3, <1>9, <2>1 DEF SignsRight
  <2>2. CASE n = Len(signs[k]) + 1
    BY <1>8, <1>9, <2>2
  <2> QED
    BY <1>7, <1>9, <2>1, <2>2
<1>11. SignsRight'
  <2> SUFFICES ASSUME NEW j \in 1..2
               PROVE  /\ signs'[j] \in Seq(Signature(j))
                      /\ Len(signs'[j]) <= Len(cirs[j].outs)
                      /\ \A n \in 1..Len(signs'[j]) : signs'[j][n].support = cirs[j].outs[n].ins
    BY <1>2 DEF SignsRight, Signature
  <2>1. CASE j = k
    BY <1>5, <1>7, <1>9, <1>10, <2>1
  <2>2. CASE j # k
    BY <1>3, <1>4, <2>2 DEF SignsRight, Signature
  <2> QED
    BY <2>1, <2>2
<1>12. MatchingRight'
  BY <1>2 DEF ValidatorInv, MatchingRight
<1>13. VerdictsRight'
  <2>1. verdicts[1] = {} /\ verdicts[2] = {}
    BY <1>2 DEF ValidatorInv, VerdictsRight
  <2> QED
    BY <1>2, <2>1 DEF VerdictsRight
<1> QED
  BY <1>2, <1>4, <1>11, <1>12, <1>13 DEF ValidatorInv

\* A pair is judged by the signatures of both of its outputs.
LEMMA ValidateKeeps ==
    ASSUME ValidatorInv, Validate
    PROVE  ValidatorInv'
<1>1. PICK po \in DOMAIN matching :
         verdicts' = IF CheckOf(po).valid THEN [verdicts EXCEPT ![1] = @ \cup {po}]
                     ELSE [verdicts EXCEPT ![2] = @ \cup {po}]
  BY DEF Validate
<1>2. UNCHANGED <<cirs, matching, signs>> /\ Signed(1) /\ Signed(2)
  BY DEF Validate
<1>3. DOMAIN verdicts = 1..2 /\ 1 \in 1..2 /\ 2 \in 1..2
  BY DEF ValidatorInv
<1>4. /\ DOMAIN verdicts' = 1..2
      /\ verdicts'[1] = IF CheckOf(po).valid THEN verdicts[1] \cup {po} ELSE verdicts[1]
      /\ verdicts'[2] = IF CheckOf(po).valid THEN verdicts[2] ELSE verdicts[2] \cup {po}
  BY <1>1, <1>3
<1>5. VerdictsRight'
  <2>1. \A q : CheckOf(q)' = CheckOf(q)
    BY <1>2 DEF CheckOf
  <2>2. /\ verdicts[1] \subseteq DOMAIN matching /\ verdicts[2] \subseteq DOMAIN matching
        /\ \A q \in verdicts[2] : ~CheckOf(q).valid
    BY DEF ValidatorInv, VerdictsRight
  <2>3. verdicts'[1] \subseteq DOMAIN matching /\ verdicts'[2] \subseteq DOMAIN matching
    BY <1>4, <2>2
  <2>4. \A q \in verdicts'[2] : ~CheckOf(q).valid
    BY <1>4, <2>2
  <2> QED
    BY <1>2, <2>1, <2>3, <2>4 DEF VerdictsRight, Signed
<1> QED
  BY <1>2, <1>4, <1>5 DEF ValidatorInv, SignsRight, MatchingRight

\* The invariant holds in every state of validateMatching.
THEOREM ValidatorInvariance == ValidatorSpec => []ValidatorInv
<1>1. ValidatorInit => ValidatorInv
  BY ValidatorInvInit
<1>2. ValidatorInv /\ [ValidatorNext]_validatorVars => ValidatorInv'
  <2> SUFFICES ASSUME ValidatorInv, [ValidatorNext]_validatorVars
               PROVE  ValidatorInv'
    OBVIOUS
  <2>1. CASE UNCHANGED validatorVars
    BY <2>1 DEF validatorVars, ValidatorInv, SignsRight, MatchingRight, VerdictsRight,
                Signed, CheckOf
  <2>2. CASE ValidatorNext
    BY <2>2, SignKeeps, ValidateKeeps DEF ValidatorNext
  <2> QED
    BY <2>1, <2>2
<1> QED
  BY <1>1, <1>2, PTL DEF ValidatorSpec

-------------------------------------------------------------------------------
(***************************************************************************)
(* Circuits of one output each are judged right.  (The simulator answers   *)
(* for the first output of a circuit and the miters join all of them, so   *)
(* that for others a signature says little of its output.)                 *)
(***************************************************************************)
Singles == \A k \in 1..2 : Len(cirs[k].outs) = 1

\* What a judged pair is: both of its outputs, and their signatures.
JudgedPair(po, props1, props2) ==
    /\ IsSingle(cirs[1], F(po)) /\ IsSingle(cirs[2], G(po))
    /\ props1 \in Simulations(cirs[1]) /\ props2 \in Simulations(cirs[2])
    /\ signs[1][po] = [support |-> F(po).ins, properties |-> props1]
    /\ signs[2][matching[po]] = [support |-> G(po).ins, properties |-> props2]

\* A pair with a verdict has been signed.
LEMMA JudgedIsSigned ==
    ASSUME ValidatorInv, Singles, NEW po \in verdicts[1] \cup verdicts[2]
    PROVE  \E props1, props2 : JudgedPair(po, props1, props2)
<1>1. \A k \in 1..2 : IsDesign(cirs[k]) /\ DOMAIN cirs[k].outs = {1}
  BY CircuitsAssumption DEF ValidatorInv, IsDesign, Singles
<1>2. po = 1 /\ matching[po] = 1
  BY <1>1 DEF ValidatorInv, VerdictsRight, MatchingRight
<1>3. \A k \in 1..2 : Len(signs[k]) = 1
  <2>1. Signed(1) /\ Signed(2)
    BY DEF ValidatorInv, VerdictsRight
  <2>2. Len(cirs[1].outs) = 1 /\ Len(cirs[2].outs) = 1
    BY DEF Singles
  <2>3. Len(signs[1]) = 1 /\ Len(signs[2]) = 1
    BY <2>1, <2>2 DEF Signed
  <2> QED
    BY <2>3
<1>4. \A k \in 1..2 :
         /\ signs[k][1] \in [support : SUBSET Names, properties : Simulations(cirs[k])]
         /\ signs[k][1].support = cirs[k].outs[1].ins
  <2> SUFFICES ASSUME NEW k \in 1..2
               PROVE  /\ signs[k][1] \in [support : SUBSET Names, properties : Simulations(cirs[k])]
                      /\ signs[k][1].support = cirs[k].outs[1].ins
    OBVIOUS
  <2> DEFINE S == [support : SUBSET Names, properties : Simulations(cirs[k])]
  <2>1. signs[k] \in Seq(S) /\ \A n \in 1..Len(signs[k]) : signs[k][n].support = cirs[k].outs[n].ins
    BY DEF ValidatorInv, SignsRight
  <2> HIDE DEF S
  <2>2. Len(signs[k]) = 1
    BY <1>3
  <2>3. signs[k][1] \in S /\ signs[k][1].support = cirs[k].outs[1].ins
    BY <2>1, <2>2
  <2> QED
    BY <2>3 DEF S
<1>5. \A k \in 1..2 :
         /\ signs[k][1].properties \in Simulations(cirs[k])
         /\ signs[k][1] = [support |-> cirs[k].outs[1].ins, properties |-> signs[k][1].properties]
  BY <1>4
<1>6. \A k \in 1..2 : IsSingle(cirs[k], cirs[k].outs[1])
  BY <1>1 DEF IsSingle, Singles
<1>7. JudgedPair(po, signs[1][1].properties, signs[2][1].properties)
  BY <1>2, <1>5, <1>6 DEF JudgedPair, F, G
<1> QED
  BY <1>7

\* The two cones of a judged pair that match.
LEMMA JudgedMatch ==
    ASSUME NEW po, NEW props1, NEW props2, JudgedPair(po, props1, props2),
           NEW r \in InputMatches(F(po), G(po))
    PROVE  IsMatch(F(po), G(po), r) /\ IsFiniteSet(cirs[1].ins) /\ IsFiniteSet(cirs[2].ins)
           /\ F(po).ins \subseteq cirs[1].ins /\ G(po).ins \subseteq cirs[2].ins
BY DEF JudgedPair, IsSingle, IsDesign, IsCone, IsMatch

\* The clusters of a judged pair are renamed to each other.
LEMMA JudgedKept ==
    ASSUME NEW po, NEW props1, NEW props2, JudgedPair(po, props1, props2),
           NEW r \in InputMatches(F(po), G(po)), NEW n \in 1..4
    PROVE  LET clusters == CheckOf(po).inputMatching[n]
           IN  Image(r, clusters[1] \cap F(po).ins) = clusters[2] \cap G(po).ins
<1> DEFINE f == F(po)
           g == G(po)
           clusters == CheckOf(po).inputMatching[n]
<1>1. CheckOf(po).inputMatching[n] = <<UnatenessClusters(props1)[n], UnatenessClusters(props2)[n]>>
  BY DEF CheckOf, CheckMatch, JudgedPair
<1>2. /\ UnatenessClusters(props1)[n] =
             Reading(f, n) \cup (IF n = 4 THEN cirs[1].ins \ f.ins ELSE {})
      /\ UnatenessClusters(props2)[n] =
             Reading(g, n) \cup (IF n = 4 THEN cirs[2].ins \ g.ins ELSE {})
  BY ClusterReads DEF JudgedPair
<1>3. Reading(f, n) \subseteq f.ins /\ Reading(g, n) \subseteq g.ins
  BY DEF Reading
<1> HIDE DEF f, g
<1>4. clusters[1] \cap f.ins = Reading(f, n) /\ clusters[2] \cap g.ins = Reading(g, n)
  BY <1>1, <1>2, <1>3
<1>5. Image(r, Reading(f, n)) = Reading(g, n)
  BY JudgedMatch, ReadingRenamed DEF f, g
<1> QED
  BY <1>4, <1>5 DEF f, g

\* Two disjoint finite sets.
LEMMA SumOfParts ==
    ASSUME NEW A, NEW B, IsFiniteSet(A), IsFiniteSet(B), A \cap B = {}
    PROVE  Cardinality(A \cup B) = Cardinality(A) + Cardinality(B)
<1>1. Cardinality(A \cap B) = 0
  BY FS_EmptySet
<1>2. Cardinality(A) \in Nat /\ Cardinality(B) \in Nat
  BY FS_CardinalityType
<1>3. Cardinality(A \cup B) = Cardinality(A) + Cardinality(B) - Cardinality(A \cap B)
  BY FS_Union
<1> QED
  BY <1>1, <1>2, <1>3

\* When outputs are equal under a renaming, their signatures have one size.
LEMMA JudgedValid ==
    ASSUME NEW po, NEW props1, NEW props2, JudgedPair(po, props1, props2),
           NEW r \in InputMatches(F(po), G(po)), AsManyUnread(po)
    PROVE  CheckOf(po).valid
<1> DEFINE f == F(po)
           g == G(po)
           unread1 == cirs[1].ins \ f.ins
           unread2 == cirs[2].ins \ g.ins
<1>1. /\ IsMatch(f, g, r) /\ IsFiniteSet(cirs[1].ins) /\ IsFiniteSet(cirs[2].ins)
      /\ f.ins \subseteq cirs[1].ins /\ g.ins \subseteq cirs[2].ins
  BY JudgedMatch
<1>2. /\ IsFiniteSet(f.ins) /\ IsFiniteSet(g.ins)
      /\ IsFiniteSet(unread1) /\ IsFiniteSet(unread2)
  BY <1>1, FS_Subset
<1>3. Cardinality(unread1) = Cardinality(unread2)
  BY DEF AsManyUnread
<1>4. ASSUME NEW n \in 1..4
      PROVE  /\ UnatenessClusters(props1)[n] =
                    Reading(f, n) \cup (IF n = 4 THEN unread1 ELSE {})
             /\ UnatenessClusters(props2)[n] =
                    Reading(g, n) \cup (IF n = 4 THEN unread2 ELSE {})
  BY ClusterReads DEF JudgedPair
<1>5. CheckOf(po).valid = SizesAgree(signs[1][po], signs[2][matching[po]])
  BY DEF CheckOf, CheckMatch
<1>6. /\ signs[1][po] = [support |-> f.ins, properties |-> props1]
      /\ signs[2][matching[po]] = [support |-> g.ins, properties |-> props2]
  BY DEF JudgedPair
<1> HIDE DEF f, g, unread1, unread2
<1>7. Cardinality(f.ins) = Cardinality(g.ins)
  BY <1>1, <1>2, ImageProperties, MatchCardinality
<1>8. ASSUME NEW n \in 1..4
      PROVE  Cardinality(UnatenessClusters(props1)[n]) = Cardinality(UnatenessClusters(props2)[n])
  <2>1. Reading(f, n) \in SUBSET f.ins /\ Reading(g, n) \in SUBSET g.ins
    BY DEF Reading
  <2>2. IsFiniteSet(Reading(f, n)) /\ IsFiniteSet(Reading(g, n))
    BY <1>2, <2>1, FS_Subset
  <2>3. Cardinality(Reading(f, n)) = Cardinality(Reading(g, n))
    BY <1>1, <1>2, <2>1, ReadingRenamed, MatchCardinality
  <2>4. CASE n = 4
    <3>1. Reading(f, n) \cap unread1 = {} /\ Reading(g, n) \cap unread2 = {}
      BY <2>1 DEF unread1, unread2
    <3>2. /\ Cardinality(Reading(f, n) \cup unread1) = Cardinality(Reading(f, n)) + Cardinality(unread1)
          /\ Cardinality(Reading(g, n) \cup unread2) = Cardinality(Reading(g, n)) + Cardinality(unread2)
      BY <1>2, <2>2, <3>1, SumOfParts
    <3> QED
      BY <1>3, <1>4, <2>3, <2>4, <3>2
  <2>5. CASE n # 4
    BY <1>4, <2>3, <2>5
  <2> QED
    BY <2>4, <2>5
<1>9. SizesAgree(signs[1][po], signs[2][matching[po]])
  BY <1>6, <1>7, <1>8 DEF SizesAgree
<1> QED
  BY <1>5, <1>9

\* Whatever vectors the simulator draws, validateMatching finds no pair of
\* outputs invalid that are equal under a renaming of inputs, when each circuit
\* has one output and as many inputs that it does not read.
THEOREM EquivalentPairsStayValid == ValidatorSpec => [](Singles => EquivalentStayValid)
<1>1. ValidatorInv => (Singles => EquivalentStayValid)
  <2> SUFFICES ASSUME ValidatorInv, Singles, NEW po \in verdicts[2], AsManyUnread(po),
                      NEW r \in InputMatches(F(po), G(po))
               PROVE  FALSE
    BY DEF EquivalentStayValid
  <2>1. PICK props1, props2 : JudgedPair(po, props1, props2)
    BY JudgedIsSigned
  <2>2. CheckOf(po).valid
    BY <2>1, JudgedValid
  <2> QED
    BY <2>2 DEF ValidatorInv, VerdictsRight
<1> QED
  BY <1>1, ValidatorInvariance, PTL

\* The clusters of inputs that checkMatch pairs for a valid match contain every
\* renaming under which the outputs are equal: none of the connections it still
\* allows is lost.
THEOREM RenamingsStayInClusters == ValidatorSpec => [](Singles => RenamingsKept)
<1>1. ValidatorInv => (Singles => RenamingsKept)
  <2> SUFFICES ASSUME ValidatorInv, Singles, NEW po \in verdicts[1], NEW n \in 1..4,
                      NEW r \in InputMatches(F(po), G(po))
               PROVE  LET clusters == CheckOf(po).inputMatching[n]
                      IN  Image(r, clusters[1] \cap F(po).ins) = clusters[2] \cap G(po).ins
    BY DEF RenamingsKept
  <2>1. PICK props1, props2 : JudgedPair(po, props1, props2)
    BY JudgedIsSigned
  <2> QED
    BY <2>1, JudgedKept
<1> QED
  BY <1>1, ValidatorInvariance, PTL

-------------------------------------------------------------------------------
(***************************************************************************)
(* partitionType1 and partitionType2.                                      *)
(***************************************************************************)
\* new covers X and keeps the order of part.
Covers(new, part, X) == IsOrderedPartition(new, X) /\ Refines(new, part)

\* The inputs of the clusters before the k-th.
InputsBefore(part, k) == UNION {part[j] : j \in 1..(k - 1)}

\* The sets of one cluster come after those of the clusters before it.
LEMMA AppendCovers ==
    ASSUME NEW T, NEW part \in Seq(T), NEW X, IsOrderedPartition(part, X),
           NEW k \in DOMAIN part,
           NEW U, NEW new \in Seq(U), Covers(new, part, InputsBefore(part, k)),
           NEW sets \in Seq(U), IsOrderedPartition(sets, part[k])
    PROVE  Covers(new \o sets, part, InputsBefore(part, k + 1))
<1> DEFINE all == new \o sets
           l == Len(new)
<1>1. /\ l \in Nat /\ DOMAIN new = 1..l
      /\ Len(sets) \in Nat /\ DOMAIN sets = 1..Len(sets)
      /\ DOMAIN part = 1..Len(part) /\ Len(part) \in Nat
  OBVIOUS
<1>2. /\ DOMAIN all = 1..(l + Len(sets))
      /\ \A n \in 1..l : all[n] = new[n]
      /\ \A n \in DOMAIN all : n > l => n - l \in DOMAIN sets /\ all[n] = sets[n - l]
  BY <1>1
<1>3. /\ \A i, j \in DOMAIN part : i # j => part[i] \cap part[j] = {}
      /\ \A i, j \in DOMAIN new : i # j => new[i] \cap new[j] = {}
      /\ \A i, j \in DOMAIN sets : i # j => sets[i] \cap sets[j] = {}
      /\ UNION {new[n] : n \in DOMAIN new} = InputsBefore(part, k)
      /\ UNION {sets[n] : n \in DOMAIN sets} = part[k]
  BY DEF Covers, IsOrderedPartition
<1>4. InputsBefore(part, k + 1) = InputsBefore(part, k) \cup part[k]
  <2>1. 1..(k + 1 - 1) = 1..(k - 1) \cup {k}
    BY <1>1
  <2> QED
    BY <2>1 DEF InputsBefore
<1>5. \A x \in InputsBefore(part, k) : \E j \in DOMAIN part : j < k /\ x \in part[j]
  BY <1>1 DEF InputsBefore
<1>6. InputsBefore(part, k) \cap part[k] = {}
  BY <1>3, <1>5
<1> HIDE DEF all, l
<1>7. ASSUME NEW n \in DOMAIN all
      PROVE  \/ n \in DOMAIN new /\ all[n] = new[n] /\ all[n] \subseteq InputsBefore(part, k)
             \/ n > l /\ n - l \in DOMAIN sets /\ all[n] = sets[n - l] /\ all[n] \subseteq part[k]
  BY <1>1, <1>2, <1>3
<1>8. IsOrderedPartition(all, InputsBefore(part, k + 1))
  <2>1. ASSUME NEW i \in DOMAIN all, NEW j \in DOMAIN all, i # j
        PROVE  all[i] \cap all[j] = {}
    <3>1. i > l /\ j > l => i - l # j - l
      BY <1>1, <1>2, <2>1
    <3> QED
      BY <1>3, <1>6, <1>7, <2>1, <3>1
  <2>2. UNION {all[n] : n \in DOMAIN all} \subseteq InputsBefore(part, k) \cup part[k]
    BY <1>7
  <2>3. \A x \in InputsBefore(part, k) : \E n \in DOMAIN all : x \in all[n]
    BY <1>1, <1>2, <1>3
  <2>4. \A x \in part[k] : \E n \in DOMAIN all : x \in all[n]
    <3> SUFFICES ASSUME NEW x \in part[k]
                 PROVE  \E n \in DOMAIN all : x \in all[n]
      OBVIOUS
    <3>1. PICK m \in DOMAIN sets : x \in sets[m]
      BY <1>3
    <3>2. m + l \in DOMAIN all /\ m + l > l /\ (m + l) - l = m
      BY <1>1, <1>2
    <3> QED
      BY <1>2, <3>1, <3>2
  <2> QED
    BY <1>4, <2>1, <2>2, <2>3, <2>4 DEF IsOrderedPartition
<1>9. Refines(all, part)
  <2>1. ASSUME NEW n \in DOMAIN all
        PROVE  \E j \in DOMAIN part : all[n] \subseteq part[j]
    BY <1>7 DEF Covers, Refines
  <2>2. ASSUME NEW m \in DOMAIN all, NEW n \in DOMAIN all, NEW i \in DOMAIN part,
               NEW j \in DOMAIN part, m < n, all[m] \cap part[i] # {}, all[n] \cap part[j] # {}
        PROVE  i <= j
    <3>1. CASE m \in DOMAIN new /\ n \in DOMAIN new
      BY <1>2, <1>1, <2>2, <3>1 DEF Covers, Refines
    <3>2. CASE m \in DOMAIN new /\ n > l
      <4>1. all[m] \subseteq InputsBefore(part, k)
        BY <1>1, <1>7, <3>2
      <4>2. i < k
        BY <1>3, <1>5, <2>2, <4>1
      <4>3. all[n] \subseteq part[k]
        BY <1>1, <1>7, <3>2
      <4>4. j = k
        BY <1>3, <2>2, <4>3
      <4> QED
        BY <1>1, <4>2, <4>4
    <3>3. CASE m > l
      <4>1. m > l /\ n > l
        BY <1>1, <1>2, <2>2, <3>3
      <4>2. all[m] \subseteq part[k] /\ all[n] \subseteq part[k]
        BY <1>1, <1>7, <4>1
      <4>3. i = k /\ j = k
        BY <1>3, <2>2, <4>2
      <4> QED
        BY <1>1, <4>3
    <3> QED
      BY <1>7, <3>1, <3>2, <3>3
  <2> QED
    BY <2>1, <2>2 DEF Refines
<1> QED
  BY <1>8, <1>9 DEF Covers, all

\* Split makes an ordered partition of the cluster it is given.
LEMMA SplitCovers ==
    ASSUME NEW vec, NEW cluster, IsFiniteSet(cluster)
    PROVE  Split(vec, cluster) \in Seq(SUBSET cluster) /\ IsOrderedPartition(Split(vec, cluster), cluster)
<1> DEFINE part == <<cluster>>
           key == <<[x \in cluster |-> Key(vec, cluster, x)]>>
           new == SplitBy(part, key)
<1>1. /\ part \in Seq(SUBSET cluster) /\ DOMAIN part = {1} /\ part[1] = cluster
      /\ \A x \in cluster : key[1][x] = Key(vec, cluster, x)
  OBVIOUS
<1>2. ASSUME NEW x \in cluster
      PROVE  Key(vec, cluster, x) \in Nat
  <2> DEFINE flipped == {y \in cluster \ {x} : EvalOutput(poCone, Flip(Flip(vec, x), y))}
  <2>1. flipped \in SUBSET cluster
    OBVIOUS
  <2>2. Cardinality(flipped) \in Nat
    BY <2>1, FS_Subset, FS_CardinalityType
  <2> QED
    BY <2>2 DEF Key
<1> HIDE DEF part, key
<1>3. IsKeyed(part, key)
  BY <1>1, <1>2 DEF IsKeyed
<1>4. IsOrderedPartition(part, cluster)
  BY <1>1 DEF IsOrderedPartition
<1>5. IsOrderedPartition(new, cluster)
  BY <1>3, <1>4, SplitByPartitions
<1>6. new \in Seq(SUBSET cluster)
  <2>1. DOMAIN new = 1..Cardinality(Slots(part, key))
    BY <1>3, SplitByClusters
  <2>2. Cardinality(Slots(part, key)) \in Nat
    BY <1>3, SlotsFinite, FS_CardinalityType DEF IsFiniteSlots
  <2>3. \A n \in DOMAIN new : new[n] \in SUBSET cluster
    BY <1>5 DEF IsOrderedPartition
  <2>4. new \in [1..Cardinality(Slots(part, key)) -> SUBSET cluster]
    BY <2>1, <2>3 DEF SplitBy
  <2> QED
    BY <2>2, <2>4, IsASeq
<1> QED
  BY <1>5, <1>6 DEF Split, part, key

\* Between iterations new_partition is whole; in one it is what the clusters
\* before the one it is at have been split into.
Shaped ==
    Len(partition) # 1 =>
        Covers(new_partition, partition,
               IF at = 0 THEN poCone.ins ELSE InputsBefore(partition, at))

PartitionInv ==
    /\ poCone \in Cones /\ partition \in Partitions[poCone.ins]
    /\ new_partition \in Seq(SUBSET poCone.ins)
    /\ at \in 0..(Len(partition) + 1)
    /\ done => at = 0
    /\ Shaped

\* What the partition that is given is.
LEMMA GivenPartition ==
    ASSUME poCone \in Cones, partition \in Partitions[poCone.ins]
    PROVE  /\ IsFiniteSet(poCone.ins)
           /\ partition \in Seq(SUBSET poCone.ins)
           /\ IsOrderedPartition(partition, poCone.ins)
BY PartitionsAssumption

\* At first the new partition is the one that is given.
LEMMA PartitionInvInit == PartitionInit => PartitionInv
<1> SUFFICES ASSUME PartitionInit
             PROVE  PartitionInv
  OBVIOUS
<1>1. /\ poCone \in Cones /\ partition \in Partitions[poCone.ins]
      /\ new_partition = partition /\ at = 0 /\ done = FALSE
  BY DEF PartitionInit
<1>2. partition \in Seq(SUBSET poCone.ins) /\ IsOrderedPartition(partition, poCone.ins)
  BY <1>1, GivenPartition
<1>3. Refines(partition, partition)
  <2>1. DOMAIN partition \subseteq Int
    BY <1>2
  <2> QED
    BY <1>2, <2>1 DEF Refines, IsOrderedPartition
<1> QED
  BY <1>1, <1>2, <1>3 DEF PartitionInv, Shaped, Covers

\* Every step keeps it.
LEMMA PartitionInvNext == PartitionInv /\ [PartitionNext]_partitionVars => PartitionInv'
<1> SUFFICES ASSUME PartitionInv, [PartitionNext]_partitionVars
             PROVE  PartitionInv'
  OBVIOUS
<1>1. /\ IsFiniteSet(poCone.ins) /\ partition \in Seq(SUBSET poCone.ins)
      /\ IsOrderedPartition(partition, poCone.ins)
      /\ Len(partition) \in Nat /\ DOMAIN partition = 1..Len(partition)
  BY GivenPartition DEF PartitionInv
<1>2. CASE UNCHANGED partitionVars
  BY <1>2 DEF partitionVars, PartitionInv, Shaped
<1>3. CASE BeginIteration
  <2>1. /\ new_partition' = <<>> /\ at' = 1 /\ UNCHANGED <<poCone, partition, done>> /\ ~done
    BY <1>3 DEF BeginIteration
  <2>2. InputsBefore(partition, 1) = {}
    BY DEF InputsBefore
  <2>3. Covers(<<>>, partition, {})
    BY DEF Covers, IsOrderedPartition, Refines
  <2>4. Shaped'
    <3>1. InputsBefore(partition', at') = {}
      BY <2>1, <2>2
    <3>2. new_partition' = <<>> /\ partition' = partition
      BY <2>1
    <3>3. Covers(new_partition', partition', InputsBefore(partition', at'))
      BY <2>3, <3>1, <3>2, Zenon
    <3>4. at' # 0
      BY <2>1
    <3> QED
      BY <3>3, <3>4 DEF Shaped
  <2>5. at' \in 0..(Len(partition) + 1) /\ <<>> \in Seq(SUBSET poCone.ins)
    BY <1>1, <2>1
  <2> QED
    BY <2>1, <2>4, <2>5 DEF PartitionInv
<1>4. CASE SplitCluster
  <2>1. PICK vec \in Vectors : new_partition' = new_partition \o Split(vec, partition[at])
    BY <1>4 DEF SplitCluster
  <2>2. /\ at \in DOMAIN partition /\ Len(partition) # 1 /\ at' = at + 1
        /\ UNCHANGED <<poCone, partition, done>>
    BY <1>4 DEF SplitCluster
  <2>3. at # 0 /\ ~done /\ at + 1 # 0 /\ at' \in 0..(Len(partition) + 1)
    BY <1>1, <2>2 DEF PartitionInv
  <2>4. Covers(new_partition, partition, InputsBefore(partition, at))
    BY <2>2, <2>3 DEF PartitionInv, Shaped
  <2>5. partition[at] \in SUBSET poCone.ins /\ IsFiniteSet(partition[at])
    BY <1>1, <2>2, FS_Subset
  <2> DEFINE sets == Split(vec, partition[at])
  <2>6. sets \in Seq(SUBSET partition[at]) /\ IsOrderedPartition(sets, partition[at])
    BY <2>5, SplitCovers
  <2> HIDE DEF sets
  <2>7. sets \in Seq(SUBSET poCone.ins)
    <3>1. SUBSET partition[at] \subseteq SUBSET poCone.ins
      BY <2>5
    <3> QED
      BY <2>6, <3>1
  <2>8. new_partition \in Seq(SUBSET poCone.ins)
    BY DEF PartitionInv
  <2>9. Covers(new_partition \o sets, partition, InputsBefore(partition, at + 1))
    BY <1>1, <2>2, <2>4, <2>6, <2>7, <2>8, AppendCovers
  <2>10. new_partition' = new_partition \o sets
    BY <2>1 DEF sets
  <2>11. new_partition' \in Seq(SUBSET poCone.ins)
    BY <2>7, <2>8, <2>10
  <2>12. Shaped'
    BY <2>2, <2>3, <2>9, <2>10 DEF Shaped
  <2> QED
    BY <2>2, <2>3, <2>11, <2>12 DEF PartitionInv
<1>5. CASE SkipCluster
  <2>1. /\ at \in DOMAIN partition /\ Len(partition) = 1 /\ at' = at + 1
        /\ UNCHANGED <<poCone, partition, new_partition, done>>
    BY <1>5 DEF SkipCluster
  <2>2. ~done /\ at' \in 0..(Len(partition) + 1)
    BY <1>1, <2>1 DEF PartitionInv
  <2> QED
    BY <2>1, <2>2 DEF PartitionInv, Shaped
<1>6. CASE EndIteration
  <2>1. /\ at = Len(partition) + 1 /\ at' = 0
        /\ UNCHANGED <<poCone, partition, new_partition, done>>
    BY <1>6 DEF EndIteration
  <2>2. InputsBefore(partition, at) = poCone.ins
    <3>1. 1..(at - 1) = DOMAIN partition
      BY <1>1, <2>1
    <3> QED
      BY <1>1, <3>1 DEF InputsBefore, IsOrderedPartition
  <2>3. at # 0 /\ at' \in 0..(Len(partition) + 1)
    BY <1>1, <2>1
  <2> QED
    BY <2>1, <2>2, <2>3 DEF PartitionInv, Shaped
<1>7. CASE ReturnPartition
  BY <1>7 DEF ReturnPartition, PartitionInv, Shaped
<1> QED
  BY <1>2, <1>3, <1>4, <1>5, <1>6, <1>7 DEF PartitionNext

\* For every cone, every ordered partition of its inputs with more than one
\* cluster and every random vector, the partition that partitionType1 or
\* partitionType2 returns has the same inputs and refines it in place.
THEOREM PartitionsRefined == PartitionSpec => []Refined
<1>1. PartitionInit => PartitionInv
  BY PartitionInvInit
<1>2. PartitionInv /\ [PartitionNext]_partitionVars => PartitionInv'
  BY PartitionInvNext
<1>3. PartitionInv => Refined
  BY DEF PartitionInv, Shaped, Covers, Refined
<1> QED
  BY <1>1, <1>2, <1>3, PTL DEF PartitionSpec

-------------------------------------------------------------------------------
(***************************************************************************)
(* sortNodes.  The gates on the stack read each other in a chain, so that  *)
(* a gate that is left has got every gate it reads in front of it, but     *)
(* for those on the stack, which depend on it.                             *)
(***************************************************************************)
\* The gates of c in which g reads d.
IsRead(c, g, d) ==
    /\ g \in DOMAIN c.gates /\ d \in DOMAIN c.gates
    /\ \E n \in DOMAIN c.gates[g].in : c.gates[d].out = c.gates[g].in[n]

\* The gate d is in every set closed under reading that begins with g.
Follows(c, g, d) ==
    \A S \in SUBSET DOMAIN c.gates :
        (\A h, e : IsRead(c, h, e) /\ h \in S \cup {g} => e \in S) => d \in S

Distinct(seq) == \A m, n \in DOMAIN seq : seq[m] = seq[n] => m = n
Has(seq, g) == \E n \in DOMAIN seq : seq[n] = g
OnStack(stk, g) == \E k \in DOMAIN stk : stk[k].node = g

Calls(c) == [node : DOMAIN c.gates, at : Nat \ {0}]

\* The calls of topsort that have not returned.
StackRight(c, stk) ==
    /\ stk \in Seq(Calls(c))
    /\ \A k, l \in DOMAIN stk : k < l =>
          stk[k].node # stk[l].node /\ Follows(c, stk[k].node, stk[l].node)

\* The inputs a call has passed have been visited.
PassedVisited(c, stk, us) ==
    \A k \in DOMAIN stk :
        \A n \in DOMAIN c.gates[stk[k].node].in, d \in DOMAIN c.gates :
            n < stk[k].at /\ c.gates[d].out = c.gates[stk[k].node].in[n] => d \in us

\* A gate that has been left comes after those it reads.
OrderRight(c, ord) ==
    /\ ord \in Seq(DOMAIN c.gates)
    /\ Distinct(ord)
    /\ \A n \in DOMAIN ord, d \in DOMAIN c.gates :
          IsRead(c, ord[n], d) =>
              Follows(c, d, ord[n]) \/ \E m \in DOMAIN ord : m < n /\ ord[m] = d

\* A gate is visited when it has been left or is on the stack.
UsedRight(c, ord, stk, us) ==
    /\ us \subseteq DOMAIN c.gates
    /\ \A g \in DOMAIN c.gates : g \in us <=> Has(ord, g) \/ OnStack(stk, g)
    /\ \A g \in DOMAIN c.gates : ~(Has(ord, g) /\ OnStack(stk, g))

Sorting(c, ord, stk, us) ==
    StackRight(c, stk) /\ PassedVisited(c, stk, us) /\ OrderRight(c, ord)
    /\ UsedRight(c, ord, stk, us)

\* Reading is following, and following is transitive.
LEMMA ReadFollows ==
    ASSUME NEW c, NEW g, NEW d, IsRead(c, g, d)
    PROVE  Follows(c, g, d)
BY DEF Follows

LEMMA FollowsOn ==
    ASSUME NEW c, NEW g, NEW d, NEW e, d \in DOMAIN c.gates,
           Follows(c, g, d), Follows(c, d, e)
    PROVE  Follows(c, g, e)
<1> SUFFICES ASSUME NEW S \in SUBSET DOMAIN c.gates,
                    \A h, x : IsRead(c, h, x) /\ h \in S \cup {g} => x \in S
             PROVE  e \in S
  BY DEF Follows
<1>1. d \in S
  BY DEF Follows
<1>2. \A h, x : IsRead(c, h, x) /\ h \in S \cup {d} => x \in S
  BY <1>1
<1> QED
  BY <1>2 DEF Follows

\* topsort is called for a gate that has not been visited, by nobody or by a
\* gate that reads it.
LEMMA PushKeeps ==
    ASSUME NEW c, NEW ord, NEW stk, NEW us, Sorting(c, ord, stk, us),
           NEW d \in DOMAIN c.gates, d \notin us,
           stk = <<>> \/ IsRead(c, stk[Len(stk)].node, d),
           \A n \in DOMAIN c.gates[d].in : n \in Nat \ {0}
    PROVE  Sorting(c, ord, Append(stk, [node |-> d, at |-> 1]), us \cup {d})
<1> DEFINE call == [node |-> d, at |-> 1]
           new == Append(stk, call)
<1>1. /\ stk \in Seq(Calls(c)) /\ call \in Calls(c) /\ Len(stk) \in Nat
      /\ \A k \in DOMAIN stk : stk[k].node \in DOMAIN c.gates
  <2>1. stk \in Seq(Calls(c)) /\ Len(stk) \in Nat
    BY DEF Sorting, StackRight
  <2>2. call \in Calls(c)
    BY DEF Calls
  <2>3. \A k \in DOMAIN stk : stk[k] \in Calls(c)
    BY <2>1
  <2>4. \A x \in Calls(c) : x.node \in DOMAIN c.gates
    BY DEF Calls
  <2> QED
    BY <2>1, <2>2, <2>3, <2>4
<1>2. /\ new \in Seq(Calls(c))
      /\ DOMAIN new = DOMAIN stk \cup {Len(stk) + 1}
      /\ \A k \in DOMAIN stk : new[k] = stk[k]
      /\ new[Len(stk) + 1] = call
      /\ DOMAIN stk = 1..Len(stk)
  BY <1>1
<1>3. call.node = d /\ call.at = 1
  OBVIOUS
<1> HIDE DEF new, call
<1>4. \A k \in DOMAIN stk : stk[k].node # d /\ Follows(c, stk[k].node, d)
  <2> SUFFICES ASSUME NEW k \in DOMAIN stk
               PROVE  stk[k].node # d /\ Follows(c, stk[k].node, d)
    OBVIOUS
  <2>1. stk[k].node \in us
    BY <1>1 DEF Sorting, UsedRight, OnStack
  <2>2. Len(stk) \in DOMAIN stk /\ IsRead(c, stk[Len(stk)].node, d)
    BY <1>1, <1>2
  <2>3. Follows(c, stk[Len(stk)].node, d)
    BY <2>2, ReadFollows
  <2>4. CASE k = Len(stk)
    BY <2>1, <2>3, <2>4
  <2>5. CASE k # Len(stk)
    <3>1. k < Len(stk)
      BY <1>1, <1>2, <2>5
    <3>2. Follows(c, stk[k].node, stk[Len(stk)].node)
      BY <2>2, <3>1 DEF Sorting, StackRight
    <3> QED
      BY <1>1, <2>1, <2>2, <2>3, <3>2, FollowsOn
  <2> QED
    BY <2>4, <2>5
<1>5. StackRight(c, new)
  <2> SUFFICES ASSUME NEW k \in DOMAIN new, NEW l \in DOMAIN new, k < l
               PROVE  new[k].node # new[l].node /\ Follows(c, new[k].node, new[l].node)
    BY <1>2 DEF StackRight
  <2>1. k \in DOMAIN stk
    BY <1>1, <1>2
  <2>2. CASE l \in DOMAIN stk
    BY <1>2, <2>1, <2>2 DEF Sorting, StackRight
  <2>3. CASE l = Len(stk) + 1
    BY <1>2, <1>3, <1>4, <2>1, <2>3
  <2> QED
    BY <1>2, <2>2, <2>3
<1>6. PassedVisited(c, new, us \cup {d})
  <2> SUFFICES ASSUME NEW k \in DOMAIN new, NEW n \in DOMAIN c.gates[new[k].node].in,
                      NEW e \in DOMAIN c.gates, n < new[k].at,
                      c.gates[e].out = c.gates[new[k].node].in[n]
               PROVE  e \in us \cup {d}
    BY DEF PassedVisited
  <2>1. CASE k \in DOMAIN stk
    BY <1>2, <2>1 DEF Sorting, PassedVisited
  <2>2. CASE k = Len(stk) + 1
    <3>1. n \in Nat \ {0} /\ n < 1
      BY <1>2, <1>3, <2>2
    <3> QED
      BY <3>1
  <2> QED
    BY <1>2, <2>1, <2>2
<1>7. UsedRight(c, ord, new, us \cup {d})
  <2>1. \A g : OnStack(new, g) <=> OnStack(stk, g) \/ g = d
    BY <1>2, <1>3 DEF OnStack
  <2> QED
    BY <2>1 DEF Sorting, UsedRight
<1> QED
  BY <1>5, <1>6, <1>7 DEF Sorting, new, call

\* A call goes on when the gates at its input have been visited.
LEMMA MoveKeeps ==
    ASSUME NEW c, NEW ord, NEW stk, NEW us, Sorting(c, ord, stk, us),
           NEW k \in DOMAIN stk,
           \A n \in DOMAIN c.gates[stk[k].node].in : n \in Nat,
           \A d \in DOMAIN c.gates :
              stk[k].at \in DOMAIN c.gates[stk[k].node].in
              /\ c.gates[d].out = c.gates[stk[k].node].in[stk[k].at] => d \in us
    PROVE  Sorting(c, ord, [stk EXCEPT ![k].at = @ + 1], us)
<1> DEFINE new == [stk EXCEPT ![k].at = @ + 1]
<1>1. /\ stk \in Seq(Calls(c)) /\ Len(stk) \in Nat /\ DOMAIN stk = 1..Len(stk)
      /\ \A l \in DOMAIN stk : stk[l] \in Calls(c)
  BY DEF Sorting, StackRight
<1>2. /\ DOMAIN new = DOMAIN stk
      /\ new[k].node = stk[k].node /\ new[k].at = stk[k].at + 1
      /\ \A l \in DOMAIN stk : l # k => new[l] = stk[l]
      /\ new[k] \in Calls(c)
  <2>1. /\ new[k] = [stk[k] EXCEPT !.at = @ + 1]
        /\ \A l \in DOMAIN stk : l # k => new[l] = stk[l]
        /\ DOMAIN new = DOMAIN stk
    BY <1>1
  <2>2. /\ stk[k] = [node |-> stk[k].node, at |-> stk[k].at]
        /\ stk[k].node \in DOMAIN c.gates /\ stk[k].at \in Nat \ {0}
    BY <1>1 DEF Calls
  <2>3. new[k] = [node |-> stk[k].node, at |-> stk[k].at + 1]
    BY <2>1, <2>2
  <2> QED
    BY <2>1, <2>2, <2>3 DEF Calls
<1>3. new \in Seq(Calls(c))
  <2>1. new \in [1..Len(stk) -> Calls(c)]
    BY <1>1, <1>2
  <2> QED
    BY <1>1, <2>1
<1> HIDE DEF new
<1>4. \A l \in DOMAIN stk : new[l].node = stk[l].node
  BY <1>2
<1>5. StackRight(c, new)
  BY <1>2, <1>3, <1>4 DEF Sorting, StackRight
<1>6. PassedVisited(c, new, us)
  <2> SUFFICES ASSUME NEW l \in DOMAIN stk, NEW n \in DOMAIN c.gates[stk[l].node].in,
                      NEW e \in DOMAIN c.gates, n < new[l].at,
                      c.gates[e].out = c.gates[stk[l].node].in[n]
               PROVE  e \in us
    BY <1>2, <1>4 DEF PassedVisited
  <2>1. CASE l = k
    <3>1. n \in Nat /\ stk[k].at \in Nat \ {0} /\ n < stk[k].at + 1
      BY <1>1, <1>2, <2>1 DEF Calls
    <3>2. n < stk[k].at \/ n = stk[k].at
      BY <3>1
    <3> QED
      BY <2>1, <3>2 DEF Sorting, PassedVisited
  <2>2. CASE l # k
    BY <1>2, <2>2 DEF Sorting, PassedVisited
  <2> QED
    BY <2>1, <2>2
<1>7. UsedRight(c, ord, new, us)
  <2>1. \A g : OnStack(new, g) <=> OnStack(stk, g)
    BY <1>2, <1>4 DEF OnStack
  <2> QED
    BY <2>1 DEF Sorting, UsedRight
<1> QED
  BY <1>5, <1>6, <1>7 DEF Sorting, new

\* topsort returns when it has passed all inputs of its gate.
LEMMA PopKeeps ==
    ASSUME NEW c, NEW ord, NEW stk, NEW us, Sorting(c, ord, stk, us), stk # <<>>,
           \A n \in DOMAIN c.gates[stk[Len(stk)].node].in : n < stk[Len(stk)].at
    PROVE  Sorting(c, Append(ord, stk[Len(stk)].node), SubSeq(stk, 1, Len(stk) - 1), us)
<1> DEFINE g == stk[Len(stk)].node
           new == SubSeq(stk, 1, Len(stk) - 1)
           out == Append(ord, g)
<1>1. /\ stk \in Seq(Calls(c)) /\ Len(stk) \in Nat /\ DOMAIN stk = 1..Len(stk)
      /\ Len(stk) \in DOMAIN stk
      /\ ord \in Seq(DOMAIN c.gates) /\ Len(ord) \in Nat /\ DOMAIN ord = 1..Len(ord)
  BY DEF Sorting, StackRight, OrderRight
<1>2. stk[Len(stk)] \in Calls(c) /\ g \in DOMAIN c.gates
  <2>1. stk[Len(stk)] \in Calls(c)
    BY <1>1
  <2>2. \A x \in Calls(c) : x.node \in DOMAIN c.gates
    BY DEF Calls
  <2> QED
    BY <2>1, <2>2
<1>3. /\ new \in Seq(Calls(c))
      /\ DOMAIN new = 1..Len(stk) - 1
      /\ \A k \in DOMAIN new : new[k] = stk[k]
  BY <1>1
<1>4. /\ out \in Seq(DOMAIN c.gates)
      /\ DOMAIN out = DOMAIN ord \cup {Len(ord) + 1}
      /\ \A n \in DOMAIN ord : out[n] = ord[n]
      /\ out[Len(ord) + 1] = g
  <2>1. /\ out = Append(ord, g) /\ g \in DOMAIN c.gates
        /\ ord \in Seq(DOMAIN c.gates) /\ DOMAIN ord = 1..Len(ord) /\ Len(ord) \in Nat
    BY <1>1, <1>2
  <2> HIDE DEF out, g
  <2> QED
    BY <2>1
<1>5. DOMAIN stk = DOMAIN new \cup {Len(stk)} /\ Len(stk) \notin DOMAIN new
  BY <1>1, <1>3
<1>6. \A k \in DOMAIN new : stk[k].node # g /\ Follows(c, stk[k].node, g)
  <2> SUFFICES ASSUME NEW k \in DOMAIN new
               PROVE  stk[k].node # g /\ Follows(c, stk[k].node, g)
    OBVIOUS
  <2>1. k \in DOMAIN stk /\ k < Len(stk)
    BY <1>1, <1>3
  <2> QED
    BY <1>1, <2>1 DEF Sorting, StackRight
<1>7. OnStack(stk, g) /\ ~Has(ord, g)
  <2>1. OnStack(stk, g)
    BY <1>1 DEF OnStack
  <2> QED
    BY <1>2, <2>1 DEF Sorting, UsedRight
<1> HIDE DEF new, out
<1>8. StackRight(c, new)
  BY <1>3, <1>5 DEF Sorting, StackRight
<1>9. PassedVisited(c, new, us)
  BY <1>3, <1>5 DEF Sorting, PassedVisited
<1>10. \A h : /\ OnStack(stk, h) <=> OnStack(new, h) \/ h = g
              /\ Has(out, h) <=> Has(ord, h) \/ h = g
              /\ OnStack(new, h) => h # g
  BY <1>3, <1>4, <1>5, <1>6 DEF OnStack, Has
<1>11. UsedRight(c, out, new, us)
  BY <1>7, <1>10 DEF Sorting, UsedRight
<1>12. OrderRight(c, out)
  <2>1. Distinct(out)
    BY <1>1, <1>4, <1>7 DEF Distinct, Has, Sorting, OrderRight
  <2>2. ASSUME NEW n \in DOMAIN out, NEW d \in DOMAIN c.gates, IsRead(c, out[n], d)
        PROVE  Follows(c, d, out[n]) \/ \E m \in DOMAIN out : m < n /\ out[m] = d
    <3>1. CASE n \in DOMAIN ord
      <4>1. Follows(c, d, ord[n]) \/ \E m \in DOMAIN ord : m < n /\ ord[m] = d
        BY <1>4, <2>2, <3>1 DEF Sorting, OrderRight
      <4> QED
        BY <1>4, <3>1, <4>1
    <3>2. CASE n = Len(ord) + 1
      <4>1. out[n] = g /\ IsRead(c, g, d)
        BY <1>4, <2>2, <3>2
      <4>2. d \in us
        <5>1. PICK m \in DOMAIN c.gates[g].in : c.gates[d].out = c.gates[g].in[m]
          BY <4>1 DEF IsRead
        <5>2. m < stk[Len(stk)].at
          OBVIOUS
        <5> QED
          BY <1>1, <5>1, <5>2 DEF Sorting, PassedVisited
      <4>3. Has(ord, d) \/ OnStack(stk, d)
        BY <4>2 DEF Sorting, UsedRight
      <4>4. CASE Has(ord, d)
        <5>1. PICK m \in DOMAIN ord : ord[m] = d
          BY <4>4 DEF Has
        <5>2. m < n
          BY <1>1, <3>2
        <5> QED
          BY <1>4, <5>1, <5>2
      <4>5. CASE OnStack(stk, d)
        <5>1. PICK k \in DOMAIN stk : stk[k].node = d
          BY <4>5 DEF OnStack
        <5>2. CASE k = Len(stk)
          BY <4>1, <5>1, <5>2, ReadFollows
        <5>3. CASE k \in DOMAIN new
          BY <1>6, <4>1, <5>1, <5>3
        <5> QED
          BY <1>5, <5>2, <5>3
      <4> QED
        BY <4>3, <4>4, <4>5
    <3> QED
      BY <1>4, <3>1, <3>2
  <2> QED
    BY <1>4, <2>1, <2>2 DEF OrderRight
<1> QED
  BY <1>8, <1>9, <1>11, <1>12 DEF Sorting, new, out

\* A list has every gate once.
ListsGates(c, seq) ==
    /\ seq \in Seq(DOMAIN c.gates)
    /\ Distinct(seq)
    /\ \A g \in DOMAIN c.gates : Has(seq, g)

PrintInv ==
    /\ net \in Designs
    /\ \A x \in DOMAIN renames : renames[x] \in NewNames
    /\ ListsGates(net, nodes)
    /\ ~sorting => stack = <<>>
    /\ sorting =>
          /\ Sorting(net, order, stack, used)
          /\ index \in Nat \ {0}
          /\ \A n \in DOMAIN nodes : n < index => nodes[n] \in used

\* A circuit is printed as it was made at first.
LEMMA PrintInvInit == PrintInit => PrintInv
<1> SUFFICES ASSUME PrintInit
             PROVE  PrintInv
  OBVIOUS
<1>1. /\ net \in Designs /\ nodes = [g \in GatesOf(net) |-> g]
      /\ sorting = FALSE /\ stack = <<>> /\ renames = <<>>
  BY DEF PrintInit
<1>2. GatesOf(net) = 1..Len(net.gates) /\ Len(net.gates) \in Nat
  BY <1>1, DesignsAssumption DEF GatesOf
<1>3. nodes \in Seq(GatesOf(net))
  <2>1. nodes \in [1..Len(net.gates) -> GatesOf(net)]
    BY <1>1, <1>2
  <2> QED
    BY <1>2, <2>1
<1>4. ListsGates(net, nodes)
  BY <1>1, <1>3 DEF ListsGates, Distinct, Has, GatesOf
<1>5. DOMAIN renames = {}
  BY <1>1
<1> QED
  BY <1>1, <1>4, <1>5 DEF PrintInv

\* Nothing is visited when a sort begins.
LEMMA NothingVisited == ASSUME NEW c PROVE Sorting(c, <<>>, <<>>, {})
<1>1. DOMAIN <<>> = {}
  OBVIOUS
<1>2. <<>> \in Seq(Calls(c)) /\ <<>> \in Seq(DOMAIN c.gates)
  OBVIOUS
<1> QED
  BY <1>1, <1>2 DEF Sorting, StackRight, PassedVisited, OrderRight, UsedRight, Distinct, Has,
                    OnStack

\* The inputs of a gate.
LEMMA InputsOfGate ==
    ASSUME NEW c \in Designs, NEW g \in DOMAIN c.gates
    PROVE  /\ DOMAIN c.gates[g].in = 1..Len(c.gates[g].in) /\ Len(c.gates[g].in) \in Nat
           /\ \A n \in DOMAIN c.gates[g].in : n \in Nat \ {0}
BY DesignsAssumption

\* When nothing is left to visit, the result lists every gate.
LEMMA SortedListsGates ==
    ASSUME PrintInv, EndSort
    PROVE  ListsGates(net, order)
<1>1. /\ sorting /\ stack = <<>> /\ index > Len(nodes)
      /\ Sorting(net, order, stack, used) /\ ListsGates(net, nodes)
      /\ index \in Nat \ {0} /\ \A n \in DOMAIN nodes : n < index => nodes[n] \in used
  BY DEF PrintInv, EndSort
<1>2. \A g \in DOMAIN net.gates : g \in used
  <2> SUFFICES ASSUME NEW g \in DOMAIN net.gates PROVE g \in used
    OBVIOUS
  <2>1. PICK n \in DOMAIN nodes : nodes[n] = g
    BY <1>1 DEF ListsGates, Has
  <2>2. n < index
    <3>1. nodes \in Seq(DOMAIN net.gates)
      BY <1>1 DEF ListsGates
    <3>2. Len(nodes) \in Nat /\ n \in 1..Len(nodes)
      BY <3>1
    <3> QED
      BY <1>1, <3>2
  <2> QED
    BY <1>1, <2>1, <2>2
<1>3. \A g : ~OnStack(stack, g)
  BY <1>1 DEF OnStack
<1> QED
  BY <1>1, <1>2, <1>3 DEF Sorting, UsedRight, OrderRight, ListsGates

\* To move the last call and to push another are two changes in any order.
LEMMA MovedBelow ==
    ASSUME NEW S, NEW stk \in Seq(S), NEW call, Len(stk) \in DOMAIN stk
    PROVE  Append([stk EXCEPT ![Len(stk)].at = @ + 1], call) =
           [Append(stk, call) EXCEPT ![Len(stk)].at = @ + 1]
<1> DEFINE k == Len(stk)
           moved == [stk[k] EXCEPT !.at = @ + 1]
           T == S \cup {moved, call}
           one == [stk EXCEPT ![k] = moved]
           two == Append(stk, call)
<1>1. k \in Nat /\ DOMAIN stk = 1..k /\ stk \in Seq(T) /\ call \in T /\ moved \in T
  OBVIOUS
<1> HIDE DEF T, moved
<1>2. DOMAIN one = 1..k /\ one \in Seq(T) /\ Len(one) = k
  <2>1. one \in [1..k -> T]
    BY <1>1
  <2> QED
    BY <1>1, <2>1
<1>3. two \in Seq(T) /\ Len(two) = k + 1 /\ two[k] = stk[k]
  BY <1>1
<1>4. [two EXCEPT ![k] = moved] \in Seq(T) /\ Len([two EXCEPT ![k] = moved]) = k + 1
  <2>1. two \in [1..(k + 1) -> T]
    BY <1>1, <1>3, LenProperties
  <2>2. [two EXCEPT ![k] = moved] \in [1..(k + 1) -> T]
    BY <1>1, <2>1
  <2> QED
    BY <1>1, <2>2
<1>5. Append(one, call) \in Seq(T) /\ Len(Append(one, call)) = k + 1
  BY <1>1, <1>2
<1>6. ASSUME NEW n \in 1..(k + 1)
      PROVE  Append(one, call)[n] = [two EXCEPT ![k] = moved][n]
  <2>1. Append(one, call)[n] = IF n = k + 1 THEN call ELSE one[n]
    <3>1. call \in T /\ k \in Nat
      BY <1>1
    <3>2. n = k + 1 \/ n \in 1..k
      BY <3>1
    <3> HIDE DEF one, k
    <3>3. /\ \A i \in 1..k : Append(one, call)[i] = one[i]
          /\ Append(one, call)[k + 1] = call
      BY <1>2, <3>1, AppendProperties
    <3>4. CASE n = k + 1
      BY <3>1, <3>3, <3>4
    <3>5. CASE n \in 1..k
      <4>1. n # k + 1
        BY <3>1, <3>5
      <4> QED
        BY <3>3, <3>5, <4>1
    <3> QED
      BY <3>2, <3>4, <3>5
  <2>2. two[n] = IF n = k + 1 THEN call ELSE stk[n]
    BY <1>1
  <2>3. n # k + 1 => n \in DOMAIN stk
    BY <1>1
  <2>4. DOMAIN two = 1..(k + 1)
    BY <1>1, <1>3, LenProperties
  <2>5. k # k + 1
    <3>1. k \in Nat
      BY <1>1
    <3> HIDE DEF k
    <3> QED
      BY <3>1
  <2> HIDE DEF two
  <2> QED
    BY <2>1, <2>2, <2>3, <2>4, <2>5
<1>7. Append(one, call) = [two EXCEPT ![k] = moved]
  BY <1>4, <1>5, <1>6, SeqEqual
<1> QED
  BY <1>3, <1>7 DEF moved

\* Every step keeps the invariant.
LEMMA PrintInvNext == PrintInv /\ [PrintNext]_printVars => PrintInv'
<1> SUFFICES ASSUME PrintInv, [PrintNext]_printVars
             PROVE  PrintInv'
  OBVIOUS
<1>1. net' = net
  BY DEF PrintNext, printVars, BeginSort, SortStep, NextNode, VisitInput, SkipInput, Leave,
         EndSort, RenameNet, ClearRenames
<1>2. /\ net \in Designs /\ ListsGates(net, nodes)
      /\ \A x \in DOMAIN renames : renames[x] \in NewNames
      /\ \A g \in DOMAIN net.gates : \A n \in DOMAIN net.gates[g].in : n \in Nat \ {0}
  BY InputsOfGate DEF PrintInv
<1>3. CASE BeginSort
  <2>1. /\ sorting' /\ index' = 1 /\ used' = {} /\ order' = <<>>
        /\ nodes' = nodes /\ stack' = stack /\ renames' = renames /\ ~sorting
    BY <1>3 DEF BeginSort
  <2>2. Sorting(net, order', stack', used')
    BY <2>1, NothingVisited DEF PrintInv
  <2>3. \A n \in DOMAIN nodes : n \in Nat \ {0}
    <3>1. nodes \in Seq(DOMAIN net.gates)
      BY <1>2 DEF ListsGates
    <3> QED
      BY <3>1
  <2>4. \A n \in DOMAIN nodes : ~(n < 1)
    BY <2>3
  <2> QED
    BY <1>1, <1>2, <2>1, <2>2, <2>4 DEF PrintInv
<1>4. CASE NextNode
  <2>1. /\ sorting /\ sorting' = sorting /\ stack = <<>> /\ index <= Len(nodes)
        /\ index' = index + 1 /\ order' = order /\ nodes' = nodes /\ renames' = renames
    BY <1>4 DEF NextNode
  <2>2. /\ Sorting(net, order, stack, used) /\ index \in Nat \ {0}
        /\ \A n \in DOMAIN nodes : n < index => nodes[n] \in used
    BY <2>1 DEF PrintInv
  <2>3. /\ DOMAIN nodes \subseteq Nat /\ nodes \in Seq(DOMAIN net.gates)
        /\ index \in DOMAIN nodes
        /\ \A n \in DOMAIN nodes : nodes[n] \in DOMAIN net.gates
    <3>1. nodes \in Seq(DOMAIN net.gates)
      BY <1>2 DEF ListsGates
    <3>2. Len(nodes) \in Nat /\ DOMAIN nodes = 1..Len(nodes)
      BY <3>1
    <3> QED
      BY <2>1, <2>2, <3>1, <3>2
  <2>4. \A n \in DOMAIN nodes : n < index + 1 => n < index \/ n = index
    BY <2>2, <2>3
  <2>5. CASE nodes[index] \in used
    <3>1. stack' = stack /\ used' = used
      BY <1>4, <2>5 DEF NextNode
    <3>2. \A n \in DOMAIN nodes : n < index' => nodes[n] \in used
      BY <2>1, <2>2, <2>4, <2>5
    <3> QED
      BY <1>1, <1>2, <2>1, <2>2, <3>1, <3>2 DEF PrintInv
  <2>6. CASE nodes[index] \notin used
    <3> DEFINE d == nodes[index]
    <3>1. stack' = <<[node |-> d, at |-> 1]>> /\ used' = used \cup {d}
      BY <1>4, <2>6 DEF NextNode
    <3>2. d \in DOMAIN net.gates
      BY <2>3, <2>6
    <3>3. Append(stack, [node |-> d, at |-> 1]) = <<[node |-> d, at |-> 1]>>
      BY <2>1
    <3>4. \A n \in DOMAIN net.gates[d].in : n \in Nat \ {0}
      BY <1>2, <3>2
    <3>5. Sorting(net, order, Append(stack, [node |-> d, at |-> 1]), used \cup {d})
      BY <2>1, <2>2, <2>6, <3>2, <3>4, PushKeeps
    <3>6. \A n \in DOMAIN nodes : n < index' => nodes[n] \in used'
      BY <2>1, <2>2, <2>4, <3>1
    <3> QED
      BY <1>1, <1>2, <2>1, <2>2, <3>1, <3>3, <3>5, <3>6 DEF PrintInv
  <2> QED
    BY <2>5, <2>6
<1>5. CASE VisitInput
  <2>1. /\ sorting /\ sorting' = sorting /\ stack # <<>>
        /\ top.at <= Len(net.gates[top.node].in)
        /\ index' = index /\ order' = order /\ nodes' = nodes /\ renames' = renames
    BY <1>5 DEF VisitInput, AtInput
  <2>2. PICK d \in Drivers(top.node, top.at) \ used :
           /\ stack' = Append(Moved, [node |-> d, at |-> 1])
           /\ used' = used \cup {d}
    BY <1>5 DEF VisitInput
  <2>3. Sorting(net, order, stack, used) /\ index \in Nat \ {0}
        /\ \A n \in DOMAIN nodes : n < index => nodes[n] \in used
    BY <2>1 DEF PrintInv
  <2>4. /\ stack \in Seq(Calls(net)) /\ Len(stack) \in Nat /\ Len(stack) \in DOMAIN stack
        /\ top = stack[Len(stack)] /\ top.node \in DOMAIN net.gates /\ top.at \in Nat \ {0}
    <3>1. stack \in Seq(Calls(net))
      BY <2>3 DEF Sorting, StackRight
    <3>2. Len(stack) \in Nat /\ Len(stack) \in DOMAIN stack
      BY <2>1, <3>1
    <3>3. top \in Calls(net)
      BY <3>1, <3>2 DEF top
    <3>4. \A x \in Calls(net) : x.node \in DOMAIN net.gates /\ x.at \in Nat \ {0}
      BY DEF Calls
    <3> QED
      BY <3>1, <3>2, <3>3, <3>4 DEF top
  <2>5. /\ d \in DOMAIN net.gates /\ net.gates[d].out = net.gates[top.node].in[top.at]
        /\ d \notin used
    BY <2>2 DEF Drivers, GatesOf
  <2> DEFINE call == [node |-> d, at |-> 1]
             pushed == Append(stack, call)
             k == Len(stack)
  <2>6. stack' = [pushed EXCEPT ![k].at = @ + 1]
    <3>1. Moved = [stack EXCEPT ![k].at = @ + 1]
      BY DEF Moved
    <3>2. Append([stack EXCEPT ![k].at = @ + 1], call) = [Append(stack, call) EXCEPT ![k].at = @ + 1]
      BY <2>4, MovedBelow
    <3> QED
      BY <2>2, <3>1, <3>2
  <2>7. CASE top.at \in DOMAIN net.gates[top.node].in
    <3>1. IsRead(net, stack[Len(stack)].node, d)
      BY <2>4, <2>5, <2>7 DEF IsRead
    <3>2. \A n \in DOMAIN net.gates[d].in : n \in Nat \ {0}
      BY <1>2, <2>5
    <3>3. Sorting(net, order, pushed, used \cup {d})
      BY <2>3, <2>5, <3>1, <3>2, PushKeeps
    <3>4. k \in DOMAIN pushed /\ pushed[k] = stack[k]
      BY <2>4
    <3> HIDE DEF pushed, k
    <3>5. pushed[k] = top
      BY <2>4, <3>4 DEF k
    <3>6. \A n \in DOMAIN net.gates[pushed[k].node].in : n \in Nat
      BY <1>2, <2>4, <3>5
    <3>7. \A e \in DOMAIN net.gates :
             pushed[k].at \in DOMAIN net.gates[pushed[k].node].in
             /\ net.gates[e].out = net.gates[pushed[k].node].in[pushed[k].at]
             => e \in used \cup {d}
      <4>1. \A e \in DOMAIN net.gates : net.gates[e].out = net.gates[d].out => e = d
        BY <1>2, <2>5, DesignsAssumption
      <4> QED
        BY <2>5, <3>5, <4>1
    <3>8. Sorting(net, order, [pushed EXCEPT ![k].at = @ + 1], used \cup {d})
      BY <3>3, <3>4, <3>6, <3>7, MoveKeeps
    <3> QED
      BY <1>1, <1>2, <2>1, <2>2, <2>3, <2>6, <3>8 DEF PrintInv, pushed, k
  <2>8. CASE top.at \notin DOMAIN net.gates[top.node].in
    BY <2>1, <2>4, <2>8, InputsOfGate, <1>2
  <2> QED
    BY <2>7, <2>8
<1>6. CASE SkipInput
  <2>1. /\ sorting /\ sorting' = sorting /\ stack # <<>>
        /\ Drivers(top.node, top.at) \subseteq used
        /\ stack' = [stack EXCEPT ![Len(stack)].at = @ + 1]
        /\ index' = index /\ order' = order /\ nodes' = nodes /\ renames' = renames /\ used' = used
    BY <1>6 DEF SkipInput, AtInput, Moved
  <2>2. Sorting(net, order, stack, used) /\ index \in Nat \ {0}
        /\ \A n \in DOMAIN nodes : n < index => nodes[n] \in used
    BY <2>1 DEF PrintInv
  <2>3. /\ Len(stack) \in DOMAIN stack /\ top = stack[Len(stack)] /\ top.node \in DOMAIN net.gates
    <3>1. stack \in Seq(Calls(net))
      BY <2>2 DEF Sorting, StackRight
    <3>2. Len(stack) \in Nat /\ Len(stack) \in DOMAIN stack
      BY <2>1, <3>1
    <3>3. top \in Calls(net)
      BY <3>1, <3>2 DEF top
    <3>4. \A x \in Calls(net) : x.node \in DOMAIN net.gates /\ x.at \in Nat \ {0}
      BY DEF Calls
    <3> QED
      BY <3>2, <3>3, <3>4 DEF top
  <2>4. \A d \in DOMAIN net.gates : net.gates[d].out = net.gates[top.node].in[top.at] => d \in used
    BY <2>1 DEF Drivers, GatesOf
  <2>5. \A n \in DOMAIN net.gates[top.node].in : n \in Nat
    BY <1>2, <2>3
  <2>6. Sorting(net, order, stack', used')
    BY <2>1, <2>2, <2>3, <2>4, <2>5, MoveKeeps
  <2> QED
    BY <1>1, <1>2, <2>1, <2>2, <2>6 DEF PrintInv
<1>7. CASE Leave
  <2>1. /\ sorting /\ sorting' = sorting /\ stack # <<>> /\ ~AtInput
        /\ stack' = SubSeq(stack, 1, Len(stack) - 1)
        /\ order' = Append(order, stack[Len(stack)].node)
        /\ index' = index /\ nodes' = nodes /\ renames' = renames /\ used' = used
    BY <1>7 DEF Leave, top
  <2>2. Sorting(net, order, stack, used) /\ index \in Nat \ {0}
        /\ \A n \in DOMAIN nodes : n < index => nodes[n] \in used
    BY <2>1 DEF PrintInv
  <2>3. top = stack[Len(stack)] /\ top.node \in DOMAIN net.gates /\ top.at \in Nat \ {0}
    <3>1. stack \in Seq(Calls(net))
      BY <2>2 DEF Sorting, StackRight
    <3>2. Len(stack) \in Nat /\ Len(stack) \in DOMAIN stack
      BY <2>1, <3>1
    <3>3. top \in Calls(net)
      BY <3>1, <3>2 DEF top
    <3>4. \A x \in Calls(net) : x.node \in DOMAIN net.gates /\ x.at \in Nat \ {0}
      BY DEF Calls
    <3> QED
      BY <3>2, <3>3, <3>4 DEF top
  <2>4. \A n \in DOMAIN net.gates[top.node].in : n < top.at
    <3>1. ~(top.at <= Len(net.gates[top.node].in))
      BY <2>1 DEF AtInput
    <3> QED
      BY <1>2, <2>3, <3>1, InputsOfGate
  <2>5. Sorting(net, order', stack', used')
    BY <2>1, <2>2, <2>3, <2>4, PopKeeps
  <2> QED
    BY <1>1, <1>2, <2>1, <2>2, <2>5 DEF PrintInv
<1>8. CASE EndSort
  <2>1. nodes' = order /\ sorting' = FALSE /\ stack' = stack /\ stack = <<>> /\ renames' = renames
    BY <1>8 DEF EndSort
  <2> QED
    BY <1>1, <1>2, <1>8, <2>1, SortedListsGates DEF PrintInv
<1>9. ASSUME NEW old \in OldNames, NEW new \in NewNames, RenameNet(old, new)
      PROVE  PrintInv'
  <2>1. /\ ~sorting /\ renames' = [name \in DOMAIN renames \cup {old} |->
                                 IF name = old THEN new ELSE renames[name]]
        /\ nodes' = nodes /\ sorting' = sorting /\ stack' = stack
    BY <1>9 DEF RenameNet, sortVars
  <2>2. \A x \in DOMAIN renames' : renames'[x] \in NewNames
    BY <1>2, <2>1
  <2> QED
    BY <1>1, <1>2, <2>1, <2>2 DEF PrintInv
<1>10. CASE ClearRenames
  <2>1. /\ ~sorting /\ renames' = <<>>
        /\ nodes' = nodes /\ sorting' = sorting /\ stack' = stack
    BY <1>10 DEF ClearRenames, sortVars
  <2>2. DOMAIN renames' = {}
    BY <2>1
  <2> QED
    BY <1>1, <1>2, <2>1, <2>2 DEF PrintInv
<1>11. CASE UNCHANGED printVars
  BY <1>11 DEF printVars, PrintInv
<1> QED
  BY <1>3, <1>4, <1>5, <1>6, <1>7, <1>8, <1>9, <1>10, <1>11 DEF PrintNext, SortStep

\* The invariant holds in every state.
THEOREM PrintInvariance == PrintSpec => []PrintInv
BY PrintInvInit, PrintInvNext, PTL DEF PrintSpec

\* Follows and IsRead are what the property says.
LEMMA DependsIsFollows ==
    ASSUME NEW g, NEW d
    PROVE  /\ <<g, d>> \in Reads <=> IsRead(net, g, d)
           /\ Follows(net, g, d) => DependsOn(g, d)
<1>1. \A h, e : <<h, e>> \in Reads <=> IsRead(net, h, e)
  BY DEF Reads, IsRead, Drivers, GatesOf
<1>2. Follows(net, g, d) => DependsOn(g, d)
  <2> SUFFICES ASSUME Follows(net, g, d), NEW S \in SUBSET GatesOf(net),
                      \A e \in Reads : e[1] \in S \cup {g} => e[2] \in S
               PROVE  d \in S
    BY DEF DependsOn
  <2>1. \A h, e : IsRead(net, h, e) /\ h \in S \cup {g} => e \in S
    <3> SUFFICES ASSUME NEW h, NEW e, IsRead(net, h, e), h \in S \cup {g}
                 PROVE  e \in S
      OBVIOUS
    <3>1. <<h, e>> \in Reads /\ <<h, e>>[1] = h /\ <<h, e>>[2] = e
      BY <1>1
    <3> QED
      BY <3>1
  <2> QED
    BY <2>1 DEF Follows, GatesOf
<1> QED
  BY <1>1, <1>2

\* A list that has every gate once is as long as there are gates.
LEMMA ListLength ==
    ASSUME NEW c \in Designs, NEW seq, ListsGates(c, seq)
    PROVE  Len(seq) = Cardinality(DOMAIN c.gates)
<1>1. /\ DOMAIN c.gates = 1..Len(c.gates) /\ Len(c.gates) \in Nat
      /\ seq \in Seq(DOMAIN c.gates)
  BY DesignsAssumption DEF ListsGates
<1>2. Len(seq) \in Nat /\ DOMAIN seq = 1..Len(seq)
  BY <1>1
<1>3. IsFiniteSet(1..Len(seq)) /\ Cardinality(1..Len(seq)) = Len(seq)
  <2>1. Cardinality(1..Len(seq)) = IF 1 > Len(seq) THEN 0 ELSE Len(seq) - 1 + 1
    BY <1>2, FS_Interval
  <2> QED
    BY <1>2, <2>1, FS_Interval
<1>4. seq \in Bijection(1..Len(seq), DOMAIN c.gates)
  <2>1. seq \in [1..Len(seq) -> DOMAIN c.gates]
    BY <1>1, <1>2
  <2>2. \A m, n \in 1..Len(seq) : seq[m] = seq[n] => m = n
    BY <1>2 DEF ListsGates, Distinct
  <2>3. \A g \in DOMAIN c.gates : \E n \in 1..Len(seq) : seq[n] = g
    BY <1>2 DEF ListsGates, Has
  <2> QED
    BY <2>1, <2>2, <2>3 DEF Bijection, Injection, Surjection, IsInjective
<1> QED
  BY <1>3, <1>4, FS_Bijection DEF ExistsBijection

\* The place of a gate.
LEMMA PlaceOf ==
    ASSUME NEW seq, Distinct(seq), NEW n \in DOMAIN seq
    PROVE  (CHOOSE m \in DOMAIN seq : seq[m] = seq[n]) = n
BY DEF Distinct

\* When a sort ends, the gates are listed once each, after those they read.
LEMMA SortEnds ==
    ASSUME PrintInv, EndSort
    PROVE  /\ Len(nodes') = Cardinality(GatesOf(net))
           /\ {nodes'[n] : n \in DOMAIN nodes'} = GatesOf(net)
           /\ \A e \in Reads : DependsOn(e[2], e[1]) \/ Place(e[2])' < Place(e[1])'
<1>1. /\ nodes' = order /\ net \in Designs /\ ListsGates(net, order)
      /\ Sorting(net, order, stack, used)
  BY SortedListsGates DEF EndSort, PrintInv
<1>2. Len(nodes') = Cardinality(GatesOf(net))
  BY <1>1, ListLength DEF GatesOf
<1>3. {nodes'[n] : n \in DOMAIN nodes'} = GatesOf(net)
  <2>1. \A n \in DOMAIN order : order[n] \in DOMAIN net.gates
    <3>1. order \in Seq(DOMAIN net.gates)
      BY <1>1 DEF ListsGates
    <3> QED
      BY <3>1
  <2> QED
    BY <1>1, <2>1 DEF ListsGates, Has, GatesOf
<1>4. ASSUME NEW e \in Reads
      PROVE  DependsOn(e[2], e[1]) \/ Place(e[2])' < Place(e[1])'
  <2>1. e = <<e[1], e[2]>> /\ e[1] \in DOMAIN net.gates /\ e[2] \in DOMAIN net.gates
    BY DEF Reads, GatesOf
  <2>2. IsRead(net, e[1], e[2])
    BY <2>1, DependsIsFollows
  <2>3. PICK n \in DOMAIN order : order[n] = e[1]
    BY <1>1, <2>1 DEF ListsGates, Has
  <2>4. CASE Follows(net, e[2], order[n])
    BY <2>3, <2>4, DependsIsFollows
  <2>5. CASE \E m \in DOMAIN order : m < n /\ order[m] = e[2]
    <3>1. PICK m \in DOMAIN order : m < n /\ order[m] = e[2]
      BY <2>5
    <3>2. Place(e[2])' = m /\ Place(e[1])' = n
      <4>1. /\ Place(e[2])' = (CHOOSE x \in DOMAIN order : order[x] = e[2])
            /\ Place(e[1])' = (CHOOSE x \in DOMAIN order : order[x] = e[1])
        BY <1>1 DEF Place
      <4>2. Distinct(order)
        BY <1>1 DEF ListsGates
      <4> QED
        BY <2>3, <3>1, <4>1, <4>2, PlaceOf
    <3> QED
      BY <3>1, <3>2
  <2> QED
    BY <1>1, <2>1, <2>2, <2>3, <2>4, <2>5 DEF Sorting, OrderRight
<1> QED
  BY <1>2, <1>3, <1>4

\* sortNodes lists every gate once, and behind the gates it reads unless they
\* depend on it, for all circuits, those with circles included, and in whatever
\* order the gates were before.
THEOREM CircuitsGetSorted == PrintSpec => SortsTopologically
<1>1. PrintInv /\ [PrintNext]_printVars =>
      [sorting /\ ~sorting' =>
        /\ Len(nodes') = Cardinality(GatesOf(net))
        /\ {nodes'[n] : n \in DOMAIN nodes'} = GatesOf(net)
        /\ \A e \in Reads : DependsOn(e[2], e[1]) \/ Place(e[2])' < Place(e[1])']_printVars
  <2> SUFFICES ASSUME PrintInv, [PrintNext]_printVars, sorting, ~sorting'
               PROVE  /\ Len(nodes') = Cardinality(GatesOf(net))
                      /\ {nodes'[n] : n \in DOMAIN nodes'} = GatesOf(net)
                      /\ \A e \in Reads : DependsOn(e[2], e[1]) \/ Place(e[2])' < Place(e[1])'
    OBVIOUS
  <2>1. EndSort
    BY DEF PrintNext, printVars, BeginSort, SortStep, NextNode, VisitInput, SkipInput, Leave,
           RenameNet, ClearRenames
  <2> QED
    BY <2>1, SortEnds
<1> QED
  BY <1>1, PrintInvariance, PTL DEF PrintSpec, SortsTopologically

-------------------------------------------------------------------------------
(***************************************************************************)
(* print.  New names that are different carry every consistent choice of   *)
(* values over, and the order of gates does not matter.                    *)
(***************************************************************************)
NamesOf(text) == text.ins \cup text.outs \cup {text.gates[n].out : n \in DOMAIN text.gates}

\* The nets in t are true, the others are not, and every gate agrees.
Consistent(text, t) ==
    \A n \in DOMAIN text.gates :
        text.gates[n].out \in t <=> \E k \in DOMAIN text.gates[n].in : text.gates[n].in[k] \notin t

Consistents(text) == {t \in SUBSET NamesOf(text) : Consistent(text, t)}

LEMMA BehaviourIs ==
    ASSUME NEW text
    PROVE  Behaviour(text) = {<<t \cap text.ins, t \cap text.outs>> : t \in Consistents(text)}
BY DEF Behaviour, Consistents, Consistent, NamesOf

Renamed(t) == {wire_name(x) : x \in t}

NoTwoAlike == \A m, n \in Nets : wire_name(m) = wire_name(n) => m = n

\* The nets of a circuit.
LEMMA NetsOfCircuit ==
    ASSUME PrintInv
    PROVE  /\ NamesOf(net) = Nets
           /\ net.ins \subseteq Nets /\ net.outs \subseteq Nets
           /\ \A g \in DOMAIN net.gates :
                 /\ net.gates[g].out \in Nets
                 /\ \A n \in DOMAIN net.gates[g].in : net.gates[g].in[n] \in Nets \cup {Constant0}
           /\ Constant0 \notin Nets
           /\ \A x \in Nets : wire_name(x) # Constant0
<1>1. net \in Designs /\ \A x \in DOMAIN renames : renames[x] \in NewNames
  BY DEF PrintInv
<1>2. /\ net.outs \subseteq Nets /\ Constant0 \notin Nets
      /\ \A g \in DOMAIN net.gates :
            \A n \in DOMAIN net.gates[g].in : net.gates[g].in[n] \in Nets \cup {Constant0}
  BY <1>1, DesignsAssumption DEF Nets
<1>3. net.ins \subseteq Nets /\ \A g \in DOMAIN net.gates : net.gates[g].out \in Nets
  BY DEF Nets, NetsIn
<1>4. NamesOf(net) = Nets
  BY <1>2 DEF Nets, NetsIn, NamesOf
<1>5. \A x \in Nets : wire_name(x) # Constant0
  BY <1>1, <1>2, NewNamesAssumption DEF wire_name
<1> QED
  BY <1>2, <1>3, <1>4, <1>5

\* What the printed text is.
LEMMA PrintedText ==
    ASSUME PrintInv
    PROVE  /\ Printed.ins = Renamed(net.ins) /\ Printed.outs = Renamed(net.outs)
           /\ \A n \in DOMAIN Printed.gates : \E g \in DOMAIN net.gates : Printed.gates[n] = PrintedGate(g)
           /\ \A g \in DOMAIN net.gates : \E n \in DOMAIN Printed.gates : Printed.gates[n] = PrintedGate(g)
<1>1. Printed.ins = Renamed(net.ins) /\ Printed.outs = Renamed(net.outs)
  BY DEF Printed, Renamed
<1>2. DOMAIN Printed.gates = DOMAIN nodes
      /\ \A n \in DOMAIN nodes : Printed.gates[n] = PrintedGate(nodes[n])
  BY DEF Printed
<1>3. ListsGates(net, nodes)
  BY DEF PrintInv
<1>4. \A n \in DOMAIN nodes : nodes[n] \in DOMAIN net.gates
  <2>1. nodes \in Seq(DOMAIN net.gates)
    BY <1>3 DEF ListsGates
  <2> QED
    BY <2>1
<1> QED
  BY <1>1, <1>2, <1>3, <1>4 DEF ListsGates, Has

\* New names that are different keep sets of nets apart.
LEMMA RenamedSets ==
    ASSUME NoTwoAlike, NEW t \in SUBSET Nets
    PROVE  /\ \A x \in Nets : wire_name(x) \in Renamed(t) <=> x \in t
           /\ \A S \in SUBSET Nets : Renamed(t) \cap Renamed(S) = Renamed(t \cap S)
<1>1. \A x \in Nets : wire_name(x) \in Renamed(t) <=> x \in t
  BY DEF Renamed, NoTwoAlike
<1>2. ASSUME NEW S \in SUBSET Nets
      PROVE  Renamed(t) \cap Renamed(S) = Renamed(t \cap S)
  <2>1. ASSUME NEW y \in Renamed(t) \cap Renamed(S) PROVE y \in Renamed(t \cap S)
    <3>1. PICK x \in S : y = wire_name(x)
      BY <2>1 DEF Renamed
    <3>2. x \in t
      BY <1>1, <2>1, <3>1
    <3> QED
      BY <3>1, <3>2 DEF Renamed
  <2>2. Renamed(t \cap S) \subseteq Renamed(t) \cap Renamed(S)
    BY DEF Renamed
  <2> QED
    BY <2>1, <2>2
<1> QED
  BY <1>1, <1>2

\* The printed gates agree with the new names when the gates agree with the old.
LEMMA ConsistentRenamed ==
    ASSUME PrintInv, NoTwoAlike, NEW t \in SUBSET Nets
    PROVE  Consistent(Printed, Renamed(t)) <=> Consistent(net, t)
<1> DEFINE agrees(gate, true) ==
               gate.out \in true <=> \E k \in DOMAIN gate.in : gate.in[k] \notin true
<1>1. ASSUME NEW g \in DOMAIN net.gates
      PROVE  agrees(PrintedGate(g), Renamed(t)) <=> agrees(net.gates[g], t)
  <2> DEFINE gate == net.gates[g]
             new == PrintedGate(g)
  <2>1. /\ new.out = wire_name(gate.out) /\ DOMAIN new.in = DOMAIN gate.in
        /\ \A k \in DOMAIN gate.in :
              new.in[k] = IF gate.in[k] = Constant0 THEN Constant0 ELSE wire_name(gate.in[k])
    BY DEF PrintedGate
  <2>2. /\ gate.out \in Nets
        /\ \A k \in DOMAIN gate.in : gate.in[k] \in Nets \cup {Constant0}
    BY NetsOfCircuit
  <2>3. new.out \in Renamed(t) <=> gate.out \in t
    BY <2>1, <2>2, RenamedSets
  <2>4. Constant0 \notin t /\ Constant0 \notin Renamed(t)
    BY NetsOfCircuit DEF Renamed
  <2>5. \A k \in DOMAIN gate.in : new.in[k] \in Renamed(t) <=> gate.in[k] \in t
    BY <2>1, <2>2, <2>4, RenamedSets
  <2> HIDE DEF new, gate
  <2>6. agrees(new, Renamed(t)) <=> agrees(gate, t)
    BY <2>1, <2>3, <2>5
  <2> QED
    BY <2>6 DEF new, gate
<1> HIDE DEF agrees
<1>2. Consistent(net, t) <=> \A g \in DOMAIN net.gates : agrees(net.gates[g], t)
  BY DEF Consistent, agrees
<1>3. Consistent(Printed, Renamed(t)) <=>
         \A n \in DOMAIN Printed.gates : agrees(Printed.gates[n], Renamed(t))
  BY DEF Consistent, agrees
<1>4. (\A n \in DOMAIN Printed.gates : agrees(Printed.gates[n], Renamed(t))) <=>
         \A g \in DOMAIN net.gates : agrees(PrintedGate(g), Renamed(t))
  <2>1. ASSUME \A n \in DOMAIN Printed.gates : agrees(Printed.gates[n], Renamed(t)),
               NEW g \in DOMAIN net.gates
        PROVE  agrees(PrintedGate(g), Renamed(t))
    BY <2>1, PrintedText
  <2>2. ASSUME \A g \in DOMAIN net.gates : agrees(PrintedGate(g), Renamed(t)),
               NEW n \in DOMAIN Printed.gates
        PROVE  agrees(Printed.gates[n], Renamed(t))
    BY <2>2, PrintedText
  <2> QED
    BY <2>1, <2>2
<1> QED
  BY <1>1, <1>2, <1>3, <1>4

\* The consistent values of the text are those of the circuit under new names.
LEMMA ConsistentsRenamed ==
    ASSUME PrintInv, NoTwoAlike
    PROVE  /\ \A t \in Consistents(net) : Renamed(t) \in Consistents(Printed)
           /\ \A u \in Consistents(Printed) : \E t \in Consistents(net) : u = Renamed(t)
<1>1. NamesOf(Printed) = Renamed(Nets)
  <2>1. {Printed.gates[n].out : n \in DOMAIN Printed.gates} =
        Renamed({net.gates[g].out : g \in DOMAIN net.gates})
    <3>1. \A g : PrintedGate(g).out = wire_name(net.gates[g].out)
      BY DEF PrintedGate
    <3> QED
      BY <3>1, PrintedText DEF Renamed
  <2>2. NamesOf(Printed) = Renamed(NamesOf(net))
    BY <2>1, PrintedText DEF NamesOf, Renamed
  <2> QED
    BY <2>2, NetsOfCircuit
<1>2. \A t \in SUBSET Nets : Renamed(t) \subseteq Renamed(Nets)
  BY DEF Renamed
<1>3. ASSUME NEW t \in Consistents(net) PROVE Renamed(t) \in Consistents(Printed)
  <2>1. t \in SUBSET Nets /\ Consistent(net, t)
    BY NetsOfCircuit DEF Consistents
  <2> QED
    BY <1>1, <1>2, <2>1, ConsistentRenamed DEF Consistents
<1>4. ASSUME NEW u \in Consistents(Printed)
      PROVE  \E t \in Consistents(net) : u = Renamed(t)
  <2> DEFINE t == {x \in Nets : wire_name(x) \in u}
  <2>1. u \subseteq Renamed(Nets) /\ Consistent(Printed, u)
    BY <1>1 DEF Consistents
  <2>2. u = Renamed(t)
    BY <2>1 DEF Renamed
  <2>3. t \in SUBSET Nets
    OBVIOUS
  <2> HIDE DEF t
  <2>4. Consistent(net, t)
    BY <2>1, <2>2, <2>3, ConsistentRenamed
  <2>5. t \in Consistents(net)
    BY <2>3, <2>4, NetsOfCircuit DEF Consistents
  <2> QED
    BY <2>2, <2>5
<1> QED
  BY <1>3, <1>4

\* However often the gates have been sorted and whatever names the nets have got,
\* the printed text computes what the circuit computes, for all circuits, when
\* no two nets have one name.
THEOREM CircuitsArePrintedSame == PrintSpec => []PrintedSame
<1>1. PrintInv => PrintedSame
  <2> SUFFICES ASSUME PrintInv, NoTwoAlike
               PROVE  Behaviour(Printed) =
                      {<<Renamed(b[1]), Renamed(b[2])>> : b \in Behaviour(net)}
    BY DEF PrintedSame, NoTwoAlike, Renamed
  <2>1. ASSUME NEW t \in Consistents(net)
        PROVE  /\ Renamed(t) \cap Printed.ins = Renamed(t \cap net.ins)
               /\ Renamed(t) \cap Printed.outs = Renamed(t \cap net.outs)
    <3>1. t \in SUBSET Nets
      BY NetsOfCircuit DEF Consistents
    <3> QED
      BY <3>1, NetsOfCircuit, PrintedText, RenamedSets
  <2>2. ASSUME NEW b \in Behaviour(Printed)
        PROVE  b \in {<<Renamed(a[1]), Renamed(a[2])>> : a \in Behaviour(net)}
    <3>1. PICK u \in Consistents(Printed) : b = <<u \cap Printed.ins, u \cap Printed.outs>>
      BY BehaviourIs
    <3>2. PICK t \in Consistents(net) : u = Renamed(t)
      BY ConsistentsRenamed
    <3>3. <<t \cap net.ins, t \cap net.outs>> \in Behaviour(net)
      BY BehaviourIs
    <3>4. b = <<Renamed(t \cap net.ins), Renamed(t \cap net.outs)>>
      BY <2>1, <3>1, <3>2
    <3> DEFINE pair == <<t \cap net.ins, t \cap net.outs>>
    <3>5. b = <<Renamed(pair[1]), Renamed(pair[2])>>
      BY <3>4
    <3> HIDE DEF pair
    <3>6. pair \in Behaviour(net)
      BY <3>3 DEF pair
    <3> QED
      BY <3>5, <3>6
  <2>3. ASSUME NEW a \in Behaviour(net)
        PROVE  <<Renamed(a[1]), Renamed(a[2])>> \in Behaviour(Printed)
    <3>1. PICK t \in Consistents(net) : a = <<t \cap net.ins, t \cap net.outs>>
      BY BehaviourIs
    <3>2. Renamed(t) \in Consistents(Printed)
      BY ConsistentsRenamed
    <3>3. <<Renamed(t) \cap Printed.ins, Renamed(t) \cap Printed.outs>> \in Behaviour(Printed)
      BY <3>2, BehaviourIs
    <3> QED
      BY <2>1, <3>1, <3>3
  <2> QED
    BY <2>2, <2>3
<1> QED
  BY <1>1, PrintInvariance, PTL
-------------------------------------------------------------------------------
(***************************************************************************)
(* The signatures of misc/old_matcher.cpp say of every output how many of  *)
(* its inputs are in which cluster, its clusters hold the outputs of their *)
(* signature, and a cluster means as many inputs in both circuits, for all *)
(* circuits and all choices of rand().                                     *)
(***************************************************************************)
(***************************************************************************)
(* The order of std::string, and its least element.                        *)
(***************************************************************************)
\* Two signatures agree up to a position that one of them does not have, or at
\* which they differ.
Parts(s, t, k) ==
    /\ k \in 1 .. Len(s) + 1 /\ k \in 1 .. Len(t) + 1
    /\ \A i \in 1 .. k - 1 : s[i] = t[i]
    /\ k = Len(s) + 1 \/ k = Len(t) + 1 \/ s[k] # t[k]

\* A set of positions has a first.
LEMMA FirstOf ==
    ASSUME NEW S \in SUBSET Nat, S # {}
    PROVE  \E m \in S : \A n \in S : m <= n
<1>1. PICK m \in S : \A n \in S : ~(<<n, m>> \in OpToRel(<, Nat))
  BY NatLessThanWellFounded, WFMin
<1>2. \A n \in S : ~(n < m)
  BY <1>1 DEF OpToRel
<1> QED
  BY <1>2

\* Different signatures part somewhere.
LEMMA PartSomewhere ==
    ASSUME NEW s \in Seq(Nat), NEW t \in Seq(Nat)
    PROVE  \E k : Parts(s, t, k)
<1> DEFINE S == {k \in 1 .. Len(s) + 1 :
                    k <= Len(t) + 1 /\ (k = Len(s) + 1 \/ k = Len(t) + 1 \/ s[k] # t[k])}
<1>1. Len(s) \in Nat /\ Len(t) \in Nat
  OBVIOUS
<1>2. S \in SUBSET Nat /\ S # {}
  <2>1. S \in SUBSET Nat
    BY <1>1
  <2>2. Len(s) <= Len(t) => Len(s) + 1 \in S
    BY <1>1
  <2>3. Len(t) < Len(s) => Len(t) + 1 \in S
    BY <1>1
  <2>4. Len(s) <= Len(t) \/ Len(t) < Len(s)
    BY <1>1
  <2> HIDE DEF S
  <2> QED
    BY <2>1, <2>2, <2>3, <2>4
<1>3. PICK m \in S : \A n \in S : m <= n
  BY <1>2, FirstOf
<1>4. \A i \in 1 .. m - 1 : i \notin S
  BY <1>1, <1>3
<1>5. ASSUME NEW i \in 1 .. m - 1 PROVE s[i] = t[i]
  <2>1. i \in 1 .. Len(s) + 1 /\ i <= Len(t) + 1 /\ i \notin S
    BY <1>1, <1>3, <1>4
  <2> QED
    BY <2>1
<1>6. /\ m \in 1 .. Len(s) + 1 /\ m \in 1 .. Len(t) + 1
      /\ m = Len(s) + 1 \/ m = Len(t) + 1 \/ s[m] # t[m]
  BY <1>1, <1>3
<1> QED
  BY <1>5, <1>6 DEF Parts

\* Where two signatures part decides which one is less.
LEMMA LessAtPart ==
    ASSUME NEW s \in Seq(Nat), NEW t \in Seq(Nat), NEW k, Parts(s, t, k)
    PROVE  SignLess(s, t) <=> k <= Len(t) /\ (k = Len(s) + 1 \/ s[k] < t[k])
<1>1. Len(s) \in Nat /\ Len(t) \in Nat /\ k \in Nat
  BY DEF Parts
<1>2. ASSUME SignLess(s, t) PROVE k <= Len(t) /\ (k = Len(s) + 1 \/ s[k] < t[k])
  <2>1. PICK j \in 1 .. Len(t) : /\ j <= Len(s) + 1
                                 /\ \A i \in 1 .. j - 1 : s[i] = t[i]
                                 /\ j = Len(s) + 1 \/ s[j] < t[j]
    BY <1>2 DEF SignLess
  <2>2. ~(j < k)
    <3> SUFFICES ASSUME j < k PROVE FALSE
      OBVIOUS
    <3>1. s[j] = t[j] /\ j <= Len(s) /\ s[j] \in Nat
      BY <1>1, <2>1 DEF Parts
    <3> QED
      BY <1>1, <2>1, <3>1
  <2>3. ~(k < j)
    <3> SUFFICES ASSUME k < j PROVE FALSE
      OBVIOUS
    <3>1. s[k] = t[k] /\ k <= Len(s) /\ k <= Len(t)
      BY <1>1, <2>1 DEF Parts
    <3> QED
      BY <1>1, <3>1 DEF Parts
  <2>4. j = k
    BY <1>1, <2>1, <2>2, <2>3
  <2> QED
    BY <2>1, <2>4
<1>3. ASSUME k <= Len(t), k = Len(s) + 1 \/ s[k] < t[k] PROVE SignLess(s, t)
  BY <1>1, <1>3 DEF SignLess, Parts
<1> QED
  BY <1>2, <1>3

\* The order is total.
LEMMA LessTotal ==
    ASSUME NEW s \in Seq(Nat), NEW t \in Seq(Nat), s # t
    PROVE  SignLess(s, t) \/ SignLess(t, s)
<1>1. PICK k : Parts(s, t, k)
  BY PartSomewhere
<1>2. Parts(t, s, k)
  BY <1>1 DEF Parts
<1>3. Len(s) \in Nat /\ Len(t) \in Nat /\ k \in Nat
  BY <1>1 DEF Parts
<1>4. CASE k = Len(s) + 1 /\ k = Len(t) + 1
  <2>1. Len(s) = Len(t) /\ \A i \in 1 .. Len(s) : s[i] = t[i]
    BY <1>1, <1>3, <1>4 DEF Parts
  <2> QED
    BY <2>1, SeqEqual
<1>5. CASE k <= Len(s) /\ k <= Len(t)
  <2>1. s[k] # t[k] /\ s[k] \in Nat /\ t[k] \in Nat
    BY <1>1, <1>3, <1>5 DEF Parts
  <2>2. s[k] < t[k] \/ t[k] < s[k]
    BY <2>1
  <2> QED
    BY <1>1, <1>2, <1>5, <2>2, LessAtPart
<1>6. CASE k = Len(s) + 1 /\ k <= Len(t)
  BY <1>1, <1>6, LessAtPart
<1>7. CASE k = Len(t) + 1 /\ k <= Len(s)
  BY <1>2, <1>7, LessAtPart
<1> QED
  BY <1>1, <1>3, <1>4, <1>5, <1>6, <1>7 DEF Parts

\* The order is transitive.
LEMMA LessTransitive ==
    ASSUME NEW s \in Seq(Nat), NEW t \in Seq(Nat), NEW u \in Seq(Nat),
           SignLess(s, t), SignLess(t, u)
    PROVE  SignLess(s, u)
<1>1. PICK j \in 1 .. Len(t) : /\ j <= Len(s) + 1
                               /\ \A i \in 1 .. j - 1 : s[i] = t[i]
                               /\ j = Len(s) + 1 \/ s[j] < t[j]
  BY DEF SignLess
<1>2. PICK k \in 1 .. Len(u) : /\ k <= Len(t) + 1
                               /\ \A i \in 1 .. k - 1 : t[i] = u[i]
                               /\ k = Len(t) + 1 \/ t[k] < u[k]
  BY DEF SignLess
<1>3. Len(s) \in Nat /\ Len(t) \in Nat /\ Len(u) \in Nat
  OBVIOUS
<1>4. CASE j < k
  <2>1. t[j] = u[j] /\ j \in 1 .. Len(u) /\ \A i \in 1 .. j - 1 : s[i] = u[i]
    BY <1>1, <1>2, <1>3, <1>4
  <2> QED
    BY <1>1, <2>1 DEF SignLess
<1>5. CASE k < j
  <2>1. s[k] = t[k] /\ k <= Len(s) /\ t[k] < u[k] /\ \A i \in 1 .. k - 1 : s[i] = u[i]
    BY <1>1, <1>2, <1>3, <1>5
  <2>2. s[k] < u[k] /\ k <= Len(s) + 1
    BY <1>3, <2>1
  <2> QED
    BY <2>1, <2>2 DEF SignLess
<1>6. CASE j = k
  <2>1. t[k] < u[k] /\ t[k] \in Nat /\ u[k] \in Nat /\ \A i \in 1 .. k - 1 : s[i] = u[i]
    BY <1>1, <1>2, <1>3, <1>6
  <2>2. j = Len(s) + 1 \/ (s[j] \in Nat /\ s[j] < u[j])
    BY <1>1, <1>3, <1>6, <2>1
  <2> QED
    BY <1>1, <1>2, <1>6, <2>1, <2>2 DEF SignLess
<1> QED
  BY <1>1, <1>2, <1>3, <1>4, <1>5, <1>6

\* No signature is less than itself.
LEMMA LessIrreflexive ==
    ASSUME NEW s \in Seq(Nat) PROVE ~SignLess(s, s)
<1>1. \A k \in 1 .. Len(s) : s[k] \in Nat
  OBVIOUS
<1> QED
  BY <1>1 DEF SignLess

\* Of finitely many signatures one is least.
LEMMA LeastIsOne ==
    ASSUME NEW S \in SUBSET Seq(Nat), IsFiniteSet(S), S # {}
    PROVE  Least(S) \in S
<1> DEFINE Below(s) == {u \in S : SignLess(u, s)}
           Size == {Cardinality(Below(s)) : s \in S}
<1>1. \A s \in S : IsFiniteSet(Below(s)) /\ Cardinality(Below(s)) \in Nat
  BY FS_Subset, FS_CardinalityType
<1>2. Size \in SUBSET Nat /\ Size # {}
  BY <1>1
<1>3. PICK m \in Size : \A n \in Size : m <= n
  <2> HIDE DEF Size
  <2> QED
    BY <1>2, FirstOf
<1>4. PICK s \in S : m = Cardinality(Below(s))
  OBVIOUS
<1>5. ASSUME NEW t \in S \ {s} PROVE SignLess(s, t)
  <2> SUFFICES ASSUME ~SignLess(s, t) PROVE FALSE
    OBVIOUS
  <2>1. SignLess(t, s)
    BY LessTotal
  <2>2. Below(t) \subseteq Below(s)
    BY <2>1, LessTransitive
  <2>3. t \in Below(s) /\ t \notin Below(t)
    BY <2>1, LessIrreflexive
  <2>4. Cardinality(Below(t)) <= Cardinality(Below(s))
        /\ (Cardinality(Below(t)) = Cardinality(Below(s)) => Below(t) = Below(s))
    <3>1. IsFiniteSet(Below(s)) /\ Below(t) \in SUBSET Below(s)
      BY <1>1, <2>2
    <3> HIDE DEF Below
    <3> QED
      BY <3>1, FS_Subset
  <2>5. Cardinality(Below(s)) <= Cardinality(Below(t))
    BY <1>3, <1>4
  <2>6. Cardinality(Below(s)) \in Nat /\ Cardinality(Below(t)) \in Nat
    BY <1>1
  <2> HIDE DEF Below
  <2> QED
    BY <2>3, <2>4, <2>5, <2>6
<1> QED
  BY <1>5 DEF Least

-------------------------------------------------------------------------------
(***************************************************************************)
(* The data of one circuit, and the ids cl its inputs were matched under.  *)
(* A signature has an id for each matched input and a zero for each other, *)
(* an output of a matched cluster reads no unmatched input, and no id is   *)
(* after that of the last matched cluster; circuits have few enough        *)
(* outputs for the ids to be chars.                                        *)
(***************************************************************************)
MatchedInputs(d, po) == d.outputSupport[po] \ d.unmatchedInputs
LargestId(d) == UnmatchedId + Cardinality(DOMAIN d.matchedClusters)
PlacesOf(sign, id) == {i \in DOMAIN sign : sign[i] = id}
InputsUnder(d, cl, po, id) == {pi \in MatchedInputs(d, po) : cl[pi] = id}

IsData(d) ==
    d = [unmatchedInputs   |-> d.unmatchedInputs,
         matchedInputs     |-> d.matchedInputs,
         unmatchedOutputs  |-> d.unmatchedOutputs,
         matchedOutputs    |-> d.matchedOutputs,
         outputSupport     |-> d.outputSupport,
         inputSupport      |-> d.inputSupport,
         outputSignatures  |-> d.outputSignatures,
         matchedClusters   |-> d.matchedClusters,
         unmatchedClusters |-> d.unmatchedClusters]

DataTyped(d) ==
    /\ IsData(d)
    /\ IsFiniteSet(OutputsOf(d))
    /\ UnmatchedId + Cardinality(OutputsOf(d)) < 2^CharBits
    /\ \A po \in OutputsOf(d) : IsFiniteSet(d.outputSupport[po])
    /\ d.outputSignatures \in [OutputsOf(d) -> Seq(Nat)]
    /\ d.unmatchedOutputs \subseteq OutputsOf(d)
    /\ IsFiniteSet(DOMAIN d.matchedClusters)
    /\ \A s \in DOMAIN d.matchedClusters :
          d.matchedClusters[s] # {} /\ d.matchedClusters[s] \subseteq OutputsOf(d)

\* The ids of an output come before its zeros.
ShapedAs(sign, matched, inputs) ==
    /\ Len(sign) = Cardinality(inputs)
    /\ \A i \in DOMAIN sign : sign[i] = UnmatchedId <=> i > Cardinality(matched)

OldShaped(d) ==
    \A po \in OutputsOf(d) :
        ShapedAs(d.outputSignatures[po], MatchedInputs(d, po), d.outputSupport[po])

InputsRead(d) ==
    \A pi \in d.unmatchedInputs :
        /\ pi \in DOMAIN d.inputSupport
        /\ d.inputSupport[pi] = {po \in OutputsOf(d) : pi \in d.outputSupport[po]}

Filed(d) ==
    /\ \A s \in DOMAIN d.unmatchedClusters :
          d.unmatchedClusters[s] # {} /\ d.unmatchedClusters[s] \subseteq d.unmatchedOutputs
    /\ \A po \in OutputsOf(d) :
          /\ \A s : po \in At(d.unmatchedClusters, s) \cup At(d.matchedClusters, s) <=>
                       s = d.outputSignatures[po]
          /\ po \in At(d.unmatchedClusters, d.outputSignatures[po]) <=>
                po \notin At(d.matchedClusters, d.outputSignatures[po])

MatchedComplete(d) ==
    \A po \in OutputsOf(d) : \A s :
        po \in At(d.matchedClusters, s) => UnmatchedInputs(d, po) = {}

InputsCounted(d, cl) ==
    /\ DOMAIN cl \cap d.unmatchedInputs = {}
    /\ \A pi \in DOMAIN cl : cl[pi] \in UnmatchedId + 1 .. LargestId(d)
    /\ \A po \in OutputsOf(d) : MatchedInputs(d, po) \subseteq DOMAIN cl

SignatureCounts(d, cl, po, sign) ==
    /\ \A i \in DOMAIN sign : sign[i] <= LargestId(d)
    /\ \A i, j \in DOMAIN sign : i < j /\ sign[j] # UnmatchedId => sign[i] <= sign[j]
    /\ \A id \in Nat \ {UnmatchedId} :
          Cardinality(PlacesOf(sign, id)) = Cardinality(InputsUnder(d, cl, po, id))

Counted(d, cl) ==
    /\ InputsCounted(d, cl)
    /\ \A po \in OutputsOf(d) : SignatureCounts(d, cl, po, d.outputSignatures[po])

DataInv(d, cl) ==
    /\ DataTyped(d) /\ OldShaped(d) /\ InputsRead(d)
    /\ Filed(d) /\ MatchedComplete(d) /\ Counted(d, cl)

\* What is filed after some have left and others have come.
RefiledTo(r, clusters, pos, arriving, new) ==
    /\ \A s : At(r, s) = (At(clusters, s) \ pos) \cup {o \in arriving : new[o] = s}
    /\ \A s \in DOMAIN r : r[s] # {} /\ r[s] = At(r, s)
    /\ DOMAIN r \subseteq DOMAIN clusters \cup {new[o] : o \in arriving}

\* The clusters are refiled as their name says, and none is empty.
LEMMA RefiledAt ==
    ASSUME NEW clusters, NEW pos, NEW arriving, NEW new
    PROVE  RefiledTo(Refiled(clusters, pos, arriving, new), clusters, pos, arriving, new)
<1> DEFINE Came(s) == {o \in arriving : new[o] = s}
           ClusterMembers(s) == (At(clusters, s) \ pos) \cup Came(s)
           Kept == {t \in DOMAIN clusters \cup {new[o] : o \in arriving} : ClusterMembers(t) # {}}
           r == [s \in Kept |-> ClusterMembers(s)]
<1>1. Refiled(clusters, pos, arriving, new) = r
  BY DEF Refiled
<1>2. \A s : s \notin DOMAIN clusters \cup {new[o] : o \in arriving} => ClusterMembers(s) = {}
  BY DEF At
<1>3. ASSUME NEW s PROVE At(r, s) = ClusterMembers(s)
  <2>1. s \in Kept <=> ClusterMembers(s) # {}
    BY <1>2
  <2> HIDE DEF ClusterMembers
  <2>2. DOMAIN r = Kept /\ \A t \in Kept : r[t] = ClusterMembers(t)
    OBVIOUS
  <2> HIDE DEF Kept, r
  <2> QED
    BY <2>1, <2>2 DEF At
<1>4. \A s \in DOMAIN r : r[s] # {} /\ r[s] = At(r, s)
  BY DEF At
<1>5. DOMAIN r \subseteq DOMAIN clusters \cup {new[o] : o \in arriving}
  OBVIOUS
<1> HIDE DEF r, Kept
<1>6. \A s : At(r, s) = (At(clusters, s) \ pos) \cup {o \in arriving : new[o] = s}
  BY <1>3
<1> QED
  BY <1>1, <1>4, <1>5, <1>6 DEF RefiledTo

\* updateSignature gives the id to the zeros that come first.
LEMMA UpdatedSignature ==
    ASSUME NEW sign \in Seq(Nat), NEW p \in Nat, p <= Len(sign),
           \A i \in DOMAIN sign : sign[i] = UnmatchedId <=> i > p,
           NEW id \in Nat, NEW n \in Nat
    PROVE  /\ UpdateSignature(sign, id, n) \in Seq(Nat)
           /\ Len(UpdateSignature(sign, id, n)) = Len(sign)
           /\ \A i \in DOMAIN sign :
                 UpdateSignature(sign, id, n)[i] = IF i \in p + 1 .. p + n THEN id ELSE sign[i]
<1> DEFINE before == {i \in DOMAIN sign : \A j \in 1..i : sign[j] # UnmatchedId}
<1>1. Len(sign) \in Nat /\ DOMAIN sign = 1 .. Len(sign) /\ \A i \in DOMAIN sign : sign[i] \in Nat
  OBVIOUS
<1>2. before = 1 .. p
  <2>1. ASSUME NEW i \in 1 .. p PROVE i \in before
    BY <1>1
  <2>2. ASSUME NEW i \in before PROVE i \in 1 .. p
    <3>1. i \in 1 .. i /\ i \in DOMAIN sign
      BY <1>1
    <3>2. ~(i > p)
      BY <3>1
    <3> QED
      BY <1>1, <3>1, <3>2
  <2> HIDE DEF before
  <2> QED
    BY <2>1, <2>2
<1> HIDE DEF before
<1>3. Cardinality(before) = p
  <2>1. Cardinality(1 .. p) = IF 1 > p THEN 0 ELSE p - 1 + 1
    BY FS_Interval
  <2>2. (IF 1 > p THEN 0 ELSE p - 1 + 1) = p
    OBVIOUS
  <2> QED
    BY <1>2, <2>1, <2>2
<1>4. UpdateSignature(sign, id, n) =
         [i \in 1 .. Len(sign) |-> IF i \in p + 1 .. p + 1 + n - 1 THEN id ELSE sign[i]]
  BY <1>1, <1>3 DEF UpdateSignature, before
<1>5. p + 1 + n - 1 = p + n
  OBVIOUS
<1> QED
  BY <1>1, <1>4, <1>5

\* The outputs whose signature changes with po's, and those that come to have
\* the same one.
InputMoved(d, po) ==
    {o \in d.unmatchedOutputs : SignaturesAfter(d, po)[o] # d.outputSignatures[o]} \ {po}
Grouped(d, po) ==
    {o \in InputMoved(d, po) : SignaturesAfter(d, po)[o] = SignaturesAfter(d, po)[po]}

\* CircuitData::match, field by field.
LEMMA MatchedData ==
    ASSUME NEW d, IsData(d), NEW po \in d.unmatchedOutputs
    PROVE  LET sign == SignaturesAfter(d, po)
               new == MatchOutput(d, po)
           IN  /\ IsData(new)
               /\ new.unmatchedInputs = d.unmatchedInputs \ UnmatchedInputs(d, po)
               /\ new.unmatchedOutputs = d.unmatchedOutputs \ {po}
               /\ new.outputSupport = d.outputSupport
               /\ new.inputSupport = d.inputSupport
               /\ new.outputSignatures = sign
               /\ new.matchedClusters =
                     Refiled(d.matchedClusters, {}, {po} \cup Grouped(d, po), sign)
               /\ new.unmatchedClusters =
                     Refiled(d.unmatchedClusters, {po} \cup InputMoved(d, po),
                             InputMoved(d, po) \ Grouped(d, po), sign)
BY DEF MatchOutput, IsData, InputMoved, Grouped

\* The signatures and supports when the readers of an input lose it.
ShorterSignatures(d, readers) ==
    [po \in DOMAIN d.outputSignatures |->
        IF po \in readers THEN Front(d.outputSignatures[po]) ELSE d.outputSignatures[po]]
SmallerSupports(d, readers, pi) ==
    [po \in DOMAIN d.outputSupport |->
        IF po \in readers THEN d.outputSupport[po] \ {pi} ELSE d.outputSupport[po]]
SupportedInputs(d, pi) == [x \in DOMAIN d.inputSupport \ {pi} |-> d.inputSupport[x]]

\* One input is stuck, field by field.
LEMMA StuckData ==
    ASSUME NEW d, IsData(d), NEW pi, NEW readers, readers = d.inputSupport[pi]
    PROVE  /\ IsData(StickInput(d, pi))
           /\ StickInput(d, pi).unmatchedInputs = d.unmatchedInputs \ {pi}
           /\ StickInput(d, pi).unmatchedOutputs = d.unmatchedOutputs
           /\ StickInput(d, pi).outputSupport = SmallerSupports(d, readers, pi)
           /\ StickInput(d, pi).inputSupport = SupportedInputs(d, pi)
           /\ StickInput(d, pi).outputSignatures = ShorterSignatures(d, readers)
           /\ StickInput(d, pi).matchedClusters = d.matchedClusters
           /\ StickInput(d, pi).unmatchedClusters =
                 Refiled(d.unmatchedClusters, readers, readers, ShorterSignatures(d, readers))
<1> DEFINE sign == ShorterSignatures(d, readers)
           support == SmallerSupports(d, readers, pi)
           inputs == SupportedInputs(d, pi)
           clusters == Refiled(d.unmatchedClusters, readers, readers, sign)
<1>1. StickInput(d, pi) =
         [d EXCEPT !.outputSupport = support,
                   !.inputSupport = inputs,
                   !.outputSignatures = sign,
                   !.unmatchedClusters = clusters,
                   !.unmatchedInputs = d.unmatchedInputs \ {pi}]
  BY DEF StickInput, IsData, ShorterSignatures, SmallerSupports, SupportedInputs
<1> HIDE DEF sign, support, inputs, clusters
<1>2. /\ StickInput(d, pi).outputSupport = support
      /\ StickInput(d, pi).inputSupport = inputs
      /\ StickInput(d, pi).outputSignatures = sign
      /\ StickInput(d, pi).unmatchedClusters = clusters
      /\ StickInput(d, pi).unmatchedInputs = d.unmatchedInputs \ {pi}
      /\ StickInput(d, pi).unmatchedOutputs = d.unmatchedOutputs
      /\ StickInput(d, pi).matchedClusters = d.matchedClusters
  BY <1>1 DEF IsData
<1>3. IsData(StickInput(d, pi))
  BY <1>1 DEF IsData
<1> QED
  BY <1>2, <1>3 DEF sign, support, inputs, clusters

-------------------------------------------------------------------------------
(***************************************************************************)
(* CircuitData::match of an output po: of every output, the unmatched      *)
(* inputs that po reads too become matched, and as many zeros the new id.  *)
(***************************************************************************)
Taken(d, po, o) == UnmatchedInputs(d, po) \cap d.outputSupport[o]

\* The n zeros of a signature that come behind its first p ids become ids.
TakesIds(old, new, p, n, id) ==
    /\ new \in Seq(Nat) /\ Len(new) = Len(old)
    /\ \A i \in DOMAIN old : new[i] = IF i \in p + 1 .. p + n THEN id ELSE old[i]

\* An output that waits to be matched is not matched; any other one is.
LEMMA WhereOutputsAre ==
    ASSUME NEW d, DataTyped(d), Filed(d), MatchedComplete(d), NEW o \in OutputsOf(d)
    PROVE  /\ \A s : o \in At(d.unmatchedClusters, s) => o \in d.unmatchedOutputs
           /\ \A s : o \in At(d.unmatchedClusters, s) => s = d.outputSignatures[o]
           /\ \A s : o \in At(d.matchedClusters, s) => s = d.outputSignatures[o]
           /\ UnmatchedInputs(d, o) # {} =>
                 /\ \A s : o \notin At(d.matchedClusters, s)
                 /\ o \in At(d.unmatchedClusters, d.outputSignatures[o])
           /\ o \notin d.unmatchedOutputs => UnmatchedInputs(d, o) = {}
<1>1. \A s : o \in At(d.unmatchedClusters, s) => o \in d.unmatchedOutputs
  BY DEF Filed, At
<1>2. /\ \A s : o \in At(d.unmatchedClusters, s) => s = d.outputSignatures[o]
      /\ \A s : o \in At(d.matchedClusters, s) => s = d.outputSignatures[o]
  BY DEF Filed
<1>3. UnmatchedInputs(d, o) # {} => \A s : o \notin At(d.matchedClusters, s)
  BY DEF MatchedComplete
<1>4. o \in At(d.unmatchedClusters, d.outputSignatures[o])
      <=> o \notin At(d.matchedClusters, d.outputSignatures[o])
  BY DEF Filed
<1> QED
  BY <1>1, <1>2, <1>3, <1>4

\* A set of unmatched inputs of an output, beside its matched ones.
HasRoom(d, o, T) ==
    LET M == MatchedInputs(d, o)
    IN  /\ Cardinality(T) \in Nat /\ Cardinality(M) \in Nat
        /\ Cardinality(M \cup T) = Cardinality(M) + Cardinality(T)
        /\ Cardinality(M) + Cardinality(T) <= Len(d.outputSignatures[o])
        /\ T = UnmatchedInputs(d, o) =>
              Cardinality(M) + Cardinality(T) = Len(d.outputSignatures[o])

\* As many inputs as become matched, as many zeros there are to replace.
LEMMA EnoughZeros ==
    ASSUME NEW d, DataTyped(d), OldShaped(d), NEW o \in OutputsOf(d),
           NEW T \in SUBSET UnmatchedInputs(d, o)
    PROVE  HasRoom(d, o, T)
<1> DEFINE M == MatchedInputs(d, o)
           S == d.outputSupport[o]
<1>1. IsFiniteSet(S) /\ M \in SUBSET S /\ T \in SUBSET S /\ M \cup T \in SUBSET S
      /\ M \cap T = {} /\ (T = UnmatchedInputs(d, o) => M \cup T = S)
  BY DEF DataTyped, MatchedInputs, UnmatchedInputs
<1>2. Len(d.outputSignatures[o]) = Cardinality(S)
  BY DEF OldShaped, ShapedAs
<1> HIDE DEF M, S
<1>3. /\ IsFiniteSet(M) /\ IsFiniteSet(T) /\ Cardinality(M) \in Nat /\ Cardinality(T) \in Nat
      /\ Cardinality(M \cup T) <= Cardinality(S)
  BY <1>1, FS_Subset, FS_CardinalityType
<1>4. Cardinality(M \cup T) = Cardinality(M) + Cardinality(T)
  <2>1. Cardinality(M \cup T) = Cardinality(M) + Cardinality(T) - Cardinality(M \cap T)
    BY <1>3, FS_Union
  <2>2. Cardinality(M \cap T) = 0
    BY <1>1, FS_EmptySet
  <2> QED
    BY <1>3, <2>1, <2>2
<1> QED
  BY <1>1, <1>2, <1>3, <1>4 DEF M, S, HasRoom

\* The inputs that are taken with po.
LEMMA TakenInputs ==
    ASSUME NEW d, DataTyped(d), OldShaped(d), NEW po, NEW o \in OutputsOf(d)
    PROVE  /\ Taken(d, po, o) \in SUBSET UnmatchedInputs(d, o)
           /\ Cardinality(Taken(d, po, o)) \in Nat
           /\ Cardinality(MatchedInputs(d, o)) \in Nat
           /\ Cardinality(MatchedInputs(d, o) \cup Taken(d, po, o)) =
                 Cardinality(MatchedInputs(d, o)) + Cardinality(Taken(d, po, o))
           /\ Cardinality(MatchedInputs(d, o)) + Cardinality(Taken(d, po, o))
                 <= Len(d.outputSignatures[o])
           /\ UnmatchedInputs(d, o) \subseteq UnmatchedInputs(d, po) =>
                 Cardinality(MatchedInputs(d, o)) + Cardinality(Taken(d, po, o))
                    = Len(d.outputSignatures[o])
<1>1. PICK T \in SUBSET UnmatchedInputs(d, o) : T = Taken(d, po, o)
  BY DEF Taken, UnmatchedInputs
<1>2. UnmatchedInputs(d, o) \subseteq UnmatchedInputs(d, po) => T = UnmatchedInputs(d, o)
  BY <1>1 DEF Taken, UnmatchedInputs
<1>3. HasRoom(d, o, T)
  BY EnoughZeros
<1> QED
  BY <1>1, <1>2, <1>3 DEF HasRoom

\* The outputs po may be when its signature is common to both circuits.
Waits(d, po) == po \in d.unmatchedOutputs /\ po \in At(d.unmatchedClusters, d.outputSignatures[po])

\* An id is a character.
LEMMA NewIdTyped ==
    ASSUME NEW d, DataTyped(d)
    PROVE  NewClusterId(d) \in Nat
<1>1. 2^CharBits \in Nat \ {0}
  BY WordSize, CharBitsAssumption
<1>2. Cardinality(DOMAIN d.matchedClusters) \in Nat
  BY FS_CardinalityType DEF DataTyped
<1> DEFINE n == UnmatchedId + Cardinality(DOMAIN d.matchedClusters) + 1
<1>3. n \in Nat
  BY <1>2 DEF UnmatchedId
<1> HIDE DEF n
<1>4. n % 2^CharBits \in Nat
  BY <1>1, <1>3
<1> QED
  BY <1>4 DEF NewClusterId, n

\* While an output waits there are fewer matched signatures than outputs, because
\* each is that of an output that does not wait: the next id is not narrowed.
LEMMA NewIdFits ==
    ASSUME NEW d, DataTyped(d), Filed(d), NEW po, Waits(d, po)
    PROVE  /\ LargestId(d) \in Nat /\ UnmatchedId <= LargestId(d)
           /\ NewClusterId(d) = LargestId(d) + 1
<1> DEFINE D == DOMAIN d.matchedClusters
           O == OutputsOf(d)
           R == O \ {po}
           f == [o \in R |-> d.outputSignatures[o]]
           T == {f[o] : o \in R}
<1>1. /\ IsFiniteSet(O) /\ IsFiniteSet(D) /\ po \in O
      /\ UnmatchedId + Cardinality(O) < 2^CharBits
  BY DEF DataTyped, Waits
<1>2. /\ IsFiniteSet(R) /\ Cardinality(R) = Cardinality(O) - 1
      /\ Cardinality(O) \in Nat /\ Cardinality(D) \in Nat
  <2> HIDE DEF O, D
  <2> QED
    BY <1>1, FS_RemoveElement, FS_CardinalityType
<1>3. D \subseteq T
  <2> SUFFICES ASSUME NEW s \in D PROVE s \in T
    OBVIOUS
  <2>1. PICK o \in O : o \in At(d.matchedClusters, s)
    BY DEF DataTyped, At
  <2>2. s = d.outputSignatures[o] /\ o \in At(d.matchedClusters, d.outputSignatures[o])
    BY <2>1 DEF Filed
  <2>3. o # po
    BY <1>1, <2>2 DEF Filed, Waits
  <2>4. o \in R /\ f[o] = s
    BY <2>2, <2>3
  <2> HIDE DEF f, R
  <2> QED
    BY <2>4
<1>4. IsFiniteSet(T) /\ Cardinality(T) <= Cardinality(R)
  <2>1. f \in Surjection(R, T)
    <3> HIDE DEF R
    <3> QED
      BY DEF Surjection
  <2> HIDE DEF f, R, T
  <2> QED
    BY <1>2, <2>1, FS_Surjection
<1>5. Cardinality(D) <= Cardinality(T) /\ Cardinality(T) \in Nat
  <2> HIDE DEF T, D
  <2> QED
    BY <1>3, <1>4, FS_Subset, FS_CardinalityType
<1> HIDE DEF D, O, R, T, f
<1>6. 2^CharBits \in Nat \ {0}
  BY WordSize, CharBitsAssumption
<1>7. UnmatchedId + Cardinality(D) + 1 < 2^CharBits /\ UnmatchedId + Cardinality(D) + 1 \in Nat
  BY <1>1, <1>2, <1>4, <1>5, <1>6 DEF UnmatchedId
<1>8. (UnmatchedId + Cardinality(D) + 1) % 2^CharBits = UnmatchedId + Cardinality(D) + 1
  <2> DEFINE n == UnmatchedId + Cardinality(D) + 1
             w == 2^CharBits
  <2>1. n \in Nat /\ w \in Nat /\ n < w
    BY <1>6, <1>7
  <2> HIDE DEF n, w
  <2>2. n % w = n
    BY <2>1
  <2> QED
    BY <2>2 DEF n, w
<1> QED
  BY <1>2, <1>7, <1>8 DEF LargestId, NewClusterId, D, UnmatchedId

\* The signature of an output after po is matched.
LEMMA SignatureAfter ==
    ASSUME NEW d, DataTyped(d), OldShaped(d), Filed(d), MatchedComplete(d),
           NEW po \in d.unmatchedOutputs, NEW o \in OutputsOf(d)
    PROVE  TakesIds(d.outputSignatures[o], SignaturesAfter(d, po)[o],
                    Cardinality(MatchedInputs(d, o)), Cardinality(Taken(d, po, o)),
                    NewClusterId(d))
<1> DEFINE old == d.outputSignatures[o]
           new == SignaturesAfter(d, po)[o]
           p == Cardinality(MatchedInputs(d, o))
           n == Cardinality(Taken(d, po, o))
           id == NewClusterId(d)
<1>1. Taken(d, po, o) \in SUBSET UnmatchedInputs(d, o)
  BY DEF Taken, UnmatchedInputs
<1>2. n \in Nat /\ p \in Nat /\ p + n <= Len(old)
  BY TakenInputs
<1>3. old \in Seq(Nat) /\ DOMAIN d.outputSignatures = OutputsOf(d) /\ id \in Nat
  BY NewIdTyped DEF DataTyped
<1>4. \A i \in DOMAIN old : old[i] = UnmatchedId <=> i > p
  BY DEF OldShaped, ShapedAs
<1>5. new = IF o \in d.unmatchedOutputs THEN UpdateSignature(old, id, n) ELSE old
  BY <1>3 DEF SignaturesAfter, Taken
<1>6. o \notin d.unmatchedOutputs => n = 0
  <2>1. o \notin d.unmatchedOutputs => Taken(d, po, o) = {}
    BY <1>1, WhereOutputsAre
  <2> QED
    BY <2>1, FS_EmptySet
<1> HIDE DEF old, new, p, n, id
<1>7. CASE o \in d.unmatchedOutputs
  <2>1. p <= Len(old)
    BY <1>2, <1>3
  <2>2. /\ UpdateSignature(old, id, n) \in Seq(Nat)
        /\ Len(UpdateSignature(old, id, n)) = Len(old)
        /\ \A i \in DOMAIN old :
              UpdateSignature(old, id, n)[i] = IF i \in p + 1 .. p + n THEN id ELSE old[i]
    BY <1>2, <1>3, <1>4, <2>1, UpdatedSignature
  <2>3. TakesIds(old, new, p, n, id)
    BY <1>5, <1>7, <2>2 DEF TakesIds
  <2> QED
    BY <2>3 DEF old, new, p, n, id
<1>8. CASE o \notin d.unmatchedOutputs
  <2>1. \A i : i \notin p + 1 .. p + n
    BY <1>2, <1>6, <1>8
  <2>2. TakesIds(old, new, p, n, id)
    BY <1>3, <1>5, <1>8, <2>1 DEF TakesIds
  <2> QED
    BY <2>2 DEF old, new, p, n, id
<1> QED
  BY <1>7, <1>8

\* The inputs of an output that are matched afterwards.
LEMMA MatchedAfter ==
    ASSUME NEW d, DataTyped(d), NEW po \in d.unmatchedOutputs
    PROVE  /\ OutputsOf(MatchOutput(d, po)) = OutputsOf(d)
           /\ \A o : MatchedInputs(MatchOutput(d, po), o) = MatchedInputs(d, o) \cup Taken(d, po, o)
           /\ \A o : UnmatchedInputs(MatchOutput(d, po), o) = UnmatchedInputs(d, o) \ UnmatchedInputs(d, po)
<1>1. /\ MatchOutput(d, po).unmatchedInputs = d.unmatchedInputs \ UnmatchedInputs(d, po)
      /\ MatchOutput(d, po).outputSupport = d.outputSupport
  BY MatchedData DEF DataTyped
<1> QED
  BY <1>1 DEF OutputsOf, MatchedInputs, UnmatchedInputs, Taken

\* The zeros stay behind the ids.
LEMMA ShapedAfter ==
    ASSUME NEW d, DataTyped(d), OldShaped(d), Filed(d), MatchedComplete(d),
           NEW po \in d.unmatchedOutputs, Waits(d, po)
    PROVE  OldShaped(MatchOutput(d, po))
<1> SUFFICES ASSUME NEW o \in OutputsOf(d)
             PROVE  ShapedAs(SignaturesAfter(d, po)[o], MatchedInputs(d, o) \cup Taken(d, po, o),
                             d.outputSupport[o])
  <2>1. /\ MatchOutput(d, po).outputSignatures = SignaturesAfter(d, po)
        /\ MatchOutput(d, po).outputSupport = d.outputSupport
    BY MatchedData DEF DataTyped
  <2>2. /\ OutputsOf(MatchOutput(d, po)) = OutputsOf(d)
        /\ \A o : MatchedInputs(MatchOutput(d, po), o) = MatchedInputs(d, o) \cup Taken(d, po, o)
    BY MatchedAfter
  <2> QED
    BY <2>1, <2>2 DEF OldShaped
<1> DEFINE old == d.outputSignatures[o]
           new == SignaturesAfter(d, po)[o]
           p == Cardinality(MatchedInputs(d, o))
           n == Cardinality(Taken(d, po, o))
           id == NewClusterId(d)
<1>1. TakesIds(old, new, p, n, id)
  BY SignatureAfter
<1>3. /\ p \in Nat /\ n \in Nat
      /\ Cardinality(MatchedInputs(d, o) \cup Taken(d, po, o)) = p + n
  BY TakenInputs
<1>4. id \in Nat /\ id # UnmatchedId /\ old \in Seq(Nat)
  <2>1. id = LargestId(d) + 1 /\ LargestId(d) \in Nat /\ UnmatchedId <= LargestId(d)
    BY NewIdFits
  <2>2. old \in Seq(Nat)
    BY DEF DataTyped
  <2> HIDE DEF id, old
  <2> QED
    BY <2>1, <2>2 DEF UnmatchedId
<1>5. Len(old) = Cardinality(d.outputSupport[o])
      /\ \A i \in DOMAIN old : old[i] = UnmatchedId <=> i > p
  BY DEF OldShaped, ShapedAs
<1> HIDE DEF old, new, p, n, id
<1>6. DOMAIN new = DOMAIN old /\ DOMAIN old \subseteq Nat
  BY <1>1, <1>4 DEF TakesIds
<1>7. \A i \in DOMAIN new : new[i] = UnmatchedId <=> i > p + n
  <2> SUFFICES ASSUME NEW i \in DOMAIN new PROVE new[i] = UnmatchedId <=> i > p + n
    OBVIOUS
  <2>1. i \in Nat /\ new[i] = IF i \in p + 1 .. p + n THEN id ELSE old[i]
    BY <1>1, <1>6 DEF TakesIds
  <2>2. old[i] = UnmatchedId <=> i > p
    BY <1>5, <1>6
  <2> QED
    BY <1>3, <1>4, <2>1, <2>2
<1>8. Len(new) = Cardinality(d.outputSupport[o])
  BY <1>1, <1>5 DEF TakesIds
<1> QED
  BY <1>3, <1>7, <1>8 DEF ShapedAs, new

\* An output whose signature changes reads unmatched inputs.
LEMMA MovedReads ==
    ASSUME NEW d, DataTyped(d), OldShaped(d), Filed(d), MatchedComplete(d),
           NEW po \in d.unmatchedOutputs, NEW o \in InputMoved(d, po)
    PROVE  UnmatchedInputs(d, o) # {}
<1> SUFFICES ASSUME UnmatchedInputs(d, o) = {} PROVE FALSE
  OBVIOUS
<1> DEFINE old == d.outputSignatures[o]
           new == SignaturesAfter(d, po)[o]
           p == Cardinality(MatchedInputs(d, o))
<1>1. o \in OutputsOf(d) /\ old # new
  BY DEF InputMoved, DataTyped
<1>2. Taken(d, po, o) = {}
  BY DEF Taken, UnmatchedInputs
<1>3. TakesIds(old, new, p, 0, NewClusterId(d))
  BY <1>1, <1>2, SignatureAfter, FS_EmptySet
<1>4. old \in Seq(Nat) /\ p \in Nat
  BY <1>1, TakenInputs DEF DataTyped
<1> HIDE DEF old, new, p
<1>5. \A i : i \notin p + 1 .. p + 0
  BY <1>4
<1>6. new \in Seq(Nat) /\ Len(new) = Len(old) /\ \A i \in 1 .. Len(old) : new[i] = old[i]
  <2>1. DOMAIN old = 1 .. Len(old)
    BY <1>4
  <2>2. \A i \in DOMAIN old : new[i] = old[i]
    BY <1>3, <1>5 DEF TakesIds
  <2> QED
    BY <1>3, <2>1, <2>2 DEF TakesIds
<1>7. new = old
  BY <1>4, <1>6, SeqEqual
<1> QED
  BY <1>1, <1>7

\* An output with the signature of po has no unmatched input left.
LEMMA NoZeroLeft ==
    ASSUME NEW d, DataTyped(d), OldShaped(d), Filed(d), MatchedComplete(d),
           NEW po \in d.unmatchedOutputs, Waits(d, po), NEW o \in OutputsOf(d),
           SignaturesAfter(d, po)[o] = SignaturesAfter(d, po)[po]
    PROVE  UnmatchedInputs(d, o) \subseteq UnmatchedInputs(d, po)
<1> DEFINE e == MatchOutput(d, po)
           sign == SignaturesAfter(d, po)[po]
<1>1. /\ OldShaped(e) /\ OutputsOf(e) = OutputsOf(d) /\ po \in OutputsOf(d)
      /\ e.outputSignatures = SignaturesAfter(d, po)
      /\ e.outputSupport = d.outputSupport
  BY ShapedAfter, MatchedAfter, MatchedData DEF DataTyped
<1>2. UnmatchedInputs(e, po) = {} /\ UnmatchedInputs(e, o) = UnmatchedInputs(d, o) \ UnmatchedInputs(d, po)
  BY MatchedAfter
<1>3. MatchedInputs(e, po) = d.outputSupport[po]
  BY <1>1, <1>2 DEF MatchedInputs, UnmatchedInputs
<1>4. /\ IsFiniteSet(d.outputSupport[o]) /\ Cardinality(d.outputSupport[o]) \in Nat
      /\ Cardinality(d.outputSupport[po]) \in Nat
  BY <1>1, FS_CardinalityType DEF DataTyped
<1> HIDE DEF e
<1>5. /\ Len(sign) = Cardinality(d.outputSupport[po])
      /\ \A i \in DOMAIN sign : sign[i] = UnmatchedId <=> i > Len(sign)
      /\ Len(sign) = Cardinality(d.outputSupport[o])
      /\ \A i \in DOMAIN sign : sign[i] = UnmatchedId <=> i > Cardinality(MatchedInputs(e, o))
  <2>1. ShapedAs(sign, MatchedInputs(e, po), d.outputSupport[po])
    BY <1>1 DEF OldShaped
  <2>2. ShapedAs(sign, MatchedInputs(e, o), d.outputSupport[o])
    BY <1>1 DEF OldShaped
  <2> QED
    BY <1>3, <2>1, <2>2 DEF ShapedAs
<1>6. TakesIds(d.outputSignatures[po], sign, Cardinality(MatchedInputs(d, po)),
               Cardinality(Taken(d, po, po)), NewClusterId(d))
  BY <1>1, SignatureAfter
<1>7. sign \in Seq(Nat)
  BY <1>6 DEF TakesIds
<1>8. /\ MatchedInputs(e, o) \in SUBSET d.outputSupport[o]
      /\ Cardinality(MatchedInputs(e, o)) \in Nat
      /\ Cardinality(MatchedInputs(e, o)) <= Cardinality(d.outputSupport[o])
      /\ Cardinality(d.outputSupport[o]) = Cardinality(MatchedInputs(e, o)) =>
            d.outputSupport[o] = MatchedInputs(e, o)
  <2>1. MatchedInputs(e, o) \in SUBSET d.outputSupport[o]
    BY <1>1 DEF MatchedInputs
  <2> QED
    BY <1>4, <2>1, FS_Subset, FS_CardinalityType
<1> HIDE DEF sign
<1>9. Len(sign) <= Cardinality(MatchedInputs(e, o))
  <2> SUFFICES ASSUME Cardinality(MatchedInputs(e, o)) < Len(sign) PROVE FALSE
    BY <1>5, <1>4, <1>8
  <2>1. Len(sign) \in DOMAIN sign
    BY <1>7, <1>8
  <2>2. ~(Len(sign) > Len(sign)) /\ Len(sign) > Cardinality(MatchedInputs(e, o))
    BY <1>4, <1>5, <1>8
  <2> QED
    BY <1>5, <2>1, <2>2
<1>10. d.outputSupport[o] = MatchedInputs(e, o)
  BY <1>4, <1>5, <1>8, <1>9
<1> QED
  BY <1>1, <1>2, <1>10 DEF MatchedInputs, UnmatchedInputs

\* Where the outputs are filed when po is matched.
LEMMA WhereAfter ==
    ASSUME NEW d, DataTyped(d), OldShaped(d), Filed(d), MatchedComplete(d),
           NEW po \in d.unmatchedOutputs, po \in At(d.unmatchedClusters, d.outputSignatures[po]),
           NEW o \in OutputsOf(d), NEW s
    PROVE  LET e == MatchOutput(d, po)
           IN  /\ o \in At(e.unmatchedClusters, s) <=>
                     /\ s = SignaturesAfter(d, po)[o]
                     /\ o # po
                     /\ o \notin Grouped(d, po)
                     /\ o \in At(d.unmatchedClusters, d.outputSignatures[o])
               /\ o \in At(e.matchedClusters, s) <=>
                     /\ s = SignaturesAfter(d, po)[o]
                     /\ \/ o = po
                        \/ o \in Grouped(d, po)
                        \/ o \in At(d.matchedClusters, d.outputSignatures[o])
<1> DEFINE e == MatchOutput(d, po)
           sign == SignaturesAfter(d, po)
<1>1. /\ At(e.unmatchedClusters, s) =
            (At(d.unmatchedClusters, s) \ ({po} \cup InputMoved(d, po)))
            \cup {x \in InputMoved(d, po) \ Grouped(d, po) : sign[x] = s}
      /\ At(e.matchedClusters, s) =
            (At(d.matchedClusters, s) \ {}) \cup {x \in {po} \cup Grouped(d, po) : sign[x] = s}
  <2>1. /\ e.matchedClusters = Refiled(d.matchedClusters, {}, {po} \cup Grouped(d, po), sign)
        /\ e.unmatchedClusters = Refiled(d.unmatchedClusters, {po} \cup InputMoved(d, po),
                                         InputMoved(d, po) \ Grouped(d, po), sign)
    BY MatchedData DEF DataTyped
  <2> HIDE DEF e, sign
  <2>2. \A clusters, pos, arriving :
           At(Refiled(clusters, pos, arriving, sign), s) =
              (At(clusters, s) \ pos) \cup {x \in arriving : sign[x] = s}
    BY RefiledAt DEF RefiledTo
  <2> QED
    BY <2>1, <2>2
<1>2. /\ o \in At(d.unmatchedClusters, s) => s = d.outputSignatures[o]
      /\ o \in At(d.matchedClusters, s) => s = d.outputSignatures[o]
      /\ o \in At(d.unmatchedClusters, d.outputSignatures[o])
            <=> o \notin At(d.matchedClusters, d.outputSignatures[o])
  BY WhereOutputsAre DEF Filed
<1>3. o \notin d.unmatchedOutputs \/ o = po \/ o \in InputMoved(d, po) \/ sign[o] = d.outputSignatures[o]
  BY DEF InputMoved
<1>4. o \notin d.unmatchedOutputs => sign[o] = d.outputSignatures[o]
  BY DEF SignaturesAfter, DataTyped
<1>5. o \in InputMoved(d, po) => /\ o # po /\ \A t : o \notin At(d.matchedClusters, t)
                            /\ o \in At(d.unmatchedClusters, d.outputSignatures[o])
  BY MovedReads, WhereOutputsAre DEF InputMoved
<1>6. po \notin At(d.matchedClusters, d.outputSignatures[po]) /\ po \notin InputMoved(d, po)
      /\ Grouped(d, po) \subseteq InputMoved(d, po)
  BY DEF Filed, DataTyped, InputMoved, Grouped
<1> HIDE DEF e, sign
<1>7. CASE o = po
  BY <1>1, <1>2, <1>6, <1>7 DEF e, sign
<1>8. CASE o \in InputMoved(d, po)
  BY <1>1, <1>5, <1>6, <1>8 DEF e, sign
<1>9. CASE o # po /\ o \notin InputMoved(d, po)
  <2>1. sign[o] = d.outputSignatures[o]
    BY <1>3, <1>4, <1>9
  <2> QED
    BY <1>1, <1>2, <1>6, <1>9, <2>1 DEF e, sign
<1> QED
  BY <1>7, <1>8, <1>9

\* The data keep their shape, and the signature of po becomes a matched one.
LEMMA TypedAfter ==
    ASSUME NEW d, DataTyped(d), OldShaped(d), Filed(d), MatchedComplete(d), NEW po, Waits(d, po)
    PROVE  /\ DataTyped(MatchOutput(d, po))
           /\ DOMAIN MatchOutput(d, po).matchedClusters =
                 DOMAIN d.matchedClusters \cup {SignaturesAfter(d, po)[po]}
<1> DEFINE e == MatchOutput(d, po)
           sign == SignaturesAfter(d, po)
<1>1. /\ po \in d.unmatchedOutputs /\ po \in OutputsOf(d)
      /\ IsData(d) /\ DOMAIN d.outputSignatures = OutputsOf(d)
  BY DEF Waits, DataTyped
<1>2. /\ IsData(e) /\ OutputsOf(e) = OutputsOf(d)
      /\ e.unmatchedOutputs = d.unmatchedOutputs \ {po}
      /\ e.outputSupport = d.outputSupport
      /\ e.outputSignatures = sign
      /\ e.matchedClusters = Refiled(d.matchedClusters, {}, {po} \cup Grouped(d, po), sign)
  BY <1>1, MatchedData DEF OutputsOf
<1>3. sign \in [OutputsOf(d) -> Seq(Nat)]
  <2>1. \A o \in OutputsOf(d) : sign[o] \in Seq(Nat)
    BY <1>1, SignatureAfter DEF TakesIds
  <2>2. sign = [o \in OutputsOf(d) |-> sign[o]]
    BY <1>1 DEF SignaturesAfter
  <2> HIDE DEF sign
  <2> QED
    BY <2>1, <2>2
<1>4. /\ Grouped(d, po) \subseteq OutputsOf(d)
      /\ \A o \in {po} \cup Grouped(d, po) : sign[o] = sign[po]
  BY DEF Grouped, InputMoved, DataTyped
<1>5. /\ \A s : At(e.matchedClusters, s) =
               (At(d.matchedClusters, s) \ {}) \cup {o \in {po} \cup Grouped(d, po) : sign[o] = s}
      /\ \A s \in DOMAIN e.matchedClusters :
            e.matchedClusters[s] # {} /\ e.matchedClusters[s] = At(e.matchedClusters, s)
      /\ DOMAIN e.matchedClusters
            \subseteq DOMAIN d.matchedClusters \cup {sign[o] : o \in {po} \cup Grouped(d, po)}
  <2>1. RefiledTo(e.matchedClusters, d.matchedClusters, {}, {po} \cup Grouped(d, po), sign)
    BY <1>2, RefiledAt
  <2> HIDE DEF e, sign
  <2> QED
    BY <2>1 DEF RefiledTo
<1> HIDE DEF e, sign
<1>6. DOMAIN e.matchedClusters = DOMAIN d.matchedClusters \cup {sign[po]}
  <2>1. DOMAIN e.matchedClusters \subseteq DOMAIN d.matchedClusters \cup {sign[po]}
    BY <1>4, <1>5
  <2>2. ASSUME NEW s \in DOMAIN d.matchedClusters PROVE s \in DOMAIN e.matchedClusters
    <3>1. At(d.matchedClusters, s) # {}
      BY DEF At, DataTyped
    <3>2. At(e.matchedClusters, s) # {}
      BY <1>5, <3>1
    <3> QED
      BY <3>2 DEF At
  <2>3. sign[po] \in DOMAIN e.matchedClusters
    <3>1. po \in At(e.matchedClusters, sign[po])
      BY <1>5
    <3> QED
      BY <3>1 DEF At
  <2> QED
    BY <2>1, <2>2, <2>3
<1>7. IsFiniteSet(DOMAIN e.matchedClusters)
  BY <1>6, FS_AddElement DEF DataTyped
<1>8. \A s \in DOMAIN e.matchedClusters :
         e.matchedClusters[s] # {} /\ e.matchedClusters[s] \subseteq OutputsOf(d)
  <2>1. \A s : At(d.matchedClusters, s) \subseteq OutputsOf(d)
    BY DEF At, DataTyped
  <2> QED
    BY <1>1, <1>4, <1>5, <2>1
<1>9. DataTyped(e)
  <2>1. /\ IsFiniteSet(OutputsOf(e)) /\ e.unmatchedOutputs \subseteq OutputsOf(e)
        /\ \A o \in OutputsOf(e) : IsFiniteSet(e.outputSupport[o])
    BY <1>2 DEF DataTyped
  <2> QED
    BY <1>2, <1>3, <1>7, <1>8, <2>1 DEF DataTyped
<1> QED
  BY <1>6, <1>9 DEF e, sign

\* The outputs stay filed, and the matched ones read nothing unmatched.
LEMMA FiledAfter ==
    ASSUME NEW d, DataTyped(d), OldShaped(d), InputsRead(d), Filed(d), MatchedComplete(d),
           NEW po, Waits(d, po)
    PROVE  /\ Filed(MatchOutput(d, po))
           /\ MatchedComplete(MatchOutput(d, po))
           /\ InputsRead(MatchOutput(d, po))
<1> DEFINE e == MatchOutput(d, po)
           sign == SignaturesAfter(d, po)
<1>1. /\ po \in d.unmatchedOutputs /\ po \in OutputsOf(d) /\ IsData(d)
      /\ po \in At(d.unmatchedClusters, d.outputSignatures[po])
      /\ Grouped(d, po) \subseteq InputMoved(d, po) /\ InputMoved(d, po) \subseteq d.unmatchedOutputs
  BY DEF Waits, DataTyped, Grouped, InputMoved
<1>2. /\ OutputsOf(e) = OutputsOf(d)
      /\ e.unmatchedInputs \subseteq d.unmatchedInputs
      /\ e.unmatchedOutputs = d.unmatchedOutputs \ {po}
      /\ e.outputSupport = d.outputSupport
      /\ e.inputSupport = d.inputSupport
      /\ e.outputSignatures = sign
      /\ e.unmatchedClusters = Refiled(d.unmatchedClusters, {po} \cup InputMoved(d, po),
                                       InputMoved(d, po) \ Grouped(d, po), sign)
      /\ \A o : UnmatchedInputs(e, o) = UnmatchedInputs(d, o) \ UnmatchedInputs(d, po)
  <2>1. /\ OutputsOf(e) = OutputsOf(d)
        /\ \A o : UnmatchedInputs(e, o) = UnmatchedInputs(d, o) \ UnmatchedInputs(d, po)
    BY <1>1, MatchedAfter
  <2>2. e.unmatchedInputs = d.unmatchedInputs \ UnmatchedInputs(d, po)
    BY <1>1, MatchedData
  <2>3. /\ e.unmatchedOutputs = d.unmatchedOutputs \ {po}
        /\ e.outputSupport = d.outputSupport
        /\ e.inputSupport = d.inputSupport
        /\ e.outputSignatures = sign
    BY <1>1, MatchedData
  <2>4. e.unmatchedClusters = Refiled(d.unmatchedClusters, {po} \cup InputMoved(d, po),
                                      InputMoved(d, po) \ Grouped(d, po), sign)
    BY <1>1, MatchedData
  <2> HIDE DEF e, sign
  <2> QED
    BY <2>1, <2>2, <2>3, <2>4
<1>3. \A o \in OutputsOf(d) : \A s :
         /\ o \in At(e.unmatchedClusters, s) <=>
               /\ s = sign[o] /\ o # po /\ o \notin Grouped(d, po)
               /\ o \in At(d.unmatchedClusters, d.outputSignatures[o])
         /\ o \in At(e.matchedClusters, s) <=>
               /\ s = sign[o]
               /\ \/ o = po
                  \/ o \in Grouped(d, po)
                  \/ o \in At(d.matchedClusters, d.outputSignatures[o])
  BY <1>1, WhereAfter
<1>4. \A o \in OutputsOf(d) : o \in At(d.unmatchedClusters, d.outputSignatures[o])
                              <=> o \notin At(d.matchedClusters, d.outputSignatures[o])
  BY DEF Filed
<1>5. \A o \in Grouped(d, po) : /\ o \in OutputsOf(d)
                                /\ o \in At(d.unmatchedClusters, d.outputSignatures[o])
                                /\ sign[o] = sign[po]
  <2> SUFFICES ASSUME NEW o \in Grouped(d, po)
               PROVE  o \in OutputsOf(d) /\ o \in At(d.unmatchedClusters, d.outputSignatures[o])
    BY DEF Grouped
  <2>1. o \in OutputsOf(d) /\ o \in InputMoved(d, po)
    BY <1>1 DEF DataTyped
  <2> QED
    BY <1>1, <2>1, MovedReads, WhereOutputsAre
<1>6. MatchedComplete(e)
  <2> SUFFICES ASSUME NEW o \in OutputsOf(d), NEW s, o \in At(e.matchedClusters, s)
               PROVE  UnmatchedInputs(d, o) \subseteq UnmatchedInputs(d, po)
    BY <1>2 DEF MatchedComplete
  <2>1. CASE o \in At(d.matchedClusters, d.outputSignatures[o])
    BY <2>1 DEF MatchedComplete
  <2>2. CASE o = po \/ o \in Grouped(d, po)
    BY <1>1, <1>5, <2>2, NoZeroLeft DEF Waits
  <2> QED
    BY <1>3, <2>1, <2>2
<1>7. InputsRead(e)
  BY <1>2 DEF InputsRead
<1>8. /\ \A s \in DOMAIN e.unmatchedClusters :
            e.unmatchedClusters[s] # {} /\ e.unmatchedClusters[s] = At(e.unmatchedClusters, s)
      /\ \A s : At(e.unmatchedClusters, s) =
                  (At(d.unmatchedClusters, s) \ ({po} \cup InputMoved(d, po)))
                  \cup {x \in InputMoved(d, po) \ Grouped(d, po) : sign[x] = s}
  <2>1. RefiledTo(e.unmatchedClusters, d.unmatchedClusters, {po} \cup InputMoved(d, po),
                  InputMoved(d, po) \ Grouped(d, po), sign)
    BY <1>2, RefiledAt
  <2> HIDE DEF e, sign
  <2> QED
    BY <2>1 DEF RefiledTo
<1>9. \A s : At(e.unmatchedClusters, s) \subseteq e.unmatchedOutputs
  <2>1. \A s : At(d.unmatchedClusters, s) \subseteq d.unmatchedOutputs
    BY DEF At, Filed
  <2>2. po \notin InputMoved(d, po)
    BY DEF InputMoved
  <2> HIDE DEF e, sign
  <2>3. InputMoved(d, po) \ Grouped(d, po) \subseteq d.unmatchedOutputs \ {po}
    BY <1>1, <2>2
  <2> QED
    BY <1>2, <1>8, <2>1, <2>3
<1> HIDE DEF e, sign
<1>10. ASSUME NEW o \in OutputsOf(d)
       PROVE  /\ \A s : o \in At(e.unmatchedClusters, s) \cup At(e.matchedClusters, s)
                        <=> s = sign[o]
              /\ o \in At(e.unmatchedClusters, sign[o])
                    <=> o \notin At(e.matchedClusters, sign[o])
  BY <1>1, <1>3, <1>4, <1>5
<1>11. Filed(e)
  <2>1. \A s \in DOMAIN e.unmatchedClusters :
           e.unmatchedClusters[s] # {} /\ e.unmatchedClusters[s] \subseteq e.unmatchedOutputs
    BY <1>8, <1>9
  <2>2. ASSUME NEW o \in OutputsOf(e)
        PROVE  /\ \A s : o \in At(e.unmatchedClusters, s) \cup At(e.matchedClusters, s)
                         <=> s = e.outputSignatures[o]
               /\ o \in At(e.unmatchedClusters, e.outputSignatures[o])
                     <=> o \notin At(e.matchedClusters, e.outputSignatures[o])
    BY <1>2, <1>10
  <2> QED
    BY <2>1, <2>2 DEF Filed
<1> QED
  BY <1>6, <1>7, <1>11 DEF e

\* What taking n zeros for a new id changes in the counts of a signature.
LEMMA IdsCounted ==
    ASSUME NEW old \in Seq(Nat), NEW new, NEW p \in Nat, NEW n \in Nat, NEW id \in Nat \ {UnmatchedId},
           p + n <= Len(old), TakesIds(old, new, p, n, id),
           \A i \in DOMAIN old : old[i] = UnmatchedId <=> i > p,
           \A i \in DOMAIN old : old[i] < id,
           \A i, j \in DOMAIN old : i < j /\ old[j] # UnmatchedId => old[i] <= old[j]
    PROVE  /\ Cardinality(PlacesOf(new, id)) = n
           /\ \A other \in Nat \ {UnmatchedId, id} : PlacesOf(new, other) = PlacesOf(old, other)
           /\ \A i \in DOMAIN new : new[i] <= id
           /\ \A i, j \in DOMAIN new : i < j /\ new[j] # UnmatchedId => new[i] <= new[j]
<1>1. /\ Len(old) \in Nat /\ DOMAIN old = 1 .. Len(old)
      /\ \A i \in DOMAIN old : old[i] \in Nat
  OBVIOUS
<1>2. /\ DOMAIN new = DOMAIN old
      /\ \A i \in DOMAIN old : new[i] = IF i \in p + 1 .. p + n THEN id ELSE old[i]
  BY <1>1 DEF TakesIds
<1>3. PlacesOf(new, id) = p + 1 .. p + n
  <2>1. p + 1 .. p + n \subseteq DOMAIN old
    BY <1>1
  <2>2. \A i \in DOMAIN old : new[i] = id <=> i \in p + 1 .. p + n
    BY <1>1, <1>2
  <2> QED
    BY <1>2, <2>1, <2>2 DEF PlacesOf
<1>4. Cardinality(p + 1 .. p + n) = n
  <2>1. Cardinality(p + 1 .. p + n) = IF p + 1 > p + n THEN 0 ELSE p + n - (p + 1) + 1
    BY FS_Interval
  <2>2. (IF p + 1 > p + n THEN 0 ELSE p + n - (p + 1) + 1) = n
    OBVIOUS
  <2> QED
    BY <2>1, <2>2
<1>5. ASSUME NEW other \in Nat \ {UnmatchedId, id}
      PROVE  PlacesOf(new, other) = PlacesOf(old, other)
  <2>1. \A i \in DOMAIN old : new[i] = other <=> old[i] = other
    <3> SUFFICES ASSUME NEW i \in DOMAIN old PROVE new[i] = other <=> old[i] = other
      OBVIOUS
    <3>1. CASE i \in p + 1 .. p + n
      <4>1. new[i] = id /\ old[i] = UnmatchedId
        BY <1>2, <3>1
      <4> QED
        BY <4>1
    <3>2. CASE i \notin p + 1 .. p + n
      BY <1>2, <3>2
    <3> QED
      BY <3>1, <3>2
  <2> QED
    BY <1>2, <2>1 DEF PlacesOf
<1>6. \A i \in DOMAIN new : new[i] <= id
  BY <1>1, <1>2
<1>7. ASSUME NEW i \in DOMAIN new, NEW j \in DOMAIN new, i < j, new[j] # UnmatchedId
      PROVE  new[i] <= new[j]
  <2>1. CASE j \in p + 1 .. p + n
    BY <1>2, <1>6, <2>1
  <2>2. CASE j \notin p + 1 .. p + n
    <3>1. new[j] = old[j] /\ ~(j > p)
      BY <1>2, <1>7, <2>2
    <3>2. i \notin p + 1 .. p + n
      BY <1>1, <1>2, <1>7, <3>1
    <3> QED
      BY <1>2, <1>7, <3>1, <3>2
  <2> QED
    BY <2>1, <2>2
<1> QED
  BY <1>3, <1>4, <1>5, <1>6, <1>7

\* A match of an output with unmatched inputs uses an id that is new, and no
\* match takes one back.
LEMMA IdsGrow ==
    ASSUME NEW d, NEW cl, DataInv(d, cl), NEW po, Waits(d, po)
    PROVE  /\ LargestId(d) \in Nat /\ LargestId(MatchOutput(d, po)) \in Nat
           /\ NewClusterId(d) = LargestId(d) + 1
           /\ LargestId(d) <= LargestId(MatchOutput(d, po))
           /\ UnmatchedInputs(d, po) # {} => LargestId(MatchOutput(d, po)) = NewClusterId(d)
<1> DEFINE D == DOMAIN d.matchedClusters
           E == DOMAIN MatchOutput(d, po).matchedClusters
           new == SignaturesAfter(d, po)[po]
<1>1. /\ DataTyped(d) /\ OldShaped(d) /\ Filed(d) /\ MatchedComplete(d) /\ Counted(d, cl)
      /\ po \in d.unmatchedOutputs /\ po \in OutputsOf(d)
  BY DEF DataInv, Waits, DataTyped
<1>2. E = D \cup {new} /\ IsFiniteSet(D)
  BY <1>1, TypedAfter DEF DataTyped
<1>3. /\ LargestId(d) = UnmatchedId + Cardinality(D)
      /\ LargestId(MatchOutput(d, po)) = UnmatchedId + Cardinality(E)
      /\ NewClusterId(d) = LargestId(d) + 1
  <2>1. NewClusterId(d) = LargestId(d) + 1
    BY <1>1, NewIdFits
  <2> QED
    BY <2>1 DEF LargestId
<1>4. UnmatchedInputs(d, po) # {} => new \notin D
  <2> SUFFICES ASSUME UnmatchedInputs(d, po) # {}, new \in D PROVE FALSE
    OBVIOUS
  <2> DEFINE old == d.outputSignatures[po]
             p == Cardinality(MatchedInputs(d, po))
             n == Cardinality(Taken(d, po, po))
  <2>1. TakesIds(old, new, p, n, NewClusterId(d)) /\ old \in Seq(Nat)
    BY <1>1, SignatureAfter DEF DataTyped
  <2>2. /\ p \in Nat /\ n \in Nat /\ p + n = Len(old)
        /\ Taken(d, po, po) \in SUBSET UnmatchedInputs(d, po)
    BY <1>1, TakenInputs
  <2>3. n # 0
    <3>1. Taken(d, po, po) = UnmatchedInputs(d, po) /\ IsFiniteSet(UnmatchedInputs(d, po))
      <4>1. IsFiniteSet(d.outputSupport[po])
        BY <1>1 DEF DataTyped
      <4>2. UnmatchedInputs(d, po) \in SUBSET d.outputSupport[po]
        BY DEF UnmatchedInputs
      <4> QED
        BY <4>1, <4>2, FS_Subset DEF Taken, UnmatchedInputs
    <3> QED
      BY <3>1, FS_EmptySet
  <2> HIDE DEF old, new, p, n
  <2>4. Len(old) \in DOMAIN old /\ Len(old) \in p + 1 .. p + n /\ DOMAIN new = DOMAIN old
    BY <2>1, <2>2, <2>3 DEF TakesIds
  <2>5. new[Len(old)] = UnmatchedId + Cardinality(D) + 1 /\ Len(old) \in DOMAIN new
    BY <1>3, <2>1, <2>4 DEF TakesIds
  <2>6. PICK o \in OutputsOf(d) : o \in At(d.matchedClusters, new)
    BY <1>1 DEF DataTyped, At
  <2>7. new = d.outputSignatures[o]
    BY <1>1, <2>6, WhereOutputsAre
  <2>8. new[Len(old)] <= UnmatchedId + Cardinality(D)
    BY <1>1, <1>3, <2>5, <2>7 DEF Counted, SignatureCounts
  <2>9. Cardinality(D) \in Nat
    BY <1>2, FS_CardinalityType
  <2> QED
    BY <2>5, <2>8, <2>9 DEF UnmatchedId
<1> HIDE DEF D, E, new
<1>5. /\ Cardinality(D) \in Nat
      /\ Cardinality(E) = IF new \in D THEN Cardinality(D) ELSE Cardinality(D) + 1
  BY <1>2, FS_AddElement, FS_CardinalityType
<1> QED
  BY <1>3, <1>4, <1>5 DEF UnmatchedId

\* The ids of the inputs when po is matched.
ClustersAfter(d, cl, po) ==
    [pi \in DOMAIN cl \cup UnmatchedInputs(d, po) |->
        IF pi \in UnmatchedInputs(d, po) THEN NewClusterId(d) ELSE cl[pi]]

\* The signatures go on counting the inputs.
LEMMA CountedAfter ==
    ASSUME NEW d, NEW cl, DataInv(d, cl), NEW po, Waits(d, po)
    PROVE  Counted(MatchOutput(d, po), ClustersAfter(d, cl, po))
<1> DEFINE e == MatchOutput(d, po)
           new == ClustersAfter(d, cl, po)
           id == NewClusterId(d)
           U == UnmatchedInputs(d, po)
<1>1. /\ DataTyped(d) /\ OldShaped(d) /\ Filed(d) /\ MatchedComplete(d) /\ Counted(d, cl)
      /\ po \in d.unmatchedOutputs /\ po \in OutputsOf(d)
  BY DEF DataInv, Waits, DataTyped
<1>2. /\ LargestId(d) \in Nat /\ LargestId(e) \in Nat /\ id = LargestId(d) + 1
      /\ LargestId(d) <= LargestId(e) /\ (U # {} => LargestId(e) = id)
      /\ UnmatchedId <= LargestId(d)
  BY <1>1, IdsGrow, NewIdFits
<1>3. /\ e.unmatchedInputs = d.unmatchedInputs \ U
      /\ e.outputSignatures = SignaturesAfter(d, po)
      /\ OutputsOf(e) = OutputsOf(d)
      /\ \A o : MatchedInputs(e, o) = MatchedInputs(d, o) \cup Taken(d, po, o)
  BY <1>1, MatchedData, MatchedAfter DEF DataTyped
<1>4. /\ DOMAIN cl \cap d.unmatchedInputs = {} /\ U \subseteq d.unmatchedInputs
      /\ \A pi \in DOMAIN cl : cl[pi] \in UnmatchedId + 1 .. LargestId(d)
      /\ \A o \in OutputsOf(d) : MatchedInputs(d, o) \subseteq DOMAIN cl
  BY <1>1 DEF Counted, InputsCounted, UnmatchedInputs
<1>5. /\ DOMAIN new = DOMAIN cl \cup U
      /\ \A pi \in DOMAIN new : new[pi] = IF pi \in U THEN id ELSE cl[pi]
  BY DEF ClustersAfter
<1>6. \A o : Taken(d, po, o) \subseteq U
  BY DEF Taken
<1> HIDE DEF e, new, id, U
<1>7. InputsCounted(e, new)
  <2>1. DOMAIN new \cap e.unmatchedInputs = {}
    BY <1>3, <1>4, <1>5
  <2>2. ASSUME NEW pi \in DOMAIN new PROVE new[pi] \in UnmatchedId + 1 .. LargestId(e)
    BY <1>2, <1>4, <1>5 DEF UnmatchedId
  <2>3. \A o \in OutputsOf(e) : MatchedInputs(e, o) \subseteq DOMAIN new
    BY <1>3, <1>4, <1>5, <1>6
  <2> QED
    BY <2>1, <2>2, <2>3 DEF InputsCounted
<1>8. ASSUME NEW o \in OutputsOf(d)
      PROVE  SignatureCounts(e, new, o, SignaturesAfter(d, po)[o])
  <2> DEFINE old == d.outputSignatures[o]
             sign == SignaturesAfter(d, po)[o]
             p == Cardinality(MatchedInputs(d, o))
             n == Cardinality(Taken(d, po, o))
  <2>1. TakesIds(old, sign, p, n, id) /\ old \in Seq(Nat)
    BY <1>1, SignatureAfter DEF DataTyped, id
  <2>2. p \in Nat /\ n \in Nat /\ p + n <= Len(old)
    BY <1>1, TakenInputs
  <2>3. \A i \in DOMAIN old : old[i] = UnmatchedId <=> i > p
    BY <1>1 DEF OldShaped, ShapedAs
  <2>4. SignatureCounts(d, cl, o, old)
    BY <1>1 DEF Counted
  <2>5. n # 0 => U # {}
    BY <1>6, FS_EmptySet
  <2>6. InputsUnder(e, new, o, id) = Taken(d, po, o)
    <3>1. \A pi \in MatchedInputs(d, o) : pi \notin U /\ cl[pi] # id /\ pi \in DOMAIN cl
      BY <1>2, <1>4 DEF MatchedInputs
    <3> QED
      BY <1>3, <1>5, <1>6, <3>1 DEF InputsUnder
  <2>7. \A other \in Nat \ {id} : InputsUnder(e, new, o, other) = InputsUnder(d, cl, o, other)
    <3>1. \A pi \in MatchedInputs(d, o) : new[pi] = cl[pi]
      BY <1>4, <1>5 DEF MatchedInputs
    <3>2. \A pi \in Taken(d, po, o) : new[pi] = id
      BY <1>5, <1>6
    <3> QED
      BY <1>3, <3>1, <3>2 DEF InputsUnder
  <2> HIDE DEF old, sign, p
  <2>8. /\ id \in Nat \ {UnmatchedId}
        /\ \A i \in DOMAIN old : old[i] < id
        /\ \A i, j \in DOMAIN old : i < j /\ old[j] # UnmatchedId => old[i] <= old[j]
    <3>1. \A i \in DOMAIN old : old[i] \in Nat /\ old[i] <= LargestId(d)
      BY <2>1, <2>4 DEF SignatureCounts
    <3>2. \A i, j \in DOMAIN old : i < j /\ old[j] # UnmatchedId => old[i] <= old[j]
      BY <2>4 DEF SignatureCounts
    <3>3. id \in Nat \ {UnmatchedId} /\ \A x \in Nat : x <= LargestId(d) => x < id
      BY <1>2 DEF UnmatchedId
    <3> QED
      BY <3>1, <3>2, <3>3
  <2> HIDE DEF n
  <2>9. /\ Cardinality(PlacesOf(sign, id)) = n
        /\ \A other \in Nat \ {UnmatchedId, id} : PlacesOf(sign, other) = PlacesOf(old, other)
        /\ \A i \in DOMAIN sign : sign[i] <= id
        /\ \A i, j \in DOMAIN sign : i < j /\ sign[j] # UnmatchedId => sign[i] <= sign[j]
    BY <2>1, <2>2, <2>3, <2>8, IdsCounted
  <2>10. \A i \in DOMAIN sign : sign[i] <= LargestId(e)
    <3>1. CASE U # {}
      BY <1>2, <2>9, <3>1
    <3>2. CASE U = {}
      <4>1. n = 0
        BY <2>5, <3>2
      <4>2. \A i : i \notin p + 1 .. p + n
        BY <2>2, <4>1
      <4>3. DOMAIN sign = DOMAIN old /\ \A i \in DOMAIN old : sign[i] = old[i] /\ old[i] \in Nat
        BY <2>1, <4>2 DEF TakesIds
      <4>4. \A i \in DOMAIN old : old[i] <= LargestId(d)
        BY <2>4 DEF SignatureCounts
      <4> QED
        BY <1>2, <4>3, <4>4
    <3> QED
      BY <3>1, <3>2
  <2>11. \A other \in Nat \ {UnmatchedId} :
            Cardinality(PlacesOf(sign, other)) = Cardinality(InputsUnder(e, new, o, other))
    <3> SUFFICES ASSUME NEW other \in Nat \ {UnmatchedId}
                 PROVE  Cardinality(PlacesOf(sign, other)) = Cardinality(InputsUnder(e, new, o, other))
      OBVIOUS
    <3>1. CASE other = id
      BY <2>6, <2>9, <3>1 DEF n
    <3>2. CASE other # id
      BY <2>4, <2>7, <2>9, <3>2 DEF SignatureCounts
    <3> QED
      BY <3>1, <3>2
  <2>12. SignatureCounts(e, new, o, sign)
    BY <2>9, <2>10, <2>11 DEF SignatureCounts
  <2> QED
    BY <2>12 DEF sign
<1>9. Counted(e, new)
  BY <1>3, <1>7, <1>8 DEF Counted
<1> QED
  BY <1>9 DEF e, new

\* A match keeps the invariant of the data of a circuit.
LEMMA MatchKeeps ==
    ASSUME NEW d, NEW cl, DataInv(d, cl), NEW po, Waits(d, po)
    PROVE  DataInv(MatchOutput(d, po), ClustersAfter(d, cl, po))
<1>1. /\ DataTyped(d) /\ OldShaped(d) /\ Filed(d) /\ MatchedComplete(d) /\ InputsRead(d)
      /\ po \in d.unmatchedOutputs
  BY DEF DataInv, Waits
<1> QED
  BY <1>1, ShapedAfter, TypedAfter, FiledAfter, CountedAfter DEF DataInv

-------------------------------------------------------------------------------
(***************************************************************************)
(* An iteration of CircuitData::stickUnmatchedInputs: the outputs that     *)
(* read the input lose it and the last zero of their signature.            *)
(***************************************************************************)
Readers(d, pi) == {po \in OutputsOf(d) : pi \in d.outputSupport[po]}

\* The signature that is left of an output's.
Left(d, pi, o) ==
    IF o \in Readers(d, pi) THEN Front(d.outputSignatures[o]) ELSE d.outputSignatures[o]

\* All but the last of a signature.
LEMMA FrontOf ==
    ASSUME NEW s \in Seq(Nat), Len(s) # 0
    PROVE  /\ Front(s) \in Seq(Nat) /\ Len(Front(s)) = Len(s) - 1
           /\ DOMAIN Front(s) = 1 .. Len(s) - 1
           /\ \A i \in 1 .. Len(s) - 1 : Front(s)[i] = s[i]
<1>1. Len(s) \in Nat /\ 1 \in Nat /\ Len(s) - 1 \in Nat /\ \A i \in 1 .. Len(s) : s[i] \in Nat
  OBVIOUS
<1>2. Front(s) = [i \in 1 .. Len(s) - 1 |-> s[i]]
  BY <1>1 DEF Front
<1> QED
  BY <1>1, <1>2

\* The fields that an iteration changes.
LEMMA StuckFields ==
    ASSUME NEW d, DataTyped(d), InputsRead(d), NEW pi \in d.unmatchedInputs
    PROVE  LET e == StickInput(d, pi)
           IN  /\ IsData(e) /\ OutputsOf(e) = OutputsOf(d)
               /\ e.unmatchedInputs = d.unmatchedInputs \ {pi}
               /\ e.unmatchedOutputs = d.unmatchedOutputs
               /\ \A o \in OutputsOf(d) : e.outputSupport[o] = d.outputSupport[o] \ {pi}
               /\ \A x \in e.unmatchedInputs :
                     x \in DOMAIN e.inputSupport /\ e.inputSupport[x] = d.inputSupport[x]
               /\ e.outputSignatures = [o \in OutputsOf(d) |-> Left(d, pi, o)]
               /\ e.matchedClusters = d.matchedClusters
               /\ RefiledTo(e.unmatchedClusters, d.unmatchedClusters, Readers(d, pi),
                            Readers(d, pi), e.outputSignatures)
<1> DEFINE e == StickInput(d, pi)
           readers == d.inputSupport[pi]
           sign == ShorterSignatures(d, readers)
<1>1. /\ IsData(d) /\ DOMAIN d.outputSignatures = OutputsOf(d)
      /\ readers = Readers(d, pi)
      /\ \A x \in d.unmatchedInputs : x \in DOMAIN d.inputSupport
  BY DEF DataTyped, InputsRead, Readers
<1>2. /\ IsData(e)
      /\ e.unmatchedInputs = d.unmatchedInputs \ {pi}
      /\ e.unmatchedOutputs = d.unmatchedOutputs
      /\ e.matchedClusters = d.matchedClusters
  BY <1>1, StuckData
<1>3. e.outputSupport = SmallerSupports(d, readers, pi)
  BY <1>1, StuckData
<1>4. e.inputSupport = SupportedInputs(d, pi)
  BY <1>1, StuckData
<1>5. e.outputSignatures = sign
      /\ e.unmatchedClusters = Refiled(d.unmatchedClusters, readers, readers, sign)
  BY <1>1, StuckData
<1>6. sign = [o \in OutputsOf(d) |-> Left(d, pi, o)]
  BY <1>1 DEF Left, ShorterSignatures
<1> HIDE DEF e, sign, readers
<1>7. OutputsOf(e) = OutputsOf(d)
      /\ \A o \in OutputsOf(d) : e.outputSupport[o] = d.outputSupport[o] \ {pi}
  BY <1>1, <1>3 DEF OutputsOf, Readers, SmallerSupports
<1>8. \A x \in e.unmatchedInputs :
         x \in DOMAIN e.inputSupport /\ e.inputSupport[x] = d.inputSupport[x]
  BY <1>1, <1>2, <1>4 DEF SupportedInputs
<1>9. RefiledTo(e.unmatchedClusters, d.unmatchedClusters, Readers(d, pi), Readers(d, pi), sign)
  BY <1>1, <1>5, RefiledAt
<1> QED
  BY <1>2, <1>5, <1>6, <1>7, <1>8, <1>9 DEF e

\* What is left of the signature of a reader; the last character was a zero.
LEMMA LeftOfReader ==
    ASSUME NEW d, DataTyped(d), OldShaped(d), NEW pi \in d.unmatchedInputs, NEW o \in Readers(d, pi)
    PROVE  LET old == d.outputSignatures[o]
               new == Left(d, pi, o)
           IN  /\ old \in Seq(Nat) /\ new \in Seq(Nat) /\ Len(new) = Len(old) - 1
               /\ \A i \in DOMAIN new : i \in DOMAIN old /\ new[i] = old[i]
               /\ DOMAIN old = DOMAIN new \cup {Len(old)}
               /\ old[Len(old)] = UnmatchedId
<1> DEFINE old == d.outputSignatures[o]
           new == Left(d, pi, o)
<1>1. o \in OutputsOf(d) /\ old \in Seq(Nat) /\ new = Front(old)
      /\ \A i \in DOMAIN old : old[i] = UnmatchedId <=> i > Cardinality(MatchedInputs(d, o))
  BY DEF Readers, DataTyped, Left, OldShaped, ShapedAs
<1>2. {pi} \in SUBSET UnmatchedInputs(d, o)
  BY DEF Readers, UnmatchedInputs
<1>3. HasRoom(d, o, {pi})
  BY <1>1, <1>2, EnoughZeros
<1>4. Cardinality(MatchedInputs(d, o)) \in Nat /\ Cardinality(MatchedInputs(d, o)) + 1 <= Len(old)
  BY <1>3, FS_Singleton DEF HasRoom
<1> HIDE DEF old, new
<1>5. Len(old) \in Nat /\ Len(old) # 0 /\ DOMAIN old = 1 .. Len(old)
  BY <1>1, <1>4
<1>6. /\ new \in Seq(Nat) /\ Len(new) = Len(old) - 1 /\ DOMAIN new = 1 .. Len(old) - 1
      /\ \A i \in 1 .. Len(old) - 1 : new[i] = old[i]
  BY <1>1, <1>5, FrontOf
<1>7. old[Len(old)] = UnmatchedId
  BY <1>1, <1>4, <1>5
<1>8. DOMAIN new \subseteq DOMAIN old /\ DOMAIN old = DOMAIN new \cup {Len(old)}
  BY <1>5, <1>6
<1>9. \A i \in DOMAIN new : i \in DOMAIN old /\ new[i] = old[i]
  BY <1>6, <1>8
<1> QED
  BY <1>1, <1>6, <1>7, <1>8, <1>9 DEF old, new

\* The data keep their shape.
LEMMA StuckTyped ==
    ASSUME NEW d, DataTyped(d), OldShaped(d), InputsRead(d), NEW pi \in d.unmatchedInputs
    PROVE  DataTyped(StickInput(d, pi)) /\ OldShaped(StickInput(d, pi)) /\ InputsRead(StickInput(d, pi))
<1> DEFINE e == StickInput(d, pi)
<1>1. /\ IsData(e) /\ OutputsOf(e) = OutputsOf(d)
      /\ e.unmatchedInputs = d.unmatchedInputs \ {pi}
      /\ e.unmatchedOutputs = d.unmatchedOutputs
      /\ \A o \in OutputsOf(d) : e.outputSupport[o] = d.outputSupport[o] \ {pi}
      /\ \A x \in e.unmatchedInputs :
            x \in DOMAIN e.inputSupport /\ e.inputSupport[x] = d.inputSupport[x]
      /\ e.outputSignatures = [o \in OutputsOf(d) |-> Left(d, pi, o)]
      /\ e.matchedClusters = d.matchedClusters
  BY StuckFields
<1> HIDE DEF e
<1>2. \A o \in OutputsOf(d) : Left(d, pi, o) \in Seq(Nat)
  BY LeftOfReader DEF Left, DataTyped
<1>3. \A o \in OutputsOf(e) : IsFiniteSet(e.outputSupport[o])
  <2> SUFFICES ASSUME NEW o \in OutputsOf(d) PROVE IsFiniteSet(d.outputSupport[o] \ {pi})
    BY <1>1
  <2>1. IsFiniteSet(d.outputSupport[o])
    BY DEF DataTyped
  <2> QED
    BY <2>1, FS_RemoveElement
<1>4. DataTyped(e)
  BY <1>1, <1>2, <1>3 DEF DataTyped
<1>5. InputsRead(e)
  BY <1>1 DEF InputsRead
<1>6. ASSUME NEW o \in OutputsOf(d)
      PROVE  ShapedAs(Left(d, pi, o), MatchedInputs(e, o), e.outputSupport[o])
  <2>1. MatchedInputs(e, o) = MatchedInputs(d, o)
    BY <1>1 DEF MatchedInputs
  <2>2. ShapedAs(d.outputSignatures[o], MatchedInputs(d, o), d.outputSupport[o])
    BY DEF OldShaped
  <2>3. CASE o \in Readers(d, pi)
    <3>1. pi \in d.outputSupport[o] /\ IsFiniteSet(d.outputSupport[o])
      BY <2>3 DEF Readers, DataTyped
    <3>2. Cardinality(e.outputSupport[o]) = Cardinality(d.outputSupport[o]) - 1
      BY <1>1, <3>1, FS_RemoveElement
    <3>3. /\ Len(Left(d, pi, o)) = Len(d.outputSignatures[o]) - 1
          /\ \A i \in DOMAIN Left(d, pi, o) : /\ i \in DOMAIN d.outputSignatures[o]
                                              /\ Left(d, pi, o)[i] = d.outputSignatures[o][i]
      BY <2>3, LeftOfReader
    <3> QED
      BY <2>1, <2>2, <3>2, <3>3 DEF ShapedAs
  <2>4. CASE o \notin Readers(d, pi)
    <3>1. e.outputSupport[o] = d.outputSupport[o]
      <4>1. pi \notin d.outputSupport[o]
        BY <2>4 DEF Readers
      <4>2. d.outputSupport[o] \ {pi} = d.outputSupport[o]
        BY <4>1
      <4> QED
        BY <1>1, <4>2
    <3> QED
      BY <2>1, <2>2, <2>4, <3>1 DEF Left
  <2> QED
    BY <2>3, <2>4
<1>7. OldShaped(e)
  BY <1>1, <1>6 DEF OldShaped
<1> QED
  BY <1>4, <1>5, <1>7 DEF e

\* The outputs stay filed.
LEMMA StuckFiled ==
    ASSUME NEW d, DataTyped(d), OldShaped(d), InputsRead(d), Filed(d), MatchedComplete(d),
           NEW pi \in d.unmatchedInputs
    PROVE  Filed(StickInput(d, pi)) /\ MatchedComplete(StickInput(d, pi))
<1> DEFINE e == StickInput(d, pi)
<1>1. /\ OutputsOf(e) = OutputsOf(d)
      /\ e.unmatchedInputs = d.unmatchedInputs \ {pi}
      /\ e.unmatchedOutputs = d.unmatchedOutputs
      /\ \A o \in OutputsOf(d) : e.outputSupport[o] = d.outputSupport[o] \ {pi}
      /\ e.outputSignatures = [o \in OutputsOf(d) |-> Left(d, pi, o)]
      /\ e.matchedClusters = d.matchedClusters
      /\ RefiledTo(e.unmatchedClusters, d.unmatchedClusters, Readers(d, pi),
                   Readers(d, pi), e.outputSignatures)
  BY StuckFields
<1> HIDE DEF e
<1>2. ASSUME NEW o \in Readers(d, pi)
      PROVE  /\ o \in OutputsOf(d) /\ o \in d.unmatchedOutputs
             /\ \A s : o \notin At(d.matchedClusters, s)
  <2>1. o \in OutputsOf(d) /\ UnmatchedInputs(d, o) # {}
    BY DEF Readers, UnmatchedInputs
  <2> QED
    BY <2>1, WhereOutputsAre
<1>3. /\ \A s : At(e.unmatchedClusters, s) =
            (At(d.unmatchedClusters, s) \ Readers(d, pi))
            \cup {o \in Readers(d, pi) : e.outputSignatures[o] = s}
      /\ \A s \in DOMAIN e.unmatchedClusters :
            e.unmatchedClusters[s] # {} /\ e.unmatchedClusters[s] = At(e.unmatchedClusters, s)
  BY <1>1 DEF RefiledTo
<1>4. \A s : At(e.unmatchedClusters, s) \subseteq e.unmatchedOutputs
  <2>1. \A s : At(d.unmatchedClusters, s) \subseteq d.unmatchedOutputs
    BY DEF At, Filed
  <2> QED
    BY <1>1, <1>2, <1>3, <2>1
<1>5. ASSUME NEW o \in OutputsOf(d)
      PROVE  /\ \A s : o \in At(e.unmatchedClusters, s) \cup At(e.matchedClusters, s)
                       <=> s = e.outputSignatures[o]
             /\ o \in At(e.unmatchedClusters, e.outputSignatures[o])
                   <=> o \notin At(e.matchedClusters, e.outputSignatures[o])
  <2>1. CASE o \in Readers(d, pi)
    BY <1>1, <1>2, <1>3, <2>1
  <2>2. CASE o \notin Readers(d, pi)
    <3>1. e.outputSignatures[o] = d.outputSignatures[o]
      BY <1>1, <2>2 DEF Left
    <3>2. \A s : /\ o \in At(e.unmatchedClusters, s) <=> o \in At(d.unmatchedClusters, s)
                 /\ o \in At(e.matchedClusters, s) <=> o \in At(d.matchedClusters, s)
      BY <1>1, <1>3, <2>2
    <3>3. /\ \A s : o \in At(d.unmatchedClusters, s) \cup At(d.matchedClusters, s)
                    <=> s = d.outputSignatures[o]
          /\ o \in At(d.unmatchedClusters, d.outputSignatures[o])
                <=> o \notin At(d.matchedClusters, d.outputSignatures[o])
      BY DEF Filed
    <3> QED
      BY <3>1, <3>2, <3>3
  <2> QED
    BY <2>1, <2>2
<1>6. Filed(e)
  <2>1. \A s \in DOMAIN e.unmatchedClusters :
           e.unmatchedClusters[s] # {} /\ e.unmatchedClusters[s] \subseteq e.unmatchedOutputs
    BY <1>3, <1>4
  <2> QED
    BY <1>1, <1>5, <2>1 DEF Filed
<1>7. MatchedComplete(e)
  <2>1. \A o \in OutputsOf(d) : UnmatchedInputs(e, o) \subseteq UnmatchedInputs(d, o)
    BY <1>1 DEF UnmatchedInputs
  <2> QED
    BY <1>1, <2>1 DEF MatchedComplete
<1> QED
  BY <1>6, <1>7 DEF e

\* The signatures go on counting the matched inputs.
LEMMA StuckCounted ==
    ASSUME NEW d, NEW cl, DataInv(d, cl), NEW pi \in d.unmatchedInputs
    PROVE  Counted(StickInput(d, pi), cl)
<1> DEFINE e == StickInput(d, pi)
<1>1. DataTyped(d) /\ OldShaped(d) /\ InputsRead(d) /\ Counted(d, cl)
  BY DEF DataInv
<1>2. /\ OutputsOf(e) = OutputsOf(d)
      /\ e.unmatchedInputs = d.unmatchedInputs \ {pi}
      /\ \A o \in OutputsOf(d) : e.outputSupport[o] = d.outputSupport[o] \ {pi}
      /\ e.outputSignatures = [o \in OutputsOf(d) |-> Left(d, pi, o)]
      /\ e.matchedClusters = d.matchedClusters
  BY <1>1, StuckFields
<1> HIDE DEF e
<1>3. \A o \in OutputsOf(d) : MatchedInputs(e, o) = MatchedInputs(d, o)
  BY <1>2 DEF MatchedInputs
<1>4. LargestId(e) = LargestId(d)
      /\ \A o \in OutputsOf(d) : \A id : InputsUnder(e, cl, o, id) = InputsUnder(d, cl, o, id)
  BY <1>2, <1>3 DEF LargestId, InputsUnder
<1>5. InputsCounted(e, cl)
  BY <1>1, <1>2, <1>3, <1>4 DEF InputsCounted, Counted
<1>6. ASSUME NEW o \in OutputsOf(d)
      PROVE  SignatureCounts(e, cl, o, Left(d, pi, o))
  <2>1. SignatureCounts(d, cl, o, d.outputSignatures[o])
    BY <1>1 DEF Counted
  <2>2. CASE o \in Readers(d, pi)
    <3> DEFINE old == d.outputSignatures[o]
               new == Left(d, pi, o)
    <3>1. /\ \A i \in DOMAIN new : i \in DOMAIN old /\ new[i] = old[i]
          /\ DOMAIN old = DOMAIN new \cup {Len(old)}
          /\ old[Len(old)] = UnmatchedId
      BY <1>1, <2>2, LeftOfReader
    <3> HIDE DEF old, new
    <3>2. \A id \in Nat \ {UnmatchedId} : PlacesOf(new, id) = PlacesOf(old, id)
      BY <3>1 DEF PlacesOf
    <3>3. SignatureCounts(d, cl, o, old)
      BY <2>1 DEF old
    <3>4. SignatureCounts(e, cl, o, new)
      BY <1>4, <3>1, <3>2, <3>3 DEF SignatureCounts
    <3> QED
      BY <3>4 DEF new
  <2>3. CASE o \notin Readers(d, pi)
    <3>1. Left(d, pi, o) = d.outputSignatures[o]
      BY <2>3 DEF Left
    <3> QED
      BY <1>4, <2>1, <3>1 DEF SignatureCounts
  <2> QED
    BY <2>2, <2>3
<1>7. Counted(e, cl)
  BY <1>2, <1>5, <1>6 DEF Counted
<1> QED
  BY <1>7 DEF e

\* An input that is stuck keeps the invariant of the data of a circuit.
LEMMA StickKeeps ==
    ASSUME NEW d, NEW cl, DataInv(d, cl), NEW pi \in d.unmatchedInputs
    PROVE  DataInv(StickInput(d, pi), cl)
BY StuckTyped, StuckFiled, StuckCounted DEF DataInv

-------------------------------------------------------------------------------
(***************************************************************************)
(* getResult.  The two circuits have the same matched signatures, so that  *)
(* the next cluster has one id in both.                                    *)
(***************************************************************************)
MembersOf(cl, id) == {pi \in DOMAIN cl : cl[pi] = id}

DataKept ==
    /\ data = [k \in 1..2 |-> data[k]]
    /\ \A k \in 1..2 : DataInv(data[k], clusterOf[k])

CircuitsCorrespond ==
    /\ DOMAIN data[1].matchedClusters = DOMAIN data[2].matchedClusters
    /\ \A id \in Nat \ {UnmatchedId} :
          Cardinality(MembersOf(clusterOf[1], id)) = Cardinality(MembersOf(clusterOf[2], id))

Groups == (SUBSET OutputsOf(data[1])) \X (SUBSET OutputsOf(data[2]))

GroupsMatched ==
    /\ curMatch = [inputMatching  |-> curMatch.inputMatching,
                   outputMatching |-> curMatch.outputMatching,
                   stuckInputs2   |-> curMatch.stuckInputs2,
                   score          |-> curMatch.score]
    /\ curMatch.outputMatching \in Seq(Groups)
    /\ \A i \in DOMAIN curMatch.outputMatching : \E s :
          /\ curMatch.outputMatching[i][1] \subseteq At(data[1].matchedClusters, s)
          /\ curMatch.outputMatching[i][2] \subseteq At(data[2].matchedClusters, s)

GetResultInv == DataKept /\ CircuitsCorrespond /\ GroupsMatched

\* The data of a circuit as read.
LEMMA InitKeeps ==
    ASSUME NEW support, IsFiniteSet(DOMAIN support),
           UnmatchedId + Cardinality(DOMAIN support) < 2^CharBits,
           \A po \in DOMAIN support : IsFiniteSet(support[po])
    PROVE  /\ DataInv(InitData(support), <<>>)
           /\ DOMAIN InitData(support).matchedClusters = {}
<1> DEFINE d == InitData(support)
           O == DOMAIN support
           sign == [po \in O |-> Repeat(UnmatchedId, Cardinality(support[po]))]
<1>1. /\ OutputsOf(d) = O /\ d.outputSupport = support
      /\ d.unmatchedInputs = UNION {support[po] : po \in O}
      /\ d.inputSupport = [pi \in d.unmatchedInputs |-> {po \in O : pi \in support[po]}]
      /\ d.unmatchedOutputs = O
      /\ d.outputSignatures = sign
      /\ d.matchedClusters = <<>>
      /\ d.unmatchedClusters = [s \in {sign[po] : po \in O} |-> {po \in O : sign[po] = s}]
  BY DEF InitData, OutputsOf
<1>2. IsData(d)
  BY DEF InitData, IsData
<1>3. ASSUME NEW po \in O
      PROVE  /\ sign[po] \in Seq(Nat) /\ Len(sign[po]) = Cardinality(support[po])
             /\ \A i \in DOMAIN sign[po] : sign[po][i] = UnmatchedId /\ i > 0
             /\ sign[po] = d.outputSignatures[po]
  <2>1. Cardinality(support[po]) \in Nat
    BY FS_CardinalityType
  <2>2. sign[po] = [i \in 1 .. Cardinality(support[po]) |-> UnmatchedId]
    BY DEF Repeat
  <2>3. sign[po] = d.outputSignatures[po]
    BY <1>1
  <2> HIDE DEF sign, d
  <2>4. /\ sign[po] \in Seq(Nat) /\ Len(sign[po]) = Cardinality(support[po])
        /\ DOMAIN sign[po] = 1 .. Cardinality(support[po])
    BY <2>1, <2>2 DEF UnmatchedId
  <2>5. \A i \in DOMAIN sign[po] : sign[po][i] = UnmatchedId /\ i > 0
    BY <2>1, <2>2, <2>4
  <2> QED
    BY <2>3, <2>4, <2>5
<1> HIDE DEF d
<1>4. DOMAIN <<>> = {} /\ IsFiniteSet({}) /\ Cardinality({}) = 0
  BY FS_EmptySet
<1>5. DataTyped(d)
  <2>1. sign \in [O -> Seq(Nat)]
    BY <1>3
  <2> QED
    BY <1>1, <1>2, <1>4, <2>1 DEF DataTyped
<1>6. \A po \in O : MatchedInputs(d, po) = {}
  BY <1>1 DEF MatchedInputs
<1>7. OldShaped(d)
  <2>1. ASSUME NEW po \in O
        PROVE  ShapedAs(d.outputSignatures[po], MatchedInputs(d, po), d.outputSupport[po])
    <3>1. d.outputSupport[po] = support[po] /\ Cardinality(MatchedInputs(d, po)) = 0
      BY <1>1, <1>4, <1>6
    <3> QED
      BY <1>3, <3>1 DEF ShapedAs
  <2> QED
    BY <1>1, <2>1 DEF OldShaped
<1>8. InputsRead(d)
  BY <1>1 DEF InputsRead
<1>9. \A s : At(d.matchedClusters, s) = {}
  BY <1>1, <1>4 DEF At
<1>10. \A s : \A po \in O : po \in At(d.unmatchedClusters, s) <=> s = sign[po]
  <2> HIDE DEF sign
  <2>1. /\ DOMAIN d.unmatchedClusters = {sign[po] : po \in O}
        /\ \A s \in DOMAIN d.unmatchedClusters : d.unmatchedClusters[s] = {po \in O : sign[po] = s}
    BY <1>1
  <2> QED
    BY <2>1 DEF At
<1>11. Filed(d)
  <2>1. \A s \in DOMAIN d.unmatchedClusters :
           d.unmatchedClusters[s] # {} /\ d.unmatchedClusters[s] \subseteq d.unmatchedOutputs
    <3> HIDE DEF sign
    <3> QED
      BY <1>1
  <2>2. ASSUME NEW po \in O
        PROVE  /\ \A s : po \in At(d.unmatchedClusters, s) \cup At(d.matchedClusters, s)
                         <=> s = sign[po]
               /\ po \in At(d.unmatchedClusters, sign[po])
               /\ po \notin At(d.matchedClusters, sign[po])
    <3> HIDE DEF sign
    <3> QED
      BY <1>9, <1>10
  <2> HIDE DEF sign
  <2> QED
    BY <1>1, <2>1, <2>2 DEF Filed
<1>12. MatchedComplete(d)
  BY <1>9 DEF MatchedComplete
<1>13. Counted(d, <<>>)
  <2>1. InputsCounted(d, <<>>)
    BY <1>1, <1>4, <1>6 DEF InputsCounted
  <2>2. ASSUME NEW po \in O PROVE SignatureCounts(d, <<>>, po, d.outputSignatures[po])
    <3>1. LargestId(d) = UnmatchedId
      BY <1>1, <1>4 DEF LargestId, UnmatchedId
    <3>2. \A id \in Nat \ {UnmatchedId} :
             PlacesOf(sign[po], id) = {} /\ InputsUnder(d, <<>>, po, id) = {}
      BY <1>3, <1>6 DEF PlacesOf, InputsUnder
    <3>3. \A i \in DOMAIN sign[po] : sign[po][i] <= UnmatchedId
      BY <1>3 DEF UnmatchedId
    <3>4. \A i, j \in DOMAIN sign[po] :
             i < j /\ sign[po][j] # UnmatchedId => sign[po][i] <= sign[po][j]
      BY <1>3
    <3> HIDE DEF sign
    <3>5. sign[po] = d.outputSignatures[po]
      BY <1>1
    <3> QED
      BY <3>1, <3>2, <3>3, <3>4, <3>5 DEF SignatureCounts
  <2> QED
    BY <1>1, <2>1, <2>2 DEF Counted
<1>14. DataInv(d, <<>>) /\ DOMAIN d.matchedClusters = {}
  BY <1>1, <1>4, <1>5, <1>7, <1>8, <1>11, <1>12, <1>13 DEF DataInv
<1> QED
  BY <1>14 DEF d

\* The least signature both circuits have is one they have.
LEMMA LeastIsCommon ==
    ASSUME DataKept, CommonSignatures # {}
    PROVE  Least(CommonSignatures) \in CommonSignatures
<1>1. DataTyped(data[1]) /\ Filed(data[1])
  BY DEF DataKept, DataInv
<1> DEFINE sign == data[1].outputSignatures
           O == OutputsOf(data[1])
           T == {sign[o] : o \in O}
<1>2. sign \in [O -> Seq(Nat)] /\ IsFiniteSet(O)
  BY <1>1 DEF DataTyped
<1> HIDE DEF sign, O
<1>3. IsFiniteSet(T) /\ T \in SUBSET Seq(Nat)
  <2>1. sign \in Surjection(O, T)
    BY <1>2 DEF Surjection
  <2>2. T \in SUBSET Seq(Nat)
    BY <1>2
  <2> HIDE DEF T
  <2> QED
    BY <1>2, <2>1, <2>2, FS_Surjection
<1>4. CommonSignatures \subseteq T
  <2> SUFFICES ASSUME NEW s \in DOMAIN data[1].unmatchedClusters PROVE s \in T
    BY DEF CommonSignatures, Unmatched
  <2>1. PICK o \in data[1].unmatchedOutputs : o \in At(data[1].unmatchedClusters, s)
    BY <1>1 DEF Filed, At
  <2>2. o \in O /\ s = sign[o]
    BY <1>1, <2>1 DEF Filed, DataTyped, O, sign
  <2> QED
    BY <2>2
<1> HIDE DEF T
<1>5. IsFiniteSet(CommonSignatures) /\ CommonSignatures \in SUBSET Seq(Nat)
  BY <1>3, <1>4, FS_Subset
<1> QED
  BY <1>5, LeastIsOne

\* Where the zeros of a signature begin is a matter of the signature alone.
LEMMA ZerosBegin ==
    ASSUME NEW sign \in Seq(Nat), NEW p \in Nat, NEW q \in Nat, p <= Len(sign), q <= Len(sign),
           \A i \in DOMAIN sign : sign[i] = UnmatchedId <=> i > p,
           \A i \in DOMAIN sign : sign[i] = UnmatchedId <=> i > q
    PROVE  p = q
<1>1. Len(sign) \in Nat /\ DOMAIN sign = 1 .. Len(sign)
  OBVIOUS
<1>2. ~(p < q)
  <2> SUFFICES ASSUME p < q PROVE FALSE
    OBVIOUS
  <2>1. q \in DOMAIN sign
    BY <1>1
  <2> QED
    BY <2>1
<1>3. ~(q < p)
  <2> SUFFICES ASSUME q < p PROVE FALSE
    OBVIOUS
  <2>1. p \in DOMAIN sign
    BY <1>1
  <2> QED
    BY <2>1
<1> QED
  BY <1>2, <1>3

\* Matching two outputs of one signature makes one signature and one id of it,
\* for as many inputs in each circuit.
LEMMA SameAfter ==
    ASSUME NEW d, NEW cl, DataInv(d, cl), NEW po, Waits(d, po),
           NEW e, NEW cm, DataInv(e, cm), NEW qo, Waits(e, qo),
           d.outputSignatures[po] = e.outputSignatures[qo],
           DOMAIN d.matchedClusters = DOMAIN e.matchedClusters
    PROVE  /\ SignaturesAfter(d, po)[po] = SignaturesAfter(e, qo)[qo]
           /\ NewClusterId(d) = NewClusterId(e)
           /\ Cardinality(UnmatchedInputs(d, po)) = Cardinality(UnmatchedInputs(e, qo))
<1> DEFINE sign == d.outputSignatures[po]
           new1 == SignaturesAfter(d, po)[po]
           new2 == SignaturesAfter(e, qo)[qo]
           p1 == Cardinality(MatchedInputs(d, po))
           p2 == Cardinality(MatchedInputs(e, qo))
           n1 == Cardinality(Taken(d, po, po))
           n2 == Cardinality(Taken(e, qo, qo))
           id == NewClusterId(d)
<1>1. /\ DataTyped(d) /\ OldShaped(d) /\ Filed(d) /\ MatchedComplete(d)
      /\ po \in d.unmatchedOutputs /\ po \in OutputsOf(d)
  BY DEF DataInv, Waits, DataTyped
<1>2. /\ DataTyped(e) /\ OldShaped(e) /\ Filed(e) /\ MatchedComplete(e)
      /\ qo \in e.unmatchedOutputs /\ qo \in OutputsOf(e)
  BY DEF DataInv, Waits, DataTyped
<1>3. NewClusterId(e) = id
  BY DEF NewClusterId
<1>4. TakesIds(sign, new1, p1, n1, id)
  BY <1>1, SignatureAfter
<1>5. TakesIds(sign, new2, p2, n2, id)
  BY <1>2, <1>3, SignatureAfter
<1>6. p1 \in Nat /\ n1 \in Nat /\ p1 + n1 = Len(sign)
  BY <1>1, TakenInputs
<1>7. p2 \in Nat /\ n2 \in Nat /\ p2 + n2 = Len(sign)
  BY <1>2, TakenInputs
<1>8. /\ sign \in Seq(Nat)
      /\ \A i \in DOMAIN sign : sign[i] = UnmatchedId <=> i > p1
      /\ \A i \in DOMAIN sign : sign[i] = UnmatchedId <=> i > p2
  BY <1>1, <1>2 DEF DataTyped, OldShaped, ShapedAs
<1>9. Taken(d, po, po) = UnmatchedInputs(d, po) /\ Taken(e, qo, qo) = UnmatchedInputs(e, qo)
  BY DEF Taken, UnmatchedInputs
<1> HIDE DEF sign, new1, new2, p1, p2, n1, n2, id
<1>10. p1 = p2
  <2>1. p1 <= Len(sign) /\ p2 <= Len(sign)
    BY <1>6, <1>7, <1>8
  <2> QED
    BY <1>6, <1>7, <1>8, <2>1, ZerosBegin
<1>11. n1 = n2
  BY <1>6, <1>7, <1>8, <1>10
<1>12. new1 = new2
  <2>1. /\ new1 \in Seq(Nat) /\ new2 \in Seq(Nat) /\ Len(new1) = Len(new2)
        /\ \A i \in 1 .. Len(new1) : new1[i] = new2[i]
    <3>1. DOMAIN sign = 1 .. Len(sign)
      BY <1>8
    <3> QED
      BY <1>4, <1>5, <1>10, <1>11, <3>1 DEF TakesIds
  <2> QED
    BY <2>1, SeqEqual
<1> QED
  BY <1>3, <1>9, <1>11, <1>12 DEF n1, n2, new1, new2, id

\* The members of a cluster after a match.
LEMMA MembersAfter ==
    ASSUME NEW d, NEW cl, DataInv(d, cl), NEW po, Waits(d, po), NEW id
    PROVE  MembersOf(ClustersAfter(d, cl, po), id) =
              IF id = NewClusterId(d) THEN UnmatchedInputs(d, po) ELSE MembersOf(cl, id)
<1> DEFINE new == ClustersAfter(d, cl, po)
<1>1. /\ DOMAIN new = DOMAIN cl \cup UnmatchedInputs(d, po)
      /\ \A pi \in DOMAIN new :
            new[pi] = IF pi \in UnmatchedInputs(d, po) THEN NewClusterId(d) ELSE cl[pi]
  BY DEF ClustersAfter
<1>2. DOMAIN cl \cap UnmatchedInputs(d, po) = {}
  BY DEF DataInv, Counted, InputsCounted, UnmatchedInputs
<1>3. \A pi \in DOMAIN cl : cl[pi] # NewClusterId(d)
  <2>1. \A pi \in DOMAIN cl : cl[pi] \in UnmatchedId + 1 .. LargestId(d)
    BY DEF DataInv, Counted, InputsCounted
  <2>2. LargestId(d) \in Nat /\ NewClusterId(d) = LargestId(d) + 1
    BY NewIdFits DEF DataInv
  <2> QED
    BY <2>1, <2>2
<1> HIDE DEF new
<1>4. MembersOf(new, id) =
         IF id = NewClusterId(d) THEN UnmatchedInputs(d, po) ELSE MembersOf(cl, id)
  BY <1>1, <1>2, <1>3 DEF MembersOf
<1> QED
  BY <1>4 DEF new

\* The groups of outputs that were matched before stay in their clusters.
LEMMA ClustersGrow ==
    ASSUME NEW d, NEW cl, DataInv(d, cl), NEW po, Waits(d, po)
    PROVE  /\ \A s : At(d.matchedClusters, s) \subseteq At(MatchOutput(d, po).matchedClusters, s)
           /\ OutputsOf(MatchOutput(d, po)) = OutputsOf(d)
           /\ OutputGroup(d, po) =
                 At(MatchOutput(d, po).matchedClusters, SignaturesAfter(d, po)[po])
           /\ OutputGroup(d, po) \subseteq OutputsOf(d)
           /\ InputGroup(d, po) = UnmatchedInputs(d, po)
<1>1. /\ DataTyped(d) /\ OldShaped(d) /\ Filed(d) /\ MatchedComplete(d)
      /\ IsData(d) /\ po \in d.unmatchedOutputs
  BY DEF DataInv, Waits, DataTyped
<1> DEFINE e == MatchOutput(d, po)
           new == SignaturesAfter(d, po)[po]
<1>2. e.matchedClusters =
         Refiled(d.matchedClusters, {}, {po} \cup Grouped(d, po), SignaturesAfter(d, po))
  BY <1>1, MatchedData
<1>3. /\ DataTyped(e) /\ OutputsOf(e) = OutputsOf(d)
      /\ new \in DOMAIN e.matchedClusters
  BY <1>1, TypedAfter, MatchedAfter
<1>4. OutputGroup(d, po) = e.matchedClusters[new] /\ InputGroup(d, po) = UnmatchedInputs(d, po)
  BY <1>1 DEF OutputGroup, InputGroup
<1> HIDE DEF e, new
<1>5. RefiledTo(e.matchedClusters, d.matchedClusters, {}, {po} \cup Grouped(d, po),
                SignaturesAfter(d, po))
  BY <1>2, RefiledAt
<1>6. \A s : At(d.matchedClusters, s) \subseteq At(e.matchedClusters, s)
  BY <1>5 DEF RefiledTo
<1>7. OutputGroup(d, po) = At(e.matchedClusters, new) /\ OutputGroup(d, po) \subseteq OutputsOf(d)
  BY <1>3, <1>4 DEF At, DataTyped
<1> QED
  BY <1>3, <1>4, <1>6, <1>7 DEF e, new

\* The initial state has the data of a pair of circuits.
LEMMA InitInv == IdsFit /\ GetResultInit => GetResultInv
<1> SUFFICES ASSUME IdsFit, GetResultInit PROVE GetResultInv
  OBVIOUS
<1>1. PICK pair \in Supports : data = [k \in 1..2 |-> InitData(pair[k])]
  BY DEF GetResultInit
<1>2. \A k \in 1..2 : data[k] = InitData(pair[k]) /\ clusterOf[k] = <<>>
  BY <1>1 DEF GetResultInit
<1>3. ASSUME NEW k \in 1..2
      PROVE  DataInv(data[k], clusterOf[k]) /\ DOMAIN data[k].matchedClusters = {}
  <2>1. /\ IsFiniteSet(DOMAIN pair[k]) /\ \A po \in DOMAIN pair[k] : IsFiniteSet(pair[k][po])
        /\ UnmatchedId + Cardinality(DOMAIN pair[k]) < 2^CharBits
    BY SupportsAssumption DEF IdsFit
  <2>2. DataInv(InitData(pair[k]), <<>>) /\ DOMAIN InitData(pair[k]).matchedClusters = {}
    BY <2>1, InitKeeps
  <2> QED
    BY <1>2, <2>2
<1>4. DataKept
  <2>1. data = [k \in 1..2 |-> data[k]]
    BY <1>1
  <2> QED
    BY <1>3, <2>1 DEF DataKept
<1>5. CircuitsCorrespond
  <2>1. 1 \in 1..2 /\ 2 \in 1..2
    OBVIOUS
  <2>2. clusterOf[1] = clusterOf[2]
    BY <1>2, <2>1
  <2>3. DOMAIN data[1].matchedClusters = DOMAIN data[2].matchedClusters
    BY <1>3, <2>1
  <2> QED
    BY <2>2, <2>3 DEF CircuitsCorrespond
<1>6. GroupsMatched
  BY DEF GetResultInit, GroupsMatched
<1> QED
  BY <1>4, <1>5, <1>6 DEF GetResultInv

\* getResult matches an output of each circuit.
LEMMA MatchStep == GetResultInv /\ MatchCommon => GetResultInv'
<1> SUFFICES ASSUME GetResultInv, MatchCommon PROVE GetResultInv'
  OBVIOUS
<1> DEFINE s == Least(CommonSignatures)
<1>1. DataKept /\ CircuitsCorrespond /\ GroupsMatched /\ s \in CommonSignatures
  BY LeastIsCommon DEF GetResultInv, MatchCommon
<1>2. PICK po1 \in data[1].unmatchedClusters[s], po2 \in data[2].unmatchedClusters[s] :
        LET po == <<po1, po2>>
            group(k) == InputGroup(data[k], po[k])
        IN  /\ data[1].outputSignatures[po1] = data[2].outputSignatures[po2]
            /\ data' = [k \in 1..2 |-> MatchOutput(data[k], po[k])]
            /\ curMatch' = Record(group(1), group(2),
                                  OutputGroup(data[1], po1), OutputGroup(data[2], po2))
            /\ clusterOf' = [k \in 1..2 |->
                   [pi \in DOMAIN clusterOf[k] \cup group(k) |->
                       IF pi \in group(k) THEN NewClusterId(data[k]) ELSE clusterOf[k][pi]]]
  BY DEF MatchCommon
<1> DEFINE po == <<po1, po2>>
<1>3. /\ data[1].outputSignatures[po1] = data[2].outputSignatures[po2]
      /\ data' = [k \in 1..2 |-> MatchOutput(data[k], po[k])]
      /\ clusterOf' = [k \in 1..2 |->
             [pi \in DOMAIN clusterOf[k] \cup InputGroup(data[k], po[k]) |->
                 IF pi \in InputGroup(data[k], po[k]) THEN NewClusterId(data[k])
                 ELSE clusterOf[k][pi]]]
  BY <1>2
<1>4. /\ curMatch'.outputMatching = Append(curMatch.outputMatching,
                                           <<OutputGroup(data[1], po1), OutputGroup(data[2], po2)>>)
      /\ curMatch' = [inputMatching  |-> curMatch'.inputMatching,
                      outputMatching |-> curMatch'.outputMatching,
                      stuckInputs2   |-> curMatch'.stuckInputs2,
                      score          |-> curMatch'.score]
  BY <1>1, <1>2 DEF Record, GroupsMatched
<1>5. ASSUME NEW k \in 1..2
      PROVE  /\ DataInv(data[k], clusterOf[k]) /\ Waits(data[k], po[k])
             /\ data'[k] = MatchOutput(data[k], po[k])
             /\ clusterOf'[k] = ClustersAfter(data[k], clusterOf[k], po[k])
  <2>1. DataInv(data[k], clusterOf[k]) /\ DataTyped(data[k]) /\ Filed(data[k])
    BY <1>1 DEF DataKept, DataInv
  <2>2. po[k] \in data[k].unmatchedClusters[s] /\ s \in DOMAIN data[k].unmatchedClusters
    <3>1. CASE k = 1
      BY <1>1, <3>1 DEF CommonSignatures, Unmatched
    <3>2. CASE k = 2
      BY <1>1, <3>2 DEF CommonSignatures, Unmatched
    <3> QED
      BY <3>1, <3>2
  <2> HIDE DEF s, po
  <2>3. po[k] \in data[k].unmatchedOutputs /\ po[k] \in At(data[k].unmatchedClusters, s)
        /\ po[k] \in OutputsOf(data[k])
    BY <2>1, <2>2 DEF Filed, At, DataTyped
  <2>4. s = data[k].outputSignatures[po[k]]
    BY <2>1, <2>3 DEF Filed
  <2>5. Waits(data[k], po[k])
    BY <2>3, <2>4 DEF Waits
  <2>6. InputGroup(data[k], po[k]) = UnmatchedInputs(data[k], po[k])
    BY <2>3 DEF InputGroup
  <2>7. data'[k] = MatchOutput(data[k], po[k])
    BY <1>3
  <2>8. clusterOf'[k] = ClustersAfter(data[k], clusterOf[k], po[k])
    BY <1>3, <2>6 DEF ClustersAfter
  <2> QED
    BY <2>1, <2>5, <2>7, <2>8
<1>6. DataKept'
  <2>1. data' = [k \in 1..2 |-> data'[k]]
    BY <1>3
  <2>2. \A k \in 1..2 : DataInv(data'[k], clusterOf'[k])
    BY <1>5, MatchKeeps
  <2> QED
    BY <2>1, <2>2 DEF DataKept
<1>7. 1 \in 1..2 /\ 2 \in 1..2 /\ po[1] = po1 /\ po[2] = po2
  OBVIOUS
<1> HIDE DEF s, po
<1>8. /\ DataInv(data[1], clusterOf[1]) /\ Waits(data[1], po1)
      /\ data'[1] = MatchOutput(data[1], po1)
      /\ clusterOf'[1] = ClustersAfter(data[1], clusterOf[1], po1)
  BY <1>5, <1>7
<1>9. /\ DataInv(data[2], clusterOf[2]) /\ Waits(data[2], po2)
      /\ data'[2] = MatchOutput(data[2], po2)
      /\ clusterOf'[2] = ClustersAfter(data[2], clusterOf[2], po2)
  BY <1>5, <1>7
<1>10. /\ SignaturesAfter(data[1], po1)[po1] = SignaturesAfter(data[2], po2)[po2]
       /\ NewClusterId(data[1]) = NewClusterId(data[2])
       /\ Cardinality(UnmatchedInputs(data[1], po1)) = Cardinality(UnmatchedInputs(data[2], po2))
  BY <1>1, <1>3, <1>8, <1>9, SameAfter DEF CircuitsCorrespond
<1>11. CircuitsCorrespond'
  <2>1. DOMAIN data'[1].matchedClusters = DOMAIN data'[2].matchedClusters
    <3>1. DOMAIN data'[1].matchedClusters =
             DOMAIN data[1].matchedClusters \cup {SignaturesAfter(data[1], po1)[po1]}
      BY <1>8, TypedAfter DEF DataInv
    <3>2. DOMAIN data'[2].matchedClusters =
             DOMAIN data[2].matchedClusters \cup {SignaturesAfter(data[2], po2)[po2]}
      BY <1>9, TypedAfter DEF DataInv
    <3> QED
      BY <1>1, <1>10, <3>1, <3>2 DEF CircuitsCorrespond
  <2>2. ASSUME NEW id \in Nat \ {UnmatchedId}
        PROVE  Cardinality(MembersOf(clusterOf'[1], id)) = Cardinality(MembersOf(clusterOf'[2], id))
    <3>1. MembersOf(clusterOf'[1], id) =
             IF id = NewClusterId(data[1]) THEN UnmatchedInputs(data[1], po1)
             ELSE MembersOf(clusterOf[1], id)
      BY <1>8, MembersAfter
    <3>2. MembersOf(clusterOf'[2], id) =
             IF id = NewClusterId(data[2]) THEN UnmatchedInputs(data[2], po2)
             ELSE MembersOf(clusterOf[2], id)
      BY <1>9, MembersAfter
    <3>3. Cardinality(MembersOf(clusterOf[1], id)) = Cardinality(MembersOf(clusterOf[2], id))
      BY <1>1 DEF CircuitsCorrespond
    <3> QED
      BY <1>10, <3>1, <3>2, <3>3
  <2> QED
    BY <2>1, <2>2 DEF CircuitsCorrespond, UnmatchedId, MembersOf
<1>12. GroupsMatched'
  <2> DEFINE old == curMatch.outputMatching
             new == curMatch'.outputMatching
             groups == <<OutputGroup(data[1], po1), OutputGroup(data[2], po2)>>
             sign == SignaturesAfter(data[1], po1)[po1]
  <2>1. /\ \A t : At(data[1].matchedClusters, t) \subseteq At(data'[1].matchedClusters, t)
        /\ OutputsOf(data'[1]) = OutputsOf(data[1])
        /\ OutputGroup(data[1], po1) = At(data'[1].matchedClusters, sign)
        /\ OutputGroup(data[1], po1) \subseteq OutputsOf(data[1])
    BY <1>8, ClustersGrow
  <2>2. /\ \A t : At(data[2].matchedClusters, t) \subseteq At(data'[2].matchedClusters, t)
        /\ OutputsOf(data'[2]) = OutputsOf(data[2])
        /\ OutputGroup(data[2], po2) = At(data'[2].matchedClusters, sign)
        /\ OutputGroup(data[2], po2) \subseteq OutputsOf(data[2])
    BY <1>9, <1>10, ClustersGrow
  <2>3. Groups' = Groups /\ groups \in Groups
    BY <2>1, <2>2 DEF Groups
  <2>4. groups[1] = OutputGroup(data[1], po1) /\ groups[2] = OutputGroup(data[2], po2)
    OBVIOUS
  <2>5. new = Append(old, groups) /\ old \in Seq(Groups)
    BY <1>1, <1>4 DEF GroupsMatched
  <2> HIDE DEF old, new, groups, sign
  <2>6. /\ new \in Seq(Groups)
        /\ \A i \in DOMAIN new : (i \in DOMAIN old /\ new[i] = old[i]) \/ new[i] = groups
    BY <2>3, <2>5
  <2>7. ASSUME NEW i \in DOMAIN new
        PROVE  \E t : /\ new[i][1] \subseteq At(data'[1].matchedClusters, t)
                      /\ new[i][2] \subseteq At(data'[2].matchedClusters, t)
    <3>1. CASE new[i] = groups
      BY <2>1, <2>2, <2>4, <3>1
    <3>2. CASE i \in DOMAIN old /\ new[i] = old[i]
      <4>1. PICK t : /\ old[i][1] \subseteq At(data[1].matchedClusters, t)
                     /\ old[i][2] \subseteq At(data[2].matchedClusters, t)
        BY <1>1, <3>2 DEF GroupsMatched, old
      <4>2. /\ new[i][1] \subseteq At(data'[1].matchedClusters, t)
            /\ new[i][2] \subseteq At(data'[2].matchedClusters, t)
        BY <2>1, <2>2, <3>2, <4>1
      <4> QED
        BY <4>2
    <3> QED
      BY <2>6, <3>1, <3>2
  <2>8. new \in Seq(Groups')
    BY <2>3, <2>6
  <2> QED
    BY <1>4, <2>7, <2>8 DEF GroupsMatched, new, At
<1> QED
  BY <1>6, <1>11, <1>12 DEF GetResultInv

\* getResult takes an input away from circuit 2.
LEMMA StickStep == GetResultInv /\ StickOne => GetResultInv'
<1> SUFFICES ASSUME GetResultInv, StickOne PROVE GetResultInv'
  OBVIOUS
<1>1. DataKept /\ CircuitsCorrespond /\ GroupsMatched
  BY DEF GetResultInv
<1>2. PICK pi \in UnmatchedInputs(data[2], pick[1]) :
        /\ data' = [data EXCEPT ![2] = StickInput(@, pi)]
        /\ curMatch' = [curMatch EXCEPT !.stuckInputs2 = @ \cup {pi}]
  BY DEF StickOne
<1>3. /\ data'[1] = data[1] /\ data'[2] = StickInput(data[2], pi)
      /\ data' = [k \in 1..2 |-> data'[k]]
      /\ clusterOf' = clusterOf
  <2>1. DOMAIN data = 1..2
    BY <1>1 DEF DataKept
  <2>2. data' = [k \in 1..2 |-> IF k = 2 THEN StickInput(data[2], pi) ELSE data[k]]
    BY <1>2, <2>1
  <2>3. clusterOf' = clusterOf
    BY DEF StickOne
  <2> QED
    BY <2>2, <2>3
<1>4. /\ curMatch'.outputMatching = curMatch.outputMatching
      /\ curMatch' = [inputMatching  |-> curMatch'.inputMatching,
                      outputMatching |-> curMatch'.outputMatching,
                      stuckInputs2   |-> curMatch'.stuckInputs2,
                      score          |-> curMatch'.score]
  BY <1>1, <1>2 DEF GroupsMatched
<1>5. pi \in data[2].unmatchedInputs
  BY DEF UnmatchedInputs
<1>6. DataInv(data[1], clusterOf[1]) /\ DataInv(data[2], clusterOf[2])
  <2>1. 1 \in 1..2 /\ 2 \in 1..2
    OBVIOUS
  <2> QED
    BY <1>1, <2>1 DEF DataKept
<1>7. DataInv(data'[2], clusterOf'[2]) /\ DataInv(data'[1], clusterOf'[1])
  BY <1>3, <1>5, <1>6, StickKeeps
<1>8. DataKept'
  <2>1. \A k \in 1..2 : k = 1 \/ k = 2
    OBVIOUS
  <2>2. \A k \in 1..2 : DataInv(data'[k], clusterOf'[k])
    BY <1>7, <2>1
  <2> QED
    BY <1>3, <2>2 DEF DataKept
<1>9. data'[2].matchedClusters = data[2].matchedClusters /\ OutputsOf(data'[2]) = OutputsOf(data[2])
  <2>1. DataTyped(data[2]) /\ InputsRead(data[2])
    BY <1>6 DEF DataInv
  <2>2. /\ StickInput(data[2], pi).matchedClusters = data[2].matchedClusters
        /\ OutputsOf(StickInput(data[2], pi)) = OutputsOf(data[2])
    BY <1>5, <2>1, StuckFields
  <2> QED
    BY <1>3, <2>2
<1>10. CircuitsCorrespond'
  BY <1>1, <1>3, <1>9 DEF CircuitsCorrespond, UnmatchedId, MembersOf
<1>11. GroupsMatched'
  <2>1. Groups' = Groups
    BY <1>3, <1>9 DEF Groups
  <2> QED
    BY <1>1, <1>3, <1>4, <1>9, <2>1 DEF GroupsMatched, At
<1> QED
  BY <1>8, <1>10, <1>11 DEF GetResultInv

\* Every step keeps the invariant.
LEMMA GetResultKeeps == GetResultInv /\ [GetResultNext]_getResultVars => GetResultInv'
<1> SUFFICES ASSUME GetResultInv, [GetResultNext]_getResultVars PROVE GetResultInv'
  OBVIOUS
<1>1. CASE MatchCommon
  BY <1>1, MatchStep
<1>2. CASE StickOne
  BY <1>2, StickStep
<1>3. CASE UNCHANGED <<data, curMatch, clusterOf>>
  <2>1. data' = data /\ curMatch' = curMatch /\ clusterOf' = clusterOf
    BY <1>3
  <2>2. DataKept' <=> DataKept
    BY <2>1 DEF DataKept
  <2>3. CircuitsCorrespond' <=> CircuitsCorrespond
    BY <2>1 DEF CircuitsCorrespond, UnmatchedId, MembersOf
  <2>4. GroupsMatched' <=> GroupsMatched
    BY <2>1 DEF GroupsMatched, Groups, At, OutputsOf
  <2> QED
    BY <2>2, <2>3, <2>4 DEF GetResultInv
<1>4. ChooseOutput \/ ReturnResult \/ UNCHANGED getResultVars => UNCHANGED <<data, curMatch, clusterOf>>
  BY DEF ChooseOutput, ReturnResult, getResultVars
<1> QED
  BY <1>1, <1>2, <1>3, <1>4 DEF GetResultNext

\* The data of a circuit are as the properties want them.
LEMMA DataAsPromised ==
    ASSUME GetResultInv PROVE ClustersFiled /\ SignaturesDescribe
<1>1. ASSUME NEW k \in 1..2 PROVE DataInv(data[k], clusterOf[k])
  BY DEF GetResultInv, DataKept
<1>2. ClustersFiled
  <2>1. \A k \in 1..2 : Filed(data[k])
    BY <1>1 DEF DataInv
  <2> QED
    BY <2>1 DEF ClustersFiled, Filed
<1>3. ASSUME NEW k \in 1..2, NEW po \in OutputsOf(data[k])
      PROVE  LET d == data[k]
                 sign == d.outputSignatures[po]
                 zeros == {i \in DOMAIN sign : sign[i] = UnmatchedId}
                 ids == {clusterOf[k][pi] : pi \in d.outputSupport[po] \ d.unmatchedInputs}
             IN  /\ Cardinality(zeros) = Cardinality(UnmatchedInputs(d, po))
                 /\ \A id \in ids :
                        Cardinality({i \in DOMAIN sign : sign[i] = id}) =
                        Cardinality({pi \in d.outputSupport[po] \ d.unmatchedInputs :
                                        clusterOf[k][pi] = id})
                 /\ Len(sign) = Cardinality(d.outputSupport[po])
                 /\ \A i, j \in DOMAIN sign :
                        i < j /\ sign[j] # UnmatchedId => sign[i] # UnmatchedId /\ sign[i] <= sign[j]
  <2> DEFINE d == data[k]
             cl == clusterOf[k]
             sign == d.outputSignatures[po]
             p == Cardinality(MatchedInputs(d, po))
             n == Cardinality(UnmatchedInputs(d, po))
             ids == {clusterOf[k][pi] : pi \in d.outputSupport[po] \ d.unmatchedInputs}
  <2>1. DataTyped(d) /\ OldShaped(d) /\ Counted(d, cl)
    BY <1>1 DEF DataInv
  <2>2. HasRoom(d, po, UnmatchedInputs(d, po))
    BY <2>1, EnoughZeros
  <2>3. p \in Nat /\ n \in Nat /\ p + n = Len(sign) /\ sign \in Seq(Nat)
    BY <2>1, <2>2 DEF HasRoom, DataTyped
  <2>4. /\ Len(sign) = Cardinality(d.outputSupport[po])
        /\ \A i \in DOMAIN sign : sign[i] = UnmatchedId <=> i > p
    BY <2>1 DEF OldShaped, ShapedAs
  <2>5. SignatureCounts(d, cl, po, sign) /\ InputsCounted(d, cl)
    BY <2>1 DEF Counted
  <2>6. \A id \in ids : id \in Nat \ {UnmatchedId}
    <3>1. \A pi \in MatchedInputs(d, po) : cl[pi] \in UnmatchedId + 1 .. LargestId(d)
      BY <2>5 DEF InputsCounted
    <3>2. LargestId(d) \in Nat
      BY <2>1, FS_CardinalityType DEF DataTyped, LargestId, UnmatchedId
    <3> QED
      BY <3>1, <3>2 DEF MatchedInputs, UnmatchedId
  <2>7. \A id \in ids : Cardinality(PlacesOf(sign, id)) = Cardinality(InputsUnder(d, cl, po, id))
    <3> HIDE DEF ids
    <3> QED
      BY <2>5, <2>6 DEF SignatureCounts
  <2> HIDE DEF sign, p, n
  <2>8. DOMAIN sign = 1 .. Len(sign) /\ Len(sign) \in Nat
    BY <2>3
  <2>9. Cardinality({i \in DOMAIN sign : sign[i] = UnmatchedId}) = n
    <3>1. {i \in DOMAIN sign : sign[i] = UnmatchedId} = p + 1 .. Len(sign)
      BY <2>3, <2>4, <2>8
    <3>2. Cardinality(p + 1 .. Len(sign)) =
             IF p + 1 > Len(sign) THEN 0 ELSE Len(sign) - (p + 1) + 1
      <4>1. p + 1 \in Int /\ Len(sign) \in Int
        BY <2>3, <2>8
      <4> QED
        BY <4>1, FS_Interval
    <3>3. (IF p + 1 > Len(sign) THEN 0 ELSE Len(sign) - (p + 1) + 1) = n
      BY <2>3, <2>8
    <3> QED
      BY <3>1, <3>2, <3>3
  <2>10. \A i, j \in DOMAIN sign :
            i < j /\ sign[j] # UnmatchedId => sign[i] # UnmatchedId /\ sign[i] <= sign[j]
    <3>1. \A i, j \in DOMAIN sign : i < j /\ sign[j] # UnmatchedId => sign[i] <= sign[j]
      BY <2>5 DEF SignatureCounts
    <3>2. \A i, j \in DOMAIN sign : i < j /\ sign[j] # UnmatchedId => sign[i] # UnmatchedId
      BY <2>3, <2>4, <2>8
    <3> QED
      BY <3>1, <3>2
  <2> QED
    BY <2>4, <2>7, <2>9, <2>10 DEF sign, n, PlacesOf, InputsUnder, MatchedInputs
<1>4. SignaturesDescribe
  BY <1>3 DEF SignaturesDescribe
<1> QED
  BY <1>2, <1>4

\* Matched outputs read as many inputs of every cluster.
LEMMA CircuitsAsPromised ==
    ASSUME GetResultInv PROVE ClustersCorrespond
<1> DEFINE members(k, id) == {pi \in DOMAIN clusterOf[k] : clusterOf[k][pi] = id}
           ids == {clusterOf[1][pi] : pi \in DOMAIN clusterOf[1]} \cup
                  {clusterOf[2][pi] : pi \in DOMAIN clusterOf[2]}
           reads(k, po, id) == Cardinality(data[k].outputSupport[po] \cap members(k, id))
<1>1. ASSUME NEW k \in 1..2 PROVE DataInv(data[k], clusterOf[k])
  BY DEF GetResultInv, DataKept
<1>2. 1 \in 1..2 /\ 2 \in 1..2
  OBVIOUS
<1>3. \A id \in ids : id \in Nat \ {UnmatchedId}
  <2>1. ASSUME NEW k \in 1..2, NEW pi \in DOMAIN clusterOf[k]
        PROVE  clusterOf[k][pi] \in Nat \ {UnmatchedId}
    <3>1. clusterOf[k][pi] \in UnmatchedId + 1 .. LargestId(data[k])
      BY <1>1 DEF DataInv, Counted, InputsCounted
    <3>2. LargestId(data[k]) \in Nat
      BY <1>1, FS_CardinalityType DEF DataInv, DataTyped, LargestId, UnmatchedId
    <3> QED
      BY <3>1, <3>2 DEF UnmatchedId
  <2> QED
    BY <1>2, <2>1
<1>4. \A id \in ids : Cardinality(members(1, id)) = Cardinality(members(2, id))
  <2> HIDE DEF ids
  <2> QED
    BY <1>3 DEF GetResultInv, CircuitsCorrespond, MembersOf
<1>5. ASSUME NEW k \in 1..2, NEW s, NEW po \in At(data[k].matchedClusters, s),
             po \in OutputsOf(data[k]), NEW id \in Nat \ {UnmatchedId}
      PROVE  reads(k, po, id) = Cardinality(PlacesOf(s, id))
  <2>1. /\ DataTyped(data[k]) /\ Filed(data[k]) /\ MatchedComplete(data[k])
        /\ Counted(data[k], clusterOf[k])
    BY <1>1 DEF DataInv
  <2>2. s = data[k].outputSignatures[po] /\ UnmatchedInputs(data[k], po) = {}
    BY <1>5, <2>1 DEF Filed, MatchedComplete
  <2>3. MatchedInputs(data[k], po) = data[k].outputSupport[po]
        /\ MatchedInputs(data[k], po) \subseteq DOMAIN clusterOf[k]
    BY <1>5, <2>1, <2>2 DEF MatchedInputs, UnmatchedInputs, Counted, InputsCounted
  <2>4. data[k].outputSupport[po] \cap members(k, id) = InputsUnder(data[k], clusterOf[k], po, id)
    BY <2>3 DEF InputsUnder
  <2>5. Cardinality(PlacesOf(s, id)) = Cardinality(InputsUnder(data[k], clusterOf[k], po, id))
    BY <1>5, <2>1, <2>2 DEF Counted, SignatureCounts
  <2> QED
    BY <2>4, <2>5
<1>6. ASSUME NEW i \in DOMAIN curMatch.outputMatching,
             NEW po1 \in curMatch.outputMatching[i][1], NEW po2 \in curMatch.outputMatching[i][2],
             NEW id \in ids
      PROVE  reads(1, po1, id) = reads(2, po2, id)
  <2>1. PICK s : /\ curMatch.outputMatching[i][1] \subseteq At(data[1].matchedClusters, s)
                 /\ curMatch.outputMatching[i][2] \subseteq At(data[2].matchedClusters, s)
    BY DEF GetResultInv, GroupsMatched
  <2>2. po1 \in OutputsOf(data[1]) /\ po2 \in OutputsOf(data[2])
    <3>1. curMatch.outputMatching[i] \in Groups
      BY DEF GetResultInv, GroupsMatched
    <3> QED
      BY <3>1 DEF Groups
  <2>3. id \in Nat \ {UnmatchedId}
    BY <1>3
  <2> HIDE DEF ids, reads
  <2>4. reads(1, po1, id) = Cardinality(PlacesOf(s, id))
    BY <1>2, <1>5, <2>1, <2>2, <2>3
  <2>5. reads(2, po2, id) = Cardinality(PlacesOf(s, id))
    BY <1>2, <1>5, <2>1, <2>2, <2>3
  <2> QED
    BY <2>4, <2>5
<1> QED
  BY <1>4, <1>6 DEF ClustersCorrespond

\* ClustersFiled: every output is filed under its present signature, whatever
\* rand() gives, so that no look-up of getResult fails, for circuits whose ids
\* are all different chars (of 8 bits: up to 207 outputs).
THEOREM OutputsStayFiled == IdsFit => (GetResultSpec => []ClustersFiled)
<1>1. GetResultInv => ClustersFiled
  BY DataAsPromised
<1> QED
  BY <1>1, InitInv, GetResultKeeps, PTL DEF GetResultSpec

\* SignaturesDescribe: a signature says how many inputs of each cluster, and how
\* many unmatched ones, an output reads, under the same condition: beyond it ids
\* are narrowed, which first puts them out of order and then repeats them, '0' too.
THEOREM SignaturesStayDescriptive == IdsFit => (GetResultSpec => []SignaturesDescribe)
<1>1. GetResultInv => SignaturesDescribe
  BY DataAsPromised
<1> QED
  BY <1>1, InitInv, GetResultKeeps, PTL DEF GetResultSpec

\* ClustersCorrespond: an id means as many inputs in both circuits, and the
\* outputs that are matched read as many inputs of each cluster, under the same
\* condition.
THEOREM ClustersStayInStep == IdsFit => (GetResultSpec => []ClustersCorrespond)
<1>1. GetResultInv => ClustersCorrespond
  BY CircuitsAsPromised
<1> QED
  BY <1>1, InitInv, GetResultKeeps, PTL DEF GetResultSpec

-------------------------------------------------------------------------------
(***************************************************************************)
(* combCount.                                                              *)
(***************************************************************************)
\* Wrapping makes a product smaller or leaves it.
LEMMA WrappedBelow ==
    ASSUME NEW p \in Nat, NEW f \in Nat, NEW d \in Nat \ {0}
    PROVE  (p * f) % d \in Nat /\ (p * f) % d <= p * f
<1>1. p * f \in Nat
  OBVIOUS
<1> DEFINE x == p * f
<1> HIDE DEF x
<1>2. x % d \in Nat /\ x % d <= x
  BY <1>1 DEF x
<1> QED
  BY <1>2 DEF x

\* A quotient is no larger than what its divisor can be multiplied by.
LEMMA QuotientBelow ==
    ASSUME NEW p \in Nat, NEW d \in Nat \ {0}, NEW ways \in Nat, p <= d * ways
    PROVE  p \div d \in Nat /\ p \div d <= ways
<1> DEFINE q == p \div d
<1>1. d * q <= p /\ q \in Nat
  OBVIOUS
<1> HIDE DEF q
<1>2. ASSUME q >= ways + 1
      PROVE  FALSE
  <2>1. d * q >= d * (ways + 1)
    BY <1>1, <1>2
  <2> QED
    BY <1>1, <2>1
<1> QED
  BY <1>1, <1>2 DEF q

\* What combCount makes of its arguments.
LEMMA LargerSmaller ==
    ASSUME args.a \in Nat, args.b \in Nat
    PROVE  /\ Larger \in Nat /\ Difference \in Nat /\ Difference <= Larger
           /\ Larger - Min({args.a, args.b}) = Difference
<1>1. ASSUME args.a <= args.b
      PROVE  Max({args.a, args.b}) = args.b /\ Min({args.a, args.b}) = args.a
  BY <1>1 DEF Max, Min
<1>2. ASSUME args.b <= args.a
      PROVE  Max({args.a, args.b}) = args.a /\ Min({args.a, args.b}) = args.b
  BY <1>2 DEF Max, Min
<1> QED
  BY <1>1, <1>2 DEF Difference, Larger

\* Injections counts up from the difference.
FromRest(rest, highest, f) == f = [k \in rest .. highest |-> IF k = rest THEN 1 ELSE k * f[k - 1]]

\* One more.
LEMMA FromRestGoesOn ==
    ASSUME NEW rest \in Nat, NEW highest \in Nat, rest <= highest, NEW f, FromRest(rest, highest, f)
    PROVE  \E g : FromRest(rest, highest + 1, g)
<1> DEFINE g == [k \in rest .. highest + 1 |-> IF k = highest + 1 THEN k * f[highest] ELSE f[k]]
<1>1. \A k \in rest .. highest : f[k] = IF k = rest THEN 1 ELSE k * f[k - 1]
  BY DEF FromRest
<1>2. \A k \in rest .. highest + 1 : g[k] = IF k = rest THEN 1 ELSE k * g[k - 1]
  BY <1>1
<1>3. g = [k \in rest .. highest + 1 |-> g[k]]
  OBVIOUS
<1> HIDE DEF g
<1>4. FromRest(rest, highest + 1, g)
  BY <1>2, <1>3 DEF FromRest
<1> QED
  BY <1>4

\* So there is such a function for every difference.
LEMMA WaysExist ==
    ASSUME NEW rest \in Nat, NEW highest \in Nat, rest <= highest
    PROVE  \E f : FromRest(rest, highest, f)
<1> DEFINE missing == {k \in Nat : rest <= k /\ ~\E f : FromRest(rest, k, f)}
<1> SUFFICES ASSUME missing # {}
             PROVE  FALSE
  OBVIOUS
<1>1. PICK k \in missing : \A m \in missing : k <= m
  <2>1. missing \in SUBSET Nat
    OBVIOUS
  <2> HIDE DEF missing
  <2> QED
    BY <2>1, FirstOf
<1>2. k # rest
  <2>1. FromRest(rest, rest, [i \in rest .. rest |-> 1])
    BY DEF FromRest
  <2> QED
    BY <2>1, <1>1
<1>3. k - 1 \in Nat /\ rest <= k - 1 /\ k - 1 \notin missing /\ (k - 1) + 1 = k
  BY <1>1, <1>2
<1>4. \E f : FromRest(rest, k - 1, f)
  BY <1>3
<1>5. \E f : FromRest(rest, k, f)
  BY <1>3, <1>4, FromRestGoesOn
<1> QED
  BY <1>1, <1>5

\* Injections is the last of those.
LEMMA InjectionsAre ==
    ASSUME args.a \in Nat, args.b \in Nat
    PROVE  \E f : FromRest(Difference, Larger, f) /\ Injections = f[Larger]
<1> DEFINE from[k \in Difference .. Larger] == IF k = Difference THEN 1 ELSE k * from[k - 1]
<1>1. Larger - Min({args.a, args.b}) = Difference
  BY LargerSmaller
<1>2. Injections = from[Larger]
  BY <1>1 DEF Injections
<1>3. \E f : FromRest(Difference, Larger, f)
  BY LargerSmaller, WaysExist
<1>4. FromRest(Difference, Larger, from)
  BY <1>3 DEF FromRest
<1> HIDE DEF from
<1> QED
  BY <1>2, <1>4

\* What `result' is in a call of fact when i gets to each number.
Words(highest, word) ==
    word = [k \in 1..highest |-> IF k = 1 THEN 1 ELSE (word[k - 1] * (k - 1)) % 2^width]

\* There are such.
LEMMA WordsExist ==
    ASSUME NEW highest \in Nat \ {0}
    PROVE  \E word : Words(highest, word)
<1> DEFINE missing == {k \in Nat \ {0} : ~\E word : Words(k, word)}
<1> SUFFICES ASSUME missing # {}
             PROVE  FALSE
  OBVIOUS
<1>1. PICK k \in missing : \A m \in missing : k <= m
  <2>1. missing \in SUBSET Nat
    OBVIOUS
  <2> HIDE DEF missing
  <2> QED
    BY <2>1, FirstOf
<1>2. k # 1
  <2>1. Words(1, [j \in 1..1 |-> 1])
    BY DEF Words
  <2> QED
    BY <2>1, <1>1
<1>3. k \in Nat /\ k - 1 \in Nat \ {0} /\ k - 1 \notin missing
  BY <1>1, <1>2
<1>4. PICK word : Words(k - 1, word)
  BY <1>3
<1> DEFINE next == [j \in 1..k |-> IF j = k THEN (word[k - 1] * (k - 1)) % 2^width ELSE word[j]]
<1>5. \A j \in 1 .. k - 1 : word[j] = IF j = 1 THEN 1 ELSE (word[j - 1] * (j - 1)) % 2^width
  BY <1>4 DEF Words
<1>6. \A j \in 1..k : next[j] = IF j = 1 THEN 1 ELSE (next[j - 1] * (j - 1)) % 2^width
  <2> SUFFICES ASSUME NEW j \in 1..k
               PROVE  next[j] = IF j = 1 THEN 1 ELSE (next[j - 1] * (j - 1)) % 2^width
    OBVIOUS
  <2>1. CASE j = k
    <3>1. next[j] = (word[k - 1] * (k - 1)) % 2^width /\ j # 1
      BY <1>2, <2>1
    <3>2. next[j - 1] = word[k - 1]
      BY <1>3, <2>1
    <3> QED
      BY <2>1, <3>1, <3>2
  <2>2. CASE j # k
    <3>1. j \in 1 .. k - 1 /\ next[j] = word[j]
      BY <1>3, <2>2
    <3>2. j # 1 => next[j - 1] = word[j - 1]
      BY <1>3, <3>1
    <3> QED
      BY <1>5, <3>1, <3>2
  <2> QED
    BY <2>1, <2>2
<1>7. next = [j \in 1..k |-> next[j]]
  OBVIOUS
<1> HIDE DEF next
<1>8. Words(k, next)
  BY <1>6, <1>7 DEF Words
<1> QED
  BY <1>1, <1>8

\* They are words.
LEMMA WordsTyped ==
    ASSUME width \in Nat, NEW highest \in Nat, NEW word, Words(highest, word)
    PROVE  \A k \in 1..highest :
              /\ word[k] \in Nat
              /\ k < highest => word[k + 1] = (word[k] * k) % 2^width /\ word[k + 1] <= word[k] * k
<1>1. \A k \in 1..highest : word[k] = IF k = 1 THEN 1 ELSE (word[k - 1] * (k - 1)) % 2^width
  BY DEF Words
<1> DEFINE wrong == {k \in 1..highest : word[k] \notin Nat}
<1>2. ASSUME wrong # {}
      PROVE  FALSE
  <2>1. PICK k \in wrong : \A m \in wrong : k <= m
    <3>1. wrong \in SUBSET Nat
      OBVIOUS
    <3> HIDE DEF wrong
    <3> QED
      BY <1>2, <3>1, FirstOf
  <2>2. k \in 1..highest /\ word[k] \notin Nat
    OBVIOUS
  <2>3. k # 1
    BY <1>1, <2>2
  <2>4. k - 1 \in 1..highest /\ k - 1 \notin wrong
    BY <2>1, <2>3
  <2>5. word[k - 1] \in Nat /\ k - 1 \in Nat
    BY <2>4
  <2>6. word[k] = (word[k - 1] * (k - 1)) % 2^width
    BY <1>1, <2>2, <2>3
  <2> QED
    BY <2>2, <2>5, <2>6, WordSize, WrappedBelow
<1>3. \A k \in 1..highest : word[k] \in Nat
  BY <1>2
<1>4. ASSUME NEW k \in 1..highest, k < highest
      PROVE  word[k + 1] = (word[k] * k) % 2^width /\ word[k + 1] <= word[k] * k
  <2>1. k + 1 \in 1..highest /\ k + 1 # 1 /\ (k + 1) - 1 = k /\ k \in Nat
    BY <1>4
  <2>2. word[k + 1] = (word[k] * k) % 2^width
    BY <1>1, <2>1
  <2> QED
    BY <1>3, <2>1, <2>2, WordSize, WrappedBelow
<1> QED
  BY <1>3, <1>4

\* Ways are numbers.
LEMMA WaysTyped ==
    ASSUME NEW rest \in Nat, NEW highest \in Nat, NEW f, FromRest(rest, highest, f)
    PROVE  \A k \in rest .. highest :
              f[k] \in Nat /\ f[k] = IF k = rest THEN 1 ELSE k * f[k - 1]
<1>1. \A k \in rest .. highest : f[k] = IF k = rest THEN 1 ELSE k * f[k - 1]
  BY DEF FromRest
<1> DEFINE wrong == {k \in rest .. highest : f[k] \notin Nat}
<1>2. ASSUME wrong # {}
      PROVE  FALSE
  <2>1. PICK k \in wrong : \A m \in wrong : k <= m
    <3>1. wrong \in SUBSET Nat
      OBVIOUS
    <3> HIDE DEF wrong
    <3> QED
      BY <1>2, <3>1, FirstOf
  <2>2. k \in rest .. highest /\ f[k] \notin Nat
    OBVIOUS
  <2>3. k # rest
    BY <1>1, <2>2
  <2>4. k - 1 \in rest .. highest /\ k - 1 \notin wrong /\ k \in Nat
    BY <2>1, <2>3
  <2>5. f[k - 1] \in Nat
    BY <2>4
  <2>6. f[k] = k * f[k - 1]
    BY <1>1, <2>2, <2>3
  <2> QED
    BY <2>2, <2>4, <2>5, <2>6
<1> QED
  BY <1>1, <1>2

\* fact returns what `result' is when i gets to its argument, if not before.
AtLast(k) == IF k = 0 THEN 1 ELSE k

\* The result of fact for the larger number is no larger than that for the
\* difference times the ways to match, because wrapping only makes it smaller.
LEMMA WordsBelow ==
    ASSUME width \in Nat, NEW rest \in Nat, NEW highest \in Nat, rest <= highest,
           NEW word, Words(AtLast(highest), word), NEW f, FromRest(rest, highest, f)
    PROVE  word[AtLast(highest)] <= word[AtLast(rest)] * f[highest]
<1> DEFINE first == AtLast(rest)
           wrong == {k \in first .. highest : ~(word[k] <= word[first] * f[k])}
<1>1. \A k \in rest .. highest : f[k] \in Nat /\ f[k] = IF k = rest THEN 1 ELSE k * f[k - 1]
  BY WaysTyped
<1>2. \A k \in 1..AtLast(highest) :
         /\ word[k] \in Nat
         /\ k < AtLast(highest) => word[k + 1] = (word[k] * k) % 2^width /\ word[k + 1] <= word[k] * k
  BY WordsTyped DEF AtLast
<1>3. CASE highest = 0
  BY <1>1, <1>2, <1>3 DEF AtLast
<1>4. CASE highest # 0
  <2>1. AtLast(highest) = highest /\ first \in rest .. highest /\ first \in Nat \ {0} /\ first \in 1..highest
    BY <1>4 DEF AtLast
  <2>2. f[first] = 1
    <3>1. CASE rest # 0
      BY <1>1, <2>1, <3>1 DEF AtLast
    <3>2. CASE rest = 0
      <4>1. first = 1 /\ f[1] = 1 * f[0] /\ f[0] = 1
        BY <1>1, <1>4, <3>2 DEF AtLast
      <4> QED
        BY <4>1
    <3> QED
      BY <3>1, <3>2
  <2>3. word[first] \in Nat
    BY <1>2, <2>1
  <2>4. ASSUME wrong # {}
        PROVE  FALSE
    <3>1. PICK k \in wrong : \A m \in wrong : k <= m
      <4>1. wrong \in SUBSET Nat
        BY <2>1
      <4> HIDE DEF wrong
      <4> QED
        BY <2>4, <4>1, FirstOf
    <3>2. k \in first .. highest /\ ~(word[k] <= word[first] * f[k])
      OBVIOUS
    <3> HIDE DEF first
    <3>3. k # first
      BY <2>2, <2>3, <3>2
    <3>4. k - 1 \in first .. highest /\ k - 1 \notin wrong /\ k \in Nat /\ k - 1 \in Nat
      BY <2>1, <3>1, <3>2, <3>3
    <3>5. word[k - 1] <= word[first] * f[k - 1]
      BY <3>4
    <3>6. /\ word[k] <= word[k - 1] * (k - 1)
          /\ word[k] \in Nat /\ word[k - 1] \in Nat
      <4>1. k - 1 \in 1..highest /\ k \in 1..highest /\ k - 1 < highest /\ (k - 1) + 1 = k
        BY <2>1, <3>2, <3>4
      <4> QED
        BY <1>2, <2>1, <4>1
    <3>7. f[k] = k * f[k - 1] /\ f[k - 1] \in Nat /\ f[k] \in Nat
      <4>1. k \in rest .. highest /\ k - 1 \in rest .. highest /\ k # rest
        BY <2>1, <3>2, <3>4
      <4> QED
        BY <1>1, <4>1
    <3> DEFINE x == word[k - 1]  y == word[first]  z == f[k - 1]
    <3>8. x \in Nat /\ y \in Nat /\ z \in Nat /\ x <= y * z
      BY <2>3, <3>5, <3>6, <3>7
    <3> HIDE DEF x, y, z
    <3>9. x * (k - 1) <= y * (k * z)
      <4>1. x * (k - 1) <= x * k
        BY <3>4, <3>8
      <4>2. x * k <= (y * z) * k
        BY <3>4, <3>8
      <4>3. (y * z) * k = y * (k * z)
        BY <3>4, <3>8
      <4>4. x * k \in Nat /\ x * (k - 1) \in Nat
        BY <3>4, <3>8
      <4> QED
        BY <4>1, <4>2, <4>3, <4>4, <3>4, <3>8
    <3>10. word[k] <= word[first] * f[k]
      <4>1. word[k] <= x * (k - 1)
        BY <3>6 DEF x
      <4>2. word[first] * f[k] = y * (k * z)
        BY <3>7 DEF y, z
      <4>3. x * (k - 1) \in Nat /\ y * (k * z) \in Nat
        BY <3>4, <3>8
      <4> QED
        BY <3>6, <3>9, <4>1, <4>2, <4>3
    <3> QED
      BY <3>2, <3>10
  <2>5. highest \in first .. highest
    BY <2>1
  <2> QED
    BY <2>1, <2>4, <2>5
<1> QED
  BY <1>3, <1>4

\* The words of this call.
CallWords(word) ==
    /\ Words(AtLast(Larger), word)
    /\ product = word[factor]
    /\ divisor # Pending => divisor = word[AtLast(Difference)]

\* The two calls go along the same words.
CountInv ==
    /\ args.a \in Nat /\ args.b \in Nat /\ width \in Nat
    /\ factor \in Nat \ {0} /\ factor <= AtLast(upTo)
    /\ divisor = Pending => upTo = Difference
    /\ divisor # Pending => upTo = Larger
    /\ \E word : CallWords(word)
    /\ NeverOvercounted

\* combCount begins with nothing multiplied.
LEMMA CountInitHolds == CountInit => CountInv
<1> SUFFICES ASSUME CountInit
             PROVE  CountInv
  OBVIOUS
<1>1. args.a \in Nat /\ args.b \in Nat /\ width \in Nat
  BY MaxCountAssumption, WidthsAssumption DEF CountInit
<1>2. AtLast(Larger) \in Nat \ {0}
  BY <1>1, LargerSmaller DEF AtLast
<1>3. PICK word : Words(AtLast(Larger), word)
  BY <1>2, WordsExist
<1>4. word[1] = 1
  BY <1>2, <1>3 DEF Words
<1>5. CallWords(word)
  BY <1>3, <1>4 DEF CountInit, CallWords
<1>6. factor = 1 /\ upTo = Difference /\ divisor = Pending /\ answer = Pending
  BY DEF CountInit
<1>7. factor <= AtLast(upTo)
  BY <1>1, <1>6, LargerSmaller DEF AtLast
<1>8. NeverOvercounted
  BY <1>6 DEF NeverOvercounted, Pending
<1> QED
  BY <1>1, <1>5, <1>6, <1>7, <1>8 DEF CountInv

\* The loop, the second call and the division.
LEMMA CountNextKeeps ==
    ASSUME CountInv, [CountNext]_countVars
    PROVE  CountInv'
<1>1. /\ args.a \in Nat /\ args.b \in Nat /\ width \in Nat
      /\ factor \in Nat \ {0} /\ factor <= AtLast(upTo)
      /\ divisor = Pending => upTo = Difference
      /\ divisor # Pending => upTo = Larger
      /\ NeverOvercounted
  BY DEF CountInv
<1>2. PICK word : CallWords(word)
  BY DEF CountInv
<1>3. /\ Larger \in Nat /\ Difference \in Nat /\ Difference <= Larger
  BY <1>1, LargerSmaller
<1>4. args' = args /\ width' = width
  BY DEF CountNext, Multiply, FactReturns, Divide, countVars
<1>5. Larger' = Larger /\ Difference' = Difference /\ Injections' = Injections
  BY <1>4 DEF Larger, Difference, Injections
<1>6. Words(AtLast(Larger), word) /\ (Words(AtLast(Larger), word))'
  BY <1>2, <1>4, <1>5 DEF CallWords, Words
<1>7. \A k \in 1..AtLast(Larger) :
         /\ word[k] \in Nat
         /\ k < AtLast(Larger) => word[k + 1] = (word[k] * k) % 2^width
  BY <1>1, <1>3, <1>6, WordsTyped DEF AtLast
<1>8. CASE Multiply
  <2>1. /\ answer' = answer /\ factor < upTo /\ upTo' = upTo /\ divisor' = divisor
        /\ product' = (product * factor) % 2^width /\ factor' = factor + 1
    BY <1>8 DEF Multiply
  <2>2. factor \in 1..AtLast(Larger) /\ factor < AtLast(Larger) /\ factor + 1 <= AtLast(upTo)
        /\ factor + 1 \in Nat \ {0}
    <3>1. upTo \in Nat /\ upTo <= Larger
      BY <1>1, <1>3
    <3> QED
      BY <1>1, <1>3, <2>1, <3>1 DEF AtLast
  <2>3. product' = word[factor']
    BY <1>2, <1>7, <2>1, <2>2 DEF CallWords
  <2>4. CallWords(word)'
    BY <1>2, <1>5, <1>6, <2>1, <2>3 DEF CallWords
  <2>5. NeverOvercounted'
    BY <1>1, <1>5, <2>1 DEF NeverOvercounted
  <2> QED
    BY <1>1, <1>4, <1>5, <2>1, <2>2, <2>4, <2>5 DEF CountInv, AtLast
<1>9. CASE FactReturns
  <2>1. /\ answer' = answer /\ factor >= upTo /\ divisor = Pending /\ divisor' = product
        /\ upTo' = Larger /\ factor' = 1 /\ product' = 1
    BY <1>9 DEF FactReturns
  <2>2. factor = AtLast(Difference)
    BY <1>1, <1>3, <2>1 DEF AtLast
  <2>3. divisor' = word[AtLast(Difference)] /\ divisor' \in Nat
    BY <1>2, <1>3, <1>7, <2>1, <2>2 DEF CallWords, AtLast
  <2>4. word[1] = 1
    BY <1>3, <1>6 DEF Words, AtLast
  <2>5. CallWords(word)'
    BY <1>5, <1>6, <2>1, <2>3, <2>4 DEF CallWords
  <2>6. NeverOvercounted'
    BY <1>1, <1>5, <2>1 DEF NeverOvercounted
  <2>7. divisor' # Pending /\ 1 <= AtLast(Larger)
    BY <1>3, <2>3 DEF Pending, AtLast
  <2> QED
    BY <1>1, <1>4, <1>5, <2>1, <2>5, <2>6, <2>7 DEF CountInv
<1>10. CASE Divide
  <2>1. /\ factor >= upTo /\ divisor # Pending
        /\ answer' = IF divisor = 0 THEN Fault ELSE product \div divisor
        /\ factor' = factor /\ product' = product /\ divisor' = divisor /\ upTo' = upTo
    BY <1>10 DEF Divide
  <2>2. factor = AtLast(Larger)
    BY <1>1, <1>3, <2>1 DEF AtLast
  <2>3. product = word[AtLast(Larger)] /\ divisor = word[AtLast(Difference)]
        /\ product \in Nat /\ divisor \in Nat
    BY <1>2, <1>3, <1>7, <2>1, <2>2 DEF CallWords, AtLast
  <2>4. PICK f : FromRest(Difference, Larger, f) /\ Injections = f[Larger]
    BY <1>1, InjectionsAre
  <2>5. Injections \in Nat
    BY <1>3, <2>4, WaysTyped
  <2>6. product <= divisor * Injections
    BY <1>1, <1>3, <1>6, <2>3, <2>4, WordsBelow
  <2>7. answer' >= 0 => answer' <= Injections
    <3>1. CASE divisor = 0
      BY <2>1, <3>1 DEF Fault
    <3>2. CASE divisor # 0
      BY <2>1, <2>3, <2>5, <2>6, <3>2, QuotientBelow
    <3> QED
      BY <3>1, <3>2
  <2>8. NeverOvercounted'
    BY <1>5, <2>7 DEF NeverOvercounted
  <2>9. CallWords(word)'
    BY <1>2, <1>5, <1>6, <2>1 DEF CallWords
  <2> QED
    BY <1>1, <1>4, <1>5, <2>1, <2>8, <2>9 DEF CountInv
<1>11. CASE UNCHANGED countVars
  <2>1. /\ upTo' = upTo /\ factor' = factor /\ product' = product /\ divisor' = divisor
        /\ answer' = answer
    BY <1>11 DEF countVars
  <2>2. CallWords(word)'
    BY <1>2, <1>5, <1>6, <2>1 DEF CallWords
  <2>3. NeverOvercounted'
    BY <1>1, <1>5, <2>1 DEF NeverOvercounted
  <2> QED
    BY <1>1, <1>4, <1>5, <2>1, <2>2, <2>3 DEF CountInv
<1> QED
  BY <1>8, <1>9, <1>10, <1>11 DEF CountNext

\* NeverOvercounted, for words of any length: combCount divides two numbers that
\* have wrapped, and still never answers more than there are ways to match.
THEOREM CountsStayBelow == CountSpec => []NeverOvercounted
<1>1. CountInv => NeverOvercounted
  BY DEF CountInv
<1> QED
  BY <1>1, CountInitHolds, CountNextKeeps, PTL DEF CountSpec

===============================================================================
