---------------------------- MODULE SimulatorProofs ----------------------------
(***************************************************************************)
(* What the simulator reports is exact: no property that an input has is   *)
(* ever removed, whatever the checker answers; and when the checker        *)
(* answers correctly, the unateness and the symmetry classes that are left *)
(* are the real ones, for every cone, every order of its inputs, every     *)
(* number of iterations and every random vector.                           *)
(***************************************************************************)
EXTENDS Simulator, OperatorProofs, SequenceTheorems

-------------------------------------------------------------------------------
(***************************************************************************)
(* One pair of vectors refutes only what is false.                         *)
(***************************************************************************)
\* checkRemoval never removes a unateness the input has.
LEMMA RefutedIsFalse ==
    ASSUME NEW x \in f.ins, NEW vec \in SUBSET f.ins
    PROVE  Refuted(x, vec) \cap TrueProperties(x) = {}
<1>1. CASE x \in vec
  <2> DEFINE rest == vec \ {x}
  <2>1. rest \in SUBSET (f.ins \ {x}) /\ rest \cup {x} = vec /\ Flip(vec, x) = rest
    BY <1>1 DEF Flip
  <2>2. NegUnateIn(f, x) => (EvalOutput(f, vec) => EvalOutput(f, Flip(vec, x)))
    BY <2>1 DEF NegUnateIn
  <2> QED
    BY <1>1, <2>2 DEF Refuted, TrueProperties, PosUnate, NegUnate, EvalOutput
<1>2. CASE x \notin vec
  <2>1. vec \in SUBSET (f.ins \ {x}) /\ Flip(vec, x) = vec \cup {x}
    BY <1>2 DEF Flip
  <2>2. PosUnateIn(f, x) => (EvalOutput(f, vec) => EvalOutput(f, Flip(vec, x)))
    BY <2>1 DEF PosUnateIn
  <2> QED
    BY <1>2, <2>2 DEF Refuted, TrueProperties, PosUnate, NegUnate, EvalOutput
<1> QED
  BY <1>1, <1>2

\* checkRemoval never removes the symmetry of exchangeable inputs.
LEMMA SymRefutedIsFalse ==
    ASSUME NEW x \in f.ins, NEW y \in f.ins, x # y, NEW vec \in SUBSET f.ins,
           Exchangeable(f, x, y)
    PROVE  SymRefuted(x, y, vec) = {}
<1>1. CASE x \in vec /\ y \notin vec
  <2> DEFINE rest == vec \ {x}
  <2>1. /\ rest \in SUBSET (f.ins \ {x, y}) /\ rest \cup {x} = vec
        /\ Flip(Flip(vec, x), y) = rest \cup {y}
    BY <1>1 DEF Flip
  <2>2. EvalOutput(f, vec) <=> EvalOutput(f, Flip(Flip(vec, x), y))
    BY <2>1 DEF Exchangeable
  <2>3. EvalOutput(f, vec) = EvalOutput(f, Flip(Flip(vec, x), y))
    BY <2>2 DEF EvalOutput
  <2> QED
    BY <2>3 DEF SymRefuted
<1>2. CASE ~(x \in vec /\ y \notin vec)
  BY <1>2 DEF SymRefuted
<1> QED
  BY <1>1, <1>2

-------------------------------------------------------------------------------
(***************************************************************************)
(* The miters ask the right questions.                                     *)
(***************************************************************************)
\* A stuck input is no input any more, and has its value in every vector.
LEMMA Stuck ==
    ASSUME NEW c, NEW x \in c.ins, NEW b \in BOOLEAN
    PROVE  /\ StuckInput(c, x, b).ins = c.ins \ {x}
           /\ \A vec \in SUBSET (c.ins \ {x}) :
                 EvalOutput(StuckInput(c, x, b), vec)
                    <=> EvalOutput(c, IF b THEN vec \cup {x} ELSE vec)
BY DEF StuckInput, EvalOutput

\* Inverting the output keeps the inputs.
LEMMA Inverted ==
    ASSUME NEW X, NEW S, NEW c, c = [ins |-> X, on |-> S]
    PROVE  /\ InvertOutput(c).ins = X
           /\ \A vec \in SUBSET X : EvalOutput(InvertOutput(c), vec) <=> ~EvalOutput(c, vec)
<1> DEFINE new == (SUBSET c.ins) \ c.on
<1>1. InvertOutput(c) = [c EXCEPT !.on = new]
  BY DEF InvertOutput
<1>2. c.ins = X /\ c.on = S /\ new = (SUBSET X) \ S
  OBVIOUS
<1> HIDE DEF new
<1>3. [c EXCEPT !.on = new] = [ins |-> X, on |-> new]
  OBVIOUS
<1>4. InvertOutput(c).ins = X /\ InvertOutput(c).on = (SUBSET X) \ S
  BY <1>1, <1>2, <1>3
<1> QED
  BY <1>2, <1>4 DEF EvalOutput

\* Both: a cofactor, and the output inverted.
LEMMA InvertedStuck ==
    ASSUME NEW c, NEW x \in c.ins, NEW b \in BOOLEAN
    PROVE  /\ InvertOutput(StuckInput(c, x, b)).ins = c.ins \ {x}
           /\ \A vec \in SUBSET (c.ins \ {x}) :
                 EvalOutput(InvertOutput(StuckInput(c, x, b)), vec)
                    <=> ~EvalOutput(c, IF b THEN vec \cup {x} ELSE vec)
<1> DEFINE s == StuckInput(c, x, b)
<1>1. s = [ins |-> c.ins \ {x}, on |-> s.on]
  BY DEF StuckInput
<1> HIDE DEF s
<1>2. /\ InvertOutput(s).ins = c.ins \ {x}
      /\ \A vec \in SUBSET (c.ins \ {x}) : EvalOutput(InvertOutput(s), vec) <=> ~EvalOutput(s, vec)
  BY <1>1, Inverted
<1> QED
  BY <1>2, Stuck DEF s

\* The true vectors of a miter of two cones with the same inputs.
LEMMA SameInputs ==
    ASSUME NEW g, NEW h, g.ins = h.ins
    PROVE  \A vec :
             /\ vec \in MiterAnd(g, h).on <=>
                  vec \in SUBSET g.ins /\ EvalOutput(g, vec) /\ EvalOutput(h, vec)
             /\ vec \in MiterXor(g, h).on <=>
                  vec \in SUBSET g.ins /\ EvalOutput(g, vec) # EvalOutput(h, vec)
<1>1. MiterInputs(g, h) = g.ins
  BY DEF MiterInputs
<1>2. \A vec \in SUBSET g.ins : vec \cap g.ins = vec /\ vec \cap h.ins = vec
  OBVIOUS
<1> QED
  BY <1>1, <1>2 DEF MiterAnd, MiterXor

\* The miter of confirmProperties for PosUnate cannot be true exactly when the
\* input is positive unate.
LEMMA PosMiterAsks ==
    ASSUME NEW x \in f.ins
    PROVE  Unsatisfiable(PosMiter(x)) <=> PosUnateIn(f, x)
<1> DEFINE X == f.ins \ {x}
           g == StuckInput(f, x, FALSE)
           h == InvertOutput(StuckInput(f, x, TRUE))
<1>1. /\ g.ins = X /\ h.ins = X
      /\ \A vec \in SUBSET X : /\ EvalOutput(g, vec) <=> EvalOutput(f, vec)
                               /\ EvalOutput(h, vec) <=> ~EvalOutput(f, vec \cup {x})
  BY Stuck, InvertedStuck
<1>2. PosMiter(x) = MiterAnd(g, h)
  BY DEF PosMiter
<1> HIDE DEF g, h
<1>3. \A vec : vec \in PosMiter(x).on <=>
                  vec \in SUBSET X /\ EvalOutput(g, vec) /\ EvalOutput(h, vec)
  <2>1. g.ins = h.ins /\ g.ins = X
    BY <1>1
  <2>2. \A vec : vec \in MiterAnd(g, h).on <=>
                    vec \in SUBSET g.ins /\ EvalOutput(g, vec) /\ EvalOutput(h, vec)
    BY <2>1, SameInputs
  <2> QED
    BY <1>2, <2>1, <2>2
<1> QED
  BY <1>1, <1>3 DEF Unsatisfiable, PosUnateIn

\* The same for NegUnate.
LEMMA NegMiterAsks ==
    ASSUME NEW x \in f.ins
    PROVE  Unsatisfiable(NegMiter(x)) <=> NegUnateIn(f, x)
<1> DEFINE X == f.ins \ {x}
           g == InvertOutput(StuckInput(f, x, FALSE))
           h == StuckInput(f, x, TRUE)
<1>1. /\ g.ins = X /\ h.ins = X
      /\ \A vec \in SUBSET X : /\ EvalOutput(g, vec) <=> ~EvalOutput(f, vec)
                               /\ EvalOutput(h, vec) <=> EvalOutput(f, vec \cup {x})
  BY Stuck, InvertedStuck
<1>2. NegMiter(x) = MiterAnd(g, h)
  BY DEF NegMiter
<1> HIDE DEF g, h
<1>3. \A vec : vec \in NegMiter(x).on <=>
                  vec \in SUBSET X /\ EvalOutput(g, vec) /\ EvalOutput(h, vec)
  <2>1. g.ins = h.ins /\ g.ins = X
    BY <1>1
  <2>2. \A vec : vec \in MiterAnd(g, h).on <=>
                    vec \in SUBSET g.ins /\ EvalOutput(g, vec) /\ EvalOutput(h, vec)
    BY <2>1, SameInputs
  <2> QED
    BY <1>2, <2>1, <2>2
<1> QED
  BY <1>1, <1>3 DEF Unsatisfiable, NegUnateIn

\* The miter of confirmSymmetries for NESymmetry cannot be true exactly when the
\* two inputs can be exchanged.
LEMMA SymMiterAsks ==
    ASSUME NEW x \in f.ins, NEW y \in f.ins, x # y
    PROVE  Unsatisfiable(SymMiter(x, y)) <=> Exchangeable(f, x, y)
<1> DEFINE X == f.ins \ {x, y}
           low == StuckInput(f, x, FALSE)
           high == StuckInput(f, x, TRUE)
           g == StuckInput(low, y, TRUE)
           h == StuckInput(high, y, FALSE)
<1>1. /\ low.ins = f.ins \ {x} /\ high.ins = f.ins \ {x}
      /\ \A vec \in SUBSET (f.ins \ {x}) :
            /\ EvalOutput(low, vec) <=> EvalOutput(f, vec)
            /\ EvalOutput(high, vec) <=> EvalOutput(f, vec \cup {x})
  BY Stuck
<1>2. SymMiter(x, y) = MiterXor(g, h)
  BY DEF SymMiter
<1> HIDE DEF low, high
<1>3. y \in low.ins /\ y \in high.ins /\ low.ins \ {y} = X /\ high.ins \ {y} = X
  BY <1>1
<1>4. /\ g.ins = X /\ h.ins = X
      /\ \A vec \in SUBSET X : /\ EvalOutput(g, vec) <=> EvalOutput(low, vec \cup {y})
                               /\ EvalOutput(h, vec) <=> EvalOutput(high, vec)
  BY <1>3, Stuck
<1> HIDE DEF g, h
<1>5. \A vec \in SUBSET X : /\ EvalOutput(g, vec) <=> EvalOutput(f, vec \cup {y})
                            /\ EvalOutput(h, vec) <=> EvalOutput(f, vec \cup {x})
  <2>1. \A vec \in SUBSET X : /\ vec \in SUBSET (f.ins \ {x})
                              /\ vec \cup {y} \in SUBSET (f.ins \ {x})
    OBVIOUS
  <2> QED
    BY <1>1, <1>4, <2>1
<1>6. \A vec : vec \in SymMiter(x, y).on <=>
                  vec \in SUBSET X /\ EvalOutput(g, vec) # EvalOutput(h, vec)
  <2>1. g.ins = h.ins /\ g.ins = X
    BY <1>4
  <2> HIDE DEF X
  <2>2. \A vec : vec \in MiterXor(g, h).on <=>
                    vec \in SUBSET g.ins /\ EvalOutput(g, vec) # EvalOutput(h, vec)
    BY <2>1, SameInputs
  <2> QED
    BY <1>2, <2>1, <2>2
<1>7. \A vec \in SUBSET X : (EvalOutput(g, vec) = EvalOutput(h, vec))
                            <=> (EvalOutput(g, vec) <=> EvalOutput(h, vec))
  BY DEF EvalOutput
<1> QED
  BY <1>5, <1>6, <1>7 DEF Unsatisfiable, Exchangeable

-------------------------------------------------------------------------------
(***************************************************************************)
(* What the answers of the checker leave.                                  *)
(***************************************************************************)
\* The checker answers TRUE when the miter cannot be true; when it does not
\* fail, it answers FALSE otherwise.
LEMMA Answers ==
    ASSUME NEW m, NEW a \in CheckMiter(m)
    PROVE  /\ a \in BOOLEAN
           /\ Unsatisfiable(m) => a = TRUE
           /\ ~CheckerFails /\ ~Unsatisfiable(m) => a = FALSE
<1>1. CheckMiter(m) \subseteq {Unsatisfiable(m), TRUE}
  BY DEF CheckMiter
<1>2. ~CheckerFails => CheckMiter(m) = {Unsatisfiable(m)}
  BY CheckerAssumption DEF CheckMiter
<1>3. Unsatisfiable(m) \in BOOLEAN
  BY DEF Unsatisfiable
<1> QED
  BY <1>1, <1>2, <1>3

\* confirmProperties keeps what is true, and only that when the checker works.
LEMMA ConfirmedTrue ==
    ASSUME NEW x \in f.ins, NEW P \in SUBSET {PosUnate, NegUnate, Binate},
           TrueProperties(x) \subseteq P, NEW left \in Confirmed(x, P)
    PROVE  /\ TrueProperties(x) \subseteq left
           /\ left \subseteq P
           /\ ~CheckerFails /\ P \subseteq {PosUnate, NegUnate} => left = TrueProperties(x)
<1>1. PICK pos \in CheckMiter(PosMiter(x)), neg \in CheckMiter(NegMiter(x)) :
         left = {p \in P : IF p = PosUnate THEN pos ELSE neg}
  BY DEF Confirmed
<1>2. /\ pos \in BOOLEAN
      /\ PosUnateIn(f, x) => pos = TRUE
      /\ ~CheckerFails /\ ~PosUnateIn(f, x) => pos = FALSE
  BY Answers, PosMiterAsks
<1>3. /\ neg \in BOOLEAN
      /\ NegUnateIn(f, x) => neg = TRUE
      /\ ~CheckerFails /\ ~NegUnateIn(f, x) => neg = FALSE
  BY Answers, NegMiterAsks
<1>4. PosUnate # NegUnate
  BY DEF PosUnate, NegUnate
<1>5. TrueProperties(x) \subseteq left
  BY <1>1, <1>2, <1>3, <1>4 DEF TrueProperties
<1>6. ASSUME ~CheckerFails, P \subseteq {PosUnate, NegUnate}
      PROVE  left \subseteq TrueProperties(x)
  BY <1>1, <1>2, <1>3, <1>4, <1>6 DEF TrueProperties
<1> QED
  BY <1>1, <1>5, <1>6

\* The same for confirmSymmetries.
LEMMA SymConfirmedTrue ==
    ASSUME NEW x \in f.ins, NEW y \in f.ins, x # y, NEW P \in SUBSET {NESymmetry},
           NEW left \in SymConfirmed(x, y, P)
    PROVE  /\ left \subseteq {NESymmetry}
           /\ Exchangeable(f, x, y) /\ P # {} => left # {}
           /\ ~CheckerFails /\ ~Exchangeable(f, x, y) => left = {}
<1>1. PICK yes \in CheckMiter(SymMiter(x, y)) : left = IF yes THEN P ELSE {}
  BY DEF SymConfirmed
<1>2. /\ yes \in BOOLEAN
      /\ Exchangeable(f, x, y) => yes = TRUE
      /\ ~CheckerFails /\ ~Exchangeable(f, x, y) => yes = FALSE
  BY Answers, SymMiterAsks
<1> QED
  BY <1>1, <1>2

-------------------------------------------------------------------------------
(***************************************************************************)
(* Whatever the checker answers.                                           *)
(***************************************************************************)
InputsListed ==
    /\ \A m, n \in DOMAIN inputs : inputs[m] = inputs[n] => m = n
    /\ \A x \in f.ins : \E n \in DOMAIN inputs : inputs[n] = x

\* The cone and the order of its inputs are never changed.
LEMMA ConeKept ==
    ASSUME [Next]_vars
    PROVE  /\ f' = f /\ inputs' = inputs
           /\ \A x : TrueProperties(x)' = TrueProperties(x)
<1>1. f' = f /\ inputs' = inputs
  BY DEF Next, vars, SimulateIteration, SimulateConfirm, SimulateReturn, SymTooFew,
         SymSkip, SymSkipPartner, SymIteration, SymConfirm, SymClose, SymReturn,
         SVIteration, SVNext, SVThrow, SVReturn, Done
<1> QED
  BY <1>1 DEF TrueProperties

\* The loops of simulate preserve its types and what is true of each input.
LEMMA SimulateKeeps ==
    ASSUME TypeOK, InputsListed, NoPropertyLost,
           SimulateIteration \/ SimulateConfirm
    PROVE  /\ pi1 \in f.ins
           /\ props' \in [f.ins -> SUBSET {Binate, PosUnate, NegUnate}]
           /\ NoPropertyLost'
           /\ \A x \in f.ins \ {pi1} : props'[x] = props[x]
<1>1. pi1 \in f.ins
  <2>1. i \in DOMAIN inputs
    BY DEF TypeOK, SimulateIteration, SimulateConfirm
  <2> QED
    BY <2>1 DEF TypeOK, pi1
<1>2. f' = f /\ \A x : TrueProperties(x)' = TrueProperties(x)
  BY ConeKept DEF Next
<1>3. PICK new \in SUBSET {Binate, PosUnate, NegUnate} :
         TrueProperties(pi1) \subseteq new /\ props' = [props EXCEPT ![pi1] = new]
  <2>1. CASE SimulateIteration
    <3>1. PICK vec \in SUBSET f.ins :
             props' = [props EXCEPT ![pi1] = @ \ Refuted(pi1, vec)]
      BY <2>1 DEF SimulateIteration
    <3>2. TrueProperties(pi1) \subseteq props[pi1] \ Refuted(pi1, vec)
      BY <1>1, RefutedIsFalse DEF NoPropertyLost
    <3>3. props[pi1] \ Refuted(pi1, vec) \in SUBSET {Binate, PosUnate, NegUnate}
      BY <1>1 DEF TypeOK
    <3> QED
      BY <3>1, <3>2, <3>3
  <2>2. CASE SimulateConfirm
    <3>1. PICK left \in Confirmed(pi1, props[pi1]) :
             props' = [props EXCEPT ![pi1] = IF left = {} THEN {Binate} ELSE left]
      BY <2>2 DEF SimulateConfirm
    <3>2. props[pi1] \in SUBSET {Binate, PosUnate, NegUnate}
      BY <1>1 DEF TypeOK
    <3>3. TrueProperties(pi1) \subseteq left /\ left \subseteq props[pi1]
      BY <1>1, <3>2, ConfirmedTrue DEF NoPropertyLost
    <3> QED
      BY <3>1, <3>2, <3>3
  <2> QED
    BY <2>1, <2>2
<1>4. props \in [f.ins -> SUBSET {Binate, PosUnate, NegUnate}]
  BY DEF TypeOK
<1>5. /\ props'[pi1] = new
      /\ \A x \in f.ins \ {pi1} : props'[x] = props[x]
  BY <1>1, <1>3, <1>4
<1>6. props' \in [f.ins -> SUBSET {Binate, PosUnate, NegUnate}]
  BY <1>1, <1>3, <1>4
<1>7. NoPropertyLost'
  BY <1>2, <1>3, <1>5 DEF NoPropertyLost
<1> QED
  BY <1>1, <1>5, <1>6, <1>7

\* A single-variable symmetry that holds is not refuted by a pair of vectors.
HoldsSV(x, y, b) ==
    \A vec \in SUBSET f.ins :
        (y \in vec) = b => EvalOutput(f, vec) = EvalOutput(f, Flip(vec, x))

\* A pair of vectors that agree on y = b and differ in the output refutes only
\* symmetries that fail for those vectors.
LEMMA SVKeeps ==
    ASSUME TypeOK, InputsListed, NoSVSymmetryLost, SVIteration
    PROVE  /\ sv' \in [f.ins -> SUBSET (f.ins \X BOOLEAN)]
           /\ NoSVSymmetryLost'
<1>1. pi1 \in f.ins
  <2>1. i \in DOMAIN inputs
    BY DEF TypeOK, SVIteration
  <2> QED
    BY <2>1 DEF TypeOK, pi1
<1>2. f' = f
  BY DEF SVIteration
<1>3. PICK vec \in SUBSET f.ins : sv' = [sv EXCEPT ![pi1] = @ \ SVRefuted(pi1, vec)]
  BY DEF SVIteration
<1>4. sv \in [f.ins -> SUBSET (f.ins \X BOOLEAN)]
  BY DEF TypeOK
<1>5. /\ sv' \in [f.ins -> SUBSET (f.ins \X BOOLEAN)]
      /\ \A x \in f.ins : sv'[x] = IF x = pi1 THEN sv[x] \ SVRefuted(x, vec) ELSE sv[x]
  BY <1>1, <1>3, <1>4
<1>6. ASSUME NEW x \in f.ins, NEW y \in f.ins \ {x}, NEW b \in BOOLEAN, HoldsSV(x, y, b)
      PROVE  <<y, b>> \in sv'[x]
  <2>1. <<y, b>> \in sv[x]
    BY <1>6 DEF NoSVSymmetryLost, HoldsSV
  <2>2. <<y, b>> \notin SVRefuted(x, vec)
    <3>1. CASE EvalOutput(f, vec) = EvalOutput(f, Flip(vec, x))
      BY <3>1 DEF SVRefuted
    <3>2. CASE EvalOutput(f, vec) # EvalOutput(f, Flip(vec, x))
      <4>1. (y \in vec) # b
        BY <1>6, <3>2 DEF HoldsSV
      <4>2. SVRefuted(x, vec) = {<<z, z \in vec>> : z \in f.ins \ {x}}
        BY <3>2 DEF SVRefuted
      <4> QED
        BY <4>1, <4>2
    <3> QED
      BY <3>1, <3>2
  <2> QED
    BY <1>5, <2>1, <2>2
<1>7. NoSVSymmetryLost'
  BY <1>2, <1>6 DEF NoSVSymmetryLost, HoldsSV
<1> QED
  BY <1>5, <1>7

\* The clusters that simulateSym appends are clusters of inputs of the cone.
SymClusters == [sym : {NoSymmetry, NESymmetry}, ins : SUBSET f.ins]

\* The loops of simulateSym keep the types.
LEMMA SymSteps ==
    ASSUME TypeOK,
           \/ SymTooFew \/ SymSkip \/ SymSkipPartner \/ SymIteration \/ SymConfirm
           \/ SymClose \/ SymReturn
    PROVE  TypeOK'
<1>1. f' = f /\ inputs' = inputs
  BY ConeKept DEF Next
<1>2. /\ i \in Nat \ {0} /\ j \in Nat \ {0} /\ it \in 0..MaxIter
      /\ symPart \in Seq(SymClusters)
      /\ call = "simulateSym"
  BY DEF TypeOK, SymClusters, SymTooFew, SymSkip, SymSkipPartner, SymIteration,
         SymConfirm, SymClose, SymReturn, InSym, AtPair
<1>3. i \in DOMAIN inputs => pi1 \in f.ins
  BY DEF TypeOK, pi1
<1>4. j \in DOMAIN inputs => pi2 \in f.ins
  BY DEF TypeOK, pi2
<1>5. i' \in Nat \ {0} /\ j' \in Nat \ {0} /\ it' \in 0..MaxIter
  BY <1>2, MaxIterAssumption
  DEF SymTooFew, SymSkip, SymSkipPartner, SymIteration, SymConfirm, SymClose, SymReturn
<1>6. props' = props /\ sv' = sv /\ call' \in {"simulateSym", "simulateSVSym"}
  BY <1>2
  DEF SymTooFew, SymSkip, SymSkipPartner, SymIteration, SymConfirm, SymClose, SymReturn
<1>7. symSet' \subseteq {NESymmetry}
  BY DEF TypeOK, SymTooFew, SymSkip, SymSkipPartner, SymIteration, SymConfirm,
         SymClose, SymReturn, symVars
<1>8. group' \subseteq f.ins /\ unviewed' \subseteq f.ins /\ nonSym' \subseteq f.ins
  <2>1. CASE SymConfirm
    <3>1. j \in DOMAIN inputs
      BY <1>2, <2>1 DEF TypeOK, SymConfirm, AtPair
    <3> QED
      BY <1>4, <2>1, <3>1 DEF TypeOK, SymConfirm
  <2>2. CASE SymClose
    BY <2>2 DEF TypeOK, SymClose
  <2>3. CASE ~SymConfirm /\ ~SymClose
    BY <2>3 DEF TypeOK, SymTooFew, SymSkip, SymSkipPartner, SymIteration, SymReturn, symVars
  <2> QED
    BY <2>1, <2>2, <2>3
<1>9. symPart' \in Seq(SymClusters)
  <2>1. CASE SymTooFew
    <3>1. symPart' = <<[sym |-> NoSymmetry, ins |-> f.ins]>>
      BY <2>1 DEF SymTooFew
    <3>2. [sym |-> NoSymmetry, ins |-> f.ins] \in SymClusters
      BY DEF SymClusters
    <3> QED
      BY <3>1, <3>2
  <2>2. CASE SymClose
    <3>1. pi1 \in f.ins
      BY <2>2 DEF TypeOK, SymClose
    <3>2. [sym |-> NESymmetry, ins |-> group \cup {pi1}] \in SymClusters
      BY <3>1 DEF TypeOK, SymClusters
    <3>3. symPart' \in {symPart, Append(symPart, [sym |-> NESymmetry, ins |-> group \cup {pi1}])}
      BY <2>2 DEF SymClose
    <3> QED
      BY <1>2, <3>2, <3>3
  <2>3. CASE SymReturn
    <3>1. [sym |-> NoSymmetry, ins |-> nonSym] \in SymClusters
      BY DEF TypeOK, SymClusters
    <3>2. symPart' \in {symPart, Append(symPart, [sym |-> NoSymmetry, ins |-> nonSym])}
      BY <2>3 DEF SymReturn
    <3> QED
      BY <1>2, <3>1, <3>2
  <2>4. CASE SymSkip \/ SymSkipPartner \/ SymIteration \/ SymConfirm
    <3>1. symPart' = symPart
      BY <2>4 DEF SymSkip, SymSkipPartner, SymIteration, SymConfirm, symVars
    <3> QED
      BY <1>2, <3>1
  <2> QED
    BY <2>1, <2>2, <2>3, <2>4
<1> QED
  BY <1>1, <1>5, <1>6, <1>7, <1>8, <1>9 DEF TypeOK, SymClusters

\* What holds whatever the checker answers.
Base == TypeOK /\ InputsListed /\ NoPropertyLost /\ NoSVSymmetryLost

\* Every property an input could have is in the sets at the start.
LEMMA InitBase ==
    ASSUME Init
    PROVE  Base
<1>1. f \in Cones /\ IsCone(f, Names)
  BY ConesAssumption DEF Init
<1>2. inputs \in Orders /\ {inputs[n] : n \in DOMAIN inputs} = f.ins
  BY DEF Init
<1>3. /\ inputs \in Seq(Names)
      /\ \A m, n \in DOMAIN inputs : inputs[m] = inputs[n] => m = n
  BY <1>2, OrdersAssumption
<1>4. inputs \in Seq(f.ins)
  <2>1. Len(inputs) \in Nat /\ DOMAIN inputs = 1..Len(inputs)
    BY <1>3
  <2>2. inputs = [n \in 1..Len(inputs) |-> inputs[n]]
    BY <1>3
  <2>3. inputs \in [1..Len(inputs) -> f.ins]
    BY <1>2, <2>1, <2>2
  <2> QED
    BY <2>1, <2>3, IsASeq
<1>5. InputsListed
  BY <1>2, <1>3 DEF InputsListed
<1>6. props = [x \in f.ins |-> {PosUnate, NegUnate}]
  BY DEF Init
<1>7. sv = [x \in f.ins |-> (f.ins \ {x}) \X BOOLEAN]
  BY DEF Init
<1>8. TypeOK
  BY <1>1, <1>4, <1>6, <1>7, MaxIterAssumption DEF Init, TypeOK
<1>9. NoPropertyLost /\ NoSVSymmetryLost
  BY <1>6, <1>7 DEF NoPropertyLost, TrueProperties, NoSVSymmetryLost
<1> QED
  BY <1>5, <1>8, <1>9 DEF Base

\* No step of the three calls removes what is true.
LEMMA NextBase ==
    ASSUME Base, [Next]_vars
    PROVE  Base'
<1>1. f' = f /\ inputs' = inputs /\ \A x : TrueProperties(x)' = TrueProperties(x)
  BY ConeKept
<1>2. InputsListed'
  BY <1>1 DEF Base, InputsListed
<1>3. ASSUME SimulateIteration \/ SimulateConfirm
      PROVE  TypeOK' /\ NoPropertyLost' /\ NoSVSymmetryLost'
  <2>1. /\ props' \in [f.ins -> SUBSET {Binate, PosUnate, NegUnate}]
        /\ NoPropertyLost'
    BY <1>3, SimulateKeeps DEF Base
  <2>2. i' \in Nat \ {0} /\ it' \in 0..MaxIter /\ UNCHANGED <<call, j, symVars, sv>>
    BY <1>3, MaxIterAssumption DEF Base, TypeOK, SimulateIteration, SimulateConfirm
  <2>3. TypeOK'
    BY <1>1, <2>1, <2>2 DEF Base, TypeOK, symVars
  <2> QED
    BY <1>1, <2>1, <2>2, <2>3 DEF Base, NoSVSymmetryLost
<1>4. ASSUME SVIteration
      PROVE  TypeOK' /\ NoPropertyLost' /\ NoSVSymmetryLost'
  <2>1. sv' \in [f.ins -> SUBSET (f.ins \X BOOLEAN)] /\ NoSVSymmetryLost'
    BY <1>4, SVKeeps DEF Base
  <2>2. it' \in 0..MaxIter /\ UNCHANGED <<call, i, j, symVars, props>>
    BY <1>4, MaxIterAssumption DEF Base, TypeOK, SVIteration
  <2>3. TypeOK'
    BY <1>1, <2>1, <2>2 DEF Base, TypeOK, symVars
  <2> QED
    BY <1>1, <2>1, <2>2, <2>3 DEF Base, NoPropertyLost
<1>5. ASSUME UNCHANGED props, UNCHANGED sv
      PROVE  NoPropertyLost' /\ NoSVSymmetryLost'
  BY <1>1, <1>5 DEF Base, NoPropertyLost, NoSVSymmetryLost
<1>6. ASSUME \/ SymTooFew \/ SymSkip \/ SymSkipPartner \/ SymIteration \/ SymConfirm
             \/ SymClose \/ SymReturn
      PROVE  TypeOK' /\ NoPropertyLost' /\ NoSVSymmetryLost'
  <2>1. UNCHANGED props /\ UNCHANGED sv
    BY <1>6 DEF SymTooFew, SymSkip, SymSkipPartner, SymIteration, SymConfirm,
                SymClose, SymReturn
  <2> QED
    BY <1>5, <1>6, <2>1, SymSteps DEF Base
<1>7. ASSUME SimulateReturn \/ SVNext \/ SVThrow \/ SVReturn \/ Done \/ UNCHANGED vars
      PROVE  TypeOK' /\ NoPropertyLost' /\ NoSVSymmetryLost'
  <2>1. UNCHANGED <<props, sv, symVars>>
    BY <1>7 DEF SimulateReturn, SVNext, SVThrow, SVReturn, Done, vars
  <2>2. /\ i' \in Nat \ {0} /\ j' \in Nat \ {0} /\ it' \in 0..MaxIter
        /\ call' \in {"simulate", "simulateSym", "simulateSVSym", "done", "threw"}
    BY <1>7, MaxIterAssumption
    DEF Base, TypeOK, SimulateReturn, SVNext, SVThrow, SVReturn, Done, vars
  <2>3. TypeOK'
    BY <1>1, <2>1, <2>2 DEF Base, TypeOK, symVars
  <2> QED
    BY <1>5, <2>1, <2>3
<1> QED
  BY <1>2, <1>3, <1>4, <1>6, <1>7 DEF Base, Next

\* In every state of the command `sim' the types are kept and nothing true has been
\* removed, also when the checker fails.
THEOREM BaseHolds == Spec => []Base
<1>1. Init => Base
  BY InitBase
<1>2. Base /\ [Next]_vars => Base'
  BY NextBase
<1> QED
  BY <1>1, <1>2, PTL DEF Spec

\* The variables of the three calls keep their types; every index that reads
\* inputs is one of them.
THEOREM SimulatorTyped == Spec => []TypeOK
<1>1. Base => TypeOK
  BY DEF Base
<1> QED
  BY <1>1, BaseHolds, PTL

\* No random vector and no answer of the checker, wrong ones that stand for
\* errors included, removes a unateness an input has (simulator.cpp:121-197).
THEOREM NoUnatenessLost == Spec => []NoPropertyLost
<1>1. Base => NoPropertyLost
  BY DEF Base
<1> QED
  BY <1>1, BaseHolds, PTL

\* The same for the single-variable symmetries of simulateSVSym, which the
\* checker is never asked about.
THEOREM NoSingleVariableSymmetryLost == Spec => []NoSVSymmetryLost
<1>1. Base => NoSVSymmetryLost
  BY DEF Base
<1> QED
  BY <1>1, BaseHolds, PTL

-------------------------------------------------------------------------------
(***************************************************************************)
(* When the checker answers correctly, what simulate reports is exact.     *)
(***************************************************************************)
\* An input that has been visited is reported exactly; one that has not been
\* visited yet is not called binate.
Visited(n) ==
    IF n < i
    THEN props[inputs[n]] = IF TrueProperties(inputs[n]) = {} THEN {Binate}
                            ELSE TrueProperties(inputs[n])
    ELSE props[inputs[n]] \subseteq {PosUnate, NegUnate}

UnateSoFar ==
    /\ call = "simulate" => \A n \in DOMAIN inputs : Visited(n)
    /\ UnatenessExact

\* An iteration changes only the input it is about, which is not visited yet.
LEMMA SimulateIterationExact ==
    ASSUME Base, UnateSoFar, SimulateIteration
    PROVE  UnateSoFar'
<1>1. /\ pi1 \in f.ins /\ pi1 = inputs[i]
      /\ \A x \in f.ins \ {pi1} : props'[x] = props[x]
  BY SimulateKeeps DEF Base, pi1
<1>2. /\ f' = f /\ inputs' = inputs /\ i' = i /\ call' = "simulate"
      /\ \A x : TrueProperties(x)' = TrueProperties(x)
  BY ConeKept DEF Next, SimulateIteration
<1>3. props'[pi1] \subseteq props[pi1]
  <2>1. PICK vec \in SUBSET f.ins : props' = [props EXCEPT ![pi1] = @ \ Refuted(pi1, vec)]
    BY DEF SimulateIteration
  <2> QED
    BY <1>1, <2>1 DEF Base, TypeOK
<1>4. ASSUME NEW n \in DOMAIN inputs
      PROVE  Visited(n)'
  <2>1. Visited(n) /\ inputs[n] \in f.ins /\ i \in DOMAIN inputs
    BY DEF UnateSoFar, SimulateIteration, Base, TypeOK
  <2>2. CASE n = i
    BY <1>1, <1>2, <1>3, <2>1, <2>2 DEF Visited, Base, TypeOK
  <2>3. CASE n # i
    <3>1. inputs[n] # pi1
      BY <1>1, <2>1, <2>3 DEF Base, InputsListed
    <3> QED
      BY <1>1, <1>2, <2>1, <3>1 DEF Visited
  <2> QED
    BY <2>2, <2>3
<1> QED
  BY <1>2, <1>4 DEF UnateSoFar, UnatenessExact

\* The answers of the checker leave exactly what is true.
LEMMA SimulateConfirmExact ==
    ASSUME ~CheckerFails, Base, UnateSoFar, SimulateConfirm
    PROVE  UnateSoFar'
<1>1. /\ pi1 \in f.ins /\ pi1 = inputs[i] /\ i \in DOMAIN inputs
      /\ \A x \in f.ins \ {pi1} : props'[x] = props[x]
  BY SimulateKeeps DEF Base, TypeOK, pi1, SimulateConfirm
<1>2. /\ f' = f /\ inputs' = inputs /\ i' = i + 1 /\ call' = "simulate"
      /\ \A x : TrueProperties(x)' = TrueProperties(x)
  BY ConeKept DEF Next, SimulateConfirm
<1>3. props'[pi1] = IF TrueProperties(pi1) = {} THEN {Binate} ELSE TrueProperties(pi1)
  <2>1. PICK left \in Confirmed(pi1, props[pi1]) :
           props' = [props EXCEPT ![pi1] = IF left = {} THEN {Binate} ELSE left]
    BY DEF SimulateConfirm
  <2>2. Visited(i)
    BY <1>1 DEF UnateSoFar, SimulateConfirm
  <2>3. props[pi1] \subseteq {PosUnate, NegUnate}
    BY <1>1, <2>2 DEF Visited, Base, TypeOK
  <2>4. left = TrueProperties(pi1)
    BY <1>1, <2>3, ConfirmedTrue DEF Base, NoPropertyLost
  <2> QED
    BY <1>1, <2>1, <2>4 DEF Base, TypeOK
<1>4. ASSUME NEW n \in DOMAIN inputs
      PROVE  Visited(n)'
  <2>1. Visited(n) /\ inputs[n] \in f.ins /\ n \in Nat /\ i \in Nat
    BY <1>1 DEF UnateSoFar, SimulateConfirm, Base, TypeOK
  <2>2. CASE n = i
    BY <1>1, <1>2, <1>3, <2>1, <2>2 DEF Visited
  <2>3. CASE n # i
    <3>1. inputs[n] # pi1
      BY <1>1, <2>1, <2>3 DEF Base, InputsListed
    <3>2. n < i' <=> n < i
      BY <1>2, <2>1, <2>3
    <3> QED
      BY <1>1, <1>2, <2>1, <3>1, <3>2 DEF Visited
  <2> QED
    BY <2>2, <2>3
<1> QED
  BY <1>2, <1>4 DEF UnateSoFar, UnatenessExact

\* Once reported, the unateness of an input does not change.
LEMMA NextUnate ==
    ASSUME ~CheckerFails, Base, UnateSoFar, [Next]_vars
    PROVE  UnateSoFar'
<1>1. f' = f /\ inputs' = inputs /\ \A x : TrueProperties(x)' = TrueProperties(x)
  BY ConeKept
<1>2. CASE SimulateReturn
  <2>1. i > Len(inputs) /\ call = "simulate" /\ props' = props /\ call' = "simulateSym"
    BY <1>2 DEF SimulateReturn
  <2>2. \A n \in DOMAIN inputs : n < i /\ Visited(n)
    BY <2>1 DEF UnateSoFar, Base, TypeOK
  <2>3. \A x \in f.ins : props[x] = IF TrueProperties(x) = {} THEN {Binate}
                                    ELSE TrueProperties(x)
    BY <2>2 DEF Visited, Base, InputsListed
  <2> QED
    BY <1>1, <2>1, <2>3 DEF UnateSoFar, UnatenessExact
<1>3. CASE /\ UNCHANGED <<i, props, call>>
  BY <1>1, <1>3 DEF UnateSoFar, UnatenessExact, Visited
<1>4. CASE call # "simulate" /\ call' # "simulate" /\ props' = props
  BY <1>1, <1>4 DEF UnateSoFar, UnatenessExact
<1>5. CASE \/ SymTooFew \/ SymSkip \/ SymSkipPartner \/ SymIteration \/ SymConfirm
           \/ SymClose \/ SymReturn \/ SVIteration \/ SVNext \/ SVThrow \/ SVReturn
  <2>1. call # "simulate" /\ call' # "simulate" /\ props' = props
    BY <1>5 DEF SymTooFew, SymSkip, SymSkipPartner, SymIteration, SymConfirm, SymClose,
                SymReturn, SVIteration, SVNext, SVThrow, SVReturn, InSym, AtPair
  <2> QED
    BY <1>4, <2>1
<1>6. CASE Done \/ UNCHANGED vars
  BY <1>3, <1>6 DEF Done, vars
<1> QED
  BY <1>2, <1>5, <1>6, SimulateIterationExact, SimulateConfirmExact DEF Next

\* With a checker that answers, simulate reports each input of every cone with
\* exactly the unateness it has, however few random vectors were tried.
THEOREM UnatenessIsExact == ~CheckerFails => (Spec => []UnatenessExact)
<1> SUFFICES ASSUME ~CheckerFails
             PROVE  Spec => []UnatenessExact
  OBVIOUS
<1>1. Init => UnateSoFar
  <2> SUFFICES ASSUME Init PROVE UnateSoFar
    OBVIOUS
  <2>1. call = "simulate" /\ i = 1 /\ Base
    BY InitBase DEF Init
  <2>2. \A n \in DOMAIN inputs : ~(n < 1) /\ props[inputs[n]] = {PosUnate, NegUnate}
    BY <2>1 DEF Base, TypeOK, Init
  <2> QED
    BY <2>1, <2>2 DEF UnateSoFar, UnatenessExact, Visited
<1>2. Base /\ UnateSoFar /\ [Next]_vars => UnateSoFar'
  BY NextUnate
<1>3. UnateSoFar => UnatenessExact
  BY DEF UnateSoFar
<1> QED
  BY <1>1, <1>2, <1>3, BaseHolds, PTL DEF Spec

-------------------------------------------------------------------------------
(***************************************************************************)
(* When the checker answers correctly, simulateSym finds the classes of    *)
(* exchangeable inputs, although it compares an input with the inputs      *)
(* only that no earlier one took.                                          *)
(***************************************************************************)
\* The inputs that are in no finished cluster yet.
Open == unviewed \cup group

\* They are ahead of the loop, and with an input its whole class is.
SymAhead == \A x \in Open : \E n \in DOMAIN inputs : n >= i /\ inputs[n] = x
SymClosed == \A x \in Open : SymmetryClass(f, x) \subseteq Open

\* A cluster of exchangeable inputs is the class of each of its members.
IsClass(cl) ==
    /\ \A x \in cl.ins : SymmetryClass(f, x) = cl.ins
    /\ Cardinality(cl.ins) > 1

SymFinished ==
    /\ \A n \in DOMAIN symPart : symPart[n].sym = NESymmetry /\ IsClass(symPart[n])
    /\ \A x \in nonSym : SymmetryClass(f, x) = {x}
    /\ \A x \in f.ins : \/ x \in Open \/ x \in nonSym
                        \/ \E n \in DOMAIN symPart : x \in symPart[n].ins

\* The group of the input the outer loop is at: the members of its class that
\* the inner loop has passed, and nothing else.
AtInput == i \in DOMAIN inputs /\ pi1 \in unviewed
SymGroup ==
    /\ group \cap unviewed = {}
    /\ i < j
    /\ ~AtInput => group = {}
    /\ AtInput =>
         /\ group \subseteq SymmetryClass(f, pi1)
         /\ \A n \in DOMAIN inputs :
               i < n /\ n < j /\ inputs[n] \in SymmetryClass(f, pi1)
                  => inputs[n] \notin unviewed

\* The pair the loops are at keeps its symmetry until it is confirmed.
AtPartner == AtInput /\ j \in DOMAIN inputs /\ pi2 \in unviewed
SymPair ==
    symSet # {NESymmetry} => AtPartner /\ ~Exchangeable(f, pi1, pi2)

SymRunning == SymAhead /\ SymClosed /\ SymFinished /\ SymGroup /\ SymPair

SymFresh ==
    /\ symSet = {NESymmetry} /\ group = {} /\ unviewed = f.ins
    /\ nonSym = {} /\ symPart = <<>> /\ j = 2

SymSoFar ==
    /\ call = "simulate" => SymFresh
    /\ InSym => SymRunning
    /\ SymmetryExact

\* The facts about classes that the steps need.
LEMMA ClassFacts ==
    ASSUME NEW x \in f.ins
    PROVE  /\ x \in SymmetryClass(f, x)
           /\ SymmetryClass(f, x) \subseteq f.ins
           /\ \A y \in SymmetryClass(f, x) : SymmetryClass(f, y) = SymmetryClass(f, x)
           /\ \A y \in f.ins : y # x => (y \in SymmetryClass(f, x) <=> Exchangeable(f, x, y))
<1>1. \A y \in SymmetryClass(f, x) : SymmetryClass(f, y) = SymmetryClass(f, x)
  BY SymmetryClassOfMember
<1> QED
  BY <1>1 DEF SymmetryClass

\* The types and the bounds of a step of simulateSym.
LEMMA SymFacts ==
    ASSUME Base, InSym
    PROVE  /\ inputs \in Seq(f.ins) /\ DOMAIN inputs = 1..Len(inputs) /\ Len(inputs) \in Nat
           /\ i \in Nat \ {0} /\ j \in Nat \ {0}
           /\ unviewed \subseteq f.ins /\ group \subseteq f.ins /\ nonSym \subseteq f.ins
           /\ i \in DOMAIN inputs => pi1 = inputs[i] /\ pi1 \in f.ins
           /\ j \in DOMAIN inputs => pi2 = inputs[j] /\ pi2 \in f.ins
           /\ \A m, n \in DOMAIN inputs : inputs[m] = inputs[n] => m = n
           /\ IsFiniteSet(f.ins)
<1>1. f.ins \subseteq Names
  BY DEF Base, TypeOK, IsCone
<1>2. IsFiniteSet(f.ins)
  BY <1>1, NamesAssumption, FS_Subset
<1> QED
  BY <1>2 DEF Base, TypeOK, InputsListed, pi1, pi2

\* An input that was taken by an earlier one is passed over.
LEMMA SymSkipRunning ==
    ASSUME Base, SymRunning, SymSkip
    PROVE  SymRunning'
<1>1. /\ f' = f /\ inputs' = inputs /\ i' = i + 1 /\ j' = i + 2 /\ i \in DOMAIN inputs
      /\ UNCHANGED symVars /\ pi1 \notin unviewed
      /\ InSym
  BY SymFacts DEF SymSkip, InSym
<1>2. group = {} /\ ~AtInput
  BY <1>1 DEF SymRunning, SymGroup, AtInput
<1>3. SymAhead'
  BY <1>1, <1>2, SymFacts DEF SymRunning, SymAhead, Open, symVars
<1>4. SymClosed' /\ SymFinished'
  BY <1>1 DEF SymRunning, SymClosed, SymFinished, IsClass, Open, symVars
<1>5. SymGroup'
  BY <1>1, <1>2, SymFacts DEF SymRunning, SymGroup, AtInput, symVars
<1>6. SymPair'
  BY <1>1, <1>2 DEF SymRunning, SymPair, AtPartner, symVars
<1> QED
  BY <1>3, <1>4, <1>5, <1>6 DEF SymRunning

\* So is a partner that was taken.
LEMMA SymSkipPartnerRunning ==
    ASSUME Base, SymRunning, SymSkipPartner
    PROVE  SymRunning'
<1>1. /\ f' = f /\ inputs' = inputs /\ i' = i /\ j' = j + 1 /\ j \in DOMAIN inputs
      /\ UNCHANGED symVars /\ pi2 \notin unviewed /\ AtInput
      /\ InSym
  BY SymFacts DEF SymSkipPartner, InSym, AtInput
<1>2. AtInput' /\ pi1' = pi1
  BY <1>1 DEF AtInput, symVars, pi1
<1>3. SymAhead' /\ SymClosed' /\ SymFinished'
  BY <1>1 DEF SymRunning, SymAhead, SymClosed, SymFinished, IsClass, Open, symVars
<1>4. SymGroup'
  BY <1>1, <1>2, SymFacts DEF SymRunning, SymGroup, symVars
<1>5. SymPair'
  BY <1>1 DEF SymRunning, SymPair, AtPartner, symVars
<1> QED
  BY <1>3, <1>4, <1>5 DEF SymRunning

\* The two inputs under comparison are different ones.
LEMMA PairDiffers ==
    ASSUME Base, SymRunning, AtPair
    PROVE  /\ InSym /\ AtInput /\ AtPartner /\ j \in DOMAIN inputs
           /\ pi1 \in f.ins /\ pi2 \in f.ins /\ pi1 # pi2
<1>1. InSym /\ i \in DOMAIN inputs /\ j \in DOMAIN inputs
  BY DEF AtPair, Base, TypeOK
<1>2. i < j
  BY DEF SymRunning, SymGroup
<1> QED
  BY <1>1, <1>2, SymFacts DEF AtPair, AtInput, AtPartner

\* A pair of vectors refutes the symmetry of a pair only if it has none.
LEMMA SymIterationRunning ==
    ASSUME Base, SymRunning, SymIteration
    PROVE  SymRunning'
<1>1. /\ f' = f /\ UNCHANGED <<inputs, i, j, group, unviewed, nonSym, symPart>> /\ AtPair
  BY DEF SymIteration
<1>2. PICK vec \in SUBSET f.ins : symSet' = symSet \ SymRefuted(pi1, pi2, vec)
  BY DEF SymIteration
<1>3. Exchangeable(f, pi1, pi2) => symSet' = symSet
  BY <1>1, <1>2, PairDiffers, SymRefutedIsFalse
<1>4. AtInput' = AtInput /\ AtPartner' = AtPartner /\ pi1' = pi1 /\ pi2' = pi2
  BY <1>1 DEF AtInput, AtPartner, pi1, pi2
<1>5. SymPair'
  BY <1>1, <1>3, <1>4, PairDiffers DEF SymRunning, SymPair
<1>6. SymAhead' /\ SymClosed' /\ SymFinished'
  BY <1>1 DEF SymRunning, SymAhead, SymClosed, SymFinished, IsClass, Open
<1>7. SymGroup'
  BY <1>1, <1>4 DEF SymRunning, SymGroup
<1> QED
  BY <1>5, <1>6, <1>7 DEF SymRunning

\* The answer of the checker decides whether the partner joins the group.
LEMMA SymConfirmRunning ==
    ASSUME ~CheckerFails, Base, SymRunning, SymConfirm
    PROVE  SymRunning'
<1>1. /\ f' = f /\ UNCHANGED <<inputs, i, nonSym, symPart>> /\ AtPair
      /\ j' = j + 1 /\ symSet' = {NESymmetry}
  BY DEF SymConfirm
<1>2. /\ InSym /\ AtInput /\ AtPartner /\ j \in DOMAIN inputs
      /\ pi1 \in f.ins /\ pi2 \in f.ins /\ pi1 # pi2
  BY <1>1, PairDiffers
<1>3. PICK left \in SymConfirmed(pi1, pi2, symSet) :
         IF left # {}
         THEN group' = group \cup {pi2} /\ unviewed' = unviewed \ {pi2}
         ELSE UNCHANGED <<group, unviewed>>
  BY DEF SymConfirm
<1>4. left # {} <=> Exchangeable(f, pi1, pi2)
  <2>1. symSet \in SUBSET {NESymmetry}
    BY DEF Base, TypeOK
  <2>2. Exchangeable(f, pi1, pi2) => symSet # {}
    BY DEF SymRunning, SymPair
  <2> QED
    BY <1>2, <1>3, <2>1, <2>2, SymConfirmedTrue
<1>5. left # {} <=> pi2 \in SymmetryClass(f, pi1)
  BY <1>2, <1>4, ClassFacts
<1>6. Open' = Open
  BY <1>2, <1>3 DEF Open, AtPartner
<1>7. AtInput' /\ pi1' = pi1
  BY <1>1, <1>2, <1>3 DEF AtInput, pi1
<1>8. SymAhead' /\ SymClosed' /\ SymFinished'
  BY <1>1, <1>6 DEF SymRunning, SymAhead, SymClosed, SymFinished, IsClass
<1>9. SymGroup'
  <2>1. group' \cap unviewed' = {} /\ i' < j'
    BY <1>1, <1>2, <1>3, SymFacts DEF SymRunning, SymGroup
  <2>2. group' \subseteq SymmetryClass(f, pi1)
    BY <1>2, <1>3, <1>5 DEF SymRunning, SymGroup
  <2>3. ASSUME NEW n \in DOMAIN inputs, i < n, n < j + 1,
               inputs[n] \in SymmetryClass(f, pi1)
        PROVE  inputs[n] \notin unviewed'
    <3>1. CASE n = j
      BY <1>2, <1>3, <1>5, <2>3, <3>1, SymFacts
    <3>2. CASE n # j
      <4>1. n < j
        BY <1>2, <2>3, <3>2, SymFacts
      <4>2. inputs[n] \notin unviewed
        BY <1>2, <2>3, <4>1 DEF SymRunning, SymGroup
      <4> QED
        BY <1>3, <4>2
    <3> QED
      BY <3>1, <3>2
  <2> QED
    BY <1>1, <1>7, <2>1, <2>2, <2>3 DEF SymGroup
<1>10. SymPair'
  BY <1>1 DEF SymPair
<1> QED
  BY <1>8, <1>9, <1>10 DEF SymRunning

\* When the inner loop ends, the group and its first input are the whole class.
LEMMA GroupIsClass ==
    ASSUME Base, SymRunning, SymClose
    PROVE  /\ InSym /\ AtInput /\ pi1 \in f.ins /\ pi1 \notin group
           /\ SymmetryClass(f, pi1) = group \cup {pi1}
<1>1. InSym /\ AtInput /\ pi1 = inputs[i] /\ pi1 \in f.ins /\ j > Len(inputs)
  BY SymFacts DEF SymClose, InSym, AtInput
<1>2. pi1 \notin group
  BY <1>1 DEF SymRunning, SymGroup, AtInput
<1>3. group \cup {pi1} \subseteq SymmetryClass(f, pi1)
  BY <1>1, ClassFacts DEF SymRunning, SymGroup
<1>4. ASSUME NEW x \in SymmetryClass(f, pi1), x # pi1
      PROVE  x \in group
  <2>1. x \in Open
    BY <1>1 DEF SymRunning, SymClosed, Open, AtInput
  <2>2. PICK n \in DOMAIN inputs : n >= i /\ inputs[n] = x
    BY <2>1 DEF SymRunning, SymAhead
  <2>3. i < n /\ n < j
    BY <1>1, <1>4, <2>2, SymFacts
  <2>4. x \notin unviewed
    BY <1>1, <2>2, <2>3 DEF SymRunning, SymGroup
  <2> QED
    BY <2>1, <2>4 DEF Open
<1> QED
  BY <1>1, <1>2, <1>3, <1>4

\* Two inputs and more.
LEMMA MoreThanOne ==
    ASSUME NEW S, IsFiniteSet(S), NEW x, x \notin S, S # {}
    PROVE  Cardinality(S \cup {x}) > 1
<1>1. Cardinality(S \cup {x}) = Cardinality(S) + 1
  BY FS_AddElement
<1>2. Cardinality(S) \in Nat /\ Cardinality(S) # 0
  BY FS_CardinalityType, FS_EmptySet
<1> QED
  BY <1>1, <1>2

\* A finished group becomes a cluster, and an input without a group goes to the
\* rest.
LEMMA SymCloseRunning ==
    ASSUME Base, SymRunning, SymClose
    PROVE  SymRunning'
<1> DEFINE cl == [sym |-> NESymmetry, ins |-> group \cup {pi1}]
<1>1. /\ f' = f /\ UNCHANGED <<inputs, symSet>> /\ i' = i + 1 /\ j' = i + 2
      /\ unviewed' = unviewed \ {pi1} /\ group' = {}
      /\ IF group # {} THEN symPart' = Append(symPart, cl) /\ nonSym' = nonSym
                       ELSE nonSym' = nonSym \cup {pi1} /\ symPart' = symPart
  BY DEF SymClose
<1>2. /\ InSym /\ AtInput /\ pi1 \in f.ins /\ pi1 \notin group
      /\ SymmetryClass(f, pi1) = group \cup {pi1}
  BY GroupIsClass
<1>3. Open' = Open \ SymmetryClass(f, pi1)
  BY <1>1, <1>2 DEF Open, SymRunning, SymGroup
<1>4. SymAhead'
  <2>1. ASSUME NEW x \in Open'
        PROVE  \E n \in DOMAIN inputs : n >= i + 1 /\ inputs[n] = x
    <3>1. PICK n \in DOMAIN inputs : n >= i /\ inputs[n] = x
      BY <1>3, <2>1 DEF SymRunning, SymAhead
    <3>2. x # pi1
      BY <1>2, <1>3, <2>1
    <3> QED
      BY <1>2, <3>1, <3>2, SymFacts DEF AtInput
  <2> QED
    BY <1>1, <2>1 DEF SymAhead
<1>5. Open \subseteq f.ins
  BY <1>2, SymFacts DEF Open
<1>6. SymClosed'
  <2>1. ASSUME NEW x \in Open', NEW y \in SymmetryClass(f, x)
        PROVE  y \in Open'
    <3>1. x \in Open /\ x \in f.ins /\ x \notin SymmetryClass(f, pi1)
      BY <1>3, <1>5, <2>1
    <3>2. y \in Open
      BY <3>1 DEF SymRunning, SymClosed
    <3>3. y \notin SymmetryClass(f, pi1)
      BY <1>2, <3>1, ClassFacts
    <3> QED
      BY <1>3, <3>2, <3>3
  <2> QED
    BY <1>1, <2>1 DEF SymClosed
<1>7. SymFinished'
  <2>1. symPart \in Seq(SymClusters) /\ cl \in SymClusters
    BY <1>2 DEF Base, TypeOK, SymClusters
  <2>2. CASE group = {}
    <3>1. SymmetryClass(f, pi1) = {pi1} /\ nonSym' = nonSym \cup {pi1} /\ symPart' = symPart
      BY <1>1, <1>2, <2>2
    <3> QED
      BY <1>1, <1>3, <3>1 DEF SymRunning, SymFinished, IsClass
  <2>3. CASE group # {}
    <3>1. nonSym' = nonSym /\ symPart' = Append(symPart, cl)
      BY <1>1, <2>3
    <3>2. /\ DOMAIN symPart' = DOMAIN symPart \cup {Len(symPart) + 1}
          /\ \A n \in DOMAIN symPart : symPart'[n] = symPart[n]
          /\ symPart'[Len(symPart) + 1] = cl
      <4> HIDE DEF cl
      <4>1. /\ Len(symPart') = Len(symPart) + 1 /\ Len(symPart) \in Nat
            /\ \A n \in 1..Len(symPart) : symPart'[n] = symPart[n]
            /\ symPart'[Len(symPart) + 1] = cl
            /\ symPart' \in Seq(SymClusters)
        BY <2>1, <3>1, AppendProperties
      <4>2. DOMAIN symPart' = 1..Len(symPart') /\ DOMAIN symPart = 1..Len(symPart)
        BY <2>1, <4>1
      <4> QED
        BY <4>1, <4>2
    <3>3. IsClass(cl)
      <4>1. \A x \in cl.ins : SymmetryClass(f, x) = cl.ins
        BY <1>2, ClassFacts
      <4>2. IsFiniteSet(group)
        BY <1>2, SymFacts, FS_Subset
      <4>3. Cardinality(group \cup {pi1}) > 1
        BY <1>2, <2>3, <4>2, MoreThanOne
      <4> QED
        BY <4>1, <4>3 DEF IsClass
    <3>4. \A n \in DOMAIN symPart' : symPart'[n].sym = NESymmetry /\ IsClass(symPart'[n])
      BY <3>2, <3>3 DEF SymRunning, SymFinished
    <3>5. ASSUME NEW x \in f.ins
          PROVE  \/ x \in Open' \/ x \in nonSym
                 \/ \E n \in DOMAIN symPart' : x \in symPart'[n].ins
      <4>1. CASE x \in Open
        <5>1. x \in Open' \/ x \in cl.ins
          BY <1>2, <1>3, <4>1
        <5> QED
          BY <3>2, <5>1
      <4>2. CASE x \notin Open
        <5>1. x \in nonSym \/ \E n \in DOMAIN symPart : x \in symPart[n].ins
          BY <4>2 DEF SymRunning, SymFinished
        <5> QED
          BY <3>2, <5>1
      <4> QED
        BY <4>1, <4>2
    <3>6. \A x \in nonSym : SymmetryClass(f, x) = {x}
      BY DEF SymRunning, SymFinished
    <3> QED
      BY <1>1, <3>1, <3>4, <3>5, <3>6 DEF SymFinished, IsClass
  <2> QED
    BY <2>2, <2>3
<1>8. SymGroup'
  BY <1>1, <1>2, SymFacts DEF SymGroup, AtInput
<1>9. symSet = {NESymmetry}
  BY <1>2, SymFacts DEF SymRunning, SymPair, AtPartner, SymClose
<1>10. SymPair'
  BY <1>1, <1>9 DEF SymPair
<1> QED
  BY <1>4, <1>6, <1>7, <1>8, <1>10 DEF SymRunning

\* After the last input nothing is open, and the rest becomes the last cluster.
LEMMA SymReturnExact ==
    ASSUME Base, SymRunning, SymReturn
    PROVE  SymmetryExact'
<1> DEFINE cl == [sym |-> NoSymmetry, ins |-> nonSym]
<1>1. /\ f' = f /\ InSym /\ i > Len(inputs)
      /\ symPart' = IF nonSym = {} THEN symPart ELSE Append(symPart, cl)
  BY DEF SymReturn
<1>2. Open = {}
  BY <1>1, SymFacts DEF SymRunning, SymAhead
<1>3. symPart \in Seq(SymClusters) /\ cl \in SymClusters /\ NoSymmetry # NESymmetry
  BY DEF Base, TypeOK, SymClusters, NoSymmetry, NESymmetry
<1>4. PICK top \in Nat :
         /\ top \notin DOMAIN symPart
         /\ DOMAIN symPart' = DOMAIN symPart \cup (IF nonSym = {} THEN {} ELSE {top})
         /\ \A n \in DOMAIN symPart : symPart'[n] = symPart[n]
         /\ nonSym # {} => symPart'[top] = cl
  <2> HIDE DEF cl
  <2>1. CASE nonSym = {}
    <3>1. symPart' = symPart /\ 0 \notin DOMAIN symPart
      BY <1>1, <1>3, <2>1
    <3> QED
      BY <2>1, <3>1
  <2>2. CASE nonSym # {}
    <3>1. symPart' = Append(symPart, cl)
      BY <1>1, <2>2
    <3>2. /\ Len(symPart') = Len(symPart) + 1 /\ Len(symPart) \in Nat
          /\ \A n \in 1..Len(symPart) : symPart'[n] = symPart[n]
          /\ symPart'[Len(symPart) + 1] = cl
          /\ symPart' \in Seq(SymClusters)
      BY <1>3, <3>1, AppendProperties
    <3>3. DOMAIN symPart' = 1..Len(symPart') /\ DOMAIN symPart = 1..Len(symPart)
      BY <1>3, <3>2
    <3> QED
      BY <2>2, <3>2, <3>3
  <2> QED
    BY <2>1, <2>2
<1>5. ASSUME NEW n \in DOMAIN symPart', NEW x \in symPart'[n].ins
      PROVE  IF symPart'[n].sym = NESymmetry
             THEN /\ symPart'[n].ins = SymmetryClass(f, x)
                  /\ Cardinality(symPart'[n].ins) > 1
             ELSE SymmetryClass(f, x) = {x}
  <2>1. CASE n \in DOMAIN symPart
    BY <1>4, <1>5, <2>1 DEF SymRunning, SymFinished, IsClass
  <2>2. CASE n \notin DOMAIN symPart
    <3>1. symPart'[n] = cl
      BY <1>4, <2>2
    <3>2. symPart'[n].sym # NESymmetry /\ x \in nonSym
      BY <1>3, <1>5, <3>1
    <3> QED
      BY <3>2 DEF SymRunning, SymFinished
  <2> QED
    BY <2>1, <2>2
<1>6. ASSUME NEW x \in f.ins
      PROVE  \E n \in DOMAIN symPart' : x \in symPart'[n].ins
  <2>1. x \in nonSym \/ \E n \in DOMAIN symPart : x \in symPart[n].ins
    BY <1>2 DEF SymRunning, SymFinished
  <2> QED
    BY <1>4, <2>1
<1>7. ASSUME NEW n \in DOMAIN symPart'
      PROVE  symPart'[n].ins \subseteq f.ins
  <2>1. CASE n \in DOMAIN symPart
    <3>1. symPart'[n] \in SymClusters
      BY <1>3, <1>4, <2>1
    <3> QED
      BY <3>1 DEF SymClusters
  <2>2. CASE n \notin DOMAIN symPart
    <3>1. symPart'[n] = cl
      BY <1>4, <2>2
    <3> QED
      BY <1>3, <3>1 DEF SymClusters
  <2> QED
    BY <2>1, <2>2
<1>8. UNION {symPart'[n].ins : n \in DOMAIN symPart'} = f.ins
  BY <1>6, <1>7
<1> QED
  BY <1>1, <1>5, <1>8 DEF SymmetryExact

\* With fewer than two inputs every class has one member.
LEMMA SymTooFewExact ==
    ASSUME Base, SymTooFew
    PROVE  SymmetryExact'
<1>1. /\ f' = f /\ Len(inputs) < 2
      /\ symPart' = <<[sym |-> NoSymmetry, ins |-> f.ins]>>
  BY ConeKept DEF SymTooFew, Next
<1>2. \A x, y \in f.ins : x = y
  BY <1>1 DEF Base, TypeOK, InputsListed
<1>3. \A x \in f.ins : SymmetryClass(f, x) = {x}
  BY <1>2 DEF SymmetryClass
<1>4. DOMAIN symPart' = {1} /\ symPart'[1].ins = f.ins /\ symPart'[1].sym # NESymmetry
  BY <1>1 DEF NoSymmetry, NESymmetry
<1> QED
  BY <1>1, <1>3, <1>4 DEF SymmetryExact

\* simulateSym begins with every input unviewed.
LEMMA SymBegins ==
    ASSUME Base, SymSoFar, SimulateReturn
    PROVE  SymRunning'
<1>1. /\ f' = f /\ inputs' = inputs /\ i' = 1 /\ j' = 2 /\ UNCHANGED symVars
      /\ SymFresh
  BY DEF SimulateReturn, SymSoFar
<1>2. Open' = f.ins
  BY <1>1 DEF Open, SymFresh, symVars
<1>3. \A x \in f.ins : \E n \in DOMAIN inputs : n >= 1 /\ inputs[n] = x
  BY DEF Base, TypeOK, InputsListed
<1>4. SymAhead'
  BY <1>1, <1>2, <1>3 DEF SymAhead
<1>5. SymClosed'
  BY <1>1, <1>2 DEF SymClosed, SymmetryClass
<1>6. SymFinished'
  BY <1>1, <1>2 DEF SymFinished, SymFresh, symVars
<1>7. SymGroup'
  BY <1>1 DEF SymGroup, SymFresh, symVars, Base, TypeOK
<1>8. SymPair'
  BY <1>1 DEF SymPair, SymFresh, symVars
<1> QED
  BY <1>4, <1>5, <1>6, <1>7, <1>8 DEF SymRunning

\* Every step of the command keeps what simulateSym has found exact.
LEMMA NextSymmetry ==
    ASSUME ~CheckerFails, Base, SymSoFar, [Next]_vars
    PROVE  SymSoFar'
<1>1. f' = f /\ inputs' = inputs
  BY ConeKept
<1>2. CASE SimulateIteration \/ SimulateConfirm
  <2>1. call = "simulate" /\ call' = "simulate" /\ UNCHANGED <<j, symVars>>
    BY <1>2 DEF SimulateIteration, SimulateConfirm
  <2> QED
    BY <1>1, <2>1 DEF SymSoFar, SymFresh, symVars, InSym, SymmetryExact
<1>3. CASE SimulateReturn
  <2>1. call' = "simulateSym"
    BY <1>3 DEF SimulateReturn
  <2> QED
    BY <1>3, <2>1, SymBegins DEF SymSoFar, SymmetryExact
<1>4. CASE SymTooFew \/ SymReturn
  <2>1. call' = "simulateSVSym" /\ (SymReturn => InSym)
    BY <1>4 DEF SymTooFew, SymReturn
  <2>2. SymmetryExact'
    BY <1>4, <2>1, SymTooFewExact, SymReturnExact DEF SymSoFar
  <2> QED
    BY <2>1, <2>2 DEF SymSoFar, InSym
<1>5. CASE SymSkip \/ SymSkipPartner \/ SymIteration \/ SymConfirm \/ SymClose
  <2>1. InSym /\ call = "simulateSym" /\ call' = "simulateSym"
    BY <1>5 DEF SymSkip, SymSkipPartner, SymIteration, SymConfirm, SymClose, InSym, AtPair
  <2>2. SymRunning'
    BY <1>5, <2>1, SymSkipRunning, SymSkipPartnerRunning, SymIterationRunning,
       SymConfirmRunning, SymCloseRunning DEF SymSoFar
  <2> QED
    BY <2>1, <2>2 DEF SymSoFar, SymmetryExact
<1>6. CASE SVIteration \/ SVNext \/ SVThrow \/ SVReturn
  <2>1. /\ call = "simulateSVSym" /\ call' \in {"simulateSVSym", "done", "threw"}
        /\ symPart' = symPart
    BY <1>6 DEF SVIteration, SVNext, SVThrow, SVReturn, symVars
  <2> QED
    BY <1>1, <2>1 DEF SymSoFar, InSym, SymmetryExact
<1>7. CASE Done \/ UNCHANGED vars
  <2>1. UNCHANGED vars
    BY <1>7 DEF Done
  <2>2. Open' = Open /\ AtInput' = AtInput /\ AtPartner' = AtPartner /\ pi1' = pi1 /\ pi2' = pi2
    BY <2>1 DEF vars, symVars, Open, AtInput, AtPartner, pi1, pi2
  <2>3. SymFresh' <=> SymFresh
    BY <2>1 DEF vars, symVars, SymFresh
  <2>4. SymRunning => SymRunning'
    BY <2>1, <2>2 DEF vars, symVars, SymRunning, SymAhead, SymClosed, SymFinished,
                      IsClass, SymGroup, SymPair
  <2> QED
    BY <2>1, <2>3, <2>4 DEF vars, symVars, SymSoFar, InSym, SymmetryExact
<1> QED
  BY <1>2, <1>3, <1>4, <1>5, <1>6, <1>7 DEF Next

\* With a checker that answers, simulateSym reports the classes of exchangeable
\* inputs of every cone, as the matcher relies on (simulator.cpp:199-266): the
\* comparisons it leaves out, and the pairs that random vectors refuted, change
\* nothing.
THEOREM SymmetryIsExact == ~CheckerFails => (Spec => []SymmetryExact)
<1> SUFFICES ASSUME ~CheckerFails
             PROVE  Spec => []SymmetryExact
  OBVIOUS
<1>1. Init => SymSoFar
  BY DEF Init, SymSoFar, SymFresh, InSym, SymmetryExact
<1>2. Base /\ SymSoFar /\ [Next]_vars => SymSoFar'
  BY NextSymmetry
<1>3. SymSoFar => SymmetryExact
  BY DEF SymSoFar
<1> QED
  BY <1>1, <1>2, <1>3, BaseHolds, PTL DEF Spec

-------------------------------------------------------------------------------
(***************************************************************************)
(* simulateSym neither loses an input nor takes it twice, whatever the     *)
(* checker answers.                                                        *)
(***************************************************************************)
\* Every input is in one of the sets of simulateSym, and these are disjoint.
Placed ==
    /\ \A x \in f.ins : \/ x \in unviewed \/ x \in group \/ x \in nonSym
                        \/ \E n \in DOMAIN symPart : x \in symPart[n].ins
    /\ unviewed \cap group = {} /\ unviewed \cap nonSym = {} /\ group \cap nonSym = {}
    /\ \A n \in DOMAIN symPart :
          symPart[n].ins \cap (unviewed \cup group \cup nonSym) = {}
    /\ \A m, n \in DOMAIN symPart : m # n => symPart[m].ins \cap symPart[n].ins = {}

PlacedSoFar == call \in {"simulate", "simulateSym"} => Placed

\* A cluster that is appended is the only new one.
LEMMA AppendedCluster ==
    ASSUME NEW S, NEW s \in Seq(S), NEW e \in S, NEW t, t = Append(s, e)
    PROVE  \E top : /\ top \notin DOMAIN s
                    /\ DOMAIN t = DOMAIN s \cup {top}
                    /\ \A n \in DOMAIN s : t[n] = s[n]
                    /\ t[top] = e
<1>1. /\ Len(t) = Len(s) + 1 /\ Len(s) \in Nat
      /\ \A n \in 1..Len(s) : t[n] = s[n]
      /\ t[Len(s) + 1] = e
      /\ t \in Seq(S)
  BY AppendProperties
<1>2. DOMAIN t = 1..Len(t) /\ DOMAIN s = 1..Len(s)
  BY <1>1
<1>3. Len(s) + 1 \notin DOMAIN s /\ DOMAIN t = DOMAIN s \cup {Len(s) + 1}
  BY <1>1, <1>2
<1> QED
  BY <1>1, <1>2, <1>3

\* The end of the inner loop moves the group and its first input together.
LEMMA SymClosePlaced ==
    ASSUME Base, Placed, SymClose
    PROVE  Placed'
<1> DEFINE cl == [sym |-> NESymmetry, ins |-> group \cup {pi1}]
<1>1. /\ f' = f /\ unviewed' = unviewed \ {pi1} /\ group' = {} /\ pi1 \in unviewed
      /\ IF group # {} THEN symPart' = Append(symPart, cl) /\ nonSym' = nonSym
                       ELSE nonSym' = nonSym \cup {pi1} /\ symPart' = symPart
  BY DEF SymClose
<1>2. symPart \in Seq(SymClusters) /\ cl \in SymClusters
  BY <1>1 DEF Base, TypeOK, SymClusters
<1>3. CASE group = {}
  BY <1>1, <1>3 DEF Placed
<1>4. CASE group # {}
  <2>1. symPart' = Append(symPart, cl) /\ nonSym' = nonSym
    BY <1>1, <1>4
  <2> HIDE DEF cl
  <2>2. PICK top : /\ top \notin DOMAIN symPart
                   /\ DOMAIN symPart' = DOMAIN symPart \cup {top}
                   /\ \A n \in DOMAIN symPart : symPart'[n] = symPart[n]
                   /\ symPart'[top] = cl
    BY <1>2, <2>1, AppendedCluster
  <2>3. symPart'[top].ins = group \cup {pi1}
    BY <2>2 DEF cl
  <2>4. \A x \in f.ins : \/ x \in unviewed' \/ x \in group' \/ x \in nonSym'
                         \/ \E n \in DOMAIN symPart' : x \in symPart'[n].ins
    BY <1>1, <2>1, <2>2, <2>3 DEF Placed
  <2>5. \A n \in DOMAIN symPart' :
           symPart'[n].ins \cap (unviewed' \cup group' \cup nonSym') = {}
    BY <1>1, <2>1, <2>2, <2>3 DEF Placed
  <2>6. \A m, n \in DOMAIN symPart' : m # n => symPart'[m].ins \cap symPart'[n].ins = {}
    BY <1>1, <2>2, <2>3 DEF Placed
  <2> QED
    BY <1>1, <2>1, <2>4, <2>5, <2>6 DEF Placed
<1> QED
  BY <1>3, <1>4

\* No step of the command loses an input or takes it twice.
LEMMA NextPlaced ==
    ASSUME Base, PlacedSoFar, [Next]_vars
    PROVE  PlacedSoFar'
<1>1. f' = f
  BY ConeKept
<1>2. CASE UNCHANGED <<unviewed, group, nonSym, symPart>> /\ (call' = call \/ SimulateReturn)
  BY <1>1, <1>2 DEF PlacedSoFar, Placed, SimulateReturn
<1>3. CASE SimulateIteration \/ SimulateConfirm \/ SimulateReturn \/ SymSkip
           \/ SymSkipPartner \/ SymIteration \/ Done \/ UNCHANGED vars
  <2>1. UNCHANGED <<unviewed, group, nonSym, symPart>>
    BY <1>3 DEF SimulateIteration, SimulateConfirm, SimulateReturn, SymSkip,
                SymSkipPartner, SymIteration, Done, vars, symVars
  <2>2. call' = call \/ SimulateReturn
    BY <1>3 DEF SimulateIteration, SimulateConfirm, SymSkip,
                SymSkipPartner, SymIteration, Done, vars
  <2> QED
    BY <1>2, <2>1, <2>2
<1>4. CASE SymConfirm
  <2>1. call = "simulateSym" /\ pi2 \in unviewed /\ UNCHANGED <<nonSym, symPart>>
    BY <1>4 DEF SymConfirm, AtPair, InSym
  <2>2. \/ group' = group \cup {pi2} /\ unviewed' = unviewed \ {pi2}
        \/ UNCHANGED <<group, unviewed>>
    BY <1>4 DEF SymConfirm
  <2>3. Placed
    BY <2>1 DEF PlacedSoFar
  <2>4. CASE UNCHANGED <<group, unviewed>>
    BY <1>1, <2>1, <2>3, <2>4 DEF PlacedSoFar, Placed
  <2>5. CASE group' = group \cup {pi2} /\ unviewed' = unviewed \ {pi2}
    BY <1>1, <2>1, <2>3, <2>5 DEF PlacedSoFar, Placed
  <2> QED
    BY <2>2, <2>4, <2>5
<1>5. CASE SymClose
  <2>1. call = "simulateSym"
    BY <1>5 DEF SymClose, InSym
  <2> QED
    BY <1>5, <2>1, SymClosePlaced DEF PlacedSoFar
<1>6. CASE SymTooFew \/ SymReturn \/ SVIteration \/ SVNext \/ SVThrow \/ SVReturn
  <2>1. call' \notin {"simulate", "simulateSym"}
    BY <1>6 DEF SymTooFew, SymReturn, SVIteration, SVNext, SVThrow, SVReturn
  <2> QED
    BY <2>1 DEF PlacedSoFar
<1> QED
  BY <1>3, <1>4, <1>5, <1>6 DEF Next

\* Disjoint sets that cover the inputs are one place for each.
LEMMA PlacedInOnePlace ==
    ASSUME Base, Placed
    PROVE  InputsInOnePlace
<1> DEFINE clusters == [n \in DOMAIN symPart |-> symPart[n].ins]
           three == <<unviewed, group, nonSym>>
           places == three \o clusters
<1>1. symPart \in Seq(SymClusters) /\ Len(symPart) \in Nat
  BY DEF Base, TypeOK, SymClusters
<1>2. clusters \in Seq(SUBSET f.ins) /\ Len(clusters) = Len(symPart)
  <2>1. DOMAIN symPart = 1..Len(symPart)
    BY <1>1
  <2>2. \A n \in DOMAIN symPart : symPart[n] \in SymClusters
    BY <1>1
  <2>3. \A n \in DOMAIN symPart : symPart[n].ins \in SUBSET f.ins
    BY <2>2 DEF SymClusters
  <2>4. clusters \in [1..Len(symPart) -> SUBSET f.ins]
    BY <2>1, <2>3
  <2> QED
    BY <1>1, <2>4, IsASeq
<1>3. three \in Seq(SUBSET f.ins) /\ Len(three) = 3
  <2>1. unviewed \in SUBSET f.ins /\ group \in SUBSET f.ins /\ nonSym \in SUBSET f.ins
    BY DEF Base, TypeOK
  <2>2. ASSUME NEW S, NEW a \in S, NEW b \in S, NEW c \in S
        PROVE  <<a, b, c>> \in Seq(S) /\ Len(<<a, b, c>>) = 3
    OBVIOUS
  <2> QED
    BY <2>1, <2>2
<1> HIDE DEF clusters, three, places
<1>4. /\ places \in Seq(SUBSET f.ins)
      /\ Len(places) = 3 + Len(symPart)
      /\ \A n \in 1..(3 + Len(symPart)) :
            places[n] = IF n <= 3 THEN three[n] ELSE clusters[n - 3]
  <2> DEFINE T == SUBSET f.ins
  <2> HIDE DEF T
  <2>1. three \in Seq(T) /\ clusters \in Seq(T)
    BY <1>2, <1>3 DEF T
  <2>2. three \o clusters \in Seq(T)
    BY <2>1, ConcatProperties
  <2>3. Len(three \o clusters) = Len(three) + Len(clusters)
    BY <2>1, ConcatProperties, Zenon
  <2>4. \A n \in 1..(Len(three) + Len(clusters)) :
           (three \o clusters)[n] = IF n <= Len(three) THEN three[n]
                                    ELSE clusters[n - Len(three)]
    BY <2>1, ConcatProperties, Zenon
  <2>5. Len(three) = 3 /\ Len(clusters) = Len(symPart)
    BY <1>2, <1>3
  <2>6. three \o clusters \in Seq(SUBSET f.ins)
    BY <2>2 DEF T
  <2>7. places = three \o clusters
    BY DEF places
  <2>8. Len(places) = 3 + Len(symPart)
    BY <2>3, <2>5, <2>7, Zenon
  <2>9. \A n \in 1..(3 + Len(symPart)) :
           places[n] = IF n <= 3 THEN three[n] ELSE clusters[n - 3]
    BY <2>4, <2>5, <2>7, Zenon
  <2> QED
    BY <2>6, <2>7, <2>8, <2>9, Zenon
<1>5. DOMAIN places = 1..(3 + Len(symPart)) /\ DOMAIN symPart = 1..Len(symPart)
  <2>1. ASSUME NEW S, NEW s \in Seq(S)
        PROVE  DOMAIN s = 1..Len(s)
    OBVIOUS
  <2>2. DOMAIN places = 1..Len(places)
    BY <1>4, <2>1, Zenon
  <2>3. DOMAIN symPart = 1..Len(symPart)
    BY <1>1, <2>1, Zenon
  <2> QED
    BY <1>4, <2>2, <2>3, Zenon
<1>6. 1 \in DOMAIN places /\ 2 \in DOMAIN places /\ 3 \in DOMAIN places
  BY <1>1, <1>5
<1>7. places[1] = unviewed /\ places[2] = group /\ places[3] = nonSym
  <2>1. places[1] = three[1] /\ places[2] = three[2] /\ places[3] = three[3]
    BY <1>4, <1>5, <1>6
  <2> QED
    BY <2>1 DEF three
<1>8. ASSUME NEW n \in DOMAIN symPart
      PROVE  3 + n \in DOMAIN places /\ places[3 + n] = symPart[n].ins
  <2>1. 3 + n \in 1..(3 + Len(symPart)) /\ ~(3 + n <= 3) /\ 3 + n - 3 = n
    BY <1>1, <1>5
  <2>2. places[3 + n] = clusters[n]
    BY <1>4, <2>1
  <2> QED
    BY <1>5, <2>1, <2>2 DEF clusters
<1>9. ASSUME NEW n \in DOMAIN places
      PROVE  n \in {1, 2, 3} \/ \E m \in DOMAIN symPart : n = 3 + m
  <2>1. n \in {1, 2, 3} \/ (n - 3 \in DOMAIN symPart /\ n = 3 + (n - 3))
    BY <1>1, <1>5
  <2> QED
    BY <2>1
<1>10. ASSUME NEW x \in f.ins
       PROVE  Cardinality({n \in DOMAIN places : x \in places[n]}) = 1
  <2>1. PICK n \in DOMAIN places : x \in places[n]
    BY <1>6, <1>7, <1>8 DEF Placed
  <2>2. ASSUME NEW m \in DOMAIN places, x \in places[m]
        PROVE  m = n
    BY <1>7, <1>8, <1>9, <2>1, <2>2 DEF Placed
  <2>3. {m \in DOMAIN places : x \in places[m]} = {n}
    BY <2>1, <2>2
  <2> QED
    BY <2>3, FS_Singleton
<1> QED
  BY <1>10 DEF InputsInOnePlace, places, three, clusters

\* simulateSym leaves no input out and puts none in two classes, for every cone
\* and order, also when the checker fails (simulator.cpp:61-112).
THEOREM InputsStayInOnePlace == Spec => []InputsInOnePlace
<1>1. Init => PlacedSoFar
  BY DEF Init, PlacedSoFar, Placed
<1>2. Base /\ PlacedSoFar /\ [Next]_vars => PlacedSoFar'
  BY NextPlaced
<1>3. Base /\ PlacedSoFar => InputsInOnePlace
  BY PlacedInOnePlace DEF PlacedSoFar, InputsInOnePlace
<1> QED
  BY <1>1, <1>2, <1>3, BaseHolds, PTL DEF Spec

===============================================================================
