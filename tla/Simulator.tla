------------------------------- MODULE Simulator -------------------------------
(***************************************************************************)
(* The simulator of simulator.cpp on one cone, as the command `sim' of     *)
(* main.cpp drives it: simulate, then simulateSym, then simulateSVSym.     *)
(* Each starts from every property its inputs could have, removes the ones *)
(* that a pair of random vectors refutes, and the first two then ask the   *)
(* equivalence checker about the properties that are left.                 *)
(***************************************************************************)
EXTENDS BoolCone, Sequences

CONSTANTS Names,        \* the ranks of the input names
          Cones,        \* the cones to simulate
          Orders,       \* the orders of their inputs: getInputs()
          MaxIter,      \* max_iterations
          CheckerFails  \* may checkMiter end on one of its error returns?

ASSUME NamesAssumption == Names \subseteq Nat /\ IsFiniteSet(Names)
ASSUME MaxIterAssumption == MaxIter \in Nat
ASSUME ConesAssumption == \A f \in Cones : IsCone(f, Names)
ASSUME OrdersAssumption ==
    \A o \in Orders : o \in Seq(Names) /\ \A m, n \in DOMAIN o : o[m] = o[n] => m = n
ASSUME CheckerAssumption == CheckerFails \in BOOLEAN

VARIABLES f,         \* the cone
          inputs,    \* cir->getInputs()
          call,      \* the call that is running: simulate, simulateSym, ...
          i, j,      \* the inputs it is at, by their index
          it,        \* the iteration it is at
          props,     \* input_properties; an input not visited yet has both
          symSet,    \* sym_set, of the pair (i, j)
          group,     \* sym_group, of input i
          unviewed,  \* unviewed_inputs
          nonSym,    \* non_sym_inputs
          symPart,   \* sym_partition
          sv         \* sv_symmetries; an input not visited yet has them all

symVars == <<symSet, group, unviewed, nonSym, symPart>>
vars == <<f, inputs, call, i, j, it, props, symVars, sv>>

pi1 == inputs[i]
pi2 == inputs[j]

-------------------------------------------------------------------------------
(***************************************************************************)
(* checkRemoval, for vectors that differ exactly in the inputs under test. *)
(***************************************************************************)
\* Mutant: out_value1 is not looked at.
RefutedEither(x, vec) ==
    IF EvalOutput(f, vec) = EvalOutput(f, Flip(vec, x)) THEN {}
    ELSE IF x \in vec THEN {NegUnate} ELSE {PosUnate}

\* Unateness: the output is true where the input is false, or conversely.
Refuted(x, vec) ==
    LET out1 == EvalOutput(f, vec)
        out2 == EvalOutput(f, Flip(vec, x))
    IN  IF out1 = out2 \/ ~out1 THEN {}
        ELSE IF x \in vec THEN {NegUnate} ELSE {PosUnate}

\* Symmetry of x and y; only NESymmetry is ever asked about.
SymRefuted(x, y, vec) ==
    LET out1 == EvalOutput(f, vec)
        out2 == EvalOutput(f, Flip(Flip(vec, x), y))
    IN  IF out1 # out2 /\ x \in vec /\ y \notin vec THEN {NESymmetry} ELSE {}

\* Mutant: the pairs <<y, b>> such that the vectors agree on y # b.
SVRefutedOpposite(x, vec) ==
    IF EvalOutput(f, vec) = EvalOutput(f, Flip(vec, x)) THEN {}
    ELSE {<<y, y \notin vec>> : y \in f.ins \ {x}}

\* Single-variable symmetry of x: the pairs <<y, b>> such that the vectors
\* agree on y = b.
SVRefuted(x, vec) ==
    IF EvalOutput(f, vec) = EvalOutput(f, Flip(vec, x)) THEN {}
    ELSE {<<y, y \in vec>> : y \in f.ins \ {x}}

-------------------------------------------------------------------------------
(***************************************************************************)
(* The questions to the checker.                                           *)
(***************************************************************************)
\* bool checkMiter(Circuit *): the verdict, or the error value -1 of
\* int checkMiter(const char *), which the conversion to bool makes true.
CheckMiter(miter) == {Unsatisfiable(miter)} \cup (IF CheckerFails THEN {TRUE} ELSE {})

PosMiter(x) == MiterAnd(StuckInput(f, x, FALSE),
                        InvertOutput(StuckInput(f, x, TRUE)))

\* Mutants: the wrong cofactor is inverted; both cofactors are the same.
NegMiterOfPos(x) == PosMiter(x)
SymMiterOfOne(x, y) == MiterXor(StuckInput(StuckInput(f, x, TRUE), y, FALSE),
                                StuckInput(StuckInput(f, x, TRUE), y, FALSE))

NegMiter(x) == MiterAnd(InvertOutput(StuckInput(f, x, FALSE)),
                        StuckInput(f, x, TRUE))
SymMiter(x, y) == MiterXor(StuckInput(StuckInput(f, x, FALSE), y, TRUE),
                           StuckInput(StuckInput(f, x, TRUE), y, FALSE))

\* What confirmProperties may leave of a set of properties of x.
Confirmed(x, P) ==
    {{p \in P : IF p = PosUnate THEN pos ELSE neg} :
        pos \in CheckMiter(PosMiter(x)), neg \in CheckMiter(NegMiter(x))}

\* What confirmSymmetries may leave of sym_set.
SymConfirmed(x, y, P) == {IF yes THEN P ELSE {} : yes \in CheckMiter(SymMiter(x, y))}

-------------------------------------------------------------------------------
Init ==
    /\ f \in Cones
    /\ inputs \in {o \in Orders : {o[n] : n \in DOMAIN o} = f.ins}
    /\ call = "simulate"
    /\ i = 1
    /\ j = 2
    /\ it = 0
    /\ props = [x \in f.ins |-> {PosUnate, NegUnate}]
    /\ symSet = {NESymmetry}
    /\ group = {}
    /\ unviewed = f.ins
    /\ nonSym = {}
    /\ symPart = <<>>
    /\ sv = [x \in f.ins |-> (f.ins \ {x}) \X BOOLEAN]

\* Mutant: it <= max_iterations.
SimulateIterationOnceMore ==
    /\ call = "simulate"
    /\ i <= Len(inputs)
    /\ it <= MaxIter
    /\ \E vec \in SUBSET f.ins :
          props' = [props EXCEPT ![pi1] = @ \ Refuted(pi1, vec)]
    /\ it' = it + 1
    /\ UNCHANGED <<f, inputs, call, i, j, symVars, sv>>

\* One iteration for input pi1.  The break is on the map, not on the set of
\* properties, and the map is never empty: every iteration is made.
SimulateIteration ==
    /\ call = "simulate"
    /\ i <= Len(inputs)
    /\ it < MaxIter
    /\ \E vec \in SUBSET f.ins :
          props' = [props EXCEPT ![pi1] = @ \ Refuted(pi1, vec)]
    /\ it' = it + 1
    /\ UNCHANGED <<f, inputs, call, i, j, symVars, sv>>

SimulateConfirm ==
    /\ call = "simulate"
    /\ i <= Len(inputs)
    /\ it >= MaxIter
    /\ \E left \in Confirmed(pi1, props[pi1]) :
          props' = [props EXCEPT ![pi1] = IF left = {} THEN {Binate} ELSE left]
    /\ i' = i + 1
    /\ it' = 0
    /\ UNCHANGED <<f, inputs, call, j, symVars, sv>>

SimulateReturn ==
    /\ call = "simulate"
    /\ i > Len(inputs)
    /\ call' = "simulateSym"
    /\ i' = 1
    /\ j' = 2
    /\ UNCHANGED <<f, inputs, it, props, symVars, sv>>

-------------------------------------------------------------------------------
(***************************************************************************)
(* simulateSym                                                             *)
(***************************************************************************)
InSym == call = "simulateSym" /\ Len(inputs) >= 2

\* With fewer than two inputs there is nothing to compare.
SymTooFew ==
    /\ call = "simulateSym"
    /\ Len(inputs) < 2
    /\ symPart' = <<[sym |-> NoSymmetry, ins |-> f.ins]>>
    /\ call' = "simulateSVSym"
    /\ UNCHANGED <<f, inputs, i, j, it, props, symSet, group, unviewed, nonSym, sv>>

SymSkip ==
    /\ InSym
    /\ i <= Len(inputs)
    /\ pi1 \notin unviewed
    /\ i' = i + 1
    /\ j' = i + 2
    /\ UNCHANGED <<f, inputs, call, it, props, symVars, sv>>

SymSkipPartner ==
    /\ InSym
    /\ i <= Len(inputs)
    /\ pi1 \in unviewed
    /\ j <= Len(inputs)
    /\ pi2 \notin unviewed
    /\ j' = j + 1
    /\ UNCHANGED <<f, inputs, call, i, it, props, symVars, sv>>

AtPair ==
    /\ InSym
    /\ i <= Len(inputs)
    /\ pi1 \in unviewed
    /\ j <= Len(inputs)
    /\ pi2 \in unviewed

SymIteration ==
    /\ AtPair
    /\ it < MaxIter
    /\ symSet # {}
    /\ \E vec \in SUBSET f.ins :
          symSet' = symSet \ SymRefuted(pi1, pi2, vec)
    /\ it' = it + 1
    /\ UNCHANGED <<f, inputs, call, i, j, props, group, unviewed, nonSym, symPart, sv>>

\* Mutant: unviewed_inputs.erase(pi2) is forgotten.
SymConfirmUnerased ==
    /\ AtPair
    /\ it >= MaxIter \/ symSet = {}
    /\ \E left \in SymConfirmed(pi1, pi2, symSet) :
          group' = IF left # {} THEN group \cup {pi2} ELSE group
    /\ symSet' = {NESymmetry}
    /\ j' = j + 1
    /\ it' = 0
    /\ UNCHANGED <<f, inputs, call, i, props, unviewed, nonSym, symPart, sv>>

SymConfirm ==
    /\ AtPair
    /\ it >= MaxIter \/ symSet = {}
    /\ \E left \in SymConfirmed(pi1, pi2, symSet) :
          IF left # {}
          THEN /\ group' = group \cup {pi2}
               /\ unviewed' = unviewed \ {pi2}
          ELSE UNCHANGED <<group, unviewed>>
    /\ symSet' = {NESymmetry}
    /\ j' = j + 1
    /\ it' = 0
    /\ UNCHANGED <<f, inputs, call, i, props, nonSym, symPart, sv>>

SymClose ==
    /\ InSym
    /\ i <= Len(inputs)
    /\ pi1 \in unviewed
    /\ j > Len(inputs)
    /\ IF group # {}
       THEN /\ symPart' = Append(symPart,
                              [sym |-> NESymmetry, ins |-> group \cup {pi1}])
            /\ UNCHANGED nonSym
       ELSE /\ nonSym' = nonSym \cup {pi1}
            /\ UNCHANGED symPart
    /\ unviewed' = unviewed \ {pi1}
    /\ group' = {}
    /\ i' = i + 1
    /\ j' = i + 2
    /\ UNCHANGED <<f, inputs, call, it, props, symSet, sv>>

SymReturn ==
    /\ InSym
    /\ i > Len(inputs)
    /\ symPart' = IF nonSym = {} THEN symPart
                  ELSE Append(symPart, [sym |-> NoSymmetry, ins |-> nonSym])
    /\ call' = "simulateSVSym"
    /\ i' = 1
    /\ UNCHANGED <<f, inputs, j, it, props, symSet, group, unviewed, nonSym, sv>>

-------------------------------------------------------------------------------
(***************************************************************************)
(* simulateSVSym                                                           *)
(***************************************************************************)
SVIteration ==
    /\ call = "simulateSVSym"
    /\ i <= Len(inputs)
    /\ Len(inputs) > 1
    /\ it < MaxIter
    /\ sv[pi1] # {}
    /\ \E vec \in SUBSET f.ins :
          sv' = [sv EXCEPT ![pi1] = @ \ SVRefuted(pi1, vec)]
    /\ it' = it + 1
    /\ UNCHANGED <<f, inputs, call, i, j, props, symVars>>

SVNext ==
    /\ call = "simulateSVSym"
    /\ i <= Len(inputs)
    /\ it >= MaxIter \/ sv[pi1] = {}
    /\ Len(inputs) > 1 \/ MaxIter = 0
    /\ i' = i + 1
    /\ it' = 0
    /\ UNCHANGED <<f, inputs, call, j, props, symVars, sv>>

\* The only input has no partner, so that sv_symmetries has no entry for it,
\* and sv_symmetries.at(pi1) throws an exception that nothing catches.
SVThrow ==
    /\ call = "simulateSVSym"
    /\ i <= Len(inputs)
    /\ Len(inputs) = 1
    /\ MaxIter > 0
    /\ call' = "threw"
    /\ UNCHANGED <<f, inputs, i, j, it, props, symVars, sv>>

SVReturn ==
    /\ call = "simulateSVSym"
    /\ i > Len(inputs)
    /\ call' = "done"
    /\ UNCHANGED <<f, inputs, i, j, it, props, symVars, sv>>

Done == call \in {"done", "threw"} /\ UNCHANGED vars

Next ==
    \/ SimulateIteration \/ SimulateConfirm \/ SimulateReturn
    \/ SymTooFew \/ SymSkip \/ SymSkipPartner \/ SymIteration \/ SymConfirm
    \/ SymClose \/ SymReturn
    \/ SVIteration \/ SVNext \/ SVThrow \/ SVReturn
    \/ Done

\* The program is sequential: it goes on as long as it has a step to take.
Spec == Init /\ [][Next]_vars /\ WF_vars(Next)

-------------------------------------------------------------------------------
(***************************************************************************)
(* Properties.                                                             *)
(***************************************************************************)
TypeOK ==
    /\ IsCone(f, Names)
    /\ inputs \in Seq(f.ins)
    /\ call \in {"simulate", "simulateSym", "simulateSVSym", "done", "threw"}
    /\ i \in Nat \ {0}
    /\ j \in Nat \ {0}
    /\ it \in 0..MaxIter
    /\ props \in [f.ins -> SUBSET {Binate, PosUnate, NegUnate}]
    /\ symSet \subseteq {NESymmetry}
    /\ group \subseteq f.ins
    /\ unviewed \subseteq f.ins
    /\ nonSym \subseteq f.ins
    /\ symPart \in Seq([sym : {NoSymmetry, NESymmetry}, ins : SUBSET f.ins])
    /\ sv \in [f.ins -> SUBSET (f.ins \X BOOLEAN)]

\* The unateness properties x has by their definition.
TrueProperties(x) ==
    {p \in {PosUnate, NegUnate} :
        IF p = PosUnate THEN PosUnateIn(f, x) ELSE NegUnateIn(f, x)}

\* Random simulation refutes only what is false, so no property an input has
\* is lost, at any moment and whatever the checker answers.
NoPropertyLost == \A x \in f.ins : TrueProperties(x) \subseteq props[x]

\* When simulate has returned, an input is reported with exactly the unateness
\* it has, and as binate when it has none, although only some vectors were
\* tried: the miters of confirmProperties decide the rest.
UnatenessExact ==
    call # "simulate" =>
        \A x \in f.ins :
            props[x] = IF TrueProperties(x) = {} THEN {Binate}
                       ELSE TrueProperties(x)

\* An input that is reported as unate is unate in that direction.
UnateIsConfirmed ==
    call # "simulate" =>
        \A x \in f.ins : props[x] \ {Binate} \subseteq TrueProperties(x)

\* simulateSym compares an input only with the ones no earlier input took, and
\* still reports the classes of exchangeable inputs: one cluster per class of
\* two inputs or more, one for all the others.
SymmetryExact ==
    call \notin {"simulate", "simulateSym"} =>
        /\ \A n \in DOMAIN symPart : \A x \in symPart[n].ins :
              IF symPart[n].sym = NESymmetry
              THEN /\ symPart[n].ins = SymmetryClass(f, x)
                   /\ Cardinality(symPart[n].ins) > 1
              ELSE SymmetryClass(f, x) = {x}
        /\ UNION {symPart[n].ins : n \in DOMAIN symPart} = f.ins

\* While simulateSym runs, every input is in exactly one place: not viewed yet,
\* in the group being built, in a finished cluster, or among the rest.
InputsInOnePlace ==
    LET places == <<unviewed, group, nonSym>> \o [n \in DOMAIN symPart |-> symPart[n].ins]
    IN  call = "simulateSym" =>
          \A x \in f.ins : Cardinality({n \in DOMAIN places : x \in places[n]}) = 1

\* A single-variable symmetry that holds (the output does not depend on x when
\* y has the value b) is never removed.  The converse is not promised: the code
\* has a confirmation for these too, which it never calls.
NoSVSymmetryLost ==
    \A x \in f.ins : \A y \in f.ins \ {x} : \A b \in BOOLEAN :
        (\A vec \in SUBSET f.ins :
            (y \in vec) = b => EvalOutput(f, vec) = EvalOutput(f, Flip(vec, x)))
        => <<y, b>> \in sv[x]

\* The command `sim' takes any output: no call ends with an exception.
NeverThrows == call # "threw"

===============================================================================
