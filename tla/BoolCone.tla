------------------------------- MODULE BoolCone -------------------------------
(***************************************************************************)
(* A cone is the one-output circuit that Circuit::getCone extracts.  The   *)
(* matcher and the simulator use it only through evalOutput and through    *)
(* the cofactors and miters built from it, so its data is the Boolean      *)
(* function it computes: `ins' is the set of its inputs, `on' the set of   *)
(* input vectors that make its output true.  A vector is the set of inputs *)
(* that are true in it.  Input names are ordered (std::set<std::string>),  *)
(* and they are represented by their rank in that order.                   *)
(***************************************************************************)
EXTENDS Integers, FiniteSets, Functions

\* The enumerations of simulator.h, with the order of their declaration,
\* which is the order operator< and std::map<Unateness, ...> use.
Binate == 0
PosUnate == 1
NegUnate == 2
UnknownUnateness == 3
NoSymmetry == 0
NESymmetry == 1
UnknownSymmetry == 4

IsCone(f, names) ==
    /\ f \in [ins : SUBSET names, on : SUBSET (SUBSET names)]
    /\ f.on \subseteq SUBSET f.ins

EvalOutput(f, vec) == vec \in f.on

\* in_vec_flip.at(pi) = !in_vec_flip.at(pi)
Flip(vec, x) == IF x \in vec THEN vec \ {x} ELSE vec \cup {x}

\* The cofactor of f: input x replaced by a constant.
StuckInput(f, x, value) ==
    IF x \notin f.ins THEN f
    ELSE [ins |-> f.ins \ {x},
          on  |-> {vec \in SUBSET (f.ins \ {x}) :
                       EvalOutput(f, IF value THEN vec \cup {x} ELSE vec)}]

InvertOutput(f) == [f EXCEPT !.on = (SUBSET f.ins) \ f.on]

\* The miters of two cones, over the union of their inputs, and the question
\* `sat' answers about a miter: can its output be true?
MiterInputs(f, g) == f.ins \cup g.ins
MiterAnd(f, g) ==
    [ins |-> MiterInputs(f, g),
     on  |-> {vec \in SUBSET MiterInputs(f, g) :
                 EvalOutput(f, vec \cap f.ins) /\ EvalOutput(g, vec \cap g.ins)}]
MiterXor(f, g) ==
    [ins |-> MiterInputs(f, g),
     on  |-> {vec \in SUBSET MiterInputs(f, g) :
                 EvalOutput(f, vec \cap f.ins) # EvalOutput(g, vec \cap g.ins)}]
Unsatisfiable(f) == f.on = {}

-------------------------------------------------------------------------------
(***************************************************************************)
(* Reference definitions: what unateness and symmetry mean, independently  *)
(* of how the simulator finds them.                                        *)
(***************************************************************************)
PosUnateIn(f, x) ==
    \A vec \in SUBSET (f.ins \ {x}) :
        EvalOutput(f, vec) => EvalOutput(f, vec \cup {x})

NegUnateIn(f, x) ==
    \A vec \in SUBSET (f.ins \ {x}) :
        EvalOutput(f, vec \cup {x}) => EvalOutput(f, vec)

\* Exchanging x and y never changes the output.
Exchangeable(f, x, y) ==
    \A vec \in SUBSET (f.ins \ {x, y}) :
        EvalOutput(f, vec \cup {x}) <=> EvalOutput(f, vec \cup {y})

SymmetryClass(f, x) == {y \in f.ins : y = x \/ Exchangeable(f, x, y)}

-------------------------------------------------------------------------------
(***************************************************************************)
(* Two cones are equivalent under a bijection r of their inputs when r     *)
(* maps the true vectors of one to the true vectors of the other.          *)
(***************************************************************************)
Image(r, S) == {r[x] : x \in S}

EquivalentUnder(f, g, r) == {Image(r, vec) : vec \in f.on} = g.on

InputMatches(f, g) ==
    {r \in Bijection(f.ins, g.ins) : EquivalentUnder(f, g, r)}

===============================================================================
