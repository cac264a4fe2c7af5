----------------------------- MODULE Confirmation ------------------------------
(***************************************************************************)
(* The confirmations of simulator.cpp on a netlist.  For each property     *)
(* that simulation has left, confirmProperties and confirmSymmetries copy  *)
(* the cone twice, set inputs of the copies to constants, invert an        *)
(* output, make a miter of the two, and ask the checker whether it can be  *)
(* true.  Module Simulator has the question as an expression over          *)
(* functions; here it is computed by the operations of Netlist, on the     *)
(* same cone, one confirmation after the other.                            *)
(***************************************************************************)
EXTENDS Netlist

CONSTANT Kinds   \* the kinds of properties that are confirmed

VARIABLES job,      \* the property under confirmation, or <<>>
          step,     \* how many calls of its script have been made
          verdict   \* what checkMiter said of it, or "unknown"

confirmVars == <<vars, job, step, verdict>>

cir == "cir"
cofactor1 == "cofactor1"
cofactor2 == "cofactor2"
miter == "miter"

ASSUME SlotsAssumption == Slots = {cir, cofactor1, cofactor2, miter}
ASSUME KindsAssumption ==
    Kinds \subseteq {"PosUnate", "NegUnate", "NESymmetry", "ESymmetry", "SVSymmetry"}

\* A property of one input, or of two, or of one input when another has a value.
Jobs ==
    LET inputs == circuit[cir].inputs
    IN  ((Kinds \cap {"PosUnate", "NegUnate"}) \X inputs) \cup
        {j \in (Kinds \cap {"NESymmetry", "ESymmetry"}) \X inputs \X inputs : j[2] # j[3]} \cup
        {j \in (Kinds \cap {"SVSymmetry"}) \X inputs \X inputs \X BOOLEAN : j[2] # j[3]}

\* Mutant: the other cofactor is inverted.
WrongInverted(j) ==
    CASE j[1] = "PosUnate" ->
            <<<<"copy", cofactor1>>, <<"stuck", cofactor1, j[2], FALSE>>,
              <<"invert", cofactor1>>,
              <<"copy", cofactor2>>, <<"stuck", cofactor2, j[2], TRUE>>,
              <<"miter", "AND">>>>
      [] OTHER ->
            <<<<"copy", cofactor1>>, <<"stuck", cofactor1, j[2], FALSE>>,
              <<"copy", cofactor2>>, <<"stuck", cofactor2, j[2], TRUE>>,
              <<"miter", "AND">>>>

\* The calls of each case, in their order.
Script(j) ==
    CASE j[1] = "PosUnate" ->
            <<<<"copy", cofactor1>>, <<"stuck", cofactor1, j[2], FALSE>>,
              <<"copy", cofactor2>>, <<"stuck", cofactor2, j[2], TRUE>>,
              <<"invert", cofactor2>>,
              <<"miter", "AND">>>>
      [] j[1] = "NegUnate" ->
            <<<<"copy", cofactor1>>, <<"stuck", cofactor1, j[2], FALSE>>,
              <<"invert", cofactor1>>,
              <<"copy", cofactor2>>, <<"stuck", cofactor2, j[2], TRUE>>,
              <<"miter", "AND">>>>
      [] j[1] = "NESymmetry" ->
            <<<<"copy", cofactor1>>, <<"stuck", cofactor1, j[2], FALSE>>,
              <<"stuck", cofactor1, j[3], TRUE>>,
              <<"copy", cofactor2>>, <<"stuck", cofactor2, j[2], TRUE>>,
              <<"stuck", cofactor2, j[3], FALSE>>,
              <<"miter", "XOR">>>>
      [] j[1] = "ESymmetry" ->
            <<<<"copy", cofactor1>>, <<"stuck", cofactor1, j[2], FALSE>>,
              <<"stuck", cofactor1, j[3], FALSE>>, <<"invert", cofactor1>>,
              <<"copy", cofactor2>>, <<"stuck", cofactor2, j[2], TRUE>>,
              <<"stuck", cofactor2, j[3], TRUE>>,
              <<"miter", "XOR">>>>
      [] j[1] = "SVSymmetry" ->
            <<<<"copy", cofactor1>>, <<"stuck", cofactor1, j[2], TRUE>>,
              <<"stuck", cofactor1, j[3], j[4]>>,
              <<"copy", cofactor2>>, <<"stuck", cofactor2, j[2], FALSE>>,
              <<"stuck", cofactor2, j[3], j[4]>>,
              <<"miter", "XOR">>>>

\* The cone is made by getCone, like the cone of the command `sim'.
ConfirmInit ==
    /\ \E design \in Designs : \E po \in NetsOf(design.types, "output") :
           LET only(x) == [s \in Slots |-> IF s = cir THEN x ELSE NoCircuit]
               cone == ConeOf(Construct(design), po)
           IN  circuit = only(cone) /\ fun = only(FunctionsOf(cone))
    /\ call = <<"getCone">>
    /\ job = <<>>
    /\ step = 0
    /\ verdict = "unknown"

Begin ==
    /\ job = <<>>
    /\ job' \in Jobs
    /\ UNCHANGED <<vars, step, verdict>>

\* The next call of the script is of this kind.
IsNext(kind) ==
    /\ job # <<>>
    /\ step < Len(Script(job))
    /\ Script(job)[step + 1][1] = kind
    /\ step' = step + 1
    /\ UNCHANGED <<job, verdict>>

Argument(k) == Script(job)[step + 1][k]

CopyCone == IsNext("copy") /\ Copy(cir, Argument(2))

StuckCofactor == IsNext("stuck") /\ StuckInputOf(Argument(2), Argument(3), Argument(4))

\* po is an output of the cone; the copy still has it.
InvertCofactor ==
    IsNext("invert") /\ \E po \in circuit[cir].outputs : InvertOutputOf(Argument(2), po)

MakeMiter == IsNext("miter") /\ GetMiter(cofactor1, cofactor2, Argument(2), miter)

\* checkMiter prints the miter, and the checker reads its gates by their names.
\* print writes a gate of function CUT as `_cut', because it is not asked for
\* what ABC can read (abc_valid): ABC takes it for a module it does not know,
\* whose output can be anything.
Verdicts(m) ==
    IF \E n \in Gates(m) : m.node[n].function = "CUT" THEN {"sat", "unsat"}
    ELSE {IF FunctionsOf(CopyOf(m)).outs[po] = {} THEN "unsat" ELSE "sat" : po \in m.outputs}

Check ==
    /\ job # <<>> /\ step = Len(Script(job)) /\ verdict = "unknown"
    /\ verdict' \in Verdicts(circuit[miter])
    /\ UNCHANGED <<vars, job, step>>

DeleteOne ==
    /\ verdict # "unknown"
    /\ \E s \in Held \ {cir} : Delete(s)
    /\ UNCHANGED <<job, step, verdict>>

End ==
    /\ verdict # "unknown" /\ Held = {cir}
    /\ job' = <<>> /\ step' = 0 /\ verdict' = "unknown"
    /\ UNCHANGED vars

ConfirmNext ==
    \/ Begin \/ CopyCone \/ StuckCofactor \/ InvertCofactor \/ MakeMiter \/ Check
    \/ DeleteOne \/ End

-------------------------------------------------------------------------------
\* What a verdict is about, as checkRemoval (simulator.cpp:197-241) reads it.
Holds(cone, j) ==
    CASE j[1] = "PosUnate" -> PosUnateIn(cone, j[2])
      [] j[1] = "NegUnate" -> NegUnateIn(cone, j[2])
      [] j[1] = "NESymmetry" -> Exchangeable(cone, j[2], j[3])
      [] j[1] = "ESymmetry" ->
            \A vec \in SUBSET (cone.ins \ {j[2], j[3]}) :
                EvalOutput(cone, vec) <=> EvalOutput(cone, vec \cup {j[2], j[3]})
      [] j[1] = "SVSymmetry" ->
            LET fixed == StuckInput(cone, j[3], j[4])
            IN  PosUnateIn(fixed, j[2]) /\ NegUnateIn(fixed, j[2])

\* The chain of copies, cofactors, inversion, miter, printing and reading gives
\* the answer that the definitions of unateness and symmetry give for the cone,
\* also when other properties were confirmed on the same cone before.
VerdictRight ==
    verdict # "unknown" =>
        \E po \in circuit[cir].outputs :
            LET cone == [ins |-> fun[cir].ins, on |-> fun[cir].outs[po]]
            IN  verdict = "unsat" <=> Holds(cone, job)

===============================================================================
