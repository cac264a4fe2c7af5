-------------------------------- MODULE Signing --------------------------------
(***************************************************************************)
(* The supports of the outputs of a circuit and the confirmations on a     *)
(* cone, in the order in which SignData uses a circuit: its supports are   *)
(* computed, and then its properties confirmed, again and again.           *)
(***************************************************************************)
EXTENDS Confirmation, Support

CONSTANT WholeDesigns   \* of circuits of which only the supports are asked

ASSUME WholeDesignsAssumption == \A design \in WholeDesigns : IsDesign(design)
ASSUME SubjectIsCir == subject = cir

\* A cone, or a whole circuit, which may have several outputs.
CircuitInit ==
    \/ ConfirmInit
    \/ /\ \E design \in WholeDesigns :
              LET only(x) == [s \in Slots |-> IF s = cir THEN x ELSE NoCircuit]
              IN  circuit = only(Construct(design)) /\ fun = only(FunctionsOf(Construct(design)))
       /\ call = <<"parse_verilog">>
       /\ job = <<>> /\ step = 0 /\ verdict = "unknown"

SignInit == CircuitInit /\ SupportInit

allVars == <<confirmVars, cache, frames, result>>

\* The program is sequential: a call of getOutputSupport goes on until it returns.
Supports == job = <<>> /\ SupportNext /\ UNCHANGED <<job, step, verdict>>

Confirms ==
    /\ SupportReported /\ Cardinality(circuit[cir].outputs) = 1
    /\ ConfirmNext
    /\ UNCHANGED <<cache, frames, result>>

SignSpec ==
    /\ SignInit
    /\ [][Supports \/ Confirms]_allVars
    /\ WF_allVars(SupportStep /\ UNCHANGED <<job, step, verdict>>)

===============================================================================
