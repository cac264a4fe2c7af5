-------------------------------- MODULE Support --------------------------------
(***************************************************************************)
(* support_calculator.cpp: the inputs that each output of a circuit can    *)
(* depend on.  getSupport walks over the names the driver of a net reads   *)
(* and calls itself for the nets between; the cache it answers from has an *)
(* entry for a net from the moment the walk over its driver begins, empty  *)
(* first, and filled input by input while the calls are under way.         *)
(***************************************************************************)
EXTENDS Netlist

CONSTANT subject     \* the slot of cir, the circuit

VARIABLES cache,     \* supportCache
          frames,    \* the calls of getSupport under way, the innermost last
          result     \* result of getOutputSupport

ASSUME SubjectAssumption == subject \in Slots

outputs == circuit[subject].outputs
Frame(o) ==
    [net |-> o, rest |-> circuit[subject].node[NetInput(circuit[subject].nets, o)].inNames]

Top == Last(frames)
NextInput == Head(Top.rest)          \* the input name the innermost call is at
TypeAt(i) == IF i \in {Constant0, Constant1} THEN "constant" ELSE circuit[subject].nets[i].type
StepOver == [frames EXCEPT ![Len(frames)].rest = Tail(@)]

SupportInit ==
    /\ cache = <<>>
    /\ frames = <<>>
    /\ result = <<>>

\* supportCache[o] = IOSet(), and the call goes on with the inputs of o.
Enter(o) ==
    /\ cache' = [n \in DOMAIN cache \cup {o} |-> IF n = o THEN {} ELSE cache[n]]
    /\ frames' = Append(frames, Frame(o))

\* result[po] = supportCache[po]
Report(po) == result' = [o \in DOMAIN result \cup {po} |-> IF o = po THEN cache[o] ELSE result[o]]

\* Mutant: an output that another output reads gets no entry in the result.
NextUncachedOutput ==
    /\ frames = <<>>
    /\ \E po \in outputs \ DOMAIN result :
           IF po \in DOMAIN cache THEN UNCHANGED <<cache, frames>> ELSE Enter(po)
    /\ UNCHANGED <<vars, result>>

\* getOutputSupport at its next output, which an earlier one may have cached.
NextOutput ==
    /\ frames = <<>>
    /\ \E po \in outputs \ DOMAIN result :
           IF po \in DOMAIN cache
           THEN Report(po) /\ UNCHANGED <<cache, frames>>
           ELSE Enter(po) /\ UNCHANGED result
    /\ UNCHANGED vars

AtInput(types) == frames # <<>> /\ Top.rest # <<>> /\ TypeAt(NextInput) \in types

TakeInput ==
    /\ AtInput({"input"})
    /\ cache' = [cache EXCEPT ![Top.net] = @ \cup {NextInput}]
    /\ frames' = StepOver
    /\ UNCHANGED <<vars, result>>

SkipConstant ==
    /\ AtInput({"constant"})
    /\ frames' = StepOver
    /\ UNCHANGED <<vars, cache, result>>

\* A call for a net between.  When it returns, the net is in the cache.
Descend ==
    /\ AtInput({"default", "output"})
    /\ NextInput \notin DOMAIN cache
    /\ Enter(NextInput)
    /\ UNCHANGED <<vars, result>>

\* Mutant: the set that was cached is taken for empty.
AddNothing ==
    /\ AtInput({"default", "output"})
    /\ NextInput \in DOMAIN cache
    /\ frames' = StepOver
    /\ UNCHANGED <<vars, cache, result>>

AddSupport ==
    /\ AtInput({"default", "output"})
    /\ NextInput \in DOMAIN cache
    /\ cache' = [cache EXCEPT ![Top.net] = @ \cup cache[NextInput]]
    /\ frames' = StepOver
    /\ UNCHANGED <<vars, result>>

Return ==
    /\ frames # <<>>
    /\ Top.rest = <<>>
    /\ frames' = Front(frames)
    /\ IF Len(frames) > 1 THEN UNCHANGED result ELSE Report(Top.net)
    /\ UNCHANGED <<vars, cache>>

SupportStep == NextOutput \/ TakeInput \/ SkipConstant \/ Descend \/ AddSupport \/ Return

SupportReported == frames = <<>> /\ DOMAIN result = outputs

\* getOutputSupport is called again: the cache is cleared.
CallAgain ==
    /\ SupportReported
    /\ cache' = <<>>
    /\ result' = <<>>
    /\ UNCHANGED <<vars, frames>>

SupportNext == SupportStep \/ CallAgain

-------------------------------------------------------------------------------
\* The support that is reported for an output is the set of inputs of the cone
\* that getCone makes of it: SignData compares supports, Matcher cones.
SupportIsOfCone ==
    \A po \in DOMAIN result : result[po] = ConeOf(circuit[subject], po).inputs

\* getOutputSupport returns whenever it is called, with a support for each output.
SupportTerminates == []<>SupportReported

===============================================================================
