------------------------------- MODULE SortNodes -------------------------------
(***************************************************************************)
(* The list of the gates of a Circuit as sortNodes reorders it, and the    *)
(* names under which print writes it: Circuit::sortNodes, topsort,         *)
(* renameNet, clearRenames, wire_name of circuit.cpp.  The recursion of    *)
(* topsort is a stack of the gates it is at, each with the index of the    *)
(* input it looks at next.                                                 *)
(***************************************************************************)
EXTENDS Integers, Sequences, FiniteSets

CONSTANTS Designs,   \* [ins, outs, gates]; a gate is [out, in], a NAND
          Constant0, \* CONSTANT_0
          OldNames,  \* the nets to rename
          NewNames   \* and the names to give them

\* The nets of a circuit.
NetsIn(c) == c.ins \cup {c.gates[g].out : g \in DOMAIN c.gates}

\* Gates are in order and so are their inputs, a net has one driver, every net
\* that is read or is an output has one or is an input, and no net is called
\* what the constant is written as.
ASSUME DesignsAssumption ==
    \A c \in Designs :
        /\ DOMAIN c.gates = 1..Len(c.gates) /\ Len(c.gates) \in Nat
        /\ \A g \in DOMAIN c.gates :
              /\ DOMAIN c.gates[g].in = 1..Len(c.gates[g].in) /\ Len(c.gates[g].in) \in Nat
              /\ \A n \in DOMAIN c.gates[g].in : c.gates[g].in[n] \in NetsIn(c) \cup {Constant0}
              /\ \A h \in DOMAIN c.gates : c.gates[h].out = c.gates[g].out => h = g
        /\ c.outs \subseteq NetsIn(c)
        /\ Constant0 \notin NetsIn(c)
ASSUME NewNamesAssumption == Constant0 \notin NewNames

VARIABLES net,       \* this circuit; its gates are called 1, 2, ...
          nodes,     \* the order of its gates
          sorting,   \* does sortNodes run?
          index,     \* i
          stack,     \* the calls of topsort that have not returned
          used,      \* used
          order,     \* result
          renames    \* renames

printVars == <<net, nodes, sorting, index, stack, used, order, renames>>
sortVars == <<sorting, index, stack, used, order>>

GatesOf(c) == DOMAIN c.gates
Nets == NetsIn(net)

\* node->input: the gates that drive the nets a gate reads; an input or a
\* constant has no gate.
Drivers(g, n) == {d \in GatesOf(net) : net.gates[d].out = net.gates[g].in[n]}

PrintInit ==
    /\ net \in Designs
    /\ nodes = [g \in GatesOf(net) |-> g]
    /\ sorting = FALSE
    /\ index = 1
    /\ stack = <<>>
    /\ used = {}
    /\ order = <<>>
    /\ renames = <<>>

BeginSort ==
    /\ ~sorting
    /\ sorting' = TRUE
    /\ index' = 1
    /\ used' = {}
    /\ order' = <<>>
    /\ UNCHANGED <<net, nodes, stack, renames>>

\* The loop of sortNodes: a gate that is used has been sorted in with another.
NextNode ==
    /\ sorting
    /\ stack = <<>>
    /\ index <= Len(nodes)
    /\ IF nodes[index] \in used
       THEN UNCHANGED <<stack, used>>
       ELSE /\ stack' = <<[node |-> nodes[index], at |-> 1]>>
            /\ used' = used \cup {nodes[index]}
    /\ index' = index + 1
    /\ UNCHANGED <<net, nodes, sorting, order, renames>>

top == stack[Len(stack)]
AtInput == sorting /\ stack # <<>> /\ top.at <= Len(net.gates[top.node].in)
Moved == [stack EXCEPT ![Len(stack)].at = @ + 1]

\* An input is a gate that has not been visited: topsort calls itself.
VisitInput ==
    /\ AtInput
    /\ \E d \in Drivers(top.node, top.at) \ used :
         /\ stack' = Append(Moved, [node |-> d, at |-> 1])
         /\ used' = used \cup {d}
    /\ UNCHANGED <<net, nodes, sorting, index, order, renames>>

SkipInput ==
    /\ AtInput
    /\ Drivers(top.node, top.at) \subseteq used
    /\ stack' = Moved
    /\ UNCHANGED <<net, nodes, sorting, index, used, order, renames>>

\* Mutant: a gate is pushed in front of those it reads.
LeaveInFront ==
    /\ sorting
    /\ stack # <<>>
    /\ ~AtInput
    /\ order' = <<top.node>> \o order
    /\ stack' = SubSeq(stack, 1, Len(stack) - 1)
    /\ UNCHANGED <<net, nodes, sorting, index, used, renames>>

\* After its inputs the gate itself is pushed back, and topsort returns.
Leave ==
    /\ sorting
    /\ stack # <<>>
    /\ ~AtInput
    /\ order' = Append(order, top.node)
    /\ stack' = SubSeq(stack, 1, Len(stack) - 1)
    /\ UNCHANGED <<net, nodes, sorting, index, used, renames>>

EndSort ==
    /\ sorting
    /\ stack = <<>>
    /\ index > Len(nodes)
    /\ nodes' = order
    /\ sorting' = FALSE
    /\ UNCHANGED <<net, index, stack, used, order, renames>>

RenameNet(old, new) ==
    /\ ~sorting
    /\ renames' = [name \in DOMAIN renames \cup {old} |->
                      IF name = old THEN new ELSE renames[name]]
    /\ UNCHANGED <<net, nodes, sortVars>>

ClearRenames ==
    /\ ~sorting
    /\ renames' = <<>>
    /\ UNCHANGED <<net, nodes, sortVars>>

SortStep == NextNode \/ VisitInput \/ SkipInput \/ Leave \/ EndSort

PrintNext ==
    \/ BeginSort \/ SortStep \/ ClearRenames
    \/ \E old \in OldNames, new \in NewNames : RenameNet(old, new)

PrintSpec == PrintInit /\ [][PrintNext]_printVars

-------------------------------------------------------------------------------
(***************************************************************************)
(* What print writes.                                                      *)
(***************************************************************************)
wire_name(name) == IF name \in DOMAIN renames THEN renames[name] ELSE name

\* Mutant: the inputs of a gate are written without their new names.
PrintedGateOldInputs(g) ==
    [out |-> wire_name(net.gates[g].out), in |-> net.gates[g].in]

\* A constant is written as such before a new name is looked up.
PrintedGate(g) ==
    [out |-> wire_name(net.gates[g].out),
     in  |-> [n \in DOMAIN net.gates[g].in |->
                 IF net.gates[g].in[n] = Constant0 THEN Constant0
                 ELSE wire_name(net.gates[g].in[n])]]

Printed ==
    [ins   |-> {wire_name(x) : x \in net.ins},
     outs  |-> {wire_name(x) : x \in net.outs},
     gates |-> [n \in DOMAIN nodes |-> PrintedGate(nodes[n])]]

-------------------------------------------------------------------------------
(***************************************************************************)
(* Properties.                                                             *)
(***************************************************************************)
Reads == {e \in GatesOf(net) \X GatesOf(net) :
             \E n \in DOMAIN net.gates[e[1]].in : e[2] \in Drivers(e[1], n)}

\* The gate d is in every set that has what g reads and what its members read.
DependsOn(g, d) ==
    \A S \in SUBSET GatesOf(net) :
        (\A e \in Reads : e[1] \in S \cup {g} => e[2] \in S) => d \in S

Place(g) == CHOOSE n \in DOMAIN nodes : nodes[n] = g

\* sortNodes is the topological sort its comment promises (circuit.h:103): it lists
\* every gate once, also when gates read each other in a circle, and a gate after
\* every gate it reads, unless that one depends on it.
SortsTopologically ==
    [][sorting /\ ~sorting' =>
        /\ Len(nodes') = Cardinality(GatesOf(net))
        /\ {nodes'[n] : n \in DOMAIN nodes'} = GatesOf(net)
        /\ \A e \in Reads : DependsOn(e[2], e[1]) \/ Place(e[2])' < Place(e[1])']_printVars

\* Consistent values of the nets of a text, as the sets of inputs and of outputs
\* that are true.
Behaviour(text) ==
    LET names == text.ins \cup text.outs \cup {text.gates[n].out : n \in DOMAIN text.gates}
        holds(gate, true) ==
            gate.out \in true <=> \E n \in DOMAIN gate.in : gate.in[n] \notin true
    IN  {<<true \cap text.ins, true \cap text.outs>> :
            true \in {t \in SUBSET names :
                         \A n \in DOMAIN text.gates : holds(text.gates[n], t)}}

\* However the gates are sorted and the nets are renamed, the printed circuit
\* computes what the circuit computes, as long as no two nets get one name.
PrintedSame ==
    ~sorting /\ (\A m, n \in Nets : wire_name(m) = wire_name(n) => m = n) =>
        Behaviour(Printed) =
            {<<{wire_name(x) : x \in b[1]}, {wire_name(x) : x \in b[2]}>> :
                b \in Behaviour(net)}

===============================================================================
