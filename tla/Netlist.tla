-------------------------------- MODULE Netlist --------------------------------
(***************************************************************************)
(* The class Circuit of circuit.cpp.  A circuit is held twice: by names,   *)
(* as the nets its gates say they read and drive, and by pointers between  *)
(* nodes, which construct() derives from the names.  evalOutput follows    *)
(* pointers; a copy, a cone, a miter and print() are made from names; and  *)
(* stuckInput, invertInput and invertOutput change both by hand.  Several  *)
(* circuits live in slots and a caller applies any operation to any of     *)
(* them, in any order.                                                     *)
(*                                                                         *)
(* A name is the sequence of the parts it was put together from, so that   *)
(* <<"not_", "f">> is what the code writes "not_" + "f".  A pointer is a   *)
(* number: 0 and 1 are the two constant nodes all circuits share, Null is  *)
(* the null pointer, and the gates of a circuit have ascending numbers in  *)
(* the order of `nodes'.                                                   *)
(***************************************************************************)
EXTENDS BoolCone, Bags, SequencesExt

CONSTANTS Slots,       \* the variables of a caller that hold circuits
          Designs,     \* what the reader may read: [types, gates]
          MaxGates,    \* bound: no operation makes a circuit of more gates
          ReuseNames   \* may an operation choose the name of an existing net?

NoCircuit == <<>>   \* what an empty slot holds

Constant0 == <<"%item_constant_0%">>
Constant1 == <<"%item_constant_1%">>
NetsOf(types, type) == {name \in DOMAIN types : types[name] = type}

\* A name is a sequence, of one part or more, and no constant.
IsName(name) == name \in Seq(ToSet(name)) \ {<<>>, Constant0, Constant1}

\* A circuit without an error: a net has one driver, a gate or, if it is an
\* input, a node of its own; every net that is an output or is read has one; no
\* gates read each other in a circle; no net has the name of a constant, and no
\* input one that getMiter makes.
IsDesign(design) ==
    LET gates == design.gates
        inputs == NetsOf(design.types, "input")
        driven == {gates[k].outName : k \in DOMAIN gates}
        names == DOMAIN design.types \cup driven
    IN  /\ IsFiniteSet(DOMAIN design.types)
        /\ \A name \in DOMAIN design.types :
               design.types[name] \in {"input", "output", "default"}
        /\ \A name \in names : IsName(name)
        /\ \A name \in inputs : name[1] \notin {"cir1_", "cir2_", "miter_"}
        /\ DOMAIN gates = 1 .. Len(gates) /\ Len(gates) \in Nat
        /\ \A k \in DOMAIN gates :
               /\ \A l \in DOMAIN gates : gates[k].outName = gates[l].outName => k = l
               /\ gates[k].inNames \in Seq(driven \cup inputs \cup {Constant0, Constant1})
        /\ inputs \cap driven = {}
        /\ NetsOf(design.types, "output") \subseteq driven
        /\ \A nets \in SUBSET driven : nets # {} => \E k \in DOMAIN gates :
               /\ gates[k].outName \in nets
               /\ \A j \in DOMAIN gates[k].inNames : gates[k].inNames[j] \notin nets

ASSUME DesignsAssumption == \A design \in Designs : IsDesign(design)

VARIABLES circuit,   \* circuit[s], for each slot
          call,      \* history: the last call, its arguments and its result
          fun        \* history: the functions that circuit[s] computes

vars == <<circuit, call, fun>>

Null == -1
ConstantNode(value) == IF value THEN 1 ELSE 0
\* Mutant: the names of the constants are swapped.
SwappedName(value) == IF value THEN Constant0 ELSE Constant1
ConstantName(value) == IF value THEN Constant1 ELSE Constant0

Prefixed(prefix, name) == <<prefix>> \o name
NotName(name) == Prefixed("not_", name)
MiterName(po1, po2) ==
    <<"miter_">> \o Prefixed("cir1_", po1) \o <<"_">> \o Prefixed("cir2_", po2)

GateFunctions == {"AND", "NAND", "OR", "NOR", "XOR", "XNOR", "BUF", "NOT", "CUT"}

Gates(c) == {n \in DOMAIN c.node : c.node[n].type = "gate"}
ServiceNodes(c) == {n \in DOMAIN c.node : c.node[n].type = "input"}

GateNode(function, input, inNames, outName) ==
    [type |-> "gate", function |-> function, value |-> FALSE, input |-> input,
     output |-> EmptyBag, inNames |-> inNames, outName |-> outName]

InputNode(name) ==
    [type |-> "input", function |-> "", value |-> FALSE, input |-> <<>>,
     output |-> EmptyBag, inNames |-> <<>>, outName |-> name]

\* getNetInput
NetInput(nets, name) ==
    CASE name = Constant0 -> 0
      [] name = Constant1 -> 1
      [] name \in DOMAIN nets -> nets[name].input
      [] OTHER -> Null

-------------------------------------------------------------------------------
(***************************************************************************)
(* construct, on the nets and gates that addNet and addNode have listed.   *)
(* A design has the type of each net and the gates in their order, each    *)
(* [function, inNames, outName].  Inputs get their nodes first, so that a  *)
(* gate that drives a net of the same name takes it, and of two gates the  *)
(* later one.                                                              *)
(***************************************************************************)
Construct(design) ==
    LET gates == design.gates
        inputs == SetToSeq(NetsOf(design.types, "input"))
        firstInput == Len(gates) + 2
        drivers(name) == {k + 1 : k \in {l \in DOMAIN gates : gates[l].outName = name}}
        driver(name) ==
            IF drivers(name) # {} THEN Max(drivers(name))
            ELSE IF name \in ToSet(inputs)
            THEN firstInput - 1 + CHOOSE j \in DOMAIN inputs : inputs[j] = name
            ELSE Null
        nets == [name \in DOMAIN design.types \cup {gates[k].outName : k \in DOMAIN gates} |->
                    [type  |-> IF name \in DOMAIN design.types
                               THEN design.types[name] ELSE "default",
                     input |-> driver(name)]]
        gate(g) ==
            GateNode(g.function, [j \in DOMAIN g.inNames |-> NetInput(nets, g.inNames[j])],
                     g.inNames, g.outName)
        node == [n \in 2 .. firstInput + Len(inputs) - 1 |->
                    IF n < firstInput THEN gate(gates[n - 1])
                    ELSE InputNode(inputs[n - firstInput + 1])]
        reads(g, n) == {j \in DOMAIN node[g].input : node[g].input[j] = n}
        readers(n) == {g \in DOMAIN node : reads(g, n) # {}}
    IN  [node    |-> [n \in DOMAIN node |-> [node[n] EXCEPT !.output =
                         [g \in readers(n) |-> Cardinality(reads(g, n))]]],
         nets    |-> nets,
         inputs  |-> NetsOf(design.types, "input"),
         outputs |-> NetsOf(design.types, "output"),
         lazy    |-> <<>>]

\* What a new circuit takes from some gates of c: functions and names.
GateList(c, gates) ==
    LET ith(k) == CHOOSE n \in gates : Cardinality({m \in gates : m < n}) = k - 1
        named(n) == [function |-> c.node[n].function,
                     inNames  |-> c.node[n].inNames,
                     outName  |-> c.node[n].outName]
    IN  [k \in 1 .. Cardinality(gates) |-> named(ith(k))]

TypesOf(c) == [name \in DOMAIN c.nets |-> c.nets[name].type]

-------------------------------------------------------------------------------
(***************************************************************************)
(* Node::eval.  `known' has the values of the nodes that are lazy.  The    *)
(* function of a gate stops reading at the first value that decides it.    *)
(***************************************************************************)
Apply(function, values) ==
    LET true == {j \in DOMAIN values : values[j]}
    IN  CASE function = "AND" -> true = DOMAIN values
          [] function = "NAND" -> true # DOMAIN values
          [] function = "OR" -> true # {}
          [] function = "NOR" -> true = {}
          [] function = "XOR" -> Cardinality(true) % 2 = 1
          [] function = "XNOR" -> Cardinality(true) % 2 = 0
          [] function \in {"BUF", "CUT"} -> 1 \in true
          [] function = "NOT" -> 1 \notin true

\* The positions of its inputs a gate with these input values evaluates.
Evaluated(function, values) ==
    {j \in DOMAIN values :
        CASE function \in {"AND", "NAND"} -> \A k \in 1 .. j - 1 : values[k]
          [] function \in {"OR", "NOR"} -> \A k \in 1 .. j - 1 : ~values[k]
          [] function \in {"BUF", "CUT", "NOT"} -> j = 1
          [] OTHER -> TRUE}

Values(c, known) ==
    LET v[n \in DOMAIN c.node \cup {0, 1}] ==
            IF n \in DOMAIN known THEN known[n]
            ELSE IF n \in {0, 1} THEN n = 1
            ELSE IF c.node[n].type = "input" THEN c.node[n].value
            ELSE Apply(c.node[n].function,
                       [j \in DOMAIN c.node[n].input |-> v[c.node[n].input[j]]])
    IN  v

\* The nodes that eval of one node visits and makes lazy.
Visited(c, known, root) ==
    LET v == Values(c, known)
        w[n \in DOMAIN c.node \cup {0, 1}] ==
            IF n \in DOMAIN known \cup {0, 1} THEN {}
            ELSE LET input == c.node[n].input
                     values == [j \in DOMAIN input |-> v[input[j]]]
                 IN  {n} \cup UNION {w[input[j]] :
                                        j \in Evaluated(c.node[n].function, values)}
    IN  w[root]

\* setInputVector, with a vector that names every input.
SetInputVector(c, vec) ==
    [c EXCEPT !.node = [n \in DOMAIN c.node |->
        IF \E pi \in c.inputs : n = NetInput(c.nets, pi)
        THEN [c.node[n] EXCEPT !.value = (c.node[n].outName \in vec)]
        ELSE c.node[n]]]

\* Mutant: the inputs stay lazy.
ClearGatesOnly(c) ==
    [c EXCEPT !.lazy = Restrict(c.lazy, DOMAIN c.lazy \ Gates(c))]

\* Before an evaluation no node of the circuit is lazy.  The nodes of the
\* constants are not among them, and always have the value they had.
ClearLazy(c) ==
    [c EXCEPT !.lazy = Restrict(c.lazy, DOMAIN c.lazy \ (Gates(c) \cup ServiceNodes(c)))]

\* evalOutput(name): the value, and the nodes left lazy.
OutputValue(c, po) ==
    /\ po \in DOMAIN c.nets
    /\ c.nets[po].type = "output"
    /\ c.nets[po].input # Null
    /\ Values(c, c.lazy)[c.nets[po].input]

AfterEval(c, po) ==
    LET visited == Visited(c, c.lazy, c.nets[po].input)
    IN  [c EXCEPT !.lazy = [n \in DOMAIN c.lazy \cup visited |-> Values(c, c.lazy)[n]]]

-------------------------------------------------------------------------------
(***************************************************************************)
(* The operations on a netlist.  A node listed k times in the `output' of  *)
(* an input reads it k times: rewiring walks over the list and replaces    *)
(* the first name and the first pointer it finds each time.                *)
(***************************************************************************)
\* How often a node is in a list of readers.
TimesListed(n, output) == IF BagIn(n, output) THEN output[n] ELSE 0

ReplaceFirst(seq, count, old, new) ==
    [j \in DOMAIN seq |->
        IF seq[j] = old /\ Cardinality({i \in 1..j : seq[i] = old}) <= count
        THEN new ELSE seq[j]]

\* The nodes of c with the readers of the input pi reading another net.
Rewired(c, pi, newNode, newName) ==
    LET source == NetInput(c.nets, pi)
        count(n) == TimesListed(n, c.node[source].output)
    IN  [n \in DOMAIN c.node |->
            [c.node[n] EXCEPT !.inNames = ReplaceFirst(@, count(n), pi, newName),
                              !.input = ReplaceFirst(@, count(n), source, newNode)]]

\* Mutant: the readers get the constant's node but keep the input's name.
StuckPointersOnly(c, pi, value) ==
    LET source == NetInput(c.nets, pi)
        node == Rewired(c, pi, ConstantNode(value), pi)
    IN  [c EXCEPT !.inputs = @ \ {pi},
                  !.node = Restrict(node, DOMAIN node \ {source}),
                  !.nets = Restrict(@, DOMAIN @ \ {pi}),
                  !.lazy = Restrict(@, DOMAIN @ \ {source})]

\* stuckInput: the input, its net and its node disappear.
StuckNetlist(c, pi, value) ==
    LET source == NetInput(c.nets, pi)
        node == Rewired(c, pi, ConstantNode(value), ConstantName(value))
    IN  [c EXCEPT !.inputs = @ \ {pi},
                  !.node = Restrict(node, DOMAIN node \ {source}),
                  !.nets = Restrict(@, DOMAIN @ \ {pi}),
                  !.lazy = Restrict(@, DOMAIN @ \ {source})]

NextNode(c) == Max(DOMAIN c.node \cup {1}) + 1

\* addNet of a name that has no net, or replaces the net that has it.
WithNet(nets, name, type, node) ==
    [n \in DOMAIN nets \cup {name} |->
        IF n = name THEN [type |-> type, input |-> node] ELSE nets[n]]

WithNode(node, n, record) ==
    [m \in DOMAIN node \cup {n} |-> IF m = n THEN record ELSE node[m]]

\* Mutant: the input still lists its old readers.
InvertedUnlisted(c, pi) ==
    LET inv == NextNode(c)
        source == NetInput(c.nets, pi)
    IN  [c EXCEPT !.nets = WithNet(@, NotName(pi), "default", inv),
                  !.node = WithNode(Rewired(c, pi, inv, NotName(pi)), inv,
                                    GateNode("NOT", <<source>>, <<pi>>, NotName(pi)))]

\* invertInput: a new gate reads the input, and its readers read the new gate.
InvertedInput(c, pi) ==
    LET inv == NextNode(c)
        source == NetInput(c.nets, pi)
        node == Rewired(c, pi, inv, NotName(pi))
    IN  [c EXCEPT !.nets = WithNet(@, NotName(pi), "default", inv),
                  !.node = WithNode([node EXCEPT ![source].output = SetToBag({inv})], inv,
                                    GateNode("NOT", <<source>>, <<pi>>, NotName(pi)))]

\* invertOutput: a new gate reads the output, and its net is the output now.
InvertedOutput(c, po) ==
    LET inv == NextNode(c)
        source == c.nets[po].input
        nets == [c.nets EXCEPT ![po].type = "default"]
        node == [c.node EXCEPT ![source].output = @ (+) SetToBag({inv})]
    IN  [c EXCEPT !.outputs = (@ \ {po}) \cup {NotName(po)},
                  !.nets = WithNet(nets, NotName(po), "output", inv),
                  !.node = WithNode(node, inv,
                                    GateNode("NOT", <<source>>, <<po>>, NotName(po)))]

\* The copy constructor.
CopyOf(c) == Construct([types |-> TypesOf(c), gates |-> GateList(c, Gates(c))])

\* getConeRec: the nodes the output can be computed from, which are the gates
\* that every set has with the driver of the output and all gates its members
\* read, and the inputs they read.
ConeNodes(c, po) ==
    LET reads(n) == ToSet(c.node[n].input)
        closed == {S \in SUBSET Gates(c) :
                      /\ c.nets[po].input \in S
                      /\ \A n \in S : reads(n) \cap Gates(c) \subseteq S}
        gates == {n \in Gates(c) : \A S \in closed : n \in S}
    IN  gates \cup {m \in ServiceNodes(c) : \E n \in gates : m \in reads(n)}

\* getCone.  Nets get their types anew: every gate but that of the output
\* drives a default net, also one that is an output of c.
ConeOf(c, po) ==
    LET nodes == ConeNodes(c, po)
        gates == nodes \cap Gates(c)
    IN  Construct(
            [types |-> [name \in {po} \cup {c.node[n].outName : n \in nodes \ {c.nets[po].input}} |->
                           IF name = po THEN "output"
                           ELSE IF \E n \in gates : c.node[n].outName = name
                           THEN "default" ELSE "input"],
             gates |-> GateList(c, gates)])

\* The name in a miter of a net of one of its circuits.
MiterNetName(c, prefix, name) ==
    IF \/ name \in {Constant0, Constant1}
       \/ name \in DOMAIN c.nets /\ c.nets[name].type = "input"
    THEN name ELSE Prefixed(prefix, name)

\* getMiter: both circuits share their inputs by name, everything else gets a
\* prefix, and a gate over the two outputs drives the only output.
MiterOf(c1, c2, function) ==
    LET nets(c, prefix) == {MiterNetName(c, prefix, name) : name \in DOMAIN c.nets}
        gates(c, prefix) ==
            LET list == GateList(c, Gates(c))
            IN  [k \in DOMAIN list |->
                    [function |-> list[k].function,
                     inNames  |-> [j \in DOMAIN list[k].inNames |->
                                      MiterNetName(c, prefix, list[k].inNames[j])],
                     outName  |-> Prefixed(prefix, list[k].outName)]]
        po1 == CHOOSE name \in c1.outputs : TRUE
        po2 == CHOOSE name \in c2.outputs : TRUE
        inputs == NetsOf(TypesOf(c1), "input") \cup NetsOf(TypesOf(c2), "input")
        output == MiterName(po1, po2)
        top == [function |-> function, outName |-> output,
                inNames  |-> <<Prefixed("cir1_", po1), Prefixed("cir2_", po2)>>]
    IN  Construct(
            [types |-> [name \in nets(c1, "cir1_") \cup nets(c2, "cir2_") \cup {output} |->
                           IF name = output THEN "output"
                           ELSE IF name \in inputs THEN "input" ELSE "default"],
             gates |-> gates(c1, "cir1_") \o gates(c2, "cir2_") \o <<top>>])

\* The functions a netlist computes, following its pointers.
FunctionsOf(c) ==
    [ins  |-> c.inputs,
     outs |-> [po \in c.outputs |->
                  {vec \in SUBSET c.inputs :
                      OutputValue([SetInputVector(c, vec) EXCEPT !.lazy = <<>>], po)}]]

-------------------------------------------------------------------------------
Held == {s \in Slots : circuit[s] # NoCircuit}

\* The precondition of the inversions, which the code does not test.
NameIsFree(c, name) == ReuseNames \/ name \notin DOMAIN c.nets

\* The constructors and the operations in place end like this.
Put(s, c) ==
    /\ Cardinality(Gates(c)) <= MaxGates
    /\ circuit' = [circuit EXCEPT ![s] = c]
    /\ fun' = [fun EXCEPT ![s] = FunctionsOf(c)]

\* parse_verilog ends with construct.
Init ==
    /\ \E s \in Slots, design \in Designs :
           LET only(x) == [t \in Slots |-> IF t = s THEN x ELSE NoCircuit]
           IN  /\ circuit = only(Construct(design))
               /\ fun = only(FunctionsOf(Construct(design)))
    /\ call = <<"parse_verilog">>

EvalOutputOf(s, po, vec) ==
    LET c == ClearLazy(SetInputVector(circuit[s], vec))
    IN  /\ call' = <<"evalOutput", s, po, vec, OutputValue(c, po)>>
        /\ circuit' = [circuit EXCEPT ![s] = AfterEval(c, po)]
        /\ UNCHANGED fun

StuckInputOf(s, pi, value) ==
    /\ call' = <<"stuckInput", s, pi, value>>
    /\ Put(s, StuckNetlist(circuit[s], pi, value))

InvertInputOf(s, pi) ==
    /\ NameIsFree(circuit[s], NotName(pi))
    /\ call' = <<"invertInput", s, pi>>
    /\ Put(s, InvertedInput(circuit[s], pi))

InvertOutputOf(s, po) ==
    /\ NameIsFree(circuit[s], NotName(po))
    /\ call' = <<"invertOutput", s, po>>
    /\ Put(s, InvertedOutput(circuit[s], po))

Copy(s, t) ==
    /\ call' = <<"Circuit", s, t>>
    /\ Put(t, CopyOf(circuit[s]))

GetCone(s, po, t) ==
    /\ call' = <<"getCone", s, po, t>>
    /\ Put(t, ConeOf(circuit[s], po))

\* Called for circuits with one output each: cones and what is made of them.
GetMiter(s, t, function, u) ==
    /\ Cardinality(circuit[s].outputs) = 1 /\ Cardinality(circuit[t].outputs) = 1
    /\ call' = <<"getMiter", s, t, function, u>>
    /\ Put(u, MiterOf(circuit[s], circuit[t], function))

\* The destructor.
Delete(s) ==
    /\ call' = <<"~Circuit", s>>
    /\ circuit' = [circuit EXCEPT ![s] = NoCircuit]
    /\ fun' = [fun EXCEPT ![s] = NoCircuit]

Next ==
    \E s \in Held :
        \/ \E po \in circuit[s].outputs, vec \in SUBSET circuit[s].inputs :
               EvalOutputOf(s, po, vec)
        \/ \E pi \in circuit[s].inputs, value \in BOOLEAN : StuckInputOf(s, pi, value)
        \/ \E pi \in circuit[s].inputs : InvertInputOf(s, pi)
        \/ \E po \in circuit[s].outputs : InvertOutputOf(s, po)
        \/ \E t \in Slots : Copy(s, t)
        \/ \E po \in circuit[s].outputs, t \in Slots : GetCone(s, po, t)
        \/ \E t \in Held, function \in {"AND", "XOR"}, u \in Slots :
               GetMiter(s, t, function, u)

Spec == Init /\ [][Next]_vars

-------------------------------------------------------------------------------
\* What pointers say is what names say: each gate points to the nodes that
\* drive the nets it names, nothing points to a node that is gone, and each
\* node drives the net it names.  Copies, cones, miters and the printed
\* circuit are made from names, evaluation follows pointers.
NamesMatchPointers ==
    \A s \in Held :
        LET c == circuit[s]
        IN  \A n \in DOMAIN c.node :
                /\ NetInput(c.nets, c.node[n].outName) = n
                /\ Len(c.node[n].input) = Len(c.node[n].inNames)
                /\ \A j \in DOMAIN c.node[n].input :
                       /\ c.node[n].input[j] \in DOMAIN c.node \cup {0, 1}
                       /\ c.node[n].input[j] = NetInput(c.nets, c.node[n].inNames[j])

\* The list of readers of an input has each gate as often as the gate reads it,
\* so that stuckInput and invertInput find what they replace, and all of it.
ReadersListed ==
    \A s \in Held :
        LET c == circuit[s]
        IN  \A n \in ServiceNodes(c), g \in Gates(c) :
                TimesListed(g, c.node[n].output) =
                    Cardinality({j \in DOMAIN c.node[g].input : c.node[g].input[j] = n})

Abstract == INSTANCE CircuitFunctions

\* Every call does to the functions of the circuits what CircuitFunctions says:
\* its own circuit gets the functions it should, evalOutput answers for the
\* inputs it was given, and no call changes another circuit.
ImplementsFunctions == Abstract!Spec

\* The circuit that print writes, read by its names, computes what the circuit
\* computes.
PrintedIsEvaluated ==
    \A s \in Held : FunctionsOf(CopyOf(circuit[s])) = FunctionsOf(circuit[s])

===============================================================================
