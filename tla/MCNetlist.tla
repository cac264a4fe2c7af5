------------------------------- MODULE MCNetlist -------------------------------
(***************************************************************************)
(* Instances of the netlist for TLC.                                       *)
(***************************************************************************)
EXTENDS Netlist

a == <<"a">>
b == <<"b">>
c == <<"c">>
f == <<"f">>
g == <<"g">>
w == <<"w">>
not_a == <<"not_", "a">>

Gate(function, outName, inNames) ==
    [function |-> function, inNames |-> inNames, outName |-> outName]

Types(inputs, outputs, wires) ==
    [name \in inputs \cup outputs \cup wires |->
        IF name \in inputs THEN "input"
        ELSE IF name \in outputs THEN "output" ELSE "default"]

\* An output that drives a gate, and gates listed before what they read.
SharedOutput ==
    [types |-> Types({a, b}, {f, g}, {}),
     gates |-> <<Gate("NAND", f, <<g, b>>), Gate("XOR", g, <<a, b>>)>>]

\* A gate that reads an input twice and a constant, and one nothing reads.
ReadTwice ==
    [types |-> Types({a, b}, {f}, {w}),
     gates |-> <<Gate("CUT", w, <<b>>), Gate("XNOR", f, <<a, b, a, Constant1>>)>>]

\* A multiplexer of b and not c that a selects, and an inverter nothing reads.
Multiplexer ==
    [types |-> Types({a, b, c}, {f}, {w, g, <<"h">>}),
     gates |-> <<Gate("NOT", w, <<a>>), Gate("AND", g, <<a, b>>),
                 Gate("NOR", <<"h">>, <<a, c>>), Gate("OR", f, <<g, <<"h">>>>)>>]

\* A wire that has the name invertInput chooses.
NameTaken ==
    [types |-> Types({a, b}, {f}, {not_a}),
     gates |-> <<Gate("NOT", not_a, <<a>>), Gate("AND", f, <<not_a, b>>)>>]

AllDesigns == {SharedOutput, ReadTwice, Multiplexer}
NameTakenOnly == {NameTaken}

===============================================================================
