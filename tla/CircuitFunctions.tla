--------------------------- MODULE CircuitFunctions ----------------------------
(***************************************************************************)
(* What the operations of Circuit promise, without a netlist: a circuit is *)
(* a set of inputs and, for each output, the set of input vectors that     *)
(* make it true.  Module Netlist implements this specification.            *)
(***************************************************************************)
EXTENDS BoolCone, Sequences

CONSTANTS Slots,             \* the variables of a caller that hold circuits
          NoCircuit,         \* what an empty slot holds
          NotName(_),        \* the name of the net of an inverted input or output
          MiterName(_, _)    \* the name of the output of a miter

VARIABLES fun,   \* fun[s] = [ins, outs]; outs: output -> set of vectors
          call   \* the last call, with its arguments and what it returned

vars == <<fun, call>>

Held == {s \in Slots : fun[s] # NoCircuit}

ConeAt(s, po) == [ins |-> fun[s].ins, on |-> fun[s].outs[po]]

Put(s, c) == fun' = [fun EXCEPT ![s] = c]

-------------------------------------------------------------------------------
Init ==
    /\ \E s \in Slots : \A t \in Slots : (fun[t] # NoCircuit) <=> (t = s)
    /\ call \in {<<"parse_verilog">>, <<"getCone">>}

\* The answer is the value of the output for exactly these inputs.
Eval(s, po, vec) ==
    /\ call' = <<"evalOutput", s, po, vec, EvalOutput(ConeAt(s, po), vec)>>
    /\ UNCHANGED fun

\* Every output becomes its cofactor.
Stuck(s, pi, value) ==
    /\ call' = <<"stuckInput", s, pi, value>>
    /\ Put(s, [ins  |-> fun[s].ins \ {pi},
               outs |-> [po \in DOMAIN fun[s].outs |->
                            StuckInput(ConeAt(s, po), pi, value).on]])

\* Every output sees the other value of the input.
InvertIn(s, pi) ==
    /\ call' = <<"invertInput", s, pi>>
    /\ Put(s, [fun[s] EXCEPT !.outs = [po \in DOMAIN fun[s].outs |->
                  {Flip(vec, pi) : vec \in fun[s].outs[po]}]])

\* One output is inverted and has a new name; the others keep their functions.
InvertOut(s, po) ==
    LET others == DOMAIN fun[s].outs \ {po}
    IN  /\ call' = <<"invertOutput", s, po>>
        /\ Put(s, [ins  |-> fun[s].ins,
                   outs |-> [q \in others \cup {NotName(po)} |->
                                IF q \in others THEN fun[s].outs[q]
                                ELSE InvertOutput(ConeAt(s, po)).on]])

Copied(s, t) ==
    /\ call' = <<"Circuit", s, t>>
    /\ Put(t, fun[s])

\* The cone keeps the function of its output, and inputs enough to decide it.
ConeTaken(s, po, t) ==
    /\ call' = <<"getCone", s, po, t>>
    /\ \E kept \in SUBSET fun[s].ins :
           LET on == {vec \in SUBSET kept : EvalOutput(ConeAt(s, po), vec)}
           IN  /\ \A vec \in SUBSET fun[s].ins :
                      EvalOutput(ConeAt(s, po), vec) <=> (vec \cap kept) \in on
               /\ Put(t, [ins |-> kept, outs |-> [q \in {po} |-> on]])

\* The miter of two circuits with one output each.
MiterMade(s, t, function, u) ==
    \E p \in DOMAIN fun[s].outs, q \in DOMAIN fun[t].outs :
        LET f == ConeAt(s, p)
            g == ConeAt(t, q)
            m == IF function = "AND" THEN MiterAnd(f, g) ELSE MiterXor(f, g)
        IN  /\ DOMAIN fun[s].outs = {p} /\ DOMAIN fun[t].outs = {q}
            /\ call' = <<"getMiter", s, t, function, u>>
            /\ Put(u, [ins |-> m.ins, outs |-> [r \in {MiterName(p, q)} |-> m.on]])

Deleted(s) ==
    /\ call' = <<"~Circuit", s>>
    /\ Put(s, NoCircuit)

Next ==
    \E s \in Held :
        \/ \E po \in DOMAIN fun[s].outs, vec \in SUBSET fun[s].ins : Eval(s, po, vec)
        \/ \E pi \in fun[s].ins, value \in BOOLEAN : Stuck(s, pi, value)
        \/ \E pi \in fun[s].ins : InvertIn(s, pi)
        \/ \E po \in DOMAIN fun[s].outs : InvertOut(s, po)
        \/ \E t \in Slots : Copied(s, t)
        \/ \E po \in DOMAIN fun[s].outs, t \in Slots : ConeTaken(s, po, t)
        \/ \E t \in Held, function \in {"AND", "XOR"}, u \in Slots :
               MiterMade(s, t, function, u)
        \/ Deleted(s)

Spec == Init /\ [][Next]_vars

===============================================================================
