---------------------------- MODULE MCConfirmation -----------------------------
(***************************************************************************)
(* The circuits on which the supports are computed and the properties      *)
(* confirmed.                                                              *)
(***************************************************************************)
EXTENDS Signing, MCNetlist

\* One gate of each kind over three inputs, and the majority of three.
OneGate(function) ==
    [types |-> Types({a, b, c}, {f}, {}), gates |-> <<Gate(function, f, <<a, b, c>>)>>]

Majority ==
    [types |-> Types({a, b, c}, {f}, {<<"ab">>, <<"ac">>, <<"bc">>}),
     gates |-> <<Gate("OR", f, <<<<"ab">>, <<"ac">>, <<"bc">>>>), Gate("AND", <<"ab">>, <<a, b>>),
                 Gate("AND", <<"ac">>, <<a, c>>), Gate("AND", <<"bc">>, <<b, c>>)>>]

ConfirmedDesigns ==
    AllDesigns \cup {OneGate(function) : function \in GateFunctions \ {"CUT"}} \cup {Majority}

\* The two pins of a gate, in one order.
Pins(names) == {p \in [1..2 -> names] : p[1] = p[2] \/ p[1] \in {a, g} \/ p[2] = Constant1}

\* Every circuit of three gates that read inputs, a constant and gates before
\* them; gates are also outputs, and are listed after those that read them.
ThreeGates ==
    {[types |-> Types({a, b} \ pos, pos, {f, g, w} \ pos),
      gates |-> <<Gate("NAND", f, pf), Gate("NAND", w, pw), Gate("NAND", g, pg)>>] :
        pg \in Pins({a, b, Constant1}), pw \in Pins({a, b, g}), pf \in Pins({a, b, g, w}),
        pos \in {{w, f}, {g, w, f}}}

===============================================================================
