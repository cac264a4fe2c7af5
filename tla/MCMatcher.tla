------------------------------- MODULE MCMatcher -------------------------------
(***************************************************************************)
(* Instances of the matcher for TLC.                                       *)
(***************************************************************************)
EXTENDS Matcher

Renamed(f, r) ==
    [ins |-> Image(r, f.ins), on |-> {Image(r, vec) : vec \in f.on}]

Names3 == 1..3
AllCones3 == [ins : {Names3}, on : SUBSET (SUBSET Names3)]

Single(f) == [ins |-> f.ins, cones |-> [po \in {"f"} |-> f]]

\* Every function of three inputs against each of its renamings.
RenamedPairs3 ==
    UNION {{<<Single(f), Single(Renamed(f, r))>> :
              r \in Bijection(Names3, Names3)} : f \in AllCones3}

\* Cones of several outputs: the functions a ? b : c, majority, a(b+c),
\* a xor bc, ab, and a constant one.
Mux == [ins |-> Names3, on |-> {{1, 2}, {1, 2, 3}, {3}, {2, 3}}]
Majority == [ins |-> Names3, on |-> {{1, 2}, {1, 3}, {2, 3}, {1, 2, 3}}]
AndOr == [ins |-> Names3, on |-> {{1, 2}, {1, 3}, {1, 2, 3}}]
XorAnd == [ins |-> Names3, on |-> {{1}, {1, 2}, {1, 3}, {2, 3}}]
And2 == [ins |-> {2, 3}, on |-> {{2, 3}}]
One == [ins |-> {}, on |-> {{}}]
SomeCones == {Mux, Majority, AndOr, XorAnd, And2, One}

Shift3 == [x \in Names3 |-> IF x = 3 THEN 1 ELSE x + 1]

\* Three outputs against the renamings of two of them.
SeveralOutputs ==
    {<<[ins |-> Names3, cones |-> ("p" :> f @@ "q" :> g @@ "r" :> h)],
       [ins |-> Names3,
        cones |-> ("p" :> Renamed(g, Shift3) @@ "q" :> Renamed(f, Shift3))]>> :
        f \in SomeCones, g \in SomeCones, h \in {Mux, XorAnd, And2}}

\* Both.
SomeInstances == RenamedPairs3 \cup SeveralOutputs

\* (a + b)cde against the same function with the names of the two symmetry
\* classes in the other order.
Names5 == 1..5
TwoAndThree(small, large) ==
    [ins |-> Names5,
     on |-> {vec \in SUBSET Names5 : vec \cap small # {} /\ large \subseteq vec}]
SwappedClasses ==
    {<<Single(TwoAndThree({1, 2}, {3, 4, 5})),
       Single(TwoAndThree({4, 5}, {1, 2, 3}))>>}

\* Two outputs of each circuit that compute the same function.
Twin(f) == [ins |-> f.ins, cones |-> [po \in {"p", "q"} |-> f]]
TwinOutputs == {<<Twin(Mux), Twin(Renamed(Mux, Shift3))>>}

===============================================================================
