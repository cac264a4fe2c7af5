----------------------------- MODULE NetlistProofs -----------------------------
(***************************************************************************)
(* The two ways a Circuit is held say the same, and the lists of readers   *)
(* that rewiring relies on are complete, after any operations on any       *)
(* circuits: as long as an operation does not choose the name of a net     *)
(* that exists.  From this follows that the operations do to the functions *)
(* of the circuits what CircuitFunctions says.                             *)
(***************************************************************************)
EXTENDS Netlist, FiniteSetTheorems, SequenceTheorems, WellFoundedInduction, TLAPS

-------------------------------------------------------------------------------
(***************************************************************************)
(* Sets of numbers, and sequences of all elements of a set.                *)
(***************************************************************************)
\* A set of numbers has a least.
LEMMA LeastOf ==
    ASSUME NEW S \in SUBSET Nat, S # {}
    PROVE  \E m \in S : \A n \in S : m <= n
<1>1. PICK m \in S : \A n \in S : ~(<<n, m>> \in OpToRel(<, Nat))
  BY NatLessThanWellFounded, WFMin
<1>2. \A n \in S : ~(n < m)
  BY <1>1 DEF OpToRel
<1> QED
  BY <1>2

\* A part that leaves something out is smaller.
LEMMA SmallerPart ==
    ASSUME NEW S, IsFiniteSet(S), NEW T \in SUBSET S, NEW x \in S, x \notin T
    PROVE  Cardinality(T) < Cardinality(S) /\ Cardinality(T) \in Nat
<1>1. Cardinality(T) <= Cardinality(S) /\ Cardinality(T) # Cardinality(S) /\ IsFiniteSet(T)
  BY FS_Subset
<1> QED
  BY <1>1, FS_CardinalityType

\* A finite set of numbers has a greatest, and Max is it.
LEMMA MaxOf ==
    ASSUME NEW S \in SUBSET Nat, IsFiniteSet(S), S # {}
    PROVE  Max(S) \in S /\ \A n \in S : n <= Max(S)
<1> DEFINE above(m) == {n \in S : m < n}
           sizes == {Cardinality(above(m)) : m \in S}
<1>1. \A m \in S : IsFiniteSet(above(m)) /\ Cardinality(above(m)) \in Nat
  BY FS_Subset, FS_CardinalityType
<1>2. PICK m \in S : \A n \in S : Cardinality(above(m)) <= Cardinality(above(n))
  <2>1. sizes \in SUBSET Nat /\ sizes # {}
    BY <1>1
  <2>2. PICK s \in sizes : \A t \in sizes : s <= t
    BY <2>1, LeastOf
  <2> QED
    BY <2>2
<1>3. \A n \in S : n <= m
  <2> SUFFICES ASSUME NEW n \in S, ~(n <= m)
               PROVE  FALSE
    OBVIOUS
  <2>0. m < n /\ ~(n < n) /\ \A x \in S : n < x => m < x
    <3> HIDE DEF above
    <3> QED
      OBVIOUS
  <2>1. above(n) \in SUBSET above(m) /\ n \in above(m) /\ n \notin above(n)
    BY <2>0
  <2>2. Cardinality(above(n)) < Cardinality(above(m))
    BY <1>1, <2>1, SmallerPart
  <2> QED
    BY <1>1, <1>2, <2>2
<1> QED
  BY <1>3 DEF Max

\* SetToSeq lists every element once.
LEMMA SetListed ==
    ASSUME NEW S, IsFiniteSet(S)
    PROVE  /\ SetToSeq(S) \in [1..Cardinality(S) -> S] /\ Cardinality(S) \in Nat
           /\ \A j, k \in 1..Cardinality(S) : SetToSeq(S)[j] = SetToSeq(S)[k] => j = k
           /\ \A x \in S : \E k \in 1..Cardinality(S) : SetToSeq(S)[k] = x
<1> DEFINE f == SetToSeq(S)
           n == Cardinality(S)
<1>1. n \in Nat /\ ExistsBijection(1..n, S)
  BY FS_CardinalityType
<1>2. \E g \in [1..n -> S] : IsInjective(g)
  BY <1>1 DEF ExistsBijection, Bijection, Injection
<1>3. f \in [1..n -> S] /\ IsInjective(f)
  BY <1>2 DEF SetToSeq
<1>4. f \in Injection(1..n, S)
  BY <1>3 DEF Injection
<1>5. Cardinality(1..n) = n
  BY <1>1, FS_Interval
<1>6. f \in Surjection(1..n, S)
  BY <1>1, <1>4, <1>5, FS_Injection
<1> HIDE DEF f, n
<1>7. DOMAIN f = 1..n
  BY <1>3
<1>8. /\ \A j, k \in 1..n : f[j] = f[k] => j = k
      /\ \A x \in S : \E k \in 1..n : f[k] = x
  BY <1>3, <1>6, <1>7 DEF IsInjective, Surjection
<1> QED
  BY <1>1, <1>3, <1>8 DEF f, n

\* GateList lists every gate once.
LEMMA GatesListed ==
    ASSUME NEW c, NEW G \in SUBSET Nat, IsFiniteSet(G)
    PROVE  LET L == GateList(c, G)
               is(k, n) == /\ L[k].outName = c.node[n].outName
                           /\ L[k].inNames = c.node[n].inNames
                           /\ L[k].function = c.node[n].function
           IN  /\ DOMAIN L = 1..Len(L) /\ Len(L) \in Nat
               /\ (\A m, n \in G : c.node[m].outName = c.node[n].outName => m = n) =>
                     \A k, l \in DOMAIN L : L[k].outName = L[l].outName => k = l
               /\ \A k \in DOMAIN L : \E n \in G : is(k, n)
               /\ \A n \in G : \E k \in DOMAIN L : is(k, n)
<1> DEFINE below(n) == {m \in G : m < n}
           rank == [n \in G |-> Cardinality(below(n)) + 1]
           size == Cardinality(G)
           f == [k \in 1..size |-> CHOOSE n \in G : Cardinality(below(n)) = k - 1]
<1>1. \A n \in G : IsFiniteSet(below(n)) /\ Cardinality(below(n)) \in Nat
                    /\ Cardinality(below(n)) < size
  BY SmallerPart, FS_Subset
<1>2. size \in Nat /\ IsFiniteSet(1..size) /\ Cardinality(1..size) = size
  BY FS_CardinalityType, FS_Interval
<1>3. ASSUME NEW m \in G, NEW n \in G, m < n
      PROVE  Cardinality(below(m)) < Cardinality(below(n))
  <2>0. ~(m < m) /\ \A x \in G : x < m => x < n
    <3> HIDE DEF below
    <3> QED
      BY <1>3
  <2>1. below(m) \in SUBSET below(n) /\ m \in below(n) /\ m \notin below(m)
    BY <1>3, <2>0
  <2> QED
    BY <1>1, <2>1, SmallerPart
<1>4. rank \in Injection(G, 1..size)
  <2>1. rank \in [G -> 1..size]
    BY <1>1, <1>2
  <2>2. \A m, n \in G : rank[m] = rank[n] => m = n
    <3> SUFFICES ASSUME NEW m \in G, NEW n \in G, rank[m] = rank[n], m # n
                 PROVE  FALSE
      OBVIOUS
    <3>1. Cardinality(below(m)) = Cardinality(below(n))
      BY <1>1
    <3>2. m < n \/ n < m
      OBVIOUS
    <3> QED
      BY <1>1, <1>3, <3>1, <3>2
  <2> QED
    BY <2>1, <2>2 DEF Injection, IsInjective
<1>5. rank \in Surjection(G, 1..size)
  BY <1>2, <1>4, FS_Injection
<1>6. \A k \in 1..size : \E n \in G : Cardinality(below(n)) = k - 1
  <2> SUFFICES ASSUME NEW k \in 1..size
               PROVE  \E n \in G : Cardinality(below(n)) = k - 1
    OBVIOUS
  <2>1. PICK n \in G : rank[n] = k
    BY <1>5 DEF Surjection
  <2> QED
    <3>1. k = Cardinality(below(n)) + 1 /\ k \in Nat
      BY <1>2, <2>1
    <3>2. Cardinality(below(n)) \in Nat
      BY <1>1
    <3> HIDE DEF below
    <3> QED
      BY <3>1, <3>2
<1>7. \A k \in 1..size : f[k] \in G /\ Cardinality(below(f[k])) = k - 1
  BY <1>6
<1>8. \A j, k \in 1..size : f[j] = f[k] => j = k
  <2> SUFFICES ASSUME NEW j \in 1..size, NEW k \in 1..size, f[j] = f[k]
               PROVE  j = k
    OBVIOUS
  <2>1. j - 1 = k - 1
    BY <1>7
  <2>2. j \in Nat /\ k \in Nat
    BY <1>2
  <2> HIDE DEF f
  <2> QED
    BY <2>1, <2>2
<1>9. ASSUME NEW n \in G
      PROVE  \E k \in 1..size : f[k] = n
  <2> DEFINE k == rank[n]
  <2>1. k \in 1..size /\ k - 1 = Cardinality(below(n))
    BY <1>1, <1>2
  <2>2. f[k] \in G /\ Cardinality(below(f[k])) = Cardinality(below(n))
    BY <1>7, <2>1
  <2>3. f[k] < n \/ n < f[k] \/ f[k] = n
    <3>1. f[k] \in Nat /\ n \in Nat
      BY <2>2
    <3> HIDE DEF f, k
    <3> QED
      BY <3>1
  <2>4. f[k] = n
    <3>1. \A m \in G : Cardinality(below(m)) \in Nat
      BY <1>1
    <3> HIDE DEF f, k, below
    <3>2. f[k] < n => Cardinality(below(f[k])) < Cardinality(below(n))
      BY <1>3, <2>2
    <3>3. n < f[k] => Cardinality(below(n)) < Cardinality(below(f[k]))
      BY <1>3, <2>2
    <3> QED
      BY <2>2, <2>3, <3>1, <3>2, <3>3
  <2> QED
    BY <2>1, <2>4
<1>10. f \in [1..size -> G]
  BY <1>7
<1>11. GateList(c, G) = [k \in 1..size |-> [function |-> c.node[f[k]].function,
                                            inNames  |-> c.node[f[k]].inNames,
                                            outName  |-> c.node[f[k]].outName]]
  BY DEF GateList
<1> HIDE DEF f, size
<1> DEFINE L == GateList(c, G)
           is(k, n) == /\ L[k].outName = c.node[n].outName
                       /\ L[k].inNames = c.node[n].inNames
                       /\ L[k].function = c.node[n].function
<1>12. DOMAIN L = 1..Len(L) /\ Len(L) \in Nat /\ DOMAIN L = 1..size
  BY <1>2, <1>11
<1>13. \A k \in 1..size : f[k] \in G /\ is(k, f[k])
  BY <1>10, <1>11
<1> HIDE DEF L
<1>14. ASSUME \A m, n \in G : c.node[m].outName = c.node[n].outName => m = n,
              NEW k \in 1..size, NEW l \in 1..size, L[k].outName = L[l].outName
       PROVE  k = l
  <2>1. f[k] \in G /\ f[l] \in G /\ c.node[f[k]].outName = c.node[f[l]].outName
    BY <1>13, <1>14
  <2>2. f[k] = f[l]
    BY <1>14, <2>1
  <2> QED
    BY <1>8, <2>2
<1>15. ASSUME NEW n \in G
       PROVE  \E k \in 1..size : is(k, n)
  <2>1. PICK k \in 1..size : f[k] = n
    BY <1>9
  <2>2. is(k, n)
    BY <1>13, <2>1
  <2> QED
    BY <2>2
<1>16. \A k \in 1..size : \E n \in G : is(k, n)
  BY <1>13
<1> HIDE DEF is
<1>17. /\ DOMAIN L = 1..Len(L) /\ Len(L) \in Nat
       /\ (\A m, n \in G : c.node[m].outName = c.node[n].outName => m = n) =>
             \A k, l \in DOMAIN L : L[k].outName = L[l].outName => k = l
       /\ \A k \in DOMAIN L : \E n \in G : is(k, n)
       /\ \A n \in G : \E k \in DOMAIN L : is(k, n)
  BY <1>12, <1>14, <1>15, <1>16
<1> QED
  BY <1>17 DEF L, is

-------------------------------------------------------------------------------
(***************************************************************************)
(* A circuit whose names and pointers say the same.                        *)
(***************************************************************************)
Constants == {Constant0, Constant1}
MadePrefixes == {"cir1_", "cir2_", "miter_"}

IsNode(m) ==
    /\ m = [type |-> m.type, function |-> m.function, value |-> m.value, input |-> m.input,
            output |-> m.output, inNames |-> m.inNames, outName |-> m.outName]
    /\ m.type \in {"gate", "input"}

\* A netlist has nodes and nets, and the inputs and the outputs are nets.
HasParts(c) ==
    /\ c = [node |-> c.node, nets |-> c.nets, inputs |-> c.inputs, outputs |-> c.outputs,
            lazy |-> c.lazy]
    /\ DOMAIN c.node \in SUBSET (Nat \ {0, 1}) /\ IsFiniteSet(DOMAIN c.node)
    /\ \A n \in DOMAIN c.node : IsNode(c.node[n])
    /\ IsFiniteSet(DOMAIN c.nets)
    /\ \A x \in DOMAIN c.nets :
          /\ IsName(x)
          /\ c.nets[x] = [type |-> c.nets[x].type, input |-> c.nets[x].input]
          /\ c.nets[x].type \in {"input", "output", "default"}
    /\ c.inputs = {x \in DOMAIN c.nets : c.nets[x].type = "input"}
    /\ c.outputs = {x \in DOMAIN c.nets : c.nets[x].type = "output"}
    /\ \A x \in c.inputs : x[1] \notin MadePrefixes

\* Each node drives the net it names and each net is driven by a node of that
\* name, if any; the inputs by nodes of their own.
DriversRight(c) ==
    /\ \A n \in DOMAIN c.node :
          /\ c.node[n].outName \in DOMAIN c.nets
          /\ c.nets[c.node[n].outName].input = n
          /\ c.node[n].type = "input" <=> c.node[n].outName \in c.inputs
    /\ \A x \in DOMAIN c.nets :
          c.nets[x].input # Null =>
             c.nets[x].input \in DOMAIN c.node /\ c.node[c.nets[x].input].outName = x
    /\ \A x \in c.inputs \cup c.outputs : c.nets[x].input # Null

\* A gate points to the drivers of the nets it names, and an input to nothing.
PinsRight(c) ==
    \A n \in DOMAIN c.node :
       /\ c.node[n].inNames \in Seq(DOMAIN c.nets \cup Constants)
       /\ c.node[n].input \in Seq(DOMAIN c.node \cup {0, 1})
       /\ Len(c.node[n].input) = Len(c.node[n].inNames)
       /\ c.node[n].type = "input" => c.node[n].inNames = <<>>
       /\ \A j \in DOMAIN c.node[n].inNames :
             c.node[n].input[j] = NetInput(c.nets, c.node[n].inNames[j])

\* The readers of an input are listed, and nothing but gates.
ReadersRight(c) ==
    \A n \in ServiceNodes(c) :
       /\ DOMAIN c.node[n].output \subseteq Gates(c)
       /\ \A g \in Gates(c) :
             TimesListed(g, c.node[n].output) =
                 Cardinality({j \in DOMAIN c.node[g].input : c.node[g].input[j] = n})

\* Among any gates there is one that reads none of them.
NoCircle(c) ==
    \A S \in SUBSET Gates(c) : S # {} =>
        \E n \in S : \A j \in DOMAIN c.node[n].input : c.node[n].input[j] \notin S

IsCircuit(c) ==
    HasParts(c) /\ DriversRight(c) /\ PinsRight(c) /\ ReadersRight(c) /\ NoCircle(c)

\* The pointer to the driver of a net.
LEMMA PointerOf ==
    ASSUME NEW nets, NEW name, Constant0 \notin DOMAIN nets, Constant1 \notin DOMAIN nets
    PROVE  /\ NetInput(nets, Constant0) = 0
           /\ NetInput(nets, Constant1) = 1
           /\ name \in DOMAIN nets => NetInput(nets, name) = nets[name].input
<1>1. Constant0 # Constant1
  BY DEF Constant0, Constant1
<1>2. NetInput(nets, Constant0) = 0
  BY <1>1 DEF NetInput
<1>3. NetInput(nets, Constant1) = 1
  BY <1>1 DEF NetInput
<1>4. ASSUME name \in DOMAIN nets
      PROVE  NetInput(nets, name) = nets[name].input
  BY <1>4 DEF NetInput
<1> QED
  BY <1>2, <1>3, <1>4

-------------------------------------------------------------------------------
(***************************************************************************)
(* construct makes a circuit of every design.                              *)
(***************************************************************************)
\* A set with one element has it for its greatest.
LEMMA MaxOfOne == ASSUME NEW k \in Nat PROVE Max({k}) = k
BY DEF Max

\* What construct makes, node by node and net by net: the gates in their order,
\* from 2 on, then the inputs, in the order of the sequence g.
Constructed(d, g, c) ==
    LET K == Len(d.gates)
        inputs == NetsOf(d.types, "input")
        nets == DOMAIN d.types \cup {d.gates[k].outName : k \in DOMAIN d.gates}
    IN  /\ c = [node |-> c.node, nets |-> c.nets, inputs |-> inputs,
                outputs |-> NetsOf(d.types, "output"), lazy |-> <<>>]
        /\ DOMAIN c.node = 2 .. K + Len(g) + 1
        /\ \A n \in DOMAIN c.node : IsNode(c.node[n])
        /\ \A k \in 1..K :
              /\ c.node[k + 1].type = "gate"
              /\ c.node[k + 1].outName = d.gates[k].outName
              /\ c.node[k + 1].inNames = d.gates[k].inNames
              /\ c.node[k + 1].function = d.gates[k].function
              /\ c.node[k + 1].input =
                    [j \in DOMAIN d.gates[k].inNames |-> NetInput(c.nets, d.gates[k].inNames[j])]
        /\ \A i \in 1..Len(g) :
              /\ c.node[K + 1 + i].type = "input"
              /\ c.node[K + 1 + i].outName = g[i]
              /\ c.node[K + 1 + i].inNames = <<>>
              /\ c.node[K + 1 + i].input = <<>>
        /\ DOMAIN c.nets = nets
        /\ \A x \in nets :
              c.nets[x] = [type |-> IF x \in DOMAIN d.types THEN d.types[x] ELSE "default",
                           input |-> c.nets[x].input]
        /\ \A k \in 1..K : c.nets[d.gates[k].outName].input = k + 1
        /\ \A i \in 1..Len(g) : c.nets[g[i]].input = K + 1 + i
        /\ \A x \in nets :
              \/ \E k \in 1..K : x = d.gates[k].outName
              \/ \E i \in 1..Len(g) : x = g[i]
              \/ c.nets[x].input = Null
        /\ ReadersRight(c)

LEMMA ConstructMakes ==
    ASSUME NEW d, IsDesign(d)
    PROVE  \E g : /\ g \in [1..Len(g) -> NetsOf(d.types, "input")] /\ Len(g) \in Nat
                  /\ \A i, j \in 1..Len(g) : g[i] = g[j] => i = j
                  /\ \A x \in NetsOf(d.types, "input") : \E i \in 1..Len(g) : g[i] = x
                  /\ Constructed(d, g, Construct(d))
<1> DEFINE gates == d.gates
           ins == NetsOf(d.types, "input")
           inputs == SetToSeq(ins)
           firstInput == Len(gates) + 2
           drivers(name) == {k + 1 : k \in {l \in DOMAIN gates : gates[l].outName = name}}
           driver(name) ==
               IF drivers(name) # {} THEN Max(drivers(name))
               ELSE IF name \in ToSet(inputs)
               THEN firstInput - 1 + CHOOSE j \in DOMAIN inputs : inputs[j] = name
               ELSE Null
           nets == [name \in DOMAIN d.types \cup {gates[k].outName : k \in DOMAIN gates} |->
                       [type  |-> IF name \in DOMAIN d.types
                                  THEN d.types[name] ELSE "default",
                        input |-> driver(name)]]
           gate(g) ==
               GateNode(g.function, [j \in DOMAIN g.inNames |-> NetInput(nets, g.inNames[j])],
                        g.inNames, g.outName)
           node == [n \in 2 .. firstInput + Len(inputs) - 1 |->
                       IF n < firstInput THEN gate(gates[n - 1])
                       ELSE InputNode(inputs[n - firstInput + 1])]
           reads(g, n) == {j \in DOMAIN node[g].input : node[g].input[j] = n}
           readers(n) == {g \in DOMAIN node : reads(g, n) # {}}
           all == [n \in DOMAIN node |-> [node[n] EXCEPT !.output =
                      [g \in readers(n) |-> Cardinality(reads(g, n))]]]
           c == Construct(d)
           K == Len(gates)
           I == Len(inputs)
           names == DOMAIN d.types \cup {gates[k].outName : k \in DOMAIN gates}
<1>1. c = [node |-> all, nets |-> nets, inputs |-> NetsOf(d.types, "input"),
           outputs |-> NetsOf(d.types, "output"), lazy |-> <<>>]
  BY DEF Construct
<1>2. /\ IsFiniteSet(ins) /\ DOMAIN gates = 1..K /\ K \in Nat
      /\ \A k, l \in 1..K : gates[k].outName = gates[l].outName => k = l
      /\ \A x \in ins : \A k \in 1..K : gates[k].outName # x
      /\ ins \subseteq DOMAIN d.types
  <2>1. ins \subseteq DOMAIN d.types
    BY DEF NetsOf
  <2>2. IsFiniteSet(DOMAIN d.types) /\ DOMAIN gates = 1..K /\ K \in Nat
    BY DEF IsDesign
  <2>3. \A k, l \in 1..K : gates[k].outName = gates[l].outName => k = l
    BY <2>2 DEF IsDesign
  <2>4. ins \cap {gates[k].outName : k \in DOMAIN gates} = {}
    BY DEF IsDesign
  <2>5. \A x \in ins : \A k \in 1..K : gates[k].outName # x
    BY <2>2, <2>4
  <2>6. IsFiniteSet(ins)
    BY <2>1, <2>2, FS_Subset
  <2> QED
    BY <2>1, <2>2, <2>3, <2>5, <2>6
<1>3. /\ inputs \in [1..I -> ins] /\ I \in Nat
      /\ \A i, j \in 1..I : inputs[i] = inputs[j] => i = j
      /\ \A x \in ins : \E i \in 1..I : inputs[i] = x
  <2>1. /\ inputs \in [1..Cardinality(ins) -> ins] /\ Cardinality(ins) \in Nat
        /\ \A i, j \in 1..Cardinality(ins) : inputs[i] = inputs[j] => i = j
        /\ \A x \in ins : \E i \in 1..Cardinality(ins) : inputs[i] = x
    BY <1>2, SetListed
  <2> HIDE DEF inputs, ins
  <2>2. Len(inputs) = Cardinality(ins)
    BY <2>1
  <2> QED
    BY <2>1, <2>2
<1> HIDE DEF inputs
<1>4. ASSUME NEW k \in 1..K
      PROVE  nets[gates[k].outName].input = k + 1
  <2> DEFINE x == gates[k].outName
  <2>1. x \in DOMAIN nets /\ nets[x].input = driver(x)
    BY <1>2
  <2>2. {l \in DOMAIN gates : gates[l].outName = x} = {k}
    BY <1>2
  <2>3. drivers(x) = {k + 1}
    BY <2>2
  <2>4. k + 1 \in Nat
    BY <1>2
  <2>5. driver(x) = Max({k + 1})
    BY <2>3
  <2> HIDE DEF nets, driver, drivers, x
  <2> QED
    BY <2>1, <2>4, <2>5, MaxOfOne DEF x
<1>5. ASSUME NEW x \in names, \A k \in 1..K : gates[k].outName # x
      PROVE  nets[x].input = IF x \in ToSet(inputs)
                             THEN firstInput - 1 + CHOOSE j \in DOMAIN inputs : inputs[j] = x
                             ELSE Null
  <2>1. drivers(x) = {}
    BY <1>2, <1>5
  <2> QED
    BY <2>1
<1>6. DOMAIN inputs = 1..I /\ ToSet(inputs) = ins
  BY <1>3 DEF ToSet
<1>7. ASSUME NEW i \in 1..I
      PROVE  nets[inputs[i]].input = K + 1 + i
  <2>1. inputs[i] \in ins /\ inputs[i] \in names
    BY <1>2, <1>3
  <2>2. nets[inputs[i]].input =
            firstInput - 1 + CHOOSE j \in DOMAIN inputs : inputs[j] = inputs[i]
    BY <1>2, <1>5, <1>6, <2>1
  <2>3. (CHOOSE j \in DOMAIN inputs : inputs[j] = inputs[i]) = i
    BY <1>3, <1>6
  <2> HIDE DEF nets, ins
  <2>4. nets[inputs[i]].input = firstInput - 1 + i
    BY <2>2, <2>3
  <2> QED
    BY <1>2, <1>3, <2>4
<1>8. ASSUME NEW x \in names
      PROVE  \/ \E k \in 1..K : x = gates[k].outName
             \/ \E i \in 1..I : x = inputs[i]
             \/ nets[x].input = Null
  <2>1. CASE \E k \in 1..K : gates[k].outName = x
    BY <2>1
  <2>2. CASE x \in ins
    BY <1>3, <2>2
  <2>3. CASE ~(\E k \in 1..K : gates[k].outName = x) /\ x \notin ins
    BY <1>5, <1>6, <2>3
  <2> QED
    BY <2>1, <2>2, <2>3
<1>9. /\ DOMAIN nets = names
      /\ \A x \in names : nets[x] = [type |-> IF x \in DOMAIN d.types THEN d.types[x] ELSE "default",
                                     input |-> nets[x].input]
  OBVIOUS
<1> HIDE DEF nets, names
<1>10. DOMAIN node = 2 .. K + I + 1
  BY <1>2, <1>3
<1>11. ASSUME NEW k \in 1..K
       PROVE  k + 1 \in DOMAIN node /\ node[k + 1] = gate(gates[k])
  <2>1. k + 1 \in 2 .. firstInput + Len(inputs) - 1 /\ k + 1 < firstInput /\ k + 1 - 1 = k
    BY <1>2, <1>3
  <2> QED
    BY <2>1
<1>12. ASSUME NEW i \in 1..I
       PROVE  K + 1 + i \in DOMAIN node /\ node[K + 1 + i] = InputNode(inputs[i])
  <2>1. /\ K + 1 + i \in 2 .. firstInput + Len(inputs) - 1 /\ ~(K + 1 + i < firstInput)
        /\ K + 1 + i - firstInput + 1 = i
    BY <1>2, <1>3
  <2> QED
    BY <2>1
<1>13. \A n \in DOMAIN node : (\E k \in 1..K : n = k + 1) \/ (\E i \in 1..I : n = K + 1 + i)
  <2> SUFFICES ASSUME NEW n \in 2 .. K + I + 1
               PROVE  (\E k \in 1..K : n = k + 1) \/ (\E i \in 1..I : n = K + 1 + i)
    BY <1>10
  <2>1. CASE n <= K + 1
    <3>1. n - 1 \in 1..K /\ n = (n - 1) + 1
      BY <1>2, <1>3, <2>1
    <3> QED
      BY <3>1
  <2>2. CASE n > K + 1
    <3>1. n - K - 1 \in 1..I /\ n = K + 1 + (n - K - 1)
      <4>1. K \in Nat /\ I \in Nat
        BY <1>2, <1>3
      <4> HIDE DEF K, I
      <4> QED
        BY <2>2, <4>1
    <3> QED
      BY <3>1
  <2> QED
    BY <1>2, <1>3, <2>1, <2>2
<1>14. \A n \in DOMAIN node : IsNode(node[n])
  BY <1>11, <1>12, <1>13 DEF IsNode, GateNode, InputNode
<1> DEFINE listed(n) == [g \in readers(n) |-> Cardinality(reads(g, n))]
<1>15. ASSUME NEW n \in DOMAIN node
       PROVE  /\ n \in DOMAIN all /\ all[n] = [node[n] EXCEPT !.output = listed(n)]
              /\ IsNode(all[n]) /\ all[n].output = listed(n)
              /\ all[n].type = node[n].type /\ all[n].input = node[n].input
              /\ all[n].inNames = node[n].inNames /\ all[n].outName = node[n].outName
              /\ all[n].function = node[n].function
  <2>1. n \in DOMAIN all /\ all[n] = [node[n] EXCEPT !.output = listed(n)]
    OBVIOUS
  <2>2. IsNode(node[n])
    BY <1>14
  <2> HIDE DEF all, node, listed
  <2> QED
    BY <2>1, <2>2 DEF IsNode
<1>16. c.node = all /\ c.nets = nets /\ DOMAIN all = DOMAIN node
  <2>1. DOMAIN all = DOMAIN node
    OBVIOUS
  <2> HIDE DEF all, node, c
  <2> QED
    BY <1>1, <2>1
<1>17. ASSUME NEW n \in ServiceNodes(c), NEW g \in Gates(c)
       PROVE  TimesListed(g, all[n].output) =
                  Cardinality({j \in DOMAIN all[g].input : all[g].input[j] = n})
  <2>1. n \in DOMAIN node /\ g \in DOMAIN node
    BY <1>16 DEF ServiceNodes, Gates
  <2>2. all[n].output = listed(n) /\ all[g].input = node[g].input
    BY <1>15, <2>1
  <2>3. {j \in DOMAIN all[g].input : all[g].input[j] = n} = reads(g, n)
    BY <2>2
  <2> HIDE DEF all
  <2>4. CASE reads(g, n) # {}
    <3>1. g \in DOMAIN listed(n) /\ listed(n)[g] = Cardinality(reads(g, n))
      BY <2>1, <2>4
    <3> HIDE DEF listed, reads
    <3> QED
      BY <2>2, <2>3, <3>1 DEF TimesListed, BagIn, BagToSet
  <2>5. CASE reads(g, n) = {}
    <3>1. g \notin DOMAIN listed(n)
      BY <2>5
    <3>2. Cardinality(reads(g, n)) = 0
      BY <2>5, FS_EmptySet
    <3> HIDE DEF listed, reads
    <3> QED
      BY <2>2, <2>3, <3>1, <3>2 DEF TimesListed, BagIn, BagToSet
  <2> QED
    BY <2>4, <2>5
<1>18. ASSUME NEW k \in 1..K
       PROVE  /\ all[k + 1].type = "gate"
              /\ all[k + 1].outName = gates[k].outName
              /\ all[k + 1].inNames = gates[k].inNames
              /\ all[k + 1].function = gates[k].function
              /\ all[k + 1].input =
                    [j \in DOMAIN gates[k].inNames |-> NetInput(nets, gates[k].inNames[j])]
  <2>1. k + 1 \in DOMAIN node /\ node[k + 1] = gate(gates[k])
    BY <1>11
  <2>2. all[k + 1].type = node[k + 1].type /\ all[k + 1].input = node[k + 1].input
        /\ all[k + 1].inNames = node[k + 1].inNames /\ all[k + 1].outName = node[k + 1].outName
        /\ all[k + 1].function = node[k + 1].function
    BY <1>15, <2>1
  <2> HIDE DEF all, node
  <2> QED
    BY <2>1, <2>2 DEF GateNode
<1>19. ASSUME NEW i \in 1..I
       PROVE  /\ all[K + 1 + i].type = "input"
              /\ all[K + 1 + i].outName = inputs[i]
              /\ all[K + 1 + i].inNames = <<>>
              /\ all[K + 1 + i].input = <<>>
  <2> DEFINE m == K + 1 + i
  <2>1. m \in DOMAIN node /\ node[m] = InputNode(inputs[i])
    BY <1>12
  <2>2. all[m].type = node[m].type /\ all[m].input = node[m].input
        /\ all[m].inNames = node[m].inNames /\ all[m].outName = node[m].outName
    BY <1>15, <2>1
  <2> HIDE DEF all, node, m
  <2>3. /\ all[m].type = "input" /\ all[m].outName = inputs[i]
        /\ all[m].inNames = <<>> /\ all[m].input = <<>>
    <3>1. /\ InputNode(inputs[i]).type = "input" /\ InputNode(inputs[i]).outName = inputs[i]
          /\ InputNode(inputs[i]).inNames = <<>> /\ InputNode(inputs[i]).input = <<>>
      BY DEF InputNode
    <3> QED
      BY <2>1, <2>2, <3>1
  <2> QED
    BY <2>3 DEF m
<1>20. ASSUME NEW n \in ServiceNodes(c), NEW g \in DOMAIN all[n].output
       PROVE  g \in Gates(c)
  <2>1. n \in DOMAIN node
    BY <1>16 DEF ServiceNodes
  <2>2. all[n].output = listed(n)
    BY <1>15, <2>1
  <2>3. g \in DOMAIN node /\ reads(g, n) # {}
    BY <2>2
  <2>4. ~(\E i \in 1..I : g = K + 1 + i)
    <3> SUFFICES ASSUME NEW i \in 1..I, g = K + 1 + i
                 PROVE  FALSE
      OBVIOUS
    <3>1. node[g] = InputNode(inputs[i])
      BY <1>12
    <3> HIDE DEF node
    <3>2. InputNode(inputs[i]).input = <<>>
      BY DEF InputNode
    <3>3. node[g].input = <<>>
      BY <3>1, <3>2
    <3> QED
      BY <2>3, <3>3
  <2>5. PICK k \in 1..K : g = k + 1
    BY <1>13, <2>3, <2>4
  <2> HIDE DEF all, node, c
  <2> QED
    BY <1>16, <1>18, <2>3, <2>5 DEF Gates
<1>21. ReadersRight(c)
  <2> HIDE DEF all, c, node
  <2> QED
    BY <1>16, <1>17, <1>20 DEF ReadersRight
<1>22. c = [node |-> c.node, nets |-> c.nets, inputs |-> NetsOf(d.types, "input"),
            outputs |-> NetsOf(d.types, "output"), lazy |-> <<>>]
  <2> HIDE DEF all
  <2> QED
    BY <1>1, <1>16
<1>23. \A n \in DOMAIN all : IsNode(all[n])
  BY <1>15, <1>16
<1>24. Constructed(d, inputs, c)
  <2> HIDE DEF all, node, c
  <2> QED
    BY <1>4, <1>7, <1>8, <1>9, <1>10, <1>16, <1>18, <1>19, <1>21, <1>22, <1>23
       DEF Constructed, names
<1> QED
  BY <1>3, <1>24

LEMMA ConstructRight ==
    ASSUME NEW d, IsDesign(d)
    PROVE  IsCircuit(Construct(d))
<1> DEFINE c == Construct(d)
           K == Len(d.gates)
           ins == NetsOf(d.types, "input")
           driven == {d.gates[k].outName : k \in DOMAIN d.gates}
           names == DOMAIN d.types \cup driven
<1>1. PICK g : /\ g \in [1..Len(g) -> ins] /\ Len(g) \in Nat
               /\ \A i, j \in 1..Len(g) : g[i] = g[j] => i = j
               /\ \A x \in ins : \E i \in 1..Len(g) : g[i] = x
               /\ Constructed(d, g, c)
  BY ConstructMakes
<1> DEFINE I == Len(g)
<1>2. /\ DOMAIN d.gates = 1..K /\ K \in Nat /\ IsFiniteSet(DOMAIN d.types)
      /\ \A x \in DOMAIN d.types : d.types[x] \in {"input", "output", "default"}
      /\ \A x \in names : IsName(x)
      /\ \A x \in ins : x[1] \notin MadePrefixes
      /\ \A k \in 1..K : d.gates[k].inNames \in Seq(driven \cup ins \cup Constants)
      /\ ins \cap driven = {} /\ NetsOf(d.types, "output") \subseteq driven
  BY DEF IsDesign, Constants, MadePrefixes
<1> HIDE DEF c
<1>3. /\ DOMAIN c.node = 2 .. K + I + 1
      /\ \A n \in DOMAIN c.node : IsNode(c.node[n])
      /\ c.inputs = ins /\ c.outputs = NetsOf(d.types, "output")
      /\ DOMAIN c.nets = names
      /\ \A x \in names :
            c.nets[x] = [type |-> IF x \in DOMAIN d.types THEN d.types[x] ELSE "default",
                         input |-> c.nets[x].input]
      /\ ReadersRight(c)
  BY <1>1 DEF Constructed
<1>4. \A k \in 1..K :
         /\ c.node[k + 1].type = "gate"
         /\ c.node[k + 1].outName = d.gates[k].outName
         /\ c.node[k + 1].inNames = d.gates[k].inNames
         /\ c.node[k + 1].input =
               [j \in DOMAIN d.gates[k].inNames |-> NetInput(c.nets, d.gates[k].inNames[j])]
         /\ c.nets[d.gates[k].outName].input = k + 1
  BY <1>1 DEF Constructed
<1>5. \A i \in 1..I :
         /\ c.node[K + 1 + i].type = "input"
         /\ c.node[K + 1 + i].outName = g[i]
         /\ c.node[K + 1 + i].inNames = <<>>
         /\ c.node[K + 1 + i].input = <<>>
         /\ c.nets[g[i]].input = K + 1 + i
  BY <1>1 DEF Constructed
<1>6. \A x \in names :
         \/ \E k \in 1..K : x = d.gates[k].outName
         \/ \E i \in 1..I : x = g[i]
         \/ c.nets[x].input = Null
  BY <1>1 DEF Constructed
<1>7. c = [node |-> c.node, nets |-> c.nets, inputs |-> c.inputs, outputs |-> c.outputs,
           lazy |-> c.lazy]
  BY <1>1 DEF Constructed
<1>8. \A n \in DOMAIN c.node : (\E k \in 1..K : n = k + 1) \/ (\E i \in 1..I : n = K + 1 + i)
  <2> SUFFICES ASSUME NEW n \in 2 .. K + I + 1
               PROVE  (\E k \in 1..K : n = k + 1) \/ (\E i \in 1..I : n = K + 1 + i)
    BY <1>3
  <2>1. K \in Nat /\ I \in Nat
    BY <1>1, <1>2
  <2> HIDE DEF K, I
  <2>2. CASE n <= K + 1
    <3>1. n - 1 \in 1..K /\ n = (n - 1) + 1
      BY <2>1, <2>2
    <3> QED
      BY <3>1
  <2>3. CASE n > K + 1
    <3>1. n - K - 1 \in 1..I /\ n = K + 1 + (n - K - 1)
      BY <2>1, <2>3
    <3> QED
      BY <3>1
  <2> QED
    BY <2>1, <2>2, <2>3
<1>9. \A k \in 1..K : k + 1 \in DOMAIN c.node
  BY <1>1, <1>2, <1>3
<1>10. \A i \in 1..I : K + 1 + i \in DOMAIN c.node
  BY <1>1, <1>2, <1>3
<1>11. \A i \in 1..I : g[i] \in ins /\ g[i] \in names
  BY <1>1 DEF NetsOf
<1>12. \A k \in 1..K : d.gates[k].outName \in driven /\ d.gates[k].outName \in names
  BY <1>2
<1> HIDE DEF I, K, names, driven, ins
<1>13. HasParts(c)
  <2>1. DOMAIN c.node \in SUBSET (Nat \ {0, 1}) /\ IsFiniteSet(DOMAIN c.node)
    <3>1. K \in Nat /\ I \in Nat
      BY <1>1, <1>2 DEF I
    <3>2. IsFiniteSet(2 .. K + I + 1)
      BY <3>1, FS_Interval
    <3> QED
      BY <1>3, <3>1, <3>2
  <2>2. IsFiniteSet(names)
    <3>1. IsFiniteSet(1..K)
      BY <1>2, FS_Interval
    <3>2. IsFiniteSet(driven)
      <4> DEFINE f == [k \in 1..K |-> d.gates[k].outName]
      <4>1. f \in Surjection(1..K, driven)
        BY <1>2 DEF Surjection, driven
      <4> HIDE DEF f
      <4> QED
        BY <3>1, <4>1, FS_Surjection
    <3> QED
      BY <1>2, <3>2, FS_Union DEF names
  <2>3. \A x \in names : /\ c.nets[x].type \in {"input", "output", "default"}
                         /\ c.nets[x] = [type |-> c.nets[x].type, input |-> c.nets[x].input]
                         /\ c.nets[x].type = IF x \in DOMAIN d.types THEN d.types[x] ELSE "default"
    <3> SUFFICES ASSUME NEW x \in names
                 PROVE  /\ c.nets[x].type \in {"input", "output", "default"}
                        /\ c.nets[x] = [type |-> c.nets[x].type, input |-> c.nets[x].input]
                        /\ c.nets[x].type = IF x \in DOMAIN d.types THEN d.types[x] ELSE "default"
      OBVIOUS
    <3> DEFINE type == IF x \in DOMAIN d.types THEN d.types[x] ELSE "default"
    <3>1. c.nets[x] = [type |-> type, input |-> c.nets[x].input]
      BY <1>3
    <3>2. type \in {"input", "output", "default"}
      BY <1>2
    <3> HIDE DEF type
    <3>3. c.nets[x].type = type
      BY <3>1
    <3> QED
      BY <3>1, <3>2, <3>3 DEF type
  <2>4. c.inputs = {x \in names : c.nets[x].type = "input"}
    BY <1>3, <2>3 DEF ins, NetsOf, names
  <2>5. c.outputs = {x \in names : c.nets[x].type = "output"}
    BY <1>3, <2>3 DEF NetsOf, names
  <2>6. /\ \A x \in names : IsName(x)
        /\ \A x \in ins : x[1] \notin MadePrefixes
    BY <1>2
  <2> QED
    BY <1>3, <1>7, <2>1, <2>2, <2>3, <2>4, <2>5, <2>6 DEF HasParts
<1>14. ASSUME NEW x \in driven
       PROVE  \E k \in 1..K : x = d.gates[k].outName
  BY <1>2 DEF driven
<1>15. \A x \in ins : \E i \in 1..I : x = g[i]
  BY <1>1 DEF I
<1>16. \A n \in DOMAIN c.node : n # Null
  <2>1. K \in Nat /\ I \in Nat
    BY <1>1, <1>2 DEF I
  <2> QED
    BY <1>3, <2>1 DEF Null
<1>17. DriversRight(c)
  <2>1. ASSUME NEW n \in DOMAIN c.node
        PROVE  /\ c.node[n].outName \in DOMAIN c.nets
               /\ c.nets[c.node[n].outName].input = n
               /\ c.node[n].type = "input" <=> c.node[n].outName \in c.inputs
    <3>1. CASE \E k \in 1..K : n = k + 1
      <4>1. PICK k \in 1..K : n = k + 1
        BY <3>1
      <4>2. d.gates[k].outName \notin ins
        BY <1>2, <1>12
      <4> QED
        BY <1>3, <1>4, <1>12, <4>1, <4>2
    <3>2. CASE \E i \in 1..I : n = K + 1 + i
      <4>1. PICK i \in 1..I : n = K + 1 + i
        BY <3>2
      <4> QED
        BY <1>3, <1>5, <1>11, <4>1
    <3> QED
      BY <1>8, <3>1, <3>2
  <2>2. ASSUME NEW x \in DOMAIN c.nets, c.nets[x].input # Null
        PROVE  c.nets[x].input \in DOMAIN c.node /\ c.node[c.nets[x].input].outName = x
    <3>1. CASE \E k \in 1..K : x = d.gates[k].outName
      <4>1. PICK k \in 1..K : x = d.gates[k].outName
        BY <3>1
      <4>2. c.nets[x].input = k + 1 /\ c.node[k + 1].outName = x /\ k + 1 \in DOMAIN c.node
        BY <1>4, <1>9, <4>1
      <4> QED
        BY <4>2
    <3>2. CASE \E i \in 1..I : x = g[i]
      BY <1>5, <1>10, <3>2
    <3> QED
      BY <1>3, <1>6, <2>2, <3>1, <3>2
  <2>3. ASSUME NEW x \in c.inputs \cup c.outputs
        PROVE  c.nets[x].input # Null
    <3>1. CASE x \in c.inputs
      BY <1>3, <1>5, <1>10, <1>15, <1>16, <3>1
    <3>2. CASE x \in c.outputs
      <4>1. x \in driven
        BY <1>2, <1>3, <3>2
      <4>2. PICK k \in 1..K : x = d.gates[k].outName
        BY <1>14, <4>1
      <4>3. c.nets[x].input = k + 1 /\ k + 1 \in DOMAIN c.node
        BY <1>4, <1>9, <4>2
      <4> QED
        BY <1>16, <4>3
    <3> QED
      BY <3>1, <3>2
  <2> QED
    BY <2>1, <2>2, <2>3 DEF DriversRight
<1>18. ASSUME NEW x \in driven \cup ins \cup Constants
       PROVE  NetInput(c.nets, x) \in DOMAIN c.node \cup {0, 1} /\ x \in DOMAIN c.nets \cup Constants
  <2>1. Constant0 \notin DOMAIN c.nets /\ Constant1 \notin DOMAIN c.nets
    BY <1>2, <1>3 DEF IsName
  <2>2. CASE x \in Constants
    BY <2>1, <2>2, PointerOf DEF Constants
  <2>3. CASE x \in driven
    <3>1. x \in DOMAIN c.nets /\ c.nets[x].input \in DOMAIN c.node
      <4>1. PICK k \in 1..K : x = d.gates[k].outName
        BY <1>14, <2>3
      <4>2. c.nets[x].input = k + 1 /\ k + 1 \in DOMAIN c.node
        BY <1>4, <1>9, <4>1
      <4> QED
        BY <1>3, <1>12, <4>1, <4>2
    <3> QED
      BY <2>1, <3>1, PointerOf
  <2>4. CASE x \in ins
    <3>1. x \in DOMAIN c.nets /\ c.nets[x].input \in DOMAIN c.node
      BY <1>3, <1>5, <1>10, <1>11, <1>15, <2>4
    <3> QED
      BY <2>1, <3>1, PointerOf
  <2> QED
    BY <2>2, <2>3, <2>4
<1>19. PinsRight(c)
  <2> SUFFICES ASSUME NEW n \in DOMAIN c.node
               PROVE  /\ c.node[n].inNames \in Seq(DOMAIN c.nets \cup Constants)
                      /\ c.node[n].input \in Seq(DOMAIN c.node \cup {0, 1})
                      /\ Len(c.node[n].input) = Len(c.node[n].inNames)
                      /\ c.node[n].type = "input" => c.node[n].inNames = <<>>
                      /\ \A j \in DOMAIN c.node[n].inNames :
                            c.node[n].input[j] = NetInput(c.nets, c.node[n].inNames[j])
    BY DEF PinsRight
  <2>1. CASE \E k \in 1..K : n = k + 1
    <3>1. PICK k \in 1..K : n = k + 1
      BY <2>1
    <3> DEFINE s == d.gates[k].inNames
               p == [j \in DOMAIN s |-> NetInput(c.nets, s[j])]
    <3>2. c.node[n].inNames = s /\ c.node[n].input = p /\ c.node[n].type = "gate"
      BY <1>4, <3>1
    <3>3. s \in Seq(driven \cup ins \cup Constants)
      BY <1>2
    <3> HIDE DEF s
    <3>4. DOMAIN s = 1..Len(s) /\ Len(s) \in Nat /\ \A j \in DOMAIN s : s[j] \in driven \cup ins \cup Constants
      BY <3>3
    <3>5. s \in Seq(DOMAIN c.nets \cup Constants)
      <4>1. s \in [1..Len(s) -> DOMAIN c.nets \cup Constants]
        BY <1>18, <3>3, <3>4
      <4> QED
        BY <3>4, <4>1
    <3>6. p \in Seq(DOMAIN c.node \cup {0, 1}) /\ Len(p) = Len(s)
      <4>1. p \in [1..Len(s) -> DOMAIN c.node \cup {0, 1}]
        BY <1>18, <3>4
      <4> HIDE DEF p
      <4> QED
        BY <3>4, <4>1
    <3>7. \A j \in DOMAIN s : p[j] = NetInput(c.nets, s[j])
      OBVIOUS
    <3> HIDE DEF p
    <3> QED
      BY <3>2, <3>5, <3>6, <3>7
  <2>2. CASE \E i \in 1..I : n = K + 1 + i
    <3>1. c.node[n].inNames = <<>> /\ c.node[n].input = <<>>
      BY <1>5, <2>2
    <3> QED
      BY <3>1
  <2> QED
    BY <1>8, <2>1, <2>2
<1>20. NoCircle(c)
  <2> SUFFICES ASSUME NEW R \in SUBSET Gates(c), R # {}
               PROVE  \E n \in R : \A j \in DOMAIN c.node[n].input : c.node[n].input[j] \notin R
    BY DEF NoCircle
  <2> DEFINE S == {c.node[n].outName : n \in R}
  <2>1. ASSUME NEW n \in R
        PROVE  \E k \in 1..K : n = k + 1
    <3>1. n \in DOMAIN c.node /\ c.node[n].type = "gate"
      BY DEF Gates
    <3> QED
      BY <1>5, <1>8, <3>1
  <2>2. S \in SUBSET driven /\ S # {}
    <3>1. PICK n \in R : TRUE
      OBVIOUS
    <3>2. c.node[n].outName \in S
      BY <3>1
    <3>3. ASSUME NEW m \in R
          PROVE  c.node[m].outName \in driven
      <4>1. PICK k \in 1..K : m = k + 1
        BY <2>1
      <4> QED
        BY <1>4, <1>12, <4>1
    <3>4. S \subseteq driven
      BY <3>3
    <3> HIDE DEF S
    <3> QED
      BY <3>2, <3>4
  <2>3. PICK k \in DOMAIN d.gates :
           /\ d.gates[k].outName \in S
           /\ \A j \in DOMAIN d.gates[k].inNames : d.gates[k].inNames[j] \notin S
    <3> HIDE DEF S
    <3> QED
      BY <2>2 DEF IsDesign, driven
  <2>4. k \in 1..K
    BY <1>2
  <2>5. k + 1 \in R
    <3>1. PICK n \in R : c.node[n].outName = d.gates[k].outName
      BY <2>3
    <3>2. n \in DOMAIN c.node /\ n = c.nets[d.gates[k].outName].input
      BY <1>17, <3>1 DEF Gates, DriversRight
    <3> QED
      BY <1>4, <2>4, <3>2
  <2>6. ASSUME NEW j \in DOMAIN c.node[k + 1].input
        PROVE  c.node[k + 1].input[j] \notin R
    <3> DEFINE x == d.gates[k].inNames[j]
               m == c.node[k + 1].input[j]
    <3>1. j \in DOMAIN d.gates[k].inNames /\ m = NetInput(c.nets, x)
      BY <1>4, <2>4
    <3>2. x \notin S
      BY <2>3, <3>1
    <3>3. x \in driven \cup ins \cup Constants
      BY <1>2, <2>4, <3>1
    <3>4. Constant0 \notin DOMAIN c.nets /\ Constant1 \notin DOMAIN c.nets
      BY <1>2, <1>3 DEF IsName
    <3> HIDE DEF x, m, S
    <3>5. CASE x \in Constants
      <4>1. m \in {0, 1}
        BY <3>1, <3>4, <3>5, PointerOf DEF Constants
      <4>2. \A n \in R : n \in Nat \ {0, 1}
        BY <1>13 DEF Gates, HasParts
      <4> QED
        BY <4>1, <4>2 DEF m
    <3>6. CASE x \notin Constants
      <4>1. x \in DOMAIN c.nets /\ m = c.nets[x].input
        BY <1>18, <3>1, <3>3, <3>4, <3>6, PointerOf
      <4>2. ASSUME m \in R
            PROVE  FALSE
        <5>1. m \in DOMAIN c.node /\ m # Null
          BY <1>16, <4>2 DEF Gates
        <5>2. c.node[m].outName = x
          BY <1>17, <4>1, <5>1 DEF DriversRight
        <5> QED
          BY <3>2, <4>2, <5>2 DEF S
      <4> QED
        BY <4>2 DEF m
    <3> QED
      BY <3>5, <3>6
  <2> QED
    BY <2>5, <2>6
<1> QED
  BY <1>3, <1>13, <1>17, <1>19, <1>20 DEF IsCircuit, c

\* A gate of a circuit is one of a list.
SameGate(n, g) == n.outName = g.outName /\ n.inNames = g.inNames /\ n.function = g.function

LEMMA ConstructParts ==
    ASSUME NEW d, IsDesign(d)
    PROVE  LET c == Construct(d)
           IN  /\ c.inputs = NetsOf(d.types, "input") /\ c.outputs = NetsOf(d.types, "output")
               /\ c.lazy = <<>>
               /\ \A n \in Gates(c) : \E k \in DOMAIN d.gates : SameGate(c.node[n], d.gates[k])
               /\ \A k \in DOMAIN d.gates : \E n \in Gates(c) : SameGate(c.node[n], d.gates[k])
<1> DEFINE c == Construct(d)
           K == Len(d.gates)
<1>1. PICK g : Len(g) \in Nat /\ Constructed(d, g, c)
  BY ConstructMakes
<1> HIDE DEF c
<1>2. DOMAIN d.gates = 1..K /\ K \in Nat
  BY DEF IsDesign
<1>3. c = [node |-> c.node, nets |-> c.nets, inputs |-> NetsOf(d.types, "input"),
           outputs |-> NetsOf(d.types, "output"), lazy |-> <<>>]
  BY <1>1 DEF Constructed
<1>4. /\ DOMAIN c.node = 2 .. K + Len(g) + 1
      /\ \A k \in 1..K : c.node[k + 1].type = "gate" /\ SameGate(c.node[k + 1], d.gates[k])
      /\ \A i \in 1..Len(g) : c.node[K + 1 + i].type = "input"
  BY <1>1 DEF Constructed, SameGate
<1>5. ASSUME NEW n \in Gates(c)
      PROVE  \E k \in DOMAIN d.gates : SameGate(c.node[n], d.gates[k])
  <2>1. n \in 2 .. K + Len(g) + 1 /\ c.node[n].type = "gate"
    BY <1>4 DEF Gates
  <2>2. CASE n <= K + 1
    <3>1. n - 1 \in 1..K /\ (n - 1) + 1 = n
      BY <1>1, <1>2, <2>1, <2>2
    <3> QED
      BY <1>2, <1>4, <3>1
  <2>3. CASE n > K + 1
    <3> DEFINE i == n - (K + 1)
    <3>1. i \in 1..Len(g) /\ K + 1 + i = n
      <4>1. K \in Nat /\ Len(g) \in Nat
        BY <1>1, <1>2
      <4> HIDE DEF K
      <4> QED
        BY <2>1, <2>3, <4>1
    <3>2. c.node[n].type = "input"
      BY <1>4, <3>1
    <3> QED
      BY <2>1, <3>2
  <2> QED
    BY <1>1, <1>2, <2>1, <2>2, <2>3
<1>6. ASSUME NEW k \in DOMAIN d.gates
      PROVE  \E n \in Gates(c) : SameGate(c.node[n], d.gates[k])
  <2>1. k + 1 \in DOMAIN c.node
    BY <1>1, <1>2, <1>4
  <2> QED
    BY <1>2, <1>4, <2>1 DEF Gates
<1>7. c.inputs = NetsOf(d.types, "input") /\ c.outputs = NetsOf(d.types, "output") /\ c.lazy = <<>>
  BY <1>3
<1> QED
  BY <1>5, <1>6, <1>7 DEF c

-------------------------------------------------------------------------------
(***************************************************************************)
(* The designs that copies, cones and miters are constructed from.         *)
(***************************************************************************)
\* A design by its parts.
LEMMA DesignOf ==
    ASSUME NEW T, NEW L, NEW ins, NEW driven,
           ins = NetsOf(T, "input"), driven = {L[k].outName : k \in DOMAIN L},
           IsFiniteSet(DOMAIN T),
           \A x \in DOMAIN T : T[x] \in {"input", "output", "default"},
           \A x \in DOMAIN T \cup driven : IsName(x),
           \A x \in ins : x[1] \notin MadePrefixes,
           DOMAIN L = 1..Len(L), Len(L) \in Nat,
           \A k, l \in DOMAIN L : L[k].outName = L[l].outName => k = l,
           \A k \in DOMAIN L : L[k].inNames \in Seq(driven \cup ins \cup Constants),
           ins \cap driven = {}, NetsOf(T, "output") \subseteq driven,
           \A S \in SUBSET driven : S # {} => \E k \in DOMAIN L :
               L[k].outName \in S /\ \A j \in DOMAIN L[k].inNames : L[k].inNames[j] \notin S
    PROVE  IsDesign([types |-> T, gates |-> L])
<1> DEFINE D == [types |-> T, gates |-> L]
<1>1. D.types = T /\ D.gates = L
  OBVIOUS
<1> HIDE DEF D
<1>2. driven = {D.gates[k].outName : k \in DOMAIN D.gates}
  BY <1>1
<1>3. \A S \in SUBSET {D.gates[k].outName : k \in DOMAIN D.gates} :
         S # {} => \E k \in DOMAIN D.gates :
            /\ D.gates[k].outName \in S
            /\ \A j \in DOMAIN D.gates[k].inNames : D.gates[k].inNames[j] \notin S
  BY <1>1, <1>2
<1>4. /\ IsFiniteSet(DOMAIN D.types)
      /\ \A x \in DOMAIN D.types : D.types[x] \in {"input", "output", "default"}
      /\ \A x \in DOMAIN D.types \cup {D.gates[k].outName : k \in DOMAIN D.gates} : IsName(x)
      /\ \A x \in NetsOf(D.types, "input") : x[1] \notin {"cir1_", "cir2_", "miter_"}
      /\ DOMAIN D.gates = 1..Len(D.gates) /\ Len(D.gates) \in Nat
  BY <1>1, <1>2 DEF MadePrefixes
<1>5. /\ \A k \in DOMAIN D.gates :
            /\ \A l \in DOMAIN D.gates : D.gates[k].outName = D.gates[l].outName => k = l
            /\ D.gates[k].inNames \in Seq({D.gates[l].outName : l \in DOMAIN D.gates}
                                              \cup NetsOf(D.types, "input") \cup {Constant0, Constant1})
      /\ NetsOf(D.types, "input") \cap {D.gates[k].outName : k \in DOMAIN D.gates} = {}
      /\ NetsOf(D.types, "output") \subseteq {D.gates[k].outName : k \in DOMAIN D.gates}
  BY <1>1, <1>2 DEF Constants
<1>6. IsDesign(D)
  BY <1>3, <1>4, <1>5 DEF IsDesign
<1> QED
  BY <1>6 DEF D

\* A net that a node reads is a constant, an input or driven by a gate, and the
\* pointer says which.
LEMMA ReadNet ==
    ASSUME NEW c, IsCircuit(c), NEW n \in DOMAIN c.node, NEW j \in DOMAIN c.node[n].inNames
    PROVE  LET x == c.node[n].inNames[j]
               m == c.node[n].input[j]
           IN  /\ j \in DOMAIN c.node[n].input
               /\ m = NetInput(c.nets, x)
               /\ \/ x \in Constants /\ m \in {0, 1}
                  \/ /\ x \in DOMAIN c.nets /\ m \in DOMAIN c.node
                     /\ m = c.nets[x].input /\ c.node[m].outName = x
                     /\ \/ x \in c.inputs /\ m \in ServiceNodes(c)
                        \/ x \notin c.inputs /\ m \in Gates(c)
<1> DEFINE x == c.node[n].inNames[j]
           m == c.node[n].input[j]
<1>1. HasParts(c) /\ DriversRight(c) /\ PinsRight(c)
  BY DEF IsCircuit
<1>2. /\ c.node[n].inNames \in Seq(DOMAIN c.nets \cup Constants)
      /\ c.node[n].input \in Seq(DOMAIN c.node \cup {0, 1})
      /\ Len(c.node[n].input) = Len(c.node[n].inNames)
      /\ m = NetInput(c.nets, x)
  BY <1>1 DEF PinsRight
<1>3. x \in DOMAIN c.nets \cup Constants /\ m \in DOMAIN c.node \cup {0, 1}
      /\ j \in DOMAIN c.node[n].input
  BY <1>2
<1>4. Constant0 \notin DOMAIN c.nets /\ Constant1 \notin DOMAIN c.nets
  BY <1>1 DEF HasParts, IsName
<1>5. DOMAIN c.node \in SUBSET (Nat \ {0, 1}) /\ \A k \in DOMAIN c.node : c.node[k].type \in {"gate", "input"}
  BY <1>1 DEF HasParts, IsNode
<1> HIDE DEF x, m
<1>6. CASE x \in Constants
  <2>1. m \in {0, 1}
    BY <1>2, <1>4, <1>6, PointerOf DEF Constants
  <2> QED
    BY <1>2, <1>3, <1>6, <2>1 DEF x, m
<1>7. CASE x \in DOMAIN c.nets
  <2>1. m = c.nets[x].input
    BY <1>2, <1>4, <1>7, PointerOf
  <2>2. m # Null => m \in DOMAIN c.node /\ c.node[m].outName = x
    BY <1>1, <1>7, <2>1 DEF DriversRight
  <2>3. m # Null
    BY <1>3, <1>5 DEF Null
  <2>4. c.node[m].type = "input" <=> x \in c.inputs
    BY <1>1, <2>2, <2>3 DEF DriversRight
  <2>5. \/ x \in c.inputs /\ m \in ServiceNodes(c)
        \/ x \notin c.inputs /\ m \in Gates(c)
    BY <1>5, <2>2, <2>3, <2>4 DEF ServiceNodes, Gates
  <2> QED
    BY <1>2, <1>3, <1>7, <2>1, <2>2, <2>3, <2>5 DEF x, m
<1> QED
  BY <1>3, <1>6, <1>7

\* The nodes of a circuit and the nets they drive.
LEMMA DrivenNet ==
    ASSUME NEW c, IsCircuit(c), NEW n \in DOMAIN c.node
    PROVE  LET x == c.node[n].outName
           IN  /\ x \in DOMAIN c.nets /\ c.nets[x].input = n
               /\ IsName(x)
               /\ \A m \in DOMAIN c.node : c.node[m].outName = x => m = n
               /\ n \in Gates(c) => x \notin c.inputs
               /\ n \in ServiceNodes(c) => x \in c.inputs
               /\ n \in Gates(c) \/ n \in ServiceNodes(c)
               /\ ~(n \in Gates(c) /\ n \in ServiceNodes(c))
<1>1. DriversRight(c) /\ HasParts(c)
  BY DEF IsCircuit
<1>2. /\ c.node[n].outName \in DOMAIN c.nets
      /\ \A m \in DOMAIN c.node : c.nets[c.node[m].outName].input = m
      /\ c.node[n].type = "input" <=> c.node[n].outName \in c.inputs
  BY <1>1 DEF DriversRight
<1>3. c.node[n].type \in {"gate", "input"}
  BY <1>1 DEF HasParts, IsNode
<1>4. IsName(c.node[n].outName)
  BY <1>1, <1>2 DEF HasParts
<1>5. /\ n \in Gates(c) <=> c.node[n].type = "gate"
      /\ n \in ServiceNodes(c) <=> c.node[n].type = "input"
  BY DEF Gates, ServiceNodes
<1> QED
  BY <1>2, <1>3, <1>4, <1>5

\* The inputs and the outputs of a circuit have drivers.
LEMMA InputNet ==
    ASSUME NEW c, IsCircuit(c), NEW x \in c.inputs
    PROVE  /\ x \in DOMAIN c.nets /\ c.nets[x].input \in ServiceNodes(c)
           /\ c.node[c.nets[x].input].outName = x
           /\ NetInput(c.nets, x) = c.nets[x].input
           /\ x[1] \notin MadePrefixes
<1>1. DriversRight(c) /\ HasParts(c)
  BY DEF IsCircuit
<1>2. x \in DOMAIN c.nets /\ x[1] \notin MadePrefixes
  BY <1>1 DEF HasParts
<1>3. c.nets[x].input \in DOMAIN c.node /\ c.node[c.nets[x].input].outName = x
  BY <1>1, <1>2 DEF DriversRight
<1>4. c.nets[x].input \in ServiceNodes(c)
  BY <1>1, <1>3 DEF DriversRight, ServiceNodes
<1>5. Constant0 \notin DOMAIN c.nets /\ Constant1 \notin DOMAIN c.nets
  BY <1>1 DEF HasParts, IsName
<1> QED
  BY <1>2, <1>3, <1>4, <1>5, PointerOf

LEMMA OutputNet ==
    ASSUME NEW c, IsCircuit(c), NEW x \in c.outputs
    PROVE  /\ x \in DOMAIN c.nets /\ c.nets[x].input \in Gates(c)
           /\ c.node[c.nets[x].input].outName = x /\ x \notin c.inputs
<1>1. DriversRight(c) /\ HasParts(c)
  BY DEF IsCircuit
<1>2. x \in DOMAIN c.nets /\ x \notin c.inputs
  BY <1>1 DEF HasParts
<1>3. c.nets[x].input \in DOMAIN c.node /\ c.node[c.nets[x].input].outName = x
  BY <1>1, <1>2 DEF DriversRight
<1> QED
  BY <1>2, <1>3, DrivenNet

\* Among any nets that gates drive there is one whose gate reads none of them.
LEMMA NoCircleOfNames ==
    ASSUME NEW c, IsCircuit(c), NEW S, S # {},
           \A x \in S : \E n \in Gates(c) : c.node[n].outName = x
    PROVE  \E n \in Gates(c) :
               /\ c.node[n].outName \in S
               /\ \A j \in DOMAIN c.node[n].inNames : c.node[n].inNames[j] \notin S
<1> DEFINE R == {n \in Gates(c) : c.node[n].outName \in S}
<1>1. R \in SUBSET Gates(c) /\ R # {}
  BY DEF Gates
<1>2. PICK n \in R : \A j \in DOMAIN c.node[n].input : c.node[n].input[j] \notin R
  <2> HIDE DEF R
  <2> QED
    BY <1>1 DEF IsCircuit, NoCircle
<1>3. ASSUME NEW j \in DOMAIN c.node[n].inNames, c.node[n].inNames[j] \in S
      PROVE  FALSE
  <2> DEFINE x == c.node[n].inNames[j]
             m == c.node[n].input[j]
  <2>1. PICK g \in Gates(c) : c.node[g].outName = x
    BY <1>3
  <2>2. g \in DOMAIN c.node /\ n \in DOMAIN c.node
    BY DEF Gates
  <2>3. x \in DOMAIN c.nets /\ x \notin c.inputs /\ c.nets[x].input = g
    BY <2>1, <2>2, DrivenNet
  <2>4. x \notin Constants
    BY <2>1, <2>2, DrivenNet DEF IsName, Constants
  <2>5. j \in DOMAIN c.node[n].input /\ m = g
    BY <2>2, <2>3, <2>4, ReadNet
  <2> QED
    BY <1>2, <1>3, <2>1, <2>5
<1> QED
  BY <1>2, <1>3

\* A list of gates has their names, each once.
LEMMA ListOfGates ==
    ASSUME NEW c, IsCircuit(c), NEW G \in SUBSET Gates(c)
    PROVE  LET L == GateList(c, G)
               is(k, n) == /\ L[k].outName = c.node[n].outName
                           /\ L[k].inNames = c.node[n].inNames
                           /\ L[k].function = c.node[n].function
           IN  /\ DOMAIN L = 1..Len(L) /\ Len(L) \in Nat
               /\ \A k, l \in DOMAIN L : L[k].outName = L[l].outName => k = l
               /\ \A k \in DOMAIN L : \E n \in G : is(k, n)
               /\ \A n \in G : \E k \in DOMAIN L : is(k, n)
<1>1. G \in SUBSET DOMAIN c.node /\ G \in SUBSET Nat /\ IsFiniteSet(G)
  <2>1. IsFiniteSet(DOMAIN c.node) /\ DOMAIN c.node \in SUBSET Nat
    BY DEF IsCircuit, HasParts
  <2>2. G \in SUBSET DOMAIN c.node
    BY DEF Gates
  <2> QED
    BY <2>1, <2>2, FS_Subset
<1>2. \A m, n \in G : c.node[m].outName = c.node[n].outName => m = n
  BY <1>1, DrivenNet
<1>3. G \in SUBSET Nat
  BY <1>1
<1>4. IsFiniteSet(G)
  BY <1>1
<1> QED
  BY <1>2, <1>3, <1>4, GatesListed

\* Names read by gates of c that are constants or in a set of nets are a
\* sequence over the nets of a design that has that set.
LEMMA ReadNames ==
    ASSUME NEW c, IsCircuit(c), NEW n \in DOMAIN c.node, NEW S,
           \A j \in DOMAIN c.node[n].inNames :
               c.node[n].inNames[j] \in DOMAIN c.nets => c.node[n].inNames[j] \in S
    PROVE  c.node[n].inNames \in Seq(S \cup Constants)
<1> DEFINE s == c.node[n].inNames
<1>1. s \in Seq(DOMAIN c.nets \cup Constants)
  BY DEF IsCircuit, PinsRight
<1> HIDE DEF s
<1>2. \A j \in DOMAIN s : s[j] \in DOMAIN c.nets \cup Constants
  BY <1>1
<1>3. \A j \in DOMAIN s : s[j] \in S \cup Constants
  BY <1>2 DEF s
<1>4. DOMAIN s = 1..Len(s) /\ Len(s) \in Nat
  BY <1>1
<1>5. s \in [1..Len(s) -> S \cup Constants]
  BY <1>1, <1>3, <1>4
<1>6. s \in Seq(S \cup Constants)
  BY <1>4, <1>5
<1> QED
  BY <1>6 DEF s

\* The nets and gates of a circuit are a design.
LEMMA CopyDesign ==
    ASSUME NEW c, IsCircuit(c)
    PROVE  IsDesign([types |-> TypesOf(c), gates |-> GateList(c, Gates(c))])
<1> DEFINE T == TypesOf(c)
           L == GateList(c, Gates(c))
           driven == {L[k].outName : k \in DOMAIN L}
           is(k, n) == L[k].outName = c.node[n].outName /\ L[k].inNames = c.node[n].inNames
<1>1. HasParts(c)
  BY DEF IsCircuit
<1>2. /\ DOMAIN T = DOMAIN c.nets /\ IsFiniteSet(DOMAIN T)
      /\ \A x \in DOMAIN T : T[x] = c.nets[x].type /\ T[x] \in {"input", "output", "default"}
      /\ \A x \in DOMAIN T : IsName(x)
  BY <1>1 DEF TypesOf, HasParts
<1>3. NetsOf(T, "input") = c.inputs /\ NetsOf(T, "output") = c.outputs
  BY <1>1, <1>2 DEF NetsOf, HasParts
<1>4. \A x \in c.inputs : x[1] \notin MadePrefixes
  BY <1>1 DEF HasParts
<1>5. /\ DOMAIN L = 1..Len(L) /\ Len(L) \in Nat
      /\ \A k, l \in DOMAIN L : L[k].outName = L[l].outName => k = l
      /\ \A k \in DOMAIN L : \E n \in Gates(c) : is(k, n)
      /\ \A n \in Gates(c) : \E k \in DOMAIN L : is(k, n)
  BY ListOfGates
<1> HIDE DEF T, L
<1>6. ASSUME NEW k \in DOMAIN L
      PROVE  /\ L[k].outName \in DOMAIN c.nets /\ L[k].outName \notin c.inputs
             /\ L[k].inNames \in Seq(driven \cup c.inputs \cup Constants)
  <2>1. PICK n \in Gates(c) : is(k, n)
    BY <1>5
  <2>2. n \in DOMAIN c.node
    BY DEF Gates
  <2>3. L[k].outName \in DOMAIN c.nets /\ L[k].outName \notin c.inputs
    BY <2>1, <2>2, DrivenNet
  <2>4. ASSUME NEW j \in DOMAIN c.node[n].inNames, c.node[n].inNames[j] \in DOMAIN c.nets
        PROVE  c.node[n].inNames[j] \in driven \cup c.inputs
    <3> DEFINE x == c.node[n].inNames[j]
               m == c.node[n].input[j]
    <3>1. x \notin Constants
      BY <1>1, <2>4 DEF HasParts, Constants, IsName
    <3>2. x \in c.inputs \/ (m \in Gates(c) /\ c.node[m].outName = x)
      BY <2>2, <3>1, ReadNet
    <3> QED
      BY <1>5, <3>2
  <2>5. c.node[n].inNames \in Seq((driven \cup c.inputs) \cup Constants)
    <3> HIDE DEF driven
    <3> QED
      BY <2>2, <2>4, ReadNames
  <2> QED
    BY <2>1, <2>3, <2>5
<1>7. ASSUME NEW x \in c.outputs
      PROVE  x \in driven
  BY <1>5, OutputNet
<1>8. driven \subseteq DOMAIN c.nets /\ c.inputs \cap driven = {}
  BY <1>6
<1>9. /\ \A k \in DOMAIN L : L[k].inNames \in Seq(driven \cup c.inputs \cup Constants)
      /\ \A x \in DOMAIN T \cup driven : IsName(x)
  BY <1>2, <1>6, <1>8
<1>10. driven = {L[k].outName : k \in DOMAIN L}
  OBVIOUS
<1>11. ASSUME NEW S \in SUBSET driven, S # {}
       PROVE  \E k \in DOMAIN L :
                  L[k].outName \in S /\ \A j \in DOMAIN L[k].inNames : L[k].inNames[j] \notin S
  <2>1. \A x \in S : \E n \in Gates(c) : c.node[n].outName = x
    BY <1>5
  <2>2. PICK n \in Gates(c) :
           /\ c.node[n].outName \in S
           /\ \A j \in DOMAIN c.node[n].inNames : c.node[n].inNames[j] \notin S
    BY <1>11, <2>1, NoCircleOfNames
  <2>3. PICK k \in DOMAIN L : is(k, n)
    BY <1>5
  <2> QED
    BY <2>2, <2>3
<1> HIDE DEF driven, is
<1>12. /\ IsFiniteSet(DOMAIN T)
       /\ \A x \in DOMAIN T : T[x] \in {"input", "output", "default"}
       /\ DOMAIN L = 1..Len(L) /\ Len(L) \in Nat
       /\ \A k, l \in DOMAIN L : L[k].outName = L[l].outName => k = l
       /\ NetsOf(T, "output") \subseteq driven
  BY <1>2, <1>3, <1>5, <1>7
<1>13. IsDesign([types |-> T, gates |-> L])
  BY <1>3, <1>4, <1>8, <1>9, <1>10, <1>11, <1>12, DesignOf
<1> QED
  BY <1>13 DEF T, L

\* The cone of an output has its driver and what its gates read.
LEMMA ConeClosed ==
    ASSUME NEW c, IsCircuit(c), NEW po \in c.outputs
    PROVE  LET nodes == ConeNodes(c, po)
           IN  /\ nodes \subseteq DOMAIN c.node
               /\ c.nets[po].input \in nodes \cap Gates(c)
               /\ \A n \in nodes \cap Gates(c) : \A j \in DOMAIN c.node[n].input :
                     c.node[n].input[j] \in DOMAIN c.node => c.node[n].input[j] \in nodes
<1> DEFINE root == c.nets[po].input
           reads(n) == ToSet(c.node[n].input)
           closed == {S \in SUBSET Gates(c) :
                         root \in S /\ \A n \in S : reads(n) \cap Gates(c) \subseteq S}
           gates == {n \in Gates(c) : \A S \in closed : n \in S}
           services == {m \in ServiceNodes(c) : \E n \in gates : m \in reads(n)}
<1>1. ConeNodes(c, po) = gates \cup services
  BY DEF ConeNodes
<1>2. Gates(c) \subseteq DOMAIN c.node /\ ServiceNodes(c) \subseteq DOMAIN c.node
      /\ Gates(c) \cap ServiceNodes(c) = {}
  BY DEF Gates, ServiceNodes
<1>3. root \in gates
  BY OutputNet
<1>4. ASSUME NEW n \in gates, NEW j \in DOMAIN c.node[n].input,
             c.node[n].input[j] \in DOMAIN c.node
      PROVE  c.node[n].input[j] \in gates \cup services
  <2> DEFINE m == c.node[n].input[j]
  <2>1. m \in reads(n)
    BY DEF ToSet
  <2>2. CASE m \in Gates(c)
    BY <2>1, <2>2
  <2>3. CASE m \in ServiceNodes(c)
    BY <2>1, <2>3
  <2> QED
    BY <1>4, <2>2, <2>3, DrivenNet
<1>5. (gates \cup services) \cap Gates(c) = gates
  BY <1>2
<1> QED
  BY <1>1, <1>2, <1>3, <1>4, <1>5

\* A cone is a circuit, and its inputs are those among the nodes of the cone.
LEMMA ConeDesign ==
    ASSUME NEW c, IsCircuit(c), NEW po \in c.outputs
    PROVE  \E d : /\ IsDesign(d) /\ ConeOf(c, po) = Construct(d)
                  /\ NetsOf(d.types, "input") =
                        {c.node[n].outName : n \in ConeNodes(c, po) \cap ServiceNodes(c)}
                  /\ NetsOf(d.types, "input") \subseteq c.inputs
                  /\ NetsOf(d.types, "output") = {po}
                  /\ \A k \in DOMAIN d.gates : \E n \in Gates(c) : SameGate(c.node[n], d.gates[k])
<1> DEFINE nodes == ConeNodes(c, po)
           gates == nodes \cap Gates(c)
           root == c.nets[po].input
           T == [name \in {po} \cup {c.node[n].outName : n \in nodes \ {root}} |->
                    IF name = po THEN "output"
                    ELSE IF \E n \in gates : c.node[n].outName = name
                    THEN "default" ELSE "input"]
           L == GateList(c, gates)
           driven == {L[k].outName : k \in DOMAIN L}
           ins == {c.node[n].outName : n \in nodes \cap ServiceNodes(c)}
           is(k, n) == SameGate(c.node[n], L[k])
<1>1. ConeOf(c, po) = Construct([types |-> T, gates |-> L])
  BY DEF ConeOf
<1>2. /\ nodes \subseteq DOMAIN c.node
      /\ root \in gates
      /\ \A n \in gates : \A j \in DOMAIN c.node[n].input :
            c.node[n].input[j] \in DOMAIN c.node => c.node[n].input[j] \in nodes
  BY ConeClosed
<1>3. HasParts(c)
  BY DEF IsCircuit
<1>4. /\ DOMAIN L = 1..Len(L) /\ Len(L) \in Nat
      /\ \A k, l \in DOMAIN L : L[k].outName = L[l].outName => k = l
      /\ \A k \in DOMAIN L : \E n \in gates : is(k, n)
      /\ \A n \in gates : \E k \in DOMAIN L : is(k, n)
  <2>1. gates \in SUBSET Gates(c)
    OBVIOUS
  <2> HIDE DEF gates
  <2> QED
    BY <2>1, ListOfGates DEF SameGate
<1> HIDE DEF L, nodes
<1>5. \A n \in nodes : /\ n \in DOMAIN c.node /\ c.node[n].outName \in DOMAIN c.nets
                       /\ n \in gates => c.node[n].outName \notin c.inputs
                       /\ n \notin gates => n \in ServiceNodes(c) /\ c.node[n].outName \in c.inputs
                       /\ n \in ServiceNodes(c) => n \notin gates
  BY <1>2, DrivenNet
<1>6. driven = {c.node[n].outName : n \in gates}
  BY <1>4 DEF SameGate
<1>7. po \in driven /\ c.node[root].outName = po /\ po \in DOMAIN c.nets
  BY <1>2, <1>6, OutputNet
<1>8. DOMAIN T = {po} \cup {c.node[n].outName : n \in nodes \ {root}}
  OBVIOUS
<1>9. ASSUME NEW x \in DOMAIN T
      PROVE  /\ x \in DOMAIN c.nets
             /\ T[x] \in {"input", "output", "default"}
             /\ T[x] = "output" <=> x = po
             /\ T[x] = "input" <=> x \in ins
  <2>1. x \in DOMAIN c.nets
    BY <1>5, <1>7, <1>8
  <2>2. T[x] = IF x = po THEN "output"
               ELSE IF \E n \in gates : c.node[n].outName = x THEN "default" ELSE "input"
    OBVIOUS
  <2>3. x \in ins <=> ~(\E n \in gates : c.node[n].outName = x)
    <3>1. PICK n \in nodes : c.node[n].outName = x
      BY <1>2, <1>7, <1>8
    <3>2. \A m \in nodes : c.node[m].outName = x => m = n
      BY <1>5, <3>1, DrivenNet
    <3> QED
      BY <1>5, <3>1, <3>2
  <2>4. x = po => \E n \in gates : c.node[n].outName = x
    BY <1>2, <1>7
  <2> HIDE DEF T, ins, gates
  <2> QED
    BY <2>1, <2>2, <2>3, <2>4
<1>10. ins \subseteq DOMAIN T
  <2> SUFFICES ASSUME NEW n \in nodes \cap ServiceNodes(c)
               PROVE  c.node[n].outName \in DOMAIN T
    OBVIOUS
  <2>1. n # root
    BY <1>2, <1>5
  <2> QED
    BY <1>8, <2>1
<1> HIDE DEF T
<1>11. NetsOf(T, "input") = ins /\ NetsOf(T, "output") = {po}
  BY <1>7, <1>8, <1>9, <1>10 DEF NetsOf
<1>12. ins \subseteq c.inputs
  BY <1>5
<1>13. /\ IsFiniteSet(DOMAIN c.nets)
       /\ \A x \in DOMAIN c.nets : IsName(x)
       /\ \A x \in c.inputs : x[1] \notin MadePrefixes
  BY <1>3 DEF HasParts
<1>14. IsFiniteSet(DOMAIN T)
  <2>1. DOMAIN T \in SUBSET DOMAIN c.nets
    BY <1>9
  <2> QED
    BY <1>13, <2>1, FS_Subset
<1>15. driven \subseteq DOMAIN c.nets /\ ins \cap driven = {}
  BY <1>5, <1>6, <1>12
<1>16. ASSUME NEW k \in DOMAIN L
       PROVE  L[k].inNames \in Seq(driven \cup ins \cup Constants)
  <2>1. PICK n \in gates : is(k, n)
    BY <1>4
  <2>2. n \in DOMAIN c.node
    BY <1>2
  <2>3. ASSUME NEW j \in DOMAIN c.node[n].inNames, c.node[n].inNames[j] \in DOMAIN c.nets
        PROVE  c.node[n].inNames[j] \in driven \cup ins
    <3> DEFINE x == c.node[n].inNames[j]
               m == c.node[n].input[j]
    <3>1. x \notin Constants
      BY <1>3, <2>3 DEF HasParts, Constants, IsName
    <3>2. j \in DOMAIN c.node[n].input /\ m \in DOMAIN c.node /\ c.node[m].outName = x
          /\ (m \in Gates(c) \/ m \in ServiceNodes(c))
      BY <2>2, <3>1, ReadNet
    <3>3. m \in nodes
      BY <1>2, <3>2
    <3> QED
      BY <1>6, <3>2, <3>3
  <2>4. c.node[n].inNames \in Seq((driven \cup ins) \cup Constants)
    <3> HIDE DEF driven, ins
    <3> QED
      BY <2>2, <2>3, ReadNames
  <2> QED
    BY <2>1, <2>4 DEF SameGate
<1>17. driven = {L[k].outName : k \in DOMAIN L}
  OBVIOUS
<1>18. ASSUME NEW S \in SUBSET driven, S # {}
       PROVE  \E k \in DOMAIN L :
                  L[k].outName \in S /\ \A j \in DOMAIN L[k].inNames : L[k].inNames[j] \notin S
  <2>1. \A x \in S : \E n \in gates : c.node[n].outName = x
    BY <1>6
  <2>2. PICK n \in Gates(c) :
           /\ c.node[n].outName \in S
           /\ \A j \in DOMAIN c.node[n].inNames : c.node[n].inNames[j] \notin S
    BY <1>18, <2>1, NoCircleOfNames
  <2>3. n \in gates
    <3>1. PICK m \in gates : c.node[m].outName = c.node[n].outName
      BY <2>1, <2>2
    <3>2. n \in DOMAIN c.node /\ m \in DOMAIN c.node
      BY DEF Gates
    <3> QED
      BY <3>1, <3>2, DrivenNet
  <2>4. PICK k \in DOMAIN L : is(k, n)
    BY <1>4, <2>3
  <2> QED
    BY <2>2, <2>4 DEF SameGate
<1> HIDE DEF driven, ins, gates
<1>19. /\ \A x \in DOMAIN T : T[x] \in {"input", "output", "default"}
       /\ \A x \in DOMAIN T \cup driven : IsName(x)
       /\ \A x \in ins : x[1] \notin MadePrefixes
       /\ NetsOf(T, "output") \subseteq driven
  BY <1>7, <1>9, <1>11, <1>12, <1>13, <1>15
<1>20. IsDesign([types |-> T, gates |-> L])
  BY <1>4, <1>11, <1>14, <1>15, <1>16, <1>17, <1>18, <1>19, DesignOf
<1> DEFINE d == [types |-> T, gates |-> L]
<1>21. d.types = T /\ d.gates = L
  OBVIOUS
<1>22. \A k \in DOMAIN L : \E n \in Gates(c) : SameGate(c.node[n], L[k])
  BY <1>4 DEF gates
<1>23. ConeOf(c, po) = Construct(d)
  BY <1>1 DEF T, L, gates, nodes
<1> HIDE DEF d
<1>24. IsDesign(d) /\ ins = {c.node[n].outName : n \in ConeNodes(c, po) \cap ServiceNodes(c)}
  BY <1>20 DEF d, ins, nodes
<1> QED
  BY <1>11, <1>12, <1>21, <1>22, <1>23, <1>24

LEMMA ConeIsCircuit ==
    ASSUME NEW c, IsCircuit(c), NEW po \in c.outputs
    PROVE  /\ IsCircuit(ConeOf(c, po))
           /\ ConeOf(c, po).inputs =
                 {c.node[n].outName : n \in ConeNodes(c, po) \cap ServiceNodes(c)}
BY ConeDesign, ConstructParts, ConstructRight

\* What a sequence that is put in front of another is followed by.
LEMMA InFront ==
    ASSUME NEW S, NEW s \in Seq(S), NEW t \in Seq(S), s # <<>>
    PROVE  /\ s \o t \in Seq(S) /\ s \o t # <<>> /\ (s \o t)[1] = s[1]
           /\ Len(s \o t) = Len(s) + Len(t)
           /\ \A i \in 1..Len(t) : (s \o t)[Len(s) + i] = t[i]
<1>1. /\ s \o t \in Seq(S) /\ Len(s \o t) = Len(s) + Len(t)
      /\ \A i \in 1 .. Len(s) + Len(t) :
            (s \o t)[i] = IF i <= Len(s) THEN s[i] ELSE t[i - Len(s)]
  BY ConcatProperties
<1>2. Len(s) \in Nat /\ Len(t) \in Nat /\ Len(s) # 0
  BY EmptySeq, LenProperties
<1>3. (s \o t)[1] = s[1] /\ Len(s \o t) # 0
  BY <1>1, <1>2
<1>4. ASSUME NEW i \in 1..Len(t)
      PROVE  (s \o t)[Len(s) + i] = t[i]
  <2>1. Len(s) + i \in 1 .. Len(s) + Len(t) /\ ~(Len(s) + i <= Len(s)) /\ (Len(s) + i) - Len(s) = i
    BY <1>2
  <2> QED
    BY <1>1, <2>1
<1>5. s \o t # <<>>
  BY <1>3
<1> QED
  BY <1>1, <1>3, <1>4, <1>5

\* A sequence of one part.
LEMMA OnePart ==
    ASSUME NEW S, NEW p \in S
    PROVE  <<p>> \in Seq(S) /\ <<p>> # <<>> /\ Len(<<p>>) = 1 /\ <<p>>[1] = p
OBVIOUS

\* A sequence is one of its elements, and of any others.
IsSequence(s) == s \in Seq(ToSet(s))

LEMMA SequenceOf ==
    ASSUME NEW S, NEW s \in Seq(S)
    PROVE  IsSequence(s)
<1>1. DOMAIN s = 1..Len(s) /\ Len(s) \in Nat /\ s \in [1..Len(s) -> S]
  BY LenProperties
<1>2. s \in [1..Len(s) -> ToSet(s)]
  BY <1>1 DEF ToSet
<1> QED
  BY <1>1, <1>2 DEF IsSequence

LEMMA NoPositions ==
    ASSUME NEW s, IsSequence(s), DOMAIN s = DOMAIN <<>>
    PROVE  s = <<>>
<1>1. DOMAIN s = 1..Len(s) /\ Len(s) \in Nat
  BY DEF IsSequence
<1>2. Len(s) = 0
  <2>1. 1 \notin 1..Len(s)
    BY <1>1
  <2> QED
    BY <1>1, <2>1
<1> QED
  BY <1>2 DEF IsSequence

LEMMA SequenceIn ==
    ASSUME NEW s, IsSequence(s), NEW S, ToSet(s) \subseteq S
    PROVE  s \in Seq(S)
<1>1. Len(s) \in Nat /\ s \in [1..Len(s) -> ToSet(s)]
  BY LenProperties DEF IsSequence
<1>2. s \in [1..Len(s) -> S]
  BY <1>1
<1> QED
  BY <1>1, <1>2

\* A prefix shows, and different names stay different.
LEMMA PrefixedName ==
    ASSUME NEW prefix, NEW x, IsSequence(x)
    PROVE  /\ IsSequence(Prefixed(prefix, x)) /\ Prefixed(prefix, x) # <<>>
           /\ Prefixed(prefix, x)[1] = prefix
           /\ \A y : IsSequence(y) /\ Prefixed(prefix, x) = Prefixed(prefix, y) => x = y
<1>1. ASSUME NEW y, IsSequence(y)
      PROVE  /\ IsSequence(Prefixed(prefix, y)) /\ Prefixed(prefix, y) # <<>>
             /\ Len(Prefixed(prefix, y)) = 1 + Len(y)
             /\ Prefixed(prefix, y)[1] = prefix
             /\ \A i \in 1..Len(y) : Prefixed(prefix, y)[1 + i] = y[i]
  <2> DEFINE S == ToSet(y) \cup {prefix}
  <2>1. y \in Seq(S)
    BY <1>1, SequenceIn
  <2>2. <<prefix>> \in Seq(S) /\ <<prefix>> # <<>> /\ Len(<<prefix>>) = 1 /\ <<prefix>>[1] = prefix
    BY OnePart
  <2> HIDE DEF S
  <2>3. Prefixed(prefix, y) \in Seq(S)
    BY <2>1, <2>2, InFront DEF Prefixed
  <2> QED
    BY <2>1, <2>2, <2>3, InFront, SequenceOf DEF Prefixed
<1>2. ASSUME NEW y, IsSequence(y), Prefixed(prefix, x) = Prefixed(prefix, y)
      PROVE  x = y
  <2> DEFINE S == ToSet(x) \cup ToSet(y)
  <2>1. x \in Seq(S) /\ y \in Seq(S)
    BY <1>2, SequenceIn
  <2> HIDE DEF S
  <2>2. Len(x) \in Nat /\ Len(y) \in Nat
    BY <2>1
  <2>3. 1 + Len(x) = 1 + Len(y)
    BY <1>1, <1>2
  <2>4. Len(x) = Len(y)
    BY <2>2, <2>3
  <2>5. \A i \in 1..Len(x) : x[i] = y[i]
    BY <1>1, <1>2, <2>4
  <2> QED
    BY <2>1, <2>4, <2>5, SeqEqual
<1> QED
  BY <1>1, <1>2

\* A sequence that does not begin like a constant is a name.
LEMMA UnlikeConstants ==
    ASSUME NEW x, IsSequence(x), x # <<>>, x[1] \in MadePrefixes \cup {"not_"}
    PROVE  IsName(x)
<1>1. Constant0[1] = "%item_constant_0%" /\ Constant1[1] = "%item_constant_1%"
  BY DEF Constant0, Constant1
<1>2. x # Constant0 /\ x # Constant1
  BY <1>1 DEF MadePrefixes
<1> QED
  BY <1>2 DEF IsName, IsSequence

\* The name of a miter's output.
LEMMA MiterNamed ==
    ASSUME NEW x, IsSequence(x), NEW y, IsSequence(y)
    PROVE  IsName(MiterName(x, y)) /\ MiterName(x, y)[1] = "miter_"
<1> DEFINE a == Prefixed("cir1_", x)
           b == Prefixed("cir2_", y)
           S == ToSet(a) \cup ToSet(b) \cup {"miter_", "_"}
           front == <<"miter_">> \o a
           middle == front \o <<"_">>
           name == middle \o b
<1>1. IsSequence(a) /\ IsSequence(b)
  BY PrefixedName
<1> HIDE DEF a, b
<1>2. a \in Seq(S) /\ b \in Seq(S)
  BY <1>1, SequenceIn
<1>3. "miter_" \in S /\ "_" \in S
  OBVIOUS
<1> HIDE DEF S
<1>4. /\ <<"miter_">> \in Seq(S) /\ <<"miter_">> # <<>> /\ <<"miter_">>[1] = "miter_"
      /\ <<"_">> \in Seq(S)
  BY <1>3, OnePart
<1>5. front \in Seq(S) /\ front # <<>> /\ front[1] = "miter_"
  BY <1>2, <1>4, InFront
<1> HIDE DEF front
<1>6. middle \in Seq(S) /\ middle # <<>> /\ middle[1] = "miter_"
  BY <1>4, <1>5, InFront
<1> HIDE DEF middle
<1>7. name \in Seq(S) /\ name # <<>> /\ name[1] = "miter_"
  BY <1>2, <1>6, InFront
<1> HIDE DEF name
<1>8. IsName(name)
  BY <1>7, SequenceOf, UnlikeConstants DEF MadePrefixes
<1>9. MiterName(x, y) = name
  BY DEF MiterName, name, middle, front, a, b
<1> QED
  BY <1>7, <1>8, <1>9

\* A sequence, another and one element more.
LEMMA Joined ==
    ASSUME NEW s, IsSequence(s), NEW t, IsSequence(t), NEW x
    PROVE  LET L == s \o t \o <<x>>
               A == Len(s)
               B == Len(t)
           IN  /\ DOMAIN L = 1..Len(L) /\ Len(L) \in Nat
               /\ \A k \in 1..A : k \in DOMAIN L /\ L[k] = s[k]
               /\ \A k \in 1..B : A + k \in DOMAIN L /\ L[A + k] = t[k]
               /\ A + B + 1 \in DOMAIN L /\ L[A + B + 1] = x
               /\ \A k \in DOMAIN L : \/ k \in 1..A
                                      \/ \E i \in 1..B : k = A + i
                                      \/ k = A + B + 1
<1> DEFINE S == ToSet(s) \cup ToSet(t) \cup {x}
           A == Len(s)
           B == Len(t)
           u == s \o t
           L == u \o <<x>>
<1>1. s \in Seq(S) /\ t \in Seq(S)
  BY SequenceIn
<1>2. <<x>> \in Seq(S) /\ Len(<<x>>) = 1 /\ <<x>>[1] = x
  OBVIOUS
<1> HIDE DEF S
<1>3. A \in Nat /\ B \in Nat
  BY <1>1
<1>4. /\ u \in Seq(S) /\ Len(u) = A + B
      /\ \A i \in 1 .. A + B : u[i] = IF i <= A THEN s[i] ELSE t[i - A]
  BY <1>1, ConcatProperties
<1> HIDE DEF u
<1>5. /\ L \in Seq(S) /\ Len(L) = A + B + 1
      /\ \A i \in 1 .. A + B + 1 : L[i] = IF i <= A + B THEN u[i] ELSE <<x>>[i - (A + B)]
  BY <1>2, <1>4, ConcatProperties
<1> HIDE DEF L, A, B
<1>6. DOMAIN L = 1 .. A + B + 1 /\ Len(L) \in Nat /\ DOMAIN L = 1..Len(L)
  BY <1>3, <1>5
<1>7. ASSUME NEW k \in 1..A
      PROVE  k \in DOMAIN L /\ L[k] = s[k]
  <2>1. k \in 1 .. A + B /\ k \in 1 .. A + B + 1 /\ k <= A /\ k <= A + B
    BY <1>3
  <2> QED
    BY <1>4, <1>5, <1>6, <2>1
<1>8. ASSUME NEW k \in 1..B
      PROVE  A + k \in DOMAIN L /\ L[A + k] = t[k]
  <2> DEFINE i == A + k
  <2>1. i \in 1 .. A + B /\ i \in 1 .. A + B + 1 /\ ~(i <= A) /\ i <= A + B /\ i - A = k
    BY <1>3
  <2> HIDE DEF i
  <2>2. u[i] = t[i - A] /\ L[i] = u[i]
    BY <1>4, <1>5, <2>1
  <2>3. i \in DOMAIN L /\ L[i] = t[k]
    BY <1>6, <2>1, <2>2
  <2> QED
    BY <2>3 DEF i
<1>9. A + B + 1 \in DOMAIN L /\ L[A + B + 1] = x
  <2> DEFINE i == A + B + 1
  <2>1. i \in 1 .. A + B + 1 /\ ~(i <= A + B) /\ i - (A + B) = 1
    BY <1>3
  <2> HIDE DEF i
  <2>2. L[i] = <<x>>[i - (A + B)]
    BY <1>5, <2>1
  <2>3. i \in DOMAIN L /\ L[i] = x
    BY <1>2, <1>6, <2>1, <2>2
  <2> QED
    BY <2>3 DEF i
<1>10. ASSUME NEW k \in DOMAIN L
       PROVE  k \in 1..A \/ (\E i \in 1..B : k = A + i) \/ k = A + B + 1
  <2>1. k \in 1 .. A + B + 1
    BY <1>6
  <2>2. CASE k \in A + 1 .. A + B
    <3>1. k - A \in 1..B /\ k = A + (k - A)
      BY <1>3, <2>2
    <3> QED
      BY <3>1
  <2>3. k \in 1..A \/ k \in A + 1 .. A + B \/ k = A + B + 1
    BY <1>3, <2>1
  <2> QED
    BY <2>2, <2>3
<1> QED
  BY <1>6, <1>7, <1>8, <1>9, <1>10 DEF L, u, A, B

\* The gates of a circuit as getMiter names them, and its nets.
MiterGates(c, prefix) ==
    LET list == GateList(c, Gates(c))
    IN  [k \in DOMAIN list |->
            [function |-> list[k].function,
             inNames  |-> [j \in DOMAIN list[k].inNames |->
                              MiterNetName(c, prefix, list[k].inNames[j])],
             outName  |-> Prefixed(prefix, list[k].outName)]]

MiterNets(c, prefix) == {MiterNetName(c, prefix, name) : name \in DOMAIN c.nets}

MiterDriven(c, prefix) == {Prefixed(prefix, c.node[n].outName) : n \in Gates(c)}

\* The gate g of a miter is this node.
IsMiterGate(c, prefix, n, g) ==
    /\ g.function = n.function /\ g.outName = Prefixed(prefix, n.outName)
    /\ g.inNames = [j \in DOMAIN n.inNames |-> MiterNetName(c, prefix, n.inNames[j])]

\* Constants and inputs keep their names in a miter.
LEMMA MiterNet ==
    ASSUME NEW c, IsCircuit(c), NEW prefix, NEW x
    PROVE  /\ x \in Constants => MiterNetName(c, prefix, x) = x
           /\ x \in c.inputs => MiterNetName(c, prefix, x) = x
           /\ x \in DOMAIN c.nets /\ x \notin c.inputs =>
                 MiterNetName(c, prefix, x) = Prefixed(prefix, x)
<1>1. HasParts(c)
  BY DEF IsCircuit
<1>2. /\ \A y \in DOMAIN c.nets : y \notin Constants
      /\ c.inputs = {y \in DOMAIN c.nets : c.nets[y].type = "input"}
  BY <1>1 DEF HasParts, IsName, Constants
<1> QED
  BY <1>2 DEF MiterNetName, Constants

LEMMA MiterGatesOf ==
    ASSUME NEW c, IsCircuit(c), NEW prefix, prefix \in {"cir1_", "cir2_"}
    PROVE  LET P == MiterGates(c, prefix)
               driven == MiterDriven(c, prefix)
           IN  /\ IsSequence(P)
               /\ \A k, l \in DOMAIN P : P[k].outName = P[l].outName => k = l
               /\ {P[k].outName : k \in DOMAIN P} = driven
               /\ \A k \in DOMAIN P : P[k].inNames \in Seq(driven \cup c.inputs \cup Constants)
               /\ \A x \in driven : IsName(x) /\ x[1] = prefix
               /\ \A S \in SUBSET driven : S # {} => \E k \in DOMAIN P :
                     /\ P[k].outName \in S
                     /\ \A j \in DOMAIN P[k].inNames : P[k].inNames[j] \notin S
               /\ \A n \in Gates(c) : \E k \in DOMAIN P : IsMiterGate(c, prefix, c.node[n], P[k])
               /\ \A k \in DOMAIN P : \E n \in Gates(c) : P[k].function = c.node[n].function
<1> DEFINE L == GateList(c, Gates(c))
           P == MiterGates(c, prefix)
           driven == MiterDriven(c, prefix)
           is(k, n) == /\ L[k].outName = c.node[n].outName /\ L[k].inNames = c.node[n].inNames
                       /\ L[k].function = c.node[n].function
           names(k) == [j \in DOMAIN L[k].inNames |-> MiterNetName(c, prefix, L[k].inNames[j])]
<1>1. /\ DOMAIN L = 1..Len(L) /\ Len(L) \in Nat
      /\ \A k, l \in DOMAIN L : L[k].outName = L[l].outName => k = l
      /\ \A k \in DOMAIN L : \E n \in Gates(c) : is(k, n)
      /\ \A n \in Gates(c) : \E k \in DOMAIN L : is(k, n)
  BY ListOfGates
<1>2. /\ DOMAIN P = DOMAIN L
      /\ \A k \in DOMAIN L : /\ P[k].outName = Prefixed(prefix, L[k].outName)
                             /\ P[k].inNames = names(k)
                             /\ P[k].function = L[k].function
  BY DEF MiterGates
<1> HIDE DEF L
<1>3. IsSequence(P)
  <2>1. P = [k \in 1..Len(L) |-> P[k]]
    BY <1>1 DEF MiterGates, L
  <2> HIDE DEF P
  <2>2. P \in [1..Len(L) -> ToSet(P)]
    BY <2>1 DEF ToSet
  <2>3. P \in Seq(ToSet(P))
    BY <1>1, <2>2
  <2> QED
    BY <2>3 DEF IsSequence
<1> HIDE DEF P
<1>4. ASSUME NEW n \in Gates(c)
      PROVE  n \in DOMAIN c.node /\ IsSequence(c.node[n].outName)
  <2>1. n \in DOMAIN c.node
    BY DEF Gates
  <2> QED
    BY <2>1, DrivenNet DEF IsName, IsSequence
<1>5. \A k \in DOMAIN L : IsSequence(L[k].outName)
  BY <1>1, <1>4
<1> HIDE DEF names
<1>6. ASSUME NEW k \in DOMAIN P, NEW l \in DOMAIN P, P[k].outName = P[l].outName
      PROVE  k = l
  <2>1. Prefixed(prefix, L[k].outName) = Prefixed(prefix, L[l].outName)
    BY <1>2, <1>6
  <2>2. L[k].outName = L[l].outName
    BY <1>2, <1>5, <2>1, PrefixedName
  <2> QED
    BY <1>1, <1>2, <2>2
<1>7. {P[k].outName : k \in DOMAIN P} = driven
  <2>1. ASSUME NEW k \in DOMAIN P
        PROVE  P[k].outName \in driven
    BY <1>1, <1>2 DEF MiterDriven
  <2>2. ASSUME NEW n \in Gates(c)
        PROVE  \E k \in DOMAIN P : P[k].outName = Prefixed(prefix, c.node[n].outName)
    <3>1. PICK k \in DOMAIN L : is(k, n)
      BY <1>1
    <3>2. P[k].outName = Prefixed(prefix, c.node[n].outName)
      BY <1>2, <3>1
    <3> QED
      BY <1>2, <3>2
  <2> QED
    BY <2>1, <2>2 DEF MiterDriven
<1>8. ASSUME NEW x \in driven
      PROVE  IsName(x) /\ x[1] = prefix
  <2>1. PICK n \in Gates(c) : x = Prefixed(prefix, c.node[n].outName)
    BY DEF MiterDriven
  <2> QED
    BY <1>4, <2>1, PrefixedName, UnlikeConstants DEF MadePrefixes
<1>9. ASSUME NEW k \in DOMAIN P
      PROVE  P[k].inNames \in Seq(driven \cup c.inputs \cup Constants)
  <2>1. PICK n \in Gates(c) : is(k, n)
    BY <1>1, <1>2
  <2> USE DEF names
  <2> DEFINE s == c.node[n].inNames
             S == driven \cup c.inputs \cup Constants
             t == [j \in DOMAIN s |-> MiterNetName(c, prefix, s[j])]
  <2>2. P[k].inNames = t
    BY <1>2, <2>1
  <2>3. s \in Seq(DOMAIN c.nets \cup Constants)
    BY <1>4 DEF IsCircuit, PinsRight
  <2>4. DOMAIN s = 1..Len(s) /\ Len(s) \in Nat
    <3> HIDE DEF s
    <3> QED
      BY <2>3
  <2>5. ASSUME NEW j \in DOMAIN s
        PROVE  MiterNetName(c, prefix, s[j]) \in S
    <3>1. \/ s[j] \in Constants
          \/ s[j] \in c.inputs
          \/ /\ s[j] \in DOMAIN c.nets /\ s[j] \notin c.inputs
             /\ c.node[n].input[j] \in Gates(c)
             /\ c.node[c.node[n].input[j]].outName = s[j]
      BY <1>4, ReadNet
    <3> QED
      BY <3>1, MiterNet DEF MiterDriven
  <2> HIDE DEF S, s
  <2>6. t \in [1..Len(s) -> S]
    BY <2>4, <2>5
  <2> HIDE DEF t
  <2>7. t \in Seq(S)
    BY <2>4, <2>6
  <2> QED
    BY <2>2, <2>7 DEF S
<1>10. ASSUME NEW S \in SUBSET driven, S # {}
       PROVE  \E k \in DOMAIN P :
                 /\ P[k].outName \in S
                 /\ \A j \in DOMAIN P[k].inNames : P[k].inNames[j] \notin S
  <2> DEFINE R == {x \in {c.node[n].outName : n \in Gates(c)} : Prefixed(prefix, x) \in S}
  <2>1. R # {} /\ \A x \in R : \E n \in Gates(c) : c.node[n].outName = x
    BY <1>10 DEF MiterDriven
  <2>2. PICK n \in Gates(c) :
           /\ c.node[n].outName \in R
           /\ \A j \in DOMAIN c.node[n].inNames : c.node[n].inNames[j] \notin R
    <3> HIDE DEF R
    <3> QED
      BY <2>1, NoCircleOfNames
  <2>3. PICK k \in DOMAIN L : is(k, n)
    BY <1>1
  <2>4. k \in DOMAIN P /\ P[k].outName \in S
    BY <1>2, <2>2, <2>3
  <2>5. P[k].inNames = [j \in DOMAIN c.node[n].inNames |->
                           MiterNetName(c, prefix, c.node[n].inNames[j])]
    BY <1>2, <2>3 DEF names
  <2>6. ASSUME NEW j \in DOMAIN c.node[n].inNames
        PROVE  MiterNetName(c, prefix, c.node[n].inNames[j]) \notin S
    <3> DEFINE x == c.node[n].inNames[j]
               m == c.node[n].input[j]
    <3>1. \/ x \in Constants
          \/ x \in c.inputs
          \/ /\ x \in DOMAIN c.nets /\ x \notin c.inputs
             /\ m \in Gates(c) /\ c.node[m].outName = x
      BY <1>4, ReadNet
    <3>2. x \notin R
      BY <2>2
    <3>3. \A y \in S : IsName(y) /\ y[1] \in MadePrefixes
      BY <1>8 DEF MadePrefixes
    <3>4. CASE x \in Constants
      BY <3>3, <3>4, MiterNet DEF IsName, Constants
    <3>5. CASE x \in c.inputs
      BY <3>3, <3>5, MiterNet, InputNet
    <3>6. CASE x \notin c.inputs /\ x \in DOMAIN c.nets /\ m \in Gates(c) /\ c.node[m].outName = x
      BY <3>2, <3>6, MiterNet
    <3> QED
      BY <3>1, <3>4, <3>5, <3>6
  <2> QED
    BY <2>4, <2>5, <2>6
<1>11. ASSUME NEW n \in Gates(c)
       PROVE  \E k \in DOMAIN P : IsMiterGate(c, prefix, c.node[n], P[k])
  <2>1. PICK k \in DOMAIN L : is(k, n)
    BY <1>1
  <2>2. k \in DOMAIN P /\ IsMiterGate(c, prefix, c.node[n], P[k])
    BY <1>2, <2>1 DEF IsMiterGate, names
  <2> QED
    BY <2>2
<1>12. \A k \in DOMAIN P : \E n \in Gates(c) : P[k].function = c.node[n].function
  BY <1>1, <1>2
<1> QED
  BY <1>3, <1>6, <1>7, <1>8, <1>9, <1>10, <1>11, <1>12 DEF P

\* The names of a circuit's nets in a miter.
LEMMA MiterNetsOf ==
    ASSUME NEW c, IsCircuit(c), NEW prefix, prefix \in {"cir1_", "cir2_"}
    PROVE  /\ IsFiniteSet(MiterNets(c, prefix))
           /\ \A x \in MiterNets(c, prefix) :
                 IsName(x) /\ (x \in c.inputs \/ x[1] = prefix)
           /\ c.inputs \subseteq MiterNets(c, prefix)
<1>1. HasParts(c)
  BY DEF IsCircuit
<1>2. /\ IsFiniteSet(DOMAIN c.nets) /\ \A x \in DOMAIN c.nets : IsName(x)
      /\ c.inputs \subseteq DOMAIN c.nets
  BY <1>1 DEF HasParts
<1>3. IsFiniteSet(MiterNets(c, prefix))
  <2> DEFINE h == [x \in DOMAIN c.nets |-> MiterNetName(c, prefix, x)]
  <2>1. h \in Surjection(DOMAIN c.nets, MiterNets(c, prefix))
    BY DEF Surjection, MiterNets
  <2> HIDE DEF h
  <2> QED
    BY <1>2, <2>1, FS_Surjection
<1>4. ASSUME NEW y \in MiterNets(c, prefix)
      PROVE  IsName(y) /\ (y \in c.inputs \/ y[1] = prefix)
  <2>1. PICK x \in DOMAIN c.nets : y = MiterNetName(c, prefix, x)
    BY DEF MiterNets
  <2>2. CASE x \in c.inputs
    BY <1>2, <2>1, <2>2, MiterNet
  <2>3. CASE x \notin c.inputs
    <3>1. y = Prefixed(prefix, x)
      BY <2>1, <2>3, MiterNet
    <3>2. IsSequence(x)
      BY <1>2 DEF IsName, IsSequence
    <3> QED
      BY <3>1, <3>2, PrefixedName, UnlikeConstants DEF MadePrefixes
  <2> QED
    BY <2>2, <2>3
<1>5. c.inputs \subseteq MiterNets(c, prefix)
  BY <1>2, MiterNet DEF MiterNets
<1> QED
  BY <1>3, <1>4, <1>5


\* The output of a circuit that getMiter joins.
TheOutput(c) == CHOOSE name \in c.outputs : TRUE


\* The functions of a circuit's gates.
FunctionsUsed(c) == {c.node[n].function : n \in Gates(c)}

\* The design of a miter.
IsMiterDesign(c1, c2, function, po1, po2, d) ==
    /\ IsDesign(d) /\ MiterOf(c1, c2, function) = Construct(d)
    /\ NetsOf(d.types, "input") = c1.inputs \cup c2.inputs
    /\ NetsOf(d.types, "output") = {MiterName(po1, po2)}
    /\ \A n \in Gates(c1) : \E k \in DOMAIN d.gates :
          IsMiterGate(c1, "cir1_", c1.node[n], d.gates[k])
    /\ \A n \in Gates(c2) : \E k \in DOMAIN d.gates :
          IsMiterGate(c2, "cir2_", c2.node[n], d.gates[k])
    /\ \E k \in DOMAIN d.gates :
          /\ d.gates[k].function = function
          /\ d.gates[k].outName = MiterName(po1, po2)
          /\ d.gates[k].inNames = <<Prefixed("cir1_", po1), Prefixed("cir2_", po2)>>
    /\ \A k \in DOMAIN d.gates :
          d.gates[k].function \in FunctionsUsed(c1) \cup FunctionsUsed(c2) \cup {function}

\* A miter of two circuits with outputs is a circuit.
LEMMA MiterDesign ==
    ASSUME NEW c1, IsCircuit(c1), c1.outputs # {},
           NEW c2, IsCircuit(c2), c2.outputs # {}, NEW function,
           NEW po1, po1 = TheOutput(c1), NEW po2, po2 = TheOutput(c2)
    PROVE  \E d : IsMiterDesign(c1, c2, function, po1, po2, d)
<1> DEFINE G1 == MiterGates(c1, "cir1_")
           G2 == MiterGates(c2, "cir2_")
           D1 == MiterDriven(c1, "cir1_")
           D2 == MiterDriven(c2, "cir2_")
           N1 == MiterNets(c1, "cir1_")
           N2 == MiterNets(c2, "cir2_")
           inputs == c1.inputs \cup c2.inputs
           output == MiterName(po1, po2)
           pins == <<Prefixed("cir1_", po1), Prefixed("cir2_", po2)>>
           top == [function |-> function, outName |-> output, inNames |-> pins]
           T == [name \in N1 \cup N2 \cup {output} |->
                    IF name = output THEN "output"
                    ELSE IF name \in inputs THEN "input" ELSE "default"]
           L == G1 \o G2 \o <<top>>
           driven == D1 \cup D2 \cup {output}
           A == Len(G1)
           B == Len(G2)
<1>1. \A c : IsCircuit(c) => NetsOf(TypesOf(c), "input") = c.inputs
  BY DEF IsCircuit, HasParts, NetsOf, TypesOf
<1>2. MiterOf(c1, c2, function) = Construct([types |-> T, gates |-> L])
  <2>1. NetsOf(TypesOf(c1), "input") \cup NetsOf(TypesOf(c2), "input") = inputs
    BY <1>1
  <2>2. MiterOf(c1, c2, function) =
            Construct(
                [types |-> [name \in N1 \cup N2 \cup {output} |->
                               IF name = output THEN "output"
                               ELSE IF name \in NetsOf(TypesOf(c1), "input")
                                               \cup NetsOf(TypesOf(c2), "input")
                               THEN "input" ELSE "default"],
                 gates |-> L])
    BY DEF MiterOf, MiterGates, MiterNets, TheOutput
  <2> HIDE DEF inputs, output, N1, N2, L
  <2> QED
    BY <2>1, <2>2, Zenon
<1>3. /\ po1 \in c1.outputs /\ po2 \in c2.outputs
      /\ Prefixed("cir1_", po1) \in D1 /\ Prefixed("cir2_", po2) \in D2
  <2>1. po1 \in c1.outputs /\ po2 \in c2.outputs
    BY DEF TheOutput
  <2>2. \E n \in Gates(c1) : c1.node[n].outName = po1
    BY <2>1, OutputNet
  <2>3. \E n \in Gates(c2) : c2.node[n].outName = po2
    BY <2>1, OutputNet
  <2> QED
    BY <2>1, <2>2, <2>3 DEF MiterDriven
<1>4. IsName(output) /\ output[1] = "miter_"
  <2>1. IsName(po1) /\ IsName(po2)
    BY <1>3, OutputNet DEF IsCircuit, HasParts
  <2> QED
    BY <2>1, MiterNamed DEF IsName, IsSequence
<1>5. /\ IsSequence(G1)
      /\ \A k, l \in DOMAIN G1 : G1[k].outName = G1[l].outName => k = l
      /\ {G1[k].outName : k \in DOMAIN G1} = D1
      /\ \A k \in DOMAIN G1 : G1[k].inNames \in Seq(D1 \cup c1.inputs \cup Constants)
      /\ \A x \in D1 : IsName(x) /\ x[1] = "cir1_"
      /\ \A S \in SUBSET D1 : S # {} => \E k \in DOMAIN G1 :
            /\ G1[k].outName \in S
            /\ \A j \in DOMAIN G1[k].inNames : G1[k].inNames[j] \notin S
  BY MiterGatesOf
<1>6. /\ IsSequence(G2)
      /\ \A k, l \in DOMAIN G2 : G2[k].outName = G2[l].outName => k = l
      /\ {G2[k].outName : k \in DOMAIN G2} = D2
      /\ \A k \in DOMAIN G2 : G2[k].inNames \in Seq(D2 \cup c2.inputs \cup Constants)
      /\ \A x \in D2 : IsName(x) /\ x[1] = "cir2_"
      /\ \A S \in SUBSET D2 : S # {} => \E k \in DOMAIN G2 :
            /\ G2[k].outName \in S
            /\ \A j \in DOMAIN G2[k].inNames : G2[k].inNames[j] \notin S
  BY MiterGatesOf
<1>7. /\ IsFiniteSet(N1) /\ c1.inputs \subseteq N1
      /\ \A x \in N1 : IsName(x) /\ (x \in c1.inputs \/ x[1] = "cir1_")
  BY MiterNetsOf
<1>8. /\ IsFiniteSet(N2) /\ c2.inputs \subseteq N2
      /\ \A x \in N2 : IsName(x) /\ (x \in c2.inputs \/ x[1] = "cir2_")
  BY MiterNetsOf
<1>9. \A x \in inputs : x[1] \notin MadePrefixes
  BY InputNet
<1> HIDE DEF output, top, G1, G2, D1, D2, N1, N2, L, T, inputs
<1>10. /\ top.outName = output /\ top.inNames = pins
  BY DEF top
<1>11. /\ DOMAIN G1 = 1..A /\ DOMAIN G2 = 1..B
  BY <1>5, <1>6 DEF IsSequence
<1>12. /\ DOMAIN L = 1..Len(L) /\ Len(L) \in Nat
       /\ \A k \in DOMAIN G1 : k \in DOMAIN L /\ L[k] = G1[k]
       /\ \A k \in DOMAIN G2 : A + k \in DOMAIN L /\ L[A + k] = G2[k]
       /\ A + B + 1 \in DOMAIN L /\ L[A + B + 1] = top
       /\ \A k \in DOMAIN L : \/ k \in DOMAIN G1
                              \/ \E i \in DOMAIN G2 : k = A + i
                              \/ k = A + B + 1
  <2>1. L = G1 \o G2 \o <<top>>
    BY DEF L
  <2> HIDE DEF L
  <2>2. /\ DOMAIN L = 1..Len(L) /\ Len(L) \in Nat
        /\ \A k \in 1..A : k \in DOMAIN L /\ L[k] = G1[k]
        /\ \A k \in 1..B : A + k \in DOMAIN L /\ L[A + k] = G2[k]
        /\ A + B + 1 \in DOMAIN L /\ L[A + B + 1] = top
        /\ \A k \in DOMAIN L : \/ k \in 1..A
                               \/ \E i \in 1..B : k = A + i
                               \/ k = A + B + 1
    BY <1>5, <1>6, <2>1, Joined
  <2> HIDE DEF A, B
  <2> QED
    BY <1>11, <2>2
<1> HIDE DEF A, B
<1>13. \A k \in DOMAIN G1 : G1[k].outName \in D1
  BY <1>5
<1>14. \A k \in DOMAIN G2 : G2[k].outName \in D2
  BY <1>6
<1>15. ASSUME NEW k \in DOMAIN L
       PROVE  \/ k \in DOMAIN G1 /\ L[k] = G1[k] /\ L[k].outName \in D1
              \/ \E i \in DOMAIN G2 : k = A + i /\ L[k] = G2[i] /\ L[k].outName \in D2
              \/ k = A + B + 1 /\ L[k] = top
  BY <1>12, <1>13, <1>14
<1>16. /\ output \notin D1 /\ output \notin D2 /\ D1 \cap D2 = {}
       /\ inputs \cap D1 = {} /\ inputs \cap D2 = {} /\ output \notin inputs
  BY <1>4, <1>5, <1>6, <1>9 DEF MadePrefixes
<1>17. ASSUME NEW k \in DOMAIN L, NEW l \in DOMAIN L, L[k].outName = L[l].outName
       PROVE  k = l
  <2>1. CASE k \in DOMAIN G1 /\ L[k] = G1[k] /\ L[k].outName \in D1
    <3>1. l \in DOMAIN G1 /\ L[l] = G1[l]
      BY <1>10, <1>15, <1>16, <1>17, <2>1
    <3> QED
      BY <1>5, <1>17, <2>1, <3>1
  <2>2. CASE \E i \in DOMAIN G2 : k = A + i /\ L[k] = G2[i] /\ L[k].outName \in D2
    <3>1. PICK i \in DOMAIN G2 : k = A + i /\ L[k] = G2[i] /\ L[k].outName \in D2
      BY <2>2
    <3>2. \E j \in DOMAIN G2 : l = A + j /\ L[l] = G2[j]
      BY <1>10, <1>15, <1>16, <1>17, <3>1
    <3>3. PICK j \in DOMAIN G2 : l = A + j /\ L[l] = G2[j]
      BY <3>2
    <3> QED
      BY <1>6, <1>17, <3>1, <3>3
  <2>3. CASE k = A + B + 1 /\ L[k] = top
    BY <1>10, <1>15, <1>16, <1>17, <2>3
  <2> QED
    BY <1>15, <2>1, <2>2, <2>3
<1>18. driven = {L[k].outName : k \in DOMAIN L}
  <2>1. \A k \in DOMAIN L : L[k].outName \in driven
    BY <1>10, <1>15
  <2>2. \A x \in D1 : \E k \in DOMAIN L : L[k].outName = x
    BY <1>5, <1>12
  <2>3. ASSUME NEW x \in D2
        PROVE  \E k \in DOMAIN L : L[k].outName = x
    <3>1. PICK i \in DOMAIN G2 : G2[i].outName = x
      BY <1>6
    <3>2. A + i \in DOMAIN L /\ L[A + i].outName = x
      BY <1>12, <3>1
    <3> QED
      BY <3>2
  <2>4. \E k \in DOMAIN L : L[k].outName = output
    BY <1>10, <1>12
  <2> QED
    BY <2>1, <2>2, <2>3, <2>4
<1>19. /\ DOMAIN T = N1 \cup N2 \cup {output}
       /\ \A x \in DOMAIN T :
             /\ T[x] \in {"input", "output", "default"}
             /\ T[x] = "output" <=> x = output
             /\ T[x] = "input" <=> x \in inputs
  BY <1>16 DEF T
<1>20. inputs \subseteq DOMAIN T
  BY <1>7, <1>8, <1>19 DEF inputs
<1>21. inputs = NetsOf(T, "input") /\ NetsOf(T, "output") = {output}
  BY <1>19, <1>20 DEF NetsOf
<1>22. IsFiniteSet(DOMAIN T)
  <2>1. IsFiniteSet(N1 \cup N2) /\ IsFiniteSet({output})
    BY <1>7, <1>8, FS_Union, FS_Singleton
  <2> QED
    BY <1>19, <2>1, FS_Union
<1>23. \A x \in DOMAIN T \cup driven : IsName(x)
  BY <1>4, <1>5, <1>6, <1>7, <1>8, <1>19
<1>24. inputs \cap driven = {} /\ NetsOf(T, "output") \subseteq driven
  BY <1>16, <1>21
<1>25. ASSUME NEW k \in DOMAIN L
       PROVE  L[k].inNames \in Seq(driven \cup inputs \cup Constants)
  <2> DEFINE S == driven \cup inputs \cup Constants
  <2>1. ASSUME NEW R, R \subseteq S
        PROVE  Seq(R) \subseteq Seq(S)
    <3> SUFFICES ASSUME NEW s \in Seq(R)
                 PROVE  s \in Seq(S)
      OBVIOUS
    <3>1. Len(s) \in Nat /\ s \in [1..Len(s) -> R]
      BY LenProperties
    <3>2. s \in [1..Len(s) -> S]
      BY <2>1, <3>1
    <3> HIDE DEF S
    <3> QED
      BY <3>1, <3>2
  <2>2. D1 \cup c1.inputs \cup Constants \subseteq S /\ D2 \cup c2.inputs \cup Constants \subseteq S
    BY DEF inputs
  <2>3. pins \in Seq(S)
    <3>1. Prefixed("cir1_", po1) \in S /\ Prefixed("cir2_", po2) \in S
      BY <1>3
    <3> HIDE DEF S
    <3> QED
      BY <3>1
  <2> HIDE DEF S, pins
  <2>4. L[k].inNames \in Seq(S)
    <3>1. CASE k \in DOMAIN G1 /\ L[k] = G1[k]
      BY <1>5, <2>1, <2>2, <3>1
    <3>2. CASE \E i \in DOMAIN G2 : k = A + i /\ L[k] = G2[i]
      BY <1>6, <2>1, <2>2, <3>2
    <3>3. CASE L[k] = top
      BY <1>10, <2>3, <3>3
    <3> QED
      BY <1>15, <3>1, <3>2, <3>3
  <2> QED
    BY <2>4 DEF S
<1>26. ASSUME NEW S \in SUBSET driven, S # {}
       PROVE  \E k \in DOMAIN L :
                  L[k].outName \in S /\ \A j \in DOMAIN L[k].inNames : L[k].inNames[j] \notin S
  <2>1. \A x \in inputs \cup Constants : x \notin S
    BY <1>4, <1>5, <1>6, <1>16 DEF IsName, Constants
  <2>2. CASE S \cap D1 # {}
    <3>1. PICK k \in DOMAIN G1 :
             /\ G1[k].outName \in S \cap D1
             /\ \A j \in DOMAIN G1[k].inNames : G1[k].inNames[j] \notin S \cap D1
      BY <1>5, <2>2
    <3>2. \A j \in DOMAIN G1[k].inNames : G1[k].inNames[j] \in D1 \cup c1.inputs \cup Constants
      BY <1>5
    <3>3. \A j \in DOMAIN G1[k].inNames : G1[k].inNames[j] \notin S
      BY <2>1, <3>1, <3>2 DEF inputs
    <3> QED
      BY <1>12, <3>1, <3>3
  <2>3. CASE S \cap D2 # {}
    <3>1. PICK i \in DOMAIN G2 :
             /\ G2[i].outName \in S \cap D2
             /\ \A j \in DOMAIN G2[i].inNames : G2[i].inNames[j] \notin S \cap D2
      BY <1>6, <2>3
    <3>2. \A j \in DOMAIN G2[i].inNames : G2[i].inNames[j] \in D2 \cup c2.inputs \cup Constants
      BY <1>6
    <3>3. \A j \in DOMAIN G2[i].inNames : G2[i].inNames[j] \notin S
      BY <2>1, <3>1, <3>2 DEF inputs
    <3>4. A + i \in DOMAIN L /\ L[A + i] = G2[i]
      BY <1>12
    <3> QED
      BY <3>1, <3>3, <3>4
  <2>4. CASE S = {output}
    <3>1. \A j \in DOMAIN pins : pins[j] \in D1 \cup D2
      BY <1>3
    <3> HIDE DEF pins
    <3>2. \A j \in DOMAIN pins : pins[j] \notin S
      BY <1>16, <2>4, <3>1
    <3>3. A + B + 1 \in DOMAIN L /\ L[A + B + 1] = top
      BY <1>12
    <3>4. L[A + B + 1].outName \in S /\ L[A + B + 1].inNames = pins
      BY <1>10, <2>4, <3>3
    <3> QED
      BY <3>2, <3>3, <3>4
  <2> QED
    BY <1>26, <2>2, <2>3, <2>4
<1> HIDE DEF driven
<1> DEFINE d == [types |-> T, gates |-> L]
<1>27. IsDesign(d)
  BY <1>9, <1>12, <1>17, <1>18, <1>19, <1>21, <1>22, <1>23, <1>24, <1>25, <1>26, DesignOf
<1>28. d.types = T /\ d.gates = L
  OBVIOUS
<1>29. MiterOf(c1, c2, function) = Construct(d)
  BY <1>2
<1> HIDE DEF d
<1>30. ASSUME NEW n \in Gates(c1)
       PROVE  \E k \in DOMAIN L : IsMiterGate(c1, "cir1_", c1.node[n], L[k])
  <2>1. PICK k \in DOMAIN G1 : IsMiterGate(c1, "cir1_", c1.node[n], G1[k])
    BY MiterGatesOf DEF G1
  <2> QED
    BY <1>12, <2>1
<1>31. ASSUME NEW n \in Gates(c2)
       PROVE  \E k \in DOMAIN L : IsMiterGate(c2, "cir2_", c2.node[n], L[k])
  <2>1. PICK k \in DOMAIN G2 : IsMiterGate(c2, "cir2_", c2.node[n], G2[k])
    BY MiterGatesOf DEF G2
  <2> QED
    BY <1>12, <2>1
<1>32. \E k \in DOMAIN L :
          /\ L[k].function = function /\ L[k].outName = output /\ L[k].inNames = pins
  <2>1. top.function = function
    BY DEF top
  <2> HIDE DEF pins
  <2> QED
    BY <1>10, <1>12, <2>1
<1>33. output = MiterName(po1, po2)
  BY DEF output
<1>34. inputs = c1.inputs \cup c2.inputs
  BY DEF inputs
<1>35. ASSUME NEW k \in DOMAIN L
       PROVE  L[k].function \in FunctionsUsed(c1) \cup FunctionsUsed(c2) \cup {function}
  <2>1. \A i \in DOMAIN G1 : G1[i].function \in FunctionsUsed(c1)
    BY MiterGatesOf DEF G1, FunctionsUsed
  <2>2. \A i \in DOMAIN G2 : G2[i].function \in FunctionsUsed(c2)
    BY MiterGatesOf DEF G2, FunctionsUsed
  <2>3. top.function = function
    BY DEF top
  <2> QED
    BY <1>15, <2>1, <2>2, <2>3
<1> HIDE DEF pins
<1> QED
  BY <1>21, <1>27, <1>28, <1>29, <1>30, <1>31, <1>32, <1>33, <1>34, <1>35 DEF pins, IsMiterDesign

LEMMA MiterIsCircuit ==
    ASSUME NEW c1, IsCircuit(c1), c1.outputs # {},
           NEW c2, IsCircuit(c2), c2.outputs # {}, NEW function
    PROVE  IsCircuit(MiterOf(c1, c2, function))
BY MiterDesign, ConstructRight DEF IsMiterDesign


-------------------------------------------------------------------------------
(***************************************************************************)
(* The operations in place.                                                *)
(***************************************************************************)
\* Replacing as many as there are replaces all.
LEMMA ReplacedAll ==
    ASSUME NEW s, IsSequence(s), NEW old, NEW new
    PROVE  LET t == ReplaceFirst(s, Cardinality({j \in DOMAIN s : s[j] = old}), old, new)
           IN  /\ IsSequence(t) /\ Len(t) = Len(s)
               /\ DOMAIN t = DOMAIN s /\ DOMAIN s = 1..Len(s) /\ Len(s) \in Nat
               /\ \A j \in DOMAIN s : t[j] = IF s[j] = old THEN new ELSE s[j]
<1> DEFINE all == {j \in DOMAIN s : s[j] = old}
           count == Cardinality(all)
           t == ReplaceFirst(s, count, old, new)
           upTo(j) == {i \in 1..j : s[i] = old}
<1>1. DOMAIN s = 1..Len(s) /\ Len(s) \in Nat
  BY DEF IsSequence
<1>2. IsFiniteSet(all)
  <2>1. all \in SUBSET (1..Len(s)) /\ IsFiniteSet(1..Len(s))
    BY <1>1, FS_Interval
  <2> QED
    BY <2>1, FS_Subset
<1>3. ASSUME NEW j \in DOMAIN s
      PROVE  Cardinality(upTo(j)) <= count
  <2>1. upTo(j) \in SUBSET all
    BY <1>1
  <2> HIDE DEF upTo, all
  <2> QED
    BY <1>2, <2>1, FS_Subset
<1>4. t = [j \in DOMAIN s |-> IF s[j] = old /\ Cardinality(upTo(j)) <= count THEN new ELSE s[j]]
  BY DEF ReplaceFirst
<1> HIDE DEF t, upTo, count
<1>5. DOMAIN t = DOMAIN s /\ \A j \in DOMAIN s : t[j] = IF s[j] = old THEN new ELSE s[j]
  BY <1>3, <1>4
<1>6. t \in [1..Len(s) -> ToSet(t)]
  <2>1. t = [j \in 1..Len(s) |-> t[j]]
    BY <1>1, <1>4
  <2> QED
    BY <1>1, <1>5, <2>1 DEF ToSet
<1>7. t \in Seq(ToSet(t)) /\ Len(t) = Len(s)
  BY <1>1, <1>6
<1> QED
  BY <1>1, <1>5, <1>7 DEF IsSequence, t, count

\* Nothing is replaced in an empty sequence.
LEMMA ReplacedNone ==
    ASSUME NEW count, NEW old, NEW new
    PROVE  ReplaceFirst(<<>>, count, old, new) = <<>>
BY DEF ReplaceFirst

\* A gate that reads an input by name is the one that points to its node, and
\* the node's list has it as often.
LEMMA ReadsOf ==
    ASSUME NEW c, IsCircuit(c), NEW pi \in c.inputs, NEW n \in DOMAIN c.node
    PROVE  LET source == NetInput(c.nets, pi)
               names == c.node[n].inNames
               pins == c.node[n].input
           IN  /\ IsSequence(names) /\ IsSequence(pins) /\ Len(pins) = Len(names)
               /\ DOMAIN pins = DOMAIN names
               /\ \A j \in DOMAIN names : names[j] = pi <=> pins[j] = source
               /\ n \in Gates(c) =>
                     /\ TimesListed(n, c.node[source].output) =
                           Cardinality({j \in DOMAIN names : names[j] = pi})
                     /\ TimesListed(n, c.node[source].output) =
                           Cardinality({j \in DOMAIN pins : pins[j] = source})
               /\ n \in ServiceNodes(c) => names = <<>> /\ pins = <<>>
<1> DEFINE source == NetInput(c.nets, pi)
           names == c.node[n].inNames
           pins == c.node[n].input
<1>1. /\ names \in Seq(DOMAIN c.nets \cup Constants)
      /\ pins \in Seq(DOMAIN c.node \cup {0, 1})
      /\ Len(pins) = Len(names)
      /\ c.node[n].type = "input" => names = <<>>
  BY DEF IsCircuit, PinsRight
<1>2. /\ source \in ServiceNodes(c) /\ c.node[source].outName = pi
      /\ source = c.nets[pi].input /\ source \in DOMAIN c.node
      /\ pi \in DOMAIN c.nets /\ pi \notin Constants
  <2>1. pi \in DOMAIN c.nets
    BY InputNet
  <2>2. pi \notin Constants
    BY <2>1 DEF IsCircuit, HasParts, IsName, Constants
  <2> QED
    BY <2>1, <2>2, InputNet DEF ServiceNodes
<1>3. source \notin {0, 1}
  BY <1>2 DEF IsCircuit, HasParts
<1>4. \A j \in DOMAIN names :
         \/ names[j] \in Constants /\ pins[j] \in {0, 1}
         \/ /\ names[j] \in DOMAIN c.nets /\ pins[j] \in DOMAIN c.node
            /\ pins[j] = c.nets[names[j]].input /\ c.node[pins[j]].outName = names[j]
  BY ReadNet
<1> HIDE DEF names, pins, source
<1>5. IsSequence(names) /\ IsSequence(pins) /\ DOMAIN pins = DOMAIN names
  <2>1. DOMAIN pins = DOMAIN names
    BY <1>1
  <2> QED
    BY <1>1, <2>1, SequenceOf
<1>6. ASSUME NEW j \in DOMAIN names
      PROVE  names[j] = pi <=> pins[j] = source
  BY <1>2, <1>3, <1>4
<1>7. ASSUME n \in Gates(c)
      PROVE  /\ TimesListed(n, c.node[source].output) =
                   Cardinality({j \in DOMAIN names : names[j] = pi})
             /\ TimesListed(n, c.node[source].output) =
                   Cardinality({j \in DOMAIN pins : pins[j] = source})
  <2>1. {j \in DOMAIN names : names[j] = pi} = {j \in DOMAIN pins : pins[j] = source}
    BY <1>5, <1>6
  <2>2. TimesListed(n, c.node[source].output) =
            Cardinality({j \in DOMAIN pins : pins[j] = source})
    BY <1>2, <1>7 DEF IsCircuit, ReadersRight, pins
  <2> QED
    BY <2>1, <2>2
<1>8. ASSUME n \in ServiceNodes(c)
      PROVE  names = <<>> /\ pins = <<>>
  <2>1. names = <<>>
    BY <1>1, <1>8 DEF ServiceNodes
  <2>2. Len(pins) = 0
    BY <1>1, <2>1
  <2> QED
    BY <1>1, <2>1, <2>2
<1> QED
  BY <1>1, <1>5, <1>6, <1>7, <1>8 DEF names, pins, source

\* Rewiring makes every reader of the input read the other net, by name and by
\* pointer, and changes nothing else.
LEMMA RewiredRight ==
    ASSUME NEW c, IsCircuit(c), NEW pi \in c.inputs, NEW newNode, NEW newName
    PROVE  LET source == NetInput(c.nets, pi)
               node == Rewired(c, pi, newNode, newName)
           IN  /\ DOMAIN node = DOMAIN c.node
               /\ \A n \in DOMAIN c.node :
                     /\ IsNode(node[n]) /\ node[n].type = c.node[n].type
                     /\ node[n].outName = c.node[n].outName
                     /\ node[n].output = c.node[n].output
                     /\ node[n].function = c.node[n].function
                     /\ IsSequence(node[n].inNames) /\ IsSequence(node[n].input)
                     /\ Len(node[n].input) = Len(node[n].inNames)
                     /\ DOMAIN node[n].inNames = DOMAIN c.node[n].inNames
                     /\ DOMAIN node[n].input = DOMAIN c.node[n].inNames
                     /\ DOMAIN c.node[n].input = DOMAIN c.node[n].inNames
                     /\ \A j \in DOMAIN c.node[n].inNames :
                           \/ /\ c.node[n].inNames[j] = pi /\ c.node[n].input[j] = source
                              /\ node[n].inNames[j] = newName /\ node[n].input[j] = newNode
                           \/ /\ c.node[n].inNames[j] # pi /\ c.node[n].input[j] # source
                              /\ node[n].inNames[j] = c.node[n].inNames[j]
                              /\ node[n].input[j] = c.node[n].input[j]
<1> DEFINE source == NetInput(c.nets, pi)
           node == Rewired(c, pi, newNode, newName)
           count(n) == TimesListed(n, c.node[source].output)
<1>1. node = [n \in DOMAIN c.node |->
                 [c.node[n] EXCEPT !.inNames = ReplaceFirst(@, count(n), pi, newName),
                                   !.input = ReplaceFirst(@, count(n), source, newNode)]]
  BY DEF Rewired
<1> HIDE DEF source, node
<1>2. DOMAIN node = DOMAIN c.node
  BY <1>1
<1> SUFFICES ASSUME NEW n \in DOMAIN c.node
             PROVE  /\ IsNode(node[n]) /\ node[n].type = c.node[n].type
                    /\ node[n].outName = c.node[n].outName
                    /\ node[n].output = c.node[n].output
                    /\ node[n].function = c.node[n].function
                    /\ IsSequence(node[n].inNames) /\ IsSequence(node[n].input)
                    /\ Len(node[n].input) = Len(node[n].inNames)
                    /\ DOMAIN node[n].inNames = DOMAIN c.node[n].inNames
                    /\ DOMAIN node[n].input = DOMAIN c.node[n].inNames
                    /\ DOMAIN c.node[n].input = DOMAIN c.node[n].inNames
                    /\ \A j \in DOMAIN c.node[n].inNames :
                          \/ /\ c.node[n].inNames[j] = pi /\ c.node[n].input[j] = source
                             /\ node[n].inNames[j] = newName /\ node[n].input[j] = newNode
                          \/ /\ c.node[n].inNames[j] # pi /\ c.node[n].input[j] # source
                             /\ node[n].inNames[j] = c.node[n].inNames[j]
                             /\ node[n].input[j] = c.node[n].input[j]
  BY <1>2 DEF node, source
<1> DEFINE m == c.node[n]
           names == m.inNames
           pins == m.input
           names2 == ReplaceFirst(names, count(n), pi, newName)
           pins2 == ReplaceFirst(pins, count(n), source, newNode)
<1>3. node[n] = [m EXCEPT !.inNames = names2, !.input = pins2]
  BY <1>1
<1>4. IsNode(m)
  BY DEF IsCircuit, HasParts
<1> HIDE DEF m, names2, pins2
<1>5. /\ IsNode(node[n]) /\ node[n].type = m.type /\ node[n].outName = m.outName
      /\ node[n].output = m.output /\ node[n].inNames = names2 /\ node[n].input = pins2
      /\ node[n].function = m.function
  BY <1>3, <1>4 DEF IsNode
<1>6. /\ IsSequence(names) /\ IsSequence(pins) /\ Len(pins) = Len(names)
      /\ DOMAIN pins = DOMAIN names
      /\ \A j \in DOMAIN names : names[j] = pi <=> pins[j] = source
      /\ n \in Gates(c) =>
            /\ count(n) = Cardinality({j \in DOMAIN names : names[j] = pi})
            /\ count(n) = Cardinality({j \in DOMAIN pins : pins[j] = source})
      /\ n \in ServiceNodes(c) => names = <<>> /\ pins = <<>>
  BY ReadsOf DEF source, m
<1>7. n \in Gates(c) \/ n \in ServiceNodes(c)
  BY DrivenNet
<1> HIDE DEF names, pins, count
<1>8. /\ IsSequence(names2) /\ IsSequence(pins2) /\ Len(names2) = Len(names)
      /\ Len(pins2) = Len(pins) /\ DOMAIN names2 = DOMAIN names /\ DOMAIN pins2 = DOMAIN pins
      /\ \A j \in DOMAIN names : names2[j] = IF names[j] = pi THEN newName ELSE names[j]
      /\ \A j \in DOMAIN pins : pins2[j] = IF pins[j] = source THEN newNode ELSE pins[j]
  <2>1. CASE n \in Gates(c)
    BY <1>6, <2>1, ReplacedAll DEF names2, pins2
  <2>2. CASE n \in ServiceNodes(c)
    <3>1. names = <<>> /\ pins = <<>>
      BY <1>6, <2>2
    <3>2. names2 = <<>> /\ pins2 = <<>>
      BY <3>1, ReplacedNone DEF names2, pins2
    <3> QED
      BY <1>6, <3>1, <3>2
  <2> QED
    BY <1>7, <2>1, <2>2
<1> QED
  BY <1>5, <1>6, <1>8 DEF m, names, pins


\* A pin of a netlist: the net it reads and the node it points to.
PinRight(c, x, m) ==
    /\ x \in DOMAIN c.nets \cup Constants /\ m \in DOMAIN c.node \cup {0, 1}
    /\ m = NetInput(c.nets, x)

\* Pins one by one.
LEMMA PinsOf ==
    ASSUME NEW c, \A n \in DOMAIN c.node :
                     /\ IsSequence(c.node[n].inNames) /\ IsSequence(c.node[n].input)
                     /\ Len(c.node[n].input) = Len(c.node[n].inNames)
                     /\ c.node[n].type = "input" => c.node[n].inNames = <<>>
                     /\ \A j \in DOMAIN c.node[n].inNames :
                           PinRight(c, c.node[n].inNames[j], c.node[n].input[j])
    PROVE  PinsRight(c)
<1> SUFFICES ASSUME NEW n \in DOMAIN c.node
             PROVE  /\ c.node[n].inNames \in Seq(DOMAIN c.nets \cup Constants)
                    /\ c.node[n].input \in Seq(DOMAIN c.node \cup {0, 1})
                    /\ Len(c.node[n].input) = Len(c.node[n].inNames)
                    /\ c.node[n].type = "input" => c.node[n].inNames = <<>>
                    /\ \A j \in DOMAIN c.node[n].inNames :
                          c.node[n].input[j] = NetInput(c.nets, c.node[n].inNames[j])
  BY DEF PinsRight
<1> DEFINE names == c.node[n].inNames
           pins == c.node[n].input
<1>1. /\ IsSequence(names) /\ IsSequence(pins) /\ Len(pins) = Len(names)
      /\ \A j \in DOMAIN names : PinRight(c, names[j], pins[j])
      /\ c.node[n].type = "input" => names = <<>>
  OBVIOUS
<1> HIDE DEF names, pins
<1>2. DOMAIN pins = DOMAIN names
  BY <1>1 DEF IsSequence
<1>3. ToSet(names) \subseteq DOMAIN c.nets \cup Constants
  BY <1>1 DEF ToSet, PinRight
<1>4. ToSet(pins) \subseteq DOMAIN c.node \cup {0, 1}
  BY <1>1, <1>2 DEF ToSet, PinRight
<1>5. names \in Seq(DOMAIN c.nets \cup Constants) /\ pins \in Seq(DOMAIN c.node \cup {0, 1})
  BY <1>1, <1>3, <1>4, SequenceIn
<1> QED
  BY <1>1, <1>5 DEF PinRight, names, pins

\* A pin that reads a net as before points to the node it pointed to, when the
\* net and its driver are still there.
LEMMA PinStays ==
    ASSUME NEW c, IsCircuit(c), NEW n \in DOMAIN c.node, NEW j \in DOMAIN c.node[n].inNames,
           NEW d, Constant0 \notin DOMAIN d.nets, Constant1 \notin DOMAIN d.nets,
           c.node[n].inNames[j] \in DOMAIN c.nets =>
               /\ c.node[n].inNames[j] \in DOMAIN d.nets
               /\ d.nets[c.node[n].inNames[j]].input = c.nets[c.node[n].inNames[j]].input
               /\ c.node[n].input[j] \in DOMAIN d.node
    PROVE  PinRight(d, c.node[n].inNames[j], c.node[n].input[j])
<1> DEFINE x == c.node[n].inNames[j]
           m == c.node[n].input[j]
<1>1. /\ m = NetInput(c.nets, x)
      /\ \/ x \in Constants /\ m \in {0, 1}
         \/ x \in DOMAIN c.nets /\ m \in DOMAIN c.node /\ m = c.nets[x].input
  BY ReadNet
<1>2. Constant0 \notin DOMAIN c.nets /\ Constant1 \notin DOMAIN c.nets
  BY DEF IsCircuit, HasParts, IsName
<1> HIDE DEF x, m
<1>3. CASE x \in Constants
  <2>1. NetInput(c.nets, x) = NetInput(d.nets, x) /\ NetInput(d.nets, x) \in {0, 1}
    BY <1>2, <1>3, PointerOf DEF Constants
  <2> QED
    BY <1>1, <1>3, <2>1 DEF PinRight, x, m
<1>4. CASE x \in DOMAIN c.nets /\ m = c.nets[x].input
  <2>1. x \in DOMAIN d.nets /\ d.nets[x].input = c.nets[x].input /\ m \in DOMAIN d.node
    BY <1>4 DEF x, m
  <2>2. NetInput(d.nets, x) = d.nets[x].input
    BY <2>1, PointerOf
  <2> QED
    BY <1>4, <2>1, <2>2 DEF PinRight, x, m
<1> QED
  BY <1>1, <1>3, <1>4

\* stuckInput keeps names and pointers together.
LEMMA StuckIsCircuit ==
    ASSUME NEW c, IsCircuit(c), NEW pi \in c.inputs, NEW value \in BOOLEAN
    PROVE  IsCircuit(StuckNetlist(c, pi, value))
<1> DEFINE source == NetInput(c.nets, pi)
           newName == ConstantName(value)
           newNode == ConstantNode(value)
           node == Rewired(c, pi, newNode, newName)
           d == StuckNetlist(c, pi, value)
<1>1. HasParts(c) /\ DriversRight(c) /\ ReadersRight(c)
  BY DEF IsCircuit
<1>2. /\ source \in ServiceNodes(c) /\ source \in DOMAIN c.node
      /\ c.node[source].outName = pi /\ pi \in DOMAIN c.nets /\ c.nets[pi].input = source
  BY InputNet DEF ServiceNodes
<1>3. d = [c EXCEPT !.inputs = c.inputs \ {pi},
                    !.node = [n \in DOMAIN node \ {source} |-> node[n]],
                    !.nets = [x \in DOMAIN c.nets \ {pi} |-> c.nets[x]],
                    !.lazy = [x \in DOMAIN c.lazy \ {source} |-> c.lazy[x]]]
  BY DEF StuckNetlist, Restrict
<1>4. c = [node |-> c.node, nets |-> c.nets, inputs |-> c.inputs, outputs |-> c.outputs,
           lazy |-> c.lazy]
  BY <1>1 DEF HasParts
<1> HIDE DEF source, newName, newNode, node, d
<1>5. /\ d = [node |-> d.node, nets |-> d.nets, inputs |-> d.inputs, outputs |-> d.outputs,
              lazy |-> d.lazy]
      /\ d.inputs = c.inputs \ {pi} /\ d.outputs = c.outputs
      /\ d.node = [n \in DOMAIN node \ {source} |-> node[n]]
      /\ d.nets = [x \in DOMAIN c.nets \ {pi} |-> c.nets[x]]
  BY <1>3, <1>4
<1>6. /\ DOMAIN node = DOMAIN c.node
      /\ \A n \in DOMAIN c.node :
            /\ IsNode(node[n]) /\ node[n].type = c.node[n].type
            /\ node[n].outName = c.node[n].outName
            /\ node[n].output = c.node[n].output
            /\ IsSequence(node[n].inNames) /\ IsSequence(node[n].input)
            /\ Len(node[n].input) = Len(node[n].inNames)
            /\ DOMAIN node[n].inNames = DOMAIN c.node[n].inNames
            /\ DOMAIN node[n].input = DOMAIN c.node[n].inNames
            /\ DOMAIN c.node[n].input = DOMAIN c.node[n].inNames
            /\ \A j \in DOMAIN c.node[n].inNames :
                  \/ /\ c.node[n].inNames[j] = pi /\ c.node[n].input[j] = source
                     /\ node[n].inNames[j] = newName /\ node[n].input[j] = newNode
                  \/ /\ c.node[n].inNames[j] # pi /\ c.node[n].input[j] # source
                     /\ node[n].inNames[j] = c.node[n].inNames[j]
                     /\ node[n].input[j] = c.node[n].input[j]
  BY RewiredRight DEF node, source
<1>7. /\ DOMAIN d.node = DOMAIN c.node \ {source}
      /\ \A n \in DOMAIN d.node : d.node[n] = node[n] /\ n \in DOMAIN c.node
      /\ DOMAIN d.nets = DOMAIN c.nets \ {pi}
      /\ \A x \in DOMAIN d.nets : d.nets[x] = c.nets[x] /\ x \in DOMAIN c.nets
  BY <1>5, <1>6
<1>8. /\ DOMAIN c.node \in SUBSET (Nat \ {0, 1}) /\ IsFiniteSet(DOMAIN c.node)
      /\ IsFiniteSet(DOMAIN c.nets)
      /\ \A x \in DOMAIN c.nets :
            /\ IsName(x)
            /\ c.nets[x] = [type |-> c.nets[x].type, input |-> c.nets[x].input]
            /\ c.nets[x].type \in {"input", "output", "default"}
      /\ c.inputs = {x \in DOMAIN c.nets : c.nets[x].type = "input"}
      /\ c.outputs = {x \in DOMAIN c.nets : c.nets[x].type = "output"}
      /\ \A x \in c.inputs : x[1] \notin MadePrefixes
  BY <1>1 DEF HasParts
<1>9. HasParts(d)
  <2>1. DOMAIN d.node \in SUBSET (Nat \ {0, 1}) /\ IsFiniteSet(DOMAIN d.node)
    <3>1. DOMAIN d.node \in SUBSET DOMAIN c.node
      BY <1>7
    <3> QED
      BY <1>8, <3>1, FS_Subset
  <2>2. IsFiniteSet(DOMAIN d.nets)
    <3>1. DOMAIN d.nets \in SUBSET DOMAIN c.nets
      BY <1>7
    <3> QED
      BY <1>8, <3>1, FS_Subset
  <2>3. \A n \in DOMAIN d.node : IsNode(d.node[n])
    BY <1>6, <1>7
  <2>4. /\ d.inputs = {x \in DOMAIN d.nets : d.nets[x].type = "input"}
        /\ d.outputs = {x \in DOMAIN d.nets : d.nets[x].type = "output"}
    BY <1>5, <1>7, <1>8
  <2>5. /\ \A x \in DOMAIN d.nets :
              /\ IsName(x)
              /\ d.nets[x] = [type |-> d.nets[x].type, input |-> d.nets[x].input]
              /\ d.nets[x].type \in {"input", "output", "default"}
        /\ \A x \in d.inputs : x[1] \notin MadePrefixes
    BY <1>5, <1>7, <1>8
  <2> QED
    BY <1>5, <2>1, <2>2, <2>3, <2>4, <2>5 DEF HasParts
<1>10. ASSUME NEW x \in DOMAIN c.nets, x # pi, c.nets[x].input # Null
       PROVE  c.nets[x].input \in DOMAIN d.node
  BY <1>1, <1>2, <1>7, <1>10 DEF DriversRight
<1>11. DriversRight(d)
  <2>1. ASSUME NEW n \in DOMAIN d.node
        PROVE  /\ d.node[n].outName \in DOMAIN d.nets
               /\ d.nets[d.node[n].outName].input = n
               /\ d.node[n].type = "input" <=> d.node[n].outName \in d.inputs
    <3>1. /\ n \in DOMAIN c.node /\ n # source /\ d.node[n].outName = c.node[n].outName
          /\ d.node[n].type = c.node[n].type
      BY <1>6, <1>7
    <3>2. /\ c.node[n].outName \in DOMAIN c.nets
          /\ c.nets[c.node[n].outName].input = n
          /\ c.node[n].type = "input" <=> c.node[n].outName \in c.inputs
      BY <1>1, <3>1 DEF DriversRight
    <3>3. c.node[n].outName # pi
      BY <1>2, <3>1, <3>2
    <3> QED
      BY <1>5, <1>7, <3>1, <3>2, <3>3
  <2>2. ASSUME NEW x \in DOMAIN d.nets, d.nets[x].input # Null
        PROVE  d.nets[x].input \in DOMAIN d.node /\ d.node[d.nets[x].input].outName = x
    <3>1. x \in DOMAIN c.nets /\ x # pi /\ d.nets[x] = c.nets[x]
      BY <1>7
    <3>2. c.nets[x].input \in DOMAIN d.node /\ c.node[c.nets[x].input].outName = x
      BY <1>1, <1>10, <2>2, <3>1 DEF DriversRight
    <3> QED
      BY <1>6, <1>7, <3>1, <3>2
  <2>3. ASSUME NEW x \in d.inputs \cup d.outputs
        PROVE  d.nets[x].input # Null
    <3>1. x \in c.inputs \cup c.outputs /\ x # pi /\ x \in DOMAIN c.nets
      BY <1>2, <1>5, <1>8
    <3> QED
      BY <1>1, <1>7, <3>1 DEF DriversRight
  <2> QED
    BY <2>1, <2>2, <2>3 DEF DriversRight
<1>12. Constant0 \notin DOMAIN d.nets /\ Constant1 \notin DOMAIN d.nets
  BY <1>9 DEF HasParts, IsName
<1>13. PinRight(d, newName, newNode)
  BY <1>12, PointerOf DEF PinRight, newName, newNode, ConstantName, ConstantNode, Constants
<1>14. PinsRight(d)
  <2> SUFFICES ASSUME NEW n \in DOMAIN d.node
               PROVE  /\ IsSequence(d.node[n].inNames) /\ IsSequence(d.node[n].input)
                      /\ Len(d.node[n].input) = Len(d.node[n].inNames)
                      /\ d.node[n].type = "input" => d.node[n].inNames = <<>>
                      /\ \A j \in DOMAIN d.node[n].inNames :
                            PinRight(d, d.node[n].inNames[j], d.node[n].input[j])
    BY PinsOf
  <2>1. n \in DOMAIN c.node /\ n # source /\ d.node[n] = node[n]
    BY <1>7
  <2>2. /\ IsSequence(node[n].inNames) /\ IsSequence(node[n].input)
        /\ Len(node[n].input) = Len(node[n].inNames)
        /\ DOMAIN node[n].inNames = DOMAIN c.node[n].inNames
        /\ node[n].type = c.node[n].type
    BY <1>6, <2>1
  <2>3. ASSUME d.node[n].type = "input"
        PROVE  d.node[n].inNames = <<>>
    <3>1. c.node[n].inNames = <<>>
      BY <2>1, <2>2, <2>3 DEF IsCircuit, PinsRight
    <3> QED
      BY <2>1, <2>2, <3>1, NoPositions
  <2>4. ASSUME NEW j \in DOMAIN c.node[n].inNames
        PROVE  PinRight(d, node[n].inNames[j], node[n].input[j])
    <3>1. CASE node[n].inNames[j] = newName /\ node[n].input[j] = newNode
      BY <1>13, <3>1
    <3>2. CASE /\ c.node[n].inNames[j] # pi /\ c.node[n].input[j] # source
               /\ node[n].inNames[j] = c.node[n].inNames[j]
               /\ node[n].input[j] = c.node[n].input[j]
      <4>1. ASSUME c.node[n].inNames[j] \in DOMAIN c.nets
            PROVE  c.node[n].input[j] \in DOMAIN c.node
        BY <1>8, <2>1, <4>1, ReadNet DEF IsName, Constants
      <4>2. c.node[n].inNames[j] \in DOMAIN c.nets =>
               /\ c.node[n].inNames[j] \in DOMAIN d.nets
               /\ d.nets[c.node[n].inNames[j]].input = c.nets[c.node[n].inNames[j]].input
               /\ c.node[n].input[j] \in DOMAIN d.node
        BY <1>7, <3>2, <4>1
      <4>3. PinRight(d, c.node[n].inNames[j], c.node[n].input[j])
        BY <1>12, <2>1, <4>2, PinStays
      <4> QED
        BY <3>2, <4>3
    <3> QED
      BY <1>6, <2>1, <3>1, <3>2
  <2> QED
    BY <2>1, <2>2, <2>3, <2>4
<1>15. Gates(d) = Gates(c) /\ ServiceNodes(d) \subseteq ServiceNodes(c) \ {source}
  BY <1>2, <1>6, <1>7 DEF Gates, ServiceNodes
<1>16. ReadersRight(d)
  <2> SUFFICES ASSUME NEW n \in ServiceNodes(d)
               PROVE  /\ DOMAIN d.node[n].output \subseteq Gates(d)
                      /\ \A g \in Gates(d) :
                            TimesListed(g, d.node[n].output) =
                                Cardinality({j \in DOMAIN d.node[g].input : d.node[g].input[j] = n})
    BY DEF ReadersRight
  <2>1. n \in DOMAIN c.node /\ n \in ServiceNodes(c) /\ n # source /\ n \in DOMAIN d.node
    BY <1>15 DEF ServiceNodes
  <2>2. d.node[n].output = c.node[n].output
    BY <1>6, <1>7, <2>1
  <2>3. DOMAIN d.node[n].output \subseteq Gates(d)
    BY <1>1, <1>15, <2>1, <2>2 DEF ReadersRight
  <2>4. ASSUME NEW g \in Gates(d)
        PROVE  {j \in DOMAIN d.node[g].input : d.node[g].input[j] = n} =
                   {j \in DOMAIN c.node[g].input : c.node[g].input[j] = n}
    <3>1. g \in DOMAIN c.node /\ g \in DOMAIN d.node
      BY <1>15 DEF Gates
    <3>2. d.node[g].input = node[g].input
      BY <1>7, <3>1
    <3>3. n \notin {0, 1}
      BY <1>8, <2>1
    <3>4. newNode \in {0, 1}
      BY DEF newNode, ConstantNode
    <3> QED
      BY <1>6, <2>1, <3>1, <3>2, <3>3, <3>4
  <2> QED
    BY <1>1, <1>15, <2>1, <2>2, <2>3, <2>4 DEF ReadersRight
<1>17. NoCircle(d)
  <2> SUFFICES ASSUME NEW S \in SUBSET Gates(c), S # {}
               PROVE  \E n \in S : \A j \in DOMAIN d.node[n].input : d.node[n].input[j] \notin S
    BY <1>15 DEF NoCircle
  <2>1. PICK n \in S : \A j \in DOMAIN c.node[n].input : c.node[n].input[j] \notin S
    BY DEF IsCircuit, NoCircle
  <2>2. n \in DOMAIN c.node /\ n \in DOMAIN d.node /\ d.node[n].input = node[n].input
    BY <1>7, <1>15 DEF Gates
  <2>3. newNode \notin S
    <3>1. newNode \in {0, 1}
      BY DEF newNode, ConstantNode
    <3> QED
      BY <1>8, <3>1 DEF Gates
  <2>4. \A j \in DOMAIN node[n].input : node[n].input[j] \notin S
    BY <1>6, <2>1, <2>2, <2>3
  <2> QED
    BY <2>2, <2>4
<1> QED
  BY <1>9, <1>11, <1>14, <1>16, <1>17 DEF IsCircuit, d


\* The next node is new.
LEMMA NextIsNew ==
    ASSUME NEW c, IsCircuit(c)
    PROVE  NextNode(c) \in Nat \ {0, 1} /\ NextNode(c) \notin DOMAIN c.node
<1> DEFINE S == DOMAIN c.node \cup {1}
<1>1. DOMAIN c.node \in SUBSET (Nat \ {0, 1}) /\ IsFiniteSet(DOMAIN c.node)
  BY DEF IsCircuit, HasParts
<1>2. S \in SUBSET Nat /\ IsFiniteSet(S) /\ S # {}
  BY <1>1, FS_AddElement
<1>3. Max(S) \in S /\ \A n \in S : n <= Max(S)
  <2> HIDE DEF S
  <2> QED
    BY <1>2, MaxOf
<1>4. NextNode(c) = Max(S) + 1
  BY DEF NextNode
<1> DEFINE m == Max(S)
<1>5. m \in Nat /\ 1 <= m /\ \A n \in DOMAIN c.node : n <= m
  BY <1>2, <1>3
<1> HIDE DEF m, S
<1>6. m + 1 \in Nat \ {0, 1} /\ m + 1 \notin DOMAIN c.node
  <2>1. m + 1 \in Nat \ {0, 1} /\ ~(m + 1 <= m)
    BY <1>5
  <2> QED
    BY <1>5, <2>1
<1> QED
  BY <1>4, <1>6 DEF m

\* The name of an inverted net is a name no constant has.
LEMMA NotNamed ==
    ASSUME NEW c, IsCircuit(c), NEW x \in DOMAIN c.nets
    PROVE  IsName(NotName(x))
<1>1. IsSequence(x)
  BY DEF IsCircuit, HasParts, IsName, IsSequence
<1> QED
  BY <1>1, PrefixedName, UnlikeConstants DEF NotName

\* One more net and one more gate that reads one net.
LEMMA InverterRight ==
    ASSUME NEW x, NEW m, NEW y, NEW gate, gate = GateNode("NOT", <<m>>, <<x>>, y)
    PROVE  /\ IsNode(gate) /\ gate.type = "gate" /\ gate.outName = y
           /\ IsSequence(gate.inNames) /\ IsSequence(gate.input)
           /\ Len(gate.input) = Len(gate.inNames)
           /\ DOMAIN gate.inNames = {1} /\ DOMAIN gate.input = {1}
           /\ gate.inNames[1] = x /\ gate.input[1] = m
<1>1. /\ IsNode(gate) /\ gate.type = "gate" /\ gate.outName = y
      /\ gate.inNames = <<x>> /\ gate.input = <<m>>
  BY DEF GateNode, IsNode
<1>2. \A z : <<z>> \in Seq({z}) /\ Len(<<z>>) = 1 /\ <<z>>[1] = z /\ DOMAIN <<z>> = {1}
  OBVIOUS
<1>3. \A z : IsSequence(<<z>>)
  BY <1>2, SequenceOf
<1>4. /\ IsSequence(gate.inNames) /\ IsSequence(gate.input)
      /\ Len(gate.inNames) = 1 /\ Len(gate.input) = 1
      /\ DOMAIN gate.inNames = {1} /\ DOMAIN gate.input = {1}
      /\ gate.inNames[1] = x /\ gate.input[1] = m
  BY <1>1, <1>2, <1>3
<1> QED
  BY <1>1, <1>4

\* invertInput keeps names and pointers together, if the name is free.
LEMMA InvertedInputIsCircuit ==
    ASSUME NEW c, IsCircuit(c), NEW pi \in c.inputs, NotName(pi) \notin DOMAIN c.nets
    PROVE  IsCircuit(InvertedInput(c, pi))
<1> DEFINE inv == NextNode(c)
           source == NetInput(c.nets, pi)
           new == NotName(pi)
           node == Rewired(c, pi, inv, new)
           gate == GateNode("NOT", <<source>>, <<pi>>, new)
           d == InvertedInput(c, pi)
<1>1. HasParts(c) /\ DriversRight(c) /\ ReadersRight(c)
  BY DEF IsCircuit
<1>2. /\ source \in ServiceNodes(c) /\ source \in DOMAIN c.node
      /\ c.node[source].outName = pi /\ pi \in DOMAIN c.nets /\ c.nets[pi].input = source
  BY InputNet DEF ServiceNodes
<1>3. inv \in Nat \ {0, 1} /\ inv \notin DOMAIN c.node
  BY NextIsNew
<1>4. IsName(new)
  BY <1>2, NotNamed
<1>5. d = [c EXCEPT !.nets = WithNet(c.nets, new, "default", inv),
                    !.node = WithNode([node EXCEPT ![source].output = SetToBag({inv})], inv, gate)]
  BY DEF InvertedInput
<1>6. c = [node |-> c.node, nets |-> c.nets, inputs |-> c.inputs, outputs |-> c.outputs,
           lazy |-> c.lazy]
  BY <1>1 DEF HasParts
<1>7. /\ IsNode(gate) /\ gate.type = "gate" /\ gate.outName = new
      /\ IsSequence(gate.inNames) /\ IsSequence(gate.input)
      /\ Len(gate.input) = Len(gate.inNames)
      /\ DOMAIN gate.inNames = {1} /\ DOMAIN gate.input = {1}
      /\ gate.inNames[1] = pi /\ gate.input[1] = source
  <2>1. gate = GateNode("NOT", <<source>>, <<pi>>, new)
    OBVIOUS
  <2> HIDE DEF source, new, gate
  <2> QED
    BY <2>1, InverterRight
<1> HIDE DEF source, inv, new, node, gate, d
<1>8. /\ DOMAIN node = DOMAIN c.node
      /\ \A n \in DOMAIN c.node :
            /\ IsNode(node[n]) /\ node[n].type = c.node[n].type
            /\ node[n].outName = c.node[n].outName
            /\ node[n].output = c.node[n].output
            /\ IsSequence(node[n].inNames) /\ IsSequence(node[n].input)
            /\ Len(node[n].input) = Len(node[n].inNames)
            /\ DOMAIN node[n].inNames = DOMAIN c.node[n].inNames
            /\ DOMAIN node[n].input = DOMAIN c.node[n].inNames
            /\ DOMAIN c.node[n].input = DOMAIN c.node[n].inNames
            /\ \A j \in DOMAIN c.node[n].inNames :
                  \/ /\ c.node[n].inNames[j] = pi /\ c.node[n].input[j] = source
                     /\ node[n].inNames[j] = new /\ node[n].input[j] = inv
                  \/ /\ c.node[n].inNames[j] # pi /\ c.node[n].input[j] # source
                     /\ node[n].inNames[j] = c.node[n].inNames[j]
                     /\ node[n].input[j] = c.node[n].input[j]
  BY RewiredRight DEF node, source
<1> DEFINE node2 == [node EXCEPT ![source].output = SetToBag({inv})]
<1>9. /\ d = [node |-> d.node, nets |-> d.nets, inputs |-> d.inputs, outputs |-> d.outputs,
              lazy |-> d.lazy]
      /\ d.inputs = c.inputs /\ d.outputs = c.outputs
      /\ d.node = WithNode(node2, inv, gate)
      /\ d.nets = WithNet(c.nets, new, "default", inv)
  BY <1>5, <1>6
<1>10. /\ DOMAIN node2 = DOMAIN c.node
       /\ node2[source] = [node[source] EXCEPT !.output = SetToBag({inv})]
       /\ \A n \in DOMAIN c.node : n # source => node2[n] = node[n]
  BY <1>2, <1>8
<1> HIDE DEF node2
<1>11. /\ DOMAIN d.node = DOMAIN c.node \cup {inv} /\ d.node[inv] = gate
       /\ \A n \in DOMAIN c.node : d.node[n] = node2[n]
  BY <1>3, <1>9, <1>10 DEF WithNode
<1>12. /\ DOMAIN d.nets = DOMAIN c.nets \cup {new}
       /\ d.nets[new] = [type |-> "default", input |-> inv]
       /\ \A x \in DOMAIN c.nets : d.nets[x] = c.nets[x]
  BY <1>9 DEF WithNet, new
<1>13. ASSUME NEW n \in DOMAIN c.node
       PROVE  /\ IsNode(d.node[n]) /\ d.node[n].type = c.node[n].type
              /\ d.node[n].outName = c.node[n].outName
              /\ d.node[n].inNames = node[n].inNames /\ d.node[n].input = node[n].input
              /\ d.node[n].output = IF n = source THEN SetToBag({inv}) ELSE c.node[n].output
  <2>1. d.node[n] = node2[n] /\ IsNode(node[n])
    BY <1>8, <1>11
  <2>2. CASE n = source
    <3>1. d.node[n] = [node[n] EXCEPT !.output = SetToBag({inv})]
      BY <1>10, <2>1, <2>2
    <3>2. IsNode(d.node[n]) /\ d.node[n].type = node[n].type
          /\ d.node[n].outName = node[n].outName
          /\ d.node[n].inNames = node[n].inNames /\ d.node[n].input = node[n].input
          /\ d.node[n].output = SetToBag({inv})
      BY <2>1, <3>1 DEF IsNode
    <3> QED
      BY <1>8, <2>2, <3>2
  <2>3. CASE n # source
    BY <1>8, <1>10, <2>1, <2>3
  <2> QED
    BY <2>2, <2>3
<1>14. /\ DOMAIN c.node \in SUBSET (Nat \ {0, 1}) /\ IsFiniteSet(DOMAIN c.node)
       /\ IsFiniteSet(DOMAIN c.nets)
       /\ \A x \in DOMAIN c.nets :
             /\ IsName(x)
             /\ c.nets[x] = [type |-> c.nets[x].type, input |-> c.nets[x].input]
             /\ c.nets[x].type \in {"input", "output", "default"}
       /\ c.inputs = {x \in DOMAIN c.nets : c.nets[x].type = "input"}
       /\ c.outputs = {x \in DOMAIN c.nets : c.nets[x].type = "output"}
       /\ \A x \in c.inputs : x[1] \notin MadePrefixes
  BY <1>1 DEF HasParts
<1>15. new \notin DOMAIN c.nets
  BY DEF new
<1>16. HasParts(d)
  <2>1. DOMAIN d.node \in SUBSET (Nat \ {0, 1}) /\ IsFiniteSet(DOMAIN d.node)
    BY <1>3, <1>11, <1>14, FS_AddElement
  <2>2. IsFiniteSet(DOMAIN d.nets)
    BY <1>12, <1>14, FS_AddElement
  <2>3. \A n \in DOMAIN d.node : IsNode(d.node[n])
    BY <1>7, <1>11, <1>13
  <2>4. d.nets[new].type = "default" /\ d.nets[new].input = inv
    BY <1>12
  <2>5. /\ d.inputs = {x \in DOMAIN d.nets : d.nets[x].type = "input"}
        /\ d.outputs = {x \in DOMAIN d.nets : d.nets[x].type = "output"}
    BY <1>9, <1>12, <1>14, <1>15, <2>4
  <2>6. /\ \A x \in DOMAIN d.nets :
              /\ IsName(x)
              /\ d.nets[x] = [type |-> d.nets[x].type, input |-> d.nets[x].input]
              /\ d.nets[x].type \in {"input", "output", "default"}
        /\ \A x \in d.inputs : x[1] \notin MadePrefixes
    BY <1>4, <1>9, <1>12, <1>14, <2>4
  <2> QED
    BY <1>9, <2>1, <2>2, <2>3, <2>5, <2>6 DEF HasParts
<1>17. DriversRight(d)
  <2>1. ASSUME NEW n \in DOMAIN d.node
        PROVE  /\ d.node[n].outName \in DOMAIN d.nets
               /\ d.nets[d.node[n].outName].input = n
               /\ d.node[n].type = "input" <=> d.node[n].outName \in d.inputs
    <3>1. CASE n = inv
      BY <1>7, <1>9, <1>11, <1>12, <1>14, <1>15, <3>1
    <3>2. CASE n \in DOMAIN c.node
      BY <1>1, <1>9, <1>12, <1>13, <3>2 DEF DriversRight
    <3> QED
      BY <1>11, <3>1, <3>2
  <2>2. ASSUME NEW x \in DOMAIN d.nets, d.nets[x].input # Null
        PROVE  d.nets[x].input \in DOMAIN d.node /\ d.node[d.nets[x].input].outName = x
    <3>1. CASE x = new
      BY <1>7, <1>11, <1>12, <3>1
    <3>2. CASE x \in DOMAIN c.nets
      <4>1. c.nets[x].input \in DOMAIN c.node /\ c.node[c.nets[x].input].outName = x
        BY <1>1, <1>12, <2>2, <3>2 DEF DriversRight
      <4> QED
        BY <1>11, <1>12, <1>13, <3>2, <4>1
    <3> QED
      BY <1>12, <3>1, <3>2
  <2>3. ASSUME NEW x \in d.inputs \cup d.outputs
        PROVE  d.nets[x].input # Null
    BY <1>1, <1>9, <1>12, <1>14 DEF DriversRight
  <2> QED
    BY <2>1, <2>2, <2>3 DEF DriversRight
<1>18. Constant0 \notin DOMAIN d.nets /\ Constant1 \notin DOMAIN d.nets
  BY <1>16 DEF HasParts, IsName
<1>19. PinRight(d, new, inv) /\ PinRight(d, pi, source)
  <2>1. NetInput(d.nets, new) = inv /\ NetInput(d.nets, pi) = source
    BY <1>2, <1>12, <1>18, PointerOf
  <2> QED
    BY <1>2, <1>11, <1>12, <2>1 DEF PinRight
<1>20. PinsRight(d)
  <2> SUFFICES ASSUME NEW n \in DOMAIN d.node
               PROVE  /\ IsSequence(d.node[n].inNames) /\ IsSequence(d.node[n].input)
                      /\ Len(d.node[n].input) = Len(d.node[n].inNames)
                      /\ d.node[n].type = "input" => d.node[n].inNames = <<>>
                      /\ \A j \in DOMAIN d.node[n].inNames :
                            PinRight(d, d.node[n].inNames[j], d.node[n].input[j])
    BY PinsOf
  <2>1. CASE n = inv
    BY <1>7, <1>11, <1>19, <2>1
  <2>2. CASE n \in DOMAIN c.node
    <3>1. /\ IsSequence(node[n].inNames) /\ IsSequence(node[n].input)
          /\ Len(node[n].input) = Len(node[n].inNames)
          /\ DOMAIN node[n].inNames = DOMAIN c.node[n].inNames
          /\ d.node[n].inNames = node[n].inNames /\ d.node[n].input = node[n].input
          /\ d.node[n].type = c.node[n].type
      BY <1>8, <1>13, <2>2
    <3>2. ASSUME d.node[n].type = "input"
          PROVE  node[n].inNames = <<>>
      <4>1. c.node[n].inNames = <<>>
        BY <2>2, <3>1, <3>2 DEF IsCircuit, PinsRight
      <4> QED
        BY <3>1, <4>1, NoPositions
    <3>3. ASSUME NEW j \in DOMAIN c.node[n].inNames
          PROVE  PinRight(d, node[n].inNames[j], node[n].input[j])
      <4>1. CASE node[n].inNames[j] = new /\ node[n].input[j] = inv
        BY <1>19, <4>1
      <4>2. CASE /\ node[n].inNames[j] = c.node[n].inNames[j]
                 /\ node[n].input[j] = c.node[n].input[j]
        <5>1. ASSUME c.node[n].inNames[j] \in DOMAIN c.nets
              PROVE  c.node[n].input[j] \in DOMAIN c.node
          BY <1>14, <2>2, <5>1, ReadNet DEF IsName, Constants
        <5>2. c.node[n].inNames[j] \in DOMAIN c.nets =>
                 /\ c.node[n].inNames[j] \in DOMAIN d.nets
                 /\ d.nets[c.node[n].inNames[j]].input = c.nets[c.node[n].inNames[j]].input
                 /\ c.node[n].input[j] \in DOMAIN d.node
          BY <1>11, <1>12, <5>1
        <5>3. PinRight(d, c.node[n].inNames[j], c.node[n].input[j])
          BY <1>18, <2>2, <5>2, PinStays
        <5> QED
          BY <4>2, <5>3
      <4> QED
        BY <1>8, <2>2, <4>1, <4>2
    <3> QED
      BY <3>1, <3>2, <3>3
  <2> QED
    BY <1>11, <2>1, <2>2
<1>21. /\ Gates(d) = Gates(c) \cup {inv} /\ ServiceNodes(d) = ServiceNodes(c)
       /\ inv \notin Gates(c) /\ Gates(c) \subseteq DOMAIN c.node
       /\ ServiceNodes(c) \subseteq DOMAIN c.node
  BY <1>3, <1>7, <1>11, <1>13 DEF Gates, ServiceNodes
<1>22. ReadersRight(d)
  <2> SUFFICES ASSUME NEW n \in ServiceNodes(c)
               PROVE  /\ DOMAIN d.node[n].output \subseteq Gates(d)
                      /\ \A g \in Gates(d) :
                            TimesListed(g, d.node[n].output) =
                                Cardinality({j \in DOMAIN d.node[g].input : d.node[g].input[j] = n})
    BY <1>21 DEF ReadersRight
  <2> DEFINE reads(g) == {j \in DOMAIN d.node[g].input : d.node[g].input[j] = n}
  <2>1. n \in DOMAIN c.node /\ n # inv
    BY <1>3, <1>21
  <2>2. CASE n = source
    <3>1. d.node[n].output = [m \in {inv} |-> 1]
      BY <1>13, <2>1, <2>2 DEF SetToBag
    <3>2. DOMAIN d.node[n].output \subseteq Gates(d)
      BY <1>21, <3>1
    <3>3. ASSUME NEW g \in Gates(c)
          PROVE  TimesListed(g, d.node[n].output) = 0 /\ reads(g) = {}
      <4>1. g # inv /\ g \in DOMAIN c.node
        BY <1>21
      <4>2. TimesListed(g, d.node[n].output) = 0
        BY <3>1, <4>1 DEF TimesListed, BagIn, BagToSet
      <4> QED
        BY <1>8, <1>13, <2>1, <2>2, <4>1, <4>2
    <3>4. TimesListed(inv, d.node[n].output) = 1
      BY <3>1 DEF TimesListed, BagIn, BagToSet
    <3>5. reads(inv) = {1}
      BY <1>7, <1>11, <2>2
    <3>6. Cardinality({1}) = 1 /\ Cardinality({}) = 0
      BY FS_Singleton, FS_EmptySet
    <3> HIDE DEF reads
    <3>7. ASSUME NEW g \in Gates(d)
          PROVE  TimesListed(g, d.node[n].output) = Cardinality(reads(g))
      BY <1>21, <3>3, <3>4, <3>5, <3>6
    <3> QED
      BY <3>2, <3>7 DEF reads
  <2>3. CASE n # source
    <3>1. d.node[n].output = c.node[n].output
      BY <1>13, <2>1, <2>3
    <3>2. DOMAIN c.node[n].output \subseteq Gates(c)
      BY <1>1 DEF ReadersRight
    <3>3. ASSUME NEW g \in Gates(c)
          PROVE  /\ reads(g) = {j \in DOMAIN c.node[g].input : c.node[g].input[j] = n}
                 /\ TimesListed(g, c.node[n].output) =
                       Cardinality({j \in DOMAIN c.node[g].input : c.node[g].input[j] = n})
      <4>1. g \in DOMAIN c.node /\ d.node[g].input = node[g].input
        BY <1>13, <1>21
      <4> QED
        BY <1>1, <1>8, <2>1, <2>3, <4>1 DEF ReadersRight
    <3>4. TimesListed(inv, c.node[n].output) = 0
      BY <1>21, <3>2 DEF TimesListed, BagIn, BagToSet
    <3>5. reads(inv) = {}
      BY <1>7, <1>11, <2>3
    <3>6. Cardinality({}) = 0
      BY FS_EmptySet
    <3> HIDE DEF reads
    <3>7. ASSUME NEW g \in Gates(d)
          PROVE  TimesListed(g, d.node[n].output) = Cardinality(reads(g))
      BY <1>21, <3>1, <3>3, <3>4, <3>5, <3>6
    <3> QED
      BY <1>21, <3>1, <3>2, <3>7 DEF reads
  <2> QED
    BY <2>2, <2>3
<1>23. NoCircle(d)
  <2> SUFFICES ASSUME NEW S \in SUBSET Gates(d), S # {}
               PROVE  \E n \in S : \A j \in DOMAIN d.node[n].input : d.node[n].input[j] \notin S
    BY DEF NoCircle
  <2>1. CASE inv \in S
    <3>1. source \notin S
      BY <1>2, <1>3, <1>21 DEF Gates, ServiceNodes
    <3> QED
      BY <1>7, <1>11, <2>1, <3>1
  <2>2. CASE inv \notin S
    <3>1. S \in SUBSET Gates(c)
      BY <1>21, <2>2
    <3>2. PICK n \in S : \A j \in DOMAIN c.node[n].input : c.node[n].input[j] \notin S
      BY <3>1 DEF IsCircuit, NoCircle
    <3>3. n \in DOMAIN c.node /\ d.node[n].input = node[n].input
      BY <1>13, <1>21, <3>1
    <3>4. \A j \in DOMAIN node[n].input : node[n].input[j] \notin S
      BY <1>8, <2>2, <3>2, <3>3
    <3> QED
      BY <3>3, <3>4
  <2> QED
    BY <2>1, <2>2
<1> QED
  BY <1>16, <1>17, <1>20, <1>22, <1>23 DEF IsCircuit, d


\* invertOutput keeps names and pointers together, if the name is free.
LEMMA InvertedOutputIsCircuit ==
    ASSUME NEW c, IsCircuit(c), NEW po \in c.outputs, NotName(po) \notin DOMAIN c.nets
    PROVE  IsCircuit(InvertedOutput(c, po))
<1> DEFINE inv == NextNode(c)
           source == c.nets[po].input
           new == NotName(po)
           gate == GateNode("NOT", <<source>>, <<po>>, new)
           bag == c.node[source].output (+) SetToBag({inv})
           nets == [c.nets EXCEPT ![po].type = "default"]
           node == [c.node EXCEPT ![source].output = bag]
           d == InvertedOutput(c, po)
<1>1. HasParts(c) /\ DriversRight(c) /\ ReadersRight(c)
  BY DEF IsCircuit
<1>2. /\ source \in Gates(c) /\ source \in DOMAIN c.node
      /\ c.node[source].outName = po /\ po \in DOMAIN c.nets /\ po \notin c.inputs
  BY OutputNet DEF Gates
<1>3. inv \in Nat \ {0, 1} /\ inv \notin DOMAIN c.node
  BY NextIsNew
<1>4. IsName(new)
  BY <1>2, NotNamed
<1>5. d = [c EXCEPT !.outputs = (c.outputs \ {po}) \cup {new},
                    !.nets = WithNet(nets, new, "output", inv),
                    !.node = WithNode(node, inv, gate)]
  BY DEF InvertedOutput
<1>6. c = [node |-> c.node, nets |-> c.nets, inputs |-> c.inputs, outputs |-> c.outputs,
           lazy |-> c.lazy]
  BY <1>1 DEF HasParts
<1>7. gate = GateNode("NOT", <<source>>, <<po>>, new) /\ source = c.nets[po].input
  OBVIOUS
<1>8. /\ node = [c.node EXCEPT ![source] = [c.node[source] EXCEPT !.output = bag]]
      /\ nets = [c.nets EXCEPT ![po] = [c.nets[po] EXCEPT !.type = "default"]]
  OBVIOUS
<1>9. new \notin DOMAIN c.nets
  OBVIOUS
<1> HIDE DEF source, inv, new, gate, d, bag, node, nets
<1>10. /\ IsNode(gate) /\ gate.type = "gate" /\ gate.outName = new
       /\ IsSequence(gate.inNames) /\ IsSequence(gate.input)
       /\ Len(gate.input) = Len(gate.inNames)
       /\ DOMAIN gate.inNames = {1} /\ DOMAIN gate.input = {1}
       /\ gate.inNames[1] = po /\ gate.input[1] = source
  BY <1>7, InverterRight
<1>11. /\ d = [node |-> d.node, nets |-> d.nets, inputs |-> d.inputs, outputs |-> d.outputs,
               lazy |-> d.lazy]
       /\ d.inputs = c.inputs /\ d.outputs = (c.outputs \ {po}) \cup {new}
       /\ d.node = WithNode(node, inv, gate)
       /\ d.nets = WithNet(nets, new, "output", inv)
  BY <1>5, <1>6
<1>12. /\ DOMAIN c.node \in SUBSET (Nat \ {0, 1}) /\ IsFiniteSet(DOMAIN c.node)
       /\ \A n \in DOMAIN c.node : IsNode(c.node[n])
       /\ IsFiniteSet(DOMAIN c.nets)
       /\ \A x \in DOMAIN c.nets :
             /\ IsName(x)
             /\ c.nets[x] = [type |-> c.nets[x].type, input |-> c.nets[x].input]
             /\ c.nets[x].type \in {"input", "output", "default"}
       /\ c.inputs = {x \in DOMAIN c.nets : c.nets[x].type = "input"}
       /\ c.outputs = {x \in DOMAIN c.nets : c.nets[x].type = "output"}
       /\ \A x \in c.inputs : x[1] \notin MadePrefixes
  BY <1>1 DEF HasParts
<1>13. /\ DOMAIN d.node = DOMAIN c.node \cup {inv} /\ d.node[inv] = gate
       /\ \A n \in DOMAIN c.node : d.node[n] = node[n]
  BY <1>3, <1>8, <1>11 DEF WithNode
<1>14. ASSUME NEW n \in DOMAIN c.node
       PROVE  /\ IsNode(d.node[n]) /\ d.node[n].type = c.node[n].type
              /\ d.node[n].outName = c.node[n].outName
              /\ d.node[n].inNames = c.node[n].inNames /\ d.node[n].input = c.node[n].input
              /\ n # source => d.node[n].output = c.node[n].output
  <2>1. CASE n = source
    <3>1. d.node[n] = [c.node[n] EXCEPT !.output = bag] /\ IsNode(c.node[n])
      BY <1>8, <1>12, <1>13, <2>1
    <3> QED
      BY <2>1, <3>1 DEF IsNode
  <2>2. CASE n # source
    BY <1>8, <1>12, <1>13, <2>2
  <2> QED
    BY <2>1, <2>2
<1>15. /\ DOMAIN d.nets = DOMAIN c.nets \cup {new}
       /\ d.nets[new].type = "output" /\ d.nets[new].input = inv
       /\ d.nets[new] = [type |-> d.nets[new].type, input |-> d.nets[new].input]
  BY <1>8, <1>9, <1>11 DEF WithNet
<1>16. ASSUME NEW x \in DOMAIN c.nets
       PROVE  /\ d.nets[x] = [type |-> d.nets[x].type, input |-> d.nets[x].input]
              /\ d.nets[x].input = c.nets[x].input
              /\ d.nets[x].type = IF x = po THEN "default" ELSE c.nets[x].type
  <2>0. d.nets[x] = nets[x]
    BY <1>8, <1>9, <1>11 DEF WithNet
  <2>1. CASE x = po
    <3>1. d.nets[x] = [c.nets[x] EXCEPT !.type = "default"]
      BY <1>8, <2>0, <2>1
    <3>2. c.nets[x] = [type |-> c.nets[x].type, input |-> c.nets[x].input]
      BY <1>12
    <3> QED
      BY <2>1, <3>1, <3>2
  <2>2. CASE x # po
    BY <1>8, <1>12, <2>0, <2>2
  <2> QED
    BY <2>1, <2>2
<1>17. ASSUME NEW x \in DOMAIN c.nets
       PROVE  d.nets[x].input = c.nets[x].input /\ (x # po => d.nets[x].type = c.nets[x].type)
  BY <1>16
<1>18. d.nets[po].type = "default"
  BY <1>2, <1>16
<1>19. HasParts(d)
  <2>1. DOMAIN d.node \in SUBSET (Nat \ {0, 1}) /\ IsFiniteSet(DOMAIN d.node)
    BY <1>3, <1>12, <1>13, FS_AddElement
  <2>2. IsFiniteSet(DOMAIN d.nets)
    BY <1>12, <1>15, FS_AddElement
  <2>3. \A n \in DOMAIN d.node : IsNode(d.node[n])
    BY <1>10, <1>13, <1>14
  <2>4. d.inputs = {x \in DOMAIN d.nets : d.nets[x].type = "input"}
    BY <1>2, <1>9, <1>11, <1>12, <1>15, <1>17, <1>18
  <2>5. d.outputs = {x \in DOMAIN d.nets : d.nets[x].type = "output"}
    BY <1>2, <1>9, <1>11, <1>12, <1>15, <1>17, <1>18
  <2>6. /\ \A x \in DOMAIN d.nets :
              /\ IsName(x)
              /\ d.nets[x] = [type |-> d.nets[x].type, input |-> d.nets[x].input]
              /\ d.nets[x].type \in {"input", "output", "default"}
        /\ \A x \in d.inputs : x[1] \notin MadePrefixes
    BY <1>4, <1>11, <1>12, <1>15, <1>16
  <2> QED
    BY <1>11, <2>1, <2>2, <2>3, <2>4, <2>5, <2>6 DEF HasParts
<1>20. DriversRight(d)
  <2>1. ASSUME NEW n \in DOMAIN d.node
        PROVE  /\ d.node[n].outName \in DOMAIN d.nets
               /\ d.nets[d.node[n].outName].input = n
               /\ d.node[n].type = "input" <=> d.node[n].outName \in d.inputs
    <3>1. CASE n = inv
      BY <1>9, <1>10, <1>11, <1>12, <1>13, <1>15, <3>1
    <3>2. CASE n \in DOMAIN c.node
      BY <1>1, <1>11, <1>14, <1>15, <1>17, <3>2 DEF DriversRight
    <3> QED
      BY <1>13, <3>1, <3>2
  <2>2. ASSUME NEW x \in DOMAIN d.nets, d.nets[x].input # Null
        PROVE  d.nets[x].input \in DOMAIN d.node /\ d.node[d.nets[x].input].outName = x
    <3>1. CASE x = new
      BY <1>10, <1>13, <1>15, <3>1
    <3>2. CASE x \in DOMAIN c.nets
      <4>1. c.nets[x].input \in DOMAIN c.node /\ c.node[c.nets[x].input].outName = x
        BY <1>1, <1>16, <2>2, <3>2 DEF DriversRight
      <4> QED
        BY <1>13, <1>14, <1>16, <3>2, <4>1
    <3> QED
      BY <1>15, <3>1, <3>2
  <2>3. ASSUME NEW x \in d.inputs \cup d.outputs
        PROVE  d.nets[x].input # Null
    <3>1. CASE x = new
      BY <1>3, <1>15, <3>1 DEF Null
    <3>2. CASE x \in c.inputs \cup c.outputs
      BY <1>1, <1>12, <1>16, <3>2 DEF DriversRight
    <3> QED
      BY <1>11, <3>1, <3>2
  <2> QED
    BY <2>1, <2>2, <2>3 DEF DriversRight
<1>21. Constant0 \notin DOMAIN d.nets /\ Constant1 \notin DOMAIN d.nets
  BY <1>19 DEF HasParts, IsName
<1>22. PinRight(d, po, source)
  <2>1. NetInput(d.nets, po) = source
    <3>1. po \in DOMAIN d.nets
      BY <1>2, <1>15
    <3>2. d.nets[po].input = c.nets[po].input
      BY <1>2, <1>17
    <3>3. NetInput(d.nets, po) = d.nets[po].input
      BY <1>21, <3>1, PointerOf
    <3> QED
      BY <1>7, <3>2, <3>3
  <2> QED
    BY <1>2, <1>13, <1>15, <2>1 DEF PinRight
<1>23. PinsRight(d)
  <2> SUFFICES ASSUME NEW n \in DOMAIN d.node
               PROVE  /\ IsSequence(d.node[n].inNames) /\ IsSequence(d.node[n].input)
                      /\ Len(d.node[n].input) = Len(d.node[n].inNames)
                      /\ d.node[n].type = "input" => d.node[n].inNames = <<>>
                      /\ \A j \in DOMAIN d.node[n].inNames :
                            PinRight(d, d.node[n].inNames[j], d.node[n].input[j])
    BY PinsOf
  <2>1. CASE n = inv
    BY <1>10, <1>13, <1>22, <2>1
  <2>2. CASE n \in DOMAIN c.node
    <3>1. /\ IsSequence(c.node[n].inNames) /\ IsSequence(c.node[n].input)
          /\ Len(c.node[n].input) = Len(c.node[n].inNames)
          /\ c.node[n].type = "input" => c.node[n].inNames = <<>>
      BY <2>2, SequenceOf DEF IsCircuit, PinsRight
    <3>2. ASSUME NEW j \in DOMAIN c.node[n].inNames
          PROVE  PinRight(d, c.node[n].inNames[j], c.node[n].input[j])
      <4>1. ASSUME c.node[n].inNames[j] \in DOMAIN c.nets
            PROVE  c.node[n].input[j] \in DOMAIN c.node
        BY <1>12, <2>2, <4>1, ReadNet DEF IsName, Constants
      <4>2. c.node[n].inNames[j] \in DOMAIN c.nets =>
               /\ c.node[n].inNames[j] \in DOMAIN d.nets
               /\ d.nets[c.node[n].inNames[j]].input = c.nets[c.node[n].inNames[j]].input
               /\ c.node[n].input[j] \in DOMAIN d.node
        BY <1>13, <1>15, <1>16, <4>1
      <4> QED
        BY <1>21, <2>2, <4>2, PinStays
    <3> QED
      BY <1>14, <2>2, <3>1, <3>2
  <2> QED
    BY <1>13, <2>1, <2>2
<1>24. /\ Gates(d) = Gates(c) \cup {inv} /\ ServiceNodes(d) = ServiceNodes(c)
       /\ inv \notin Gates(c) /\ Gates(c) \subseteq DOMAIN c.node
       /\ ServiceNodes(c) \subseteq DOMAIN c.node /\ source \notin ServiceNodes(c)
  BY <1>2, <1>3, <1>10, <1>13, <1>14 DEF Gates, ServiceNodes
<1>25. ReadersRight(d)
  <2> SUFFICES ASSUME NEW n \in ServiceNodes(c)
               PROVE  /\ DOMAIN d.node[n].output \subseteq Gates(d)
                      /\ \A g \in Gates(d) :
                            TimesListed(g, d.node[n].output) =
                                Cardinality({j \in DOMAIN d.node[g].input : d.node[g].input[j] = n})
    BY <1>24 DEF ReadersRight
  <2>1. n \in DOMAIN c.node /\ n # source /\ d.node[n].output = c.node[n].output
    BY <1>14, <1>24
  <2>2. DOMAIN c.node[n].output \subseteq Gates(c)
    BY <1>1 DEF ReadersRight
  <2>3. ASSUME NEW g \in Gates(c)
        PROVE  TimesListed(g, d.node[n].output) =
                   Cardinality({j \in DOMAIN d.node[g].input : d.node[g].input[j] = n})
    BY <1>1, <1>14, <1>24, <2>1 DEF ReadersRight
  <2>4. TimesListed(inv, c.node[n].output) = 0
    BY <1>24, <2>2 DEF TimesListed, BagIn, BagToSet
  <2>5. {j \in DOMAIN d.node[inv].input : d.node[inv].input[j] = n} = {}
    BY <1>10, <1>13, <2>1
  <2>6. Cardinality({}) = 0
    BY FS_EmptySet
  <2> QED
    BY <1>24, <2>1, <2>2, <2>3, <2>4, <2>5, <2>6
<1>26. NoCircle(d)
  <2> SUFFICES ASSUME NEW S \in SUBSET Gates(d), S # {}
               PROVE  \E n \in S : \A j \in DOMAIN d.node[n].input : d.node[n].input[j] \notin S
    BY DEF NoCircle
  <2> DEFINE R == S \cap Gates(c)
  <2>1. CASE R = {}
    <3>1. S = {inv} /\ source \notin S
      BY <1>2, <1>24, <2>1
    <3> QED
      BY <1>10, <1>13, <3>1
  <2>2. CASE R # {}
    <3>1. PICK n \in R : \A j \in DOMAIN c.node[n].input : c.node[n].input[j] \notin R
      BY <2>2 DEF IsCircuit, NoCircle
    <3>2. n \in DOMAIN c.node /\ d.node[n].input = c.node[n].input
      BY <1>14, <1>24
    <3>3. \A j \in DOMAIN c.node[n].input : c.node[n].input[j] # inv
      <4>1. c.node[n].input \in Seq(DOMAIN c.node \cup {0, 1})
        BY <3>2 DEF IsCircuit, PinsRight
      <4> QED
        BY <1>3, <4>1
    <3>4. \A j \in DOMAIN c.node[n].input : c.node[n].input[j] \notin S
      BY <1>24, <3>1, <3>3
    <3> QED
      BY <3>2, <3>4
  <2> QED
    BY <2>1, <2>2
<1> QED
  BY <1>19, <1>20, <1>23, <1>25, <1>26 DEF IsCircuit, d

\* A circuit stays one when only the values of inputs and what is lazy change.
LEMMA ValuesIsCircuit ==
    ASSUME NEW c, IsCircuit(c), NEW d,
           d = [node |-> d.node, nets |-> d.nets, inputs |-> d.inputs, outputs |-> d.outputs,
                lazy |-> d.lazy],
           d.nets = c.nets, d.inputs = c.inputs, d.outputs = c.outputs,
           DOMAIN d.node = DOMAIN c.node,
           \A n \in DOMAIN c.node :
               /\ IsNode(d.node[n]) /\ d.node[n].type = c.node[n].type
               /\ d.node[n].input = c.node[n].input /\ d.node[n].output = c.node[n].output
               /\ d.node[n].inNames = c.node[n].inNames /\ d.node[n].outName = c.node[n].outName
    PROVE  IsCircuit(d)
<1>1. HasParts(c) /\ DriversRight(c) /\ PinsRight(c) /\ ReadersRight(c)
  BY DEF IsCircuit
<1>2. HasParts(d)
  BY <1>1 DEF HasParts
<1>3. DriversRight(d)
  <2>1. \A n \in DOMAIN d.node :
           /\ d.node[n].outName \in DOMAIN d.nets
           /\ d.nets[d.node[n].outName].input = n
           /\ d.node[n].type = "input" <=> d.node[n].outName \in d.inputs
    BY <1>1 DEF DriversRight
  <2>2. ASSUME NEW x \in DOMAIN d.nets, d.nets[x].input # Null
        PROVE  d.nets[x].input \in DOMAIN d.node /\ d.node[d.nets[x].input].outName = x
    BY <1>1, <2>2 DEF DriversRight
  <2>3. \A x \in d.inputs \cup d.outputs : d.nets[x].input # Null
    BY <1>1 DEF DriversRight
  <2> QED
    BY <2>1, <2>2, <2>3 DEF DriversRight
<1>4. PinsRight(d)
  BY <1>1 DEF PinsRight
<1>5. Gates(d) = Gates(c) /\ ServiceNodes(d) = ServiceNodes(c)
  BY DEF Gates, ServiceNodes
<1>6. ReadersRight(d)
  <2>1. Gates(c) \subseteq DOMAIN c.node /\ ServiceNodes(c) \subseteq DOMAIN c.node
    BY DEF Gates, ServiceNodes
  <2>2. ASSUME NEW n \in ServiceNodes(c), NEW g \in Gates(c)
        PROVE  TimesListed(g, d.node[n].output) =
                   Cardinality({j \in DOMAIN d.node[g].input : d.node[g].input[j] = n})
    <3>1. d.node[n].output = c.node[n].output /\ d.node[g].input = c.node[g].input
      BY <2>1
    <3> QED
      BY <1>1, <3>1 DEF ReadersRight
  <2>3. ASSUME NEW n \in ServiceNodes(c)
        PROVE  DOMAIN d.node[n].output \subseteq Gates(c)
    BY <1>1, <2>1 DEF ReadersRight
  <2> QED
    BY <1>5, <2>2, <2>3 DEF ReadersRight
<1>7. NoCircle(d)
  <2> SUFFICES ASSUME NEW S \in SUBSET Gates(c), S # {}
               PROVE  \E n \in S : \A j \in DOMAIN d.node[n].input : d.node[n].input[j] \notin S
    BY <1>5 DEF NoCircle
  <2>1. PICK n \in S : \A j \in DOMAIN c.node[n].input : c.node[n].input[j] \notin S
    BY DEF IsCircuit, NoCircle
  <2>2. d.node[n].input = c.node[n].input
    BY DEF Gates
  <2> QED
    BY <2>1, <2>2
<1> QED
  BY <1>2, <1>3, <1>4, <1>6, <1>7 DEF IsCircuit

\* evalOutput leaves a circuit.
LEMMA EvaluatedIsCircuit ==
    ASSUME NEW c, IsCircuit(c), NEW vec, NEW po
    PROVE  IsCircuit(AfterEval(ClearLazy(SetInputVector(c, vec)), po))
<1> DEFINE isInput(n) == \E pi \in c.inputs : n = NetInput(c.nets, pi)
           node == [n \in DOMAIN c.node |->
                       IF isInput(n)
                       THEN [c.node[n] EXCEPT !.value = (c.node[n].outName \in vec)]
                       ELSE c.node[n]]
           d1 == SetInputVector(c, vec)
           d2 == ClearLazy(d1)
           d3 == AfterEval(d2, po)
<1>1. HasParts(c)
  BY DEF IsCircuit
<1>2. c = [node |-> c.node, nets |-> c.nets, inputs |-> c.inputs, outputs |-> c.outputs,
           lazy |-> c.lazy]
  BY <1>1 DEF HasParts
<1>3. d1 = [c EXCEPT !.node = node]
  BY DEF SetInputVector
<1>4. ASSUME NEW n \in DOMAIN c.node
      PROVE  /\ IsNode(node[n]) /\ node[n].type = c.node[n].type
             /\ node[n].input = c.node[n].input /\ node[n].output = c.node[n].output
             /\ node[n].inNames = c.node[n].inNames /\ node[n].outName = c.node[n].outName
  <2>1. IsNode(c.node[n])
    BY <1>1 DEF HasParts
  <2>2. node[n] = IF isInput(n)
                  THEN [c.node[n] EXCEPT !.value = (c.node[n].outName \in vec)]
                  ELSE c.node[n]
    OBVIOUS
  <2> HIDE DEF node, isInput
  <2> QED
    BY <2>1, <2>2 DEF IsNode
<1>5. DOMAIN node = DOMAIN c.node
  OBVIOUS
<1> HIDE DEF node, d1
<1>6. \E lazy : d2 = [d1 EXCEPT !.lazy = lazy]
  BY DEF ClearLazy
<1>7. PICK lazy : d2 = [d1 EXCEPT !.lazy = lazy]
  BY <1>6
<1> HIDE DEF d2
<1>8. \E known : d3 = [d2 EXCEPT !.lazy = known]
  BY DEF AfterEval
<1>9. PICK known : d3 = [d2 EXCEPT !.lazy = known]
  BY <1>8
<1> HIDE DEF d3
<1>10. d1 = [node |-> node, nets |-> c.nets, inputs |-> c.inputs, outputs |-> c.outputs,
             lazy |-> c.lazy]
  BY <1>2, <1>3
<1>11. d3 = [node |-> node, nets |-> c.nets, inputs |-> c.inputs, outputs |-> c.outputs,
             lazy |-> known]
  BY <1>7, <1>9, <1>10
<1>12. /\ d3 = [node |-> d3.node, nets |-> d3.nets, inputs |-> d3.inputs,
                outputs |-> d3.outputs, lazy |-> d3.lazy]
       /\ d3.nets = c.nets /\ d3.inputs = c.inputs /\ d3.outputs = c.outputs
       /\ d3.node = node
  BY <1>11
<1>13. IsCircuit(d3)
  BY <1>4, <1>5, <1>12, ValuesIsCircuit
<1> QED
  BY <1>13 DEF d3, d2, d1


-------------------------------------------------------------------------------
(***************************************************************************)
(* The invariant: what a slot holds is a circuit.                          *)
(***************************************************************************)
CircuitsHeld ==
    /\ DOMAIN circuit = Slots
    /\ \A s \in Held : IsCircuit(circuit[s])

LEMMA PutKeeps ==
    ASSUME CircuitsHeld, NEW s \in Slots, NEW c, IsCircuit(c),
           circuit' = [circuit EXCEPT ![s] = c]
    PROVE  CircuitsHeld'
<1>1. DOMAIN circuit' = Slots
  BY DEF CircuitsHeld
<1>2. ASSUME NEW t \in Held'
      PROVE  IsCircuit(circuit'[t])
  <2>1. t \in Slots /\ circuit'[t] # NoCircuit
    BY DEF Held
  <2>2. circuit'[t] = IF t = s THEN c ELSE circuit[t]
    BY <2>1 DEF CircuitsHeld
  <2> QED
    BY <2>1, <2>2 DEF CircuitsHeld, Held
<1> QED
  BY <1>1, <1>2 DEF CircuitsHeld

LEMMA InitHeld == Init => CircuitsHeld
<1> SUFFICES ASSUME NEW s \in Slots, NEW design \in Designs,
                    circuit = [t \in Slots |-> IF t = s THEN Construct(design) ELSE NoCircuit]
             PROVE  CircuitsHeld
  BY DEF Init
<1>1. IsCircuit(Construct(design))
  BY DesignsAssumption, ConstructRight
<1> QED
  BY <1>1 DEF CircuitsHeld, Held

LEMMA NextHeld ==
    ASSUME ~ReuseNames, CircuitsHeld, [Next]_vars
    PROVE  CircuitsHeld'
<1>1. CASE UNCHANGED vars
  BY <1>1 DEF CircuitsHeld, Held, vars
<1>2. CASE Next
  <2>1. PICK s \in Held :
           \/ \E po \in circuit[s].outputs, vec \in SUBSET circuit[s].inputs :
                  EvalOutputOf(s, po, vec)
           \/ \E pi \in circuit[s].inputs, value \in BOOLEAN : StuckInputOf(s, pi, value)
           \/ \E pi \in circuit[s].inputs : InvertInputOf(s, pi)
           \/ \E po \in circuit[s].outputs : InvertOutputOf(s, po)
           \/ \E t \in Slots : Copy(s, t)
           \/ \E po \in circuit[s].outputs, t \in Slots : GetCone(s, po, t)
           \/ \E t \in Held, function \in {"AND", "XOR"}, u \in Slots :
                  GetMiter(s, t, function, u)
    BY <1>2 DEF Next
  <2>2. s \in Slots /\ IsCircuit(circuit[s])
    BY DEF Held, CircuitsHeld
  <2>3. ASSUME NEW po, NEW vec, EvalOutputOf(s, po, vec)
        PROVE  CircuitsHeld'
    <3>1. IsCircuit(AfterEval(ClearLazy(SetInputVector(circuit[s], vec)), po))
      BY <2>2, EvaluatedIsCircuit
    <3>2. circuit' = [circuit EXCEPT ![s] = AfterEval(ClearLazy(SetInputVector(circuit[s], vec)), po)]
      BY <2>3 DEF EvalOutputOf
    <3> QED
      BY <2>2, <3>1, <3>2, PutKeeps
  <2>4. ASSUME NEW pi \in circuit[s].inputs, NEW value \in BOOLEAN, StuckInputOf(s, pi, value)
        PROVE  CircuitsHeld'
    <3>1. IsCircuit(StuckNetlist(circuit[s], pi, value))
      BY <2>2, StuckIsCircuit
    <3> QED
      BY <2>2, <2>4, <3>1, PutKeeps DEF StuckInputOf, Put
  <2>5. ASSUME NEW pi \in circuit[s].inputs, InvertInputOf(s, pi)
        PROVE  CircuitsHeld'
    <3>1. NotName(pi) \notin DOMAIN circuit[s].nets
      BY <2>5 DEF InvertInputOf, NameIsFree
    <3>2. IsCircuit(InvertedInput(circuit[s], pi))
      BY <2>2, <3>1, InvertedInputIsCircuit
    <3> QED
      BY <2>2, <2>5, <3>2, PutKeeps DEF InvertInputOf, Put
  <2>6. ASSUME NEW po \in circuit[s].outputs, InvertOutputOf(s, po)
        PROVE  CircuitsHeld'
    <3>1. NotName(po) \notin DOMAIN circuit[s].nets
      BY <2>6 DEF InvertOutputOf, NameIsFree
    <3>2. IsCircuit(InvertedOutput(circuit[s], po))
      BY <2>2, <3>1, InvertedOutputIsCircuit
    <3> QED
      BY <2>2, <2>6, <3>2, PutKeeps DEF InvertOutputOf, Put
  <2>7. ASSUME NEW t \in Slots, Copy(s, t)
        PROVE  CircuitsHeld'
    <3>1. IsCircuit(CopyOf(circuit[s]))
      BY <2>2, CopyDesign, ConstructRight DEF CopyOf
    <3> QED
      BY <2>7, <3>1, PutKeeps DEF Copy, Put
  <2>8. ASSUME NEW po \in circuit[s].outputs, NEW t \in Slots, GetCone(s, po, t)
        PROVE  CircuitsHeld'
    <3>1. IsCircuit(ConeOf(circuit[s], po))
      BY <2>2, ConeIsCircuit
    <3> QED
      BY <2>8, <3>1, PutKeeps DEF GetCone, Put
  <2>9. ASSUME NEW t \in Held, NEW function, NEW u \in Slots, GetMiter(s, t, function, u)
        PROVE  CircuitsHeld'
    <3>1. IsCircuit(circuit[t])
      BY DEF CircuitsHeld
    <3>2. circuit[s].outputs # {} /\ circuit[t].outputs # {}
      BY <2>9, FS_EmptySet DEF GetMiter
    <3>3. IsCircuit(MiterOf(circuit[s], circuit[t], function))
      BY <2>2, <3>1, <3>2, MiterIsCircuit
    <3> QED
      BY <2>9, <3>3, PutKeeps DEF GetMiter, Put
  <2> QED
    BY <2>1, <2>3, <2>4, <2>5, <2>6, <2>7, <2>8, <2>9
<1> QED
  BY <1>1, <1>2

\* What a slot holds is always a circuit whose names and pointers say the same:
\* whatever the reader read, however often and in whatever order it is copied,
\* cut into cones, joined to miters, rewired and evaluated.
THEOREM CircuitsStayRight ==
    ASSUME ~ReuseNames
    PROVE  Spec => []CircuitsHeld
<1>1. CircuitsHeld /\ [Next]_vars => CircuitsHeld'
  BY NextHeld
<1> QED
  BY <1>1, InitHeld, PTL DEF Spec

\* NamesMatchPointers always holds, as long as no operation chooses the name of
\* an existing net: what construct, stuckInput, invertInput and invertOutput
\* do to the pointers they do to the names, so that a copy, a cone, a miter and
\* the printed circuit are those of the circuit that is evaluated.
THEOREM NamesStayMatched ==
    ASSUME ~ReuseNames
    PROVE  Spec => []NamesMatchPointers
<1>1. CircuitsHeld => NamesMatchPointers
  <2> SUFFICES ASSUME CircuitsHeld, NEW s \in Held, NEW n \in DOMAIN circuit[s].node
               PROVE  LET c == circuit[s]
                      IN  /\ NetInput(c.nets, c.node[n].outName) = n
                          /\ Len(c.node[n].input) = Len(c.node[n].inNames)
                          /\ \A j \in DOMAIN c.node[n].input :
                                 /\ c.node[n].input[j] \in DOMAIN c.node \cup {0, 1}
                                 /\ c.node[n].input[j] = NetInput(c.nets, c.node[n].inNames[j])
    BY DEF NamesMatchPointers
  <2> DEFINE c == circuit[s]
  <2>1. IsCircuit(c)
    BY DEF CircuitsHeld
  <2> HIDE DEF c
  <2>2. n \in DOMAIN c.node
    BY DEF c
  <2>3. HasParts(c) /\ PinsRight(c)
    BY <2>1 DEF IsCircuit
  <2>4. Constant0 \notin DOMAIN c.nets /\ Constant1 \notin DOMAIN c.nets
    BY <2>3 DEF HasParts, IsName
  <2>5. NetInput(c.nets, c.node[n].outName) = n
    BY <2>1, <2>2, <2>4, DrivenNet, PointerOf
  <2>6. /\ c.node[n].inNames \in Seq(DOMAIN c.nets \cup Constants)
        /\ c.node[n].input \in Seq(DOMAIN c.node \cup {0, 1})
        /\ Len(c.node[n].input) = Len(c.node[n].inNames)
        /\ \A j \in DOMAIN c.node[n].inNames :
              c.node[n].input[j] = NetInput(c.nets, c.node[n].inNames[j])
    BY <2>2, <2>3 DEF PinsRight
  <2>7. DOMAIN c.node[n].input = DOMAIN c.node[n].inNames
    BY <2>6
  <2>8. \A j \in DOMAIN c.node[n].input : c.node[n].input[j] \in DOMAIN c.node \cup {0, 1}
    BY <2>6
  <2> QED
    BY <2>5, <2>6, <2>7, <2>8 DEF c
<1> QED
  BY <1>1, CircuitsStayRight, PTL

\* ReadersListed always holds, under the same condition: the list of readers
\* by which stuckInput and invertInput find the gates to rewire leaves none
\* out, also after copies and earlier rewirings.
THEOREM ReadersStayListed ==
    ASSUME ~ReuseNames
    PROVE  Spec => []ReadersListed
<1>1. CircuitsHeld => ReadersListed
  BY DEF CircuitsHeld, IsCircuit, ReadersRight, ReadersListed
<1> QED
  BY <1>1, CircuitsStayRight, PTL

-------------------------------------------------------------------------------
(***************************************************************************)
(* The values of the nodes of a circuit for a vector.                      *)
(***************************************************************************)
\* The value of a node, given those of the nodes it reads.
ValueAt(c, vec, v, n) ==
    IF n \in {0, 1} THEN n = 1
    ELSE IF c.node[n].type = "input" THEN c.node[n].outName \in vec
    ELSE Apply(c.node[n].function, [j \in DOMAIN c.node[n].input |-> v[c.node[n].input[j]]])

\* v has the right value at these nodes.
RightAt(c, vec, v, nodes) == \A n \in nodes : v[n] = ValueAt(c, vec, v, n)

\* The nodes, with the two constants.
AllNodes(c) == DOMAIN c.node \cup {0, 1}

\* What a node reads is a node of the circuit, a constant, an input or a gate.
LEMMA PinNode ==
    ASSUME NEW c, IsCircuit(c), NEW n \in DOMAIN c.node, NEW j \in DOMAIN c.node[n].input
    PROVE  /\ c.node[n].input[j] \in AllNodes(c)
           /\ c.node[n].input[j] \in {0, 1} \cup ServiceNodes(c) \cup Gates(c)
<1>1. PinsRight(c) /\ HasParts(c)
  BY DEF IsCircuit
<1>2. c.node[n].input \in Seq(DOMAIN c.node \cup {0, 1})
  BY <1>1 DEF PinsRight
<1>3. c.node[n].input[j] \in AllNodes(c)
  BY <1>2 DEF AllNodes
<1>4. \A m \in DOMAIN c.node : m \in ServiceNodes(c) \cup Gates(c)
  BY <1>1 DEF HasParts, IsNode, ServiceNodes, Gates
<1> QED
  BY <1>3, <1>4 DEF AllNodes

\* A value depends on those of the nodes that are read alone.
LEMMA SameReads ==
    ASSUME NEW c, NEW vec, NEW v, NEW w, NEW n,
           n \in {0, 1} \/ c.node[n].type = "input" \/
              \A j \in DOMAIN c.node[n].input : v[c.node[n].input[j]] = w[c.node[n].input[j]]
    PROVE  ValueAt(c, vec, v, n) = ValueAt(c, vec, w, n)
<1>1. CASE n \in {0, 1} \/ c.node[n].type = "input"
  BY <1>1 DEF ValueAt
<1>2. CASE \A j \in DOMAIN c.node[n].input : v[c.node[n].input[j]] = w[c.node[n].input[j]]
  <2>1. [j \in DOMAIN c.node[n].input |-> v[c.node[n].input[j]]] =
        [j \in DOMAIN c.node[n].input |-> w[c.node[n].input[j]]]
    BY <1>2
  <2> QED
    BY <2>1 DEF ValueAt
<1> QED
  BY <1>1, <1>2

\* The gates get values one by one, each after those it reads.
LEMMA ValuesExist ==
    ASSUME NEW c, IsCircuit(c), NEW vec
    PROVE  \E v : v = [n \in AllNodes(c) |-> ValueAt(c, vec, v, n)]
<1> DEFINE leaves == {0, 1} \cup ServiceNodes(c)
           closed(D) == \A n \in D : \A j \in DOMAIN c.node[n].input :
                            c.node[n].input[j] \in D \cup leaves
           solved(D) == closed(D) /\ \E v : RightAt(c, vec, v, D \cup leaves)
           left == {Cardinality(Gates(c) \ D) : D \in {D \in SUBSET Gates(c) : solved(D)}}
<1>1. /\ IsFiniteSet(Gates(c)) /\ Gates(c) \subseteq DOMAIN c.node
      /\ \A n \in Gates(c) : n \notin leaves /\ c.node[n].type = "gate"
      /\ \A n \in leaves : n \in {0, 1} \/ c.node[n].type = "input"
      /\ AllNodes(c) = Gates(c) \cup leaves
  <2>1. /\ DOMAIN c.node \in SUBSET (Nat \ {0, 1}) /\ IsFiniteSet(DOMAIN c.node)
        /\ \A n \in DOMAIN c.node : c.node[n].type \in {"gate", "input"}
    BY DEF IsCircuit, HasParts, IsNode
  <2>2. IsFiniteSet(Gates(c))
    BY <2>1, FS_Subset DEF Gates
  <2> QED
    BY <2>1, <2>2 DEF Gates, ServiceNodes, AllNodes
<1>2. solved({})
  <2> DEFINE v == [n \in leaves |-> ValueAt(c, vec, <<>>, n)]
  <2>1. \A n \in leaves : ValueAt(c, vec, v, n) = ValueAt(c, vec, <<>>, n)
    BY <1>1, SameReads
  <2>2. \A n \in leaves : v[n] = ValueAt(c, vec, <<>>, n)
    OBVIOUS
  <2> HIDE DEF v
  <2>3. RightAt(c, vec, v, {} \cup leaves)
    BY <2>1, <2>2 DEF RightAt
  <2> QED
    BY <2>3
<1>3. \A D \in SUBSET Gates(c) : IsFiniteSet(Gates(c) \ D) /\ Cardinality(Gates(c) \ D) \in Nat
  BY <1>1, FS_Subset, FS_CardinalityType
<1>4. PICK D \in SUBSET Gates(c) :
         /\ solved(D)
         /\ \A E \in SUBSET Gates(c) : solved(E) => Cardinality(Gates(c) \ D) <= Cardinality(Gates(c) \ E)
  <2>1. left \in SUBSET Nat /\ left # {}
    BY <1>2, <1>3
  <2>2. PICK m \in left : \A n \in left : m <= n
    BY <2>1, LeastOf
  <2> QED
    BY <2>2
<1>5. D = Gates(c)
  <2> SUFFICES ASSUME Gates(c) \ D # {}
               PROVE  FALSE
    OBVIOUS
  <2>1. PICK g \in Gates(c) \ D : \A j \in DOMAIN c.node[g].input : c.node[g].input[j] \notin Gates(c) \ D
    BY DEF IsCircuit, NoCircle
  <2>2. PICK v : RightAt(c, vec, v, D \cup leaves)
    BY <1>4
  <2> DEFINE E == D \cup {g}
             w == [n \in AllNodes(c) |-> IF n = g THEN ValueAt(c, vec, v, g) ELSE v[n]]
  <2>3. \A j \in DOMAIN c.node[g].input : c.node[g].input[j] \in D \cup leaves
    BY <1>1, <2>1, PinNode
  <2>4. closed(D)
    BY <1>4
  <2>5. closed(E)
    BY <2>3, <2>4
  <2>6. g \notin D \cup leaves /\ g \in AllNodes(c) /\ D \cup leaves \subseteq AllNodes(c)
    BY <1>1
  <2>7. \A n \in D \cup leaves : w[n] = v[n]
    BY <2>6
  <2>8. w[g] = ValueAt(c, vec, v, g)
    BY <2>6
  <2> HIDE DEF w, leaves
  <2>9. ASSUME NEW n \in D \cup {g} \cup leaves
        PROVE  ValueAt(c, vec, w, n) = ValueAt(c, vec, v, n)
    <3>1. CASE n \in leaves
      BY <1>1, <3>1, SameReads
    <3>2. CASE n \notin leaves
      <4>1. \A j \in DOMAIN c.node[n].input : c.node[n].input[j] \in D \cup leaves
        BY <2>3, <2>4, <3>2
      <4> QED
        BY <2>7, <4>1, SameReads
    <3> QED
      BY <3>1, <3>2
  <2>10. RightAt(c, vec, w, E \cup leaves)
    BY <2>2, <2>7, <2>8, <2>9 DEF RightAt
  <2>11. solved(E) /\ E \in SUBSET Gates(c)
    BY <2>5, <2>10
  <2>12. Cardinality(Gates(c) \ E) < Cardinality(Gates(c) \ D)
    <3>1. Gates(c) \ E \in SUBSET (Gates(c) \ D) /\ g \in Gates(c) \ D /\ g \notin Gates(c) \ E
      OBVIOUS
    <3> QED
      BY <1>3, <3>1, SmallerPart
  <2>13. Cardinality(Gates(c) \ D) <= Cardinality(Gates(c) \ E)
    <3> HIDE DEF solved, E
    <3> QED
      BY <1>4, <2>11
  <2> HIDE DEF E
  <2> QED
    BY <1>3, <2>11, <2>12, <2>13
<1>6. PICK v : RightAt(c, vec, v, AllNodes(c))
  BY <1>1, <1>4, <1>5
<1> DEFINE w == [n \in AllNodes(c) |-> v[n]]
<1>7. ASSUME NEW n \in AllNodes(c)
      PROVE  w[n] = ValueAt(c, vec, w, n)
  <2>1. w[n] = ValueAt(c, vec, v, n)
    BY <1>6 DEF RightAt
  <2>2. \A m \in AllNodes(c) : w[m] = v[m]
    OBVIOUS
  <2>3. n \in {0, 1} \/ \A j \in DOMAIN c.node[n].input : c.node[n].input[j] \in AllNodes(c)
    BY PinNode DEF AllNodes
  <2> HIDE DEF w
  <2>4. ValueAt(c, vec, w, n) = ValueAt(c, vec, v, n)
    BY <2>2, <2>3, SameReads
  <2> QED
    BY <2>1, <2>4
<1>8. w = [n \in AllNodes(c) |-> ValueAt(c, vec, w, n)]
  <2>1. w = [n \in AllNodes(c) |-> w[n]]
    OBVIOUS
  <2> HIDE DEF w
  <2> QED
    BY <1>7, <2>1
<1> QED
  BY <1>8

\* Values that are right everywhere are the only ones.
LEMMA ValuesUnique ==
    ASSUME NEW c, IsCircuit(c), NEW vec, NEW v, NEW w,
           RightAt(c, vec, v, AllNodes(c)), RightAt(c, vec, w, AllNodes(c))
    PROVE  \A n \in AllNodes(c) : v[n] = w[n]
<1> DEFINE S == {n \in Gates(c) : v[n] # w[n]}
<1>1. \A n \in AllNodes(c) : v[n] = ValueAt(c, vec, v, n) /\ w[n] = ValueAt(c, vec, w, n)
  BY DEF RightAt
<1>2. \A n \in {0, 1} \cup ServiceNodes(c) : v[n] = w[n]
  BY <1>1, SameReads DEF ServiceNodes, AllNodes
<1>3. S = {}
  <2> SUFFICES ASSUME S # {}
               PROVE  FALSE
    OBVIOUS
  <2>1. PICK n \in S : \A j \in DOMAIN c.node[n].input : c.node[n].input[j] \notin S
    BY DEF IsCircuit, NoCircle
  <2>2. n \in DOMAIN c.node
    BY DEF Gates
  <2>3. \A j \in DOMAIN c.node[n].input : v[c.node[n].input[j]] = w[c.node[n].input[j]]
    BY <1>2, <2>1, <2>2, PinNode
  <2>4. v[n] = w[n]
    BY <1>1, <2>2, <2>3, SameReads DEF AllNodes
  <2> QED
    BY <2>4
<1>4. \A n \in DOMAIN c.node : n \in ServiceNodes(c) \cup Gates(c)
  BY DEF IsCircuit, HasParts, IsNode, ServiceNodes, Gates
<1> QED
  BY <1>2, <1>3, <1>4 DEF AllNodes

-------------------------------------------------------------------------------
(***************************************************************************)
(* The values of the nets, by name.                                        *)
(***************************************************************************)
\* u gives each name its value for a vector.
NamesRight(c, vec, u) ==
    /\ u[Constant0] = FALSE /\ u[Constant1] = TRUE
    /\ \A x \in c.inputs : u[x] = (x \in vec)
    /\ \A n \in Gates(c) :
          u[c.node[n].outName] =
              Apply(c.node[n].function,
                    [j \in DOMAIN c.node[n].inNames |-> u[c.node[n].inNames[j]]])

\* Nothing but the constants is known, and rightly.
KnownRight(c, known) == \A n \in AllNodes(c) \cap DOMAIN known : n \in {0, 1} /\ known[n] = (n = 1)

\* setInputVector changes the values of the inputs, which are those of the vector.
LEMMA VectorSet ==
    ASSUME NEW c, IsCircuit(c), NEW vec
    PROVE  LET d == SetInputVector(c, vec)
           IN  /\ d = [c EXCEPT !.node = d.node]
               /\ d.nets = c.nets /\ d.lazy = c.lazy
               /\ DOMAIN d.node = DOMAIN c.node
               /\ \A n \in DOMAIN c.node :
                     /\ d.node[n].type = c.node[n].type
                     /\ d.node[n].function = c.node[n].function
                     /\ d.node[n].input = c.node[n].input
                     /\ d.node[n].inNames = c.node[n].inNames
                     /\ d.node[n].outName = c.node[n].outName
                     /\ c.node[n].type = "input" => d.node[n].value = (c.node[n].outName \in vec)
<1> DEFINE isInput(n) == \E pi \in c.inputs : n = NetInput(c.nets, pi)
           node == [n \in DOMAIN c.node |->
                       IF isInput(n)
                       THEN [c.node[n] EXCEPT !.value = (c.node[n].outName \in vec)]
                       ELSE c.node[n]]
           d == SetInputVector(c, vec)
<1>1. HasParts(c) /\ DriversRight(c)
  BY DEF IsCircuit
<1>2. c = [node |-> c.node, nets |-> c.nets, inputs |-> c.inputs, outputs |-> c.outputs,
           lazy |-> c.lazy]
  BY <1>1 DEF HasParts
<1>3. d = [c EXCEPT !.node = node]
  BY DEF SetInputVector
<1>4. ASSUME NEW n \in DOMAIN c.node
      PROVE  /\ node[n].type = c.node[n].type /\ node[n].function = c.node[n].function
             /\ node[n].input = c.node[n].input
             /\ node[n].inNames = c.node[n].inNames /\ node[n].outName = c.node[n].outName
             /\ c.node[n].type = "input" => node[n].value = (c.node[n].outName \in vec)
  <2>1. IsNode(c.node[n])
    BY <1>1 DEF HasParts
  <2>2. node[n] = IF isInput(n)
                  THEN [c.node[n] EXCEPT !.value = (c.node[n].outName \in vec)]
                  ELSE c.node[n]
    OBVIOUS
  <2>3. c.node[n].type = "input" => isInput(n)
    <3> SUFFICES ASSUME c.node[n].type = "input"
                 PROVE  isInput(n)
      OBVIOUS
    <3>1. c.node[n].outName \in c.inputs /\ c.nets[c.node[n].outName].input = n
      BY <1>1 DEF DriversRight
    <3>2. NetInput(c.nets, c.node[n].outName) = n
      BY <3>1, InputNet
    <3> QED
      BY <3>1, <3>2
  <2> HIDE DEF node, isInput
  <2> QED
    BY <2>1, <2>2, <2>3 DEF IsNode
<1>5. DOMAIN node = DOMAIN c.node
  OBVIOUS
<1> HIDE DEF node, d
<1>6. d.node = node /\ d.nets = c.nets /\ d.lazy = c.lazy
  BY <1>2, <1>3
<1> QED
  BY <1>3, <1>4, <1>5, <1>6 DEF d

\* The values that eval computes from what is known.
LEMMA ValuesRight ==
    ASSUME NEW c, IsCircuit(c), NEW vec, NEW known, KnownRight(c, known),
           NEW d, d.node = SetInputVector(c, vec).node
    PROVE  RightAt(c, vec, Values(d, known), AllNodes(c))
<1> DEFINE next(v, n) ==
               IF n \in DOMAIN known THEN known[n]
               ELSE IF n \in {0, 1} THEN n = 1
               ELSE IF d.node[n].type = "input" THEN d.node[n].value
               ELSE Apply(d.node[n].function,
                          [j \in DOMAIN d.node[n].input |-> v[d.node[n].input[j]]])
           v[n \in DOMAIN d.node \cup {0, 1}] ==
               IF n \in DOMAIN known THEN known[n]
               ELSE IF n \in {0, 1} THEN n = 1
               ELSE IF d.node[n].type = "input" THEN d.node[n].value
               ELSE Apply(d.node[n].function,
                          [j \in DOMAIN d.node[n].input |-> v[d.node[n].input[j]]])
<1>1. Values(d, known) = v
  BY DEF Values
<1>2. PICK w : w = [n \in AllNodes(c) |-> ValueAt(c, vec, w, n)]
  BY ValuesExist
<1>3. DOMAIN d.node = DOMAIN c.node
  BY VectorSet
<1>4. ASSUME NEW n \in AllNodes(c), NEW x
      PROVE  next(x, n) = ValueAt(c, vec, x, n)
  <2>1. CASE n \in {0, 1}
    BY <2>1 DEF KnownRight, ValueAt
  <2>2. CASE n \notin {0, 1}
    <3>1. n \in DOMAIN c.node /\ n \notin DOMAIN known
      BY <2>2 DEF KnownRight, AllNodes
    <3>2. /\ d.node[n].type = c.node[n].type
          /\ d.node[n].function = c.node[n].function
          /\ d.node[n].input = c.node[n].input
          /\ c.node[n].type = "input" => d.node[n].value = (c.node[n].outName \in vec)
      BY <3>1, VectorSet
    <3> QED
      BY <2>2, <3>1, <3>2 DEF ValueAt
  <2> QED
    BY <2>1, <2>2
<1>5. v = [n \in AllNodes(c) |-> next(v, n)]
  <2>1. w = [n \in DOMAIN d.node \cup {0, 1} |-> next(w, n)]
    BY <1>2, <1>3, <1>4 DEF AllNodes
  <2> QED
    BY <1>3, <2>1 DEF AllNodes
<1> HIDE DEF v, next
<1>6. RightAt(c, vec, v, AllNodes(c))
  BY <1>4, <1>5 DEF RightAt
<1> QED
  BY <1>1, <1>6

\* The values of the nets are those of their drivers.
LEMMA NamesOfNodes ==
    ASSUME NEW c, IsCircuit(c), NEW vec, NEW u, NamesRight(c, vec, u)
    PROVE  RightAt(c, vec, [n \in AllNodes(c) |-> IF n \in {0, 1} THEN n = 1 ELSE u[c.node[n].outName]],
                   AllNodes(c))
<1> DEFINE v == [n \in AllNodes(c) |-> IF n \in {0, 1} THEN n = 1 ELSE u[c.node[n].outName]]
<1>1. DOMAIN c.node \in SUBSET (Nat \ {0, 1}) /\ PinsRight(c)
  BY DEF IsCircuit, HasParts
<1>2. ASSUME NEW n \in AllNodes(c)
      PROVE  v[n] = ValueAt(c, vec, v, n)
  <2>1. CASE n \in {0, 1}
    BY <2>1 DEF ValueAt
  <2>2. CASE n \in ServiceNodes(c)
    <3>1. c.node[n].type = "input" /\ n \in DOMAIN c.node /\ n \notin {0, 1}
      BY <1>1, <2>2 DEF ServiceNodes
    <3>2. c.node[n].outName \in c.inputs
      BY <2>2, <3>1, DrivenNet
    <3>3. v[n] = (c.node[n].outName \in vec)
      BY <3>1, <3>2 DEF NamesRight
    <3> QED
      BY <3>1, <3>3 DEF ValueAt
  <2>3. CASE n \in Gates(c)
    <3>1. c.node[n].type = "gate" /\ n \in DOMAIN c.node /\ n \notin {0, 1}
      BY <1>1, <2>3 DEF Gates
    <3>2. DOMAIN c.node[n].input = DOMAIN c.node[n].inNames
      BY <1>1, <3>1 DEF PinsRight
    <3>3. ASSUME NEW j \in DOMAIN c.node[n].inNames
          PROVE  v[c.node[n].input[j]] = u[c.node[n].inNames[j]]
      <4> DEFINE x == c.node[n].inNames[j]
                 m == c.node[n].input[j]
      <4>1. \/ x \in Constants /\ m \in {0, 1} /\ m = NetInput(c.nets, x)
            \/ m \in DOMAIN c.node /\ c.node[m].outName = x
        BY <3>1, ReadNet
      <4>2. CASE x \in Constants /\ m \in {0, 1} /\ m = NetInput(c.nets, x)
        <5>1. Constant0 \notin DOMAIN c.nets /\ Constant1 \notin DOMAIN c.nets
          BY DEF IsCircuit, HasParts, IsName
        <5>2. (x = Constant0 /\ m = 0) \/ (x = Constant1 /\ m = 1)
          BY <4>2, <5>1, PointerOf DEF Constants
        <5>3. v[0] = FALSE /\ v[1] = TRUE
          <6>1. 0 \in AllNodes(c) /\ 1 \in AllNodes(c)
            BY DEF AllNodes
          <6>2. v[0] = (0 = 1) /\ v[1] = (1 = 1)
            BY <6>1
          <6>3. (0 = 1) = FALSE /\ (1 = 1) = TRUE
            OBVIOUS
          <6> HIDE DEF v
          <6> QED
            BY <6>2, <6>3, Zenon
        <5> HIDE DEF v
        <5> QED
          BY <5>2, <5>3 DEF NamesRight
      <4>3. CASE m \in DOMAIN c.node /\ c.node[m].outName = x
        <5>1. m \in AllNodes(c) /\ m \notin {0, 1}
          BY <1>1, <4>3 DEF AllNodes
        <5>2. v[m] = u[c.node[m].outName]
          BY <5>1
        <5> HIDE DEF v
        <5> QED
          BY <4>3, <5>2
      <4> QED
        BY <4>1, <4>2, <4>3
    <3>4. v[n] = u[c.node[n].outName]
      BY <3>1
    <3> HIDE DEF v
    <3>5. [j \in DOMAIN c.node[n].input |-> v[c.node[n].input[j]]] =
          [j \in DOMAIN c.node[n].inNames |-> u[c.node[n].inNames[j]]]
      BY <3>2, <3>3
    <3>6. ValueAt(c, vec, v, n) =
              Apply(c.node[n].function, [j \in DOMAIN c.node[n].input |-> v[c.node[n].input[j]]])
      BY <3>1 DEF ValueAt
    <3> QED
      BY <2>3, <3>4, <3>5, <3>6 DEF NamesRight
  <2> QED
    BY <2>1, <2>2, <2>3, DrivenNet DEF AllNodes
<1> HIDE DEF v
<1>3. RightAt(c, vec, v, AllNodes(c))
  BY <1>2 DEF RightAt
<1> QED
  BY <1>3 DEF v

\* evalOutput answers by the names.
LEMMA OutputByName ==
    ASSUME NEW c, IsCircuit(c), NEW vec, NEW known, KnownRight(c, known),
           NEW u, NamesRight(c, vec, u), NEW po \in c.outputs,
           NEW d, d = [SetInputVector(c, vec) EXCEPT !.lazy = known]
    PROVE  OutputValue(d, po) <=> u[po]
<1> DEFINE e == SetInputVector(c, vec)
           n == c.nets[po].input
           w == [m \in AllNodes(c) |-> IF m \in {0, 1} THEN m = 1 ELSE u[c.node[m].outName]]
<1>1. HasParts(c) /\ DriversRight(c)
  BY DEF IsCircuit
<1>2. e = [node |-> e.node, nets |-> c.nets, inputs |-> c.inputs, outputs |-> c.outputs,
           lazy |-> c.lazy]
  <2>1. c = [node |-> c.node, nets |-> c.nets, inputs |-> c.inputs, outputs |-> c.outputs,
             lazy |-> c.lazy] /\ e = [c EXCEPT !.node = e.node]
    BY <1>1, VectorSet DEF HasParts
  <2> HIDE DEF e
  <2> QED
    BY <2>1
<1> HIDE DEF e
<1>3. d.node = e.node /\ d.nets = c.nets /\ d.lazy = known
  BY <1>2 DEF e
<1>4. d.node = SetInputVector(c, vec).node
  BY <1>3 DEF e
<1>5. RightAt(c, vec, Values(d, known), AllNodes(c)) /\ RightAt(c, vec, w, AllNodes(c))
  BY <1>4, ValuesRight, NamesOfNodes
<1>6. n \in Gates(c) /\ c.node[n].outName = po /\ po \in DOMAIN c.nets
  BY OutputNet
<1>7. n \in AllNodes(c) /\ n \notin {0, 1}
  BY <1>1, <1>6 DEF Gates, AllNodes, HasParts
<1>8. w[n] = u[po]
  BY <1>6, <1>7
<1>9. c.nets[po].type = "output" /\ c.nets[po].input # Null
  BY <1>1, <1>6 DEF HasParts, DriversRight
<1> HIDE DEF w
<1>10. Values(d, known)[n] = u[po]
  BY <1>5, <1>7, <1>8, ValuesUnique
<1> QED
  BY <1>3, <1>6, <1>9, <1>10 DEF OutputValue

\* There are such values.
LEMMA NamesExist ==
    ASSUME NEW c, IsCircuit(c), NEW vec
    PROVE  \E u : NamesRight(c, vec, u)
<1>1. PICK v : v = [n \in AllNodes(c) |-> ValueAt(c, vec, v, n)]
  BY ValuesExist
<1> DEFINE u == [x \in DOMAIN c.nets \cup Constants |-> v[NetInput(c.nets, x)]]
<1>2. Constant0 \notin DOMAIN c.nets /\ Constant1 \notin DOMAIN c.nets
  BY DEF IsCircuit, HasParts, IsName
<1>3. u[Constant0] = v[0] /\ u[Constant1] = v[1]
  BY <1>2, PointerOf DEF Constants
<1>4. v[0] = FALSE /\ v[1] = TRUE
  <2>1. 0 \in AllNodes(c) /\ 1 \in AllNodes(c)
    BY DEF AllNodes
  <2>2. v[0] = ValueAt(c, vec, v, 0) /\ v[1] = ValueAt(c, vec, v, 1)
    BY <1>1, <2>1
  <2>3. v[0] = (0 = 1) /\ v[1] = (1 = 1)
    BY <2>2 DEF ValueAt
  <2>4. (0 = 1) = FALSE /\ (1 = 1) = TRUE
    OBVIOUS
  <2> QED
    BY <2>3, <2>4, Zenon
<1>5. \A n \in DOMAIN c.node : u[c.node[n].outName] = v[n]
  <2> SUFFICES ASSUME NEW n \in DOMAIN c.node
               PROVE  u[c.node[n].outName] = v[n]
    OBVIOUS
  <2>1. c.node[n].outName \in DOMAIN c.nets /\ NetInput(c.nets, c.node[n].outName) = n
    BY <1>2, DrivenNet, PointerOf
  <2> QED
    BY <2>1
<1>6. \A n \in DOMAIN c.node : n \notin {0, 1} /\ v[n] = ValueAt(c, vec, v, n)
  BY <1>1 DEF AllNodes, IsCircuit, HasParts
<1>7. ASSUME NEW x \in c.inputs
      PROVE  u[x] = (x \in vec)
  <2> DEFINE n == c.nets[x].input
  <2>1. n \in DOMAIN c.node /\ c.node[n].type = "input" /\ c.node[n].outName = x
    BY InputNet DEF ServiceNodes
  <2> HIDE DEF u, n
  <2>2. u[x] = v[n] /\ v[n] = ValueAt(c, vec, v, n) /\ n \notin {0, 1}
    BY <1>5, <1>6, <2>1
  <2>3. ValueAt(c, vec, v, n) = (x \in vec)
    BY <2>1, <2>2 DEF ValueAt
  <2> QED
    BY <2>2, <2>3
<1>8. ASSUME NEW n \in Gates(c)
      PROVE  u[c.node[n].outName] =
                 Apply(c.node[n].function,
                       [j \in DOMAIN c.node[n].inNames |-> u[c.node[n].inNames[j]]])
  <2>1. n \in DOMAIN c.node /\ c.node[n].type = "gate"
    BY DEF Gates
  <2>2. /\ DOMAIN c.node[n].input = DOMAIN c.node[n].inNames
        /\ \A j \in DOMAIN c.node[n].inNames :
              /\ c.node[n].input[j] = NetInput(c.nets, c.node[n].inNames[j])
              /\ c.node[n].inNames[j] \in DOMAIN c.nets \cup Constants
    <3>1. PinsRight(c)
      BY DEF IsCircuit
    <3> QED
      BY <2>1, <3>1 DEF PinsRight
  <2>3. \A j \in DOMAIN c.node[n].inNames : u[c.node[n].inNames[j]] = v[c.node[n].input[j]]
    BY <2>2
  <2> HIDE DEF u
  <2>4. [j \in DOMAIN c.node[n].inNames |-> u[c.node[n].inNames[j]]] =
        [j \in DOMAIN c.node[n].input |-> v[c.node[n].input[j]]]
    BY <2>2, <2>3
  <2>5. ValueAt(c, vec, v, n) =
            Apply(c.node[n].function, [j \in DOMAIN c.node[n].input |-> v[c.node[n].input[j]]])
    BY <1>6, <2>1 DEF ValueAt
  <2> QED
    BY <1>5, <1>6, <2>1, <2>4, <2>5
<1> HIDE DEF u
<1>9. NamesRight(c, vec, u)
  BY <1>3, <1>4, <1>7, <1>8 DEF NamesRight
<1> QED
  BY <1>9

\* The functions of a circuit, by names.
LEMMA FunctionsByNames ==
    ASSUME NEW c, IsCircuit(c), NEW vec \in SUBSET c.inputs, NEW u, NamesRight(c, vec, u),
           NEW po \in c.outputs
    PROVE  vec \in FunctionsOf(c).outs[po] <=> u[po]
<1> DEFINE d == [SetInputVector(c, vec) EXCEPT !.lazy = <<>>]
<1>1. KnownRight(c, <<>>)
  BY DEF KnownRight
<1>2. OutputValue(d, po) <=> u[po]
  BY <1>1, OutputByName
<1>3. vec \in FunctionsOf(c).outs[po] <=> OutputValue(d, po)
  BY DEF FunctionsOf
<1> QED
  BY <1>2, <1>3

\* The functions of a circuit are sets of vectors of its inputs.
LEMMA FunctionsShape ==
    ASSUME NEW c
    PROVE  /\ FunctionsOf(c) = [ins |-> c.inputs, outs |-> FunctionsOf(c).outs]
           /\ FunctionsOf(c).ins = c.inputs /\ DOMAIN FunctionsOf(c).outs = c.outputs
           /\ \A po \in c.outputs : FunctionsOf(c).outs[po] \in SUBSET (SUBSET c.inputs)
           /\ FunctionsOf(c) # NoCircuit
<1> DEFINE outs == [po \in c.outputs |->
                       {vec \in SUBSET c.inputs :
                           OutputValue([SetInputVector(c, vec) EXCEPT !.lazy = <<>>], po)}]
<1>1. FunctionsOf(c) = [ins |-> c.inputs, outs |-> outs]
  BY DEF FunctionsOf
<1>2. DOMAIN outs = c.outputs /\ \A po \in c.outputs : outs[po] \in SUBSET (SUBSET c.inputs)
  OBVIOUS
<1> HIDE DEF outs
<1>3. FunctionsOf(c).outs = outs /\ FunctionsOf(c).ins = c.inputs
  BY <1>1
<1>4. FunctionsOf(c) # NoCircuit
  BY <1>1 DEF NoCircuit
<1> QED
  BY <1>1, <1>2, <1>3, <1>4

\* A gate gives the net it drives the right value.
GateRight(g, u) ==
    u[g.outName] = Apply(g.function, [j \in DOMAIN g.inNames |-> u[g.inNames[j]]])

\* Values that are right have each gate right.
LEMMA NamesByGate ==
    ASSUME NEW c, NEW vec, NEW u
    PROVE  NamesRight(c, vec, u) <=>
              /\ u[Constant0] = FALSE /\ u[Constant1] = TRUE
              /\ \A x \in c.inputs : u[x] = (x \in vec)
              /\ \A n \in Gates(c) : GateRight(c.node[n], u)
BY DEF NamesRight, GateRight

\* A gate is right when one of the same function and nets is.
LEMMA SameGateRight ==
    ASSUME NEW n, NEW g, SameGate(n, g), NEW u
    PROVE  GateRight(n, u) <=> GateRight(g, u)
BY DEF SameGate, GateRight

\* A circuit that has some gates and some inputs of another has the same values.
LEMMA PartRight ==
    ASSUME NEW c, NEW d, d.inputs \subseteq c.inputs,
           \A n \in Gates(d) : \E m \in Gates(c) : SameGate(d.node[n], c.node[m]),
           NEW vec, NEW u, NamesRight(c, vec, u)
    PROVE  NamesRight(d, vec \cap d.inputs, u)
<1>1. ASSUME NEW n \in Gates(d)
      PROVE  GateRight(d.node[n], u)
  <2>1. PICK m \in Gates(c) : SameGate(d.node[n], c.node[m])
    OBVIOUS
  <2>2. GateRight(c.node[m], u)
    BY NamesByGate
  <2> QED
    BY <2>1, <2>2, SameGateRight
<1>2. \A x \in d.inputs : u[x] = (x \in vec \cap d.inputs)
  BY DEF NamesRight
<1>3. u[Constant0] = FALSE /\ u[Constant1] = TRUE
  BY DEF NamesRight
<1> QED
  BY <1>1, <1>2, <1>3, NamesByGate

\* What a part computes.
LEMMA PartFunction ==
    ASSUME NEW c, IsCircuit(c), NEW d, IsCircuit(d), d.inputs \subseteq c.inputs,
           \A n \in Gates(d) : \E m \in Gates(c) : SameGate(d.node[n], c.node[m]),
           NEW po \in c.outputs \cap d.outputs, NEW vec \in SUBSET c.inputs
    PROVE  vec \in FunctionsOf(c).outs[po] <=> vec \cap d.inputs \in FunctionsOf(d).outs[po]
<1>1. PICK u : NamesRight(c, vec, u)
  BY NamesExist
<1>2. NamesRight(d, vec \cap d.inputs, u)
  BY <1>1, PartRight
<1>3. vec \in FunctionsOf(c).outs[po] <=> u[po]
  BY <1>1, FunctionsByNames
<1>4. vec \cap d.inputs \in FunctionsOf(d).outs[po] <=> u[po]
  BY <1>2, FunctionsByNames
<1> QED
  BY <1>3, <1>4

\* Circuits with the same nets and gates compute the same.
LEMMA SameFunctions ==
    ASSUME NEW c, IsCircuit(c), NEW d, IsCircuit(d), d.inputs = c.inputs, d.outputs = c.outputs,
           \A n \in Gates(d) : \E m \in Gates(c) : SameGate(d.node[n], c.node[m])
    PROVE  FunctionsOf(d) = FunctionsOf(c)
<1> DEFINE F == FunctionsOf(c).outs
           G == FunctionsOf(d).outs
<1>1. /\ FunctionsOf(c) = [ins |-> c.inputs, outs |-> F] /\ DOMAIN F = c.outputs
      /\ \A po \in c.outputs : F[po] \in SUBSET (SUBSET c.inputs)
  BY FunctionsShape
<1>2. /\ FunctionsOf(d) = [ins |-> c.inputs, outs |-> G] /\ DOMAIN G = c.outputs
      /\ \A po \in c.outputs : G[po] \in SUBSET (SUBSET c.inputs)
  BY FunctionsShape
<1>3. ASSUME NEW po \in c.outputs
      PROVE  F[po] = G[po]
  <2>1. \A vec \in SUBSET c.inputs : vec \in F[po] <=> vec \cap d.inputs \in G[po]
    BY PartFunction
  <2>2. \A vec \in SUBSET c.inputs : vec \cap d.inputs = vec
    OBVIOUS
  <2> HIDE DEF F, G
  <2>3. \A vec \in SUBSET c.inputs : vec \in F[po] <=> vec \in G[po]
    BY <2>1, <2>2
  <2> QED
    BY <1>1, <1>2, <2>3
<1>4. F = [po \in c.outputs |-> F[po]] /\ G = [po \in c.outputs |-> G[po]]
  BY FunctionsShape DEF FunctionsOf
<1> HIDE DEF F, G
<1>5. F = G
  BY <1>3, <1>4
<1> QED
  BY <1>1, <1>2, <1>5

\* Functions of the same inputs and the same outputs are the same when each
\* output has the same vectors.
LEMMA FunctionsAre ==
    ASSUME NEW c, NEW outs, outs = [po \in c.outputs |-> outs[po]],
           \A po \in c.outputs : outs[po] \in SUBSET (SUBSET c.inputs),
           \A po \in c.outputs : \A vec \in SUBSET c.inputs :
               vec \in FunctionsOf(c).outs[po] <=> vec \in outs[po]
    PROVE  FunctionsOf(c) = [ins |-> c.inputs, outs |-> outs]
<1> DEFINE F == FunctionsOf(c).outs
<1>1. /\ FunctionsOf(c) = [ins |-> c.inputs, outs |-> F] /\ DOMAIN F = c.outputs
      /\ \A po \in c.outputs : F[po] \in SUBSET (SUBSET c.inputs)
  BY FunctionsShape
<1>2. F = [po \in c.outputs |-> F[po]]
  BY DEF FunctionsOf
<1> HIDE DEF F
<1>3. \A po \in c.outputs : F[po] = outs[po]
  BY <1>1 DEF F
<1>4. F = outs
  BY <1>2, <1>3
<1> QED
  BY <1>1, <1>4

-------------------------------------------------------------------------------
(***************************************************************************)
(* What the operations do to functions.                                    *)
(***************************************************************************)
LEMMA CopyFunctions ==
    ASSUME NEW c, IsCircuit(c)
    PROVE  FunctionsOf(CopyOf(c)) = FunctionsOf(c) /\ CopyOf(c).lazy = <<>>
<1> DEFINE d == [types |-> TypesOf(c), gates |-> GateList(c, Gates(c))]
           e == CopyOf(c)
<1>1. IsDesign(d) /\ e = Construct(d)
  BY CopyDesign DEF CopyOf
<1>2. d.types = TypesOf(c) /\ d.gates = GateList(c, Gates(c))
  OBVIOUS
<1> HIDE DEF d, e
<1>3. /\ IsCircuit(e) /\ e.inputs = NetsOf(d.types, "input") /\ e.outputs = NetsOf(d.types, "output")
      /\ e.lazy = <<>>
      /\ \A n \in Gates(e) : \E k \in DOMAIN d.gates : SameGate(e.node[n], d.gates[k])
  BY <1>1, ConstructRight, ConstructParts
<1>4. HasParts(c)
  BY DEF IsCircuit
<1>5. e.inputs = c.inputs /\ e.outputs = c.outputs
  BY <1>2, <1>3, <1>4 DEF NetsOf, TypesOf, HasParts
<1>6. \A n \in Gates(e) : \E m \in Gates(c) : SameGate(e.node[n], c.node[m])
  <2> SUFFICES ASSUME NEW n \in Gates(e)
               PROVE  \E m \in Gates(c) : SameGate(e.node[n], c.node[m])
    OBVIOUS
  <2>1. PICK k \in DOMAIN d.gates : SameGate(e.node[n], d.gates[k])
    BY <1>3
  <2>2. \E m \in Gates(c) : SameGate(c.node[m], d.gates[k])
    BY <1>2, ListOfGates DEF SameGate
  <2> QED
    BY <2>1, <2>2 DEF SameGate
<1>7. FunctionsOf(e) = FunctionsOf(c)
  BY <1>3, <1>5, <1>6, SameFunctions
<1> QED
  BY <1>3, <1>7 DEF e

\* The cone of an output computes its function, of the inputs it keeps.
LEMMA ConeFunctions ==
    ASSUME NEW c, IsCircuit(c), NEW po \in c.outputs
    PROVE  LET kept == ConeOf(c, po).inputs
               on == {vec \in SUBSET kept : vec \in FunctionsOf(c).outs[po]}
           IN  /\ kept \in SUBSET c.inputs /\ ConeOf(c, po).lazy = <<>>
               /\ FunctionsOf(ConeOf(c, po)) = [ins |-> kept, outs |-> [q \in {po} |-> on]]
               /\ \A vec \in SUBSET c.inputs :
                     vec \in FunctionsOf(c).outs[po] <=> vec \cap kept \in on
<1> DEFINE e == ConeOf(c, po)
           on == {vec \in SUBSET e.inputs : vec \in FunctionsOf(c).outs[po]}
           outs == [q \in {po} |-> on]
<1>1. PICK d : /\ IsDesign(d) /\ ConeOf(c, po) = Construct(d)
               /\ NetsOf(d.types, "input") \subseteq c.inputs
               /\ NetsOf(d.types, "output") = {po}
               /\ \A k \in DOMAIN d.gates : \E n \in Gates(c) : SameGate(c.node[n], d.gates[k])
  BY ConeDesign
<1> HIDE DEF e
<1>2. /\ IsCircuit(e) /\ e.inputs \subseteq c.inputs /\ e.outputs = {po} /\ e.lazy = <<>>
      /\ \A n \in Gates(e) : \E k \in DOMAIN d.gates : SameGate(e.node[n], d.gates[k])
  BY <1>1, ConstructRight, ConstructParts DEF e
<1>3. \A n \in Gates(e) : \E m \in Gates(c) : SameGate(e.node[n], c.node[m])
  BY <1>1, <1>2 DEF SameGate
<1>4. \A vec \in SUBSET c.inputs :
         vec \in FunctionsOf(c).outs[po] <=> vec \cap e.inputs \in FunctionsOf(e).outs[po]
  BY <1>2, <1>3, PartFunction
<1>5. \A vec \in SUBSET e.inputs : vec \cap e.inputs = vec /\ vec \in SUBSET c.inputs
  BY <1>2
<1>6. \A vec \in SUBSET e.inputs : vec \in FunctionsOf(e).outs[po] <=> vec \in on
  BY <1>4, <1>5
<1>7. FunctionsOf(e) = [ins |-> e.inputs, outs |-> outs]
  <2>1. outs = [q \in e.outputs |-> outs[q]] /\ \A q \in e.outputs : outs[q] = on
    BY <1>2
  <2>2. on \in SUBSET (SUBSET e.inputs)
    OBVIOUS
  <2> HIDE DEF outs, on
  <2> QED
    BY <1>2, <1>6, <2>1, <2>2, FunctionsAre
<1>8. \A vec \in SUBSET c.inputs : vec \in FunctionsOf(c).outs[po] <=> vec \cap e.inputs \in on
  <2>1. \A vec : vec \cap e.inputs \in SUBSET e.inputs
    OBVIOUS
  <2> HIDE DEF on
  <2> QED
    BY <1>4, <1>6, <2>1
<1> QED
  BY <1>2, <1>7, <1>8 DEF e

\* What is known of the constants before an evaluation.
LazyRight(c) == \A n \in DOMAIN c.lazy \cap {0, 1} : c.lazy[n] = (n = 1)

\* evalOutput answers for its vector and keeps the functions.
LEMMA EvalFunctions ==
    ASSUME NEW c, IsCircuit(c), LazyRight(c), NEW vec \in SUBSET c.inputs, NEW po \in c.outputs
    PROVE  LET d == ClearLazy(SetInputVector(c, vec))
           IN  /\ OutputValue(d, po) <=> vec \in FunctionsOf(c).outs[po]
               /\ FunctionsOf(AfterEval(d, po)) = FunctionsOf(c)
               /\ LazyRight(AfterEval(d, po))
<1> DEFINE e == SetInputVector(c, vec)
           d == ClearLazy(e)
           known == [n \in DOMAIN c.lazy \ (Gates(e) \cup ServiceNodes(e)) |-> c.lazy[n]]
           visited == Visited(d, d.lazy, d.nets[po].input)
           values == [n \in DOMAIN d.lazy \cup visited |-> Values(d, d.lazy)[n]]
           f == AfterEval(d, po)
<1>1. HasParts(c)
  BY DEF IsCircuit
<1>2. /\ e = [c EXCEPT !.node = e.node] /\ e.lazy = c.lazy /\ DOMAIN e.node = DOMAIN c.node
      /\ \A n \in DOMAIN c.node :
            e.node[n].type = c.node[n].type /\ SameGate(e.node[n], c.node[n])
  BY VectorSet DEF SameGate
<1>3. d = [e EXCEPT !.lazy = known]
  BY <1>2 DEF ClearLazy, Restrict
<1>4. f = [d EXCEPT !.lazy = values]
  BY DEF AfterEval
<1>5. c = [node |-> c.node, nets |-> c.nets, inputs |-> c.inputs, outputs |-> c.outputs,
           lazy |-> c.lazy]
  BY <1>1 DEF HasParts
<1> HIDE DEF e, d, f
<1>6. KnownRight(c, known)
  <2>1. Gates(e) \cup ServiceNodes(e) = DOMAIN c.node
    BY <1>1, <1>2 DEF Gates, ServiceNodes, HasParts, IsNode
  <2>2. DOMAIN known = DOMAIN c.lazy \ DOMAIN c.node
    BY <2>1
  <2>3. \A n \in DOMAIN known : n \in DOMAIN c.lazy /\ known[n] = c.lazy[n]
    OBVIOUS
  <2> HIDE DEF known
  <2> QED
    BY <2>2, <2>3 DEF KnownRight, AllNodes, LazyRight
<1> HIDE DEF known, values
<1>7. /\ e = [node |-> e.node, nets |-> c.nets, inputs |-> c.inputs, outputs |-> c.outputs,
              lazy |-> c.lazy]
      /\ d = [node |-> e.node, nets |-> c.nets, inputs |-> c.inputs, outputs |-> c.outputs,
              lazy |-> known]
      /\ f = [node |-> e.node, nets |-> c.nets, inputs |-> c.inputs, outputs |-> c.outputs,
              lazy |-> values]
  <2>1. e = [node |-> e.node, nets |-> c.nets, inputs |-> c.inputs, outputs |-> c.outputs,
             lazy |-> c.lazy]
    BY <1>2, <1>5
  <2>2. d = [node |-> e.node, nets |-> c.nets, inputs |-> c.inputs, outputs |-> c.outputs,
             lazy |-> known]
    BY <1>3, <2>1
  <2> QED
    BY <1>4, <2>1, <2>2
<1>8. d.node = e.node /\ d.lazy = known
  BY <1>7
<1>9. PICK u : NamesRight(c, vec, u)
  BY NamesExist
<1>10. OutputValue(d, po) <=> u[po]
  <2>1. d = [SetInputVector(c, vec) EXCEPT !.lazy = known]
    BY <1>3 DEF e
  <2> QED
    BY <1>6, <1>9, <2>1, OutputByName
<1>11. vec \in FunctionsOf(c).outs[po] <=> u[po]
  BY <1>9, FunctionsByNames
<1>12. IsCircuit(f)
  BY EvaluatedIsCircuit DEF f, d, e
<1>13. f.inputs = c.inputs /\ f.outputs = c.outputs /\ f.node = e.node /\ f.lazy = values
  BY <1>7
<1>14. FunctionsOf(f) = FunctionsOf(c)
  <2>1. \A n \in Gates(f) : n \in Gates(c) /\ SameGate(f.node[n], c.node[n])
    BY <1>2, <1>13 DEF Gates
  <2> QED
    BY <1>12, <1>13, <2>1, SameFunctions
<1>15. LazyRight(f)
  <2>1. RightAt(c, vec, Values(d, d.lazy), AllNodes(c))
    BY <1>6, <1>8, ValuesRight DEF e
  <2>2. ASSUME NEW n \in DOMAIN values \cap {0, 1}
        PROVE  values[n] = (n = 1)
    <3>1. values[n] = Values(d, d.lazy)[n]
      BY DEF values
    <3>2. n \in AllNodes(c)
      BY DEF AllNodes
    <3> QED
      BY <2>1, <3>1, <3>2 DEF RightAt, ValueAt
  <2> QED
    BY <1>13, <2>2 DEF LazyRight
<1> QED
  BY <1>10, <1>11, <1>14, <1>15 DEF f, d, e

\* The value of what a gate reads, after rewiring.
LEMMA RewiredGate ==
    ASSUME NEW c, IsCircuit(c), NEW pi \in c.inputs, NEW newNode, NEW newName,
           NEW n \in Gates(c), NEW g, SameGate(g, Rewired(c, pi, newNode, newName)[n]),
           NEW u, NEW w, w[pi] = u[newName],
           u[c.node[n].outName] = w[c.node[n].outName],
           \A j \in DOMAIN c.node[n].inNames :
               c.node[n].inNames[j] # pi => u[c.node[n].inNames[j]] = w[c.node[n].inNames[j]]
    PROVE  GateRight(g, u) <=> GateRight(c.node[n], w)
<1> DEFINE m == Rewired(c, pi, newNode, newName)[n]
<1>1. n \in DOMAIN c.node
  BY DEF Gates
<1>2. /\ m.outName = c.node[n].outName /\ m.function = c.node[n].function
      /\ DOMAIN m.inNames = DOMAIN c.node[n].inNames
      /\ \A j \in DOMAIN c.node[n].inNames :
            \/ c.node[n].inNames[j] = pi /\ m.inNames[j] = newName
            \/ c.node[n].inNames[j] # pi /\ m.inNames[j] = c.node[n].inNames[j]
  BY <1>1, RewiredRight
<1>3. SameGate(g, m)
  OBVIOUS
<1> HIDE DEF m
<1>4. [j \in DOMAIN m.inNames |-> u[m.inNames[j]]] =
      [j \in DOMAIN c.node[n].inNames |-> w[c.node[n].inNames[j]]]
  BY <1>2
<1>5. GateRight(m, u) <=> GateRight(c.node[n], w)
  BY <1>2, <1>4 DEF GateRight
<1> QED
  BY <1>3, <1>5, SameGateRight

\* stuckInput makes the cofactor.
LEMMA StuckFunctions ==
    ASSUME NEW c, IsCircuit(c), LazyRight(c), NEW pi \in c.inputs, NEW value \in BOOLEAN
    PROVE  LET d == StuckNetlist(c, pi, value)
           IN  /\ d.inputs = c.inputs \ {pi} /\ d.outputs = c.outputs /\ LazyRight(d)
               /\ \A po \in c.outputs : \A vec \in SUBSET (c.inputs \ {pi}) :
                     vec \in FunctionsOf(d).outs[po] <=>
                         (IF value THEN vec \cup {pi} ELSE vec) \in FunctionsOf(c).outs[po]
<1> DEFINE source == NetInput(c.nets, pi)
           node == Rewired(c, pi, ConstantNode(value), ConstantName(value))
           d == StuckNetlist(c, pi, value)
           lazy == [n \in DOMAIN c.lazy \ {source} |-> c.lazy[n]]
<1>1. HasParts(c)
  BY DEF IsCircuit
<1>2. source \in DOMAIN c.node /\ c.node[source].type = "input"
  BY InputNet DEF ServiceNodes
<1>3. d = [c EXCEPT !.inputs = c.inputs \ {pi},
                    !.node = [n \in DOMAIN node \ {source} |-> node[n]],
                    !.nets = [x \in DOMAIN c.nets \ {pi} |-> c.nets[x]],
                    !.lazy = lazy]
  BY DEF StuckNetlist, Restrict
<1>4. c = [node |-> c.node, nets |-> c.nets, inputs |-> c.inputs, outputs |-> c.outputs,
           lazy |-> c.lazy]
  BY <1>1 DEF HasParts
<1>5. IsCircuit(d)
  BY StuckIsCircuit
<1>6. DOMAIN node = DOMAIN c.node /\ \A n \in DOMAIN c.node : node[n].type = c.node[n].type
  BY RewiredRight
<1>7. LazyRight([c EXCEPT !.lazy = lazy])
  BY <1>4 DEF LazyRight
<1> HIDE DEF source, node, d, lazy
<1>8. d.inputs = c.inputs \ {pi} /\ d.outputs = c.outputs /\ d.lazy = lazy
      /\ d.node = [n \in DOMAIN node \ {source} |-> node[n]]
  BY <1>3, <1>4
<1>9. LazyRight(d)
  BY <1>4, <1>7, <1>8 DEF LazyRight
<1>10. \A n \in Gates(d) : n \in Gates(c) /\ d.node[n] = node[n]
  BY <1>6, <1>8 DEF Gates
<1>11. ASSUME NEW po \in c.outputs, NEW vec \in SUBSET (c.inputs \ {pi})
       PROVE  vec \in FunctionsOf(d).outs[po] <=>
                  (IF value THEN vec \cup {pi} ELSE vec) \in FunctionsOf(c).outs[po]
  <2> DEFINE old == IF value THEN vec \cup {pi} ELSE vec
  <2>1. old \in SUBSET c.inputs /\ (pi \in old <=> value) /\ \A x \in c.inputs \ {pi} : x \in old <=> x \in vec
    OBVIOUS
  <2> HIDE DEF old
  <2>2. PICK u : NamesRight(c, old, u)
    BY NamesExist
  <2>3. /\ u[Constant0] = FALSE /\ u[Constant1] = TRUE
        /\ \A x \in c.inputs : u[x] = (x \in old)
        /\ \A n \in Gates(c) : GateRight(c.node[n], u)
    BY <2>2, NamesByGate
  <2>4. u[pi] = u[ConstantName(value)]
    <3>1. u[pi] = value
      BY <2>1, <2>3
    <3>2. u[ConstantName(value)] = value
      BY <2>3 DEF ConstantName
    <3> QED
      BY <3>1, <3>2
  <2>5. ASSUME NEW n \in Gates(d)
        PROVE  GateRight(d.node[n], u)
    <3>1. n \in Gates(c) /\ SameGate(d.node[n], node[n])
      BY <1>10 DEF SameGate
    <3>2. GateRight(d.node[n], u) <=> GateRight(c.node[n], u)
      BY <2>4, <3>1, RewiredGate DEF node
    <3> QED
      BY <2>3, <3>1, <3>2
  <2>6. \A x \in d.inputs : u[x] = (x \in vec)
    BY <1>8, <2>1, <2>3
  <2>7. NamesRight(d, vec, u)
    BY <2>3, <2>5, <2>6, NamesByGate
  <2>8. vec \in FunctionsOf(d).outs[po] <=> u[po]
    BY <1>5, <1>8, <2>7, FunctionsByNames
  <2>9. old \in FunctionsOf(c).outs[po] <=> u[po]
    BY <2>1, <2>2, FunctionsByNames
  <2> QED
    BY <2>8, <2>9 DEF old
<1> QED
  BY <1>8, <1>9, <1>11 DEF d

\* The value of an inverter.
LEMMA InverterGate ==
    ASSUME NEW u, NEW m, NEW x, NEW y
    PROVE  GateRight(GateNode("NOT", <<m>>, <<x>>, y), u) <=> (u[y] = ~u[x])
<1> DEFINE g == GateNode("NOT", <<m>>, <<x>>, y)
           values == [j \in DOMAIN <<x>> |-> u[<<x>>[j]]]
<1>1. g.outName = y /\ g.function = "NOT" /\ g.inNames = <<x>>
  BY DEF GateNode
<1>2. DOMAIN values = {1} /\ values[1] = u[x]
  OBVIOUS
<1> HIDE DEF g, values
<1>3. Apply("NOT", values) = ~u[x]
  BY <1>2 DEF Apply
<1>4. GateRight(g, u) <=> (u[y] = Apply("NOT", values))
  BY <1>1 DEF GateRight, values
<1> QED
  BY <1>3, <1>4 DEF g

\* invertInput: every output sees the other value of the input.
LEMMA InvertedInputFunctions ==
    ASSUME NEW c, IsCircuit(c), LazyRight(c), NEW pi \in c.inputs, NotName(pi) \notin DOMAIN c.nets
    PROVE  LET d == InvertedInput(c, pi)
           IN  /\ d.inputs = c.inputs /\ d.outputs = c.outputs /\ LazyRight(d)
               /\ \A po \in c.outputs : \A vec \in SUBSET c.inputs :
                     vec \in FunctionsOf(d).outs[po] <=> Flip(vec, pi) \in FunctionsOf(c).outs[po]
<1> DEFINE inv == NextNode(c)
           source == NetInput(c.nets, pi)
           new == NotName(pi)
           node == Rewired(c, pi, inv, new)
           node2 == [node EXCEPT ![source].output = SetToBag({inv})]
           gate == GateNode("NOT", <<source>>, <<pi>>, new)
           d == InvertedInput(c, pi)
<1>1. HasParts(c)
  BY DEF IsCircuit
<1>2. source \in DOMAIN c.node /\ pi \in DOMAIN c.nets
  BY InputNet DEF ServiceNodes
<1>3. inv \notin DOMAIN c.node
  BY NextIsNew
<1>4. d = [c EXCEPT !.nets = WithNet(c.nets, new, "default", inv),
                    !.node = WithNode(node2, inv, gate)]
  BY DEF InvertedInput
<1>5. c = [node |-> c.node, nets |-> c.nets, inputs |-> c.inputs, outputs |-> c.outputs,
           lazy |-> c.lazy]
  BY <1>1 DEF HasParts
<1>6. IsCircuit(d)
  BY InvertedInputIsCircuit
<1>7. /\ DOMAIN node = DOMAIN c.node
      /\ \A n \in DOMAIN c.node : IsNode(node[n]) /\ node[n].type = c.node[n].type
  BY RewiredRight
<1>8. node2 = [node EXCEPT ![source] = [node[source] EXCEPT !.output = SetToBag({inv})]]
  OBVIOUS
<1>9. new \notin DOMAIN c.nets /\ IsName(new)
  BY <1>2, NotNamed
<1>10. gate.type = "gate"
  BY DEF GateNode
<1> HIDE DEF source, inv, new, node, node2, gate, d
<1>11. /\ d.inputs = c.inputs /\ d.outputs = c.outputs /\ d.lazy = c.lazy
       /\ d.node = WithNode(node2, inv, gate)
  BY <1>4, <1>5
<1>12. LazyRight(d)
  BY <1>11 DEF LazyRight
<1>13. ASSUME NEW n \in Gates(c)
       PROVE  n \in Gates(d) /\ SameGate(d.node[n], node[n])
  <2>1. n \in DOMAIN c.node /\ n # inv /\ c.node[n].type = "gate"
    BY <1>3 DEF Gates
  <2>2. n \in DOMAIN d.node /\ d.node[n] = node2[n]
    BY <1>7, <1>8, <1>11, <2>1 DEF WithNode
  <2>3. IsNode(node[n]) /\ node[n].type = "gate"
    BY <1>7, <2>1
  <2>4. node2[n] = node[n] \/ node2[n] = [node[n] EXCEPT !.output = SetToBag({inv})]
    BY <1>7, <1>8, <2>1
  <2>5. node2[n].type = "gate" /\ SameGate(node2[n], node[n])
    BY <2>3, <2>4 DEF IsNode, SameGate
  <2> QED
    BY <2>2, <2>5 DEF Gates
<1>14. inv \in Gates(d) /\ d.node[inv] = gate
  BY <1>10, <1>11 DEF WithNode, Gates
<1>15. ASSUME NEW po \in c.outputs, NEW vec \in SUBSET c.inputs
       PROVE  vec \in FunctionsOf(d).outs[po] <=> Flip(vec, pi) \in FunctionsOf(c).outs[po]
  <2>1. PICK u : NamesRight(d, vec, u)
    BY <1>6, NamesExist
  <2>2. /\ u[Constant0] = FALSE /\ u[Constant1] = TRUE
        /\ \A x \in c.inputs : u[x] = (x \in vec)
        /\ \A n \in Gates(d) : GateRight(d.node[n], u)
    BY <1>11, <2>1, NamesByGate
  <2>3. u[new] = ~(pi \in vec)
    <3>1. GateRight(gate, u)
      BY <1>14, <2>2
    <3>2. u[new] = ~u[pi]
      BY <3>1, InverterGate DEF gate
    <3> QED
      BY <2>2, <3>2
  <2> DEFINE w == [x \in DOMAIN c.nets \cup Constants |-> IF x = pi THEN ~(pi \in vec) ELSE u[x]]
  <2>4. pi \notin Constants
    BY <1>1, <1>2 DEF HasParts, IsName, Constants
  <2>5. /\ w[pi] = ~(pi \in vec)
        /\ \A x \in DOMAIN c.nets \cup Constants : x # pi => w[x] = u[x]
    BY <1>2
  <2> HIDE DEF w
  <2>6. w[Constant0] = FALSE /\ w[Constant1] = TRUE
    BY <2>2, <2>4, <2>5 DEF Constants
  <2>7. ASSUME NEW x \in c.inputs
        PROVE  w[x] = (x \in Flip(vec, pi))
    <3>1. x \in DOMAIN c.nets
      BY InputNet
    <3>2. CASE x = pi
      BY <2>5, <3>2 DEF Flip
    <3>3. CASE x # pi
      <4>1. x \in Flip(vec, pi) <=> x \in vec
        BY <3>3 DEF Flip
      <4> QED
        BY <2>2, <2>5, <3>1, <3>3, <4>1
    <3> QED
      BY <3>2, <3>3
  <2>8. ASSUME NEW n \in Gates(c)
        PROVE  GateRight(c.node[n], w)
    <3>1. n \in DOMAIN c.node
      BY DEF Gates
    <3>2. c.node[n].outName \in DOMAIN c.nets /\ c.node[n].outName # pi
      BY <3>1, DrivenNet
    <3>3. \A j \in DOMAIN c.node[n].inNames : c.node[n].inNames[j] \in DOMAIN c.nets \cup Constants
      BY <3>1, ReadNet
    <3>4. GateRight(d.node[n], u) <=> GateRight(c.node[n], w)
      BY <1>13, <2>3, <2>5, <3>2, <3>3, RewiredGate DEF node
    <3> QED
      BY <1>13, <2>2, <3>4
  <2>9. NamesRight(c, Flip(vec, pi), w)
    BY <2>6, <2>7, <2>8, NamesByGate
  <2>10. Flip(vec, pi) \in SUBSET c.inputs
    BY DEF Flip
  <2>11. po \in DOMAIN c.nets /\ po # pi
    BY OutputNet
  <2>12. vec \in FunctionsOf(d).outs[po] <=> u[po]
    BY <1>6, <1>11, <2>1, FunctionsByNames
  <2>13. Flip(vec, pi) \in FunctionsOf(c).outs[po] <=> w[po]
    BY <2>9, <2>10, FunctionsByNames
  <2> QED
    BY <2>5, <2>11, <2>12, <2>13
<1> QED
  BY <1>11, <1>12, <1>15 DEF d

\* invertOutput: the new output has the other value, and the others theirs.
LEMMA InvertedOutputFunctions ==
    ASSUME NEW c, IsCircuit(c), LazyRight(c), NEW po \in c.outputs, NotName(po) \notin DOMAIN c.nets
    PROVE  LET d == InvertedOutput(c, po)
           IN  /\ d.inputs = c.inputs /\ d.outputs = (c.outputs \ {po}) \cup {NotName(po)}
               /\ LazyRight(d)
               /\ NotName(po) \notin c.outputs
               /\ \A vec \in SUBSET c.inputs :
                     /\ vec \in FunctionsOf(d).outs[NotName(po)] <=>
                           vec \notin FunctionsOf(c).outs[po]
                     /\ \A q \in c.outputs \ {po} :
                           vec \in FunctionsOf(d).outs[q] <=> vec \in FunctionsOf(c).outs[q]
<1> DEFINE inv == NextNode(c)
           source == c.nets[po].input
           new == NotName(po)
           bag == c.node[source].output (+) SetToBag({inv})
           nets == [c.nets EXCEPT ![po].type = "default"]
           node == [c.node EXCEPT ![source].output = bag]
           gate == GateNode("NOT", <<source>>, <<po>>, new)
           d == InvertedOutput(c, po)
<1>1. HasParts(c)
  BY DEF IsCircuit
<1>2. source \in DOMAIN c.node
  BY OutputNet DEF Gates
<1>3. inv \notin DOMAIN c.node
  BY NextIsNew
<1>4. d = [c EXCEPT !.outputs = (c.outputs \ {po}) \cup {new},
                    !.nets = WithNet(nets, new, "output", inv),
                    !.node = WithNode(node, inv, gate)]
  BY DEF InvertedOutput
<1>5. c = [node |-> c.node, nets |-> c.nets, inputs |-> c.inputs, outputs |-> c.outputs,
           lazy |-> c.lazy]
  BY <1>1 DEF HasParts
<1>6. IsCircuit(d)
  BY InvertedOutputIsCircuit
<1>7. node = [c.node EXCEPT ![source] = [c.node[source] EXCEPT !.output = bag]]
  OBVIOUS
<1>8. gate.type = "gate"
  BY DEF GateNode
<1>9. new \notin c.outputs
  BY <1>1 DEF HasParts
<1> HIDE DEF source, inv, new, bag, nets, node, gate, d
<1>10. /\ d.inputs = c.inputs /\ d.outputs = (c.outputs \ {po}) \cup {new} /\ d.lazy = c.lazy
       /\ d.node = WithNode(node, inv, gate)
  BY <1>4, <1>5
<1>11. LazyRight(d)
  BY <1>10 DEF LazyRight
<1>12. ASSUME NEW n \in Gates(c)
       PROVE  n \in Gates(d) /\ SameGate(d.node[n], c.node[n])
  <2>1. n \in DOMAIN c.node /\ n # inv /\ c.node[n].type = "gate"
    BY <1>3 DEF Gates
  <2>2. n \in DOMAIN d.node /\ d.node[n] = node[n]
    BY <1>7, <1>10, <2>1 DEF WithNode
  <2>3. IsNode(c.node[n])
    BY <1>1, <2>1 DEF HasParts
  <2>4. node[n] = c.node[n] \/ node[n] = [c.node[n] EXCEPT !.output = bag]
    BY <1>7, <2>1
  <2>5. node[n].type = "gate" /\ SameGate(node[n], c.node[n])
    BY <2>1, <2>3, <2>4 DEF IsNode, SameGate
  <2> QED
    BY <2>2, <2>5 DEF Gates
<1>13. inv \in Gates(d) /\ d.node[inv] = gate
  BY <1>8, <1>10 DEF WithNode, Gates
<1>14. ASSUME NEW vec \in SUBSET c.inputs
       PROVE  /\ vec \in FunctionsOf(d).outs[new] <=> vec \notin FunctionsOf(c).outs[po]
              /\ \A q \in c.outputs \ {po} :
                    vec \in FunctionsOf(d).outs[q] <=> vec \in FunctionsOf(c).outs[q]
  <2>1. PICK u : NamesRight(d, vec, u)
    BY <1>6, NamesExist
  <2>2. /\ u[Constant0] = FALSE /\ u[Constant1] = TRUE
        /\ \A x \in c.inputs : u[x] = (x \in vec)
        /\ \A n \in Gates(d) : GateRight(d.node[n], u)
    BY <1>10, <2>1, NamesByGate
  <2>3. u[new] = ~u[po]
    BY <1>13, <2>2, InverterGate DEF gate
  <2>4. \A n \in Gates(c) : GateRight(c.node[n], u)
    BY <1>12, <2>2, SameGateRight
  <2>5. NamesRight(c, vec, u)
    BY <2>2, <2>4, NamesByGate
  <2>6. \A q \in d.outputs : vec \in FunctionsOf(d).outs[q] <=> u[q]
    BY <1>6, <1>10, <2>1, FunctionsByNames
  <2>7. \A q \in c.outputs : vec \in FunctionsOf(c).outs[q] <=> u[q]
    BY <2>5, FunctionsByNames
  <2> QED
    BY <1>10, <2>3, <2>6, <2>7
<1> QED
  BY <1>9, <1>10, <1>11, <1>14 DEF d, new

\* Two values, joined by the gate on top of a miter.
LEMMA TwoValues ==
    ASSUME NEW values, DOMAIN values = {1, 2}
    PROVE  /\ Apply("AND", values) <=> (values[1] /\ values[2])
           /\ Apply("XOR", values) <=> ((values[1] /\ ~values[2]) \/ (~values[1] /\ values[2]))
<1> DEFINE ones == {j \in DOMAIN values : values[j]}
<1>1. Apply("AND", values) <=> (ones = DOMAIN values)
  BY DEF Apply
<1>2. Apply("XOR", values) <=> (Cardinality(ones) % 2 = 1)
  BY DEF Apply
<1>3. (ones = DOMAIN values) <=> (values[1] /\ values[2])
  OBVIOUS
<1>4. CASE values[1] /\ values[2]
  <2>1. ones = {1, 2}
    BY <1>4
  <2>2. Cardinality(ones) = 2
    <3> DEFINE one == {1}
    <3>1. IsFiniteSet(one) /\ Cardinality(one) = 1
      BY FS_Singleton
    <3>2. 2 \notin one /\ ones = one \cup {2}
      BY <2>1
    <3> HIDE DEF one, ones
    <3>3. Cardinality(ones) = Cardinality(one) + 1
      BY <3>1, <3>2, FS_AddElement
    <3> QED
      BY <3>1, <3>3
  <2> HIDE DEF ones
  <2> QED
    BY <1>1, <1>2, <1>3, <1>4, <2>2
<1>5. CASE ~values[1] /\ ~values[2]
  <2>1. ones = {}
    BY <1>5
  <2>2. Cardinality(ones) = 0
    BY <2>1, FS_EmptySet
  <2> HIDE DEF ones
  <2> QED
    BY <1>1, <1>2, <1>3, <1>5, <2>2
<1>6. CASE values[1] /\ ~values[2]
  <2>1. ones = {1}
    BY <1>6
  <2>2. Cardinality(ones) = 1
    BY <2>1, FS_Singleton
  <2> HIDE DEF ones
  <2> QED
    BY <1>1, <1>2, <1>3, <1>6, <2>2
<1>7. CASE ~values[1] /\ values[2]
  <2>1. ones = {2}
    BY <1>7
  <2>2. Cardinality(ones) = 1
    BY <2>1, FS_Singleton
  <2> HIDE DEF ones
  <2> QED
    BY <1>1, <1>2, <1>3, <1>7, <2>2
<1> QED
  BY <1>4, <1>5, <1>6, <1>7

\* The values of a miter's nets are, by their names in the circuits it was made
\* from, those of the circuits' nets.
LEMMA MiterPart ==
    ASSUME NEW c, IsCircuit(c), NEW prefix, NEW d, c.inputs \subseteq d.inputs,
           \A n \in Gates(c) : \E m \in Gates(d) : IsMiterGate(c, prefix, c.node[n], d.node[m]),
           NEW vec, NEW u, NamesRight(d, vec, u),
           NEW w, w = [x \in DOMAIN c.nets \cup Constants |-> u[MiterNetName(c, prefix, x)]]
    PROVE  /\ NamesRight(c, vec \cap c.inputs, w)
           /\ \A po \in c.outputs : w[po] = u[Prefixed(prefix, po)]
<1>1. /\ u[Constant0] = FALSE /\ u[Constant1] = TRUE
      /\ \A x \in d.inputs : u[x] = (x \in vec)
      /\ \A n \in Gates(d) : GateRight(d.node[n], u)
  BY NamesByGate
<1>2. \A x \in DOMAIN c.nets \cup Constants : w[x] = u[MiterNetName(c, prefix, x)]
  OBVIOUS
<1>3. w[Constant0] = FALSE /\ w[Constant1] = TRUE
  BY <1>1, <1>2, MiterNet DEF Constants
<1>4. ASSUME NEW x \in c.inputs
      PROVE  w[x] = (x \in vec \cap c.inputs)
  <2>1. x \in DOMAIN c.nets /\ MiterNetName(c, prefix, x) = x
    BY InputNet, MiterNet
  <2> QED
    BY <1>1, <1>2, <2>1
<1>5. ASSUME NEW n \in Gates(c)
      PROVE  GateRight(c.node[n], w)
  <2>1. PICK m \in Gates(d) : IsMiterGate(c, prefix, c.node[n], d.node[m])
    OBVIOUS
  <2> DEFINE g == c.node[n]
             h == d.node[m]
  <2>2. n \in DOMAIN c.node
    BY DEF Gates
  <2>3. g.outName \in DOMAIN c.nets /\ g.outName \notin c.inputs
    BY <2>2, DrivenNet
  <2>4. w[g.outName] = u[h.outName]
    BY <1>2, <2>1, <2>3, MiterNet DEF IsMiterGate
  <2>5. \A j \in DOMAIN g.inNames : g.inNames[j] \in DOMAIN c.nets \cup Constants
    BY <2>2, ReadNet
  <2> HIDE DEF g, h
  <2>6. h.inNames = [j \in DOMAIN g.inNames |-> MiterNetName(c, prefix, g.inNames[j])]
        /\ h.function = g.function
    BY <2>1 DEF IsMiterGate, g, h
  <2>7. [j \in DOMAIN g.inNames |-> w[g.inNames[j]]] = [j \in DOMAIN h.inNames |-> u[h.inNames[j]]]
    BY <1>2, <2>5, <2>6
  <2>8. GateRight(h, u)
    BY <1>1 DEF h
  <2>9. GateRight(g, w)
    BY <2>4, <2>6, <2>7, <2>8 DEF GateRight
  <2> QED
    BY <2>9 DEF g
<1>6. ASSUME NEW po \in c.outputs
      PROVE  w[po] = u[Prefixed(prefix, po)]
  <2>1. po \in DOMAIN c.nets /\ po \notin c.inputs
    BY OutputNet
  <2> QED
    BY <1>2, <2>1, MiterNet
<1> QED
  BY <1>3, <1>4, <1>5, <1>6, NamesByGate

\* getMiter joins the functions of two outputs, over the inputs of both.
LEMMA MiterFunctions ==
    ASSUME NEW c1, IsCircuit(c1), NEW po1, c1.outputs = {po1},
           NEW c2, IsCircuit(c2), NEW po2, c2.outputs = {po2},
           NEW function \in {"AND", "XOR"}
    PROVE  LET d == MiterOf(c1, c2, function)
               f == [ins |-> c1.inputs, on |-> FunctionsOf(c1).outs[po1]]
               g == [ins |-> c2.inputs, on |-> FunctionsOf(c2).outs[po2]]
               made == IF function = "AND" THEN MiterAnd(f, g) ELSE MiterXor(f, g)
           IN  /\ FunctionsOf(d) = [ins  |-> made.ins,
                                    outs |-> [r \in {MiterName(po1, po2)} |-> made.on]]
               /\ LazyRight(d)
<1> DEFINE e == MiterOf(c1, c2, function)
           F1 == FunctionsOf(c1).outs[po1]
           F2 == FunctionsOf(c2).outs[po2]
           f == [ins |-> c1.inputs, on |-> F1]
           g == [ins |-> c2.inputs, on |-> F2]
           made == IF function = "AND" THEN MiterAnd(f, g) ELSE MiterXor(f, g)
           out == MiterName(po1, po2)
           inputs == c1.inputs \cup c2.inputs
<1>1. c1.outputs # {} /\ c2.outputs # {} /\ po1 \in c1.outputs /\ po2 \in c2.outputs
  OBVIOUS
<1>2. po1 = TheOutput(c1) /\ po2 = TheOutput(c2)
  BY DEF TheOutput
<1>3. \E d : IsMiterDesign(c1, c2, function, po1, po2, d)
  BY <1>1, <1>2, MiterDesign
<1>4. PICK d :
         /\ IsDesign(d) /\ e = Construct(d)
         /\ NetsOf(d.types, "input") = inputs /\ NetsOf(d.types, "output") = {out}
         /\ \A n \in Gates(c1) : \E k \in DOMAIN d.gates :
               IsMiterGate(c1, "cir1_", c1.node[n], d.gates[k])
         /\ \A n \in Gates(c2) : \E k \in DOMAIN d.gates :
               IsMiterGate(c2, "cir2_", c2.node[n], d.gates[k])
         /\ \E k \in DOMAIN d.gates :
               /\ d.gates[k].function = function /\ d.gates[k].outName = out
               /\ d.gates[k].inNames = <<Prefixed("cir1_", po1), Prefixed("cir2_", po2)>>
  BY <1>3 DEF IsMiterDesign
<1> HIDE DEF e, out
<1>5. /\ IsCircuit(e) /\ e.inputs = inputs /\ e.outputs = {out} /\ e.lazy = <<>>
      /\ \A k \in DOMAIN d.gates : \E n \in Gates(e) : SameGate(e.node[n], d.gates[k])
  BY <1>4, ConstructRight, ConstructParts
<1>6. \A n \in Gates(c1) : \E m \in Gates(e) : IsMiterGate(c1, "cir1_", c1.node[n], e.node[m])
  BY <1>4, <1>5 DEF SameGate, IsMiterGate
<1>7. \A n \in Gates(c2) : \E m \in Gates(e) : IsMiterGate(c2, "cir2_", c2.node[n], e.node[m])
  BY <1>4, <1>5 DEF SameGate, IsMiterGate
<1>8. \E m \in Gates(e) :
         /\ e.node[m].function = function /\ e.node[m].outName = out
         /\ e.node[m].inNames = <<Prefixed("cir1_", po1), Prefixed("cir2_", po2)>>
  BY <1>4, <1>5 DEF SameGate
<1>9. /\ made.ins = inputs
      /\ made.on = {vec \in SUBSET inputs :
                       IF function = "AND"
                       THEN vec \cap c1.inputs \in F1 /\ vec \cap c2.inputs \in F2
                       ELSE (vec \cap c1.inputs \in F1) # (vec \cap c2.inputs \in F2)}
  <2> HIDE DEF F1, F2
  <2>1. CASE function = "AND"
    BY <2>1 DEF MiterAnd, MiterInputs, EvalOutput
  <2>2. CASE function = "XOR"
    BY <2>2 DEF MiterXor, MiterInputs, EvalOutput
  <2> QED
    BY <2>1, <2>2
<1> HIDE DEF made
<1>10. ASSUME NEW vec \in SUBSET inputs
      PROVE  vec \in FunctionsOf(e).outs[out] <=> vec \in made.on
  <2>1. PICK u : NamesRight(e, vec, u)
    BY <1>5, NamesExist
  <2> DEFINE w1 == [x \in DOMAIN c1.nets \cup Constants |-> u[MiterNetName(c1, "cir1_", x)]]
             w2 == [x \in DOMAIN c2.nets \cup Constants |-> u[MiterNetName(c2, "cir2_", x)]]
             pins == <<Prefixed("cir1_", po1), Prefixed("cir2_", po2)>>
             values == [j \in DOMAIN pins |-> u[pins[j]]]
  <2>2. /\ NamesRight(c1, vec \cap c1.inputs, w1) /\ w1[po1] = u[Prefixed("cir1_", po1)]
    <3>1. c1.inputs \subseteq e.inputs
      BY <1>5
    <3> HIDE DEF w1
    <3> QED
      BY <1>1, <1>6, <2>1, <3>1, MiterPart DEF w1
  <2>3. /\ NamesRight(c2, vec \cap c2.inputs, w2) /\ w2[po2] = u[Prefixed("cir2_", po2)]
    <3>1. c2.inputs \subseteq e.inputs
      BY <1>5
    <3> HIDE DEF w2
    <3> QED
      BY <1>1, <1>7, <2>1, <3>1, MiterPart, SMTT(60) DEF w2
  <2>4. DOMAIN values = {1, 2} /\ values[1] = u[Prefixed("cir1_", po1)]
        /\ values[2] = u[Prefixed("cir2_", po2)]
    OBVIOUS
  <2> HIDE DEF w1, w2
  <2>5. vec \cap c1.inputs \in F1 <=> values[1]
    BY <1>1, <2>2, <2>4, FunctionsByNames
  <2>6. vec \cap c2.inputs \in F2 <=> values[2]
    BY <1>1, <2>3, <2>4, FunctionsByNames
  <2>7. u[out] = Apply(function, values)
    <3>1. PICK m \in Gates(e) :
             e.node[m].function = function /\ e.node[m].outName = out /\ e.node[m].inNames = pins
      BY <1>8
    <3>2. GateRight(e.node[m], u)
      BY <2>1, NamesByGate
    <3> QED
      BY <3>1, <3>2 DEF GateRight
  <2>8. vec \in FunctionsOf(e).outs[out] <=> u[out]
    BY <1>5, <2>1, FunctionsByNames
  <2> HIDE DEF values, F1, F2
  <2>9. vec \in FunctionsOf(e).outs[out] <=>
            IF function = "AND" THEN values[1] /\ values[2]
            ELSE (values[1] /\ ~values[2]) \/ (~values[1] /\ values[2])
    BY <2>4, <2>7, <2>8, TwoValues
  <2> QED
    BY <1>9, <2>5, <2>6, <2>9
<1>11. FunctionsOf(e) = [ins |-> e.inputs, outs |-> [r \in {out} |-> made.on]]
  <2> DEFINE outs == [r \in {out} |-> made.on]
  <2>1. outs = [r \in e.outputs |-> outs[r]] /\ \A r \in e.outputs : outs[r] = made.on
    BY <1>5
  <2>2. made.on \in SUBSET (SUBSET e.inputs)
    BY <1>5, <1>9
  <2> HIDE DEF outs, inputs
  <2>3. FunctionsOf(e) = [ins |-> e.inputs, outs |-> outs]
    BY <1>5, <1>10, <2>1, <2>2, FunctionsAre
  <2> QED
    BY <2>3 DEF outs
<1>12. LazyRight(e)
  BY <1>5 DEF LazyRight
<1> QED
  BY <1>5, <1>9, <1>11, <1>12 DEF e, made, out

-------------------------------------------------------------------------------
(***************************************************************************)
(* The circuits implement CircuitFunctions.                                *)
(***************************************************************************)
\* fun has the functions of the circuits that slots hold, and what is known of
\* the constants is right.
FunctionsHeld ==
    /\ fun = [s \in Slots |-> IF circuit[s] = NoCircuit THEN NoCircuit
                              ELSE FunctionsOf(circuit[s])]
    /\ \A s \in Held : LazyRight(circuit[s])

\* A circuit is told from an empty slot.
LEMMA CircuitsExist ==
    ASSUME NEW c, IsCircuit(c)
    PROVE  c # NoCircuit
<1>1. c = [node |-> c.node, nets |-> c.nets, inputs |-> c.inputs, outputs |-> c.outputs,
           lazy |-> c.lazy]
  BY DEF IsCircuit, HasParts
<1> QED
  BY <1>1 DEF NoCircuit

\* construct leaves no value of an earlier evaluation.
LEMMA ConstructedLazy ==
    ASSUME NEW d, IsDesign(d)
    PROVE  IsCircuit(Construct(d)) /\ LazyRight(Construct(d))
<1>1. Construct(d).lazy = <<>>
  BY ConstructParts
<1> QED
  BY <1>1, ConstructRight DEF LazyRight

\* A slot that gets a circuit gets its functions.
LEMMA PutFunctions ==
    ASSUME CircuitsHeld, FunctionsHeld, NEW s \in Slots, NEW c, IsCircuit(c), LazyRight(c),
           circuit' = [circuit EXCEPT ![s] = c], fun' = [fun EXCEPT ![s] = FunctionsOf(c)]
    PROVE  FunctionsHeld'
<1>1. DOMAIN circuit = Slots /\ DOMAIN fun = Slots
  BY DEF CircuitsHeld, FunctionsHeld
<1>2. \A t \in Slots : /\ circuit'[t] = IF t = s THEN c ELSE circuit[t]
                       /\ fun'[t] = IF t = s THEN FunctionsOf(c) ELSE fun[t]
  BY <1>1
<1>3. c # NoCircuit
  BY CircuitsExist
<1>4. \A t \in Slots : fun[t] = IF circuit[t] = NoCircuit THEN NoCircuit ELSE FunctionsOf(circuit[t])
  BY DEF FunctionsHeld
<1>5. \A t \in Slots :
         fun'[t] = IF circuit'[t] = NoCircuit THEN NoCircuit ELSE FunctionsOf(circuit'[t])
  BY <1>2, <1>3, <1>4
<1>6. fun' = [t \in Slots |-> fun'[t]]
  BY <1>1
<1>7. fun' = [t \in Slots |-> IF circuit'[t] = NoCircuit THEN NoCircuit
                              ELSE FunctionsOf(circuit'[t])]
  BY <1>5, <1>6
<1>8. \A t \in Held' : LazyRight(circuit'[t])
  BY <1>2 DEF Held, FunctionsHeld
<1> QED
  BY <1>7, <1>8 DEF FunctionsHeld

\* The functions of the circuit in a slot.
LEMMA FunctionIn ==
    ASSUME CircuitsHeld, FunctionsHeld, NEW s \in Held
    PROVE  /\ s \in Slots /\ IsCircuit(circuit[s]) /\ LazyRight(circuit[s])
           /\ fun[s] = FunctionsOf(circuit[s]) /\ s \in Abstract!Held
           /\ fun[s].ins = circuit[s].inputs /\ DOMAIN fun[s].outs = circuit[s].outputs
           /\ fun[s] = [ins |-> circuit[s].inputs, outs |-> fun[s].outs]
           /\ fun[s].outs = [po \in circuit[s].outputs |-> fun[s].outs[po]]
           /\ \A po \in circuit[s].outputs : fun[s].outs[po] \in SUBSET (SUBSET circuit[s].inputs)
           /\ \A po : Abstract!ConeAt(s, po) = [ins |-> circuit[s].inputs, on |-> fun[s].outs[po]]
<1>1. s \in Slots /\ circuit[s] # NoCircuit
  BY DEF Held
<1>2. fun[s] = FunctionsOf(circuit[s])
  BY <1>1 DEF FunctionsHeld
<1>3. IsCircuit(circuit[s]) /\ LazyRight(circuit[s])
  BY DEF CircuitsHeld, FunctionsHeld
<1>4. /\ fun[s] = [ins |-> circuit[s].inputs, outs |-> fun[s].outs]
      /\ fun[s].ins = circuit[s].inputs /\ DOMAIN fun[s].outs = circuit[s].outputs
      /\ \A po \in circuit[s].outputs : fun[s].outs[po] \in SUBSET (SUBSET circuit[s].inputs)
      /\ fun[s] # NoCircuit
  BY <1>2, FunctionsShape
<1>5. fun[s].outs = [po \in circuit[s].outputs |-> fun[s].outs[po]]
  BY <1>2 DEF FunctionsOf
<1>6. s \in Abstract!Held
  BY <1>1, <1>4 DEF Abstract!Held
<1>7. \A po : Abstract!ConeAt(s, po) = [ins |-> circuit[s].inputs, on |-> fun[s].outs[po]]
  BY <1>4 DEF Abstract!ConeAt
<1> QED
  BY <1>1, <1>2, <1>3, <1>4, <1>5, <1>6, <1>7

\* evalOutput answers by the function and keeps it.
LEMMA EvalImplements ==
    ASSUME CircuitsHeld, FunctionsHeld, NEW s \in Held, NEW po \in circuit[s].outputs,
           NEW vec \in SUBSET circuit[s].inputs, EvalOutputOf(s, po, vec)
    PROVE  Abstract!Eval(s, po, vec) /\ FunctionsHeld'
<1> DEFINE c == circuit[s]
           d == ClearLazy(SetInputVector(c, vec))
           e == AfterEval(d, po)
<1>1. /\ s \in Slots /\ IsCircuit(c) /\ LazyRight(c) /\ fun[s] = FunctionsOf(c)
      /\ Abstract!ConeAt(s, po) = [ins |-> c.inputs, on |-> fun[s].outs[po]]
  BY FunctionIn
<1>2. /\ OutputValue(d, po) <=> vec \in FunctionsOf(c).outs[po]
      /\ FunctionsOf(e) = FunctionsOf(c) /\ LazyRight(e)
  BY <1>1, EvalFunctions
<1>3. IsCircuit(e)
  BY <1>1, EvaluatedIsCircuit
<1>4. /\ call' = <<"evalOutput", s, po, vec, OutputValue(d, po)>>
      /\ circuit' = [circuit EXCEPT ![s] = e] /\ fun' = fun
  BY DEF EvalOutputOf
<1> HIDE DEF c, d, e
<1>5. fun' = [fun EXCEPT ![s] = FunctionsOf(e)]
  <2>1. fun = [t \in Slots |-> fun[t]]
    BY DEF FunctionsHeld
  <2> QED
    BY <1>1, <1>2, <1>4, <2>1
<1>6. FunctionsHeld'
  BY <1>1, <1>2, <1>3, <1>4, <1>5, PutFunctions
<1>7. Abstract!EvalOutput(Abstract!ConeAt(s, po), vec) <=> vec \in FunctionsOf(c).outs[po]
  BY <1>1 DEF Abstract!EvalOutput
<1>8. OutputValue(d, po) = Abstract!EvalOutput(Abstract!ConeAt(s, po), vec)
  <2>1. OutputValue(d, po) \in BOOLEAN
    BY DEF OutputValue
  <2>2. Abstract!EvalOutput(Abstract!ConeAt(s, po), vec) \in BOOLEAN
    BY DEF Abstract!EvalOutput
  <2> QED
    BY <1>2, <1>7, <2>1, <2>2
<1> QED
  BY <1>4, <1>6, <1>8 DEF Abstract!Eval

\* stuckInput makes every output its cofactor.
LEMMA StuckImplements ==
    ASSUME CircuitsHeld, FunctionsHeld, NEW s \in Held, NEW pi \in circuit[s].inputs,
           NEW value \in BOOLEAN, StuckInputOf(s, pi, value)
    PROVE  Abstract!Stuck(s, pi, value) /\ FunctionsHeld'
<1> DEFINE c == circuit[s]
           d == StuckNetlist(c, pi, value)
           outs == [po \in c.outputs |-> Abstract!StuckInput(Abstract!ConeAt(s, po), pi, value).on]
<1>1. /\ s \in Slots /\ IsCircuit(c) /\ LazyRight(c) /\ fun[s] = FunctionsOf(c)
      /\ fun[s].ins = c.inputs /\ DOMAIN fun[s].outs = c.outputs
      /\ \A po : Abstract!ConeAt(s, po) = [ins |-> c.inputs, on |-> fun[s].outs[po]]
  BY FunctionIn
<1>2. /\ d.inputs = c.inputs \ {pi} /\ d.outputs = c.outputs /\ LazyRight(d)
      /\ \A po \in c.outputs : \A vec \in SUBSET (c.inputs \ {pi}) :
            vec \in FunctionsOf(d).outs[po] <=>
                (IF value THEN vec \cup {pi} ELSE vec) \in FunctionsOf(c).outs[po]
  <2>1. pi \in c.inputs /\ IsCircuit(c) /\ LazyRight(c)
    BY <1>1
  <2> HIDE DEF c
  <2> QED
    BY <2>1, StuckFunctions
<1>3. IsCircuit(d)
  BY <1>1, StuckIsCircuit
<1>4. /\ call' = <<"stuckInput", s, pi, value>>
      /\ circuit' = [circuit EXCEPT ![s] = d] /\ fun' = [fun EXCEPT ![s] = FunctionsOf(d)]
  BY DEF StuckInputOf, Put
<1>5. pi \in c.inputs
  OBVIOUS
<1> HIDE DEF c, d
<1>6. \A po \in c.outputs :
         outs[po] = {vec \in SUBSET (c.inputs \ {pi}) :
                        (IF value THEN vec \cup {pi} ELSE vec) \in FunctionsOf(c).outs[po]}
  BY <1>1, <1>5 DEF Abstract!StuckInput, Abstract!EvalOutput
<1>7. outs = [po \in d.outputs |-> outs[po]]
  BY <1>2
<1> HIDE DEF outs
<1>8. FunctionsOf(d) = [ins |-> d.inputs, outs |-> outs]
  <2>1. \A po \in d.outputs : outs[po] \in SUBSET (SUBSET d.inputs)
    <3>1. \A po \in c.outputs : outs[po] \in SUBSET (SUBSET (c.inputs \ {pi}))
      BY <1>6
    <3> QED
      BY <1>2, <3>1
  <2>2. \A po \in d.outputs : \A vec \in SUBSET d.inputs :
           vec \in FunctionsOf(d).outs[po] <=> vec \in outs[po]
    BY <1>2, <1>6
  <2> QED
    BY <1>7, <2>1, <2>2, FunctionsAre
<1>9. FunctionsHeld'
  BY <1>1, <1>2, <1>4, <1>3, PutFunctions
<1>10. Abstract!Put(s, [ins |-> c.inputs \ {pi}, outs |-> outs])
  BY <1>2, <1>4, <1>8 DEF Abstract!Put
<1> QED
  BY <1>1, <1>4, <1>9, <1>10 DEF Abstract!Stuck, outs

\* invertInput shows every output the other value of the input.
LEMMA InvertInputImplements ==
    ASSUME ~ReuseNames, CircuitsHeld, FunctionsHeld, NEW s \in Held,
           NEW pi \in circuit[s].inputs, InvertInputOf(s, pi)
    PROVE  Abstract!InvertIn(s, pi) /\ FunctionsHeld'
<1> DEFINE c == circuit[s]
           d == InvertedInput(c, pi)
           outs == [po \in c.outputs |-> {Abstract!Flip(vec, pi) : vec \in fun[s].outs[po]}]
<1>1. /\ s \in Slots /\ IsCircuit(c) /\ LazyRight(c) /\ fun[s] = FunctionsOf(c)
      /\ DOMAIN fun[s].outs = c.outputs
      /\ fun[s] = [ins |-> c.inputs, outs |-> fun[s].outs]
      /\ \A po \in c.outputs : fun[s].outs[po] \in SUBSET (SUBSET c.inputs)
  BY FunctionIn
<1>2. NotName(pi) \notin DOMAIN c.nets
  BY DEF InvertInputOf, NameIsFree
<1>3. /\ IsCircuit(d) /\ d.inputs = c.inputs /\ d.outputs = c.outputs /\ LazyRight(d)
      /\ \A po \in c.outputs : \A vec \in SUBSET c.inputs :
            vec \in FunctionsOf(d).outs[po] <=> Abstract!Flip(vec, pi) \in fun[s].outs[po]
  BY <1>1, <1>2, InvertedInputFunctions, InvertedInputIsCircuit DEF Flip, Abstract!Flip
<1>4. /\ call' = <<"invertInput", s, pi>>
      /\ circuit' = [circuit EXCEPT ![s] = d] /\ fun' = [fun EXCEPT ![s] = FunctionsOf(d)]
  BY DEF InvertInputOf, Put
<1>5. pi \in c.inputs
  OBVIOUS
<1> HIDE DEF c, d
<1>6. \A vec \in SUBSET c.inputs : Abstract!Flip(vec, pi) \in SUBSET c.inputs /\ Abstract!Flip(Abstract!Flip(vec, pi), pi) = vec
  BY <1>5 DEF Abstract!Flip
<1>7. \A po \in c.outputs : \A vec \in SUBSET c.inputs :
         vec \in outs[po] <=> Abstract!Flip(vec, pi) \in fun[s].outs[po]
  <2> SUFFICES ASSUME NEW po \in c.outputs, NEW vec \in SUBSET c.inputs
               PROVE  vec \in outs[po] <=> Abstract!Flip(vec, pi) \in fun[s].outs[po]
    OBVIOUS
  <2>1. outs[po] = {Abstract!Flip(v, pi) : v \in fun[s].outs[po]}
    OBVIOUS
  <2>2. ASSUME vec \in outs[po]
        PROVE  Abstract!Flip(vec, pi) \in fun[s].outs[po]
    <3>1. PICK v \in fun[s].outs[po] : vec = Abstract!Flip(v, pi)
      BY <2>1, <2>2
    <3> QED
      BY <1>1, <1>6, <3>1
  <2>3. ASSUME Abstract!Flip(vec, pi) \in fun[s].outs[po]
        PROVE  vec \in outs[po]
    BY <1>6, <2>1, <2>3
  <2> QED
    BY <2>2, <2>3
<1>8. \A po \in c.outputs : outs[po] \in SUBSET (SUBSET c.inputs)
  BY <1>1, <1>6
<1>9. outs = [po \in d.outputs |-> outs[po]]
  BY <1>3
<1> HIDE DEF outs
<1>10. FunctionsOf(d) = [ins |-> d.inputs, outs |-> outs]
  <2>1. \A po \in d.outputs : outs[po] \in SUBSET (SUBSET d.inputs)
    BY <1>3, <1>8
  <2>2. \A po \in d.outputs : \A vec \in SUBSET d.inputs :
           vec \in FunctionsOf(d).outs[po] <=> vec \in outs[po]
    BY <1>3, <1>7
  <2> QED
    BY <1>9, <2>1, <2>2, FunctionsAre
<1>11. FunctionsHeld'
  BY <1>1, <1>3, <1>4, PutFunctions
<1>12. [fun[s] EXCEPT !.outs = outs] = [ins |-> d.inputs, outs |-> outs]
  BY <1>1, <1>3
<1>13. Abstract!Put(s, [fun[s] EXCEPT !.outs = outs])
  BY <1>4, <1>10, <1>12 DEF Abstract!Put
<1> QED
  BY <1>1, <1>4, <1>11, <1>13 DEF Abstract!InvertIn, outs

\* invertOutput inverts and renames one output, and leaves the others.
LEMMA InvertOutputImplements ==
    ASSUME ~ReuseNames, CircuitsHeld, FunctionsHeld, NEW s \in Held,
           NEW po \in circuit[s].outputs, InvertOutputOf(s, po)
    PROVE  Abstract!InvertOut(s, po) /\ FunctionsHeld'
<1> DEFINE c == circuit[s]
           d == InvertedOutput(c, po)
           new == NotName(po)
           others == c.outputs \ {po}
           outs == [q \in others \cup {new} |->
                       IF q \in others THEN fun[s].outs[q]
                       ELSE Abstract!InvertOutput(Abstract!ConeAt(s, po)).on]
<1>1. /\ s \in Slots /\ IsCircuit(c) /\ LazyRight(c) /\ fun[s] = FunctionsOf(c)
      /\ fun[s].ins = c.inputs /\ DOMAIN fun[s].outs = c.outputs
      /\ Abstract!ConeAt(s, po) = [ins |-> c.inputs, on |-> fun[s].outs[po]]
      /\ \A q \in c.outputs : fun[s].outs[q] \in SUBSET (SUBSET c.inputs)
  BY FunctionIn
<1>2. NotName(po) \notin DOMAIN c.nets
  BY DEF InvertOutputOf, NameIsFree
<1>3. /\ IsCircuit(d) /\ d.inputs = c.inputs /\ d.outputs = others \cup {new} /\ LazyRight(d)
      /\ new \notin c.outputs
      /\ \A vec \in SUBSET c.inputs :
            /\ vec \in FunctionsOf(d).outs[new] <=> vec \notin fun[s].outs[po]
            /\ \A q \in others : vec \in FunctionsOf(d).outs[q] <=> vec \in fun[s].outs[q]
  BY <1>1, <1>2, InvertedOutputFunctions, InvertedOutputIsCircuit
<1>4. /\ call' = <<"invertOutput", s, po>>
      /\ circuit' = [circuit EXCEPT ![s] = d] /\ fun' = [fun EXCEPT ![s] = FunctionsOf(d)]
  BY DEF InvertOutputOf, Put
<1> HIDE DEF c, d, new
<1>5. /\ \A q \in others : outs[q] = fun[s].outs[q]
      /\ outs[new] = (SUBSET c.inputs) \ fun[s].outs[po]
  BY <1>1, <1>3 DEF Abstract!InvertOutput
<1>6. outs = [q \in d.outputs |-> outs[q]]
  BY <1>3
<1> HIDE DEF outs
<1>7. FunctionsOf(d) = [ins |-> d.inputs, outs |-> outs]
  <2>1. \A q \in d.outputs : outs[q] \in SUBSET (SUBSET d.inputs)
    BY <1>1, <1>3, <1>5
  <2>2. \A q \in d.outputs : \A vec \in SUBSET d.inputs :
           vec \in FunctionsOf(d).outs[q] <=> vec \in outs[q]
    BY <1>3, <1>5
  <2> QED
    BY <1>6, <2>1, <2>2, FunctionsAre
<1>8. FunctionsHeld'
  BY <1>1, <1>3, <1>4, PutFunctions
<1>9. Abstract!Put(s, [ins |-> fun[s].ins, outs |-> outs])
  BY <1>1, <1>3, <1>4, <1>7 DEF Abstract!Put
<1> QED
  BY <1>1, <1>4, <1>8, <1>9 DEF Abstract!InvertOut, outs, new

\* A copy has the functions of what it is a copy of.
LEMMA CopyImplements ==
    ASSUME CircuitsHeld, FunctionsHeld, NEW s \in Held, NEW t \in Slots, Copy(s, t)
    PROVE  Abstract!Copied(s, t) /\ FunctionsHeld'
<1> DEFINE c == circuit[s]
           d == CopyOf(c)
<1>1. IsCircuit(c) /\ fun[s] = FunctionsOf(c)
  BY FunctionIn
<1>2. FunctionsOf(d) = FunctionsOf(c) /\ d.lazy = <<>>
  BY <1>1, CopyFunctions
<1>3. IsCircuit(d)
  BY <1>1, CopyDesign, ConstructRight DEF CopyOf
<1>4. LazyRight(d)
  BY <1>2 DEF LazyRight
<1>5. /\ call' = <<"Circuit", s, t>>
      /\ circuit' = [circuit EXCEPT ![t] = d] /\ fun' = [fun EXCEPT ![t] = FunctionsOf(d)]
  BY DEF Copy, Put
<1> HIDE DEF c, d
<1>6. FunctionsHeld'
  BY <1>3, <1>4, <1>5, PutFunctions
<1>7. Abstract!Put(t, fun[s])
  BY <1>1, <1>2, <1>5 DEF Abstract!Put
<1> QED
  BY <1>5, <1>6, <1>7 DEF Abstract!Copied

\* A cone has inputs enough to decide its output, and the function of it.
LEMMA ConeImplements ==
    ASSUME CircuitsHeld, FunctionsHeld, NEW s \in Held, NEW po \in circuit[s].outputs,
           NEW t \in Slots, GetCone(s, po, t)
    PROVE  Abstract!ConeTaken(s, po, t) /\ FunctionsHeld'
<1> DEFINE c == circuit[s]
           d == ConeOf(c, po)
           kept == d.inputs
           on == {vec \in SUBSET kept : vec \in FunctionsOf(c).outs[po]}
           decided == {vec \in SUBSET kept : Abstract!EvalOutput(Abstract!ConeAt(s, po), vec)}
<1>1. /\ IsCircuit(c) /\ fun[s] = FunctionsOf(c) /\ fun[s].ins = c.inputs
      /\ Abstract!ConeAt(s, po) = [ins |-> c.inputs, on |-> fun[s].outs[po]]
  BY FunctionIn
<1>2. /\ kept \in SUBSET c.inputs /\ d.lazy = <<>>
      /\ FunctionsOf(d) = [ins |-> kept, outs |-> [q \in {po} |-> on]]
      /\ \A vec \in SUBSET c.inputs : vec \in FunctionsOf(c).outs[po] <=> vec \cap kept \in on
  BY <1>1, ConeFunctions
<1>3. IsCircuit(d)
  BY <1>1, ConeIsCircuit
<1>4. LazyRight(d)
  BY <1>2 DEF LazyRight
<1>5. /\ call' = <<"getCone", s, po, t>>
      /\ circuit' = [circuit EXCEPT ![t] = d] /\ fun' = [fun EXCEPT ![t] = FunctionsOf(d)]
  BY DEF GetCone, Put
<1> HIDE DEF c, d, kept
<1>6. FunctionsHeld'
  BY <1>3, <1>4, <1>5, PutFunctions
<1>7. \A vec : Abstract!EvalOutput(Abstract!ConeAt(s, po), vec) <=> vec \in FunctionsOf(c).outs[po]
  BY <1>1 DEF Abstract!EvalOutput
<1>8. on = decided
  BY <1>7
<1> HIDE DEF on, decided
<1>9. \A vec \in SUBSET fun[s].ins :
         Abstract!EvalOutput(Abstract!ConeAt(s, po), vec) <=> (vec \cap kept) \in decided
  BY <1>1, <1>2, <1>7, <1>8
<1>10. Abstract!Put(t, [ins |-> kept, outs |-> [q \in {po} |-> decided]])
  BY <1>2, <1>5, <1>8 DEF Abstract!Put
<1>11. kept \in SUBSET fun[s].ins
  BY <1>1, <1>2
<1> QED
  BY <1>5, <1>6, <1>9, <1>10, <1>11 DEF Abstract!ConeTaken, decided

\* A miter compares, or joins, the functions of its two circuits.
LEMMA MiterImplements ==
    ASSUME CircuitsHeld, FunctionsHeld, NEW s \in Held, NEW t \in Held,
           NEW function \in {"AND", "XOR"}, NEW u \in Slots, GetMiter(s, t, function, u)
    PROVE  Abstract!MiterMade(s, t, function, u) /\ FunctionsHeld'
<1> DEFINE c1 == circuit[s]
           c2 == circuit[t]
           d == MiterOf(c1, c2, function)
<1>1. /\ IsCircuit(c1) /\ fun[s] = FunctionsOf(c1) /\ DOMAIN fun[s].outs = c1.outputs
      /\ \A po : Abstract!ConeAt(s, po) = [ins |-> c1.inputs, on |-> fun[s].outs[po]]
  BY FunctionIn
<1>2. /\ IsCircuit(c2) /\ fun[t] = FunctionsOf(c2) /\ DOMAIN fun[t].outs = c2.outputs
      /\ \A po : Abstract!ConeAt(t, po) = [ins |-> c2.inputs, on |-> fun[t].outs[po]]
  BY FunctionIn
<1>3. \A c : IsCircuit(c) => IsFiniteSet(c.outputs)
  <2> SUFFICES ASSUME NEW c, IsCircuit(c)
               PROVE  IsFiniteSet(c.outputs)
    OBVIOUS
  <2>1. IsFiniteSet(DOMAIN c.nets) /\ c.outputs \in SUBSET (DOMAIN c.nets)
    BY DEF IsCircuit, HasParts
  <2> QED
    BY <2>1, FS_Subset
<1>4. Cardinality(c1.outputs) = 1 /\ Cardinality(c2.outputs) = 1
  BY DEF GetMiter
<1>5. /\ call' = <<"getMiter", s, t, function, u>>
      /\ circuit' = [circuit EXCEPT ![u] = d] /\ fun' = [fun EXCEPT ![u] = FunctionsOf(d)]
  BY DEF GetMiter, Put
<1> HIDE DEF c1, c2
<1>6. PICK p : c1.outputs = {p}
  BY <1>1, <1>3, <1>4, FS_Singleton
<1>7. PICK q : c2.outputs = {q}
  BY <1>2, <1>3, <1>4, FS_Singleton
<1> DEFINE f == Abstract!ConeAt(s, p)
           g == Abstract!ConeAt(t, q)
           m == IF function = "AND" THEN Abstract!MiterAnd(f, g) ELSE Abstract!MiterXor(f, g)
<1>8. /\ f = [ins |-> c1.inputs, on |-> FunctionsOf(c1).outs[p]]
      /\ g = [ins |-> c2.inputs, on |-> FunctionsOf(c2).outs[q]]
  BY <1>1, <1>2
<1>9. m = IF function = "AND" THEN MiterAnd(f, g) ELSE MiterXor(f, g)
  BY DEF MiterAnd, MiterXor, MiterInputs, EvalOutput,
         Abstract!MiterAnd, Abstract!MiterXor, Abstract!MiterInputs, Abstract!EvalOutput
<1> HIDE DEF f, g, m
<1>10. /\ FunctionsOf(d) = [ins |-> m.ins, outs |-> [r \in {MiterName(p, q)} |-> m.on]]
       /\ LazyRight(d)
  <2> DEFINE f1 == [ins |-> c1.inputs, on |-> FunctionsOf(c1).outs[p]]
             g1 == [ins |-> c2.inputs, on |-> FunctionsOf(c2).outs[q]]
             m1 == IF function = "AND" THEN MiterAnd(f1, g1) ELSE MiterXor(f1, g1)
  <2>1. /\ FunctionsOf(d) = [ins |-> m1.ins, outs |-> [r \in {MiterName(p, q)} |-> m1.on]]
        /\ LazyRight(d)
    <3>1. IsCircuit(c1) /\ IsCircuit(c2)
      BY <1>1, <1>2
    <3> QED
      BY <3>1, <1>6, <1>7, MiterFunctions
  <2> HIDE DEF d
  <2>2. m1 = m
    BY <1>8, <1>9
  <2> HIDE DEF m1
  <2> QED
    BY <2>1, <2>2
<1>11. IsCircuit(d)
  BY <1>1, <1>2, <1>6, <1>7, MiterIsCircuit
<1> HIDE DEF d
<1>12. FunctionsHeld'
  BY <1>5, <1>10, <1>11, PutFunctions
<1>13. Abstract!Put(u, [ins |-> m.ins, outs |-> [r \in {MiterName(p, q)} |-> m.on]])
  BY <1>5, <1>10 DEF Abstract!Put
<1>14. DOMAIN fun[s].outs = {p} /\ DOMAIN fun[t].outs = {q}
  BY <1>1, <1>2, <1>6, <1>7
<1> QED
  BY <1>5, <1>12, <1>13, <1>14 DEF Abstract!MiterMade, m, f, g

\* A circuit that was read is in one slot, with its functions.
LEMMA InitImplements == Init => Abstract!Init /\ FunctionsHeld
<1> SUFFICES ASSUME NEW s \in Slots, NEW design \in Designs,
                    circuit = [t \in Slots |-> IF t = s THEN Construct(design) ELSE NoCircuit],
                    fun = [t \in Slots |-> IF t = s THEN FunctionsOf(Construct(design))
                                           ELSE NoCircuit],
                    call = <<"parse_verilog">>
             PROVE  Abstract!Init /\ FunctionsHeld
  BY DEF Init
<1> DEFINE c == Construct(design)
<1>1. IsCircuit(c) /\ LazyRight(c)
  BY DesignsAssumption, ConstructedLazy
<1>2. c # NoCircuit /\ FunctionsOf(c) # NoCircuit
  BY <1>1, CircuitsExist, FunctionsShape
<1> HIDE DEF c
<1>3. \A t \in Slots : (fun[t] # NoCircuit) <=> (t = s)
  BY <1>2 DEF c
<1>4. fun = [t \in Slots |-> IF circuit[t] = NoCircuit THEN NoCircuit ELSE FunctionsOf(circuit[t])]
  <2>1. \A t \in Slots :
           (IF t = s THEN FunctionsOf(c) ELSE NoCircuit) =
           (IF circuit[t] = NoCircuit THEN NoCircuit ELSE FunctionsOf(circuit[t]))
    BY <1>2 DEF c
  <2> QED
    BY <2>1 DEF c
<1>5. \A t \in Held : LazyRight(circuit[t])
  BY <1>1 DEF Held, c
<1> QED
  BY <1>3, <1>4, <1>5 DEF Abstract!Init, FunctionsHeld

\* Every call of Circuit is a call of CircuitFunctions.
LEMMA NextImplements ==
    ASSUME ~ReuseNames, CircuitsHeld, FunctionsHeld, [Next]_vars
    PROVE  [Abstract!Next]_(Abstract!vars) /\ FunctionsHeld'
<1>1. CASE UNCHANGED vars
  BY <1>1 DEF FunctionsHeld, Held, vars, Abstract!vars
<1>2. CASE Next
  <2>1. PICK s \in Held :
           \/ \E po \in circuit[s].outputs, vec \in SUBSET circuit[s].inputs :
                  EvalOutputOf(s, po, vec)
           \/ \E pi \in circuit[s].inputs, value \in BOOLEAN : StuckInputOf(s, pi, value)
           \/ \E pi \in circuit[s].inputs : InvertInputOf(s, pi)
           \/ \E po \in circuit[s].outputs : InvertOutputOf(s, po)
           \/ \E t \in Slots : Copy(s, t)
           \/ \E po \in circuit[s].outputs, t \in Slots : GetCone(s, po, t)
           \/ \E t \in Held, function \in {"AND", "XOR"}, u \in Slots :
                  GetMiter(s, t, function, u)
    BY <1>2 DEF Next
  <2>2. /\ s \in Abstract!Held
        /\ fun[s].ins = circuit[s].inputs /\ DOMAIN fun[s].outs = circuit[s].outputs
    BY FunctionIn
  <2>3. ASSUME NEW po \in circuit[s].outputs, NEW vec \in SUBSET circuit[s].inputs,
               EvalOutputOf(s, po, vec)
        PROVE  Abstract!Next /\ FunctionsHeld'
    <3>1. Abstract!Eval(s, po, vec) /\ FunctionsHeld'
      BY <2>3, EvalImplements
    <3> QED
      BY <2>2, <3>1 DEF Abstract!Next
  <2>4. ASSUME NEW pi \in circuit[s].inputs, NEW value \in BOOLEAN, StuckInputOf(s, pi, value)
        PROVE  Abstract!Next /\ FunctionsHeld'
    <3>1. Abstract!Stuck(s, pi, value) /\ FunctionsHeld'
      BY <2>4, StuckImplements
    <3> QED
      BY <2>2, <3>1 DEF Abstract!Next
  <2>5. ASSUME NEW pi \in circuit[s].inputs, InvertInputOf(s, pi)
        PROVE  Abstract!Next /\ FunctionsHeld'
    <3>1. Abstract!InvertIn(s, pi) /\ FunctionsHeld'
      BY <2>5, InvertInputImplements
    <3> QED
      BY <2>2, <3>1 DEF Abstract!Next
  <2>6. ASSUME NEW po \in circuit[s].outputs, InvertOutputOf(s, po)
        PROVE  Abstract!Next /\ FunctionsHeld'
    <3>1. Abstract!InvertOut(s, po) /\ FunctionsHeld'
      BY <2>6, InvertOutputImplements
    <3> QED
      BY <2>2, <3>1 DEF Abstract!Next
  <2>7. ASSUME NEW t \in Slots, Copy(s, t)
        PROVE  Abstract!Next /\ FunctionsHeld'
    <3>1. Abstract!Copied(s, t) /\ FunctionsHeld'
      BY <2>7, CopyImplements
    <3> QED
      BY <2>2, <3>1 DEF Abstract!Next
  <2>8. ASSUME NEW po \in circuit[s].outputs, NEW t \in Slots, GetCone(s, po, t)
        PROVE  Abstract!Next /\ FunctionsHeld'
    <3>1. Abstract!ConeTaken(s, po, t) /\ FunctionsHeld'
      BY <2>8, ConeImplements
    <3> QED
      BY <2>2, <3>1 DEF Abstract!Next
  <2>9. ASSUME NEW t \in Held, NEW function \in {"AND", "XOR"}, NEW u \in Slots,
               GetMiter(s, t, function, u)
        PROVE  Abstract!Next /\ FunctionsHeld'
    <3>1. Abstract!MiterMade(s, t, function, u) /\ FunctionsHeld'
      BY <2>9, MiterImplements
    <3>2. t \in Abstract!Held
      BY FunctionIn
    <3> QED
      BY <2>2, <3>1, <3>2 DEF Abstract!Next
  <2> QED
    BY <2>1, <2>3, <2>4, <2>5, <2>6, <2>7, <2>8, <2>9
<1> QED
  BY <1>1, <1>2

\* ImplementsFunctions: the class Circuit does what CircuitFunctions promises
\* without a netlist.  evalOutput answers by the function of the output for
\* exactly the inputs it was given, whatever lazy values earlier calls left;
\* stuckInput makes cofactors; a copy, a cone and a miter, made from names, have
\* the functions of the circuits they were made from, which pointers compute;
\* and no operation changes the functions of another circuit.
THEOREM CircuitsImplementFunctions ==
    ASSUME ~ReuseNames
    PROVE  Spec => ImplementsFunctions
<1>1. CircuitsHeld /\ FunctionsHeld /\ [Next]_vars => [Abstract!Next]_(Abstract!vars) /\ FunctionsHeld'
  BY NextImplements
<1> QED
  BY <1>1, InitImplements, CircuitsStayRight, PTL DEF Spec, ImplementsFunctions, Abstract!Spec

\* PrintedIsEvaluated: print writes a circuit by its names; who reads that gets
\* the functions that evalOutput computes by following pointers, after any
\* operations, as long as none of them took the name of an existing net.
THEOREM PrintedStaysEvaluated ==
    ASSUME ~ReuseNames
    PROVE  Spec => []PrintedIsEvaluated
<1>1. CircuitsHeld => PrintedIsEvaluated
  BY CopyFunctions DEF CircuitsHeld, PrintedIsEvaluated
<1> QED
  BY <1>1, CircuitsStayRight, PTL

===============================================================================
