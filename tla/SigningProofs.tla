----------------------------- MODULE SigningProofs -----------------------------
(***************************************************************************)
(* The support that support_calculator.cpp computes for an output, filling *)
(* its cache while the calls are under way, is the set of the inputs of    *)
(* the cone of the output: for every circuit without a circle, whatever    *)
(* is done to other circuits between the calls.  And the confirmations of  *)
(* simulator.cpp give the answers that the definitions of unateness and    *)
(* symmetry give: on every cone, whatever was confirmed on it before.      *)
(***************************************************************************)
EXTENDS Signing, NetlistProofs

-------------------------------------------------------------------------------
(***************************************************************************)
(* The inputs below a gate.                                                *)
(***************************************************************************)
\* The nets that gates drive.
GateNets(c) == {x \in DOMAIN c.nets : c.nets[x].input \in Gates(c)}

\* The gates a gate can be computed from, itself one of them.
ClosedUnder(c, g) ==
    {S \in SUBSET Gates(c) :
        g \in S /\ \A n \in S : ToSet(c.node[n].input) \cap Gates(c) \subseteq S}
GatesBelow(c, g) == {n \in Gates(c) : \A S \in ClosedUnder(c, g) : n \in S}

\* The inputs that they read.
InputsBelow(c, g) ==
    {y \in c.inputs : \E n \in GatesBelow(c, g) : \E j \in DOMAIN c.node[n].inNames :
                          c.node[n].inNames[j] = y}

\* What a net that is read adds to the support of the reader.
Adds(c, x) ==
    {y \in c.inputs : y = x \/ (x \in GateNets(c) /\ y \in InputsBelow(c, c.nets[x].input))}

\* What the first p of some nets add.
AddFirst(c, names, p) == {y \in c.inputs : \E j \in 1..p : y \in Adds(c, names[j])}

-------------------------------------------------------------------------------
(***************************************************************************)
(* The state of a call of getOutputSupport.                                *)
(***************************************************************************)
NamesAt(c, x) == c.node[c.nets[x].input].inNames

\* What frames are sequences of.
Frames(c) == [net : DOMAIN c.nets, rest : Seq(DOMAIN c.nets \cup Constants)]

\* How many inputs of its gate a call is past.
Past(c, frame) == Len(NamesAt(c, frame.net)) - Len(frame.rest)

\* A call is for a net that a gate drives; the names it has yet to come to are
\* the last of those the gate reads; and the set K has for the net is what the
\* others add.
FrameRight(c, K, frame) ==
    LET names == NamesAt(c, frame.net)
        p == Past(c, frame)
    IN  /\ frame.net \in GateNets(c) \cap DOMAIN K
        /\ p \in Nat
        /\ \A k \in DOMAIN frame.rest : frame.rest[k] = names[p + k]
        /\ K[frame.net] = AddFirst(c, names, p)

\* The first call is for an output; a call waits for the call for the net it is
\* at; no two are for one net.
FramesRight(c, K, F) ==
    /\ F \in Seq(Frames(c))
    /\ \A i \in DOMAIN F : FrameRight(c, K, F[i])
    /\ 1 \in DOMAIN F => F[1].net \in c.outputs
    /\ \A i \in DOMAIN F : i + 1 \in DOMAIN F =>
          F[i].rest # <<>> /\ F[i].rest[1] = F[i + 1].net
    /\ \A i, j \in DOMAIN F : F[i].net = F[j].net => i = j

\* A net whose call has returned has the inputs below its gate.
CacheRight(c, K, F) ==
    \A x \in DOMAIN K :
       /\ x \in GateNets(c)
       /\ (\A i \in DOMAIN F : F[i].net # x) => K[x] = InputsBelow(c, c.nets[x].input)

ResultRight(c, R) ==
    /\ DOMAIN R \subseteq c.outputs
    /\ \A po \in DOMAIN R : R[po] = InputsBelow(c, c.nets[po].input)

StateRight(c, K, F, R) ==
    IsCircuit(c) /\ FramesRight(c, K, F) /\ CacheRight(c, K, F) /\ ResultRight(c, R)

SupportRight == StateRight(circuit[subject], cache, frames, result)

-------------------------------------------------------------------------------
(***************************************************************************)
(* The gates and the inputs below a gate are those below the nets it reads.*)
(***************************************************************************)
LEMMA BelowClosed ==
    ASSUME NEW c, NEW g \in Gates(c)
    PROVE  /\ g \in GatesBelow(c, g) /\ GatesBelow(c, g) \subseteq Gates(c)
           /\ \A n \in GatesBelow(c, g) : \A j \in DOMAIN c.node[n].input :
                 c.node[n].input[j] \in Gates(c) => c.node[n].input[j] \in GatesBelow(c, g)
<1>1. g \in GatesBelow(c, g)
  BY DEF GatesBelow, ClosedUnder
<1>2. ASSUME NEW n \in GatesBelow(c, g), NEW j \in DOMAIN c.node[n].input,
             c.node[n].input[j] \in Gates(c), NEW S \in ClosedUnder(c, g)
      PROVE  c.node[n].input[j] \in S
  <2>1. n \in S
    BY DEF GatesBelow
  <2>2. c.node[n].input[j] \in ToSet(c.node[n].input)
    BY DEF ToSet
  <2> QED
    BY <1>2, <2>1, <2>2 DEF ClosedUnder
<1> QED
  BY <1>1, <1>2 DEF GatesBelow

LEMMA BelowLeast ==
    ASSUME NEW c, NEW g \in Gates(c), NEW S \in SUBSET Gates(c), g \in S,
           \A n \in S : \A j \in DOMAIN c.node[n].input :
               c.node[n].input[j] \in Gates(c) => c.node[n].input[j] \in S
    PROVE  GatesBelow(c, g) \subseteq S
<1>1. \A n \in S : ToSet(c.node[n].input) \cap Gates(c) \subseteq S
  BY DEF ToSet
<1>2. S \in ClosedUnder(c, g)
  BY <1>1 DEF ClosedUnder
<1> QED
  BY <1>2 DEF GatesBelow

LEMMA BelowBelow ==
    ASSUME NEW c, NEW g \in Gates(c), NEW h \in GatesBelow(c, g)
    PROVE  GatesBelow(c, h) \subseteq GatesBelow(c, g)
<1>1. h \in Gates(c)
  BY DEF GatesBelow
<1> QED
  BY <1>1, BelowClosed, BelowLeast

LEMMA InputsByNames ==
    ASSUME NEW c, IsCircuit(c), NEW x \in GateNets(c)
    PROVE  InputsBelow(c, c.nets[x].input) = AddFirst(c, NamesAt(c, x), Len(NamesAt(c, x)))
<1> DEFINE g == c.nets[x].input
           names == c.node[g].inNames
           pins == c.node[g].input
<1>1. g \in Gates(c) /\ g \in DOMAIN c.node
  BY DEF GateNets, Gates
<1>2. DOMAIN names = 1..Len(names) /\ DOMAIN pins = DOMAIN names
  BY <1>1 DEF IsCircuit, PinsRight
<1> HIDE DEF g
<1>3. ASSUME NEW y \in InputsBelow(c, g)
      PROVE  \E j \in DOMAIN names : y \in Adds(c, names[j])
  <2>1. PICK n \in GatesBelow(c, g) : \E j \in DOMAIN c.node[n].inNames : c.node[n].inNames[j] = y
    BY DEF InputsBelow
  <2>2. y \in c.inputs
    BY DEF InputsBelow
  <2> DEFINE S == {g} \cup {m \in Gates(c) : \E k \in DOMAIN pins :
                              pins[k] \in Gates(c) /\ m \in GatesBelow(c, pins[k])}
  <2>3. GatesBelow(c, g) \subseteq S
    <3>1. ASSUME NEW m \in S, NEW k \in DOMAIN c.node[m].input, c.node[m].input[k] \in Gates(c)
          PROVE  c.node[m].input[k] \in S
      <4>1. CASE m = g
        BY <3>1, <4>1, BelowClosed
      <4>2. CASE m # g
        <5>1. PICK l \in DOMAIN pins : pins[l] \in Gates(c) /\ m \in GatesBelow(c, pins[l])
          BY <4>2
        <5> QED
          BY <3>1, <5>1, BelowClosed
      <4> QED
        BY <4>1, <4>2
    <3>2. S \in SUBSET Gates(c) /\ g \in S
      BY <1>1
    <3> HIDE DEF S
    <3> QED
      BY <1>1, <3>1, <3>2, BelowLeast
  <2>4. CASE n = g
    BY <2>1, <2>2, <2>4 DEF Adds
  <2>5. CASE n # g
    <3>1. PICK k \in DOMAIN pins : pins[k] \in Gates(c) /\ n \in GatesBelow(c, pins[k])
      BY <2>3, <2>5
    <3>2. /\ names[k] \in DOMAIN c.nets /\ c.nets[names[k]].input = pins[k]
      <4>1. pins[k] \notin {0, 1}
        BY <3>1 DEF Gates, IsCircuit, HasParts
      <4> QED
        BY <1>1, <1>2, <4>1, ReadNet
    <3>3. y \in InputsBelow(c, pins[k])
      BY <2>1, <2>2, <3>1 DEF InputsBelow
    <3> QED
      BY <1>2, <2>2, <3>1, <3>2, <3>3 DEF Adds, GateNets
  <2> QED
    BY <2>4, <2>5
<1>4. ASSUME NEW j \in DOMAIN names, NEW y \in Adds(c, names[j])
      PROVE  y \in InputsBelow(c, g)
  <2>1. y \in c.inputs
    BY DEF Adds
  <2>2. CASE y = names[j]
    BY <1>1, <2>1, <2>2, BelowClosed DEF InputsBelow
  <2>3. CASE names[j] \in GateNets(c) /\ y \in InputsBelow(c, c.nets[names[j]].input)
    <3> DEFINE h == c.nets[names[j]].input
    <3>1. h \in Gates(c) /\ names[j] \in DOMAIN c.nets
      BY <2>3 DEF GateNets
    <3>2. pins[j] = h
      <4>1. names[j] \notin Constants
        BY <3>1 DEF IsCircuit, HasParts, IsName, Constants
      <4> QED
        BY <1>1, <4>1, ReadNet
    <3>3. GatesBelow(c, h) \subseteq GatesBelow(c, g)
      BY <1>1, <1>2, <3>1, <3>2, BelowClosed, BelowBelow
    <3> QED
      BY <2>3, <3>3 DEF InputsBelow
  <2> QED
    BY <2>2, <2>3 DEF Adds
<1>5. InputsBelow(c, g) \subseteq c.inputs
  BY DEF InputsBelow
<1>6. InputsBelow(c, g) = AddFirst(c, names, Len(names))
  BY <1>2, <1>3, <1>4, <1>5 DEF AddFirst
<1> QED
  BY <1>6 DEF NamesAt, g

LEMMA ConeInputs ==
    ASSUME NEW c, IsCircuit(c), NEW po \in c.outputs
    PROVE  ConeOf(c, po).inputs = InputsBelow(c, c.nets[po].input)
<1> DEFINE g == c.nets[po].input
           below == GatesBelow(c, g)
           services == {m \in ServiceNodes(c) : \E n \in below : m \in ToSet(c.node[n].input)}
<1>1. ConeNodes(c, po) = below \cup services
  BY DEF ConeNodes, GatesBelow, ClosedUnder
<1>2. /\ below \subseteq Gates(c) /\ Gates(c) \subseteq DOMAIN c.node
      /\ ServiceNodes(c) \subseteq DOMAIN c.node /\ Gates(c) \cap ServiceNodes(c) = {}
  BY DEF GatesBelow, Gates, ServiceNodes
<1>3. ConeOf(c, po).inputs = {c.node[m].outName : m \in services}
  <2>1. ConeNodes(c, po) \cap ServiceNodes(c) = services
    BY <1>1, <1>2
  <2> HIDE DEF services
  <2> QED
    BY <2>1, ConeIsCircuit
<1> HIDE DEF below
<1>4. ASSUME NEW m \in services
      PROVE  c.node[m].outName \in InputsBelow(c, g)
  <2>1. PICK n \in below : m \in ToSet(c.node[n].input)
    OBVIOUS
  <2>2. PICK j \in DOMAIN c.node[n].input : c.node[n].input[j] = m
    BY <2>1 DEF ToSet
  <2>3. n \in DOMAIN c.node /\ m \in DOMAIN c.node /\ m \notin {0, 1}
    BY <1>2 DEF IsCircuit, HasParts
  <2>4. j \in DOMAIN c.node[n].inNames
    BY <2>3 DEF IsCircuit, PinsRight
  <2>5. c.node[m].outName = c.node[n].inNames[j] /\ c.node[m].outName \in c.inputs
    BY <2>2, <2>3, <2>4, ReadNet, DrivenNet
  <2> QED
    BY <2>1, <2>4, <2>5 DEF InputsBelow, below
<1>5. ASSUME NEW y \in InputsBelow(c, g)
      PROVE  \E m \in services : y = c.node[m].outName
  <2>1. PICK n \in below : \E j \in DOMAIN c.node[n].inNames : c.node[n].inNames[j] = y
    BY DEF InputsBelow, below
  <2>2. PICK j \in DOMAIN c.node[n].inNames : c.node[n].inNames[j] = y
    BY <2>1
  <2>3. y \in c.inputs /\ y \notin Constants
    BY DEF InputsBelow, IsCircuit, HasParts, IsName, Constants
  <2>4. n \in DOMAIN c.node
    BY <1>2
  <2> DEFINE m == c.node[n].input[j]
  <2>5. /\ j \in DOMAIN c.node[n].input /\ m \in ServiceNodes(c) /\ c.node[m].outName = y
    BY <2>2, <2>3, <2>4, ReadNet
  <2>6. m \in ToSet(c.node[n].input)
    BY <2>5 DEF ToSet
  <2> QED
    BY <2>5, <2>6
<1> HIDE DEF services, g
<1> QED
  BY <1>3, <1>4, <1>5 DEF g

-------------------------------------------------------------------------------
(***************************************************************************)
(* One call of getSupport, name by name.                                   *)
(***************************************************************************)
LEMMA AddNone ==
    ASSUME NEW c, NEW names
    PROVE  AddFirst(c, names, 0) = {}
BY DEF AddFirst

LEMMA AddNext ==
    ASSUME NEW c, NEW names, NEW p \in Nat
    PROVE  AddFirst(c, names, p + 1) = AddFirst(c, names, p) \cup Adds(c, names[p + 1])
<1>1. 1..(p + 1) = 1..p \cup {p + 1}
  OBVIOUS
<1>2. Adds(c, names[p + 1]) \subseteq c.inputs
  BY DEF Adds
<1> QED
  BY <1>1, <1>2 DEF AddFirst

\* What the name of each kind adds.
LEMMA AddedBy ==
    ASSUME NEW c, IsCircuit(c), NEW x
    PROVE  /\ x \in Constants => Adds(c, x) = {}
           /\ x \in c.inputs => Adds(c, x) = {x}
           /\ x \in GateNets(c) => Adds(c, x) = InputsBelow(c, c.nets[x].input)
<1>1. ASSUME x \in Constants
      PROVE  Adds(c, x) = {}
  BY <1>1 DEF Adds, GateNets, IsCircuit, HasParts, IsName, Constants
<1>2. ASSUME x \in c.inputs
      PROVE  Adds(c, x) = {x}
  <2>1. x \notin GateNets(c)
    BY <1>2, InputNet DEF GateNets, Gates, ServiceNodes
  <2> QED
    BY <1>2, <2>1 DEF Adds
<1>3. ASSUME x \in GateNets(c)
      PROVE  Adds(c, x) = InputsBelow(c, c.nets[x].input)
  <2>1. x \notin c.inputs
    BY <1>3, InputNet DEF GateNets, Gates, ServiceNodes
  <2>2. InputsBelow(c, c.nets[x].input) \subseteq c.inputs
    BY DEF InputsBelow
  <2> QED
    BY <1>3, <2>1, <2>2 DEF Adds
<1> QED
  BY <1>1, <1>2, <1>3

\* The names that the gate of a net reads are constants, inputs, and nets of gates.
LEMMA NamesRead ==
    ASSUME NEW c, IsCircuit(c), NEW x \in GateNets(c)
    PROVE  /\ NamesAt(c, x) \in Seq(DOMAIN c.nets \cup Constants)
           /\ \A j \in DOMAIN NamesAt(c, x) :
                 /\ j \in DOMAIN c.node[c.nets[x].input].input
                 /\ \/ NamesAt(c, x)[j] \in Constants
                    \/ NamesAt(c, x)[j] \in c.inputs
                    \/ /\ NamesAt(c, x)[j] \in GateNets(c)
                       /\ c.nets[NamesAt(c, x)[j]].input = c.node[c.nets[x].input].input[j]
<1>1. c.nets[x].input \in DOMAIN c.node
  BY DEF GateNets, Gates
<1>2. NamesAt(c, x) \in Seq(DOMAIN c.nets \cup Constants)
  BY <1>1 DEF NamesAt, IsCircuit, PinsRight
<1>3. \A j \in DOMAIN NamesAt(c, x) :
         /\ j \in DOMAIN c.node[c.nets[x].input].input
         /\ \/ NamesAt(c, x)[j] \in Constants
            \/ NamesAt(c, x)[j] \in c.inputs
            \/ /\ NamesAt(c, x)[j] \in GateNets(c)
               /\ c.nets[NamesAt(c, x)[j]].input = c.node[c.nets[x].input].input[j]
  BY <1>1, ReadNet DEF NamesAt, GateNets
<1> QED
  BY <1>2, <1>3

\* A gate points to the driver of a net of a gate that it names.
LEMMA PinRead ==
    ASSUME NEW c, IsCircuit(c), NEW x \in GateNets(c), NEW j \in DOMAIN NamesAt(c, x),
           NEW y \in GateNets(c), NamesAt(c, x)[j] = y
    PROVE  /\ j \in DOMAIN c.node[c.nets[x].input].input
           /\ c.node[c.nets[x].input].input[j] = c.nets[y].input
<1>1. y \in DOMAIN c.nets /\ c.nets[y].input \in Gates(c)
  BY DEF GateNets
<1>2. y \notin c.inputs
  BY <1>1, InputNet DEF Gates, ServiceNodes
<1>3. y \notin Constants
  BY <1>1 DEF IsCircuit, HasParts, IsName, Constants
<1>4. c.nets[x].input \in DOMAIN c.node
  BY DEF GateNets, Gates
<1> QED
  BY <1>2, <1>3, <1>4, ReadNet DEF NamesAt

\* What is known of a call with a name to come.
LEMMA AtName ==
    ASSUME NEW c, IsCircuit(c), NEW frame,
           frame \in Frames(c), NEW K, FrameRight(c, K, frame), frame.rest # <<>>
    PROVE  LET names == NamesAt(c, frame.net)
               p == Past(c, frame)
           IN  /\ p \in Nat /\ p + 1 \in DOMAIN names /\ frame.rest[1] = names[p + 1]
               /\ Len(Tail(frame.rest)) = Len(frame.rest) - 1
               /\ \A k \in DOMAIN Tail(frame.rest) : Tail(frame.rest)[k] = names[p + 1 + k]
<1> DEFINE names == NamesAt(c, frame.net)
           p == Past(c, frame)
           rest == frame.rest
<1>1. frame.net \in GateNets(c) /\ p \in Nat /\ \A k \in DOMAIN rest : rest[k] = names[p + k]
  BY DEF FrameRight
<1>2. names \in Seq(DOMAIN c.nets \cup Constants)
  BY <1>1, NamesRead
<1>3. rest \in Seq(DOMAIN c.nets \cup Constants) /\ Len(rest) \in Nat /\ Len(names) \in Nat
      /\ DOMAIN rest = 1..Len(rest) /\ DOMAIN names = 1..Len(names)
  BY <1>2 DEF Frames
<1>4. Len(rest) > 0 /\ p = Len(names) - Len(rest)
  BY <1>3 DEF Past
<1> HIDE DEF names, rest, p
<1>5. Tail(rest) \in Seq(DOMAIN c.nets \cup Constants) /\ Len(Tail(rest)) = Len(rest) - 1
      /\ \A k \in 1..Len(rest) - 1 : Tail(rest)[k] = rest[k + 1]
  BY <1>3, <1>4
<1>6. \A k \in DOMAIN Tail(rest) : Tail(rest)[k] = names[p + 1 + k]
  BY <1>1, <1>3, <1>4, <1>5
<1>7. p + 1 \in DOMAIN names /\ rest[1] = names[p + 1]
  BY <1>1, <1>3, <1>4
<1> QED
  BY <1>1, <1>5, <1>6, <1>7 DEF names, rest, p

\* A net that is come to is not one whose call is under way.
LEMMA NotUnderWay ==
    ASSUME NEW c, IsCircuit(c), NEW K, NEW F, FramesRight(c, K, F),
           F # <<>>, F[Len(F)].rest # <<>>, NEW i \in DOMAIN F
    PROVE  F[i].net # F[Len(F)].rest[1]
<1> DEFINE n == Len(F)
           driver(k) == c.nets[F[k].net].input
           S == {driver(k) : k \in i..n}
<1> SUFFICES ASSUME F[i].net = F[n].rest[1]
             PROVE  FALSE
  OBVIOUS
<1>1. F \in Seq(Frames(c))
  BY DEF FramesRight
<1>2. n \in Nat /\ n > 0 /\ DOMAIN F = 1..n /\ i \in 1..n
  BY <1>1
<1>3. F[n].rest # <<>> /\ F[i].net = F[n].rest[1]
  OBVIOUS
<1> HIDE DEF n
<1>4. ASSUME NEW k \in i..n
      PROVE  /\ driver(k) \in Gates(c)
             /\ \E j \in DOMAIN c.node[driver(k)].input : c.node[driver(k)].input[j] \in S
  <2> DEFINE frame == F[k]
             p == Past(c, frame)
             next == IF k = n THEN i ELSE k + 1
  <2>1. k \in DOMAIN F /\ next \in i..n /\ next \in DOMAIN F
    BY <1>2
  <2>2. frame \in Frames(c)
    BY <1>1, <2>1
  <2>3. FrameRight(c, K, frame) /\ frame.net \in GateNets(c)
    BY <1>1, <2>1 DEF FramesRight, FrameRight
  <2>4. frame.rest # <<>> /\ frame.rest[1] = F[next].net
    <3>1. CASE k = n
      BY <1>3, <3>1
    <3>2. CASE k # n
      <4>1. k + 1 \in DOMAIN F
        BY <1>2, <3>2
      <4> QED
        BY <1>1, <2>1, <3>2, <4>1 DEF FramesRight
    <3> QED
      BY <3>1, <3>2
  <2> HIDE DEF frame, next
  <2>5. p + 1 \in DOMAIN NamesAt(c, frame.net) /\ NamesAt(c, frame.net)[p + 1] = F[next].net
    BY <1>1, <2>2, <2>3, <2>4, AtName
  <2>6. F[next].net \in GateNets(c)
    BY <1>1, <2>1 DEF FramesRight, FrameRight
  <2> HIDE DEF p
  <2>7. /\ p + 1 \in DOMAIN c.node[driver(k)].input
        /\ c.node[driver(k)].input[p + 1] = driver(next)
    <3>1. /\ p + 1 \in DOMAIN c.node[c.nets[frame.net].input].input
          /\ c.node[c.nets[frame.net].input].input[p + 1] = c.nets[F[next].net].input
      BY <1>1, <2>3, <2>5, <2>6, PinRead
    <3> QED
      BY <3>1 DEF frame
  <2>8. driver(k) \in Gates(c)
    BY <2>3 DEF frame, GateNets
  <2> QED
    BY <2>1, <2>7, <2>8
<1>5. S \in SUBSET Gates(c) /\ S # {}
  <2>1. driver(i) \in S
    BY <1>2
  <2> QED
    BY <1>4, <2>1
<1>6. \A g \in S : \E j \in DOMAIN c.node[g].input : c.node[g].input[j] \in S
  BY <1>4
<1> HIDE DEF S
<1> QED
  BY <1>1, <1>5, <1>6 DEF IsCircuit, NoCircle

-------------------------------------------------------------------------------
(***************************************************************************)
(* The steps of getOutputSupport.                                          *)
(***************************************************************************)
\* The innermost call.
LEMMA AtTop ==
    ASSUME NEW c, NEW K, NEW F, FramesRight(c, K, F), F # <<>>
    PROVE  LET n == Len(F)
           IN  /\ n \in Nat /\ n > 0 /\ DOMAIN F = 1..n
               /\ F[n] \in Frames(c) /\ FrameRight(c, K, F[n])
               /\ F[n].rest \in Seq(DOMAIN c.nets \cup Constants)
<1> DEFINE n == Len(F)
<1>1. F \in Seq(Frames(c))
  BY DEF FramesRight
<1>2. n \in Nat /\ n > 0 /\ DOMAIN F = 1..n
  BY <1>1
<1>3. F[n] \in Frames(c)
  BY <1>1, <1>2
<1>4. FrameRight(c, K, F[n])
  BY <1>2 DEF FramesRight
<1>5. F[n].rest \in Seq(DOMAIN c.nets \cup Constants)
  BY <1>3 DEF Frames
<1> QED
  BY <1>2, <1>3, <1>4, <1>5

\* A call begins for a net that is not cached: an output, or one that is read.
LEMMA EnterRight ==
    ASSUME NEW c, NEW K, NEW F, NEW R, StateRight(c, K, F, R),
           NEW o \in GateNets(c), o \notin DOMAIN K,
           \/ F = <<>> /\ o \in c.outputs
           \/ F # <<>> /\ F[Len(F)].rest # <<>> /\ F[Len(F)].rest[1] = o,
           NEW K2, DOMAIN K2 = DOMAIN K \cup {o}, K2[o] = {}, \A x \in DOMAIN K : K2[x] = K[x]
    PROVE  StateRight(c, K2, Append(F, [net |-> o, rest |-> NamesAt(c, o)]), R)
<1> DEFINE n == Len(F)
           new == [net |-> o, rest |-> NamesAt(c, o)]
           G == Append(F, new)
<1>1. IsCircuit(c) /\ FramesRight(c, K, F) /\ CacheRight(c, K, F) /\ ResultRight(c, R)
  BY DEF StateRight
<1>2. F \in Seq(Frames(c)) /\ n \in Nat /\ DOMAIN F = 1..n
  BY <1>1 DEF FramesRight
<1>3. F # <<>> => F[n].rest # <<>> /\ F[n].rest[1] = o /\ n > 0
  BY <1>2
<1>4. F = <<>> => n = 0
  OBVIOUS
<1>5. NamesAt(c, o) \in Seq(DOMAIN c.nets \cup Constants)
  BY <1>1, NamesRead
<1>6. new \in Frames(c) /\ new.net = o /\ new.rest = NamesAt(c, o)
  BY <1>5 DEF Frames, GateNets
<1> HIDE DEF new
<1>7. /\ G \in Seq(Frames(c)) /\ DOMAIN G = 1..(n + 1)
      /\ \A i \in 1..n : G[i] = F[i]
      /\ G[n + 1] = new
  BY <1>2, <1>6, AppendProperties
<1> HIDE DEF G, n
<1>8. ASSUME NEW i \in 1..n
      PROVE  FrameRight(c, K, F[i]) /\ F[i].net \in DOMAIN K /\ F[i].net # o
  BY <1>1, <1>2 DEF FramesRight, FrameRight
<1>9. ASSUME NEW i \in DOMAIN G
      PROVE  FrameRight(c, K2, G[i])
  <2>1. CASE i = n + 1
    <3>1. Past(c, new) = 0
      BY <1>5, <1>6 DEF Past
    <3>2. \A k \in DOMAIN new.rest : new.rest[k] = NamesAt(c, o)[0 + k]
      BY <1>5, <1>6
    <3>3. FrameRight(c, K2, new)
      <4>1. K2[new.net] = AddFirst(c, NamesAt(c, new.net), Past(c, new))
        BY <1>6, <3>1, AddNone
      <4>2. \A k \in DOMAIN new.rest : new.rest[k] = NamesAt(c, new.net)[Past(c, new) + k]
        BY <1>6, <3>1, <3>2
      <4>3. new.net \in GateNets(c) \cap DOMAIN K2 /\ Past(c, new) \in Nat
        BY <1>6, <3>1
      <4> QED
        BY <4>1, <4>2, <4>3 DEF FrameRight
    <3> QED
      BY <1>7, <2>1, <3>3
  <2>2. CASE i \in 1..n
    <3>1. FrameRight(c, K2, F[i])
      BY <1>8, <2>2 DEF FrameRight
    <3> QED
      BY <1>7, <2>2, <3>1
  <2> QED
    BY <1>2, <1>7, <2>1, <2>2
<1>10. FramesRight(c, K2, G)
  <2>1. 1 \in DOMAIN G => G[1].net \in c.outputs
    <3>1. CASE F = <<>>
      BY <1>4, <1>6, <1>7, <3>1
    <3>2. CASE F # <<>>
      BY <1>1, <1>2, <1>3, <1>7, <3>2 DEF FramesRight
    <3> QED
      BY <3>1, <3>2
  <2>2. ASSUME NEW i \in DOMAIN G, i + 1 \in DOMAIN G
        PROVE  G[i].rest # <<>> /\ G[i].rest[1] = G[i + 1].net
    <3>1. CASE i = n
      BY <1>2, <1>3, <1>4, <1>6, <1>7, <2>2, <3>1
    <3>2. CASE i # n
      <4>1. i \in 1..n /\ i + 1 \in 1..n
        BY <1>2, <1>7, <2>2, <3>2
      <4> QED
        BY <1>1, <1>2, <1>7, <4>1 DEF FramesRight
    <3> QED
      BY <3>1, <3>2
  <2>3. ASSUME NEW i \in DOMAIN G, NEW j \in DOMAIN G, G[i].net = G[j].net
        PROVE  i = j
    <3>1. CASE i \in 1..n /\ j \in 1..n
      BY <1>1, <1>2, <1>7, <2>3, <3>1 DEF FramesRight
    <3>2. CASE i = n + 1 \/ j = n + 1
      BY <1>2, <1>6, <1>7, <1>8, <2>3, <3>2
    <3> QED
      BY <1>2, <1>7, <3>1, <3>2
  <2> QED
    BY <1>7, <1>9, <2>1, <2>2, <2>3 DEF FramesRight
<1>11. CacheRight(c, K2, G)
  <2> SUFFICES ASSUME NEW x \in DOMAIN K2
               PROVE  /\ x \in GateNets(c)
                      /\ (\A i \in DOMAIN G : G[i].net # x) =>
                            K2[x] = InputsBelow(c, c.nets[x].input)
    BY DEF CacheRight
  <2>1. CASE x = o
    <3>1. n + 1 \in DOMAIN G /\ G[n + 1].net = o
      BY <1>2, <1>6, <1>7
    <3> QED
      BY <2>1, <3>1
  <2>2. CASE x \in DOMAIN K
    <3>1. x \in GateNets(c) /\ ((\A i \in DOMAIN F : F[i].net # x) =>
                                    K[x] = InputsBelow(c, c.nets[x].input))
      BY <1>1, <2>2 DEF CacheRight
    <3>2. \A i \in DOMAIN F : i \in DOMAIN G /\ G[i].net = F[i].net
      BY <1>2, <1>7
    <3> QED
      BY <2>2, <3>1, <3>2
  <2> QED
    BY <2>1, <2>2
<1> QED
  BY <1>1, <1>10, <1>11 DEF StateRight, G, new

\* The innermost call goes past a name and takes what the name adds.
LEMMA PassRight ==
    ASSUME NEW c, NEW K, NEW F, NEW R, StateRight(c, K, F, R), F # <<>>,
           F[Len(F)].rest # <<>>,
           NEW K2, DOMAIN K2 = DOMAIN K,
           \A x \in DOMAIN K :
               K2[x] = IF x = F[Len(F)].net THEN K[x] \cup Adds(c, F[Len(F)].rest[1]) ELSE K[x]
    PROVE  StateRight(c, K2, [F EXCEPT ![Len(F)].rest = Tail(@)], R)
<1> DEFINE n == Len(F)
           top == F[n]
           past == [net |-> top.net, rest |-> Tail(top.rest)]
           names == NamesAt(c, top.net)
           p == Past(c, top)
           G == [F EXCEPT ![n].rest = Tail(@)]
<1>1. IsCircuit(c) /\ FramesRight(c, K, F) /\ CacheRight(c, K, F) /\ ResultRight(c, R)
  BY DEF StateRight
<1>2. F \in Seq(Frames(c)) /\ n \in Nat /\ n > 0 /\ DOMAIN F = 1..n
      /\ top \in Frames(c) /\ FrameRight(c, K, top) /\ top.rest \in Seq(DOMAIN c.nets \cup Constants)
  BY <1>1, AtTop DEF FramesRight
<1>3. top.rest # <<>> /\ \A x \in DOMAIN K :
         K2[x] = IF x = top.net THEN K[x] \cup Adds(c, top.rest[1]) ELSE K[x]
  OBVIOUS
<1>4. G = [F EXCEPT ![n] = past]
  <2>1. top = [net |-> top.net, rest |-> top.rest]
    BY <1>2 DEF Frames
  <2>2. [top EXCEPT !.rest = Tail(top.rest)] = past
    BY <2>1
  <2>3. G = [F EXCEPT ![n] = [top EXCEPT !.rest = Tail(top.rest)]]
    OBVIOUS
  <2> QED
    BY <2>2, <2>3
<1> HIDE DEF n, G
<1>5. past \in Frames(c) /\ past.net = top.net /\ past.rest = Tail(top.rest)
  BY <1>2, <1>3 DEF Frames
<1> HIDE DEF top, past
<1>6. /\ G \in Seq(Frames(c)) /\ DOMAIN G = 1..n /\ Len(G) = n
      /\ \A i \in 1..n : i # n => G[i] = F[i]
      /\ G[n] = past
  BY <1>2, <1>4, <1>5
<1>7. /\ p \in Nat /\ top.rest[1] = names[p + 1]
      /\ Len(past.rest) = Len(top.rest) - 1
      /\ \A k \in DOMAIN past.rest : past.rest[k] = names[p + 1 + k]
  BY <1>1, <1>2, <1>3, <1>5, AtName
<1>8. Past(c, past) = p + 1
  <2>1. Len(names) \in Nat /\ Len(top.rest) \in Nat
    <3>1. top.net \in GateNets(c)
      BY <1>2 DEF FrameRight
    <3>2. names \in Seq(DOMAIN c.nets \cup Constants)
      BY <1>1, <3>1, NamesRead
    <3> QED
      BY <1>2, <3>2
  <2>2. p = Len(names) - Len(top.rest) /\ Past(c, past) = Len(names) - Len(past.rest)
    BY <1>5 DEF Past
  <2> HIDE DEF p, names
  <2> QED
    BY <1>7, <2>1, <2>2
<1>9. FrameRight(c, K2, past)
  <2>1. top.net \in GateNets(c) \cap DOMAIN K /\ K[top.net] = AddFirst(c, names, p)
    BY <1>2 DEF FrameRight
  <2>2. K2[top.net] = AddFirst(c, names, p + 1)
    <3>1. K2[top.net] = K[top.net] \cup Adds(c, names[p + 1])
      BY <1>3, <1>7, <2>1
    <3> HIDE DEF p, names
    <3> QED
      BY <1>7, <2>1, <3>1, AddNext
  <2> HIDE DEF p
  <2> QED
    BY <1>5, <1>7, <1>8, <2>1, <2>2 DEF FrameRight
<1>10. \A i \in 1..n : G[i].net = F[i].net
  BY <1>5, <1>6 DEF top
<1>11. \A i, j \in 1..n : F[i].net = F[j].net => i = j
  BY <1>1, <1>2 DEF FramesRight
<1>12. ASSUME NEW i \in DOMAIN G
       PROVE  FrameRight(c, K2, G[i])
  <2>1. CASE i = n
    BY <1>6, <1>9, <2>1
  <2>2. CASE i # n
    <3>1. FrameRight(c, K, F[i]) /\ F[i].net # top.net
      BY <1>1, <1>2, <1>6, <1>11, <2>2 DEF FramesRight, top
    <3>2. F[i].net \in DOMAIN K /\ K2[F[i].net] = K[F[i].net]
      BY <1>3, <3>1 DEF FrameRight
    <3>3. FrameRight(c, K2, F[i])
      BY <3>1, <3>2 DEF FrameRight
    <3> QED
      BY <1>6, <2>2, <3>3
  <2> QED
    BY <2>1, <2>2
<1>13. FramesRight(c, K2, G)
  <2>1. 1 \in DOMAIN G => G[1].net \in c.outputs
    BY <1>1, <1>2, <1>6, <1>10 DEF FramesRight
  <2>2. ASSUME NEW i \in DOMAIN G, i + 1 \in DOMAIN G
        PROVE  G[i].rest # <<>> /\ G[i].rest[1] = G[i + 1].net
    <3>1. i # n /\ i \in DOMAIN F /\ i + 1 \in DOMAIN F
      BY <1>2, <1>6, <2>2
    <3>2. F[i].rest # <<>> /\ F[i].rest[1] = F[i + 1].net
      BY <1>1, <3>1 DEF FramesRight
    <3> QED
      BY <1>2, <1>6, <1>10, <3>1, <3>2
  <2>3. \A i, j \in DOMAIN G : G[i].net = G[j].net => i = j
    BY <1>6, <1>10, <1>11
  <2> QED
    BY <1>6, <1>12, <2>1, <2>2, <2>3 DEF FramesRight
<1>14. CacheRight(c, K2, G)
  <2> SUFFICES ASSUME NEW x \in DOMAIN K2
               PROVE  /\ x \in GateNets(c)
                      /\ (\A i \in DOMAIN G : G[i].net # x) =>
                            K2[x] = InputsBelow(c, c.nets[x].input)
    BY DEF CacheRight
  <2>1. x \in GateNets(c) /\ ((\A i \in DOMAIN F : F[i].net # x) =>
                                  K[x] = InputsBelow(c, c.nets[x].input))
    BY <1>1 DEF CacheRight
  <2>2. (\A i \in DOMAIN G : G[i].net # x) => x # top.net /\ \A i \in DOMAIN F : F[i].net # x
    BY <1>2, <1>6, <1>10 DEF top
  <2> QED
    BY <1>3, <2>1, <2>2
<1> QED
  BY <1>1, <1>13, <1>14 DEF StateRight, G, n

\* The innermost call returns.
LEMMA ReturnRight ==
    ASSUME NEW c, NEW K, NEW F, NEW R, StateRight(c, K, F, R), F # <<>>,
           F[Len(F)].rest = <<>>
    PROVE  /\ K[F[Len(F)].net] = InputsBelow(c, c.nets[F[Len(F)].net].input)
           /\ Len(F) \in Nat
           /\ Len(F) <= 1 => F[Len(F)].net \in c.outputs
           /\ StateRight(c, K, Front(F), R)
<1> DEFINE n == Len(F)
           top == F[n]
           names == NamesAt(c, top.net)
           G == Front(F)
<1>1. IsCircuit(c) /\ FramesRight(c, K, F) /\ CacheRight(c, K, F) /\ ResultRight(c, R)
  BY DEF StateRight
<1>2. F \in Seq(Frames(c)) /\ n \in Nat /\ n > 0 /\ DOMAIN F = 1..n
      /\ top \in Frames(c) /\ FrameRight(c, K, top)
  BY <1>1, AtTop DEF FramesRight
<1>3. top.rest = <<>>
  OBVIOUS
<1>4. K[top.net] = InputsBelow(c, c.nets[top.net].input)
  <2> HIDE DEF top
  <2>1. top.net \in GateNets(c) /\ K[top.net] = AddFirst(c, names, Past(c, top))
    BY <1>2 DEF FrameRight
  <2>2. names \in Seq(DOMAIN c.nets \cup Constants)
    BY <1>1, <2>1, NamesRead
  <2>3. Past(c, top) = Len(names)
    BY <1>3, <2>2 DEF Past
  <2> QED
    BY <1>1, <2>1, <2>3, InputsByNames
<1>5. n <= 1 => top.net \in c.outputs
  BY <1>1, <1>2 DEF FramesRight
<1>6. G = SubSeq(F, 1, n - 1)
  BY DEF Front
<1> HIDE DEF n, G
<1>7. /\ G \in Seq(Frames(c)) /\ DOMAIN G = 1..(n - 1)
      /\ \A i \in 1..(n - 1) : G[i] = F[i]
  <2>1. \A i \in 1..(n - 1) : F[i] \in Frames(c)
    BY <1>2
  <2>2. /\ G \in Seq(Frames(c))
        /\ Len(G) = n - 1
        /\ \A i \in 1..(n - 1) : G[i] = F[i]
    BY <1>2, <1>6, <2>1, SubSeqProperties
  <2> QED
    BY <2>2
<1>8. \A i \in 1..(n - 1) : i \in DOMAIN F
  BY <1>2
<1>9. FramesRight(c, K, G)
  <2>1. 1 \in DOMAIN G => G[1].net \in c.outputs
    BY <1>1, <1>7, <1>8 DEF FramesRight
  <2>2. \A i \in DOMAIN G : FrameRight(c, K, G[i])
    BY <1>1, <1>7, <1>8 DEF FramesRight
  <2>3. \A i \in DOMAIN G : i + 1 \in DOMAIN G => G[i].rest # <<>> /\ G[i].rest[1] = G[i + 1].net
    BY <1>1, <1>7, <1>8 DEF FramesRight
  <2>4. \A i, j \in DOMAIN G : G[i].net = G[j].net => i = j
    BY <1>1, <1>7, <1>8 DEF FramesRight
  <2> QED
    BY <1>7, <2>1, <2>2, <2>3, <2>4 DEF FramesRight
<1>10. CacheRight(c, K, G)
  <2> SUFFICES ASSUME NEW x \in DOMAIN K
               PROVE  /\ x \in GateNets(c)
                      /\ (\A i \in DOMAIN G : G[i].net # x) =>
                            K[x] = InputsBelow(c, c.nets[x].input)
    BY DEF CacheRight
  <2>1. x \in GateNets(c) /\ ((\A i \in DOMAIN F : F[i].net # x) =>
                                  K[x] = InputsBelow(c, c.nets[x].input))
    BY <1>1 DEF CacheRight
  <2>2. (\A i \in DOMAIN G : G[i].net # x) => x = top.net \/ \A i \in DOMAIN F : F[i].net # x
    <3>1. \A i \in DOMAIN F : i = n \/ i \in 1..(n - 1)
      BY <1>2
    <3> QED
      BY <1>7, <3>1
  <2> QED
    BY <1>4, <2>1, <2>2
<1> QED
  BY <1>1, <1>2, <1>4, <1>5, <1>9, <1>10 DEF StateRight, G, n, top

-------------------------------------------------------------------------------
(***************************************************************************)
(* The specification: getOutputSupport on a circuit that the confirmations *)
(* between its calls leave alone.                                          *)
(***************************************************************************)
SignRight ==
    /\ SupportRight
    /\ DOMAIN circuit = Slots
    /\ step \in Nat
    /\ job # <<>> => job[1] \in {"PosUnate", "NegUnate", "NESymmetry", "ESymmetry", "SVSymmetry"}

\* The nets that construct takes for inputs and outputs.
LEMMA SidesOf ==
    ASSUME NEW d, IsDesign(d)
    PROVE  Construct(d).outputs = NetsOf(d.types, "output")
<1> DEFINE made == Construct(d)
<1>1. PICK g : Constructed(d, g, made)
  BY ConstructMakes
<1>2. made = [node |-> made.node, nets |-> made.nets, inputs |-> NetsOf(d.types, "input"),
              outputs |-> NetsOf(d.types, "output"), lazy |-> <<>>]
  <2> HIDE DEF made
  <2> QED
    BY <1>1 DEF Constructed
<1> HIDE DEF made
<1>3. made.outputs = NetsOf(d.types, "output")
  BY <1>2
<1> QED
  BY <1>3 DEF made

LEMMA SignInitRight == SignInit => SignRight
<1> SUFFICES ASSUME SignInit
             PROVE  SignRight
  OBVIOUS
<1>1. cache = <<>> /\ frames = <<>> /\ result = <<>> /\ job = <<>> /\ step = 0
  BY DEF SignInit, SupportInit, CircuitInit, ConfirmInit
<1>2. DOMAIN circuit = Slots /\ IsCircuit(circuit[subject])
  <2>1. cir \in Slots
    BY SlotsAssumption
  <2>2. CASE ConfirmInit
    <3>1. PICK design \in Designs : \E po \in NetsOf(design.types, "output") :
             circuit = [s \in Slots |-> IF s = cir THEN ConeOf(Construct(design), po) ELSE NoCircuit]
      BY <2>2 DEF ConfirmInit
    <3>2. PICK po \in NetsOf(design.types, "output") :
             circuit = [s \in Slots |-> IF s = cir THEN ConeOf(Construct(design), po) ELSE NoCircuit]
      BY <3>1
    <3>3. IsCircuit(Construct(design)) /\ po \in Construct(design).outputs
      BY DesignsAssumption, ConstructRight, SidesOf
    <3>4. IsCircuit(ConeOf(Construct(design), po))
      BY <3>3, ConeIsCircuit
    <3> QED
      BY <2>1, <3>2, <3>4, SubjectIsCir
  <2>3. CASE ~ConfirmInit
    <3>1. PICK design \in WholeDesigns :
             circuit = [s \in Slots |-> IF s = cir THEN Construct(design) ELSE NoCircuit]
      BY <2>3 DEF SignInit, CircuitInit
    <3>2. IsCircuit(Construct(design))
      BY WholeDesignsAssumption, ConstructRight
    <3> QED
      BY <2>1, <3>1, <3>2, SubjectIsCir
  <2> QED
    BY <2>2, <2>3
<1>3. frames \in Seq(Frames(circuit[subject])) /\ DOMAIN frames = {} /\ DOMAIN cache = {}
      /\ DOMAIN result = {}
  BY <1>1
<1> QED
  BY <1>1, <1>2, <1>3
  DEF SignRight, SupportRight, StateRight, FramesRight, CacheRight, ResultRight

\* A call in a script is for a copy, or for the miter.
LEMMA ScriptOf ==
    ASSUME NEW j, j[1] \in {"PosUnate", "NegUnate", "NESymmetry", "ESymmetry", "SVSymmetry"},
           NEW k \in 1..Len(Script(j)), Script(j)[k][1] \in {"copy", "stuck", "invert"}
    PROVE  Script(j)[k][2] \in {cofactor1, cofactor2}
<1>1. CASE j[1] = "PosUnate"
  BY <1>1 DEF Script
<1>2. CASE j[1] = "NegUnate"
  BY <1>2 DEF Script
<1>3. CASE j[1] = "NESymmetry"
  BY <1>3 DEF Script
<1>4. CASE j[1] = "ESymmetry"
  BY <1>4 DEF Script
<1>5. CASE j[1] = "SVSymmetry"
  BY <1>5 DEF Script
<1> QED
  BY <1>1, <1>2, <1>3, <1>4, <1>5

\* The confirmations leave the circuit alone.
LEMMA ConfirmsKeep ==
    ASSUME SignRight, Confirms
    PROVE  SignRight'
<1> DEFINE kinds == {"PosUnate", "NegUnate", "NESymmetry", "ESymmetry", "SVSymmetry"}
<1>1. /\ DOMAIN circuit = Slots /\ step \in Nat /\ (job # <<>> => job[1] \in kinds)
      /\ ConfirmNext
  BY DEF SignRight, Confirms
<1>2. ASSUME NEW t \in Slots, t # cir, NEW d, circuit' = [circuit EXCEPT ![t] = d]
      PROVE  DOMAIN circuit' = Slots /\ circuit'[cir] = circuit[cir]
  BY <1>1, <1>2, SlotsAssumption
<1>3. cofactor1 # cir /\ cofactor2 # cir /\ miter # cir /\ {cofactor1, cofactor2, miter} \subseteq Slots
  BY SlotsAssumption DEF cir, cofactor1, cofactor2, miter
<1>4. ASSUME NEW kind \in {"copy", "stuck", "invert"}, IsNext(kind)
      PROVE  /\ Argument(2) \in Slots /\ Argument(2) # cir
             /\ step' \in Nat /\ job' = job
  <2>1. step + 1 \in 1..Len(Script(job)) /\ Script(job)[step + 1][1] \in {"copy", "stuck", "invert"}
    BY <1>1, <1>4 DEF IsNext
  <2>2. Argument(2) \in {cofactor1, cofactor2}
    BY <1>1, <1>4, <2>1, ScriptOf DEF IsNext, Argument
  <2> QED
    BY <1>1, <1>3, <1>4, <2>2 DEF IsNext
<1>5. /\ DOMAIN circuit' = Slots /\ circuit'[cir] = circuit[cir]
      /\ step' \in Nat /\ (job' # <<>> => job'[1] \in kinds)
  <2>1. CASE Begin
    <3>1. job'[1] \in kinds
      BY <2>1 DEF Begin, Jobs
    <3> QED
      BY <1>1, <2>1, <3>1 DEF Begin, vars
  <2>2. CASE CopyCone
    BY <1>1, <1>2, <1>4, <2>2 DEF CopyCone, Copy, Put
  <2>3. CASE StuckCofactor
    BY <1>1, <1>2, <1>4, <2>3 DEF StuckCofactor, StuckInputOf, Put
  <2>4. CASE InvertCofactor
    BY <1>1, <1>2, <1>4, <2>4 DEF InvertCofactor, InvertOutputOf, Put
  <2>5. CASE MakeMiter
    BY <1>1, <1>2, <1>3, <2>5 DEF MakeMiter, IsNext, GetMiter, Put
  <2>6. CASE Check
    BY <1>1, <2>6 DEF Check, vars
  <2>7. CASE DeleteOne
    BY <1>1, <1>2, <2>7 DEF DeleteOne, Delete, Held
  <2>8. CASE End
    BY <1>1, <2>8 DEF End, vars
  <2> QED
    BY <1>1, <2>1, <2>2, <2>3, <2>4, <2>5, <2>6, <2>7, <2>8 DEF ConfirmNext
<1> QED
  BY <1>5, SubjectIsCir DEF SignRight, SupportRight, Confirms

\* What the names the innermost call comes to can be.
LEMMA KindOf ==
    ASSUME SupportRight, frames # <<>>, Top.rest # <<>>
    PROVE  LET c == circuit[subject]
               x == frames[Len(frames)].rest[1]
           IN  /\ Top = frames[Len(frames)] /\ NextInput = x
               /\ TypeAt(x) = "constant" => x \in Constants
               /\ TypeAt(x) = "input" => x \in c.inputs
               /\ TypeAt(x) \in {"default", "output"} => x \in GateNets(c)
<1> DEFINE c == circuit[subject]
           n == Len(frames)
           x == frames[n].rest[1]
<1>1. IsCircuit(c) /\ FramesRight(c, cache, frames)
  BY DEF SupportRight, StateRight
<1>2. Top = frames[n]
  BY DEF Top, Last
<1>3. /\ Top \in Frames(c) /\ FrameRight(c, cache, Top)
      /\ Top.rest \in Seq(DOMAIN c.nets \cup Constants)
  BY <1>1, <1>2, AtTop
<1>4. NextInput = x
  BY <1>2, <1>3 DEF NextInput
<1> DEFINE names == NamesAt(c, Top.net)
           p == Past(c, Top)
<1>5. p + 1 \in DOMAIN names /\ x = names[p + 1]
  <2> HIDE DEF c
  <2> QED
    BY <1>1, <1>2, <1>3, AtName
<1>6. x \in Constants \/ x \in c.inputs \/ x \in GateNets(c)
  <2>1. Top.net \in GateNets(c)
    BY <1>3 DEF FrameRight
  <2> HIDE DEF c, p
  <2> QED
    BY <1>1, <1>5, <2>1, NamesRead
<1>7. TypeAt(x) = IF x \in Constants THEN "constant" ELSE c.nets[x].type
  BY DEF TypeAt, Constants
<1> HIDE DEF c, x, n
<1>8. x \in c.inputs => x \notin Constants /\ c.nets[x].type = "input"
  BY <1>1 DEF IsCircuit, HasParts, IsName, Constants
<1>9. x \in GateNets(c) =>
         /\ x \notin Constants /\ x \notin c.inputs
         /\ c.nets[x].type \notin {"input", "constant"}
  <2> SUFFICES ASSUME x \in GateNets(c)
               PROVE  /\ x \notin Constants /\ x \notin c.inputs
                      /\ c.nets[x].type \notin {"input", "constant"}
    OBVIOUS
  <2>1. x \in DOMAIN c.nets /\ c.nets[x].input \in Gates(c)
    BY DEF GateNets
  <2>2. x \notin c.inputs
    BY <1>1, <2>1, InputNet DEF Gates, ServiceNodes
  <2> QED
    BY <1>1, <2>1, <2>2 DEF IsCircuit, HasParts, IsName, Constants
<1>10. /\ Top = frames[n] /\ NextInput = x
       /\ TypeAt(x) = "constant" => x \in Constants
       /\ TypeAt(x) = "input" => x \in c.inputs
       /\ TypeAt(x) \in {"default", "output"} => x \in GateNets(c)
  BY <1>2, <1>4, <1>6, <1>7, <1>8, <1>9
<1> QED
  BY <1>10 DEF c, x, n

\* An output gets its entry in the result.
LEMMA Reported ==
    ASSUME NEW c, ResultRight(c, result), NEW po, po \in c.outputs, Report(po),
           cache[po] = InputsBelow(c, c.nets[po].input)
    PROVE  ResultRight(c, result')
BY DEF ResultRight, Report

LEMMA SupportStepRight ==
    ASSUME SupportRight, SupportNext
    PROVE  SupportRight'
<1> DEFINE c == circuit[subject]
           n == Len(frames)
<1>1. /\ StateRight(c, cache, frames, result) /\ IsCircuit(c) /\ FramesRight(c, cache, frames)
      /\ CacheRight(c, cache, frames) /\ ResultRight(c, result)
  BY DEF SupportRight, StateRight
<1>2. circuit' = circuit
  BY DEF SupportNext, SupportStep, NextOutput, TakeInput, SkipConstant, Descend, AddSupport,
         Return, CallAgain, vars
<1>3. SupportRight' <=> StateRight(c, cache', frames', result')
  BY <1>2 DEF SupportRight
<1>4. ASSUME NEW o \in GateNets(c), o \notin DOMAIN cache, Enter(o), result' = result,
             \/ frames = <<>> /\ o \in c.outputs
             \/ frames # <<>> /\ frames[n].rest # <<>> /\ frames[n].rest[1] = o
      PROVE  StateRight(c, cache', frames', result')
  <2>1. o \in DOMAIN c.nets
    BY <1>4 DEF GateNets
  <2>2. NetInput(c.nets, o) = c.nets[o].input
    BY <1>1, <2>1, PointerOf DEF IsCircuit, HasParts, IsName
  <2>3. frames' = Append(frames, [net |-> o, rest |-> NamesAt(c, o)])
    BY <1>4, <2>2 DEF Enter, Frame, NamesAt
  <2>4. /\ DOMAIN cache' = DOMAIN cache \cup {o} /\ cache'[o] = {}
        /\ \A x \in DOMAIN cache : cache'[x] = cache[x]
    BY <1>4 DEF Enter
  <2> HIDE DEF c, n
  <2>5. StateRight(c, cache', Append(frames, [net |-> o, rest |-> NamesAt(c, o)]), result)
    BY <1>1, <1>4, <2>4, EnterRight DEF n
  <2> QED
    BY <1>4, <2>3, <2>5
<1>5. ASSUME frames # <<>>, frames[n].rest # <<>>, frames' = StepOver, result' = result,
             DOMAIN cache' = DOMAIN cache,
             \A x \in DOMAIN cache :
                 cache'[x] = IF x = frames[n].net
                             THEN cache[x] \cup Adds(c, frames[n].rest[1]) ELSE cache[x]
      PROVE  StateRight(c, cache', frames', result')
  <2>1. frames' = [frames EXCEPT ![Len(frames)].rest = Tail(@)]
    BY <1>5 DEF StepOver
  <2> HIDE DEF c
  <2>2. StateRight(c, cache', [frames EXCEPT ![Len(frames)].rest = Tail(@)], result)
    BY <1>1, <1>5, PassRight
  <2> QED
    BY <1>5, <2>1, <2>2
<1> DEFINE x == frames[n].rest[1]
           at == frames # <<>> /\ Top.rest # <<>>
<1>6. at => /\ Top = frames[n] /\ NextInput = x
            /\ TypeAt(x) = "constant" => x \in Constants
            /\ TypeAt(x) = "input" => x \in c.inputs
            /\ TypeAt(x) \in {"default", "output"} => x \in GateNets(c)
  BY KindOf
<1>7. at => frames[n].net \in DOMAIN cache
  <2> SUFFICES ASSUME at
               PROVE  frames[n].net \in DOMAIN cache
    OBVIOUS
  <2> HIDE DEF c
  <2> QED
    BY <1>1, AtTop DEF FrameRight
<1>8. CASE NextOutput
  <2>1. PICK po \in outputs \ DOMAIN result :
           IF po \in DOMAIN cache
           THEN Report(po) /\ UNCHANGED <<cache, frames>>
           ELSE Enter(po) /\ UNCHANGED result
    BY <1>8 DEF NextOutput
  <2>2. po \in c.outputs /\ po \in GateNets(c) /\ frames = <<>>
    BY <1>1, <1>8, OutputNet DEF NextOutput, outputs, GateNets
  <2>3. CASE po \notin DOMAIN cache
    <3>1. Enter(po) /\ result' = result
      BY <2>1, <2>3
    <3> HIDE DEF c, n
    <3>2. StateRight(c, cache', frames', result')
      BY <1>4, <2>2, <2>3, <3>1
    <3> QED
      BY <1>3, <3>2 DEF c
  <2>4. CASE po \in DOMAIN cache
    <3>1. cache[po] = InputsBelow(c, c.nets[po].input)
      BY <1>1, <2>2, <2>4 DEF CacheRight
    <3>2. Report(po) /\ cache' = cache /\ frames' = frames
      BY <2>1, <2>4
    <3>3. ResultRight(c, result')
      BY <1>1, <2>2, <3>1, <3>2, Reported
    <3> QED
      BY <1>1, <1>3, <3>2, <3>3 DEF StateRight
  <2> QED
    BY <2>3, <2>4
<1>9. CASE TakeInput
  <2>1. at /\ TypeAt(x) = "input" /\ cache' = [cache EXCEPT ![frames[n].net] = @ \cup {x}]
        /\ frames' = StepOver /\ result' = result
    BY <1>6, <1>9 DEF TakeInput, AtInput
  <2>2. Adds(c, x) = {x}
    BY <1>1, <1>6, <2>1, AddedBy
  <2>3. frames[n].rest # <<>> /\ frames # <<>>
    BY <1>6, <2>1
  <2> HIDE DEF c, n
  <2>4. StateRight(c, cache', frames', result')
    BY <1>5, <1>7, <2>1, <2>2, <2>3
  <2> QED
    BY <1>3, <2>4 DEF c
<1>10. CASE SkipConstant
  <2>1. at /\ TypeAt(x) = "constant" /\ cache' = cache
        /\ frames' = StepOver /\ result' = result
    BY <1>6, <1>10 DEF SkipConstant, AtInput
  <2>2. Adds(c, x) = {}
    BY <1>1, <1>6, <2>1, AddedBy
  <2>3. frames[n].rest # <<>> /\ frames # <<>>
    BY <1>6, <2>1
  <2> HIDE DEF c, n
  <2>4. StateRight(c, cache', frames', result')
    BY <1>5, <2>1, <2>2, <2>3
  <2> QED
    BY <1>3, <2>4 DEF c
<1>11. CASE Descend
  <2>1. /\ at /\ TypeAt(x) \in {"default", "output"} /\ x \notin DOMAIN cache
        /\ Enter(x) /\ result' = result
    BY <1>6, <1>11 DEF Descend, AtInput
  <2>2. frames # <<>> /\ frames[n].rest # <<>> /\ frames[n].rest[1] = x /\ x \in GateNets(c)
    BY <1>6, <2>1
  <2> HIDE DEF c, n, x
  <2>3. StateRight(c, cache', frames', result')
    BY <1>4, <2>1, <2>2
  <2> QED
    BY <1>3, <2>3 DEF c
<1>12. CASE AddSupport
  <2>1. /\ at /\ TypeAt(x) \in {"default", "output"} /\ x \in DOMAIN cache
        /\ cache' = [cache EXCEPT ![frames[n].net] = @ \cup cache[x]]
        /\ frames' = StepOver /\ result' = result
    BY <1>6, <1>12 DEF AddSupport, AtInput
  <2>2. frames # <<>> /\ frames[n].rest # <<>> /\ x \in GateNets(c)
    BY <1>6, <2>1
  <2>3. \A i \in DOMAIN frames : frames[i].net # x
    <3> HIDE DEF c
    <3> QED
      BY <1>1, <2>2, NotUnderWay
  <2>4. cache[x] = InputsBelow(c, c.nets[x].input)
    BY <1>1, <2>1, <2>3 DEF CacheRight
  <2>5. Adds(c, x) = cache[x]
    BY <1>1, <2>2, <2>4, AddedBy
  <2> HIDE DEF c, n
  <2>6. StateRight(c, cache', frames', result')
    BY <1>5, <1>7, <2>1, <2>2, <2>5
  <2> QED
    BY <1>3, <2>6 DEF c
<1>13. CASE Return
  <2>1. /\ frames # <<>> /\ frames[n].rest = <<>> /\ Top = frames[n]
        /\ cache' = cache /\ frames' = Front(frames)
    BY <1>13 DEF Return, Top, Last
  <2>2. (n > 1 => result' = result) /\ (~(n > 1) => Report(frames[n].net))
    BY <1>13, <2>1 DEF Return
  <2>3. /\ cache[frames[n].net] = InputsBelow(c, c.nets[frames[n].net].input)
        /\ n \in Nat /\ (n <= 1 => frames[n].net \in c.outputs)
        /\ StateRight(c, cache, Front(frames), result)
    <3> HIDE DEF c
    <3> QED
      BY <1>1, <2>1, ReturnRight
  <2>4. ResultRight(c, result')
    <3>1. CASE n > 1
      BY <1>1, <2>2, <3>1
    <3>2. CASE ~(n > 1)
      <4>1. frames[n].net \in c.outputs /\ Report(frames[n].net)
        BY <2>2, <2>3, <3>2
      <4> QED
        BY <1>1, <2>3, <4>1, Reported
    <3> QED
      BY <3>1, <3>2
  <2> QED
    BY <1>3, <2>1, <2>3, <2>4 DEF StateRight
<1>14. CASE CallAgain
  <2>1. cache' = <<>> /\ result' = <<>> /\ frames' = <<>>
    BY <1>14 DEF CallAgain, SupportReported
  <2>2. frames' \in Seq(Frames(c)) /\ DOMAIN frames' = {} /\ DOMAIN cache' = {}
        /\ DOMAIN result' = {}
    BY <2>1
  <2>3. FramesRight(c, cache', frames') /\ CacheRight(c, cache', frames') /\ ResultRight(c, result')
    BY <2>2 DEF FramesRight, CacheRight, ResultRight
  <2> QED
    BY <1>1, <1>3, <2>3 DEF StateRight
<1> QED
  BY <1>8, <1>9, <1>10, <1>11, <1>12, <1>13, <1>14 DEF SupportNext, SupportStep

LEMMA SignNextRight ==
    ASSUME SignRight, [Supports \/ Confirms]_allVars
    PROVE  SignRight'
<1>1. CASE Supports
  <2>1. SupportNext /\ job' = job /\ step' = step
    BY <1>1 DEF Supports
  <2>2. circuit' = circuit
    BY <2>1 DEF SupportNext, SupportStep, NextOutput, TakeInput, SkipConstant, Descend,
                AddSupport, Return, CallAgain, vars
  <2>3. SupportRight'
    BY <2>1, SupportStepRight DEF SignRight
  <2> QED
    BY <2>1, <2>2, <2>3 DEF SignRight
<1>2. CASE Confirms
  BY <1>2, ConfirmsKeep
<1>3. CASE UNCHANGED allVars
  BY <1>3 DEF allVars, confirmVars, vars, SignRight, SupportRight
<1> QED
  BY <1>1, <1>2, <1>3

\* The support that getOutputSupport reports for an output, from a cache that it
\* fills while the calls that read it are under way, is the set of inputs of the
\* cone that getCone makes of the output.
THEOREM SupportsAreOfCones == SignSpec => []SupportIsOfCone
<1>1. SignInit => SignRight
  BY SignInitRight
<1>2. SignRight /\ [Supports \/ Confirms]_allVars => SignRight'
  BY SignNextRight
<1>3. SignRight => SupportIsOfCone
  <2> SUFFICES ASSUME SignRight, NEW po \in DOMAIN result
               PROVE  result[po] = ConeOf(circuit[subject], po).inputs
    BY DEF SupportIsOfCone
  <2> DEFINE c == circuit[subject]
  <2>1. IsCircuit(c) /\ po \in c.outputs /\ result[po] = InputsBelow(c, c.nets[po].input)
    BY DEF SignRight, SupportRight, StateRight, ResultRight
  <2>2. ConeOf(c, po).inputs = InputsBelow(c, c.nets[po].input)
    <3> HIDE DEF c
    <3> QED
      BY <2>1, ConeInputs
  <2> QED
    BY <2>1, <2>2
<1> QED
  BY <1>1, <1>2, <1>3, PTL DEF SignSpec

-------------------------------------------------------------------------------
(***************************************************************************)
(* The cofactors that a confirmation makes.                                *)
(***************************************************************************)
\* What a copy, cofactors and inversions use are the functions that were there,
\* and inverters.
LEMMA CopyUses ==
    ASSUME NEW c, IsCircuit(c)
    PROVE  FunctionsUsed(CopyOf(c)) \subseteq FunctionsUsed(c)
<1> DEFINE d == [types |-> TypesOf(c), gates |-> GateList(c, Gates(c))]
<1>1. IsDesign(d) /\ CopyOf(c) = Construct(d)
  BY CopyDesign DEF CopyOf
<1>2. d.gates = GateList(c, Gates(c))
  OBVIOUS
<1>3. \A k \in DOMAIN d.gates : \E m \in Gates(c) : d.gates[k].function = c.node[m].function
  BY <1>2, ListOfGates
<1> HIDE DEF d
<1>4. \A n \in Gates(CopyOf(c)) : \E k \in DOMAIN d.gates :
         CopyOf(c).node[n].function = d.gates[k].function
  BY <1>1, ConstructParts DEF SameGate
<1> QED
  BY <1>3, <1>4 DEF FunctionsUsed

LEMMA StuckUses ==
    ASSUME NEW c, IsCircuit(c), NEW pi \in c.inputs, NEW value \in BOOLEAN
    PROVE  FunctionsUsed(StuckNetlist(c, pi, value)) \subseteq FunctionsUsed(c)
<1> DEFINE source == NetInput(c.nets, pi)
           node == Rewired(c, pi, ConstantNode(value), ConstantName(value))
           d == StuckNetlist(c, pi, value)
<1>1. d = [c EXCEPT !.inputs = c.inputs \ {pi},
                    !.node = [n \in DOMAIN node \ {source} |-> node[n]],
                    !.nets = [x \in DOMAIN c.nets \ {pi} |-> c.nets[x]],
                    !.lazy = [n \in DOMAIN c.lazy \ {source} |-> c.lazy[n]]]
  BY DEF StuckNetlist, Restrict
<1>2. c = [node |-> c.node, nets |-> c.nets, inputs |-> c.inputs, outputs |-> c.outputs,
           lazy |-> c.lazy]
  BY DEF IsCircuit, HasParts
<1>3. /\ DOMAIN node = DOMAIN c.node
      /\ \A n \in DOMAIN c.node :
            node[n].type = c.node[n].type /\ node[n].function = c.node[n].function
  BY RewiredRight
<1> HIDE DEF source, node, d
<1>4. d.node = [n \in DOMAIN node \ {source} |-> node[n]]
  BY <1>1, <1>2
<1>5. \A n \in Gates(d) : n \in Gates(c) /\ d.node[n].function = c.node[n].function
  BY <1>3, <1>4 DEF Gates
<1> QED
  BY <1>5 DEF FunctionsUsed, d

LEMMA InvertedUses ==
    ASSUME NEW c, IsCircuit(c), NEW po \in c.outputs
    PROVE  FunctionsUsed(InvertedOutput(c, po)) \subseteq FunctionsUsed(c) \cup {"NOT"}
<1> DEFINE inv == NextNode(c)
           source == c.nets[po].input
           new == NotName(po)
           bag == c.node[source].output (+) SetToBag({inv})
           nets == [c.nets EXCEPT ![po].type = "default"]
           node == [c.node EXCEPT ![source].output = bag]
           gate == GateNode("NOT", <<source>>, <<po>>, new)
           d == InvertedOutput(c, po)
<1>1. d = [c EXCEPT !.outputs = (c.outputs \ {po}) \cup {new},
                    !.nets = WithNet(nets, new, "output", inv),
                    !.node = WithNode(node, inv, gate)]
  BY DEF InvertedOutput
<1>2. HasParts(c)
  BY DEF IsCircuit
<1>3. c = [node |-> c.node, nets |-> c.nets, inputs |-> c.inputs, outputs |-> c.outputs,
           lazy |-> c.lazy]
  BY <1>2 DEF HasParts
<1>4. node = [c.node EXCEPT ![source] = [c.node[source] EXCEPT !.output = bag]]
  OBVIOUS
<1>5. gate.function = "NOT"
  BY DEF GateNode
<1> HIDE DEF source, inv, new, bag, nets, node, gate, d
<1>6. d.node = WithNode(node, inv, gate)
  BY <1>1, <1>3
<1>7. ASSUME NEW n \in Gates(d), n # inv
      PROVE  n \in Gates(c) /\ d.node[n].function = c.node[n].function
  <2>1. n \in DOMAIN c.node /\ d.node[n] = node[n] /\ d.node[n].type = "gate"
    BY <1>4, <1>6, <1>7 DEF WithNode, Gates
  <2>2. IsNode(c.node[n])
    BY <1>2, <2>1 DEF HasParts
  <2>3. node[n] = c.node[n] \/ node[n] = [c.node[n] EXCEPT !.output = bag]
    BY <1>4, <2>1
  <2>4. node[n].type = c.node[n].type /\ node[n].function = c.node[n].function
    BY <2>2, <2>3 DEF IsNode
  <2> QED
    BY <2>1, <2>4 DEF Gates
<1>8. d.node[inv].function = "NOT"
  BY <1>5, <1>6 DEF WithNode
<1> QED
  BY <1>7, <1>8 DEF FunctionsUsed, d

\* d is what is left of c, which has the output po, when some inputs have the
\* value TRUE and some FALSE, and its output is inverted or is not.
OutputLeft(po, inverted) == IF inverted THEN NotName(po) ELSE po

ValueLeft(c, po, ones, inverted, vec) ==
    IF inverted THEN vec \cup ones \notin FunctionsOf(c).outs[po]
    ELSE vec \cup ones \in FunctionsOf(c).outs[po]

IsCofactor(c, d, po, ones, zeros, inverted) ==
    /\ IsCircuit(d) /\ LazyRight(d)
    /\ FunctionsUsed(d) \subseteq FunctionsUsed(c) \cup {"NOT"}
    /\ d.inputs = c.inputs \ (ones \cup zeros)
    /\ d.outputs = {OutputLeft(po, inverted)}
    /\ \A vec \in SUBSET d.inputs :
          vec \in FunctionsOf(d).outs[OutputLeft(po, inverted)] <=>
              ValueLeft(c, po, ones, inverted, vec)

LEMMA CopyCofactor ==
    ASSUME NEW c, IsCircuit(c), NEW po, c.outputs = {po}
    PROVE  IsCofactor(c, CopyOf(c), po, {}, {}, FALSE)
<1> DEFINE d == CopyOf(c)
<1>1. IsCircuit(d) /\ FunctionsOf(d) = FunctionsOf(c) /\ d.lazy = <<>>
  BY CopyFunctions, CopyDesign, ConstructRight DEF CopyOf
<1>2. FunctionsUsed(d) \subseteq FunctionsUsed(c)
  BY CopyUses
<1>3. \A e : FunctionsOf(e).ins = e.inputs /\ DOMAIN FunctionsOf(e).outs = e.outputs
  BY FunctionsShape
<1> HIDE DEF d
<1>4. d.inputs = c.inputs /\ d.outputs = {po} /\ OutputLeft(po, FALSE) = po
  BY <1>1, <1>3 DEF OutputLeft
<1>5. LazyRight(d)
  BY <1>1 DEF LazyRight
<1>6. \A vec : vec \cup {} = vec
  OBVIOUS
<1>7. c.inputs \ ({} \cup {}) = c.inputs
  OBVIOUS
<1>8. \A vec : vec \in FunctionsOf(d).outs[po] <=> vec \cup {} \in FunctionsOf(c).outs[po]
  BY <1>1, <1>6
<1> QED
  BY <1>1, <1>2, <1>4, <1>5, <1>7, <1>8 DEF IsCofactor, ValueLeft, d

LEMMA StuckIsCofactor ==
    ASSUME NEW c, NEW d, NEW po, NEW ones, NEW zeros, NEW inverted, NEW pi, NEW value,
           NEW ones2, NEW zeros2,
           inverted \in BOOLEAN, IsCofactor(c, d, po, ones, zeros, inverted),
           pi \in d.inputs, value \in BOOLEAN,
           ones2 = IF value THEN ones \cup {pi} ELSE ones,
           zeros2 = IF value THEN zeros ELSE zeros \cup {pi}
    PROVE  IsCofactor(c, StuckNetlist(d, pi, value), po, ones2, zeros2, inverted)
<1> DEFINE e == StuckNetlist(d, pi, value)
           out == OutputLeft(po, inverted)
           F == FunctionsOf(c).outs[po]
<1>1. /\ IsCircuit(d) /\ LazyRight(d)
      /\ FunctionsUsed(d) \subseteq FunctionsUsed(c) \cup {"NOT"}
      /\ d.inputs = c.inputs \ (ones \cup zeros)
      /\ d.outputs = {out}
      /\ \A vec \in SUBSET d.inputs :
            vec \in FunctionsOf(d).outs[out] <=>
                IF inverted THEN vec \cup ones \notin F ELSE vec \cup ones \in F
  BY DEF IsCofactor, ValueLeft
<1>2. /\ e.inputs = d.inputs \ {pi} /\ e.outputs = d.outputs /\ LazyRight(e)
      /\ \A q \in d.outputs : \A vec \in SUBSET (d.inputs \ {pi}) :
            vec \in FunctionsOf(e).outs[q] <=>
                (IF value THEN vec \cup {pi} ELSE vec) \in FunctionsOf(d).outs[q]
  BY <1>1, StuckFunctions
<1>3. IsCircuit(e) /\ FunctionsUsed(e) \subseteq FunctionsUsed(d)
  BY <1>1, StuckIsCircuit, StuckUses
<1> HIDE DEF e, out, F
<1>4. e.inputs = c.inputs \ (ones2 \cup zeros2)
  BY <1>1, <1>2
<1>5. ASSUME NEW vec \in SUBSET e.inputs
      PROVE  vec \in FunctionsOf(e).outs[out] <=>
                IF inverted THEN vec \cup ones2 \notin F ELSE vec \cup ones2 \in F
  <2> DEFINE more == IF value THEN vec \cup {pi} ELSE vec
  <2>1. more \in SUBSET d.inputs /\ more \cup ones = vec \cup ones2
    BY <1>2
  <2>2. vec \in FunctionsOf(e).outs[out] <=> more \in FunctionsOf(d).outs[out]
    BY <1>1, <1>2
  <2> HIDE DEF more
  <2> QED
    BY <1>1, <2>1, <2>2
<1>6. IsCofactor(c, e, po, ones2, zeros2, inverted)
  BY <1>1, <1>2, <1>3, <1>4, <1>5 DEF IsCofactor, ValueLeft, out, F
<1> QED
  BY <1>6 DEF e

LEMMA InvertedIsCofactor ==
    ASSUME NEW c, NEW d, NEW po, NEW ones, NEW zeros,
           IsCofactor(c, d, po, ones, zeros, FALSE), NotName(po) \notin DOMAIN d.nets
    PROVE  IsCofactor(c, InvertedOutput(d, po), po, ones, zeros, TRUE)
<1> DEFINE e == InvertedOutput(d, po)
           F == FunctionsOf(c).outs[po]
<1>1. OutputLeft(po, FALSE) = po /\ OutputLeft(po, TRUE) = NotName(po)
  BY DEF OutputLeft
<1>2. /\ IsCircuit(d) /\ LazyRight(d)
      /\ FunctionsUsed(d) \subseteq FunctionsUsed(c) \cup {"NOT"}
      /\ d.inputs = c.inputs \ (ones \cup zeros) /\ d.outputs = {po}
      /\ \A vec \in SUBSET d.inputs : vec \in FunctionsOf(d).outs[po] <=> vec \cup ones \in F
  BY <1>1 DEF IsCofactor, ValueLeft
<1>3. /\ e.inputs = d.inputs /\ e.outputs = (d.outputs \ {po}) \cup {NotName(po)} /\ LazyRight(e)
      /\ \A vec \in SUBSET d.inputs :
            vec \in FunctionsOf(e).outs[NotName(po)] <=> vec \notin FunctionsOf(d).outs[po]
  BY <1>2, InvertedOutputFunctions
<1>4. IsCircuit(e) /\ FunctionsUsed(e) \subseteq FunctionsUsed(d) \cup {"NOT"}
  BY <1>2, InvertedOutputIsCircuit, InvertedUses
<1> HIDE DEF e, F
<1>5. e.outputs = {NotName(po)}
  BY <1>2, <1>3
<1>6. FunctionsUsed(e) \subseteq FunctionsUsed(c) \cup {"NOT"}
  BY <1>2, <1>4
<1>7. \A vec \in SUBSET e.inputs :
         vec \in FunctionsOf(e).outs[NotName(po)] <=> vec \cup ones \notin F
  BY <1>2, <1>3
<1>8. IsCofactor(c, e, po, ones, zeros, TRUE)
  BY <1>1, <1>2, <1>3, <1>4, <1>5, <1>6, <1>7 DEF IsCofactor, ValueLeft, F
<1> QED
  BY <1>8 DEF e

LEMMA MiterUses ==
    ASSUME NEW c1, IsCircuit(c1), c1.outputs # {},
           NEW c2, IsCircuit(c2), c2.outputs # {}, NEW function
    PROVE  FunctionsUsed(MiterOf(c1, c2, function)) \subseteq
               FunctionsUsed(c1) \cup FunctionsUsed(c2) \cup {function}
<1> DEFINE e == MiterOf(c1, c2, function)
<1>1. PICK d : IsMiterDesign(c1, c2, function, TheOutput(c1), TheOutput(c2), d)
  BY MiterDesign
<1>2. /\ IsDesign(d) /\ e = Construct(d)
      /\ \A k \in DOMAIN d.gates :
            d.gates[k].function \in FunctionsUsed(c1) \cup FunctionsUsed(c2) \cup {function}
  BY <1>1 DEF IsMiterDesign
<1> HIDE DEF e
<1>3. \A n \in Gates(e) : \E k \in DOMAIN d.gates : e.node[n].function = d.gates[k].function
  BY <1>2, ConstructParts DEF SameGate
<1> HIDE DEF FunctionsUsed
<1>4. \A n \in Gates(e) :
         e.node[n].function \in FunctionsUsed(c1) \cup FunctionsUsed(c2) \cup {function}
  BY <1>2, <1>3
<1> QED
  BY <1>4 DEF FunctionsUsed, e

\* That v says whether one of two outputs, or the other, is never true with it.
Judges(v, c1, po1, c2, po2, function) ==
    v = "unsat" <=>
        \A vec \in SUBSET c1.inputs :
            IF function = "AND"
            THEN ~(vec \in FunctionsOf(c1).outs[po1] /\ vec \in FunctionsOf(c2).outs[po2])
            ELSE vec \in FunctionsOf(c1).outs[po1] <=> vec \in FunctionsOf(c2).outs[po2]

\* What the checker says of a miter of two circuits, if no gate is a CUT.
LEMMA VerdictOf ==
    ASSUME NEW c1, NEW po1, NEW c2, NEW po2, NEW function, NEW v,
           IsCircuit(c1), c1.outputs = {po1}, "CUT" \notin FunctionsUsed(c1),
           IsCircuit(c2), c2.outputs = {po2}, "CUT" \notin FunctionsUsed(c2),
           c2.inputs = c1.inputs, function \in {"AND", "XOR"},
           v \in Verdicts(MiterOf(c1, c2, function))
    PROVE  Judges(v, c1, po1, c2, po2, function)
<1> DEFINE m == MiterOf(c1, c2, function)
           out == MiterName(po1, po2)
           F1 == FunctionsOf(c1).outs[po1]
           F2 == FunctionsOf(c2).outs[po2]
           f == [ins |-> c1.inputs, on |-> F1]
           g == [ins |-> c2.inputs, on |-> F2]
           made == IF function = "AND" THEN MiterAnd(f, g) ELSE MiterXor(f, g)
<1>1. IsCircuit(m)
  BY MiterIsCircuit
<1>2. FunctionsOf(m) = [ins |-> made.ins, outs |-> [r \in {out} |-> made.on]]
  BY MiterFunctions
<1>3. "CUT" \notin FunctionsUsed(m)
  BY MiterUses
<1>4. m.outputs = {out} /\ FunctionsOf(m).outs[out] = made.on
  <2>1. DOMAIN FunctionsOf(m).outs = m.outputs
    BY FunctionsShape
  <2> HIDE DEF m, out, made
  <2> QED
    BY <1>2, <2>1
<1>5. made.on = {vec \in SUBSET c1.inputs :
                    IF function = "AND" THEN vec \in F1 /\ vec \in F2
                    ELSE (vec \in F1) # (vec \in F2)}
  <2>1. \A vec \in SUBSET c1.inputs : vec \cap c1.inputs = vec
    OBVIOUS
  <2>2. MiterInputs(f, g) = c1.inputs
    BY DEF MiterInputs
  <2> HIDE DEF F1, F2
  <2>3. CASE function = "AND"
    BY <2>1, <2>2, <2>3 DEF MiterAnd, EvalOutput
  <2>4. CASE function = "XOR"
    BY <2>1, <2>2, <2>4 DEF MiterXor, EvalOutput
  <2> QED
    BY <2>3, <2>4
<1>6. Verdicts(m) = {IF made.on = {} THEN "unsat" ELSE "sat"}
  <2>1. ~\E n \in Gates(m) : m.node[n].function = "CUT"
    BY <1>3 DEF FunctionsUsed
  <2>2. FunctionsOf(CopyOf(m)) = FunctionsOf(m)
    BY <1>1, CopyFunctions
  <2> HIDE DEF m, made
  <2>3. Verdicts(m) = {IF FunctionsOf(CopyOf(m)).outs[po] = {} THEN "unsat" ELSE "sat" :
                          po \in m.outputs}
    BY <2>1 DEF Verdicts
  <2> QED
    BY <1>4, <2>2, <2>3
<1>7. v = "unsat" <=> made.on = {}
  <2> HIDE DEF m, made
  <2>1. v \in Verdicts(m)
    BY DEF m
  <2> QED
    BY <1>6, <2>1
<1> HIDE DEF made, F1, F2
<1>8. made.on = {} <=>
         \A vec \in SUBSET c1.inputs :
             IF function = "AND" THEN ~(vec \in F1 /\ vec \in F2) ELSE vec \in F1 <=> vec \in F2
  BY <1>5
<1> QED
  BY <1>7, <1>8 DEF F1, F2, Judges

LEMMA CofactorVerdict ==
    ASSUME NEW c, "CUT" \notin FunctionsUsed(c), NEW po,
           NEW d1, NEW ones1, NEW zeros1, NEW inv1 \in BOOLEAN,
           IsCofactor(c, d1, po, ones1, zeros1, inv1),
           NEW d2, NEW ones2, NEW zeros2, NEW inv2 \in BOOLEAN,
           IsCofactor(c, d2, po, ones2, zeros2, inv2),
           ones1 \cup zeros1 = ones2 \cup zeros2,
           NEW function \in {"AND", "XOR"}, NEW v \in Verdicts(MiterOf(d1, d2, function))
    PROVE  v = "unsat" <=>
               \A vec \in SUBSET (c.inputs \ (ones1 \cup zeros1)) :
                   IF function = "AND"
                   THEN ~(ValueLeft(c, po, ones1, inv1, vec) /\ ValueLeft(c, po, ones2, inv2, vec))
                   ELSE ValueLeft(c, po, ones1, inv1, vec) <=> ValueLeft(c, po, ones2, inv2, vec)
<1> DEFINE q1 == OutputLeft(po, inv1)
           q2 == OutputLeft(po, inv2)
<1>1. /\ IsCircuit(d1) /\ d1.outputs = {q1} /\ "CUT" \notin FunctionsUsed(d1)
      /\ IsCircuit(d2) /\ d2.outputs = {q2} /\ "CUT" \notin FunctionsUsed(d2)
      /\ d2.inputs = d1.inputs /\ d1.inputs = c.inputs \ (ones1 \cup zeros1)
  BY DEF IsCofactor
<1>2. \A vec \in SUBSET d1.inputs :
         /\ vec \in FunctionsOf(d1).outs[q1] <=> ValueLeft(c, po, ones1, inv1, vec)
         /\ vec \in FunctionsOf(d2).outs[q2] <=> ValueLeft(c, po, ones2, inv2, vec)
  BY <1>1 DEF IsCofactor
<1> HIDE DEF q1, q2
<1>3. Judges(v, d1, q1, d2, q2, function)
  <2>1. v \in Verdicts(MiterOf(d1, d2, function)) /\ function \in {"AND", "XOR"}
    OBVIOUS
  <2> HIDE DEF IsCofactor
  <2> QED
    BY <1>1, <2>1, VerdictOf
<1> QED
  BY <1>1, <1>2, <1>3 DEF Judges

-------------------------------------------------------------------------------
(***************************************************************************)
(* The scripts.                                                            *)
(***************************************************************************)
\* The i-th call of a script is of this kind and for this slot; or it sets this
\* input to this value.
IsCall(S, i, kind, s) == S[i][1] = kind /\ S[i][2] = s
IsStuck(S, i, s, x, value) == IsCall(S, i, "stuck", s) /\ S[i][3] = x /\ S[i][4] = value

LEMMA PosUnateScript ==
    ASSUME NEW j, j[1] = "PosUnate"
    PROVE  LET S == Script(j)
           IN  /\ Len(S) = 6
               /\ IsCall(S, 1, "copy", cofactor1)
               /\ IsStuck(S, 2, cofactor1, j[2], FALSE)
               /\ IsCall(S, 3, "copy", cofactor2)
               /\ IsStuck(S, 4, cofactor2, j[2], TRUE)
               /\ IsCall(S, 5, "invert", cofactor2)
               /\ IsCall(S, 6, "miter", "AND")
BY DEF Script, IsCall, IsStuck

LEMMA NegUnateScript ==
    ASSUME NEW j, j[1] = "NegUnate"
    PROVE  LET S == Script(j)
           IN  /\ Len(S) = 6
               /\ IsCall(S, 1, "copy", cofactor1)
               /\ IsStuck(S, 2, cofactor1, j[2], FALSE)
               /\ IsCall(S, 3, "invert", cofactor1)
               /\ IsCall(S, 4, "copy", cofactor2)
               /\ IsStuck(S, 5, cofactor2, j[2], TRUE)
               /\ IsCall(S, 6, "miter", "AND")
BY DEF Script, IsCall, IsStuck

LEMMA NESymmetryScript ==
    ASSUME NEW j, j[1] = "NESymmetry"
    PROVE  LET S == Script(j)
           IN  /\ Len(S) = 7
               /\ IsCall(S, 1, "copy", cofactor1)
               /\ IsStuck(S, 2, cofactor1, j[2], FALSE)
               /\ IsStuck(S, 3, cofactor1, j[3], TRUE)
               /\ IsCall(S, 4, "copy", cofactor2)
               /\ IsStuck(S, 5, cofactor2, j[2], TRUE)
               /\ IsStuck(S, 6, cofactor2, j[3], FALSE)
               /\ IsCall(S, 7, "miter", "XOR")
BY DEF Script, IsCall, IsStuck

LEMMA SVSymmetryScript ==
    ASSUME NEW j, j[1] = "SVSymmetry"
    PROVE  LET S == Script(j)
           IN  /\ Len(S) = 7
               /\ IsCall(S, 1, "copy", cofactor1)
               /\ IsStuck(S, 2, cofactor1, j[2], TRUE)
               /\ IsStuck(S, 3, cofactor1, j[3], j[4])
               /\ IsCall(S, 4, "copy", cofactor2)
               /\ IsStuck(S, 5, cofactor2, j[2], FALSE)
               /\ IsStuck(S, 6, cofactor2, j[3], j[4])
               /\ IsCall(S, 7, "miter", "XOR")
BY DEF Script, IsCall, IsStuck

\* What the first k calls have done to the circuit in a slot.
IsCopied(S, k, s) == \E i \in 1..k : IsCall(S, i, "copy", s)
IsInverted(S, k, s) == \E i \in 1..k : IsCall(S, i, "invert", s)
FixedTo(S, k, s, value) ==
    {x \in {S[i][3] : i \in 1..k} : \E i \in 1..k : IsStuck(S, i, s, x, value)}

\* A circuit is copied before anything else is done to it; no input is set twice
\* and no output inverted twice; and the miter is made at last, of two copies.
InOrder(S, k, inputs) ==
    LET s == S[k][2]
    IN  \/ /\ S[k][1] = "copy" /\ k < Len(S) /\ s \in {cofactor1, cofactor2}
           /\ \A i \in 1..k - 1 : S[i][2] # s
        \/ /\ S[k][1] = "stuck" /\ k < Len(S) /\ s \in {cofactor1, cofactor2}
           /\ IsCopied(S, k - 1, s) /\ S[k][3] \in inputs /\ S[k][4] \in BOOLEAN
           /\ \A i \in 1..k - 1 : IsCall(S, i, "stuck", s) => S[i][3] # S[k][3]
        \/ /\ S[k][1] = "invert" /\ k < Len(S) /\ s \in {cofactor1, cofactor2}
           /\ IsCopied(S, k - 1, s) /\ ~IsInverted(S, k - 1, s)
        \/ /\ S[k][1] = "miter" /\ k = Len(S) /\ s \in {"AND", "XOR"}
           /\ IsCopied(S, k - 1, cofactor1) /\ IsCopied(S, k - 1, cofactor2)

\* What a confirmation is of.
IsJob(j, inputs) ==
    \/ j[1] \in {"PosUnate", "NegUnate"} /\ j[2] \in inputs
    \/ /\ j[1] \in {"NESymmetry", "SVSymmetry"}
       /\ j[2] \in inputs /\ j[3] \in inputs /\ j[2] # j[3]
       /\ j[1] = "SVSymmetry" => j[4] \in BOOLEAN

LEMMA StuckInOrder ==
    ASSUME NEW S, NEW k, NEW s, NEW x, NEW first, NEW inputs,
           IsCall(S, k, "stuck", s), S[k][3] = x, S[k][4] \in BOOLEAN,
           k < Len(S), s \in {cofactor1, cofactor2}, x \in inputs,
           first \in 1..k - 1, IsCall(S, first, "copy", s),
           \A i \in 1..k - 1 : IsCall(S, i, "stuck", s) => S[i][3] # x
    PROVE  InOrder(S, k, inputs)
<1>1. IsCopied(S, k - 1, s)
  BY DEF IsCopied
<1>2. S[k][1] = "stuck" /\ S[k][2] = s
  BY DEF IsCall
<1>3. /\ S[k][1] = "stuck" /\ k < Len(S) /\ S[k][2] \in {cofactor1, cofactor2}
      /\ IsCopied(S, k - 1, S[k][2]) /\ S[k][3] \in inputs /\ S[k][4] \in BOOLEAN
      /\ \A i \in 1..k - 1 : IsCall(S, i, "stuck", S[k][2]) => S[i][3] # S[k][3]
  BY <1>1, <1>2
<1> QED
  BY <1>3 DEF InOrder

LEMMA ScriptsInOrder ==
    ASSUME NEW j, NEW inputs, IsJob(j, inputs), NEW k \in 1..Len(Script(j))
    PROVE  InOrder(Script(j), k, inputs)
<1> DEFINE S == Script(j)
<1>1. cofactor1 # cofactor2 /\ cofactor1 \notin {"AND", "XOR"} /\ cofactor2 \notin {"AND", "XOR"}
  BY DEF cofactor1, cofactor2
<1>0. /\ \A i \in 1..0 : FALSE
      /\ \A i \in 1..1 : i = 1
      /\ \A i \in 1..2 : i = 1 \/ i = 2
      /\ \A i \in 1..3 : i = 1 \/ i = 2 \/ i = 3
      /\ \A i \in 1..4 : i = 1 \/ i = 2 \/ i = 3 \/ i = 4
      /\ \A i \in 1..5 : i = 1 \/ i = 2 \/ i = 3 \/ i = 4 \/ i = 5
  OBVIOUS
<1>2. CASE j[1] = "PosUnate"
  <2>1. /\ Len(S) = 6
        /\ IsCall(S, 1, "copy", cofactor1)
        /\ IsStuck(S, 2, cofactor1, j[2], FALSE)
        /\ IsCall(S, 3, "copy", cofactor2)
        /\ IsStuck(S, 4, cofactor2, j[2], TRUE)
        /\ IsCall(S, 5, "invert", cofactor2)
        /\ IsCall(S, 6, "miter", "AND")
    BY <1>2, PosUnateScript
  <2>2. j[2] \in inputs
    BY <1>2 DEF IsJob
  <2> HIDE DEF S
  <2>3. ASSUME k = 1
        PROVE  InOrder(S, k, inputs)
    BY <1>0, <1>1, <2>1, <2>2, <2>3 DEF InOrder, IsCall, IsStuck
  <2>4. ASSUME k = 2
        PROVE  InOrder(S, k, inputs)
    <3>1. IsCall(S, k, "stuck", cofactor1) /\ S[k][3] = j[2] /\ S[k][4] \in BOOLEAN
      BY <2>1, <2>2, <2>4 DEF IsStuck
    <3>2. \A i \in 1..k - 1 : IsCall(S, i, "stuck", cofactor1) => S[i][3] # j[2]
      BY <1>0, <1>1, <2>1, <2>2, <2>4 DEF IsCall, IsStuck
    <3>3. k < Len(S) /\ 1 \in 1..k - 1
      BY <2>1, <2>4
    <3> QED
      BY <2>1, <2>2, <3>1, <3>2, <3>3, StuckInOrder
  <2>5. ASSUME k = 3
        PROVE  InOrder(S, k, inputs)
    BY <1>0, <1>1, <2>1, <2>2, <2>5 DEF InOrder, IsCall, IsStuck
  <2>6. ASSUME k = 4
        PROVE  InOrder(S, k, inputs)
    <3>1. IsCall(S, k, "stuck", cofactor2) /\ S[k][3] = j[2] /\ S[k][4] \in BOOLEAN
      BY <2>1, <2>2, <2>6 DEF IsStuck
    <3>2. \A i \in 1..k - 1 : IsCall(S, i, "stuck", cofactor2) => S[i][3] # j[2]
      BY <1>0, <1>1, <2>1, <2>2, <2>6 DEF IsCall, IsStuck
    <3>3. k < Len(S) /\ 3 \in 1..k - 1
      BY <2>1, <2>6
    <3> QED
      BY <2>1, <2>2, <3>1, <3>2, <3>3, StuckInOrder
  <2>7. ASSUME k = 5
        PROVE  InOrder(S, k, inputs)
    BY <1>0, <1>1, <2>1, <2>2, <2>7 DEF InOrder, IsCopied, IsInverted, IsCall, IsStuck
  <2>8. ASSUME k = 6
        PROVE  InOrder(S, k, inputs)
    BY <1>0, <1>1, <2>1, <2>2, <2>8 DEF InOrder, IsCopied, IsCall, IsStuck
  <2> QED
    BY <2>1, <2>3, <2>4, <2>5, <2>6, <2>7, <2>8 DEF S
<1>3. CASE j[1] = "NegUnate"
  <2>1. /\ Len(S) = 6
        /\ IsCall(S, 1, "copy", cofactor1)
        /\ IsStuck(S, 2, cofactor1, j[2], FALSE)
        /\ IsCall(S, 3, "invert", cofactor1)
        /\ IsCall(S, 4, "copy", cofactor2)
        /\ IsStuck(S, 5, cofactor2, j[2], TRUE)
        /\ IsCall(S, 6, "miter", "AND")
    BY <1>3, NegUnateScript
  <2>2. j[2] \in inputs
    BY <1>3 DEF IsJob
  <2> HIDE DEF S
  <2>3. ASSUME k = 1
        PROVE  InOrder(S, k, inputs)
    BY <1>0, <1>1, <2>1, <2>2, <2>3 DEF InOrder, IsCall, IsStuck
  <2>4. ASSUME k = 2
        PROVE  InOrder(S, k, inputs)
    <3>1. IsCall(S, k, "stuck", cofactor1) /\ S[k][3] = j[2] /\ S[k][4] \in BOOLEAN
      BY <2>1, <2>2, <2>4 DEF IsStuck
    <3>2. \A i \in 1..k - 1 : IsCall(S, i, "stuck", cofactor1) => S[i][3] # j[2]
      BY <1>0, <1>1, <2>1, <2>2, <2>4 DEF IsCall, IsStuck
    <3>3. k < Len(S) /\ 1 \in 1..k - 1
      BY <2>1, <2>4
    <3> QED
      BY <2>1, <2>2, <3>1, <3>2, <3>3, StuckInOrder
  <2>5. ASSUME k = 3
        PROVE  InOrder(S, k, inputs)
    BY <1>0, <1>1, <2>1, <2>2, <2>5 DEF InOrder, IsCopied, IsInverted, IsCall, IsStuck
  <2>6. ASSUME k = 4
        PROVE  InOrder(S, k, inputs)
    BY <1>0, <1>1, <2>1, <2>2, <2>6 DEF InOrder, IsCall, IsStuck
  <2>7. ASSUME k = 5
        PROVE  InOrder(S, k, inputs)
    <3>1. IsCall(S, k, "stuck", cofactor2) /\ S[k][3] = j[2] /\ S[k][4] \in BOOLEAN
      BY <2>1, <2>2, <2>7 DEF IsStuck
    <3>2. \A i \in 1..k - 1 : IsCall(S, i, "stuck", cofactor2) => S[i][3] # j[2]
      BY <1>0, <1>1, <2>1, <2>2, <2>7 DEF IsCall, IsStuck
    <3>3. k < Len(S) /\ 4 \in 1..k - 1
      BY <2>1, <2>7
    <3> QED
      BY <2>1, <2>2, <3>1, <3>2, <3>3, StuckInOrder
  <2>8. ASSUME k = 6
        PROVE  InOrder(S, k, inputs)
    BY <1>0, <1>1, <2>1, <2>2, <2>8 DEF InOrder, IsCopied, IsCall, IsStuck
  <2> QED
    BY <2>1, <2>3, <2>4, <2>5, <2>6, <2>7, <2>8 DEF S
<1>4. CASE j[1] = "NESymmetry"
  <2>1. /\ Len(S) = 7
        /\ IsCall(S, 1, "copy", cofactor1)
        /\ IsStuck(S, 2, cofactor1, j[2], FALSE)
        /\ IsStuck(S, 3, cofactor1, j[3], TRUE)
        /\ IsCall(S, 4, "copy", cofactor2)
        /\ IsStuck(S, 5, cofactor2, j[2], TRUE)
        /\ IsStuck(S, 6, cofactor2, j[3], FALSE)
        /\ IsCall(S, 7, "miter", "XOR")
    BY <1>4, NESymmetryScript
  <2>2. j[2] \in inputs /\ j[3] \in inputs /\ j[2] # j[3]
    BY <1>4 DEF IsJob
  <2> HIDE DEF S
  <2>3. ASSUME k = 1
        PROVE  InOrder(S, k, inputs)
    BY <1>0, <1>1, <2>1, <2>2, <2>3 DEF InOrder, IsCall, IsStuck
  <2>4. ASSUME k = 2
        PROVE  InOrder(S, k, inputs)
    <3>1. IsCall(S, k, "stuck", cofactor1) /\ S[k][3] = j[2] /\ S[k][4] \in BOOLEAN
      BY <2>1, <2>2, <2>4 DEF IsStuck
    <3>2. \A i \in 1..k - 1 : IsCall(S, i, "stuck", cofactor1) => S[i][3] # j[2]
      BY <1>0, <1>1, <2>1, <2>2, <2>4 DEF IsCall, IsStuck
    <3>3. k < Len(S) /\ 1 \in 1..k - 1
      BY <2>1, <2>4
    <3> QED
      BY <2>1, <2>2, <3>1, <3>2, <3>3, StuckInOrder
  <2>5. ASSUME k = 3
        PROVE  InOrder(S, k, inputs)
    <3>1. IsCall(S, k, "stuck", cofactor1) /\ S[k][3] = j[3] /\ S[k][4] \in BOOLEAN
      BY <2>1, <2>2, <2>5 DEF IsStuck
    <3>2. \A i \in 1..k - 1 : IsCall(S, i, "stuck", cofactor1) => S[i][3] # j[3]
      BY <1>0, <1>1, <2>1, <2>2, <2>5 DEF IsCall, IsStuck
    <3>3. k < Len(S) /\ 1 \in 1..k - 1
      BY <2>1, <2>5
    <3> QED
      BY <2>1, <2>2, <3>1, <3>2, <3>3, StuckInOrder
  <2>6. ASSUME k = 4
        PROVE  InOrder(S, k, inputs)
    BY <1>0, <1>1, <2>1, <2>2, <2>6 DEF InOrder, IsCall, IsStuck
  <2>7. ASSUME k = 5
        PROVE  InOrder(S, k, inputs)
    <3>1. IsCall(S, k, "stuck", cofactor2) /\ S[k][3] = j[2] /\ S[k][4] \in BOOLEAN
      BY <2>1, <2>2, <2>7 DEF IsStuck
    <3>2. \A i \in 1..k - 1 : IsCall(S, i, "stuck", cofactor2) => S[i][3] # j[2]
      BY <1>0, <1>1, <2>1, <2>2, <2>7 DEF IsCall, IsStuck
    <3>3. k < Len(S) /\ 4 \in 1..k - 1
      BY <2>1, <2>7
    <3> QED
      BY <2>1, <2>2, <3>1, <3>2, <3>3, StuckInOrder
  <2>8. ASSUME k = 6
        PROVE  InOrder(S, k, inputs)
    <3>1. IsCall(S, k, "stuck", cofactor2) /\ S[k][3] = j[3] /\ S[k][4] \in BOOLEAN
      BY <2>1, <2>2, <2>8 DEF IsStuck
    <3>2. \A i \in 1..k - 1 : IsCall(S, i, "stuck", cofactor2) => S[i][3] # j[3]
      BY <1>0, <1>1, <2>1, <2>2, <2>8 DEF IsCall, IsStuck
    <3>3. k < Len(S) /\ 4 \in 1..k - 1
      BY <2>1, <2>8
    <3> QED
      BY <2>1, <2>2, <3>1, <3>2, <3>3, StuckInOrder
  <2>9. ASSUME k = 7
        PROVE  InOrder(S, k, inputs)
    BY <1>0, <1>1, <2>1, <2>2, <2>9 DEF InOrder, IsCopied, IsCall, IsStuck
  <2> QED
    BY <2>1, <2>3, <2>4, <2>5, <2>6, <2>7, <2>8, <2>9 DEF S
<1>5. CASE j[1] = "SVSymmetry"
  <2>1. /\ Len(S) = 7
        /\ IsCall(S, 1, "copy", cofactor1)
        /\ IsStuck(S, 2, cofactor1, j[2], TRUE)
        /\ IsStuck(S, 3, cofactor1, j[3], j[4])
        /\ IsCall(S, 4, "copy", cofactor2)
        /\ IsStuck(S, 5, cofactor2, j[2], FALSE)
        /\ IsStuck(S, 6, cofactor2, j[3], j[4])
        /\ IsCall(S, 7, "miter", "XOR")
    BY <1>5, SVSymmetryScript
  <2>2. j[2] \in inputs /\ j[3] \in inputs /\ j[2] # j[3] /\ j[4] \in BOOLEAN
    BY <1>5 DEF IsJob
  <2> HIDE DEF S
  <2>3. ASSUME k = 1
        PROVE  InOrder(S, k, inputs)
    BY <1>0, <1>1, <2>1, <2>2, <2>3 DEF InOrder, IsCall, IsStuck
  <2>4. ASSUME k = 2
        PROVE  InOrder(S, k, inputs)
    <3>1. IsCall(S, k, "stuck", cofactor1) /\ S[k][3] = j[2] /\ S[k][4] \in BOOLEAN
      BY <2>1, <2>2, <2>4 DEF IsStuck
    <3>2. \A i \in 1..k - 1 : IsCall(S, i, "stuck", cofactor1) => S[i][3] # j[2]
      BY <1>0, <1>1, <2>1, <2>2, <2>4 DEF IsCall, IsStuck
    <3>3. k < Len(S) /\ 1 \in 1..k - 1
      BY <2>1, <2>4
    <3> QED
      BY <2>1, <2>2, <3>1, <3>2, <3>3, StuckInOrder
  <2>5. ASSUME k = 3
        PROVE  InOrder(S, k, inputs)
    <3>1. IsCall(S, k, "stuck", cofactor1) /\ S[k][3] = j[3] /\ S[k][4] \in BOOLEAN
      BY <2>1, <2>2, <2>5 DEF IsStuck
    <3>2. \A i \in 1..k - 1 : IsCall(S, i, "stuck", cofactor1) => S[i][3] # j[3]
      BY <1>0, <1>1, <2>1, <2>2, <2>5 DEF IsCall, IsStuck
    <3>3. k < Len(S) /\ 1 \in 1..k - 1
      BY <2>1, <2>5
    <3> QED
      BY <2>1, <2>2, <3>1, <3>2, <3>3, StuckInOrder
  <2>6. ASSUME k = 4
        PROVE  InOrder(S, k, inputs)
    BY <1>0, <1>1, <2>1, <2>2, <2>6 DEF InOrder, IsCall, IsStuck
  <2>7. ASSUME k = 5
        PROVE  InOrder(S, k, inputs)
    <3>1. IsCall(S, k, "stuck", cofactor2) /\ S[k][3] = j[2] /\ S[k][4] \in BOOLEAN
      BY <2>1, <2>2, <2>7 DEF IsStuck
    <3>2. \A i \in 1..k - 1 : IsCall(S, i, "stuck", cofactor2) => S[i][3] # j[2]
      BY <1>0, <1>1, <2>1, <2>2, <2>7 DEF IsCall, IsStuck
    <3>3. k < Len(S) /\ 4 \in 1..k - 1
      BY <2>1, <2>7
    <3> QED
      BY <2>1, <2>2, <3>1, <3>2, <3>3, StuckInOrder
  <2>8. ASSUME k = 6
        PROVE  InOrder(S, k, inputs)
    <3>1. IsCall(S, k, "stuck", cofactor2) /\ S[k][3] = j[3] /\ S[k][4] \in BOOLEAN
      BY <2>1, <2>2, <2>8 DEF IsStuck
    <3>2. \A i \in 1..k - 1 : IsCall(S, i, "stuck", cofactor2) => S[i][3] # j[3]
      BY <1>0, <1>1, <2>1, <2>2, <2>8 DEF IsCall, IsStuck
    <3>3. k < Len(S) /\ 4 \in 1..k - 1
      BY <2>1, <2>8
    <3> QED
      BY <2>1, <2>2, <3>1, <3>2, <3>3, StuckInOrder
  <2>9. ASSUME k = 7
        PROVE  InOrder(S, k, inputs)
    BY <1>0, <1>1, <2>1, <2>2, <2>9 DEF InOrder, IsCopied, IsCall, IsStuck
  <2> QED
    BY <2>1, <2>3, <2>4, <2>5, <2>6, <2>7, <2>8, <2>9 DEF S
<1> QED
  BY <1>2, <1>3, <1>4, <1>5 DEF IsJob

-------------------------------------------------------------------------------
(***************************************************************************)
(* A confirmation, call by call.                                           *)
(***************************************************************************)
\* What the first k calls have left in a slot: if it has a copy of c, the
\* cofactor that they say, of its output po.
Made(S, k, c, po, d, s) ==
    IsCopied(S, k, s) =>
        IsCofactor(c, d, po, FixedTo(S, k, s, TRUE), FixedTo(S, k, s, FALSE), IsInverted(S, k, s))

LEMMA FixedIn ==
    ASSUME NEW S, NEW k, NEW s, NEW value, NEW x
    PROVE  x \in FixedTo(S, k, s, value) <=> \E i \in 1..k : IsStuck(S, i, s, x, value)
BY DEF FixedTo, IsStuck

LEMMA OneMore ==
    ASSUME NEW k \in Nat
    PROVE  \A i : i \in 1..k + 1 <=> i \in 1..k \/ i = k + 1
OBVIOUS

\* A call for another slot changes nothing here.
LEMMA CallElsewhere ==
    ASSUME NEW S, NEW k \in Nat, NEW s, S[k + 1][2] # s
    PROVE  /\ IsCopied(S, k + 1, s) <=> IsCopied(S, k, s)
           /\ IsInverted(S, k + 1, s) <=> IsInverted(S, k, s)
           /\ \A value : FixedTo(S, k + 1, s, value) = FixedTo(S, k, s, value)
<1>1. \A i : i \in 1..k + 1 <=> i \in 1..k \/ i = k + 1
  BY OneMore
<1>2. \A kind : ~IsCall(S, k + 1, kind, s)
  BY DEF IsCall
<1>3. \A x, value : ~IsStuck(S, k + 1, s, x, value)
  BY <1>2 DEF IsStuck
<1>4. ASSUME NEW value
      PROVE  FixedTo(S, k + 1, s, value) = FixedTo(S, k, s, value)
  <2>1. \A x : x \in FixedTo(S, k + 1, s, value) <=> x \in FixedTo(S, k, s, value)
    BY <1>1, <1>3, FixedIn
  <2> QED
    BY <2>1
<1>5. IsCopied(S, k + 1, s) <=> IsCopied(S, k, s)
  BY <1>1, <1>2 DEF IsCopied
<1>6. IsInverted(S, k + 1, s) <=> IsInverted(S, k, s)
  BY <1>1, <1>2 DEF IsInverted
<1> QED
  BY <1>4, <1>5, <1>6

LEMMA CallCopies ==
    ASSUME NEW S, NEW k \in Nat, NEW s, IsCall(S, k + 1, "copy", s), \A i \in 1..k : S[i][2] # s
    PROVE  /\ ~IsInverted(S, k + 1, s)
           /\ \A value : FixedTo(S, k + 1, s, value) = {}
<1>1. \A i : i \in 1..k + 1 <=> i \in 1..k \/ i = k + 1
  BY OneMore
<1>2. \A i \in 1..k + 1 : ~IsCall(S, i, "invert", s) /\ ~IsCall(S, i, "stuck", s)
  BY <1>1 DEF IsCall
<1>3. \A value, x : x \notin FixedTo(S, k + 1, s, value)
  BY <1>2, FixedIn DEF IsStuck
<1> QED
  BY <1>2, <1>3 DEF IsInverted

LEMMA CallFixes ==
    ASSUME NEW S, NEW k \in Nat, NEW s, NEW x, NEW b, IsStuck(S, k + 1, s, x, b)
    PROVE  /\ IsInverted(S, k + 1, s) <=> IsInverted(S, k, s)
           /\ FixedTo(S, k + 1, s, b) = FixedTo(S, k, s, b) \cup {x}
           /\ \A value : value # b => FixedTo(S, k + 1, s, value) = FixedTo(S, k, s, value)
<1>1. \A i : i \in 1..k + 1 <=> i \in 1..k \/ i = k + 1
  BY OneMore
<1>2. ~IsCall(S, k + 1, "invert", s)
  BY DEF IsStuck, IsCall
<1>3. \A y, value : IsStuck(S, k + 1, s, y, value) <=> y = x /\ value = b
  BY DEF IsStuck
<1>4. \A value, y : y \in FixedTo(S, k + 1, s, value) <=>
                       y \in FixedTo(S, k, s, value) \/ (y = x /\ value = b)
  BY <1>1, <1>3, FixedIn
<1>5. IsInverted(S, k + 1, s) <=> IsInverted(S, k, s)
  BY <1>1, <1>2 DEF IsInverted
<1>6. ASSUME NEW value, value # b
      PROVE  FixedTo(S, k + 1, s, value) = FixedTo(S, k, s, value)
  <2>1. \A y : y \in FixedTo(S, k + 1, s, value) <=> y \in FixedTo(S, k, s, value)
    BY <1>4, <1>6
  <2> QED
    BY <2>1
<1>7. FixedTo(S, k + 1, s, b) = FixedTo(S, k, s, b) \cup {x}
  <2>1. \A y : y \in FixedTo(S, k + 1, s, b) <=> y \in FixedTo(S, k, s, b) \cup {x}
    BY <1>4
  <2> QED
    BY <2>1
<1> QED
  BY <1>5, <1>6, <1>7

LEMMA CallInverts ==
    ASSUME NEW S, NEW k \in Nat, NEW s, IsCall(S, k + 1, "invert", s)
    PROVE  /\ IsInverted(S, k + 1, s)
           /\ \A value : FixedTo(S, k + 1, s, value) = FixedTo(S, k, s, value)
<1>1. \A i : i \in 1..k + 1 <=> i \in 1..k \/ i = k + 1
  BY OneMore
<1>2. \A x, value : ~IsStuck(S, k + 1, s, x, value)
  BY DEF IsStuck, IsCall
<1>3. \A value, y : y \in FixedTo(S, k + 1, s, value) <=> y \in FixedTo(S, k, s, value)
  BY <1>1, <1>2, FixedIn
<1> QED
  BY <1>1, <1>3 DEF IsInverted

LEMMA MadeElsewhere ==
    ASSUME NEW S, NEW k \in Nat, NEW s, NEW c, NEW po, NEW d, Made(S, k, c, po, d, s),
           S[k + 1][2] # s
    PROVE  Made(S, k + 1, c, po, d, s)
<1>1. /\ IsCopied(S, k + 1, s) <=> IsCopied(S, k, s)
      /\ IsInverted(S, k + 1, s) <=> IsInverted(S, k, s)
      /\ FixedTo(S, k + 1, s, TRUE) = FixedTo(S, k, s, TRUE)
      /\ FixedTo(S, k + 1, s, FALSE) = FixedTo(S, k, s, FALSE)
  BY CallElsewhere
<1>2. IsInverted(S, k, s) \in BOOLEAN /\ IsInverted(S, k + 1, s) \in BOOLEAN
  BY DEF IsInverted
<1>3. IsInverted(S, k + 1, s) = IsInverted(S, k, s)
  BY <1>1, <1>2
<1> QED
  BY <1>1, <1>3 DEF Made

LEMMA MadeByCopy ==
    ASSUME NEW S, NEW k \in Nat, NEW s, NEW c, NEW po, IsCircuit(c), c.outputs = {po},
           IsCall(S, k + 1, "copy", s), \A i \in 1..k : S[i][2] # s
    PROVE  Made(S, k + 1, c, po, CopyOf(c), s)
<1>1. /\ ~IsInverted(S, k + 1, s)
      /\ FixedTo(S, k + 1, s, TRUE) = {} /\ FixedTo(S, k + 1, s, FALSE) = {}
  BY CallCopies
<1>2. IsInverted(S, k + 1, s) = FALSE
  BY <1>1 DEF IsInverted
<1>3. IsCofactor(c, CopyOf(c), po, {}, {}, FALSE)
  BY CopyCofactor
<1> QED
  BY <1>1, <1>2, <1>3 DEF Made

LEMMA MadeByStuck ==
    ASSUME NEW S, NEW k \in Nat, NEW s, NEW c, NEW po, NEW d, Made(S, k, c, po, d, s),
           IsCopied(S, k, s), NEW x \in c.inputs, NEW b \in BOOLEAN, IsStuck(S, k + 1, s, x, b),
           \A i \in 1..k : IsCall(S, i, "stuck", s) => S[i][3] # x
    PROVE  Made(S, k + 1, c, po, StuckNetlist(d, x, b), s)
<1> DEFINE ones == FixedTo(S, k, s, TRUE)
           zeros == FixedTo(S, k, s, FALSE)
           inv == IsInverted(S, k, s)
           e == StuckNetlist(d, x, b)
<1>1. IsCofactor(c, d, po, ones, zeros, inv)
  BY DEF Made
<1>2. inv \in BOOLEAN /\ IsInverted(S, k + 1, s) \in BOOLEAN
  BY DEF IsInverted
<1>3. x \notin ones /\ x \notin zeros
  <2>1. \A value, i : i \in 1..k => ~IsStuck(S, i, s, x, value)
    BY DEF IsStuck
  <2> QED
    BY <2>1, FixedIn
<1>4. /\ IsInverted(S, k + 1, s) <=> inv
      /\ FixedTo(S, k + 1, s, b) = FixedTo(S, k, s, b) \cup {x}
      /\ \A value : value # b => FixedTo(S, k + 1, s, value) = FixedTo(S, k, s, value)
  BY CallFixes
<1>5. IsInverted(S, k + 1, s) = inv
  BY <1>2, <1>4
<1>6. IsCofactor(c, e, po, FixedTo(S, k + 1, s, TRUE), FixedTo(S, k + 1, s, FALSE), inv)
  <2>1. x \in d.inputs
    BY <1>1, <1>3 DEF IsCofactor
  <2>2. /\ FixedTo(S, k + 1, s, TRUE) = IF b THEN ones \cup {x} ELSE ones
        /\ FixedTo(S, k + 1, s, FALSE) = IF b THEN zeros ELSE zeros \cup {x}
    <3>1. CASE b = TRUE
      BY <1>4, <3>1
    <3>2. CASE b = FALSE
      BY <1>4, <3>2
    <3> QED
      BY <3>1, <3>2
  <2> DEFINE ones2 == FixedTo(S, k + 1, s, TRUE)
             zeros2 == FixedTo(S, k + 1, s, FALSE)
  <2>3. ones2 = (IF b THEN ones \cup {x} ELSE ones) /\ zeros2 = IF b THEN zeros ELSE zeros \cup {x}
    BY <2>2
  <2>4. b \in BOOLEAN
    OBVIOUS
  <2> HIDE DEF ones, zeros, inv, ones2, zeros2
  <2>5. IsCofactor(c, e, po, ones2, zeros2, inv)
    BY <1>1, <1>2, <2>1, <2>3, <2>4, StuckIsCofactor DEF e
  <2> QED
    BY <2>5 DEF ones2, zeros2
<1> QED
  BY <1>5, <1>6 DEF Made

LEMMA MadeByInvert ==
    ASSUME NEW S, NEW k \in Nat, NEW s, NEW c, NEW po, NEW d, Made(S, k, c, po, d, s),
           IsCopied(S, k, s), ~IsInverted(S, k, s), IsCall(S, k + 1, "invert", s),
           NotName(po) \notin DOMAIN d.nets
    PROVE  Made(S, k + 1, c, po, InvertedOutput(d, po), s)
<1>1. IsInverted(S, k, s) = FALSE
  BY DEF IsInverted
<1>2. /\ IsInverted(S, k + 1, s)
      /\ FixedTo(S, k + 1, s, TRUE) = FixedTo(S, k, s, TRUE)
      /\ FixedTo(S, k + 1, s, FALSE) = FixedTo(S, k, s, FALSE)
  BY CallInverts
<1>3. IsInverted(S, k + 1, s) = TRUE
  BY <1>2 DEF IsInverted
<1>4. IsCofactor(c, d, po, FixedTo(S, k, s, TRUE), FixedTo(S, k, s, FALSE), FALSE)
  BY <1>1 DEF Made
<1>5. IsCofactor(c, InvertedOutput(d, po), po, FixedTo(S, k, s, TRUE), FixedTo(S, k, s, FALSE), TRUE)
  BY <1>4, InvertedIsCofactor
<1>6. IsCofactor(c, InvertedOutput(d, po), po, FixedTo(S, k + 1, s, TRUE),
                 FixedTo(S, k + 1, s, FALSE), IsInverted(S, k + 1, s))
  BY <1>2, <1>3, <1>5
<1> QED
  BY <1>6 DEF Made

-------------------------------------------------------------------------------
(***************************************************************************)
(* What the verdict of a whole script is about.                            *)
(***************************************************************************)
\* The value of the output po of c for the inputs vec, in a slot after k calls.
ValueMade(S, k, c, po, s, vec) ==
    ValueLeft(c, po, FixedTo(S, k, s, TRUE), IsInverted(S, k, s), vec)

FixedBy(S, k, s) == FixedTo(S, k, s, TRUE) \cup FixedTo(S, k, s, FALSE)

Compared(function, p, q) == IF function = "AND" THEN ~(p /\ q) ELSE p <=> q

\* The verdict compares what is in the two slots.
LEMMA ScriptVerdict ==
    ASSUME NEW c, NEW po, NEW S, NEW n, NEW d1, NEW d2, NEW function, NEW v,
           "CUT" \notin FunctionsUsed(c),
           IsCopied(S, n, cofactor1), Made(S, n, c, po, d1, cofactor1),
           IsCopied(S, n, cofactor2), Made(S, n, c, po, d2, cofactor2),
           FixedBy(S, n, cofactor1) = FixedBy(S, n, cofactor2),
           function \in {"AND", "XOR"}, v \in Verdicts(MiterOf(d1, d2, function))
    PROVE  v = "unsat" <=>
               \A vec \in SUBSET (c.inputs \ FixedBy(S, n, cofactor1)) :
                   Compared(function, ValueMade(S, n, c, po, cofactor1, vec),
                            ValueMade(S, n, c, po, cofactor2, vec))
<1> DEFINE ones1 == FixedTo(S, n, cofactor1, TRUE)
           zeros1 == FixedTo(S, n, cofactor1, FALSE)
           inv1 == IsInverted(S, n, cofactor1)
           ones2 == FixedTo(S, n, cofactor2, TRUE)
           zeros2 == FixedTo(S, n, cofactor2, FALSE)
           inv2 == IsInverted(S, n, cofactor2)
<1>1. inv1 \in BOOLEAN /\ inv2 \in BOOLEAN
  BY DEF IsInverted
<1>2. IsCofactor(c, d1, po, ones1, zeros1, inv1) /\ IsCofactor(c, d2, po, ones2, zeros2, inv2)
  BY DEF Made
<1>3. ones1 \cup zeros1 = ones2 \cup zeros2
  BY DEF FixedBy
<1> HIDE DEF ones1, zeros1, inv1, ones2, zeros2, inv2
<1>4. v = "unsat" <=>
         \A vec \in SUBSET (c.inputs \ (ones1 \cup zeros1)) :
             IF function = "AND"
             THEN ~(ValueLeft(c, po, ones1, inv1, vec) /\ ValueLeft(c, po, ones2, inv2, vec))
             ELSE ValueLeft(c, po, ones1, inv1, vec) <=> ValueLeft(c, po, ones2, inv2, vec)
  BY <1>1, <1>2, <1>3, CofactorVerdict
<1> QED
  BY <1>4 DEF ones1, zeros1, inv1, ones2, zeros2, inv2, FixedBy, ValueMade, Compared

LEMMA FixesNone ==
    ASSUME NEW S, NEW n, NEW s, NEW value,
           \A i \in 1..n : \A x : ~IsStuck(S, i, s, x, value)
    PROVE  FixedTo(S, n, s, value) = {}
<1>1. \A x : x \notin FixedTo(S, n, s, value)
  BY FixedIn
<1> QED
  BY <1>1

LEMMA FixesOne ==
    ASSUME NEW S, NEW n, NEW s, NEW value, NEW p, NEW y, p \in 1..n, IsStuck(S, p, s, y, value),
           \A i \in 1..n : \A x : IsStuck(S, i, s, x, value) => x = y
    PROVE  FixedTo(S, n, s, value) = {y}
<1>1. \A x : x \in FixedTo(S, n, s, value) <=> x = y
  BY FixedIn
<1> QED
  BY <1>1

LEMMA FixesTwo ==
    ASSUME NEW S, NEW n, NEW s, NEW value, NEW p, NEW y, NEW q, NEW z,
           p \in 1..n, IsStuck(S, p, s, y, value), q \in 1..n, IsStuck(S, q, s, z, value),
           \A i \in 1..n : \A x : IsStuck(S, i, s, x, value) => x = y \/ x = z
    PROVE  FixedTo(S, n, s, value) = {y, z}
<1>1. \A x : x \in FixedTo(S, n, s, value) <=> x = y \/ x = z
  BY FixedIn
<1> QED
  BY <1>1

\* What the calls of each kind fix and invert.
LEMMA PosUnateFixes ==
    ASSUME NEW j, j[1] = "PosUnate"
    PROVE  LET S == Script(j)
           IN  /\ FixedTo(S, 6, cofactor1, TRUE) = {}
               /\ FixedTo(S, 6, cofactor1, FALSE) = {j[2]}
               /\ FixedTo(S, 6, cofactor2, TRUE) = {j[2]}
               /\ FixedTo(S, 6, cofactor2, FALSE) = {}
               /\ ~IsInverted(S, 6, cofactor1)
               /\ IsInverted(S, 6, cofactor2)
<1> DEFINE S == Script(j)
           yes == TRUE
           no == FALSE
<1>1. /\ IsCall(S, 1, "copy", cofactor1)
      /\ IsStuck(S, 2, cofactor1, j[2], no)
      /\ IsCall(S, 3, "copy", cofactor2)
      /\ IsStuck(S, 4, cofactor2, j[2], yes)
      /\ IsCall(S, 5, "invert", cofactor2)
      /\ IsCall(S, 6, "miter", "AND")
  BY PosUnateScript
<1>2. \A i : i \in 1..6 <=> i = 1 \/ i = 2 \/ i = 3 \/ i = 4 \/ i = 5 \/ i = 6
  OBVIOUS
<1>3. cofactor1 # cofactor2 /\ yes # no
  BY DEF cofactor1, cofactor2
<1> HIDE DEF S, yes, no
<1>4. \A i \in 1..6 : \A x, s, value : IsStuck(S, i, s, x, value) =>
         \/ s = cofactor1 /\ x = j[2] /\ value = no
         \/ s = cofactor2 /\ x = j[2] /\ value = yes
  BY <1>1, <1>2 DEF IsStuck, IsCall
<1>5. FixedTo(S, 6, cofactor1, yes) = {}
  <2>1. \A i \in 1..6 : \A x : ~IsStuck(S, i, cofactor1, x, yes)
    BY <1>3, <1>4
  <2> QED
    BY <2>1, FixesNone
<1>6. FixedTo(S, 6, cofactor1, no) = {j[2]}
  <2>1. \A i \in 1..6 : \A x : IsStuck(S, i, cofactor1, x, no) => x = j[2]
    BY <1>3, <1>4
  <2>2. 2 \in 1..6 /\ IsStuck(S, 2, cofactor1, j[2], no)
    BY <1>1
  <2> QED
    BY <2>1, <2>2, FixesOne
<1>7. FixedTo(S, 6, cofactor2, yes) = {j[2]}
  <2>1. \A i \in 1..6 : \A x : IsStuck(S, i, cofactor2, x, yes) => x = j[2]
    BY <1>3, <1>4
  <2>2. 4 \in 1..6 /\ IsStuck(S, 4, cofactor2, j[2], yes)
    BY <1>1
  <2> QED
    BY <2>1, <2>2, FixesOne
<1>8. FixedTo(S, 6, cofactor2, no) = {}
  <2>1. \A i \in 1..6 : \A x : ~IsStuck(S, i, cofactor2, x, no)
    BY <1>3, <1>4
  <2> QED
    BY <2>1, FixesNone
<1>9. ~IsInverted(S, 6, cofactor1) /\ IsInverted(S, 6, cofactor2)
  <2>1. \A i \in 1..6 : \A s : IsCall(S, i, "invert", s) => i = 5 /\ s = cofactor2
    BY <1>1, <1>2 DEF IsStuck, IsCall
  <2> QED
    BY <1>1, <1>2, <1>3, <2>1 DEF IsInverted
<1> QED
  BY <1>5, <1>6, <1>7, <1>8, <1>9 DEF S, yes, no

LEMMA NegUnateFixes ==
    ASSUME NEW j, j[1] = "NegUnate"
    PROVE  LET S == Script(j)
           IN  /\ FixedTo(S, 6, cofactor1, TRUE) = {}
               /\ FixedTo(S, 6, cofactor1, FALSE) = {j[2]}
               /\ FixedTo(S, 6, cofactor2, TRUE) = {j[2]}
               /\ FixedTo(S, 6, cofactor2, FALSE) = {}
               /\ IsInverted(S, 6, cofactor1)
               /\ ~IsInverted(S, 6, cofactor2)
<1> DEFINE S == Script(j)
           yes == TRUE
           no == FALSE
<1>1. /\ IsCall(S, 1, "copy", cofactor1)
      /\ IsStuck(S, 2, cofactor1, j[2], no)
      /\ IsCall(S, 3, "invert", cofactor1)
      /\ IsCall(S, 4, "copy", cofactor2)
      /\ IsStuck(S, 5, cofactor2, j[2], yes)
      /\ IsCall(S, 6, "miter", "AND")
  BY NegUnateScript
<1>2. \A i : i \in 1..6 <=> i = 1 \/ i = 2 \/ i = 3 \/ i = 4 \/ i = 5 \/ i = 6
  OBVIOUS
<1>3. cofactor1 # cofactor2 /\ yes # no
  BY DEF cofactor1, cofactor2
<1> HIDE DEF S, yes, no
<1>4. \A i \in 1..6 : \A x, s, value : IsStuck(S, i, s, x, value) =>
         \/ s = cofactor1 /\ x = j[2] /\ value = no
         \/ s = cofactor2 /\ x = j[2] /\ value = yes
  BY <1>1, <1>2 DEF IsStuck, IsCall
<1>5. FixedTo(S, 6, cofactor1, yes) = {}
  <2>1. \A i \in 1..6 : \A x : ~IsStuck(S, i, cofactor1, x, yes)
    BY <1>3, <1>4
  <2> QED
    BY <2>1, FixesNone
<1>6. FixedTo(S, 6, cofactor1, no) = {j[2]}
  <2>1. \A i \in 1..6 : \A x : IsStuck(S, i, cofactor1, x, no) => x = j[2]
    BY <1>3, <1>4
  <2>2. 2 \in 1..6 /\ IsStuck(S, 2, cofactor1, j[2], no)
    BY <1>1
  <2> QED
    BY <2>1, <2>2, FixesOne
<1>7. FixedTo(S, 6, cofactor2, yes) = {j[2]}
  <2>1. \A i \in 1..6 : \A x : IsStuck(S, i, cofactor2, x, yes) => x = j[2]
    BY <1>3, <1>4
  <2>2. 5 \in 1..6 /\ IsStuck(S, 5, cofactor2, j[2], yes)
    BY <1>1
  <2> QED
    BY <2>1, <2>2, FixesOne
<1>8. FixedTo(S, 6, cofactor2, no) = {}
  <2>1. \A i \in 1..6 : \A x : ~IsStuck(S, i, cofactor2, x, no)
    BY <1>3, <1>4
  <2> QED
    BY <2>1, FixesNone
<1>9. IsInverted(S, 6, cofactor1) /\ ~IsInverted(S, 6, cofactor2)
  <2>1. \A i \in 1..6 : \A s : IsCall(S, i, "invert", s) => i = 3 /\ s = cofactor1
    BY <1>1, <1>2 DEF IsStuck, IsCall
  <2> QED
    BY <1>1, <1>2, <1>3, <2>1 DEF IsInverted
<1> QED
  BY <1>5, <1>6, <1>7, <1>8, <1>9 DEF S, yes, no

LEMMA NESymmetryFixes ==
    ASSUME NEW j, j[1] = "NESymmetry"
    PROVE  LET S == Script(j)
           IN  /\ FixedTo(S, 7, cofactor1, TRUE) = {j[3]}
               /\ FixedTo(S, 7, cofactor1, FALSE) = {j[2]}
               /\ FixedTo(S, 7, cofactor2, TRUE) = {j[2]}
               /\ FixedTo(S, 7, cofactor2, FALSE) = {j[3]}
               /\ ~IsInverted(S, 7, cofactor1)
               /\ ~IsInverted(S, 7, cofactor2)
<1> DEFINE S == Script(j)
           yes == TRUE
           no == FALSE
<1>1. /\ IsCall(S, 1, "copy", cofactor1)
      /\ IsStuck(S, 2, cofactor1, j[2], no)
      /\ IsStuck(S, 3, cofactor1, j[3], yes)
      /\ IsCall(S, 4, "copy", cofactor2)
      /\ IsStuck(S, 5, cofactor2, j[2], yes)
      /\ IsStuck(S, 6, cofactor2, j[3], no)
      /\ IsCall(S, 7, "miter", "XOR")
  BY NESymmetryScript
<1>2. \A i : i \in 1..7 <=> i = 1 \/ i = 2 \/ i = 3 \/ i = 4 \/ i = 5 \/ i = 6 \/ i = 7
  OBVIOUS
<1>3. cofactor1 # cofactor2 /\ yes # no
  BY DEF cofactor1, cofactor2
<1> HIDE DEF S, yes, no
<1>4. \A i \in 1..7 : \A x, s, value : IsStuck(S, i, s, x, value) =>
         \/ s = cofactor1 /\ x = j[2] /\ value = no
         \/ s = cofactor1 /\ x = j[3] /\ value = yes
         \/ s = cofactor2 /\ x = j[2] /\ value = yes
         \/ s = cofactor2 /\ x = j[3] /\ value = no
  BY <1>1, <1>2 DEF IsStuck, IsCall
<1>5. FixedTo(S, 7, cofactor1, yes) = {j[3]}
  <2>1. \A i \in 1..7 : \A x : IsStuck(S, i, cofactor1, x, yes) => x = j[3]
    BY <1>3, <1>4
  <2>2. 3 \in 1..7 /\ IsStuck(S, 3, cofactor1, j[3], yes)
    BY <1>1
  <2> QED
    BY <2>1, <2>2, FixesOne
<1>6. FixedTo(S, 7, cofactor1, no) = {j[2]}
  <2>1. \A i \in 1..7 : \A x : IsStuck(S, i, cofactor1, x, no) => x = j[2]
    BY <1>3, <1>4
  <2>2. 2 \in 1..7 /\ IsStuck(S, 2, cofactor1, j[2], no)
    BY <1>1
  <2> QED
    BY <2>1, <2>2, FixesOne
<1>7. FixedTo(S, 7, cofactor2, yes) = {j[2]}
  <2>1. \A i \in 1..7 : \A x : IsStuck(S, i, cofactor2, x, yes) => x = j[2]
    BY <1>3, <1>4
  <2>2. 5 \in 1..7 /\ IsStuck(S, 5, cofactor2, j[2], yes)
    BY <1>1
  <2> QED
    BY <2>1, <2>2, FixesOne
<1>8. FixedTo(S, 7, cofactor2, no) = {j[3]}
  <2>1. \A i \in 1..7 : \A x : IsStuck(S, i, cofactor2, x, no) => x = j[3]
    BY <1>3, <1>4
  <2>2. 6 \in 1..7 /\ IsStuck(S, 6, cofactor2, j[3], no)
    BY <1>1
  <2> QED
    BY <2>1, <2>2, FixesOne
<1>9. ~IsInverted(S, 7, cofactor1) /\ ~IsInverted(S, 7, cofactor2)
  <2>1. \A i \in 1..7 : \A s : IsCall(S, i, "invert", s) => FALSE
    BY <1>1, <1>2 DEF IsStuck, IsCall
  <2> QED
    BY <1>1, <1>2, <1>3, <2>1 DEF IsInverted
<1> QED
  BY <1>5, <1>6, <1>7, <1>8, <1>9 DEF S, yes, no

LEMMA SVSymmetryFixes ==
    ASSUME NEW j, j[1] = "SVSymmetry", j[4] \in BOOLEAN
    PROVE  LET S == Script(j)
               more == IF j[4] THEN {j[3]} ELSE {}
           IN  /\ FixedTo(S, 7, cofactor1, TRUE) = {j[2]} \cup more
               /\ FixedTo(S, 7, cofactor2, TRUE) = more
               /\ FixedBy(S, 7, cofactor1) = {j[2], j[3]} /\ FixedBy(S, 7, cofactor2) = {j[2], j[3]}
               /\ ~IsInverted(S, 7, cofactor1) /\ ~IsInverted(S, 7, cofactor2)
<1> DEFINE S == Script(j)
           more == IF j[4] THEN {j[3]} ELSE {}
           yes == TRUE
           no == FALSE
           b == j[4]
<1>1. /\ IsCall(S, 1, "copy", cofactor1)
      /\ IsStuck(S, 2, cofactor1, j[2], yes)
      /\ IsStuck(S, 3, cofactor1, j[3], b)
      /\ IsCall(S, 4, "copy", cofactor2)
      /\ IsStuck(S, 5, cofactor2, j[2], no)
      /\ IsStuck(S, 6, cofactor2, j[3], b)
      /\ IsCall(S, 7, "miter", "XOR")
  BY SVSymmetryScript
<1>2. \A i : i \in 1..7 <=> i = 1 \/ i = 2 \/ i = 3 \/ i = 4 \/ i = 5 \/ i = 6 \/ i = 7
  OBVIOUS
<1>3. cofactor1 # cofactor2
  BY DEF cofactor1, cofactor2
<1>4. more = (IF b = yes THEN {j[3]} ELSE {}) /\ (b = yes \/ b = no) /\ yes # no
  OBVIOUS
<1> HIDE DEF S, yes, no, b, more
<1>5. \A i \in 1..7 : \A x, s, value : IsStuck(S, i, s, x, value) =>
         \/ s = cofactor1 /\ x = j[2] /\ value = yes
         \/ s = cofactor2 /\ x = j[2] /\ value = no
         \/ x = j[3] /\ value = b
  BY <1>1, <1>2 DEF IsStuck, IsCall
<1>6. \A x, value : x \in FixedTo(S, 7, cofactor1, value) <=>
         (x = j[2] /\ value = yes) \/ (x = j[3] /\ value = b)
  BY <1>1, <1>2, <1>3, <1>5, FixedIn
<1>7. \A x, value : x \in FixedTo(S, 7, cofactor2, value) <=>
         (x = j[2] /\ value = no) \/ (x = j[3] /\ value = b)
  BY <1>1, <1>2, <1>3, <1>5, FixedIn
<1>8. FixedTo(S, 7, cofactor1, yes) = {j[2]} \cup more
  <2>1. \A x : x \in FixedTo(S, 7, cofactor1, yes) <=> x = j[2] \/ x \in more
    BY <1>4, <1>6
  <2> QED
    BY <2>1
<1>9. FixedTo(S, 7, cofactor2, yes) = more
  <2>1. \A x : x \in FixedTo(S, 7, cofactor2, yes) <=> x \in more
    BY <1>4, <1>7
  <2> QED
    BY <2>1
<1>10. FixedTo(S, 7, cofactor1, yes) \cup FixedTo(S, 7, cofactor1, no) = {j[2], j[3]}
  <2>1. \A x : x \in FixedTo(S, 7, cofactor1, yes) \cup FixedTo(S, 7, cofactor1, no) <=>
                  x = j[2] \/ x = j[3]
    BY <1>4, <1>6
  <2> QED
    BY <2>1
<1>11. FixedTo(S, 7, cofactor2, yes) \cup FixedTo(S, 7, cofactor2, no) = {j[2], j[3]}
  <2>1. \A x : x \in FixedTo(S, 7, cofactor2, yes) \cup FixedTo(S, 7, cofactor2, no) <=>
                  x = j[2] \/ x = j[3]
    BY <1>4, <1>7
  <2> QED
    BY <2>1
<1>12. ~IsInverted(S, 7, cofactor1) /\ ~IsInverted(S, 7, cofactor2)
  BY <1>1, <1>2 DEF IsInverted, IsStuck, IsCall
<1> QED
  BY <1>8, <1>9, <1>10, <1>11, <1>12 DEF S, yes, no, b, more, FixedBy

\* A confirmation of j on c: the two circuits that its script has made, and the
\* verdict on their miter.
IsVerdict(v, j, c, po, d1, d2) ==
    LET S == Script(j)
        n == Len(S)
    IN  /\ IsCopied(S, n, cofactor1) /\ Made(S, n, c, po, d1, cofactor1)
        /\ IsCopied(S, n, cofactor2) /\ Made(S, n, c, po, d2, cofactor2)
        /\ v \in Verdicts(MiterOf(d1, d2, S[n][2]))

\* The function of an output of c.
FunctionAt(c, po) == [ins |-> FunctionsOf(c).ins, on |-> FunctionsOf(c).outs[po]]

LEMMA PosUnateVerdict ==
    ASSUME NEW c, NEW po, NEW j, NEW d1, NEW d2, NEW v, "CUT" \notin FunctionsUsed(c),
           j[1] = "PosUnate", IsJob(j, c.inputs), IsVerdict(v, j, c, po, d1, d2)
    PROVE  v = "unsat" <=> Holds(FunctionAt(c, po), j)
<1> DEFINE S == Script(j)
           F == FunctionsOf(c).outs[po]
<1>1. Len(S) = 6 /\ S[6][2] = "AND"
  BY PosUnateScript DEF IsCall
<1>2. /\ IsCopied(S, 6, cofactor1) /\ Made(S, 6, c, po, d1, cofactor1)
      /\ IsCopied(S, 6, cofactor2) /\ Made(S, 6, c, po, d2, cofactor2)
      /\ v \in Verdicts(MiterOf(d1, d2, "AND"))
  BY <1>1 DEF IsVerdict
<1>3. /\ FixedTo(S, 6, cofactor1, TRUE) = {} /\ FixedBy(S, 6, cofactor1) = {j[2]}
      /\ FixedTo(S, 6, cofactor2, TRUE) = {j[2]} /\ FixedBy(S, 6, cofactor2) = {j[2]}
      /\ ~IsInverted(S, 6, cofactor1) /\ IsInverted(S, 6, cofactor2)
  BY PosUnateFixes DEF FixedBy
<1>4. v = "unsat" <=>
         \A vec \in SUBSET (c.inputs \ FixedBy(S, 6, cofactor1)) :
             Compared("AND", ValueMade(S, 6, c, po, cofactor1, vec),
                      ValueMade(S, 6, c, po, cofactor2, vec))
  <2>1. "AND" \in {"AND", "XOR"}
    OBVIOUS
  <2>2. FixedBy(S, 6, cofactor1) = FixedBy(S, 6, cofactor2)
    BY <1>3 DEF FixedBy
  <2> HIDE DEF S
  <2> QED
    BY <1>2, <2>1, <2>2, ScriptVerdict
<1>5. \A vec : ValueMade(S, 6, c, po, cofactor1, vec) <=> vec \in F
  <2>1. \A vec : vec \cup {} = vec
    OBVIOUS
  <2> HIDE DEF S
  <2> QED
    BY <1>3, <2>1 DEF ValueMade, ValueLeft
<1>6. \A vec : ValueMade(S, 6, c, po, cofactor2, vec) <=> vec \cup {j[2]} \notin F
  <2> HIDE DEF S
  <2> QED
    BY <1>3 DEF ValueMade, ValueLeft
<1>7. Holds(FunctionAt(c, po), j) <=>
         \A vec \in SUBSET (c.inputs \ {j[2]}) : vec \in F => vec \cup {j[2]} \in F
  BY FunctionsShape DEF Holds, PosUnateIn, EvalOutput, FunctionAt
<1> HIDE DEF S, F
<1> QED
  BY <1>3, <1>4, <1>5, <1>6, <1>7 DEF Compared

LEMMA NegUnateVerdict ==
    ASSUME NEW c, NEW po, NEW j, NEW d1, NEW d2, NEW v, "CUT" \notin FunctionsUsed(c),
           j[1] = "NegUnate", IsJob(j, c.inputs), IsVerdict(v, j, c, po, d1, d2)
    PROVE  v = "unsat" <=> Holds(FunctionAt(c, po), j)
<1> DEFINE S == Script(j)
           F == FunctionsOf(c).outs[po]
<1>1. Len(S) = 6 /\ S[6][2] = "AND"
  BY NegUnateScript DEF IsCall
<1>2. /\ IsCopied(S, 6, cofactor1) /\ Made(S, 6, c, po, d1, cofactor1)
      /\ IsCopied(S, 6, cofactor2) /\ Made(S, 6, c, po, d2, cofactor2)
      /\ v \in Verdicts(MiterOf(d1, d2, "AND"))
  BY <1>1 DEF IsVerdict
<1>3. /\ FixedTo(S, 6, cofactor1, TRUE) = {} /\ FixedBy(S, 6, cofactor1) = {j[2]}
      /\ FixedTo(S, 6, cofactor2, TRUE) = {j[2]} /\ FixedBy(S, 6, cofactor2) = {j[2]}
      /\ IsInverted(S, 6, cofactor1) /\ ~IsInverted(S, 6, cofactor2)
  BY NegUnateFixes DEF FixedBy
<1>4. v = "unsat" <=>
         \A vec \in SUBSET (c.inputs \ FixedBy(S, 6, cofactor1)) :
             Compared("AND", ValueMade(S, 6, c, po, cofactor1, vec),
                      ValueMade(S, 6, c, po, cofactor2, vec))
  <2>1. "AND" \in {"AND", "XOR"}
    OBVIOUS
  <2>2. FixedBy(S, 6, cofactor1) = FixedBy(S, 6, cofactor2)
    BY <1>3 DEF FixedBy
  <2> HIDE DEF S
  <2> QED
    BY <1>2, <2>1, <2>2, ScriptVerdict
<1>5. \A vec : ValueMade(S, 6, c, po, cofactor1, vec) <=> vec \notin F
  <2>1. \A vec : vec \cup {} = vec
    OBVIOUS
  <2> HIDE DEF S
  <2> QED
    BY <1>3, <2>1 DEF ValueMade, ValueLeft
<1>6. \A vec : ValueMade(S, 6, c, po, cofactor2, vec) <=> vec \cup {j[2]} \in F
  <2> HIDE DEF S
  <2> QED
    BY <1>3 DEF ValueMade, ValueLeft
<1>7. Holds(FunctionAt(c, po), j) <=>
         \A vec \in SUBSET (c.inputs \ {j[2]}) : vec \cup {j[2]} \in F => vec \in F
  BY FunctionsShape DEF Holds, NegUnateIn, EvalOutput, FunctionAt
<1> HIDE DEF S, F
<1> QED
  BY <1>3, <1>4, <1>5, <1>6, <1>7 DEF Compared

LEMMA NESymmetryVerdict ==
    ASSUME NEW c, NEW po, NEW j, NEW d1, NEW d2, NEW v, "CUT" \notin FunctionsUsed(c),
           j[1] = "NESymmetry", IsJob(j, c.inputs), IsVerdict(v, j, c, po, d1, d2)
    PROVE  v = "unsat" <=> Holds(FunctionAt(c, po), j)
<1> DEFINE S == Script(j)
           F == FunctionsOf(c).outs[po]
<1>1. Len(S) = 7 /\ S[7][2] = "XOR"
  BY NESymmetryScript DEF IsCall
<1>2. /\ IsCopied(S, 7, cofactor1) /\ Made(S, 7, c, po, d1, cofactor1)
      /\ IsCopied(S, 7, cofactor2) /\ Made(S, 7, c, po, d2, cofactor2)
      /\ v \in Verdicts(MiterOf(d1, d2, "XOR"))
  BY <1>1 DEF IsVerdict
<1>3. /\ FixedTo(S, 7, cofactor1, TRUE) = {j[3]} /\ FixedBy(S, 7, cofactor1) = {j[2], j[3]}
      /\ FixedTo(S, 7, cofactor2, TRUE) = {j[2]} /\ FixedBy(S, 7, cofactor2) = {j[2], j[3]}
      /\ ~IsInverted(S, 7, cofactor1) /\ ~IsInverted(S, 7, cofactor2)
  BY NESymmetryFixes DEF FixedBy
<1>4. v = "unsat" <=>
         \A vec \in SUBSET (c.inputs \ FixedBy(S, 7, cofactor1)) :
             Compared("XOR", ValueMade(S, 7, c, po, cofactor1, vec),
                      ValueMade(S, 7, c, po, cofactor2, vec))
  <2>1. "XOR" \in {"AND", "XOR"}
    OBVIOUS
  <2>2. FixedBy(S, 7, cofactor1) = FixedBy(S, 7, cofactor2)
    BY <1>3 DEF FixedBy
  <2> HIDE DEF S
  <2> QED
    BY <1>2, <2>1, <2>2, ScriptVerdict
<1>5. \A vec : /\ ValueMade(S, 7, c, po, cofactor1, vec) <=> vec \cup {j[3]} \in F
               /\ ValueMade(S, 7, c, po, cofactor2, vec) <=> vec \cup {j[2]} \in F
  <2> HIDE DEF S
  <2> QED
    BY <1>3 DEF ValueMade, ValueLeft
<1>6. Holds(FunctionAt(c, po), j) <=>
         \A vec \in SUBSET (c.inputs \ {j[2], j[3]}) :
             vec \cup {j[2]} \in F <=> vec \cup {j[3]} \in F
  BY FunctionsShape DEF Holds, Exchangeable, EvalOutput, FunctionAt
<1> HIDE DEF S, F
<1> QED
  BY <1>3, <1>4, <1>5, <1>6 DEF Compared

LEMMA SVSymmetryVerdict ==
    ASSUME NEW c, NEW po, NEW j, NEW d1, NEW d2, NEW v, "CUT" \notin FunctionsUsed(c),
           j[1] = "SVSymmetry", IsJob(j, c.inputs), IsVerdict(v, j, c, po, d1, d2)
    PROVE  v = "unsat" <=> Holds(FunctionAt(c, po), j)
<1> DEFINE S == Script(j)
           F == FunctionsOf(c).outs[po]
<1>1. Len(S) = 7 /\ S[7][2] = "XOR"
  BY SVSymmetryScript DEF IsCall
<1>2. /\ IsCopied(S, 7, cofactor1) /\ Made(S, 7, c, po, d1, cofactor1)
      /\ IsCopied(S, 7, cofactor2) /\ Made(S, 7, c, po, d2, cofactor2)
      /\ v \in Verdicts(MiterOf(d1, d2, "XOR"))
  BY <1>1 DEF IsVerdict
<1> DEFINE more == IF j[4] THEN {j[3]} ELSE {}
<1>3. /\ FixedTo(S, 7, cofactor1, TRUE) = {j[2]} \cup more
      /\ FixedBy(S, 7, cofactor1) = {j[2], j[3]}
      /\ FixedTo(S, 7, cofactor2, TRUE) = more /\ FixedBy(S, 7, cofactor2) = {j[2], j[3]}
      /\ ~IsInverted(S, 7, cofactor1) /\ ~IsInverted(S, 7, cofactor2)
  BY SVSymmetryFixes DEF IsJob
<1>4. v = "unsat" <=>
         \A vec \in SUBSET (c.inputs \ FixedBy(S, 7, cofactor1)) :
             Compared("XOR", ValueMade(S, 7, c, po, cofactor1, vec),
                      ValueMade(S, 7, c, po, cofactor2, vec))
  <2>1. "XOR" \in {"AND", "XOR"}
    OBVIOUS
  <2>2. FixedBy(S, 7, cofactor1) = FixedBy(S, 7, cofactor2)
    BY <1>3 DEF FixedBy
  <2> HIDE DEF S
  <2> QED
    BY <1>2, <2>1, <2>2, ScriptVerdict
<1>5. \A vec : /\ ValueMade(S, 7, c, po, cofactor1, vec) <=> vec \cup ({j[2]} \cup more) \in F
               /\ ValueMade(S, 7, c, po, cofactor2, vec) <=> vec \cup more \in F
  <2> HIDE DEF S, more
  <2> QED
    BY <1>3 DEF ValueMade, ValueLeft
<1>6. j[2] \in c.inputs /\ j[3] \in c.inputs /\ j[2] # j[3] /\ j[4] \in BOOLEAN
  BY DEF IsJob
<1> DEFINE rest == c.inputs \ {j[2], j[3]}
           fixed == StuckInput(FunctionAt(c, po), j[3], j[4])
<1>7. /\ fixed.ins = c.inputs \ {j[3]}
      /\ \A vec \in SUBSET fixed.ins : EvalOutput(fixed, vec) <=> vec \cup more \in F
  <2>1. /\ FunctionAt(c, po).ins = c.inputs
        /\ \A vec : EvalOutput(FunctionAt(c, po), vec) <=> vec \in F
    BY FunctionsShape DEF FunctionAt, EvalOutput
  <2> DEFINE f == FunctionAt(c, po)
  <2> HIDE DEF f, F
  <2>2. fixed = [ins |-> c.inputs \ {j[3]},
                 on  |-> {vec \in SUBSET (c.inputs \ {j[3]}) :
                             EvalOutput(f, IF j[4] THEN vec \cup {j[3]} ELSE vec)}]
    BY <1>6, <2>1 DEF StuckInput, f
  <2>3. \A vec : (IF j[4] THEN vec \cup {j[3]} ELSE vec) = vec \cup more
    BY <1>6
  <2> HIDE DEF fixed, more
  <2>4. fixed.ins = c.inputs \ {j[3]}
    BY <2>2
  <2>5. ASSUME NEW vec \in SUBSET (c.inputs \ {j[3]})
        PROVE  EvalOutput(fixed, vec) <=> vec \cup more \in F
    BY <2>1, <2>2, <2>3 DEF EvalOutput, f
  <2> QED
    BY <2>4, <2>5
<1>8. Holds(FunctionAt(c, po), j) <=>
         \A vec \in SUBSET rest : vec \cup ({j[2]} \cup more) \in F <=> vec \cup more \in F
  <2>1. Holds(FunctionAt(c, po), j) <=> PosUnateIn(fixed, j[2]) /\ NegUnateIn(fixed, j[2])
    BY DEF Holds
  <2>2. fixed.ins \ {j[2]} = rest
    BY <1>7
  <2>3. ASSUME NEW vec \in SUBSET rest
        PROVE  /\ EvalOutput(fixed, vec) <=> vec \cup more \in F
               /\ EvalOutput(fixed, vec \cup {j[2]}) <=> vec \cup ({j[2]} \cup more) \in F
    <3>1. vec \in SUBSET fixed.ins /\ vec \cup {j[2]} \in SUBSET fixed.ins
      BY <1>6, <1>7
    <3>2. (vec \cup {j[2]}) \cup more = vec \cup ({j[2]} \cup more)
      OBVIOUS
    <3> HIDE DEF fixed, more, F
    <3> QED
      BY <1>7, <3>1, <3>2
  <2> HIDE DEF fixed, more, F, rest
  <2> QED
    BY <2>1, <2>2, <2>3 DEF PosUnateIn, NegUnateIn
<1> HIDE DEF S, F, more
<1> QED
  BY <1>3, <1>4, <1>5, <1>8 DEF Compared

\* So the verdict says what was asked.
LEMMA VerdictSays ==
    ASSUME NEW c, NEW po, NEW j, NEW d1, NEW d2, NEW v, "CUT" \notin FunctionsUsed(c),
           IsJob(j, c.inputs), IsVerdict(v, j, c, po, d1, d2)
    PROVE  v = "unsat" <=> Holds(FunctionAt(c, po), j)
<1>1. j[1] \in {"PosUnate", "NegUnate", "NESymmetry", "SVSymmetry"}
  BY DEF IsJob
<1> QED
  BY <1>1, PosUnateVerdict, NegUnateVerdict, NESymmetryVerdict, SVSymmetryVerdict

-------------------------------------------------------------------------------
(***************************************************************************)
(* The invariant: what the circuits in the slots are while a property is   *)
(* under confirmation.                                                     *)
(***************************************************************************)
\* The job is of the cone, and its script has come to this step.
JobRight ==
    IF job = <<>> THEN step = 0 /\ verdict = "unknown"
    ELSE /\ IsJob(job, circuit[cir].inputs) /\ step <= Len(Script(job))
         /\ \E po : circuit[cir].outputs = {po}

\* Until there is a verdict, the slots hold what the calls have made.
SlotsRight ==
    job # <<>> /\ verdict = "unknown" =>
        /\ \A po \in circuit[cir].outputs, s \in {cofactor1, cofactor2} :
              Made(Script(job), step, circuit[cir], po, circuit[s], s)
        /\ step = Len(Script(job)) =>
              /\ IsCopied(Script(job), step, cofactor1) /\ IsCopied(Script(job), step, cofactor2)
              /\ circuit[miter] =
                    MiterOf(circuit[cofactor1], circuit[cofactor2], Script(job)[step][2])

VerdictKept == "CUT" \notin FunctionsUsed(circuit[cir]) => VerdictRight

ConfirmRight ==
    /\ SignRight
    /\ DOMAIN fun = Slots /\ fun[cir] = FunctionsOf(circuit[cir])
    /\ JobRight /\ SlotsRight /\ VerdictKept

LEMMA ConfirmInitRight == SignInit => ConfirmRight
<1> SUFFICES ASSUME SignInit
             PROVE  ConfirmRight
  OBVIOUS
<1>1. SignRight
  BY SignInitRight
<1>2. job = <<>> /\ step = 0 /\ verdict = "unknown"
  BY DEF SignInit, CircuitInit, ConfirmInit
<1>3. DOMAIN fun = Slots /\ fun[cir] = FunctionsOf(circuit[cir])
  <2>1. cir \in Slots
    BY SlotsAssumption
  <2>2. CASE ConfirmInit
    <3>1. PICK design \in Designs : \E po \in NetsOf(design.types, "output") :
             LET cone == ConeOf(Construct(design), po)
             IN  /\ circuit = [s \in Slots |-> IF s = cir THEN cone ELSE NoCircuit]
                 /\ fun = [s \in Slots |-> IF s = cir THEN FunctionsOf(cone) ELSE NoCircuit]
      BY <2>2 DEF ConfirmInit
    <3>2. PICK po \in NetsOf(design.types, "output") :
             LET cone == ConeOf(Construct(design), po)
             IN  /\ circuit = [s \in Slots |-> IF s = cir THEN cone ELSE NoCircuit]
                 /\ fun = [s \in Slots |-> IF s = cir THEN FunctionsOf(cone) ELSE NoCircuit]
      BY <3>1
    <3> QED
      BY <2>1, <3>2
  <2>3. CASE ~ConfirmInit
    <3>1. PICK design \in WholeDesigns :
             LET whole == Construct(design)
             IN  /\ circuit = [s \in Slots |-> IF s = cir THEN whole ELSE NoCircuit]
                 /\ fun = [s \in Slots |-> IF s = cir THEN FunctionsOf(whole) ELSE NoCircuit]
      BY <2>3 DEF SignInit, CircuitInit
    <3> QED
      BY <2>1, <3>1
  <2> QED
    BY <2>2, <2>3
<1> QED
  BY <1>1, <1>2, <1>3 DEF ConfirmRight, JobRight, SlotsRight, VerdictKept, VerdictRight

\* What is left of ConfirmRight when SignRight is known.
ConfirmStepRight ==
    /\ JobRight' /\ SlotsRight' /\ VerdictKept'
    /\ DOMAIN fun' = Slots /\ fun'[cir] = FunctionsOf(circuit'[cir])

LEMMA SameConeKept ==
    ASSUME VerdictKept, circuit'[cir] = circuit[cir], fun'[cir] = fun[cir],
           job' = job, verdict' = verdict
    PROVE  VerdictKept'
BY DEF VerdictKept, VerdictRight

LEMMA ScriptLength ==
    ASSUME NEW j, NEW inputs, IsJob(j, inputs)
    PROVE  Len(Script(j)) \in Nat \ {0}
<1> DEFINE n == Len(Script(j))
<1>1. CASE j[1] = "PosUnate"
  <2>1. n = 6
    BY <1>1, PosUnateScript
  <2> QED
    BY <2>1
<1>2. CASE j[1] = "NegUnate"
  <2>1. n = 6
    BY <1>2, NegUnateScript
  <2> QED
    BY <2>1
<1>3. CASE j[1] = "NESymmetry"
  <2>1. n = 7
    BY <1>3, NESymmetryScript
  <2> QED
    BY <2>1
<1>4. CASE j[1] = "SVSymmetry"
  <2>1. n = 7
    BY <1>4, SVSymmetryScript
  <2> QED
    BY <2>1
<1> QED
  BY <1>1, <1>2, <1>3, <1>4 DEF IsJob

\* The call that is next in the script.
LEMMA NextCall ==
    ASSUME ConfirmRight, NEW kind, IsNext(kind)
    PROVE  LET S == Script(job)
           IN  /\ job # <<>> /\ step \in Nat /\ Len(S) \in Nat /\ step + 1 \in 1..Len(S)
               /\ S[step + 1][1] = kind
               /\ InOrder(S, step + 1, circuit[cir].inputs)
               /\ step' = step + 1 /\ job' = job /\ verdict' = verdict
               /\ \E po : circuit[cir].outputs = {po}
               /\ IsJob(job, circuit[cir].inputs) /\ IsCircuit(circuit[cir])
<1> DEFINE S == Script(job)
<1>1. /\ step \in Nat /\ job # <<>> /\ step < Len(S) /\ S[step + 1][1] = kind
      /\ step' = step + 1 /\ job' = job /\ verdict' = verdict
  BY DEF ConfirmRight, SignRight, IsNext
<1>2. IsJob(job, circuit[cir].inputs) /\ \E po : circuit[cir].outputs = {po}
  BY <1>1 DEF ConfirmRight, JobRight
<1>3. Len(S) \in Nat
  BY <1>2, ScriptLength
<1>4. IsCircuit(circuit[cir])
  BY SubjectIsCir DEF ConfirmRight, SignRight, SupportRight, StateRight
<1> HIDE DEF S
<1>5. step + 1 \in 1..Len(S)
  BY <1>1, <1>3
<1>6. InOrder(S, step + 1, circuit[cir].inputs)
  BY <1>2, <1>5, ScriptsInOrder DEF S
<1> QED
  BY <1>1, <1>2, <1>3, <1>4, <1>5, <1>6 DEF S

\* A call that puts into its slot what it should.
LEMMA PutMade ==
    ASSUME ConfirmRight, NEW kind \in {"copy", "stuck", "invert"}, IsNext(kind),
           NEW d, Put(Argument(2), d),
           \A po \in circuit[cir].outputs :
              verdict = "unknown" =>
                  Made(Script(job), step + 1, circuit[cir], po, d, Argument(2))
    PROVE  ConfirmStepRight
<1> DEFINE S == Script(job)
           c == circuit[cir]
           t == Argument(2)
<1>1. /\ job # <<>> /\ step \in Nat /\ Len(S) \in Nat
      /\ step + 1 \in 1..Len(S) /\ S[step + 1][1] = kind
      /\ InOrder(S, step + 1, c.inputs) /\ t = S[step + 1][2]
      /\ step' = step + 1 /\ job' = job /\ verdict' = verdict
      /\ \E po : c.outputs = {po}
      /\ IsJob(job, c.inputs)
  BY NextCall DEF Argument
<1>2. DOMAIN circuit = Slots /\ DOMAIN fun = Slots /\ fun[cir] = FunctionsOf(c)
      /\ SlotsRight /\ VerdictKept
  BY DEF ConfirmRight, SignRight
<1>3. circuit' = [circuit EXCEPT ![t] = d] /\ fun' = [fun EXCEPT ![t] = FunctionsOf(d)]
  BY DEF Put
<1>4. /\ cofactor1 \in Slots /\ cofactor2 \in Slots /\ cir \in Slots
      /\ cofactor1 # cir /\ cofactor2 # cir
  BY SlotsAssumption DEF cir, cofactor1, cofactor2
<1>5. \A po \in c.outputs : verdict = "unknown" => Made(S, step + 1, c, po, d, t)
  OBVIOUS
<1> HIDE DEF S, t
<1>6. t \in {cofactor1, cofactor2} /\ step + 1 < Len(S)
  <2>1. kind # "miter"
    OBVIOUS
  <2> QED
    BY <1>1, <2>1 DEF InOrder
<1>7. circuit'[cir] = c /\ fun'[cir] = fun[cir] /\ DOMAIN fun' = Slots
  BY <1>2, <1>3, <1>4, <1>6
<1>8. VerdictKept'
  BY <1>1, <1>2, <1>7, SameConeKept
<1>9. JobRight'
  <2>1. step + 1 <= Len(S)
    BY <1>1, <1>6
  <2>2. job' = job /\ job # <<>> /\ step' = step + 1
    BY <1>1
  <2> QED
    BY <1>1, <1>7, <2>1, <2>2 DEF JobRight, S
<1>10. SlotsRight'
  <2> SUFFICES ASSUME verdict = "unknown"
               PROVE  SlotsRight'
    BY <1>1 DEF SlotsRight
  <2>1. ASSUME NEW po \in c.outputs, NEW s \in {cofactor1, cofactor2}
        PROVE  Made(S, step + 1, c, po, circuit'[s], s)
    <3>1. CASE s = t
      BY <1>2, <1>3, <1>4, <1>5, <3>1
    <3>2. CASE s # t
      <4>1. circuit'[s] = circuit[s] /\ S[step + 1][2] # s
        BY <1>1, <1>2, <1>3, <1>4, <3>2
      <4>2. Made(S, step, c, po, circuit[s], s)
        BY <1>1, <1>2 DEF SlotsRight, S
      <4> QED
        BY <1>1, <4>1, <4>2, MadeElsewhere
    <3> QED
      BY <3>1, <3>2
  <2> HIDE DEF c
  <2> QED
    BY <1>1, <1>6, <1>7, <2>1 DEF SlotsRight, S
<1> QED
  BY <1>2, <1>7, <1>8, <1>9, <1>10 DEF ConfirmStepRight

LEMMA CopyConeRight ==
    ASSUME ConfirmRight, CopyCone
    PROVE  ConfirmStepRight
<1> DEFINE S == Script(job)
           c == circuit[cir]
           t == Argument(2)
<1>1. IsNext("copy") /\ Put(t, CopyOf(c))
  BY DEF CopyCone, Copy
<1>2. /\ step \in Nat /\ S[step + 1][1] = "copy" /\ InOrder(S, step + 1, c.inputs)
      /\ t = S[step + 1][2] /\ IsCircuit(c)
      /\ \E po : c.outputs = {po}
  BY <1>1, NextCall DEF Argument
<1> HIDE DEF S, c, t
<1>3. \A i \in 1..step : S[i][2] # t
  <2>1. \A i \in 1..(step + 1) - 1 : S[i][2] # t
    BY <1>2 DEF InOrder
  <2> QED
    BY <1>2, <2>1
<1>4. IsCall(S, step + 1, "copy", t)
  BY <1>2 DEF IsCall
<1>5. ASSUME NEW po \in c.outputs
      PROVE  Made(S, step + 1, c, po, CopyOf(c), t)
  <2>1. c.outputs = {po}
    BY <1>2
  <2> QED
    BY <1>2, <1>3, <1>4, <2>1, MadeByCopy
<1> QED
  BY <1>1, <1>5, PutMade DEF S, c, t

LEMMA StuckCofactorRight ==
    ASSUME ConfirmRight, StuckCofactor
    PROVE  ConfirmStepRight
<1> DEFINE S == Script(job)
           c == circuit[cir]
           t == Argument(2)
           x == Argument(3)
           b == Argument(4)
           d == StuckNetlist(circuit[t], x, b)
<1>1. IsNext("stuck") /\ Put(t, d)
  BY DEF StuckCofactor, StuckInputOf
<1>2. /\ job # <<>> /\ step \in Nat /\ S[step + 1][1] = "stuck" /\ InOrder(S, step + 1, c.inputs)
      /\ t = S[step + 1][2] /\ x = S[step + 1][3] /\ b = S[step + 1][4]
  BY <1>1, NextCall DEF Argument
<1>3. ASSUME NEW po \in c.outputs, verdict = "unknown", NEW s \in {cofactor1, cofactor2}
      PROVE  Made(S, step, c, po, circuit[s], s)
  BY <1>2, <1>3 DEF ConfirmRight, SlotsRight
<1> HIDE DEF S, c, t, x, b
<1>4. /\ t \in {cofactor1, cofactor2} /\ IsCopied(S, (step + 1) - 1, t)
      /\ x \in c.inputs /\ b \in BOOLEAN
      /\ \A i \in 1..(step + 1) - 1 : IsCall(S, i, "stuck", t) => S[i][3] # x
  BY <1>2 DEF InOrder
<1>5. (step + 1) - 1 = step
  BY <1>2
<1>6. IsStuck(S, step + 1, t, x, b)
  BY <1>2 DEF IsStuck, IsCall
<1>7. ASSUME NEW po \in c.outputs, verdict = "unknown"
      PROVE  Made(S, step + 1, c, po, d, t)
  <2>1. Made(S, step, c, po, circuit[t], t)
    BY <1>3, <1>4, <1>7
  <2>2. IsCopied(S, step, t) /\ \A i \in 1..step : IsCall(S, i, "stuck", t) => S[i][3] # x
    BY <1>4, <1>5
  <2> QED
    BY <1>2, <1>4, <1>6, <2>1, <2>2, MadeByStuck
<1> HIDE DEF d
<1> QED
  BY <1>1, <1>7, PutMade DEF S, c, t

LEMMA InvertCofactorRight ==
    ASSUME ~ReuseNames, ConfirmRight, InvertCofactor
    PROVE  ConfirmStepRight
<1> DEFINE S == Script(job)
           c == circuit[cir]
           t == Argument(2)
<1>1. IsNext("invert")
  BY DEF InvertCofactor
<1>2. PICK po \in c.outputs : InvertOutputOf(t, po)
  BY DEF InvertCofactor
<1> DEFINE d == InvertedOutput(circuit[t], po)
<1>3. Put(t, d) /\ NotName(po) \notin DOMAIN circuit[t].nets
  BY <1>2 DEF InvertOutputOf, NameIsFree
<1>4. /\ job # <<>> /\ step \in Nat /\ S[step + 1][1] = "invert" /\ InOrder(S, step + 1, c.inputs)
      /\ t = S[step + 1][2] /\ \E out : c.outputs = {out}
  BY <1>1, NextCall DEF Argument
<1>5. ASSUME verdict = "unknown", NEW s \in {cofactor1, cofactor2}
      PROVE  Made(S, step, c, po, circuit[s], s)
  BY <1>4, <1>5 DEF ConfirmRight, SlotsRight
<1> HIDE DEF S, c, t
<1>6. /\ t \in {cofactor1, cofactor2} /\ IsCopied(S, (step + 1) - 1, t)
      /\ ~IsInverted(S, (step + 1) - 1, t)
  BY <1>4 DEF InOrder
<1>7. (step + 1) - 1 = step
  BY <1>4
<1>8. IsCall(S, step + 1, "invert", t)
  BY <1>4 DEF IsCall
<1>9. ASSUME verdict = "unknown"
      PROVE  Made(S, step + 1, c, po, d, t)
  <2>1. Made(S, step, c, po, circuit[t], t)
    BY <1>5, <1>6, <1>9
  <2>2. IsCopied(S, step, t) /\ ~IsInverted(S, step, t)
    BY <1>6, <1>7
  <2> QED
    BY <1>3, <1>4, <1>8, <2>1, <2>2, MadeByInvert
<1>10. \A out \in c.outputs : out = po
  BY <1>4
<1> HIDE DEF d
<1>11. \A out \in c.outputs : verdict = "unknown" => Made(S, step + 1, c, out, d, t)
  BY <1>9, <1>10
<1> QED
  BY <1>1, <1>3, <1>11, PutMade DEF S, c, t

LEMMA MakeMiterRight ==
    ASSUME ConfirmRight, MakeMiter
    PROVE  ConfirmStepRight
<1> DEFINE S == Script(job)
           c == circuit[cir]
           made == MiterOf(circuit[cofactor1], circuit[cofactor2], Argument(2))
<1>1. IsNext("miter") /\ Put(miter, made)
  BY DEF MakeMiter, GetMiter
<1>2. /\ job # <<>> /\ step \in Nat /\ Len(S) \in Nat
      /\ step + 1 \in 1..Len(S) /\ S[step + 1][1] = "miter"
      /\ InOrder(S, step + 1, c.inputs) /\ Argument(2) = S[step + 1][2]
      /\ step' = step + 1 /\ job' = job /\ verdict' = verdict
      /\ \E po : c.outputs = {po}
      /\ IsJob(job, c.inputs)
  BY <1>1, NextCall DEF Argument
<1>3. DOMAIN circuit = Slots /\ DOMAIN fun = Slots /\ fun[cir] = FunctionsOf(c)
      /\ SlotsRight /\ VerdictKept
  BY DEF ConfirmRight, SignRight
<1>4. circuit' = [circuit EXCEPT ![miter] = made] /\ fun' = [fun EXCEPT ![miter] = FunctionsOf(made)]
  BY <1>1 DEF Put
<1>5. /\ cofactor1 \in Slots /\ cofactor2 \in Slots /\ cir \in Slots /\ miter \in Slots
      /\ cofactor1 # miter /\ cofactor2 # miter /\ cir # miter
      /\ cofactor1 \notin {"AND", "XOR"} /\ cofactor2 \notin {"AND", "XOR"}
  BY SlotsAssumption DEF cir, cofactor1, cofactor2, miter
<1>6. made = MiterOf(circuit[cofactor1], circuit[cofactor2], S[step + 1][2])
  BY <1>2
<1> HIDE DEF S, made
<1>7. /\ S[step + 1][2] \in {"AND", "XOR"} /\ step + 1 = Len(S)
      /\ IsCopied(S, (step + 1) - 1, cofactor1) /\ IsCopied(S, (step + 1) - 1, cofactor2)
  BY <1>2 DEF InOrder
<1>8. IsCopied(S, step + 1, cofactor1) /\ IsCopied(S, step + 1, cofactor2)
  <2>1. \A i \in 1..(step + 1) - 1 : i \in 1..step + 1
    BY <1>2
  <2> QED
    BY <1>7, <2>1 DEF IsCopied
<1>9. /\ circuit'[cir] = c /\ fun'[cir] = fun[cir] /\ DOMAIN fun' = Slots
      /\ circuit'[cofactor1] = circuit[cofactor1] /\ circuit'[cofactor2] = circuit[cofactor2]
      /\ circuit'[miter] = made
  BY <1>3, <1>4, <1>5
<1>10. VerdictKept'
  BY <1>2, <1>3, <1>9, SameConeKept
<1>11. JobRight'
  <2>1. step + 1 <= Len(S)
    BY <1>2, <1>7
  <2>2. job' = job /\ job # <<>> /\ step' = step + 1
    BY <1>2
  <2> QED
    BY <1>2, <1>9, <2>1, <2>2 DEF JobRight, S
<1>12. SlotsRight'
  <2> SUFFICES ASSUME verdict = "unknown"
               PROVE  SlotsRight'
    BY <1>2 DEF SlotsRight
  <2>1. ASSUME NEW po \in c.outputs, NEW s \in {cofactor1, cofactor2}
        PROVE  Made(S, step + 1, c, po, circuit'[s], s)
    <3>1. circuit'[s] = circuit[s] /\ S[step + 1][2] # s
      BY <1>5, <1>7, <1>9
    <3>2. Made(S, step, c, po, circuit[s], s)
      BY <1>2, <1>3 DEF SlotsRight, S
    <3> QED
      BY <1>2, <3>1, <3>2, MadeElsewhere
  <2> HIDE DEF c
  <2> QED
    BY <1>2, <1>6, <1>8, <1>9, <2>1 DEF SlotsRight, S
<1> QED
  BY <1>3, <1>9, <1>10, <1>11, <1>12 DEF ConfirmStepRight

LEMMA CheckRight ==
    ASSUME ConfirmRight, Check
    PROVE  ConfirmStepRight
<1> DEFINE S == Script(job)
           c == circuit[cir]
<1>1. /\ job # <<>> /\ step = Len(S) /\ verdict = "unknown" /\ verdict' \in Verdicts(circuit[miter])
      /\ circuit' = circuit /\ fun' = fun /\ job' = job /\ step' = step
  BY DEF Check, vars
<1>2. DOMAIN fun = Slots /\ fun[cir] = FunctionsOf(c) /\ SlotsRight /\ JobRight
  BY DEF ConfirmRight
<1>3. IsJob(job, c.inputs) /\ \E po : c.outputs = {po}
  BY <1>1, <1>2 DEF JobRight
<1>4. JobRight' /\ SlotsRight'
  BY <1>1, <1>2 DEF JobRight, SlotsRight
<1>5. VerdictKept'
  <2> SUFFICES ASSUME "CUT" \notin FunctionsUsed(c)
               PROVE  VerdictRight'
    BY <1>1 DEF VerdictKept
  <2>1. PICK po : c.outputs = {po}
    BY <1>3
  <2>2. IsVerdict(verdict', job, c, po, circuit[cofactor1], circuit[cofactor2])
    BY <1>1, <1>2, <2>1 DEF SlotsRight, IsVerdict
  <2>3. verdict' = "unsat" <=> Holds(FunctionAt(c, po), job)
    BY <1>3, <2>2, VerdictSays
  <2>4. FunctionAt(c, po) = [ins |-> fun[cir].ins, on |-> fun[cir].outs[po]]
    BY <1>2 DEF FunctionAt
  <2> QED
    BY <1>1, <2>1, <2>3, <2>4 DEF VerdictRight
<1> QED
  BY <1>1, <1>2, <1>4, <1>5 DEF ConfirmStepRight

LEMMA BeginRight ==
    ASSUME "ESymmetry" \notin Kinds, ConfirmRight, Begin, Cardinality(circuit[cir].outputs) = 1
    PROVE  ConfirmStepRight
<1> DEFINE c == circuit[cir]
<1>1. /\ job = <<>> /\ job' \in Jobs
      /\ circuit' = circuit /\ fun' = fun /\ step' = step /\ verdict' = verdict
  BY DEF Begin, vars
<1>2. /\ DOMAIN fun = Slots /\ fun[cir] = FunctionsOf(c)
      /\ step = 0 /\ verdict = "unknown" /\ IsCircuit(c)
  BY <1>1, SubjectIsCir DEF ConfirmRight, JobRight, SignRight, SupportRight, StateRight
<1>3. \E po : c.outputs = {po}
  <2>1. IsFiniteSet(DOMAIN c.nets) /\ c.outputs \in SUBSET (DOMAIN c.nets)
    BY <1>2 DEF IsCircuit, HasParts
  <2>2. IsFiniteSet(c.outputs)
    BY <2>1, FS_Subset
  <2> QED
    BY <2>2, FS_Singleton
<1>4. IsJob(job', c.inputs)
  BY <1>1, KindsAssumption DEF Jobs, IsJob
<1>5. 0 <= Len(Script(job')) /\ Len(Script(job')) # 0
  <2> DEFINE n == Len(Script(job'))
  <2>1. n \in Nat \ {0}
    BY <1>4, ScriptLength
  <2> HIDE DEF n
  <2> QED
    BY <2>1 DEF n
<1>6. JobRight'
  BY <1>1, <1>2, <1>3, <1>4, <1>5 DEF JobRight
<1>7. SlotsRight'
  <2>1. \A s : ~IsCopied(Script(job'), 0, s)
    BY DEF IsCopied
  <2> QED
    BY <1>1, <1>2, <1>5, <2>1 DEF SlotsRight, Made
<1>8. VerdictKept'
  BY <1>1, <1>2 DEF VerdictKept, VerdictRight
<1> QED
  BY <1>1, <1>2, <1>6, <1>7, <1>8 DEF ConfirmStepRight

LEMMA EndsRight ==
    ASSUME ConfirmRight, DeleteOne \/ End
    PROVE  ConfirmStepRight
<1> DEFINE c == circuit[cir]
<1>1. /\ DOMAIN fun = Slots /\ DOMAIN circuit = Slots /\ fun[cir] = FunctionsOf(c)
      /\ JobRight /\ SlotsRight /\ VerdictKept
  BY DEF ConfirmRight, SignRight
<1>2. CASE DeleteOne
  <2>1. verdict # "unknown" /\ job' = job /\ step' = step /\ verdict' = verdict
    BY <1>2 DEF DeleteOne
  <2>2. circuit'[cir] = c /\ fun'[cir] = fun[cir] /\ DOMAIN fun' = Slots
    <3>1. PICK s \in Held \ {cir} : Delete(s)
      BY <1>2 DEF DeleteOne
    <3>2. cir \in Slots
      BY SlotsAssumption
    <3> QED
      BY <1>1, <3>1, <3>2 DEF Delete
  <2>3. VerdictKept'
    BY <1>1, <2>1, <2>2, SameConeKept
  <2>4. JobRight' /\ SlotsRight'
    BY <1>1, <2>1, <2>2 DEF JobRight, SlotsRight
  <2> QED
    BY <1>1, <2>2, <2>3, <2>4 DEF ConfirmStepRight
<1>3. CASE End
  <2>1. job' = <<>> /\ step' = 0 /\ verdict' = "unknown" /\ circuit' = circuit /\ fun' = fun
    BY <1>3 DEF End, vars
  <2> QED
    BY <1>1, <2>1
    DEF ConfirmStepRight, JobRight, SlotsRight, VerdictKept, VerdictRight
<1> QED
  BY <1>2, <1>3

LEMMA ConfirmNextRight ==
    ASSUME ~ReuseNames, "ESymmetry" \notin Kinds, ConfirmRight, [Supports \/ Confirms]_allVars
    PROVE  ConfirmRight'
<1>1. SignRight'
  BY SignNextRight DEF ConfirmRight
<1>2. CASE Confirms
  <2>1. ConfirmNext /\ Cardinality(circuit[cir].outputs) = 1
    BY <1>2 DEF Confirms
  <2>2. ConfirmStepRight
    BY <2>1, BeginRight, CopyConeRight, StuckCofactorRight, InvertCofactorRight,
       MakeMiterRight, CheckRight, EndsRight DEF ConfirmNext
  <2> QED
    BY <1>1, <2>2 DEF ConfirmStepRight, ConfirmRight
<1>3. CASE Supports
  <2>1. SupportNext /\ job' = job /\ step' = step /\ verdict' = verdict
    BY <1>3 DEF Supports
  <2>2. circuit' = circuit /\ fun' = fun
    BY <2>1 DEF SupportNext, SupportStep, NextOutput, TakeInput, SkipConstant, Descend,
                AddSupport, Return, CallAgain, vars
  <2> QED
    BY <1>1, <2>1, <2>2 DEF ConfirmRight, JobRight, SlotsRight, VerdictKept, VerdictRight
<1>4. CASE UNCHANGED allVars
  <2>1. circuit' = circuit /\ fun' = fun /\ job' = job /\ step' = step /\ verdict' = verdict
    BY <1>4 DEF allVars, confirmVars, vars
  <2> QED
    BY <1>1, <2>1 DEF ConfirmRight, JobRight, SlotsRight, VerdictKept, VerdictRight
<1> QED
  BY <1>2, <1>3, <1>4

\* The chain of copies, cofactors, inversion, miter, printing and reading gives
\* the answer that the definitions of unateness and symmetry give for the cone,
\* whatever was computed on it before.  A gate of function CUT is printed in a
\* form that the checker cannot read, an inversion must find its name free, and
\* the case of ESymmetry confirms the opposite of what it is asked.
THEOREM VerdictsAreRight ==
    ASSUME ~ReuseNames, "ESymmetry" \notin Kinds
    PROVE  SignSpec => []("CUT" \notin FunctionsUsed(circuit[cir]) => VerdictRight)
<1>1. SignInit => ConfirmRight
  BY ConfirmInitRight
<1>2. ConfirmRight /\ [Supports \/ Confirms]_allVars => ConfirmRight'
  BY ConfirmNextRight
<1>3. ConfirmRight => ("CUT" \notin FunctionsUsed(circuit[cir]) => VerdictRight)
  BY DEF ConfirmRight, VerdictKept
<1> QED
  BY <1>1, <1>2, <1>3, PTL DEF SignSpec

===============================================================================
