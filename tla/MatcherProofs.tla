----------------------------- MODULE MatcherProofs -----------------------------
(***************************************************************************)
(* The matcher keeps, for every pair of circuits and every choice of       *)
(* random vectors, an ordered partition of the inputs of each output in    *)
(* which exchangeable inputs are together, and files each output under its *)
(* current signature.                                                      *)
(***************************************************************************)
EXTENDS Matcher, OperatorProofs, SequenceTheorems, WellFoundedInduction

\* Exchangeable inputs of f are in one cluster.
Together(f, part) ==
    \A x, y \in f.ins : \A k \in DOMAIN part :
        Exchangeable(f, x, y) /\ x \in part[k].ins => y \in part[k].ins

\* What a split of the inputs of the cone f preserves.
Sound(f, part) ==
    /\ part \in Seq(Clusters)
    /\ IsOrderedPartition(Sets(part), f.ins)
    /\ Together(f, part)

\* A step from part to new: sound, and a refinement in place.
SoundSplit(f, part, new) == Sound(f, new) /\ Refines(Sets(new), Sets(part))

\* A key that gives a number to every input and the same one to exchangeable
\* inputs of a cluster.
Fair(f, part, key) ==
    \A k \in DOMAIN part :
        /\ \A x \in part[k].ins : key[k][x] \in Nat
        /\ \A x, y \in part[k].ins :
              x # y /\ Exchangeable(f, x, y) => key[k][x] = key[k][y]

\* An ordered partition refines itself.
LEMMA RefinesItself ==
    ASSUME NEW part, NEW X, IsOrderedPartition(part, X), DOMAIN part \subseteq Int
    PROVE  Refines(part, part)
BY DEF Refines, IsOrderedPartition

\* What Sets keeps of a sequence of signed clusters: their inputs, in order.
LEMMA SetsProperties ==
    ASSUME NEW part \in Seq(Clusters)
    PROVE  /\ Sets(part) \in Seq(SUBSET Names)
           /\ DOMAIN Sets(part) = DOMAIN part
           /\ \A k \in DOMAIN part :
                /\ Sets(part)[k] = part[k].ins
                /\ part[k].ins \subseteq Names
                /\ part[k].sig \in PISignatures
<1>1. Len(part) \in Nat /\ DOMAIN part = 1..Len(part)
  OBVIOUS
<1>2. \A k \in DOMAIN part : part[k] \in Clusters
  OBVIOUS
<1>3. \A k \in DOMAIN part : part[k].ins \in SUBSET Names /\ part[k].sig \in PISignatures
  BY <1>2 DEF Clusters
<1>4. Sets(part) = [k \in 1..Len(part) |-> part[k].ins]
  BY <1>1 DEF Sets
<1>5. Sets(part) \in [1..Len(part) -> SUBSET Names]
  BY <1>1, <1>3, <1>4
<1>6. Sets(part) \in Seq(SUBSET Names)
  BY <1>1, <1>5, IsASeq
<1> QED
  BY <1>1, <1>3, <1>4, <1>6

\* A fair key is a key, with numbers for values, of the clusters it splits.
LEMMA SetsKeyed ==
    ASSUME NEW f, NEW part \in Seq(Clusters), NEW key, Fair(f, part, key)
    PROVE  IsKeyed(Sets(part), key)
BY SetsProperties, NamesAssumption DEF IsKeyed, Fair

\* Splitting signed clusters splits their sets as SplitBy does, and the new
\* clusters are signed.
LEMMA SplitClustersProperties ==
    ASSUME NEW f, NEW part \in Seq(Clusters), NEW key, Fair(f, part, key),
           NEW sig, \A s \in Slots(Sets(part), key) : sig[s] \in PISignatures
    PROVE  LET new == SplitClusters(part, key, sig) IN
           /\ new \in Seq(Clusters)
           /\ Sets(new) = SplitBy(Sets(part), key)
           /\ DOMAIN new = DOMAIN SplitBy(Sets(part), key)
           /\ \A n \in DOMAIN new : new[n].ins = SplitBy(Sets(part), key)[n]
<1> DEFINE S == Slots(Sets(part), key)
           new == SplitClusters(part, key, sig)
           old == SplitBy(Sets(part), key)
<1>1. IsKeyed(Sets(part), key)
  BY SetsKeyed
<1>2. IsFiniteSlots(S) /\ Cardinality(S) \in Nat
  BY <1>1, SlotsFinite, FS_CardinalityType DEF IsFiniteSlots
<1>3. /\ DOMAIN old = 1..Cardinality(S)
      /\ \A n \in DOMAIN old : /\ SlotAt(S, n) \in S
                               /\ SlotAt(S, n)[1] \in DOMAIN part
                               /\ old[n] = Members(Sets(part), key, SlotAt(S, n))
  BY <1>1, SplitByClusters, SetsProperties
<1>4. new = [n \in 1..Cardinality(S) |->
                [sig |-> sig[SlotAt(S, n)],
                 ins |-> Members(Sets(part), key, SlotAt(S, n))]]
  BY DEF SplitClusters
<1>5. \A n \in 1..Cardinality(S) : Members(Sets(part), key, SlotAt(S, n)) \in SUBSET Names
  BY <1>3, SetsProperties DEF Members
<1>6. \A n \in 1..Cardinality(S) : new[n] \in Clusters
  BY <1>3, <1>4, <1>5 DEF Clusters
<1>7. new \in [1..Cardinality(S) -> Clusters]
  BY <1>4, <1>6
<1>8. new \in Seq(Clusters)
  BY <1>2, <1>7, IsASeq
<1>9. /\ DOMAIN new = 1..Cardinality(S)
      /\ \A n \in DOMAIN new : new[n].ins = old[n]
  BY <1>3, <1>4
<1>10. Sets(new) = old
  BY <1>4, <1>9 DEF Sets, SplitBy
<1> QED
  BY <1>3, <1>8, <1>9, <1>10

\* A split by a fair key keeps everything.
LEMMA FairSplitIsSound ==
    ASSUME NEW f, NEW part, Sound(f, part), NEW key, Fair(f, part, key),
           NEW sig, \A s \in Slots(Sets(part), key) : sig[s] \in PISignatures
    PROVE  SoundSplit(f, part, SplitClusters(part, key, sig))
<1> DEFINE new == SplitClusters(part, key, sig)
           old == SplitBy(Sets(part), key)
<1>1. part \in Seq(Clusters) /\ IsOrderedPartition(Sets(part), f.ins) /\ Together(f, part)
  BY DEF Sound
<1>2. /\ new \in Seq(Clusters)
      /\ Sets(new) = old
      /\ DOMAIN new = DOMAIN old
      /\ \A n \in DOMAIN new : new[n].ins = old[n]
  BY <1>1, SplitClustersProperties
<1>3. IsKeyed(Sets(part), key)
  BY <1>1, SetsKeyed
<1>4. IsOrderedPartition(Sets(new), f.ins)
  BY <1>1, <1>2, <1>3, SplitByPartitions
<1>5. ASSUME NEW x \in f.ins, NEW y \in f.ins, NEW n \in DOMAIN new,
             Exchangeable(f, x, y), x \in new[n].ins
      PROVE  y \in new[n].ins
  <2>1. PICK k \in DOMAIN part : x \in part[k].ins
    BY <1>1, SetsProperties DEF IsOrderedPartition
  <2>2. y \in part[k].ins
    BY <1>1, <1>5, <2>1 DEF Together
  <2>3. x \in Sets(part)[k] /\ y \in Sets(part)[k] /\ k \in DOMAIN Sets(part)
    BY <1>1, <2>1, <2>2, SetsProperties
  <2>4. key[k][x] = key[k][y]
    BY <1>5, <2>1, <2>2 DEF Fair
  <2>5. n \in DOMAIN old /\ x \in old[n]
    BY <1>2, <1>5
  <2>6. y \in old[n]
    BY <1>1, <1>3, <2>3, <2>4, <2>5, SplitByTogether
  <2> QED
    BY <1>2, <2>6
<1>6. Refines(Sets(new), Sets(part))
  BY <1>1, <1>2, <1>3, SplitByRefines
<1> QED
  BY <1>2, <1>4, <1>5, <1>6 DEF SoundSplit, Sound, Together

-------------------------------------------------------------------------------
(***************************************************************************)
(* The splits of the code are sound.                                       *)
(***************************************************************************)
\* A cone has finitely many inputs.
LEMMA ConeFinite ==
    ASSUME NEW f, IsCone(f, Names)
    PROVE  f.ins \subseteq Names /\ IsFiniteSet(f.ins)
<1>1. f.ins \in SUBSET Names
  BY DEF IsCone
<1> QED
  BY <1>1, NamesAssumption, FS_Subset

\* The slots of a fair split carry the signatures of the clusters they come from.
LEMMA SlotOrigin ==
    ASSUME NEW part \in Seq(Clusters), NEW key, NEW s \in Slots(Sets(part), key)
    PROVE  /\ s[1] \in DOMAIN part
           /\ part[s[1]].sig \in PISignatures
           /\ \E x \in part[s[1]].ins : s[2] = key[s[1]][x]
<1>1. PICK k \in DOMAIN Sets(part) : \E x \in Sets(part)[k] : s = <<k, key[k][x]>>
  BY DEF Slots
<1> QED
  BY <1>1, SetsProperties

\* splitBySupport makes one cluster of all inputs of the cone, which is sound.
LEMMA SupportIsSound ==
    ASSUME NEW f, IsCone(f, Names)
    PROVE  Sound(f, BySupport(f))
<1> DEFINE p == BySupport(f)
<1>1. p = <<[sig |-> PISignature, ins |-> f.ins]>>
  BY DEF BySupport
<1>2. <<>> \in Seq({0, 1}) /\ <<>> \in Seq(Nat)
  OBVIOUS
<1>3. PISignature \in PISignatures
  BY <1>2 DEF PISignature, PISignatures, UnknownUnateness, UnknownSymmetry
<1>4. p \in Seq(Clusters)
  BY <1>1, <1>3, ConeFinite DEF Clusters
<1>5. DOMAIN p = {1} /\ p[1].ins = f.ins
  BY <1>1
<1>6. DOMAIN Sets(p) = {1} /\ Sets(p)[1] = f.ins
  BY <1>4, <1>5, SetsProperties
<1>7. IsOrderedPartition(Sets(p), f.ins)
  BY <1>6 DEF IsOrderedPartition
<1> QED
  BY <1>4, <1>5, <1>7 DEF Sound, Together

\* The key of splitByUnateness is the unateness of an input, which exchangeable
\* inputs share.
LEMMA UnatenessIsFair ==
    ASSUME NEW f, IsCone(f, Names), NEW part, Sound(f, part)
    PROVE  Fair(f, part, [k \in DOMAIN part |-> [x \in part[k].ins |-> UnatenessOf(f, x)]])
<1> DEFINE key == [k \in DOMAIN part |-> [x \in part[k].ins |-> UnatenessOf(f, x)]]
<1>1. \A k \in DOMAIN part : part[k].ins \subseteq f.ins
  BY SetsProperties DEF Sound, IsOrderedPartition
<1>2. \A x : UnatenessOf(f, x) \in 0..3
  BY DEF UnatenessOf, Binate, PosUnate, NegUnate
<1>3. ASSUME NEW x \in f.ins, NEW y \in f.ins, x # y, Exchangeable(f, x, y)
      PROVE  UnatenessOf(f, x) = UnatenessOf(f, y)
  <2>1. Exchangeable(f, y, x)
    BY <1>3, ExchangeableSymmetric
  <2>2. PosUnateIn(f, x) <=> PosUnateIn(f, y)
    BY <1>3, <2>1, ExchangeableUnate
  <2>3. NegUnateIn(f, x) <=> NegUnateIn(f, y)
    BY <1>3, <2>1, ExchangeableUnate
  <2> QED
    BY <2>2, <2>3 DEF UnatenessOf
<1>4. \A k \in DOMAIN part : \A x \in part[k].ins : key[k][x] = UnatenessOf(f, x)
  OBVIOUS
<1> QED
  BY <1>1, <1>2, <1>3, <1>4 DEF Fair

\* splitByUnateness keeps a sound partition sound.
LEMMA UnatenessIsSound ==
    ASSUME NEW f, IsCone(f, Names), NEW part, Sound(f, part)
    PROVE  SoundSplit(f, part, ByUnateness(f, part))
<1> DEFINE key == [k \in DOMAIN part |-> [x \in part[k].ins |-> UnatenessOf(f, x)]]
           sig == [s \in Slots(Sets(part), key) |->
                      [part[s[1]].sig EXCEPT !.unat = s[2]]]
<1>1. part \in Seq(Clusters) /\ Fair(f, part, key)
  BY UnatenessIsFair DEF Sound
<1>2. \A x : UnatenessOf(f, x) \in 0..3
  BY DEF UnatenessOf, Binate, PosUnate, NegUnate
<1>3. \A k \in DOMAIN part : \A x \in part[k].ins : key[k][x] = UnatenessOf(f, x)
  OBVIOUS
<1>4. ASSUME NEW s \in Slots(Sets(part), key)
      PROVE  sig[s] \in PISignatures
  <2>1. part[s[1]].sig \in PISignatures /\ s[2] \in 0..3
    BY <1>1, <1>2, <1>3, SlotOrigin
  <2> QED
    BY <2>1 DEF PISignatures
<1>5. SoundSplit(f, part, SplitClusters(part, key, sig))
  BY <1>1, <1>4, FairSplitIsSound
<1>6. ByUnateness(f, part) = SplitClusters(part, key, sig)
  BY DEF ByUnateness
<1> QED
  BY <1>5, <1>6

\* All members of a symmetry class have the place of the class as their key.
LEMMA ClassOrderFair ==
    ASSUME NEW f, IsCone(f, Names), NEW x \in f.ins
    PROVE  /\ ClassOrder(f, x) \in Nat
           /\ \A y \in SymmetryClass(f, x) : ClassOrder(f, y) = ClassOrder(f, x)
<1>1. IsFiniteSet(f.ins)
  BY ConeFinite
<1> DEFINE first(z) == {u \in f.ins : \A y \in SymmetryClass(f, z) : u < y}
<1>2. first(x) \in SUBSET f.ins
  OBVIOUS
<1>3. Cardinality(f.ins) \in Nat /\ Cardinality(first(x)) \in Nat
  BY <1>1, <1>2, FS_Subset, FS_CardinalityType
<1>4. ClassOrder(f, x) \in Nat
  BY <1>3 DEF ClassOrder
<1>5. ASSUME NEW y \in SymmetryClass(f, x)
      PROVE  ClassOrder(f, y) = ClassOrder(f, x)
  <2>1. y \in f.ins /\ SymmetryClass(f, y) = SymmetryClass(f, x)
    BY <1>5, SymmetryClassOfMember
  <2>2. x \in SymmetryClass(f, x) /\ y \in SymmetryClass(f, y)
    BY <2>1 DEF SymmetryClass
  <2>3. (SymmetryClass(f, x) = {x}) <=> (SymmetryClass(f, y) = {y})
    BY <2>1, <2>2
  <2>4. first(x) = first(y)
    BY <2>1
  <2> QED
    BY <2>3, <2>4 DEF ClassOrder
<1> QED
  BY <1>4, <1>5

\* The key of splitBySymmetry and the signatures of its slots.
SymmetryKey(f, part) ==
    [k \in DOMAIN part |-> [x \in part[k].ins |-> ClassOrder(f, x)]]

SymmetrySigns(f, part) ==
    [s \in Slots(Sets(part), SymmetryKey(f, part)) |->
        [part[s[1]].sig EXCEPT !.sym =
            IF s[2] = Cardinality(f.ins) THEN NoSymmetry ELSE NESymmetry]]

\* Since exchangeable inputs are in one cluster and get one slot, pushing their
\* class whole adds nothing to the slot.
LEMMA SymmetryPushesSlots ==
    ASSUME NEW f, IsCone(f, Names), NEW part, Sound(f, part)
    PROVE  LET key == SymmetryKey(f, part)
               halves == SplitClusters(part, key, SymmetrySigns(f, part)) IN
           /\ Fair(f, part, key)
           /\ SoundSplit(f, part, halves)
           /\ BySymmetry(f, part) = halves
<1> DEFINE key == SymmetryKey(f, part)
           sym(s) == IF s[2] = Cardinality(f.ins) THEN NoSymmetry ELSE NESymmetry
           sig == SymmetrySigns(f, part)
           halves == SplitClusters(part, key, sig)
           new == BySymmetry(f, part)
<1>1. part \in Seq(Clusters)
  BY DEF Sound
<1>2. \A k \in DOMAIN part : part[k].ins \subseteq f.ins
  BY <1>1, SetsProperties DEF Sound, IsOrderedPartition
<1>3. \A k \in DOMAIN part : \A x \in part[k].ins : key[k][x] = ClassOrder(f, x)
  BY DEF SymmetryKey
<1>4. \A x, y \in f.ins : Exchangeable(f, x, y) => ClassOrder(f, x) = ClassOrder(f, y)
  BY ClassOrderFair DEF SymmetryClass
<1> HIDE DEF key
<1>5. Fair(f, part, key)
  BY <1>2, <1>3, <1>4, ClassOrderFair DEF Fair
<1>6. ASSUME NEW s \in Slots(Sets(part), key)
      PROVE  sig[s] \in PISignatures
  <2>1. part[s[1]].sig \in PISignatures
    BY <1>1, SlotOrigin
  <2>2. sym(s) \in 0..4
    BY DEF NoSymmetry, NESymmetry
  <2>3. sig[s] = [part[s[1]].sig EXCEPT !.sym = sym(s)]
    BY DEF SymmetrySigns, key
  <2> QED
    BY <2>1, <2>2, <2>3 DEF PISignatures
<1>7. SoundSplit(f, part, halves) /\ Sound(f, halves)
  BY <1>5, <1>6, FairSplitIsSound DEF SoundSplit
<1>8. new = [n \in DOMAIN halves |->
                [halves[n] EXCEPT !.ins = UNION {SymmetryClass(f, x) : x \in @}]]
  BY DEF BySymmetry, SymmetrySigns, SymmetryKey, key
<1> HIDE DEF halves, new
<1>9. \A n \in DOMAIN halves : halves[n] \in Clusters /\ halves[n].ins \subseteq f.ins
  <2>1. halves \in Seq(Clusters) /\ UNION {Sets(halves)[n] : n \in DOMAIN Sets(halves)} = f.ins
    BY <1>7 DEF Sound, IsOrderedPartition
  <2>2. \A n \in DOMAIN halves : halves[n].ins \subseteq f.ins
    BY <2>1, SetsProperties
  <2>3. \A n \in DOMAIN halves : halves[n] \in Clusters
    BY <2>1
  <2> QED
    BY <2>2, <2>3
<1>10. ASSUME NEW n \in DOMAIN halves
       PROVE  UNION {SymmetryClass(f, x) : x \in halves[n].ins} = halves[n].ins
  <2>1. \A x \in halves[n].ins : SymmetryClass(f, x) \subseteq halves[n].ins
    BY <1>7, <1>9 DEF Sound, Together, SymmetryClass
  <2>2. \A x \in halves[n].ins : x \in SymmetryClass(f, x)
    BY <1>9 DEF SymmetryClass
  <2> QED
    BY <2>1, <2>2
<1>11. \A n \in DOMAIN halves :
          [halves[n] EXCEPT !.ins = UNION {SymmetryClass(f, x) : x \in @}] = halves[n]
  BY <1>9, <1>10 DEF Clusters
<1>12. halves = [n \in DOMAIN halves |-> halves[n]]
  <2>1. halves \in Seq(Clusters)
    BY <1>7 DEF Sound
  <2>2. halves \in [1..Len(halves) -> Clusters]
    BY <2>1
  <2> QED
    BY <2>2
<1>13. new = halves
  BY <1>8, <1>11, <1>12
<1> QED
  BY <1>5, <1>7, <1>13 DEF new, halves, key

\* splitBySymmetry keeps a sound partition sound.
LEMMA SymmetryIsSound ==
    ASSUME NEW f, IsCone(f, Names), NEW part, Sound(f, part)
    PROVE  SoundSplit(f, part, BySymmetry(f, part))
BY SymmetryPushesSlots

-------------------------------------------------------------------------------
(***************************************************************************)
(* Simulation cannot separate exchangeable inputs that a random vector     *)
(* gives the same value.                                                   *)
(***************************************************************************)
\* Flipping two inputs does not depend on their order.
LEMMA FlipProperties ==
    ASSUME NEW X, NEW vec \in SUBSET X, NEW x \in X, NEW y \in X
    PROVE  /\ Flip(vec, x) \in SUBSET X
           /\ Flip(Flip(vec, x), y) = Flip(Flip(vec, y), x)
           /\ x # y => (x \in Flip(vec, y) <=> x \in vec)
BY DEF Flip

\* Of the pairs flipped with x and with y, the same number make the output true.
LEMMA ExchangeableWeight ==
    ASSUME NEW f, IsFiniteSet(f.ins), NEW cluster \in SUBSET f.ins,
           NEW x \in cluster, NEW y \in cluster, x # y, Exchangeable(f, x, y),
           NEW vec \in SUBSET f.ins, x \in vec <=> y \in vec
    PROVE  /\ Type2Key(f, vec, cluster, x) \in Nat
           /\ Type2Key(f, vec, cluster, x) = Type2Key(f, vec, cluster, y)
<1> DEFINE A == {z \in cluster \ {x} : EvalOutput(f, Flip(Flip(vec, x), z))}
           B == {z \in cluster \ {y} : EvalOutput(f, Flip(Flip(vec, y), z))}
<1>1. x \in f.ins /\ y \in f.ins
  OBVIOUS
<1>2. IsFiniteSet(cluster)
  BY FS_Subset
<1>3. A \in SUBSET cluster /\ B \in SUBSET cluster
  OBVIOUS
<1>4. IsFiniteSet(A) /\ IsFiniteSet(B)
  BY <1>2, <1>3, FS_Subset
<1>5. y \in A <=> x \in B
  BY <1>1, FlipProperties
<1>6. ASSUME NEW z \in cluster, z # x, z # y
      PROVE  z \in A <=> z \in B
  <2>1. z \in f.ins
    OBVIOUS
  <2>2. Flip(vec, z) \in SUBSET f.ins /\ (x \in Flip(vec, z) <=> y \in Flip(vec, z))
    BY <1>6, <2>1 DEF Flip
  <2>3. EvalOutput(f, Flip(Flip(vec, z), x)) <=> EvalOutput(f, Flip(Flip(vec, z), y))
    BY <1>1, <2>2, ExchangeableFlip
  <2>4. /\ Flip(Flip(vec, z), x) = Flip(Flip(vec, x), z)
        /\ Flip(Flip(vec, z), y) = Flip(Flip(vec, y), z)
    BY <1>1, <2>1, FlipProperties
  <2> QED
    BY <1>6, <2>3, <2>4
<1>7. A \ {y} = B \ {x}
  BY <1>6
<1> HIDE DEF A, B
<1>8. /\ Cardinality(A \ {y}) = IF y \in A THEN Cardinality(A) - 1 ELSE Cardinality(A)
      /\ Cardinality(B \ {x}) = IF x \in B THEN Cardinality(B) - 1 ELSE Cardinality(B)
  BY <1>4, FS_RemoveElement
<1>9. Cardinality(A) \in Nat /\ Cardinality(B) \in Nat
  BY <1>4, FS_CardinalityType
<1>10. Cardinality(A) = Cardinality(B)
  BY <1>5, <1>7, <1>8, <1>9
<1> QED
  BY <1>9, <1>10 DEF Type2Key, A, B

\* The vector of a call gives all inputs of a cluster one value.
LEMMA InVecUniform ==
    ASSUME NEW f, NEW part, Sound(f, part), NEW base,
           NEW i \in DOMAIN part, NEW x \in part[i].ins, NEW y \in part[i].ins
    PROVE  /\ InVec(part, base) \in SUBSET f.ins
           /\ x \in InVec(part, base) <=> y \in InVec(part, base)
<1>1. /\ part \in Seq(Clusters)
      /\ \A j, k \in DOMAIN part : j # k => part[j].ins \cap part[k].ins = {}
      /\ \A k \in DOMAIN part : part[k].ins \subseteq f.ins
  BY SetsProperties DEF Sound, IsOrderedPartition
<1>2. InVec(part, base) \in SUBSET f.ins
  BY <1>1 DEF InVec
<1>3. \A z \in part[i].ins : z \in InVec(part, base) <=> i \in {k \in DOMAIN part : base[k]}
  BY <1>1 DEF InVec
<1> QED
  BY <1>2, <1>3

\* In both types of simulation exchangeable inputs of a cluster get one key.
LEMMA SimulationIsFair ==
    ASSUME NEW f, IsCone(f, Names), NEW part, Sound(f, part),
           NEW kind, NEW base, NEW i
    PROVE  Fair(f, part, SimKey(kind, f, part, base, i))
<1> DEFINE vec == InVec(part, base)
           key == SimKey(kind, f, part, base, i)
<1>1. /\ part \in Seq(Clusters)
      /\ \A k \in DOMAIN part : part[k].ins \in SUBSET f.ins
      /\ IsFiniteSet(f.ins)
  BY SetsProperties, ConeFinite DEF Sound, IsOrderedPartition
<1>2. \A k \in DOMAIN part : \A x \in part[k].ins :
         key[k][x] = IF k # i THEN 0
                     ELSE IF kind = "type1" THEN Type1Key(f, vec, x)
                     ELSE Type2Key(f, vec, part[i].ins, x)
  BY DEF SimKey
<1> HIDE DEF key, vec
<1>3. ASSUME NEW k \in DOMAIN part, NEW x \in part[k].ins
      PROVE  key[k][x] \in Nat
  <2>1. Type1Key(f, vec, x) \in Nat
    BY DEF Type1Key
  <2>2. Type2Key(f, vec, part[k].ins, x) \in Nat
    <3> DEFINE A == {y \in part[k].ins \ {x} : EvalOutput(f, Flip(Flip(vec, x), y))}
    <3>1. A \in SUBSET f.ins
      BY <1>1
    <3>2. Cardinality(A) \in Nat
      BY <1>1, <3>1, FS_Subset, FS_CardinalityType
    <3> QED
      BY <3>2 DEF Type2Key
  <2> QED
    BY <1>2, <1>3, <2>1, <2>2
<1>4. ASSUME NEW k \in DOMAIN part, NEW x \in part[k].ins, NEW y \in part[k].ins,
             x # y, Exchangeable(f, x, y)
      PROVE  key[k][x] = key[k][y]
  <2>1. vec \in SUBSET f.ins /\ (x \in vec <=> y \in vec)
    BY <1>4, InVecUniform DEF vec
  <2>2. x \in f.ins /\ y \in f.ins
    BY <1>1, <1>4
  <2>3. Type1Key(f, vec, x) = Type1Key(f, vec, y)
    BY <1>4, <2>1, <2>2, ExchangeableFlip DEF Type1Key
  <2>4. Type2Key(f, vec, part[k].ins, x) = Type2Key(f, vec, part[k].ins, y)
    BY <1>1, <1>4, <2>1, ExchangeableWeight
  <2> QED
    BY <1>2, <1>4, <2>3, <2>4
<1> QED
  BY <1>3, <1>4 DEF Fair, key

\* The signature that BySimulation gives to the cluster of slot s.
SimulationSign(kind, part, i, s) ==
    IF s[1] # i THEN part[s[1]].sig
    ELSE IF kind = "type1" THEN [part[i].sig EXCEPT !.t1 = Append(@, s[2])]
                           ELSE [part[i].sig EXCEPT !.t2 = Append(@, s[2])]

\* It is a signature, since the key of type 1 is 0 or 1.
LEMMA SimulationSigns ==
    ASSUME NEW f, IsCone(f, Names), NEW part, Sound(f, part),
           NEW kind, NEW base, NEW i,
           NEW s \in Slots(Sets(part), SimKey(kind, f, part, base, i))
    PROVE  SimulationSign(kind, part, i, s) \in PISignatures
<1> DEFINE key == SimKey(kind, f, part, base, i)
<1>1. part \in Seq(Clusters)
  BY DEF Sound
<1>2. Fair(f, part, key)
  BY SimulationIsFair
<1>3. PICK x \in part[s[1]].ins : s[2] = key[s[1]][x]
  BY <1>1, SlotOrigin
<1>4. s[1] \in DOMAIN part /\ part[s[1]].sig \in PISignatures
  BY <1>1, SlotOrigin
<1>5. s[2] \in Nat
  BY <1>2, <1>3, <1>4 DEF Fair
<1>6. CASE s[1] # i
  BY <1>4, <1>6 DEF SimulationSign
<1>7. CASE s[1] = i /\ kind = "type1"
  <2>1. s[2] = Type1Key(f, InVec(part, base), x)
    BY <1>3, <1>4, <1>7 DEF SimKey
  <2>2. s[2] \in {0, 1}
    BY <2>1 DEF Type1Key
  <2>3. Append(part[i].sig.t1, s[2]) \in Seq({0, 1})
    BY <1>4, <1>7, <2>2 DEF PISignatures
  <2> QED
    BY <1>4, <1>7, <2>3 DEF SimulationSign, PISignatures
<1>8. CASE s[1] = i /\ kind # "type1"
  <2>1. Append(part[i].sig.t2, s[2]) \in Seq(Nat)
    BY <1>4, <1>5, <1>8 DEF PISignatures
  <2> QED
    BY <1>4, <1>8, <2>1 DEF SimulationSign, PISignatures
<1> QED
  BY <1>6, <1>7, <1>8

\* A simulation keeps a sound partition sound.
LEMMA SimulationIsSound ==
    ASSUME NEW f, IsCone(f, Names), NEW part, Sound(f, part),
           NEW kind \in SimStages, NEW base, NEW i
    PROVE  SoundSplit(f, part,
               BySimulation(kind, part, SimKey(kind, f, part, base, i), i))
<1> DEFINE key == SimKey(kind, f, part, base, i)
           sigs == [s \in Slots(Sets(part), key) |-> SimulationSign(kind, part, i, s)]
<1>1. part \in Seq(Clusters)
  BY DEF Sound
<1>2. Fair(f, part, key)
  BY SimulationIsFair
<1>3. \A s \in Slots(Sets(part), key) : sigs[s] \in PISignatures
  BY SimulationSigns
<1>4. SoundSplit(f, part, SplitClusters(part, key, sigs))
  BY <1>2, <1>3, FairSplitIsSound
<1>5. BySimulation(kind, part, key, i) \in {part, SplitClusters(part, key, sigs)}
  BY DEF BySimulation, SimulationSign
<1>6. SoundSplit(f, part, part)
  <2>1. DOMAIN Sets(part) \subseteq Int
    BY <1>1, SetsProperties
  <2> QED
    BY <2>1, RefinesItself DEF SoundSplit, Sound
<1> QED
  BY <1>4, <1>5, <1>6

-------------------------------------------------------------------------------
(***************************************************************************)
(* The partition of the outputs.                                           *)
(***************************************************************************)
\* What Regroup keeps of the outputs.
LEMMA RegroupProperties ==
    ASSUME NEW pi
    PROVE  \A sign \in DOMAIN Regroup(pi) :
              Regroup(pi)[sign] = {po \in DOMAIN pi : POSignature(pi[po]) = sign}
BY DEF Regroup

\* Erasing a signature and inserting its outputs again, after only these have
\* changed, files every output under its signature.
LEMMA ReinsertIsRegroup ==
    ASSUME NEW pi, NEW new, DOMAIN new = DOMAIN pi,
           NEW sign \in DOMAIN Regroup(pi),
           \A po \in DOMAIN pi : po \notin Regroup(pi)[sign] => new[po] = pi[po]
    PROVE  Reinsert(Regroup(pi), sign, new) = Regroup(new)
<1> DEFINE old == Regroup(pi)
           visited == old[sign]
           rest == DOMAIN old \ {sign}
           signs == {POSignature(new[po]) : po \in visited}
<1>1. visited = {po \in DOMAIN pi : POSignature(pi[po]) = sign}
  BY RegroupProperties
<1>2. DOMAIN old = {POSignature(pi[po]) : po \in DOMAIN pi}
  BY DEF Regroup
<1>3. rest = {POSignature(new[po]) : po \in DOMAIN pi \ visited}
  BY <1>1, <1>2
<1>4. rest \cup signs = {POSignature(new[po]) : po \in DOMAIN new}
  BY <1>1, <1>3
<1>5. ASSUME NEW s \in rest \cup signs
      PROVE  (IF s \in rest THEN old[s] ELSE {})
               \cup {po \in visited : POSignature(new[po]) = s}
             = {po \in DOMAIN new : POSignature(new[po]) = s}
  <2>1. CASE s \in rest
    <3>1. old[s] = {po \in DOMAIN pi : POSignature(pi[po]) = s}
      BY <2>1, RegroupProperties
    <3>2. old[s] = {po \in DOMAIN new \ visited : POSignature(new[po]) = s}
      BY <1>1, <2>1, <3>1
    <3> QED
      BY <1>1, <2>1, <3>2
  <2>2. CASE s \notin rest
    <3>1. \A po \in DOMAIN new : POSignature(new[po]) = s => po \in visited
      BY <1>3, <2>2
    <3> QED
      BY <1>1, <2>2, <3>1
  <2> QED
    BY <2>1, <2>2
<1>6. Reinsert(old, sign, new) =
         [s \in rest \cup signs |->
            (IF s \in rest THEN old[s] ELSE {})
              \cup {po \in visited : POSignature(new[po]) = s}]
  BY DEF Reinsert
<1>7. Regroup(new) = [s \in {POSignature(new[po]) : po \in DOMAIN new} |->
                         {po \in DOMAIN new : POSignature(new[po]) = s}]
  BY DEF Regroup
<1> HIDE DEF old, visited, rest, signs
<1> QED
  BY <1>4, <1>5, <1>6, <1>7 DEF old

-------------------------------------------------------------------------------
(***************************************************************************)
(* The stages of the command.                                              *)
(***************************************************************************)
\* The names of the stages.
LEMMA StageNames ==
    {Stages[n] : n \in DOMAIN Stages} =
        {"support", "unateness", "symmetry", "type1", "type2", "done"}
<1>1. DOMAIN Stages = 1..6
  BY DEF Stages
<1>2. 1..6 = {1, 2, 3, 4, 5, 6}
  OBVIOUS
<1> QED
  BY <1>1, <1>2 DEF Stages

\* The calls of main follow each other in their order.
LEMMA StageOrder ==
    /\ NextStage("support") = "unateness"
    /\ NextStage("unateness") = "symmetry"
    /\ NextStage("symmetry") = "type1"
    /\ NextStage("type1") = "type2"
    /\ NextStage("type2") = "done"
<1>1. DOMAIN Stages = {1, 2, 3, 4, 5, 6}
  <2>1. DOMAIN Stages = 1..6
    BY DEF Stages
  <2> QED
    BY <2>1
<1>2. /\ Stages[1] = "support" /\ Stages[2] = "unateness" /\ Stages[3] = "symmetry"
      /\ Stages[4] = "type1" /\ Stages[5] = "type2" /\ Stages[6] = "done"
  BY DEF Stages
<1>3. /\ (CHOOSE n \in DOMAIN Stages : Stages[n] = "support") = 1
      /\ (CHOOSE n \in DOMAIN Stages : Stages[n] = "unateness") = 2
      /\ (CHOOSE n \in DOMAIN Stages : Stages[n] = "symmetry") = 3
      /\ (CHOOSE n \in DOMAIN Stages : Stages[n] = "type1") = 4
      /\ (CHOOSE n \in DOMAIN Stages : Stages[n] = "type2") = 5
  BY <1>1, <1>2
<1>4. \A s : NextStage(s) = Stages[(CHOOSE n \in DOMAIN Stages : Stages[n] = s) + 1]
  BY DEF NextStage
<1>5. 1 + 1 = 2 /\ 2 + 1 = 3 /\ 3 + 1 = 4 /\ 4 + 1 = 5 /\ 5 + 1 = 6
  OBVIOUS
<1> QED
  BY <1>2, <1>3, <1>4, <1>5, Zenon

-------------------------------------------------------------------------------
(***************************************************************************)
(* The invariant.  The four parts need each other: exchangeable inputs     *)
(* stay together because the clusters are disjoint, so that a random       *)
(* vector has one value on each; pushing a symmetry class whole keeps the  *)
(* partition because its members were together; and the outputs a round    *)
(* visits are the ones to be filed again because signatures are current.   *)
(***************************************************************************)
IInv == TypeOK /\ InputsPartitioned /\ SymmetricTogether /\ SignaturesCurrent

\* The cone of an output is a cone over inputs of its circuit.
LEMMA CircuitCones ==
    ASSUME TypeOK, NEW c \in Circuits, NEW po \in Outputs(c)
    PROVE  IsCone(Cone(c, po), Names) /\ Cone(c, po).ins \subseteq cir[c].ins
<1>1. IsCone(Cone(c, po), cir[c].ins) /\ cir[c].ins \subseteq Names
  BY DEF TypeOK, IsCircuit, Outputs, Cone
<1> QED
  BY <1>1 DEF IsCone

\* After splitBySupport the invariant makes every partition a sound one.
LEMMA InvariantIsSound ==
    ASSUME IInv, stage # "support", NEW c \in Circuits, NEW po \in Outputs(c)
    PROVE  Sound(Cone(c, po), piPart[c][po])
<1>1. piPart[c][po] \in Seq(Clusters)
  BY DEF IInv, TypeOK
<1>2. IsOrderedPartition(Sets(piPart[c][po]), Cone(c, po).ins)
  BY DEF IInv, InputsPartitioned
<1>3. Together(Cone(c, po), piPart[c][po])
  BY DEF IInv, SymmetricTogether, Together
<1> QED
  BY <1>1, <1>2, <1>3 DEF Sound

\* A call that computes new partitions of the inputs, sound ones, and files the
\* outputs by them.
LEMMA SplitAllPreserves ==
    ASSUME IInv, NEW call \in {"support", "unateness", "symmetry"}, NEW new,
           SplitAll(call, new),
           \A c \in Circuits :
              /\ DOMAIN new[c] = Outputs(c)
              /\ new[c] = [po \in Outputs(c) |-> new[c][po]]
              /\ \A po \in Outputs(c) : Sound(Cone(c, po), new[c][po])
    PROVE  IInv'
<1>1. /\ stage = call /\ stage' = NextStage(call) /\ piPart' = new
      /\ poPart' = [c \in Circuits |-> Regroup(new[c])]
      /\ cir' = cir /\ it' = it /\ inRound' = inRound
      /\ todo' = todo /\ ind' = ind /\ split' = split
  BY DEF SplitAll
<1>2. stage' \in {"unateness", "symmetry", "type1"}
  BY <1>1, StageOrder
<1>3. \A c \in Circuits : Outputs(c)' = Outputs(c)
  BY <1>1 DEF Outputs
<1>4. \A c \in Circuits : \A po \in Outputs(c) : Cone(c, po)' = Cone(c, po)
  BY <1>1 DEF Cone
<1>5. ~inRound /\ todo = {} /\ ~split
  BY <1>1 DEF IInv, TypeOK, RoundOK, SimStages
<1>6. TypeOK'
  <2>1. ASSUME NEW c \in Circuits
        PROVE  /\ IsCircuit(cir[c])'
               /\ piPart'[c] \in [Outputs(c)' -> Seq(Clusters)]
               /\ \A sign \in DOMAIN poPart'[c] : poPart'[c][sign] \subseteq Outputs(c)'
    <3>1. IsCircuit(cir[c])'
      BY <1>1 DEF IInv, TypeOK
    <3>2. \A po \in Outputs(c) : new[c][po] \in Seq(Clusters)
      BY DEF Sound
    <3>3. piPart'[c] \in [Outputs(c)' -> Seq(Clusters)]
      BY <1>1, <1>3, <3>2
    <3>4. poPart'[c] = Regroup(new[c]) /\ DOMAIN new[c] = Outputs(c)
      BY <1>1
    <3>5. \A sign \in DOMAIN Regroup(new[c]) : Regroup(new[c])[sign] \subseteq DOMAIN new[c]
      BY RegroupProperties
    <3>6. \A sign \in DOMAIN poPart'[c] : poPart'[c][sign] \subseteq Outputs(c)'
      BY <1>3, <3>4, <3>5
    <3> QED
      BY <3>1, <3>3, <3>6
  <2>2. stage' \in {Stages[n] : n \in DOMAIN Stages}
    BY <1>2, StageNames
  <2>3. RoundOK'
    BY <1>1, <1>5 DEF RoundOK
  <2> QED
    BY <1>1, <2>1, <2>2, <2>3 DEF IInv, TypeOK
<1>7. InputsPartitioned'
  BY <1>1, <1>3, <1>4 DEF InputsPartitioned, Sound
<1>8. SymmetricTogether'
  <2>1. ASSUME NEW c \in Circuits, NEW po \in Outputs(c)
        PROVE  Together(Cone(c, po)', piPart'[c][po])
    BY <1>1, <1>4 DEF Sound
  <2>2. \A c \in Circuits : \A po \in Outputs(c)' : Together(Cone(c, po)', piPart'[c][po])
    BY <1>3, <2>1
  <2> QED
    BY <2>2 DEF SymmetricTogether, Together
<1>9. SignaturesCurrent'
  BY <1>1 DEF SignaturesCurrent
<1> QED
  BY <1>6, <1>7, <1>8, <1>9 DEF IInv

\* The invariant holds before splitBySupport runs.
LEMMA InitEstablishes ==
    Init => IInv
<1> SUFFICES ASSUME Init PROVE IInv
  OBVIOUS
<1>1. /\ cir \in Instances
      /\ poPart = [c \in Circuits |-> [sign \in {InitialSignature(cir[1])} |-> Outputs(c)]]
      /\ piPart = [c \in Circuits |-> [po \in Outputs(c) |->
                      <<[sig |-> PISignature, ins |-> cir[c].ins]>>]]
      /\ stage = "support" /\ it = 0 /\ inRound = FALSE /\ todo = {}
      /\ ind = 1 /\ split = FALSE
  BY DEF Init
<1>2. \A c \in Circuits : IsCircuit(cir[c])
  BY <1>1, InstancesAssumption DEF Circuits
<1>3. PISignature \in PISignatures
  <2>1. <<>> \in Seq({0, 1}) /\ <<>> \in Seq(Nat)
    OBVIOUS
  <2> QED
    BY <2>1 DEF PISignature, PISignatures, UnknownUnateness, UnknownSymmetry
<1>4. ASSUME NEW c \in Circuits
      PROVE  /\ piPart[c] \in [Outputs(c) -> Seq(Clusters)]
             /\ \A sign \in DOMAIN poPart[c] : poPart[c][sign] \subseteq Outputs(c)
  <2>1. [sig |-> PISignature, ins |-> cir[c].ins] \in Clusters
    BY <1>2, <1>3 DEF Clusters, IsCircuit
  <2>2. <<[sig |-> PISignature, ins |-> cir[c].ins]>> \in Seq(Clusters)
    BY <2>1
  <2>3. poPart[c] = [sign \in {InitialSignature(cir[1])} |-> Outputs(c)]
    BY <1>1
  <2> QED
    BY <1>1, <2>2, <2>3
<1>5. stage \in {Stages[n] : n \in DOMAIN Stages}
  BY <1>1, StageNames
<1>6. it \in 0..MaxIt
  BY <1>1, MaxItAssumption
<1>7. RoundOK
  BY <1>1 DEF RoundOK
<1>8. TypeOK
  <2>1. inRound = FALSE /\ split = FALSE
    BY <1>1
  <2>2. inRound \in BOOLEAN /\ split \in BOOLEAN
    BY <2>1
  <2>3. ind \in Nat \ {0}
    BY <1>1
  <2> QED
    BY <1>2, <1>4, <1>5, <1>6, <1>7, <2>2, <2>3 DEF TypeOK
<1>9. InputsPartitioned /\ SignaturesCurrent
  BY <1>1 DEF InputsPartitioned, SignaturesCurrent
<1>10. SymmetricTogether
  <2>1. ASSUME NEW c \in Circuits, NEW po \in Outputs(c),
               NEW y \in Cone(c, po).ins, NEW k \in DOMAIN piPart[c][po]
        PROVE  y \in piPart[c][po][k].ins
    <3>1. y \in cir[c].ins
      BY <1>8, CircuitCones
    <3>2. piPart[c][po] = <<[sig |-> PISignature, ins |-> cir[c].ins]>>
      BY <1>1
    <3> QED
      BY <3>1, <3>2
  <2> QED
    BY <2>1 DEF SymmetricTogether
<1> QED
  BY <1>8, <1>9, <1>10 DEF IInv

\* splitBySupport preserves the invariant.
LEMMA SplitBySupportPreserves ==
    ASSUME IInv, SplitBySupport
    PROVE  IInv'
<1> DEFINE new == [c \in Circuits |-> [po \in Outputs(c) |-> BySupport(Cone(c, po))]]
<1>1. SplitAll("support", new)
  BY DEF SplitBySupport
<1>2. \A c \in Circuits : new[c] = [po \in Outputs(c) |-> BySupport(Cone(c, po))]
  OBVIOUS
<1>3. \A c \in Circuits : \A po \in Outputs(c) : Sound(Cone(c, po), BySupport(Cone(c, po)))
  BY CircuitCones, SupportIsSound DEF IInv
<1> HIDE DEF new
<1>4. \A c \in Circuits :
         /\ DOMAIN new[c] = Outputs(c)
         /\ new[c] = [po \in Outputs(c) |-> new[c][po]]
         /\ \A po \in Outputs(c) : Sound(Cone(c, po), new[c][po])
  BY <1>2, <1>3
<1> QED
  BY <1>1, <1>4, SplitAllPreserves

\* splitByUnateness preserves the invariant.
LEMMA SplitByUnatenessPreserves ==
    ASSUME IInv, SplitByUnateness
    PROVE  IInv'
<1> DEFINE new == [c \in Circuits |-> [po \in Outputs(c) |->
                      ByUnateness(Cone(c, po), piPart[c][po])]]
<1>1. SplitAll("unateness", new)
  BY DEF SplitByUnateness
<1>2. \A c \in Circuits : new[c] = [po \in Outputs(c) |->
                                      ByUnateness(Cone(c, po), piPart[c][po])]
  OBVIOUS
<1>3. \A c \in Circuits : \A po \in Outputs(c) :
         Sound(Cone(c, po), ByUnateness(Cone(c, po), piPart[c][po]))
  <2>1. stage # "support"
    BY <1>1 DEF SplitAll
  <2> QED
    BY <2>1, CircuitCones, InvariantIsSound, UnatenessIsSound DEF IInv, SoundSplit
<1> HIDE DEF new
<1>4. \A c \in Circuits :
         /\ DOMAIN new[c] = Outputs(c)
         /\ new[c] = [po \in Outputs(c) |-> new[c][po]]
         /\ \A po \in Outputs(c) : Sound(Cone(c, po), new[c][po])
  BY <1>2, <1>3
<1> QED
  BY <1>1, <1>4, SplitAllPreserves

\* splitBySymmetry preserves the invariant.
LEMMA SplitBySymmetryPreserves ==
    ASSUME IInv, SplitBySymmetry
    PROVE  IInv'
<1> DEFINE new == [c \in Circuits |-> [po \in Outputs(c) |->
                      BySymmetry(Cone(c, po), piPart[c][po])]]
<1>1. SplitAll("symmetry", new)
  BY DEF SplitBySymmetry
<1>2. \A c \in Circuits : new[c] = [po \in Outputs(c) |->
                                      BySymmetry(Cone(c, po), piPart[c][po])]
  OBVIOUS
<1>3. \A c \in Circuits : \A po \in Outputs(c) :
         Sound(Cone(c, po), BySymmetry(Cone(c, po), piPart[c][po]))
  <2>1. stage # "support"
    BY <1>1 DEF SplitAll
  <2> QED
    BY <2>1, CircuitCones, InvariantIsSound, SymmetryIsSound DEF IInv, SoundSplit
<1> HIDE DEF new
<1>4. \A c \in Circuits :
         /\ DOMAIN new[c] = Outputs(c)
         /\ new[c] = [po \in Outputs(c) |-> new[c][po]]
         /\ \A po \in Outputs(c) : Sound(Cone(c, po), new[c][po])
  BY <1>2, <1>3
<1> QED
  BY <1>1, <1>4, SplitAllPreserves

\* The steps of a round that leave the circuits and the partitions alone.
LEMMA CounterStep ==
    ASSUME IInv, UNCHANGED <<cir, poPart, piPart>>,
           stage' \in {Stages[n] : n \in DOMAIN Stages} \ {"support"},
           stage # "support",
           it' \in 0..MaxIt, inRound' \in BOOLEAN, ind' \in Nat \ {0},
           split' \in BOOLEAN, RoundOK'
    PROVE  IInv'
<1>1. \A c \in Circuits : Outputs(c)' = Outputs(c)
  BY DEF Outputs
<1>2. \A c \in Circuits : \A po \in Outputs(c) : Cone(c, po)' = Cone(c, po)
  BY DEF Cone
<1>3. TypeOK'
  BY <1>1 DEF IInv, TypeOK
<1>4. InputsPartitioned'
  BY <1>1, <1>2 DEF IInv, InputsPartitioned
<1>5. SymmetricTogether'
  BY <1>1, <1>2 DEF IInv, SymmetricTogether
<1>6. SignaturesCurrent'
  BY DEF IInv, SignaturesCurrent
<1> QED
  BY <1>3, <1>4, <1>5, <1>6 DEF IInv

\* In a round and between two rounds the command is in one of its loops.
LEMMA RoundPreserves ==
    ASSUME IInv, BeginRound \/ NextCluster \/ EndRound
    PROVE  IInv'
<1>1. TypeOK /\ RoundOK
  BY DEF IInv, TypeOK
<1>2. UNCHANGED <<cir, poPart, piPart>> /\ stage' = stage
  BY DEF BeginRound, NextCluster, EndRound
<1>3. stage \in SimStages
  BY <1>1 DEF BeginRound, NextCluster, EndRound, RoundOK
<1>4. stage # "support" /\ stage' \in {Stages[n] : n \in DOMAIN Stages} \ {"support"}
  BY <1>1, <1>2, <1>3 DEF TypeOK, SimStages
<1>5. inRound' \in BOOLEAN /\ split' \in BOOLEAN /\ ind' \in Nat \ {0}
  <2>1. ind' = 1 /\ ind' \in Nat \ {0}
    BY DEF BeginRound, NextCluster, EndRound
  <2>2. inRound' \in {inRound, TRUE, FALSE} /\ split' \in {split, FALSE}
    BY Zenon DEF BeginRound, NextCluster, EndRound
  <2>3. inRound \in BOOLEAN /\ split \in BOOLEAN
    BY <1>1 DEF TypeOK
  <2> QED
    BY <2>1, <2>2, <2>3, Zenon
<1>6. Common' = Common
  BY <1>2 DEF Common
<1>7. it' \in 0..MaxIt /\ RoundOK'
  <2>1. CASE BeginRound
    BY <1>1, <1>3, <1>6, <2>1 DEF BeginRound, TypeOK, RoundOK
  <2>2. CASE NextCluster
    BY <1>1, <1>3, <1>6, <2>2 DEF NextCluster, TypeOK, RoundOK
  <2>3. CASE EndRound
    <3>1. it < MaxIt /\ it \in Nat /\ MaxIt \in Nat
      BY <1>1, <2>3, MaxItAssumption DEF EndRound, TypeOK, RoundOK
    <3>2. it' \in {1, it + 1}
      BY <2>3 DEF EndRound
    <3>3. it' \in 0..MaxIt
      BY <3>1, <3>2
    <3>4. inRound' = FALSE /\ todo' = {} /\ split' = FALSE
      BY <2>3 DEF EndRound
    <3> QED
      BY <3>3, <3>4 DEF RoundOK
  <2> QED
    BY <2>1, <2>2, <2>3
<1> QED
  BY <1>2, <1>4, <1>5, <1>7, CounterStep

\* The end of a simulation loop, which starts the next call of main, preserves
\* the invariant.
LEMMA EndLoopPreserves ==
    ASSUME IInv, EndLoop
    PROVE  IInv'
<1>1. TypeOK /\ RoundOK
  BY DEF IInv, TypeOK
<1>2. /\ UNCHANGED <<cir, poPart, piPart, inRound, todo, ind, split>>
      /\ stage \in SimStages /\ ~inRound /\ stage' = NextStage(stage) /\ it' = 0
  BY DEF EndLoop
<1>3. stage # "support"
  BY <1>2 DEF SimStages
<1>4. stage' \in {"type2", "done"}
  BY <1>2, StageOrder DEF SimStages
<1>5. stage' \in {Stages[n] : n \in DOMAIN Stages} \ {"support"}
  BY <1>4, StageNames
<1>6. it' \in 0..MaxIt
  BY <1>2, MaxItAssumption
<1>7. Common' = Common
  BY <1>2 DEF Common
<1>8. RoundOK'
  BY <1>1, <1>2, <1>7 DEF RoundOK
<1>9. inRound' \in BOOLEAN /\ split' \in BOOLEAN /\ ind' \in Nat \ {0}
  <2>1. inRound \in BOOLEAN /\ split \in BOOLEAN /\ ind \in Nat \ {0}
    BY <1>1 DEF TypeOK
  <2>2. inRound' = inRound /\ split' = split /\ ind' = ind
    BY <1>2
  <2> QED
    BY <2>1, <2>2, Zenon
<1> QED
  BY <1>2, <1>3, <1>5, <1>6, <1>8, <1>9, CounterStep

\* Only the inputs of the outputs under one signature change, and they are
\* refined soundly; the outputs are filed again.
LEMMA AttemptPreserves ==
    ASSUME IInv, Attempt
    PROVE  IInv'
<1>1. TypeOK /\ RoundOK
  BY DEF IInv, TypeOK
<1>0. PICK sign \in todo :
         \E base \in [1..Len(sign.input_signatures) -> BOOLEAN] :
             /\ piPart' = [c \in Circuits |-> [po \in Outputs(c) |->
                     IF po \in poPart[c][sign]
                     THEN BySimulation(stage, piPart[c][po],
                              SimKey(stage, Cone(c, po), piPart[c][po], base, ind), ind)
                     ELSE piPart[c][po]]]
             /\ split' = \E c \in Circuits : \E po \in poPart[c][sign] :
                     CanSplit(piPart[c][po],
                              SimKey(stage, Cone(c, po), piPart[c][po], base, ind), ind)
             /\ poPart' = [c \in Circuits |-> Reinsert(poPart[c], sign, piPart'[c])]
  BY DEF Attempt
<1>2. PICK base \in [1..Len(sign.input_signatures) -> BOOLEAN] :
         /\ piPart' = [c \in Circuits |-> [po \in Outputs(c) |->
                 IF po \in poPart[c][sign]
                 THEN BySimulation(stage, piPart[c][po],
                          SimKey(stage, Cone(c, po), piPart[c][po], base, ind), ind)
                 ELSE piPart[c][po]]]
         /\ split' = \E c \in Circuits : \E po \in poPart[c][sign] :
                 CanSplit(piPart[c][po],
                          SimKey(stage, Cone(c, po), piPart[c][po], base, ind), ind)
         /\ poPart' = [c \in Circuits |-> Reinsert(poPart[c], sign, piPart'[c])]
  BY <1>0
<1>3. /\ stage \in SimStages /\ inRound /\ ~split
      /\ ind' = ind + 1
      /\ UNCHANGED <<cir, stage, it, inRound, todo>>
  BY DEF Attempt
<1>4. stage # "support" /\ sign \in Common
  BY <1>1, <1>3 DEF SimStages, RoundOK
<1>5. \A c \in Circuits : Outputs(c)' = Outputs(c)
  BY <1>3 DEF Outputs
<1>6. \A c \in Circuits : \A po \in Outputs(c) : Cone(c, po)' = Cone(c, po)
  BY <1>3 DEF Cone
<1> DEFINE key(c, po) == SimKey(stage, Cone(c, po), piPart[c][po], base, ind)
           next(c, po) == BySimulation(stage, piPart[c][po], key(c, po), ind)
<1>7. ASSUME NEW c \in Circuits, NEW po \in Outputs(c)
      PROVE  /\ piPart'[c][po] = IF po \in poPart[c][sign] THEN next(c, po)
                                                           ELSE piPart[c][po]
             /\ Sound(Cone(c, po), piPart'[c][po])
  <2>1. piPart'[c][po] = IF po \in poPart[c][sign] THEN next(c, po) ELSE piPart[c][po]
    BY <1>2
  <2>2. Sound(Cone(c, po), piPart[c][po])
    BY <1>4, InvariantIsSound
  <2>3. IsCone(Cone(c, po), Names)
    BY <1>1, CircuitCones
  <2>4. Sound(Cone(c, po), next(c, po))
    BY <1>3, <2>2, <2>3, SimulationIsSound DEF SoundSplit
  <2> QED
    BY <2>1, <2>2, <2>4
<1>8. \A c \in Circuits : DOMAIN piPart'[c] = Outputs(c) /\ DOMAIN piPart[c] = Outputs(c)
  BY <1>1, <1>2 DEF TypeOK
<1>9. ASSUME NEW c \in Circuits
      PROVE  poPart'[c] = Regroup(piPart'[c])
  <2>1. poPart[c] = Regroup(piPart[c])
    BY <1>4 DEF IInv, SignaturesCurrent
  <2>2. sign \in DOMAIN poPart[c]
    BY <1>4 DEF Common, Circuits
  <2>3. \A po \in DOMAIN piPart[c] : po \notin poPart[c][sign] => piPart'[c][po] = piPart[c][po]
    BY <1>7, <1>8
  <2>4. Reinsert(Regroup(piPart[c]), sign, piPart'[c]) = Regroup(piPart'[c])
    BY <1>8, <2>1, <2>2, <2>3, ReinsertIsRegroup
  <2>5. poPart'[c] = Reinsert(poPart[c], sign, piPart'[c])
    BY <1>2
  <2> QED
    BY <2>1, <2>4, <2>5
<1>10. ~split' => todo' \subseteq Common'
  <2>1. SUFFICES ASSUME ~split' PROVE todo' \subseteq Common'
    OBVIOUS
  <2>2. \A c \in Circuits : \A po \in poPart[c][sign] :
           ~CanSplit(piPart[c][po], key(c, po), ind)
    BY <1>2, <2>1
  <2>3. ASSUME NEW c \in Circuits
        PROVE  poPart'[c] = poPart[c]
    <3>1. \A po \in Outputs(c) : piPart'[c][po] = piPart[c][po]
      BY <1>7, <2>2 DEF BySimulation
    <3>2. piPart'[c] = [po \in Outputs(c) |-> piPart'[c][po]]
      BY <1>2
    <3>3. piPart[c] = [po \in Outputs(c) |-> piPart[c][po]]
      BY <1>1 DEF TypeOK
    <3>4. piPart'[c] = piPart[c]
      BY <3>1, <3>2, <3>3
    <3> QED
      BY <1>4, <1>9, <3>4 DEF IInv, SignaturesCurrent
  <2>4. Common' = Common
    BY <2>3 DEF Common, Circuits
  <2> QED
    BY <1>1, <1>3, <2>4 DEF RoundOK
<1>11. TypeOK'
  <2>1. ASSUME NEW c \in Circuits
        PROVE  /\ IsCircuit(cir[c])'
               /\ piPart'[c] \in [Outputs(c)' -> Seq(Clusters)]
               /\ \A s \in DOMAIN poPart'[c] : poPart'[c][s] \subseteq Outputs(c)'
    <3>1. IsCircuit(cir[c])'
      BY <1>1, <1>3 DEF TypeOK, IsCircuit
    <3>2. \A po \in Outputs(c) : piPart'[c][po] \in Seq(Clusters)
      BY <1>7 DEF Sound
    <3>3. piPart'[c] = [po \in Outputs(c) |-> piPart'[c][po]]
      BY <1>2
    <3>4. piPart'[c] \in [Outputs(c)' -> Seq(Clusters)]
      BY <1>5, <3>2, <3>3
    <3>5. \A s \in DOMAIN Regroup(piPart'[c]) : Regroup(piPart'[c])[s] \subseteq DOMAIN piPart'[c]
      BY RegroupProperties
    <3>6. \A s \in DOMAIN poPart'[c] : poPart'[c][s] \subseteq Outputs(c)'
      BY <1>5, <1>8, <1>9, <3>5
    <3> QED
      BY <3>1, <3>4, <3>6
  <2>2. stage' \in {Stages[n] : n \in DOMAIN Stages} /\ it' \in 0..MaxIt
    BY <1>1, <1>3 DEF TypeOK
  <2>3. inRound' \in BOOLEAN
    BY <1>1, <1>3 DEF TypeOK
  <2>4. split' \in BOOLEAN
    BY <1>2
  <2>5. ind' \in Nat \ {0}
    BY <1>1, <1>3 DEF TypeOK
  <2>6. RoundOK'
    BY <1>1, <1>3, <1>10 DEF RoundOK
  <2> QED
    BY <2>1, <2>2, <2>3, <2>4, <2>5, <2>6 DEF TypeOK
<1>12. InputsPartitioned'
  BY <1>5, <1>6, <1>7 DEF InputsPartitioned, Sound
<1>13. SymmetricTogether'
  <2>1. \A c \in Circuits : \A po \in Outputs(c)' : Together(Cone(c, po)', piPart'[c][po])
    BY <1>5, <1>6, <1>7 DEF Sound
  <2> QED
    BY <2>1 DEF SymmetricTogether, Together
<1>14. SignaturesCurrent'
  BY <1>9 DEF SignaturesCurrent
<1> QED
  BY <1>11, <1>12, <1>13, <1>14 DEF IInv

\* Every step preserves the invariant.
LEMMA NextPreserves ==
    ASSUME IInv, [Next]_vars
    PROVE  IInv'
<1>1. CASE SplitBySupport
  BY <1>1, SplitBySupportPreserves
<1>2. CASE SplitByUnateness
  BY <1>2, SplitByUnatenessPreserves
<1>3. CASE SplitBySymmetry
  BY <1>3, SplitBySymmetryPreserves
<1>4. CASE BeginRound \/ NextCluster \/ EndRound
  BY <1>4, RoundPreserves
<1>5. CASE Attempt
  BY <1>5, AttemptPreserves
<1>6. CASE EndLoop
  BY <1>6, EndLoopPreserves
<1>7. CASE UNCHANGED vars
  <2>1. Outputs(1)' = Outputs(1) /\ \A c \in Circuits : Outputs(c)' = Outputs(c)
    BY <1>7 DEF vars, Outputs
  <2>2. \A c \in Circuits : \A po \in Outputs(c) : Cone(c, po)' = Cone(c, po)
    BY <1>7 DEF vars, Cone
  <2>3. Common' = Common
    BY <1>7 DEF vars, Common
  <2>4. RoundOK'
    BY <1>7, <2>3 DEF vars, RoundOK, IInv, TypeOK
  <2>5. TypeOK'
    BY <1>7, <2>1, <2>4 DEF vars, IInv, TypeOK
  <2>6. InputsPartitioned' /\ SymmetricTogether' /\ SignaturesCurrent'
    BY <1>7, <2>1, <2>2
    DEF vars, IInv, InputsPartitioned, SymmetricTogether, SignaturesCurrent
  <2> QED
    BY <2>5, <2>6 DEF IInv
<1>8. CASE Done
  BY <1>7, <1>8 DEF Done
<1> QED
  BY <1>1, <1>2, <1>3, <1>4, <1>5, <1>6, <1>7, <1>8 DEF Next

\* The four parts hold together in every state of the command `split', for
\* every pair of circuits, every bound on the rounds and every random vector.
THEOREM Invariance == Spec => []IInv
<1>1. Init => IInv
  BY InitEstablishes
<1>2. IInv /\ [Next]_vars => IInv'
  BY NextPreserves
<1> QED
  BY <1>1, <1>2, PTL DEF Spec

\* The data structures keep their shape, and a round of splitBySimType1 or
\* splitBySimType2 only has signatures to visit that both circuits have.
THEOREM TypeCorrect == Spec => []TypeOK
<1>1. IInv => TypeOK
  BY DEF IInv
<1> QED
  BY <1>1, Invariance, PTL

\* No call loses an input of a cone or puts it in two clusters, although
\* splitBySymmetry pushes whole symmetry classes (matcher.cpp:259-267).
THEOREM InputsStayPartitioned == Spec => []InputsPartitioned
<1>1. IInv => InputsPartitioned
  BY DEF IInv
<1> QED
  BY <1>1, Invariance, PTL

\* With exact symmetry results the matcher never logs "Error during splitting
\* by symmetry", and no simulation separates inputs that can be exchanged.
THEOREM SymmetricStayTogether == Spec => []SymmetricTogether
<1>1. IInv => SymmetricTogether
  BY DEF IInv
<1> QED
  BY <1>1, Invariance, PTL

\* An output is always filed under the signature of its present clusters, though
\* rounds erase a signature and insert its outputs again (matcher.cpp:86-107).
THEOREM SignaturesStayCurrent == Spec => []SignaturesCurrent
<1>1. IInv => SignaturesCurrent
  BY DEF IInv
<1> QED
  BY <1>1, Invariance, PTL

-------------------------------------------------------------------------------
(***************************************************************************)
(* Every step refines the clusters in place.                               *)
(***************************************************************************)
\* What one attempt does to the inputs of one output.
LEMMA AttemptOfOne ==
    ASSUME Attempt, NEW c \in Circuits, NEW po \in Outputs(c)
    PROVE  LET f == Cone(c, po) part == piPart[c][po] IN
           \E base :
              piPart'[c][po] \in
                 {part, BySimulation(stage, part, SimKey(stage, f, part, base, ind), ind)}
<1>1. PICK sign \in todo :
         \E base \in [1..Len(sign.input_signatures) -> BOOLEAN] :
            piPart' = [d \in Circuits |-> [p \in Outputs(d) |->
                IF p \in poPart[d][sign]
                THEN BySimulation(stage, piPart[d][p],
                         SimKey(stage, Cone(d, p), piPart[d][p], base, ind), ind)
                ELSE piPart[d][p]]]
  BY DEF Attempt
<1>2. PICK base \in [1..Len(sign.input_signatures) -> BOOLEAN] :
         piPart' = [d \in Circuits |-> [p \in Outputs(d) |->
             IF p \in poPart[d][sign]
             THEN BySimulation(stage, piPart[d][p],
                      SimKey(stage, Cone(d, p), piPart[d][p], base, ind), ind)
             ELSE piPart[d][p]]]
  BY <1>1
<1>3. piPart'[c][po] =
         IF po \in poPart[c][sign]
         THEN BySimulation(stage, piPart[c][po],
                  SimKey(stage, Cone(c, po), piPart[c][po], base, ind), ind)
         ELSE piPart[c][po]
  BY <1>2
<1> QED
  BY <1>3

\* A step that is not the first refines the clusters of each output.
LEMMA StepRefines ==
    ASSUME IInv, stage # "support", [Next]_vars,
           NEW c \in Circuits, NEW po \in Outputs(c)
    PROVE  Refines(Sets(piPart[c][po])', Sets(piPart[c][po]))
<1> DEFINE f == Cone(c, po)
           part == piPart[c][po]
<1>1. Sound(f, part) /\ IsCone(f, Names)
  BY InvariantIsSound, CircuitCones DEF IInv
<1>2. Sets(part)' = Sets(piPart'[c][po])
  BY DEF Sets
<1>3. CASE SplitByUnateness
  <2>1. piPart'[c][po] = ByUnateness(f, part)
    BY <1>3 DEF SplitByUnateness, SplitAll
  <2> QED
    BY <1>1, <1>2, <2>1, UnatenessIsSound DEF SoundSplit
<1>4. CASE SplitBySymmetry
  <2>1. piPart'[c][po] = BySymmetry(f, part)
    BY <1>4 DEF SplitBySymmetry, SplitAll
  <2> QED
    BY <1>1, <1>2, <2>1, SymmetryIsSound DEF SoundSplit
<1>5. Refines(Sets(part), Sets(part))
  <2>1. DOMAIN Sets(part) \subseteq Int
    BY <1>1, SetsProperties DEF Sound
  <2> QED
    BY <1>1, <2>1, RefinesItself DEF Sound
<1>6. CASE Attempt
  <2>1. PICK base :
           piPart'[c][po] \in
              {part, BySimulation(stage, part, SimKey(stage, f, part, base, ind), ind)}
    BY <1>6, AttemptOfOne
  <2>2. SoundSplit(f, part,
            BySimulation(stage, part, SimKey(stage, f, part, base, ind), ind))
    BY <1>1, <1>6, SimulationIsSound DEF Attempt
  <2> QED
    BY <1>2, <1>5, <2>1, <2>2 DEF SoundSplit
<1>7. CASE UNCHANGED piPart
  BY <1>2, <1>5, <1>7
<1> QED
  BY <1>3, <1>4, <1>6, <1>7
  DEF Next, vars, SplitBySupport, SplitAll, BeginRound, NextCluster, EndRound,
      EndLoop, Done

\* Once the clusters are set up, no call of the command merges, reorders or
\* loses clusters: the candidates for a match only become fewer.
THEOREM CandidatesOnlyRefined == Spec => OnlyRefines
<1>1. IInv /\ [Next]_vars =>
         [stage # "support" =>
             \A c \in Circuits : \A po \in Outputs(c) :
                Refines(Sets(piPart[c][po])', Sets(piPart[c][po]))]_vars
  BY StepRefines
<1> QED
  BY <1>1, Invariance, PTL DEF Spec, OnlyRefines

-------------------------------------------------------------------------------
(***************************************************************************)
(* What the signatures say of unateness and symmetry is true.  A split     *)
(* copies the signature of the cluster it splits and sets one part of it,  *)
(* and an input is in the slot that belongs to its own key.                *)
(***************************************************************************)
\* The signature of each cluster has the unateness of each of its inputs.
UnatenessSigned(f, part) ==
    \A k \in DOMAIN part : \A x \in part[k].ins : part[k].sig.unat = UnatenessOf(f, x)

\* A cluster is signed symmetric when its inputs have partners.
SymmetrySigned(f, part) ==
    \A k \in DOMAIN part : \A x \in part[k].ins :
        (part[k].sig.sym = NESymmetry) <=> (SymmetryClass(f, x) # {x})

\* Both are true from the call on that looks at them.
SignsInv ==
    \A c \in Circuits : \A po \in Outputs(c) :
        /\ stage \notin {"support", "unateness"} =>
               UnatenessSigned(Cone(c, po), piPart[c][po])
        /\ stage \notin {"support", "unateness", "symmetry"} =>
               SymmetrySigned(Cone(c, po), piPart[c][po])

\* Each cluster of new has the signature sig gives to a slot, and its inputs are
\* inputs of the slot's cluster that have the slot's key.
SignedBy(part, key, sig, new) ==
    \A n \in DOMAIN new : \E s \in Slots(Sets(part), key) :
        /\ new[n].sig = sig[s]
        /\ s[1] \in DOMAIN part
        /\ part[s[1]].sig \in PISignatures
        /\ \A x \in new[n].ins : x \in part[s[1]].ins /\ key[s[1]][x] = s[2]

\* SplitClusters signs the new clusters by their slots.
LEMMA SlotSigned ==
    ASSUME NEW f, NEW part \in Seq(Clusters), NEW key, Fair(f, part, key), NEW sig
    PROVE  SignedBy(part, key, sig, SplitClusters(part, key, sig))
<1> DEFINE S == Slots(Sets(part), key)
           new == SplitClusters(part, key, sig)
<1>1. IsKeyed(Sets(part), key)
  BY SetsKeyed
<1>2. new = [m \in 1..Cardinality(S) |->
                [sig |-> sig[SlotAt(S, m)],
                 ins |-> Members(Sets(part), key, SlotAt(S, m))]]
  BY DEF SplitClusters
<1>3. ASSUME NEW n \in DOMAIN new
      PROVE  LET s == SlotAt(S, n) IN
             /\ s \in S
             /\ new[n].sig = sig[s]
             /\ s[1] \in DOMAIN part
             /\ part[s[1]].sig \in PISignatures
             /\ \A x \in new[n].ins : x \in part[s[1]].ins /\ key[s[1]][x] = s[2]
  <2> DEFINE s == SlotAt(S, n)
  <2>1. n \in 1..Cardinality(S)
    BY <1>2, <1>3
  <2>2. s \in S
    BY <1>1, <2>1, SplitByClusters
  <2>3. new[n].sig = sig[s] /\ new[n].ins = Members(Sets(part), key, s)
    BY <1>2, <2>1
  <2>4. s[1] \in DOMAIN part /\ part[s[1]].sig \in PISignatures
    BY <2>2, SlotOrigin
  <2>5. Sets(part)[s[1]] = part[s[1]].ins
    BY <2>4, SetsProperties
  <2> HIDE DEF s
  <2>6. \A x \in new[n].ins : x \in part[s[1]].ins /\ key[s[1]][x] = s[2]
    BY <2>3, <2>5 DEF Members
  <2> QED
    BY <2>2, <2>3, <2>4, <2>6 DEF s
<1> HIDE DEF new, S
<1> QED
  BY <1>3, Zenon DEF SignedBy, new, S

\* splitByUnateness signs each cluster with the key of its slot.
LEMMA UnatenessSigns ==
    ASSUME NEW f, IsCone(f, Names), NEW part, Sound(f, part)
    PROVE  UnatenessSigned(f, ByUnateness(f, part))
<1> DEFINE key == [k \in DOMAIN part |-> [x \in part[k].ins |-> UnatenessOf(f, x)]]
           sig == [s \in Slots(Sets(part), key) |->
                      [part[s[1]].sig EXCEPT !.unat = s[2]]]
           new == SplitClusters(part, key, sig)
<1>1. ByUnateness(f, part) = new
  BY DEF ByUnateness
<1>2. part \in Seq(Clusters) /\ Fair(f, part, key)
  BY UnatenessIsFair DEF Sound
<1>3. \A k \in DOMAIN part : \A x \in part[k].ins : key[k][x] = UnatenessOf(f, x)
  OBVIOUS
<1>4. \A s \in Slots(Sets(part), key) : sig[s] = [part[s[1]].sig EXCEPT !.unat = s[2]]
  OBVIOUS
<1>5. SignedBy(part, key, sig, new)
  BY <1>2, SlotSigned
<1> HIDE DEF key, sig, new
<1>6. ASSUME NEW n \in DOMAIN new, NEW x \in new[n].ins
      PROVE  new[n].sig.unat = UnatenessOf(f, x)
  <2>1. PICK s \in Slots(Sets(part), key) :
           /\ new[n].sig = sig[s]
           /\ s[1] \in DOMAIN part
           /\ part[s[1]].sig \in PISignatures
           /\ \A y \in new[n].ins : y \in part[s[1]].ins /\ key[s[1]][y] = s[2]
    BY <1>5 DEF SignedBy
  <2>2. new[n].sig.unat = s[2]
    <3>1. new[n].sig = [part[s[1]].sig EXCEPT !.unat = s[2]]
      BY <1>4, <2>1
    <3>2. \A r \in PISignatures : \A v : [r EXCEPT !.unat = v].unat = v
      BY DEF PISignatures
    <3> QED
      BY <2>1, <3>1, <3>2
  <2> QED
    BY <1>3, <1>6, <2>1, <2>2
<1> QED
  BY <1>1, <1>6 DEF UnatenessSigned

\* The place of an input without a partner is behind all names, and that of a
\* symmetry class is not.
LEMMA ClassOrderOfClass ==
    ASSUME NEW f, IsCone(f, Names), NEW x \in f.ins
    PROVE  ClassOrder(f, x) = Cardinality(f.ins) <=> SymmetryClass(f, x) = {x}
<1> DEFINE first == {z \in f.ins : \A y \in SymmetryClass(f, x) : z < y}
<1>1. CASE SymmetryClass(f, x) = {x}
  BY <1>1 DEF ClassOrder
<1>2. CASE SymmetryClass(f, x) # {x}
  <2>1. f.ins \subseteq Names /\ IsFiniteSet(f.ins)
    BY ConeFinite
  <2>2. x \in SymmetryClass(f, x) /\ ~(x < x)
    <3>1. x \in Names
      BY <2>1
    <3>2. x \in Nat
      BY <3>1, NamesAssumption
    <3> QED
      BY <3>2 DEF SymmetryClass
  <2>3. first \in SUBSET f.ins /\ first # f.ins
    BY <2>2
  <2>4. Cardinality(first) < Cardinality(f.ins) /\ Cardinality(first) \in Nat
        /\ Cardinality(f.ins) \in Nat
    BY <2>1, <2>3, FS_Subset, FS_CardinalityType
  <2> QED
    BY <1>2, <2>4 DEF ClassOrder
<1> QED
  BY <1>1, <1>2

\* splitBySymmetry keeps the unateness and signs the symmetry.
LEMMA SymmetrySignsTrue ==
    ASSUME NEW f, IsCone(f, Names), NEW part, Sound(f, part), UnatenessSigned(f, part)
    PROVE  /\ UnatenessSigned(f, BySymmetry(f, part))
           /\ SymmetrySigned(f, BySymmetry(f, part))
<1> DEFINE key == SymmetryKey(f, part)
           sig == SymmetrySigns(f, part)
           new == SplitClusters(part, key, sig)
<1>1. BySymmetry(f, part) = new /\ Fair(f, part, key)
  BY SymmetryPushesSlots
<1>2. part \in Seq(Clusters) /\ \A k \in DOMAIN part : part[k].ins \subseteq f.ins
  BY SetsProperties DEF Sound, IsOrderedPartition
<1>3. \A k \in DOMAIN part : \A x \in part[k].ins : key[k][x] = ClassOrder(f, x)
  BY DEF SymmetryKey
<1>4. \A s \in Slots(Sets(part), key) :
         sig[s] = [part[s[1]].sig EXCEPT !.sym =
                      IF s[2] = Cardinality(f.ins) THEN NoSymmetry ELSE NESymmetry]
  BY DEF SymmetrySigns
<1>5. SignedBy(part, key, sig, new)
  BY <1>1, <1>2, SlotSigned
<1> HIDE DEF key, sig, new
<1>6. ASSUME NEW n \in DOMAIN new, NEW x \in new[n].ins
      PROVE  /\ new[n].sig.unat = UnatenessOf(f, x)
             /\ (new[n].sig.sym = NESymmetry) <=> (SymmetryClass(f, x) # {x})
  <2>1. PICK s \in Slots(Sets(part), key) :
           /\ new[n].sig = sig[s]
           /\ s[1] \in DOMAIN part
           /\ part[s[1]].sig \in PISignatures
           /\ \A y \in new[n].ins : y \in part[s[1]].ins /\ key[s[1]][y] = s[2]
    BY <1>5 DEF SignedBy
  <2>2. x \in part[s[1]].ins /\ x \in f.ins /\ s[2] = ClassOrder(f, x)
    BY <1>2, <1>3, <1>6, <2>1
  <2>3. /\ new[n].sig.unat = part[s[1]].sig.unat
        /\ new[n].sig.sym = IF s[2] = Cardinality(f.ins) THEN NoSymmetry ELSE NESymmetry
    BY <1>4, <2>1 DEF PISignatures
  <2>4. part[s[1]].sig.unat = UnatenessOf(f, x)
    BY <2>1, <2>2 DEF UnatenessSigned
  <2> QED
    BY <2>2, <2>3, <2>4, ClassOrderOfClass DEF NoSymmetry, NESymmetry
<1> QED
  BY <1>1, <1>6 DEF UnatenessSigned, SymmetrySigned

\* A simulation only appends to the vectors of a signature.
LEMMA SimulationKeepsSigns ==
    ASSUME NEW f, IsCone(f, Names), NEW part, Sound(f, part),
           NEW kind, NEW base, NEW i,
           UnatenessSigned(f, part), SymmetrySigned(f, part)
    PROVE  LET new == BySimulation(kind, part, SimKey(kind, f, part, base, i), i) IN
           UnatenessSigned(f, new) /\ SymmetrySigned(f, new)
<1> DEFINE key == SimKey(kind, f, part, base, i)
           sign(s) == IF s[1] # i THEN part[s[1]].sig
                      ELSE IF kind = "type1"
                           THEN [part[i].sig EXCEPT !.t1 = Append(@, s[2])]
                           ELSE [part[i].sig EXCEPT !.t2 = Append(@, s[2])]
           sig == [s \in Slots(Sets(part), key) |-> sign(s)]
           halves == SplitClusters(part, key, sig)
<1>1. BySimulation(kind, part, key, i) \in {part, halves}
  BY DEF BySimulation
<1>2. part \in Seq(Clusters) /\ Fair(f, part, key)
  BY SimulationIsFair DEF Sound
<1>3. \A s \in Slots(Sets(part), key) : sig[s] = sign(s)
  OBVIOUS
<1>4. SignedBy(part, key, sig, halves)
  BY <1>2, SlotSigned
<1> HIDE DEF key, sig, halves
<1>5. ASSUME NEW n \in DOMAIN halves, NEW x \in halves[n].ins
      PROVE  /\ halves[n].sig.unat = UnatenessOf(f, x)
             /\ (halves[n].sig.sym = NESymmetry) <=> (SymmetryClass(f, x) # {x})
  <2>1. PICK s \in Slots(Sets(part), key) :
           /\ halves[n].sig = sig[s]
           /\ s[1] \in DOMAIN part
           /\ part[s[1]].sig \in PISignatures
           /\ \A y \in halves[n].ins : y \in part[s[1]].ins /\ key[s[1]][y] = s[2]
    BY <1>4 DEF SignedBy
  <2>2. /\ halves[n].sig.unat = part[s[1]].sig.unat
        /\ halves[n].sig.sym = part[s[1]].sig.sym
    <3>1. halves[n].sig = sign(s)
      BY <1>3, <2>1
    <3> HIDE DEF halves
    <3>2. \A r \in PISignatures : \A v :
             /\ [r EXCEPT !.t1 = v].unat = r.unat /\ [r EXCEPT !.t1 = v].sym = r.sym
             /\ [r EXCEPT !.t2 = v].unat = r.unat /\ [r EXCEPT !.t2 = v].sym = r.sym
      BY DEF PISignatures
    <3>3. CASE s[1] # i
      BY <3>1, <3>3
    <3>4. CASE s[1] = i /\ kind = "type1"
      <4>1. sign(s) = [part[s[1]].sig EXCEPT !.t1 = Append(part[s[1]].sig.t1, s[2])]
        BY <3>4
      <4> QED
        BY <2>1, <3>1, <3>2, <4>1
    <3>5. CASE s[1] = i /\ kind # "type1"
      <4>1. sign(s) = [part[s[1]].sig EXCEPT !.t2 = Append(part[s[1]].sig.t2, s[2])]
        BY <3>5
      <4> QED
        BY <2>1, <3>1, <3>2, <4>1
    <3> QED
      BY <3>3, <3>4, <3>5
  <2> QED
    BY <1>5, <2>1, <2>2 DEF UnatenessSigned, SymmetrySigned
<1> QED
  BY <1>1, <1>5 DEF UnatenessSigned, SymmetrySigned, key

\* Every step keeps what is signed true.
LEMMA SignsPreserved ==
    ASSUME IInv, SignsInv, [Next]_vars
    PROVE  SignsInv'
<1>1. cir' = cir
  BY DEF Next, vars, SplitBySupport, SplitByUnateness, SplitBySymmetry, SplitAll,
         BeginRound, Attempt, NextCluster, EndRound, EndLoop, Done
<1>2. SUFFICES ASSUME NEW c \in Circuits, NEW po \in Outputs(c)
               PROVE  /\ stage' \notin {"support", "unateness"} =>
                             UnatenessSigned(Cone(c, po), piPart'[c][po])
                      /\ stage' \notin {"support", "unateness", "symmetry"} =>
                             SymmetrySigned(Cone(c, po), piPart'[c][po])
  BY <1>1 DEF SignsInv, Outputs, Cone
<1> DEFINE f == Cone(c, po)
           part == piPart[c][po]
<1>3. IsCone(f, Names) /\ (stage # "support" => Sound(f, part))
  BY InvariantIsSound, CircuitCones DEF IInv
<1>4. /\ stage \notin {"support", "unateness"} => UnatenessSigned(f, part)
      /\ stage \notin {"support", "unateness", "symmetry"} => SymmetrySigned(f, part)
  BY DEF SignsInv
<1>5. CASE SplitBySupport
  BY <1>5, StageOrder DEF SplitBySupport, SplitAll
<1>6. CASE SplitByUnateness
  <2>1. piPart'[c][po] = ByUnateness(f, part) /\ stage = "unateness"
        /\ stage' = "symmetry"
    BY <1>6, StageOrder DEF SplitByUnateness, SplitAll
  <2> QED
    BY <1>3, <2>1, UnatenessSigns
<1>7. CASE SplitBySymmetry
  <2>1. piPart'[c][po] = BySymmetry(f, part) /\ stage = "symmetry"
    BY <1>7 DEF SplitBySymmetry, SplitAll
  <2> QED
    BY <1>3, <1>4, <2>1, SymmetrySignsTrue
<1>8. CASE Attempt
  <2>1. PICK base :
           piPart'[c][po] \in
              {part, BySimulation(stage, part, SimKey(stage, f, part, base, ind), ind)}
    BY <1>8, AttemptOfOne
  <2>2. stage \in SimStages /\ stage' = stage
    BY <1>8 DEF Attempt
  <2>3. stage \notin {"support", "unateness", "symmetry"}
    BY <2>2 DEF SimStages
  <2> QED
    BY <1>3, <1>4, <2>1, <2>2, <2>3, SimulationKeepsSigns
<1>9. CASE BeginRound \/ NextCluster \/ EndRound \/ Done \/ UNCHANGED vars
  <2>1. piPart' = piPart /\ stage' = stage
    BY <1>9 DEF BeginRound, NextCluster, EndRound, Done, vars
  <2> QED
    BY <1>4, <2>1
<1>10. CASE EndLoop
  <2>1. piPart' = piPart /\ stage \in SimStages
    BY <1>10 DEF EndLoop
  <2>2. stage \notin {"support", "unateness", "symmetry"}
    BY <2>1 DEF SimStages
  <2> QED
    BY <1>4, <2>1, <2>2
<1> QED
  BY <1>5, <1>6, <1>7, <1>8, <1>9, <1>10 DEF Next

\* What the signature of a cluster says of unateness and symmetry is true of
\* each of its inputs, for every pair of circuits and every random vector
\* (matcher.cpp:199-213, 242-277): later splits copy signatures.
THEOREM SignaturesStayTruthful == Spec => []SignaturesTruthful
<1>1. Init => SignsInv
  BY DEF Init, SignsInv
<1>2. IInv /\ SignsInv /\ [Next]_vars => SignsInv'
  BY SignsPreserved
<1>3. SignsInv => SignaturesTruthful
  <2> SUFFICES ASSUME SignsInv, stage \in SimStages \cup {"done"},
                      NEW c \in Circuits, NEW po \in Outputs(c),
                      NEW k \in DOMAIN piPart[c][po], NEW x \in piPart[c][po][k].ins
               PROVE  LET f == Cone(c, po) sig == piPart[c][po][k].sig IN
                      /\ CASE sig.unat = PosUnate -> PosUnateIn(f, x)
                           [] sig.unat = NegUnate -> NegUnateIn(f, x)
                           [] OTHER -> ~PosUnateIn(f, x) /\ ~NegUnateIn(f, x)
                      /\ (sig.sym = NESymmetry) <=> (SymmetryClass(f, x) # {x})
    BY DEF SignaturesTruthful
  <2>1. stage \notin {"support", "unateness", "symmetry"}
    BY DEF SimStages
  <2>2. /\ piPart[c][po][k].sig.unat = UnatenessOf(Cone(c, po), x)
        /\ (piPart[c][po][k].sig.sym = NESymmetry) <=> (SymmetryClass(Cone(c, po), x) # {x})
    BY <2>1 DEF SignsInv, UnatenessSigned, SymmetrySigned
  <2> QED
    BY <2>2 DEF UnatenessOf, PosUnate, NegUnate, Binate
<1> QED
  BY <1>1, <1>2, <1>3, Invariance, PTL DEF Spec

-------------------------------------------------------------------------------
(***************************************************************************)
(* A round that splits something leaves more clusters: a split never makes *)
(* an empty one, so that a cluster with two keys becomes two.              *)
(***************************************************************************)
\* No cluster of part is empty.
NoneEmpty(part) == \A k \in DOMAIN part : part[k].ins # {}

\* From splitByUnateness on there are no empty clusters.  (splitBySupport makes
\* one of an output that depends on no input.)
NonEmptyInv ==
    stage \notin {"support", "unateness"} =>
        \A c \in Circuits : \A po \in Outputs(c) : NoneEmpty(piPart[c][po])

\* A split by a fair key makes a cluster only for a key some input has, and as
\* many as there are slots.
LEMMA SplitClustersNotEmpty ==
    ASSUME NEW f, NEW part \in Seq(Clusters), NEW key, Fair(f, part, key),
           NEW sig, \A s \in Slots(Sets(part), key) : sig[s] \in PISignatures
    PROVE  LET new == SplitClusters(part, key, sig) IN
           /\ NoneEmpty(new)
           /\ Len(new) = Cardinality(Slots(Sets(part), key))
<1> DEFINE S == Slots(Sets(part), key)
           new == SplitClusters(part, key, sig)
           old == SplitBy(Sets(part), key)
<1>1. IsKeyed(Sets(part), key)
  BY SetsKeyed
<1>2. /\ new \in Seq(Clusters)
      /\ DOMAIN new = DOMAIN old
      /\ \A n \in DOMAIN new : new[n].ins = old[n]
  BY SplitClustersProperties
<1>3. DOMAIN old = 1..Cardinality(S) /\ \A n \in DOMAIN old : old[n] # {}
  BY <1>1, SplitByClusters
<1>4. Cardinality(S) \in Nat
  BY <1>1, SlotsFinite, FS_CardinalityType DEF IsFiniteSlots
<1> HIDE DEF S, new, old
<1>5. NoneEmpty(new)
  BY <1>2, <1>3 DEF NoneEmpty
<1>6. Len(new) = Cardinality(S)
  BY <1>2, <1>3, <1>4
<1> QED
  BY <1>5, <1>6 DEF new, S

\* splitByUnateness and splitBySymmetry leave no empty cluster.
LEMMA CallsLeaveNoneEmpty ==
    ASSUME NEW f, IsCone(f, Names), NEW part, Sound(f, part)
    PROVE  NoneEmpty(ByUnateness(f, part)) /\ NoneEmpty(BySymmetry(f, part))
<1>1. part \in Seq(Clusters)
  BY DEF Sound
<1>2. NoneEmpty(ByUnateness(f, part))
  <2> DEFINE key == [k \in DOMAIN part |-> [x \in part[k].ins |-> UnatenessOf(f, x)]]
             sig == [s \in Slots(Sets(part), key) |->
                        [part[s[1]].sig EXCEPT !.unat = s[2]]]
  <2>1. Fair(f, part, key)
    BY UnatenessIsFair
  <2>2. \A x : UnatenessOf(f, x) \in 0..3
    BY DEF UnatenessOf, Binate, PosUnate, NegUnate
  <2>3. \A k \in DOMAIN part : \A x \in part[k].ins : key[k][x] = UnatenessOf(f, x)
    OBVIOUS
  <2>4. ASSUME NEW s \in Slots(Sets(part), key)
        PROVE  sig[s] \in PISignatures
    <3>1. part[s[1]].sig \in PISignatures /\ s[2] \in 0..3
      BY <1>1, <2>2, <2>3, SlotOrigin
    <3> QED
      BY <3>1 DEF PISignatures
  <2>5. NoneEmpty(SplitClusters(part, key, sig))
    BY <1>1, <2>1, <2>4, SplitClustersNotEmpty
  <2> QED
    BY <2>5 DEF ByUnateness
<1>3. NoneEmpty(BySymmetry(f, part))
  <2> DEFINE key == SymmetryKey(f, part)
             sig == SymmetrySigns(f, part)
  <2>1. Fair(f, part, key) /\ BySymmetry(f, part) = SplitClusters(part, key, sig)
    BY SymmetryPushesSlots
  <2>2. ASSUME NEW s \in Slots(Sets(part), key)
        PROVE  sig[s] \in PISignatures
    <3>1. part[s[1]].sig \in PISignatures
      BY <1>1, SlotOrigin
    <3> QED
      BY <3>1 DEF SymmetrySigns, PISignatures, NoSymmetry, NESymmetry
  <2>3. NoneEmpty(SplitClusters(part, key, sig))
    BY <1>1, <2>1, <2>2, SplitClustersNotEmpty
  <2> QED
    BY <2>1, <2>3
<1> QED
  BY <1>2, <1>3

\* A simulation leaves no empty cluster.
LEMMA SimulationLeavesNoneEmpty ==
    ASSUME NEW f, IsCone(f, Names), NEW part, Sound(f, part), NoneEmpty(part),
           NEW kind, NEW base, NEW i
    PROVE  NoneEmpty(BySimulation(kind, part, SimKey(kind, f, part, base, i), i))
<1> DEFINE key == SimKey(kind, f, part, base, i)
           sigs == [s \in Slots(Sets(part), key) |-> SimulationSign(kind, part, i, s)]
<1>1. part \in Seq(Clusters) /\ Fair(f, part, key)
  BY SimulationIsFair DEF Sound
<1>2. \A s \in Slots(Sets(part), key) : sigs[s] \in PISignatures
  BY SimulationSigns
<1>3. NoneEmpty(SplitClusters(part, key, sigs))
  BY <1>1, <1>2, SplitClustersNotEmpty
<1>4. BySimulation(kind, part, key, i) \in {part, SplitClusters(part, key, sigs)}
  BY DEF BySimulation, SimulationSign
<1> QED
  BY <1>3, <1>4

\* A simulation of cluster i leaves more clusters when the keys differ, and else
\* the clusters as they are.
Grows(kind, f, part, base, i) ==
    LET key == SimKey(kind, f, part, base, i)
        new == BySimulation(kind, part, key, i)
    IN  /\ CanSplit(part, key, i) => Len(part) < Len(new)
        /\ ~CanSplit(part, key, i) => new = part

\* It does, since every key makes a cluster and no other cluster is lost.
LEMMA SimulationGrows ==
    ASSUME NEW f, IsCone(f, Names), NEW part, Sound(f, part), NoneEmpty(part),
           NEW kind \in SimStages, NEW base, NEW i \in DOMAIN part
    PROVE  Grows(kind, f, part, base, i)
<1> DEFINE key == SimKey(kind, f, part, base, i)
           new == BySimulation(kind, part, key, i)
           sigs == [s \in Slots(Sets(part), key) |-> SimulationSign(kind, part, i, s)]
<1>1. part \in Seq(Clusters) /\ Fair(f, part, key)
  BY SimulationIsFair DEF Sound
<1>2. \A s \in Slots(Sets(part), key) : sigs[s] \in PISignatures
  BY SimulationSigns
<1>3. CASE CanSplit(part, key, i)
  <2>1. new = SplitClusters(part, key, sigs)
    BY <1>3 DEF BySimulation, SimulationSign
  <2>2. Len(new) = Cardinality(Slots(Sets(part), key))
    BY <1>1, <1>2, <2>1, SplitClustersNotEmpty
  <2>3. PICK x \in part[i].ins, y \in part[i].ins : key[i][x] # key[i][y]
    BY <1>3 DEF CanSplit
  <2>4. /\ DOMAIN Sets(part) = DOMAIN part
        /\ \A k \in DOMAIN part : Sets(part)[k] = part[k].ins
        /\ Len(Sets(part)) = Len(part)
    BY <1>1, SetsProperties
  <2>5. IsKeyed(Sets(part), key)
    BY <1>1, SetsKeyed
  <2> HIDE DEF key, new
  <2>6. \A k \in DOMAIN Sets(part) : Sets(part)[k] # {}
    BY <2>4 DEF NoneEmpty
  <2>7. i \in DOMAIN Sets(part) /\ x \in Sets(part)[i] /\ y \in Sets(part)[i]
    BY <2>4
  <2>8. Len(Sets(part)) < Cardinality(Slots(Sets(part), key))
    BY <2>3, <2>5, <2>6, <2>7, SplitByGrows
  <2>9. Len(part) < Len(new)
    BY <2>2, <2>4, <2>8
  <2> QED
    BY <1>3, <2>9 DEF Grows, key, new
<1>4. CASE ~CanSplit(part, key, i)
  BY <1>4 DEF Grows, BySimulation
<1> QED
  BY <1>3, <1>4

\* No step changes the circuits.
LEMMA CircuitsStay == [Next]_vars => cir' = cir
  BY DEF Next, vars, SplitBySupport, SplitByUnateness, SplitBySymmetry, SplitAll,
         BeginRound, Attempt, NextCluster, EndRound, EndLoop, Done

\* Every step keeps the clusters from being empty.
LEMMA NonEmptyPreserved ==
    ASSUME IInv, NonEmptyInv, [Next]_vars
    PROVE  NonEmptyInv'
<1>1. cir' = cir
  BY CircuitsStay
<1>2. SUFFICES ASSUME NEW c \in Circuits, NEW po \in Outputs(c)
               PROVE  stage' \notin {"support", "unateness"} => NoneEmpty(piPart'[c][po])
  BY <1>1 DEF NonEmptyInv, Outputs
<1> DEFINE f == Cone(c, po)
           part == piPart[c][po]
<1>3. IsCone(f, Names) /\ (stage # "support" => Sound(f, part))
  BY InvariantIsSound, CircuitCones DEF IInv
<1>4. stage \notin {"support", "unateness"} => NoneEmpty(part)
  BY DEF NonEmptyInv
<1>5. CASE SplitBySupport
  BY <1>5, StageOrder DEF SplitBySupport, SplitAll
<1>6. CASE SplitByUnateness
  <2>1. piPart'[c][po] = ByUnateness(f, part) /\ stage = "unateness"
    BY <1>6 DEF SplitByUnateness, SplitAll
  <2> QED
    BY <1>3, <2>1, CallsLeaveNoneEmpty
<1>7. CASE SplitBySymmetry
  <2>1. piPart'[c][po] = BySymmetry(f, part) /\ stage = "symmetry"
    BY <1>7 DEF SplitBySymmetry, SplitAll
  <2> QED
    BY <1>3, <2>1, CallsLeaveNoneEmpty
<1>8. CASE Attempt
  <2>1. PICK base :
           piPart'[c][po] \in
              {part, BySimulation(stage, part, SimKey(stage, f, part, base, ind), ind)}
    BY <1>8, AttemptOfOne
  <2>2. stage \in SimStages /\ stage \notin {"support", "unateness"}
    BY <1>8 DEF Attempt, SimStages
  <2>3. NoneEmpty(BySimulation(stage, part, SimKey(stage, f, part, base, ind), ind))
    BY <1>3, <1>4, <2>2, SimulationLeavesNoneEmpty
  <2> QED
    BY <1>4, <2>1, <2>2, <2>3
<1>9. CASE BeginRound \/ NextCluster \/ EndRound \/ Done \/ UNCHANGED vars
  <2>1. piPart' = piPart /\ stage' = stage
    BY <1>9 DEF BeginRound, NextCluster, EndRound, Done, vars
  <2> QED
    BY <1>4, <2>1
<1>10. CASE EndLoop
  <2>1. piPart' = piPart /\ stage \in SimStages
    BY <1>10 DEF EndLoop
  <2>2. stage \notin {"support", "unateness"}
    BY <2>1 DEF SimStages
  <2> QED
    BY <1>4, <2>1, <2>2
<1> QED
  BY <1>5, <1>6, <1>7, <1>8, <1>9, <1>10 DEF Next

\* A signature has a number and a signature for each cluster.
LEMMA SignatureLength ==
    ASSUME NEW p \in Seq(Clusters)
    PROVE  Len(POSignature(p).input_signatures) = Len(p)
<1> DEFINE pairs == [k \in 1..Len(p) |-> <<Cardinality(p[k].ins), p[k].sig>>]
<1>1. Len(p) \in Nat /\ DOMAIN p = 1..Len(p)
  OBVIOUS
<1>2. pairs \in [1..Len(p) -> {pairs[k] : k \in 1..Len(p)}]
  OBVIOUS
<1>3. pairs \in Seq({pairs[k] : k \in 1..Len(p)})
  BY <1>1, <1>2, IsASeq
<1>4. DOMAIN pairs = 1..Len(p)
  OBVIOUS
<1> HIDE DEF pairs
<1>5. Len(pairs) = Len(p)
  BY <1>1, <1>3, <1>4
<1>6. POSignature(p).input_signatures = pairs
  BY <1>1 DEF POSignature, pairs
<1> QED
  BY <1>5, <1>6

\* The outputs an attempt visits have the cluster it tries to split, and they
\* get more clusters exactly when it can be split.
LEMMA AttemptGrows ==
    ASSUME IInv, NonEmptyInv, Attempt
    PROVE  split' <=> \E c \in Circuits : \E po \in Outputs(c) :
                         Len(piPart'[c][po]) > Len(piPart[c][po])
<1>1. PICK sign \in todo :
         /\ ind <= Len(sign.input_signatures)
         /\ \E base \in [1..Len(sign.input_signatures) -> BOOLEAN] :
             /\ piPart' = [c \in Circuits |-> [po \in Outputs(c) |->
                     IF po \in poPart[c][sign]
                     THEN BySimulation(stage, piPart[c][po],
                              SimKey(stage, Cone(c, po), piPart[c][po], base, ind), ind)
                     ELSE piPart[c][po]]]
             /\ split' = \E c \in Circuits : \E po \in poPart[c][sign] :
                     CanSplit(piPart[c][po],
                              SimKey(stage, Cone(c, po), piPart[c][po], base, ind), ind)
  BY DEF Attempt
<1>2. PICK base \in [1..Len(sign.input_signatures) -> BOOLEAN] :
         /\ piPart' = [c \in Circuits |-> [po \in Outputs(c) |->
                 IF po \in poPart[c][sign]
                 THEN BySimulation(stage, piPart[c][po],
                          SimKey(stage, Cone(c, po), piPart[c][po], base, ind), ind)
                 ELSE piPart[c][po]]]
         /\ split' = \E c \in Circuits : \E po \in poPart[c][sign] :
                 CanSplit(piPart[c][po],
                          SimKey(stage, Cone(c, po), piPart[c][po], base, ind), ind)
  BY <1>1
<1>3. stage \in SimStages /\ stage \notin {"support", "unateness"} /\ inRound /\ ~split
  BY DEF Attempt, SimStages
<1>4. sign \in Common /\ ind \in Nat \ {0}
  BY <1>1, <1>3 DEF IInv, TypeOK, RoundOK
<1> DEFINE key(c, po) == SimKey(stage, Cone(c, po), piPart[c][po], base, ind)
<1>5. \A c \in Circuits : poPart[c][sign] =
                             {po \in Outputs(c) : POSignature(piPart[c][po]) = sign}
  <2> SUFFICES ASSUME NEW c \in Circuits
               PROVE  poPart[c][sign] = {po \in Outputs(c) : POSignature(piPart[c][po]) = sign}
    OBVIOUS
  <2>1. poPart[c] = Regroup(piPart[c]) /\ sign \in DOMAIN poPart[c]
    BY <1>3, <1>4 DEF IInv, SignaturesCurrent, Common, Circuits
  <2>2. DOMAIN piPart[c] = Outputs(c)
    BY DEF IInv, TypeOK
  <2> QED
    BY <2>1, <2>2, RegroupProperties
<1>6. ASSUME NEW c \in Circuits, NEW po \in poPart[c][sign]
      PROVE  /\ po \in Outputs(c)
             /\ piPart'[c][po] = BySimulation(stage, piPart[c][po], key(c, po), ind)
             /\ CanSplit(piPart[c][po], key(c, po), ind) =>
                    Len(piPart'[c][po]) > Len(piPart[c][po])
             /\ ~CanSplit(piPart[c][po], key(c, po), ind) => piPart'[c][po] = piPart[c][po]
  <2> DEFINE f == Cone(c, po)
             part == piPart[c][po]
  <2>1. po \in Outputs(c) /\ POSignature(part) = sign
    BY <1>5
  <2>2. IsCone(f, Names) /\ Sound(f, part) /\ NoneEmpty(part)
    BY <1>3, <2>1, InvariantIsSound, CircuitCones DEF IInv, NonEmptyInv
  <2>3. part \in Seq(Clusters)
    BY <2>2 DEF Sound
  <2>4. ind \in DOMAIN part
    <3>1. Len(part) = Len(sign.input_signatures)
      BY <2>1, <2>3, SignatureLength
    <3>2. Len(part) \in Nat /\ DOMAIN part = 1..Len(part)
      BY <2>3
    <3> QED
      BY <1>1, <1>4, <3>1, <3>2
  <2>5. piPart'[c][po] = BySimulation(stage, part, key(c, po), ind)
    BY <1>2, <2>1
  <2> HIDE DEF f, part
  <2>6. Grows(stage, f, part, base, ind)
    BY <1>3, <2>2, <2>4, SimulationGrows
  <2>7. /\ CanSplit(part, key(c, po), ind) => Len(part) < Len(piPart'[c][po])
        /\ ~CanSplit(part, key(c, po), ind) => piPart'[c][po] = part
    BY <2>5, <2>6 DEF Grows, f, part
  <2>8. Len(part) < Len(piPart'[c][po]) => Len(piPart'[c][po]) > Len(part)
    OBVIOUS
  <2> QED
    BY <2>1, <2>5, <2>7, <2>8 DEF part
<1>7. ASSUME NEW c \in Circuits, NEW po \in Outputs(c), Len(piPart'[c][po]) > Len(piPart[c][po])
      PROVE  po \in poPart[c][sign] /\ CanSplit(piPart[c][po], key(c, po), ind)
  <2>1. piPart'[c][po] # piPart[c][po]
    <3>1. piPart[c][po] \in Seq(Clusters)
      BY DEF IInv, TypeOK
    <3>2. Len(piPart[c][po]) \in Nat
      BY <3>1
    <3> QED
      BY <1>7, <3>2
  <2>2. po \notin poPart[c][sign] => piPart'[c][po] = piPart[c][po]
    BY <1>2
  <2> QED
    BY <1>6, <2>1, <2>2
<1> QED
  BY <1>2, <1>6, <1>7

\* A round reports a split exactly in the step that leaves an output with more
\* clusters of inputs (matcher.cpp:107-160): resetting the counter of the loop
\* then is no reason for it not to end, since there are finitely many inputs.
THEOREM SplitsMakeProgress == Spec => SplitIsProgress
<1> DEFINE Progress ==
              (split' /\ ~split) <=>
                  \E c \in Circuits : \E po \in Outputs(c) :
                      stage \in SimStages /\ Len(piPart'[c][po]) > Len(piPart[c][po])
<1>1. Init => NonEmptyInv
  BY DEF Init, NonEmptyInv
<1>2. IInv /\ NonEmptyInv /\ [Next]_vars => NonEmptyInv'
  BY NonEmptyPreserved
<1>3. IInv /\ NonEmptyInv /\ [Next]_vars => [Progress]_vars
  <2> SUFFICES ASSUME IInv, NonEmptyInv, Next
               PROVE  Progress
    OBVIOUS
  <2>1. CASE Attempt
    <3>1. stage \in SimStages /\ ~split
      BY <2>1 DEF Attempt
    <3> QED
      BY <2>1, <3>1, AttemptGrows
  <2>2. CASE SplitBySupport \/ SplitByUnateness \/ SplitBySymmetry
    <3>1. stage \notin SimStages /\ split' = split
      BY <2>2 DEF SplitBySupport, SplitByUnateness, SplitBySymmetry, SplitAll, SimStages
    <3> QED
      BY <3>1
  <2>3. CASE BeginRound \/ NextCluster \/ EndRound \/ EndLoop \/ Done
    <3>1. piPart' = piPart
      BY <2>3 DEF BeginRound, NextCluster, EndRound, EndLoop, Done, vars
    <3>2. ~(split' /\ ~split)
      BY <2>3, Zenon DEF BeginRound, NextCluster, EndRound, EndLoop, Done, vars
    <3>3. \A c \in Circuits : \A po \in Outputs(c) :
             ~(Len(piPart'[c][po]) > Len(piPart[c][po]))
      <4> SUFFICES ASSUME NEW c \in Circuits, NEW po \in Outputs(c)
                   PROVE  ~(Len(piPart'[c][po]) > Len(piPart[c][po]))
        OBVIOUS
      <4>1. piPart[c][po] \in Seq(Clusters)
        BY DEF IInv, TypeOK
      <4>2. Len(piPart[c][po]) \in Nat
        BY <4>1
      <4> QED
        BY <3>1, <4>2
    <3> QED
      BY <3>2, <3>3
  <2> QED
    BY <2>1, <2>2, <2>3 DEF Next
<1> QED
  BY <1>1, <1>2, <1>3, Invariance, PTL DEF Spec, SplitIsProgress

-------------------------------------------------------------------------------
(***************************************************************************)
(* What relates the two circuits.  The matcher keeps every real match,     *)
(* when the symmetry classes of the two cones are in the same order: a     *)
(* renaming of inputs under which two outputs compute the same function    *)
(* then renames each cluster of one to the cluster of the other with the   *)
(* same position, and the signatures are equal, whatever the random        *)
(* vectors.                                                                *)
(***************************************************************************)
\* The clusters of p are renamed by r to those of q.
Corresponding(r, p, q) ==
    /\ DOMAIN p = DOMAIN q
    /\ \A k \in DOMAIN p : p[k].sig = q[k].sig /\ Image(r, p[k].ins) = q[k].ins

\* Two keys put the inputs of each cluster and those they are renamed to in the
\* same order.
SameOrder(r, p, key1, key2) ==
    \A k \in DOMAIN p : \A x, y \in p[k].ins :
        key1[k][x] < key1[k][y] <=> key2[k][r[x]] < key2[k][r[y]]

-------------------------------------------------------------------------------
(***************************************************************************)
(* Splitting corresponding clusters by corresponding keys.                 *)
(***************************************************************************)
\* b sends the slot of each input to the slot of the input it is renamed to, and
\* keeps the order of the slots.
SlotRenaming(b, r, p, key1, q, key2) ==
    /\ b \in Surjection(Slots(Sets(p), key1), Slots(Sets(q), key2))
    /\ \A s, t \in Slots(Sets(p), key1) : Before(s, t) <=> Before(b[s], b[t])
    /\ \A k \in DOMAIN p : \A x \in p[k].ins :
          /\ <<k, key1[k][x]>> \in Slots(Sets(p), key1)
          /\ b[<<k, key1[k][x]>>] = <<k, key2[k][r[x]]>>

\* The slots of the two splits correspond, in their order.
LEMMA SlotsRenamed ==
    ASSUME NEW f, NEW p \in Seq(Clusters), NEW key1, Fair(f, p, key1),
           NEW g, NEW q \in Seq(Clusters), NEW key2, Fair(g, q, key2),
           NEW r, Corresponding(r, p, q), SameOrder(r, p, key1, key2)
    PROVE  /\ IsFiniteSlots(Slots(Sets(p), key1))
           /\ IsFiniteSlots(Slots(Sets(q), key2))
           /\ \E b : SlotRenaming(b, r, p, key1, q, key2)
<1> DEFINE S == Slots(Sets(p), key1)
           T == Slots(Sets(q), key2)
           elem(s) == CHOOSE x \in p[s[1]].ins : key1[s[1]][x] = s[2]
           b == [s \in S |-> <<s[1], key2[s[1]][r[elem(s)]]>>]
<1>1. IsFiniteSlots(S) /\ IsFiniteSlots(T)
  BY SetsKeyed, SlotsFinite
<1>2. /\ DOMAIN Sets(p) = DOMAIN p /\ \A k \in DOMAIN p : Sets(p)[k] = p[k].ins
      /\ DOMAIN Sets(q) = DOMAIN p /\ \A k \in DOMAIN p : Sets(q)[k] = q[k].ins
  BY SetsProperties DEF Corresponding
<1>3. \A k \in DOMAIN p : \A x \in p[k].ins :
         key1[k][x] \in Nat /\ r[x] \in q[k].ins /\ key2[k][r[x]] \in Nat
  BY DEF Fair, Corresponding, Image
<1>4. ASSUME NEW k \in DOMAIN p, NEW x \in p[k].ins, NEW y \in p[k].ins,
             key1[k][x] = key1[k][y]
      PROVE  key2[k][r[x]] = key2[k][r[y]]
  <2>1. /\ ~(key1[k][x] < key1[k][y]) /\ ~(key1[k][y] < key1[k][x])
        /\ key2[k][r[x]] \in Nat /\ key2[k][r[y]] \in Nat
    BY <1>3, <1>4
  <2>2. ~(key2[k][r[x]] < key2[k][r[y]]) /\ ~(key2[k][r[y]] < key2[k][r[x]])
    BY <2>1 DEF SameOrder
  <2> QED
    BY <2>1, <2>2
<1>5. ASSUME NEW k \in DOMAIN p, NEW x \in p[k].ins
      PROVE  <<k, key1[k][x]>> \in S /\ b[<<k, key1[k][x]>>] = <<k, key2[k][r[x]]>>
  <2> DEFINE s == <<k, key1[k][x]>>
  <2>1. s \in S
    BY <1>2 DEF Slots
  <2>2. elem(s) \in p[k].ins /\ key1[k][elem(s)] = key1[k][x]
    OBVIOUS
  <2>3. key2[k][r[elem(s)]] = key2[k][r[x]]
    BY <1>4, <2>2
  <2>4. b[s] = <<s[1], key2[s[1]][r[elem(s)]]>>
    BY <2>1
  <2> QED
    BY <2>1, <2>3, <2>4
<1>6. \A s \in S : \E k \in DOMAIN p : \E x \in p[k].ins : s = <<k, key1[k][x]>>
  BY <1>2 DEF Slots
<1>7. \A t \in T : \E k \in DOMAIN p : \E x \in p[k].ins : t = <<k, key2[k][r[x]]>>
  <2> SUFFICES ASSUME NEW t \in T
               PROVE  \E k \in DOMAIN p : \E x \in p[k].ins : t = <<k, key2[k][r[x]]>>
    OBVIOUS
  <2>1. PICK k \in DOMAIN p : \E y \in q[k].ins : t = <<k, key2[k][y]>>
    BY <1>2 DEF Slots
  <2>2. PICK y \in q[k].ins : t = <<k, key2[k][y]>>
    BY <2>1
  <2>3. PICK x \in p[k].ins : y = r[x]
    BY DEF Corresponding, Image
  <2> QED
    BY <2>2, <2>3
<1>8. \A k \in DOMAIN p : \A x \in p[k].ins : <<k, key2[k][r[x]]>> \in T
  BY <1>2, <1>3 DEF Slots
<1> DOMAIN b = S
  OBVIOUS
<1> HIDE DEF S, T, b, elem
<1>9. b \in Surjection(S, T)
  <2>1. ASSUME NEW s \in S
        PROVE  b[s] \in T
    <3>1. PICK k \in DOMAIN p : \E x \in p[k].ins : s = <<k, key1[k][x]>>
      BY <1>6
    <3>2. PICK x \in p[k].ins : s = <<k, key1[k][x]>>
      BY <3>1
    <3>3. b[<<k, key1[k][x]>>] = <<k, key2[k][r[x]]>>
      BY <1>5
    <3> QED
      BY <1>8, <3>2, <3>3
  <2>2. ASSUME NEW t \in T
        PROVE  \E s \in S : b[s] = t
    <3>1. PICK k \in DOMAIN p : \E x \in p[k].ins : t = <<k, key2[k][r[x]]>>
      BY <1>7
    <3>2. PICK x \in p[k].ins : t = <<k, key2[k][r[x]]>>
      BY <3>1
    <3>3. <<k, key1[k][x]>> \in S /\ b[<<k, key1[k][x]>>] = <<k, key2[k][r[x]]>>
      BY <1>5
    <3> QED
      BY <3>2, <3>3
  <2>3. b \in [S -> T]
    BY <2>1 DEF b
  <2> QED
    BY <2>2, <2>3 DEF Surjection
<1>10. ASSUME NEW s \in S, NEW t \in S
       PROVE  Before(s, t) <=> Before(b[s], b[t])
  <2>1. PICK j \in DOMAIN p : \E x \in p[j].ins : s = <<j, key1[j][x]>>
    BY <1>6
  <2>2. PICK x \in p[j].ins : s = <<j, key1[j][x]>>
    BY <2>1
  <2>3. PICK k \in DOMAIN p : \E y \in p[k].ins : t = <<k, key1[k][y]>>
    BY <1>6
  <2>4. PICK y \in p[k].ins : t = <<k, key1[k][y]>>
    BY <2>3
  <2>5. b[s] = <<j, key2[j][r[x]]>> /\ b[t] = <<k, key2[k][r[y]]>>
    BY <1>5, <2>2, <2>4
  <2>6. j = k => (key1[j][x] < key1[k][y] <=> key2[j][r[x]] < key2[k][r[y]])
    BY DEF SameOrder
  <2> QED
    BY <2>2, <2>4, <2>5, <2>6 DEF Before
<1>11. SlotRenaming(b, r, p, key1, q, key2)
  BY <1>5, <1>9, <1>10 DEF SlotRenaming, S, T
<1> QED
  BY <1>1, <1>11 DEF S, T

\* The clusters of the two splits correspond, when the slots are signed alike.
LEMMA SplitsCorrespond ==
    ASSUME NEW f, NEW p \in Seq(Clusters), NEW key1, Fair(f, p, key1),
           NEW g, NEW q \in Seq(Clusters), NEW key2, Fair(g, q, key2),
           NEW r, Corresponding(r, p, q), SameOrder(r, p, key1, key2),
           NEW sig1, NEW sig2,
           \A k \in DOMAIN p : \A x \in p[k].ins :
               sig2[<<k, key2[k][r[x]]>>] = sig1[<<k, key1[k][x]>>]
    PROVE  Corresponding(r, SplitClusters(p, key1, sig1), SplitClusters(q, key2, sig2))
<1> DEFINE S == Slots(Sets(p), key1)
           T == Slots(Sets(q), key2)
           new1 == SplitClusters(p, key1, sig1)
           new2 == SplitClusters(q, key2, sig2)
<1>1. IsFiniteSlots(S) /\ IsFiniteSlots(T)
  BY SlotsRenamed
<1>0. PICK b : SlotRenaming(b, r, p, key1, q, key2)
  BY SlotsRenamed
<1>2. /\ b \in Surjection(S, T)
      /\ \A s, t \in S : Before(s, t) <=> Before(b[s], b[t])
      /\ \A k \in DOMAIN p : \A x \in p[k].ins :
            b[<<k, key1[k][x]>>] = <<k, key2[k][r[x]]>>
  BY <1>0 DEF SlotRenaming
<1>3. /\ Cardinality(T) = Cardinality(S)
      /\ \A n \in 1..Cardinality(S) : SlotAt(T, n) = b[SlotAt(S, n)]
  BY <1>1, <1>2, SlotsCorrespond
<1>4. /\ new1 = [n \in 1..Cardinality(S) |->
                    [sig |-> sig1[SlotAt(S, n)],
                     ins |-> Members(Sets(p), key1, SlotAt(S, n))]]
      /\ new2 = [n \in 1..Cardinality(T) |->
                    [sig |-> sig2[SlotAt(T, n)],
                     ins |-> Members(Sets(q), key2, SlotAt(T, n))]]
  BY DEF SplitClusters
<1>5. /\ DOMAIN Sets(p) = DOMAIN p /\ \A k \in DOMAIN p : Sets(p)[k] = p[k].ins
      /\ DOMAIN Sets(q) = DOMAIN p /\ \A k \in DOMAIN p : Sets(q)[k] = q[k].ins
  BY SetsProperties DEF Corresponding
<1>6. \A s \in S : \E k \in DOMAIN p : \E x \in p[k].ins : s = <<k, key1[k][x]>>
  BY <1>5 DEF Slots
<1>7. \A k \in DOMAIN p : \A x, y \in p[k].ins :
         key1[k][x] = key1[k][y] <=> key2[k][r[x]] = key2[k][r[y]]
  <2>1. \A k \in DOMAIN p : \A x \in p[k].ins :
           key1[k][x] \in Nat /\ key2[k][r[x]] \in Nat
    BY DEF Fair, Corresponding, Image
  <2>2. \A m, n \in Nat : m = n <=> ~(m < n) /\ ~(n < m)
    OBVIOUS
  <2> QED
    BY <2>1, <2>2 DEF SameOrder
<1>8. ASSUME NEW s \in S
      PROVE  /\ sig2[b[s]] = sig1[s]
             /\ Image(r, Members(Sets(p), key1, s)) = Members(Sets(q), key2, b[s])
  <2>1. PICK k \in DOMAIN p : \E x \in p[k].ins : s = <<k, key1[k][x]>>
    BY <1>6
  <2>2. PICK x \in p[k].ins : s = <<k, key1[k][x]>>
    BY <2>1
  <2>3. b[s] = <<k, key2[k][r[x]]>>
    BY <1>2, <2>2
  <2>4. Members(Sets(p), key1, s) = {y \in p[k].ins : key1[k][y] = key1[k][x]}
    BY <1>5, <2>2 DEF Members
  <2>5. Members(Sets(q), key2, b[s]) = {z \in q[k].ins : key2[k][z] = key2[k][r[x]]}
    BY <1>5, <2>3 DEF Members
  <2>6. q[k].ins = {r[y] : y \in p[k].ins}
    BY DEF Corresponding, Image
  <2>7. \A y \in p[k].ins : key1[k][y] = key1[k][x] <=> key2[k][r[y]] = key2[k][r[x]]
    BY <1>7
  <2>8. {r[y] : y \in {y \in p[k].ins : key1[k][y] = key1[k][x]}} =
            {z \in q[k].ins : key2[k][z] = key2[k][r[x]]}
    BY <2>6, <2>7
  <2> QED
    BY <2>2, <2>3, <2>4, <2>5, <2>8 DEF Image
<1>9. \A n \in 1..Cardinality(S) : SlotAt(S, n) \in S
  BY <1>1, SlotEnumeration
<1> HIDE DEF S, T, new1, new2
<1>10. DOMAIN new1 = 1..Cardinality(S) /\ DOMAIN new2 = 1..Cardinality(S)
  BY <1>3, <1>4
<1>11. ASSUME NEW n \in 1..Cardinality(S)
       PROVE  new1[n].sig = new2[n].sig /\ Image(r, new1[n].ins) = new2[n].ins
  <2>1. /\ new1[n].sig = sig1[SlotAt(S, n)]
        /\ new1[n].ins = Members(Sets(p), key1, SlotAt(S, n))
        /\ new2[n].sig = sig2[b[SlotAt(S, n)]]
        /\ new2[n].ins = Members(Sets(q), key2, b[SlotAt(S, n)])
    BY <1>3, <1>4
  <2> QED
    BY <1>8, <1>9, <2>1
<1> QED
  BY <1>10, <1>11 DEF Corresponding, new1, new2

-------------------------------------------------------------------------------
(***************************************************************************)
(* The splits of the code, of corresponding clusters of two cones.         *)
(***************************************************************************)
\* r renames the inputs of the cone f to those of the cone g, and the clusters of
\* p to those of q.
Matched(f, g, r, p, q) ==
    /\ IsCone(f, Names) /\ IsCone(g, Names) /\ IsMatch(f, g, r)
    /\ Sound(f, p) /\ Sound(g, q)
    /\ Corresponding(r, p, q)

\* What that means for each cluster.
MatchedShape(f, g, r, p, q) ==
    /\ p \in Seq(Clusters) /\ q \in Seq(Clusters) /\ DOMAIN p = DOMAIN q
    /\ \A k \in DOMAIN p :
          /\ p[k].ins \in SUBSET f.ins /\ q[k].ins \in SUBSET g.ins
          /\ p[k].sig = q[k].sig /\ p[k].sig \in PISignatures
          /\ Image(r, p[k].ins) = q[k].ins
          /\ \A x \in p[k].ins : r[x] \in q[k].ins

\* Inputs of a cluster are inputs of the cone.
LEMMA MatchedClusters ==
    ASSUME NEW f, NEW g, NEW r, NEW p, NEW q, Matched(f, g, r, p, q)
    PROVE  MatchedShape(f, g, r, p, q)
<1>1. /\ p \in Seq(Clusters) /\ q \in Seq(Clusters) /\ DOMAIN p = DOMAIN q
      /\ \A k \in DOMAIN p : p[k].sig = q[k].sig /\ Image(r, p[k].ins) = q[k].ins
  BY DEF Matched, Sound, Corresponding
<1>2. \A k \in DOMAIN p : p[k].ins \in SUBSET f.ins /\ p[k].sig \in PISignatures
  BY <1>1, SetsProperties DEF Matched, Sound, IsOrderedPartition
<1>3. \A k \in DOMAIN p : q[k].ins \in SUBSET g.ins
  BY <1>1, SetsProperties DEF Matched, Sound, IsOrderedPartition
<1>4. \A k \in DOMAIN p : \A x \in p[k].ins : r[x] \in q[k].ins
  BY <1>1 DEF Image
<1> QED
  BY <1>1, <1>2, <1>3, <1>4 DEF MatchedShape

\* Each input of a cluster has a slot.
LEMMA InputHasSlot ==
    ASSUME NEW p \in Seq(Clusters), NEW key, NEW k \in DOMAIN p, NEW x \in p[k].ins
    PROVE  <<k, key[k][x]>> \in Slots(Sets(p), key)
<1>1. k \in DOMAIN Sets(p) /\ x \in Sets(p)[k]
  BY DEF Sets
<1> QED
  BY <1>1 DEF Slots

\* An input and the one it is renamed to are unate alike.
LEMMA UnatenessRenamed ==
    ASSUME NEW f, NEW g, NEW r, IsMatch(f, g, r), NEW x \in f.ins
    PROVE  UnatenessOf(g, r[x]) = UnatenessOf(f, x)
  BY MatchUnate DEF UnatenessOf

\* splitByUnateness keeps a match.
LEMMA UnatenessCorresponds ==
    ASSUME NEW f, NEW g, NEW r, NEW p, NEW q, Matched(f, g, r, p, q)
    PROVE  Corresponding(r, ByUnateness(f, p), ByUnateness(g, q))
<1> DEFINE key1 == [k \in DOMAIN p |-> [x \in p[k].ins |-> UnatenessOf(f, x)]]
           key2 == [k \in DOMAIN q |-> [x \in q[k].ins |-> UnatenessOf(g, x)]]
           sig1 == [s \in Slots(Sets(p), key1) |-> [p[s[1]].sig EXCEPT !.unat = s[2]]]
           sig2 == [s \in Slots(Sets(q), key2) |-> [q[s[1]].sig EXCEPT !.unat = s[2]]]
<1>1. Fair(f, p, key1) /\ Fair(g, q, key2)
  BY UnatenessIsFair DEF Matched
<1>a. MatchedShape(f, g, r, p, q)
  BY MatchedClusters
<1>0. /\ p \in Seq(Clusters) /\ q \in Seq(Clusters) /\ DOMAIN p = DOMAIN q
      /\ \A k \in DOMAIN p :
            /\ p[k].sig = q[k].sig /\ p[k].ins \in SUBSET f.ins
            /\ \A x \in p[k].ins : r[x] \in q[k].ins
  BY <1>a DEF MatchedShape
<1>2. ASSUME NEW k \in DOMAIN p, NEW x \in p[k].ins
      PROVE  key1[k][x] = UnatenessOf(f, x) /\ key2[k][r[x]] = UnatenessOf(f, x)
  <2>1. x \in f.ins /\ r[x] \in q[k].ins /\ k \in DOMAIN q
    BY <1>0
  <2>2. UnatenessOf(g, r[x]) = UnatenessOf(f, x)
    BY <2>1, UnatenessRenamed DEF Matched
  <2> QED
    BY <2>1, <2>2
<1>3. \A k \in DOMAIN p : \A x \in p[k].ins :
         <<k, key1[k][x]>> \in Slots(Sets(p), key1)
  BY <1>0, InputHasSlot
<1>4. \A k \in DOMAIN p : \A x \in p[k].ins :
         <<k, key2[k][r[x]]>> \in Slots(Sets(q), key2)
  BY <1>0, InputHasSlot
<1>5. /\ \A s \in Slots(Sets(p), key1) : sig1[s] = [p[s[1]].sig EXCEPT !.unat = s[2]]
      /\ \A s \in Slots(Sets(q), key2) : sig2[s] = [q[s[1]].sig EXCEPT !.unat = s[2]]
  OBVIOUS
<1>6. ByUnateness(f, p) = SplitClusters(p, key1, sig1)
      /\ ByUnateness(g, q) = SplitClusters(q, key2, sig2)
  BY DEF ByUnateness
<1> HIDE DEF key1, key2, sig1, sig2
<1>7. SameOrder(r, p, key1, key2)
  BY <1>2 DEF SameOrder
<1>8. ASSUME NEW k \in DOMAIN p, NEW x \in p[k].ins
      PROVE  sig2[<<k, key2[k][r[x]]>>] = sig1[<<k, key1[k][x]>>]
  <2>1. q[k].sig = p[k].sig /\ key2[k][r[x]] = key1[k][x]
    BY <1>0, <1>2
  <2>2. sig1[<<k, key1[k][x]>>] = [p[k].sig EXCEPT !.unat = key1[k][x]]
    BY <1>3, <1>5
  <2>3. sig2[<<k, key2[k][r[x]]>>] = [q[k].sig EXCEPT !.unat = key2[k][r[x]]]
    BY <1>4, <1>5
  <2> QED
    BY <2>1, <2>2, <2>3
<1>9. p \in Seq(Clusters) /\ q \in Seq(Clusters) /\ Corresponding(r, p, q)
  BY DEF Matched, Sound
<1>10. Corresponding(r, SplitClusters(p, key1, sig1), SplitClusters(q, key2, sig2))
  BY <1>1, <1>7, <1>8, <1>9, SplitsCorrespond
<1> QED
  BY <1>6, <1>10

\* The classes of exchangeable inputs have the same order in f and in g, among
\* inputs that are unate alike.
OrderedAlike(f, g, r) ==
    \A x, y \in f.ins :
        UnatenessOf(f, x) = UnatenessOf(f, y) =>
            (ClassOrder(f, x) < ClassOrder(f, y) <=>
                ClassOrder(g, r[x]) < ClassOrder(g, r[y]))

\* splitBySymmetry keeps a match under which the classes are ordered alike.
LEMMA SymmetryCorresponds ==
    ASSUME NEW f, NEW g, NEW r, NEW p, NEW q, Matched(f, g, r, p, q),
           UnatenessSigned(f, p), OrderedAlike(f, g, r)
    PROVE  Corresponding(r, BySymmetry(f, p), BySymmetry(g, q))
<1> DEFINE key1 == SymmetryKey(f, p)
           key2 == SymmetryKey(g, q)
           sig1 == SymmetrySigns(f, p)
           sig2 == SymmetrySigns(g, q)
<1>a. MatchedShape(f, g, r, p, q)
  BY MatchedClusters
<1>0. /\ p \in Seq(Clusters) /\ q \in Seq(Clusters) /\ DOMAIN p = DOMAIN q
      /\ \A k \in DOMAIN p :
            /\ p[k].sig = q[k].sig /\ p[k].ins \in SUBSET f.ins
            /\ \A x \in p[k].ins : r[x] \in q[k].ins
  BY <1>a DEF MatchedShape
<1>1. /\ Fair(f, p, key1) /\ BySymmetry(f, p) = SplitClusters(p, key1, sig1)
      /\ Fair(g, q, key2) /\ BySymmetry(g, q) = SplitClusters(q, key2, sig2)
  BY SymmetryPushesSlots DEF Matched
<1>2. ASSUME NEW k \in DOMAIN p, NEW x \in p[k].ins
      PROVE  key1[k][x] = ClassOrder(f, x) /\ key2[k][r[x]] = ClassOrder(g, r[x])
  BY <1>0 DEF SymmetryKey
<1>3. \A k \in DOMAIN p : \A x \in p[k].ins :
         <<k, key1[k][x]>> \in Slots(Sets(p), key1)
  BY <1>0, InputHasSlot
<1>4. \A k \in DOMAIN p : \A x \in p[k].ins :
         <<k, key2[k][r[x]]>> \in Slots(Sets(q), key2)
  BY <1>0, InputHasSlot
<1>5. /\ \A s \in Slots(Sets(p), key1) :
            sig1[s] = [p[s[1]].sig EXCEPT !.sym =
                IF s[2] = Cardinality(f.ins) THEN NoSymmetry ELSE NESymmetry]
      /\ \A s \in Slots(Sets(q), key2) :
            sig2[s] = [q[s[1]].sig EXCEPT !.sym =
                IF s[2] = Cardinality(g.ins) THEN NoSymmetry ELSE NESymmetry]
  BY DEF SymmetrySigns
<1> HIDE DEF key1, key2, sig1, sig2
<1>6. SameOrder(r, p, key1, key2)
  <2>1. ASSUME NEW k \in DOMAIN p, NEW x \in p[k].ins, NEW y \in p[k].ins
        PROVE  key1[k][x] < key1[k][y] <=> key2[k][r[x]] < key2[k][r[y]]
    <3>1. x \in f.ins /\ y \in f.ins
      BY <1>0
    <3>2. UnatenessOf(f, x) = UnatenessOf(f, y)
      BY DEF UnatenessSigned
    <3>3. ClassOrder(f, x) < ClassOrder(f, y) <=> ClassOrder(g, r[x]) < ClassOrder(g, r[y])
      BY <3>1, <3>2 DEF OrderedAlike
    <3> QED
      BY <1>2, <3>3
  <2> QED
    BY <2>1 DEF SameOrder
<1>7. ASSUME NEW k \in DOMAIN p, NEW x \in p[k].ins
      PROVE  key1[k][x] = Cardinality(f.ins) <=> key2[k][r[x]] = Cardinality(g.ins)
  <2>1. x \in f.ins /\ IsMatch(f, g, r) /\ IsCone(f, Names) /\ IsCone(g, Names)
    BY <1>0 DEF Matched
  <2>2. r[x] \in g.ins
    BY <2>1, MatchBijective
  <2>3. SymmetryClass(f, x) = {x} <=> SymmetryClass(g, r[x]) = {r[x]}
    BY <2>1, MatchSymmetryClass
  <2>4. ClassOrder(f, x) = Cardinality(f.ins) <=> SymmetryClass(f, x) = {x}
    BY <2>1, ClassOrderOfClass
  <2>5. ClassOrder(g, r[x]) = Cardinality(g.ins) <=> SymmetryClass(g, r[x]) = {r[x]}
    BY <2>1, <2>2, ClassOrderOfClass
  <2> QED
    BY <1>2, <2>3, <2>4, <2>5
<1>8. ASSUME NEW k \in DOMAIN p, NEW x \in p[k].ins
      PROVE  sig2[<<k, key2[k][r[x]]>>] = sig1[<<k, key1[k][x]>>]
  <2> DEFINE sym1 == IF key1[k][x] = Cardinality(f.ins) THEN NoSymmetry ELSE NESymmetry
             sym2 == IF key2[k][r[x]] = Cardinality(g.ins) THEN NoSymmetry ELSE NESymmetry
  <2>1. q[k].sig = p[k].sig /\ sym1 = sym2
    BY <1>0, <1>7
  <2>2. sig1[<<k, key1[k][x]>>] = [p[k].sig EXCEPT !.sym = sym1]
    BY <1>3, <1>5
  <2>3. sig2[<<k, key2[k][r[x]]>>] = [q[k].sig EXCEPT !.sym = sym2]
    BY <1>4, <1>5
  <2> HIDE DEF sym1, sym2
  <2> QED
    BY <2>1, <2>2, <2>3
<1>9. Corresponding(r, p, q)
  BY DEF Matched
<1>10. Corresponding(r, SplitClusters(p, key1, sig1), SplitClusters(q, key2, sig2))
  BY <1>0, <1>1, <1>6, <1>8, <1>9, SplitsCorrespond
<1> QED
  BY <1>1, <1>10

\* The vectors of corresponding clusters correspond.
LEMMA InVecRenamed ==
    ASSUME NEW f, NEW g, NEW r, NEW p, NEW q, Matched(f, g, r, p, q), NEW base
    PROVE  /\ InVec(p, base) \in SUBSET f.ins
           /\ InVec(q, base) = Image(r, InVec(p, base))
<1>1. MatchedShape(f, g, r, p, q)
  BY MatchedClusters
<1>2. DOMAIN p = DOMAIN q /\ \A k \in DOMAIN p : p[k].ins \in SUBSET f.ins
  BY <1>1 DEF MatchedShape
<1>3. \A k \in DOMAIN p : q[k].ins = {r[x] : x \in p[k].ins}
  BY <1>1 DEF MatchedShape, Image
<1>4. InVec(p, base) \in SUBSET f.ins
  BY <1>2 DEF InVec
<1>5. ASSUME NEW z
      PROVE  z \in InVec(q, base) <=> z \in Image(r, InVec(p, base))
  BY <1>2, <1>3 DEF InVec, Image
<1> QED
  BY <1>4, <1>5

\* Flipping an input and flipping the one it is renamed to give the same output.
LEMMA Type1Renamed ==
    ASSUME NEW f, NEW g, NEW r, IsMatch(f, g, r),
           NEW vec \in SUBSET f.ins, NEW x \in f.ins
    PROVE  Type1Key(g, Image(r, vec), r[x]) = Type1Key(f, vec, x)
<1>1. Flip(vec, x) \in SUBSET f.ins
  BY DEF Flip
<1>2. Image(r, Flip(vec, x)) = Flip(Image(r, vec), r[x])
  BY ImageOfFlip
<1>3. EvalOutput(f, Flip(vec, x)) <=> EvalOutput(g, Image(r, Flip(vec, x)))
  BY <1>1, MatchEvaluates
<1> QED
  BY <1>2, <1>3 DEF Type1Key

\* The pairs with x that make the output true are renamed to those with r[x].
LEMMA Type2Renamed ==
    ASSUME NEW f, NEW g, NEW r, IsMatch(f, g, r), IsFiniteSet(f.ins),
           NEW vec \in SUBSET f.ins, NEW cluster \in SUBSET f.ins, NEW x \in f.ins
    PROVE  Type2Key(g, Image(r, vec), Image(r, cluster), r[x]) = Type2Key(f, vec, cluster, x)
<1> DEFINE A == {y \in cluster \ {x} : EvalOutput(f, Flip(Flip(vec, x), y))}
           B == {z \in Image(r, cluster) \ {r[x]} :
                    EvalOutput(g, Flip(Flip(Image(r, vec), r[x]), z))}
<1>1. ASSUME NEW y \in f.ins
      PROVE  EvalOutput(f, Flip(Flip(vec, x), y)) <=>
                 EvalOutput(g, Flip(Flip(Image(r, vec), r[x]), r[y]))
  <2> DEFINE w == Flip(vec, x)
  <2>1. w \in SUBSET f.ins /\ Flip(w, y) \in SUBSET f.ins
    BY DEF Flip
  <2>2. Image(r, w) = Flip(Image(r, vec), r[x])
    BY ImageOfFlip
  <2> HIDE DEF w
  <2>3. Image(r, Flip(w, y)) = Flip(Image(r, w), r[y])
    BY <2>1, ImageOfFlip
  <2>4. EvalOutput(f, Flip(w, y)) <=> EvalOutput(g, Image(r, Flip(w, y)))
    BY <2>1, MatchEvaluates
  <2> QED
    BY <2>2, <2>3, <2>4 DEF w
<1>2. \A y \in cluster : r[y] = r[x] <=> y = x
  BY MatchBijective
<1>3. \A z : z \in B <=> \E y \in A : z = r[y]
  <2>1. ASSUME NEW y \in A
        PROVE  r[y] \in B
    BY <1>1, <1>2 DEF Image
  <2>2. ASSUME NEW z \in B
        PROVE  \E y \in A : z = r[y]
    <3>1. PICK y \in cluster : z = r[y]
      BY DEF Image
    <3>2. y \in A
      BY <1>1, <1>2, <3>1
    <3> QED
      BY <3>1, <3>2
  <2> QED
    BY <2>1, <2>2
<1>4. A \in SUBSET f.ins
  OBVIOUS
<1> HIDE DEF A, B
<1>5. B = Image(r, A)
  BY <1>3 DEF Image
<1>6. Cardinality(Image(r, A)) = Cardinality(A)
  BY <1>4, MatchCardinality
<1> QED
  BY <1>5, <1>6 DEF Type2Key, A, B

\* A simulation with the same value for corresponding clusters gives an input and
\* the one it is renamed to the same key.
LEMMA SimKeyRenamed ==
    ASSUME NEW f, NEW g, NEW r, NEW p, NEW q, Matched(f, g, r, p, q),
           NEW kind, NEW base, NEW i \in DOMAIN p, NEW k \in DOMAIN p, NEW x \in p[k].ins
    PROVE  SimKey(kind, g, q, base, i)[k][r[x]] = SimKey(kind, f, p, base, i)[k][x]
<1> DEFINE vec1 == InVec(p, base)
           vec2 == InVec(q, base)
<1>1. MatchedShape(f, g, r, p, q)
  BY MatchedClusters
<1>2. /\ DOMAIN p = DOMAIN q /\ p[k].ins \in SUBSET f.ins /\ r[x] \in q[k].ins
      /\ p[i].ins \in SUBSET f.ins /\ Image(r, p[i].ins) = q[i].ins
  BY <1>1 DEF MatchedShape
<1>3. vec1 \in SUBSET f.ins /\ vec2 = Image(r, vec1)
  BY InVecRenamed
<1>4. IsMatch(f, g, r) /\ IsFiniteSet(f.ins) /\ x \in f.ins
  BY <1>2, ConeFinite DEF Matched
<1> HIDE DEF vec1, vec2
<1>5. Type1Key(g, vec2, r[x]) = Type1Key(f, vec1, x)
  BY <1>3, <1>4, Type1Renamed
<1>6. Type2Key(g, vec2, q[i].ins, r[x]) = Type2Key(f, vec1, p[i].ins, x)
  BY <1>2, <1>3, <1>4, Type2Renamed
<1>7. SimKey(kind, f, p, base, i)[k][x] =
          IF k # i THEN 0 ELSE IF kind = "type1" THEN Type1Key(f, vec1, x)
                               ELSE Type2Key(f, vec1, p[i].ins, x)
  BY DEF SimKey, vec1
<1>8. SimKey(kind, g, q, base, i)[k][r[x]] =
          IF k # i THEN 0 ELSE IF kind = "type1" THEN Type1Key(g, vec2, r[x])
                               ELSE Type2Key(g, vec2, q[i].ins, r[x])
  BY <1>2 DEF SimKey, vec2
<1> QED
  BY <1>5, <1>6, <1>7, <1>8

\* A simulation with the same value for corresponding clusters keeps a match.
LEMMA SimulationCorresponds ==
    ASSUME NEW f, NEW g, NEW r, NEW p, NEW q, Matched(f, g, r, p, q),
           NEW kind, NEW base, NEW i \in DOMAIN p
    PROVE  Corresponding(r, BySimulation(kind, p, SimKey(kind, f, p, base, i), i),
                            BySimulation(kind, q, SimKey(kind, g, q, base, i), i))
<1> DEFINE key1 == SimKey(kind, f, p, base, i)
           key2 == SimKey(kind, g, q, base, i)
           sig(part, s) == IF s[1] # i THEN part[s[1]].sig
                           ELSE IF kind = "type1"
                                THEN [part[i].sig EXCEPT !.t1 = Append(@, s[2])]
                                ELSE [part[i].sig EXCEPT !.t2 = Append(@, s[2])]
           sig1 == [s \in Slots(Sets(p), key1) |-> sig(p, s)]
           sig2 == [s \in Slots(Sets(q), key2) |-> sig(q, s)]
<1>1. Fair(f, p, key1) /\ Fair(g, q, key2)
  BY SimulationIsFair DEF Matched
<1>2. MatchedShape(f, g, r, p, q)
  BY MatchedClusters
<1>3. /\ p \in Seq(Clusters) /\ q \in Seq(Clusters) /\ DOMAIN p = DOMAIN q
      /\ \A k \in DOMAIN p :
            /\ p[k].sig = q[k].sig /\ Image(r, p[k].ins) = q[k].ins
            /\ \A x \in p[k].ins : r[x] \in q[k].ins
  BY <1>2 DEF MatchedShape
<1>4. ASSUME NEW k \in DOMAIN p, NEW x \in p[k].ins
      PROVE  key2[k][r[x]] = key1[k][x]
  BY SimKeyRenamed
<1>5. \A k \in DOMAIN p : \A x \in p[k].ins :
         <<k, key1[k][x]>> \in Slots(Sets(p), key1)
  BY <1>3, InputHasSlot
<1>6. \A k \in DOMAIN p : \A x \in p[k].ins :
         <<k, key2[k][r[x]]>> \in Slots(Sets(q), key2)
  BY <1>3, InputHasSlot
<1>7. BySimulation(kind, p, key1, i) =
          IF CanSplit(p, key1, i) THEN SplitClusters(p, key1, sig1) ELSE p
  BY DEF BySimulation
<1>8. BySimulation(kind, q, key2, i) =
          IF CanSplit(q, key2, i) THEN SplitClusters(q, key2, sig2) ELSE q
  BY DEF BySimulation
<1>9. ASSUME NEW k \in DOMAIN p, NEW x \in p[k].ins
      PROVE  sig2[<<k, key2[k][r[x]]>>] = sig1[<<k, key1[k][x]>>]
  <2>1. /\ sig1[<<k, key1[k][x]>>] = sig(p, <<k, key1[k][x]>>)
        /\ sig2[<<k, key2[k][r[x]]>>] = sig(q, <<k, key2[k][r[x]]>>)
    BY <1>5, <1>6
  <2>2. <<k, key2[k][r[x]]>> = <<k, key1[k][x]>>
    BY <1>4
  <2>3. q[k].sig = p[k].sig /\ q[i].sig = p[i].sig
    BY <1>3
  <2>4. sig(q, <<k, key1[k][x]>>) = sig(p, <<k, key1[k][x]>>)
    BY <2>3
  <2> QED
    BY <2>1, <2>2, <2>4
<1> HIDE DEF key1, key2, sig1, sig2
<1>10. CanSplit(q, key2, i) <=> CanSplit(p, key1, i)
  <2>1. q[i].ins = {r[x] : x \in p[i].ins}
    BY <1>3 DEF Image
  <2> QED
    BY <1>4, <2>1 DEF CanSplit
<1>11. SameOrder(r, p, key1, key2)
  BY <1>4 DEF SameOrder
<1>12. Corresponding(r, p, q)
  BY DEF Matched
<1>13. Corresponding(r, SplitClusters(p, key1, sig1), SplitClusters(q, key2, sig2))
  BY <1>1, <1>3, <1>9, <1>11, <1>12, SplitsCorrespond
<1> QED
  BY <1>7, <1>8, <1>10, <1>12, <1>13 DEF key1, key2

-------------------------------------------------------------------------------
(***************************************************************************)
(* The invariant: two outputs that compute the same function up to a       *)
(* renaming that keeps the order of the symmetry classes have              *)
(* corresponding clusters.  It needs their signatures, since an attempt to *)
(* split visits the outputs of one signature.                              *)
(***************************************************************************)
\* The signatures of matched outputs are equal.
LEMMA SignatureRenamed ==
    ASSUME NEW f, NEW g, NEW r, NEW p, NEW q, Matched(f, g, r, p, q)
    PROVE  POSignature(p) = POSignature(q)
<1>1. MatchedShape(f, g, r, p, q) /\ IsMatch(f, g, r) /\ IsFiniteSet(f.ins)
  BY MatchedClusters, ConeFinite DEF Matched
<1>2. DOMAIN p = DOMAIN q
  BY <1>1 DEF MatchedShape
<1>3. ASSUME NEW k \in DOMAIN p
      PROVE  Cardinality(p[k].ins) = Cardinality(q[k].ins) /\ p[k].sig = q[k].sig
  <2>1. p[k].ins \in SUBSET f.ins /\ Image(r, p[k].ins) = q[k].ins /\ p[k].sig = q[k].sig
    BY <1>1 DEF MatchedShape
  <2>2. Cardinality(Image(r, p[k].ins)) = Cardinality(p[k].ins)
    BY <1>1, <2>1, MatchCardinality
  <2> QED
    BY <2>1, <2>2
<1>4. [k \in DOMAIN p |-> Cardinality(p[k].ins)] = [k \in DOMAIN q |-> Cardinality(q[k].ins)]
  BY <1>2, <1>3
<1>5. [k \in DOMAIN p |-> <<Cardinality(p[k].ins), p[k].sig>>] =
      [k \in DOMAIN q |-> <<Cardinality(q[k].ins), q[k].sig>>]
  BY <1>2, <1>3
<1> QED
  BY <1>4, <1>5 DEF POSignature

\* The clusters of matched outputs correspond.
MatchInv ==
    \A po1 \in Outputs(1), po2 \in Outputs(2) :
        \A r \in InputMatches(Cone(1, po1), Cone(2, po2)) :
            stage # "support" /\ OrderedAlike(Cone(1, po1), Cone(2, po2), r) =>
                Corresponding(r, piPart[1][po1], piPart[2][po2])

\* A renaming of the inputs of two outputs is a match of their cones.
LEMMA MatchOfOutputs ==
    ASSUME TypeOK, NEW po1 \in Outputs(1), NEW po2 \in Outputs(2),
           NEW r \in InputMatches(Cone(1, po1), Cone(2, po2))
    PROVE  /\ IsCone(Cone(1, po1), Names) /\ IsCone(Cone(2, po2), Names)
           /\ IsMatch(Cone(1, po1), Cone(2, po2), r)
<1>1. IsCone(Cone(1, po1), Names) /\ IsCone(Cone(2, po2), Names)
  BY CircuitCones DEF Circuits
<1> QED
  BY <1>1 DEF IsCone, IsMatch

\* With the invariant of the partitions, matched outputs have matched partitions.
LEMMA MatchedOutputs ==
    ASSUME IInv, MatchInv, stage # "support",
           NEW po1 \in Outputs(1), NEW po2 \in Outputs(2),
           NEW r \in InputMatches(Cone(1, po1), Cone(2, po2)),
           OrderedAlike(Cone(1, po1), Cone(2, po2), r)
    PROVE  Matched(Cone(1, po1), Cone(2, po2), r, piPart[1][po1], piPart[2][po2])
<1>1. /\ IsCone(Cone(1, po1), Names) /\ IsCone(Cone(2, po2), Names)
      /\ IsMatch(Cone(1, po1), Cone(2, po2), r)
  BY MatchOfOutputs DEF IInv
<1>2. Sound(Cone(1, po1), piPart[1][po1]) /\ Sound(Cone(2, po2), piPart[2][po2])
  BY InvariantIsSound DEF Circuits
<1>3. Corresponding(r, piPart[1][po1], piPart[2][po2])
  BY DEF MatchInv
<1> QED
  BY <1>1, <1>2, <1>3 DEF Matched

\* splitBySupport begins with corresponding clusters.
LEMMA SupportCorresponds ==
    ASSUME NEW f, NEW g, NEW r, IsMatch(f, g, r)
    PROVE  Corresponding(r, BySupport(f), BySupport(g))
<1>1. Image(r, f.ins) = g.ins
  BY ImageProperties
<1> QED
  BY <1>1 DEF Corresponding, BySupport

\* An attempt visits an output of circuit 1 when it visits one that matches it,
\* and tries the same cluster of both with the same value for each cluster.
LEMMA AttemptOfTwo ==
    ASSUME IInv, Attempt, NEW po1 \in Outputs(1), NEW po2 \in Outputs(2),
           NEW f, NEW g, NEW r, f = Cone(1, po1), g = Cone(2, po2),
           Matched(f, g, r, piPart[1][po1], piPart[2][po2])
    PROVE  Corresponding(r, piPart'[1][po1], piPart'[2][po2])
<1> DEFINE p == piPart[1][po1]
           q == piPart[2][po2]
<1>1. PICK sign \in todo :
         /\ ind <= Len(sign.input_signatures)
         /\ \E base \in [1..Len(sign.input_signatures) -> BOOLEAN] :
               piPart' = [c \in Circuits |-> [po \in Outputs(c) |->
                   IF po \in poPart[c][sign]
                   THEN BySimulation(stage, piPart[c][po],
                            SimKey(stage, Cone(c, po), piPart[c][po], base, ind), ind)
                   ELSE piPart[c][po]]]
  BY DEF Attempt
<1>2. PICK base \in [1..Len(sign.input_signatures) -> BOOLEAN] :
         piPart' = [c \in Circuits |-> [po \in Outputs(c) |->
             IF po \in poPart[c][sign]
             THEN BySimulation(stage, piPart[c][po],
                      SimKey(stage, Cone(c, po), piPart[c][po], base, ind), ind)
             ELSE piPart[c][po]]]
  BY <1>1
<1>3. /\ piPart'[1][po1] = IF po1 \in poPart[1][sign]
                           THEN BySimulation(stage, p, SimKey(stage, f, p, base, ind), ind)
                           ELSE p
      /\ piPart'[2][po2] = IF po2 \in poPart[2][sign]
                           THEN BySimulation(stage, q, SimKey(stage, g, q, base, ind), ind)
                           ELSE q
  BY <1>2 DEF Circuits
<1>4. stage # "support" /\ sign \in Common
  BY DEF Attempt, SimStages, IInv, TypeOK, RoundOK
<1>5. \A c \in Circuits : poPart[c] = Regroup(piPart[c]) /\ sign \in DOMAIN poPart[c]
  BY <1>4 DEF IInv, SignaturesCurrent, Common, Circuits
<1>6. DOMAIN piPart[1] = Outputs(1) /\ DOMAIN piPart[2] = Outputs(2)
  BY DEF IInv, TypeOK, Circuits
<1>7. /\ po1 \in poPart[1][sign] <=> POSignature(p) = sign
      /\ po2 \in poPart[2][sign] <=> POSignature(q) = sign
  BY <1>5, <1>6, RegroupProperties DEF Circuits
<1>8. POSignature(p) = POSignature(q)
  BY SignatureRenamed
<1>9. CASE POSignature(p) = sign
  <2>1. p \in Seq(Clusters)
    BY DEF Matched, Sound
  <2>2. ind <= Len(p)
    BY <1>1, <1>9, <2>1, SignatureLength
  <2>3. ind \in Nat \ {0}
    BY DEF IInv, TypeOK
  <2>4. ind \in DOMAIN p
    BY <2>1, <2>2, <2>3
  <2>5. Corresponding(r, BySimulation(stage, p, SimKey(stage, f, p, base, ind), ind),
                         BySimulation(stage, q, SimKey(stage, g, q, base, ind), ind))
    BY <2>4, SimulationCorresponds
  <2> QED
    BY <1>3, <1>7, <1>8, <1>9, <2>5
<1>10. CASE POSignature(p) # sign
  BY <1>3, <1>7, <1>8, <1>10 DEF Matched
<1> QED
  BY <1>9, <1>10

\* Every step keeps the clusters of matched outputs in correspondence.
LEMMA MatchesPreserved ==
    ASSUME IInv, SignsInv, MatchInv, [Next]_vars
    PROVE  MatchInv'
<1>1. cir' = cir
  BY CircuitsStay
<1>2. SUFFICES ASSUME NEW po1 \in Outputs(1), NEW po2 \in Outputs(2),
                      NEW r \in InputMatches(Cone(1, po1), Cone(2, po2)),
                      stage' # "support",
                      OrderedAlike(Cone(1, po1), Cone(2, po2), r)
               PROVE  Corresponding(r, piPart'[1][po1], piPart'[2][po2])
  BY <1>1 DEF MatchInv, Outputs, Cone
<1> DEFINE f == Cone(1, po1)
           g == Cone(2, po2)
           p == piPart[1][po1]
           q == piPart[2][po2]
<1>3. stage # "support" => Matched(f, g, r, p, q)
  BY <1>2, MatchedOutputs
<1>4. CASE SplitBySupport
  <2>1. piPart'[1][po1] = BySupport(f) /\ piPart'[2][po2] = BySupport(g)
    BY <1>4 DEF SplitBySupport, SplitAll, Circuits
  <2>2. IsMatch(f, g, r)
    BY MatchOfOutputs DEF IInv
  <2> QED
    BY <2>1, <2>2, SupportCorresponds
<1>5. CASE SplitByUnateness
  <2>1. /\ piPart'[1][po1] = ByUnateness(f, p) /\ piPart'[2][po2] = ByUnateness(g, q)
        /\ stage = "unateness"
    BY <1>5 DEF SplitByUnateness, SplitAll, Circuits
  <2> QED
    BY <1>3, <2>1, UnatenessCorresponds
<1>6. CASE SplitBySymmetry
  <2>1. /\ piPart'[1][po1] = BySymmetry(f, p) /\ piPart'[2][po2] = BySymmetry(g, q)
        /\ stage = "symmetry"
    BY <1>6 DEF SplitBySymmetry, SplitAll, Circuits
  <2>2. UnatenessSigned(f, p)
    BY <2>1 DEF SignsInv, Circuits
  <2> QED
    BY <1>2, <1>3, <2>1, <2>2, SymmetryCorresponds
<1>7. CASE Attempt
  <2>1. stage # "support"
    BY <1>7 DEF Attempt, SimStages
  <2> QED
    BY <1>3, <1>7, <2>1, AttemptOfTwo
<1>8. CASE BeginRound \/ NextCluster \/ EndRound \/ EndLoop \/ Done \/ UNCHANGED vars
  <2>1. piPart' = piPart /\ stage # "support"
    BY <1>2, <1>8
    DEF BeginRound, NextCluster, EndRound, EndLoop, Done, vars, SimStages, IInv, TypeOK, RoundOK
  <2> QED
    BY <1>3, <2>1 DEF Matched
<1> QED
  BY <1>4, <1>5, <1>6, <1>7, <1>8 DEF Next

\* The parts of the invariant hold in every state of the command `split'.
THEOREM MatchInvariance == Spec => [](IInv /\ MatchInv)
<1>1. Init => SignsInv /\ MatchInv
  BY DEF Init, SignsInv, MatchInv
<1>2. IInv /\ SignsInv /\ MatchInv /\ [Next]_vars => SignsInv' /\ MatchInv'
  BY SignsPreserved, MatchesPreserved
<1> QED
  BY <1>1, <1>2, Invariance, PTL DEF Spec

-------------------------------------------------------------------------------
(***************************************************************************)
(* The condition under which no match is lost.                             *)
(***************************************************************************)
\* Every renaming of every two outputs keeps the order of their classes.
ClassesOrdered ==
    \A po1 \in Outputs(1), po2 \in Outputs(2) :
        \A r \in InputMatches(Cone(1, po1), Cone(2, po2)) :
            OrderedAlike(Cone(1, po1), Cone(2, po2), r)

\* Among inputs of f that are unate alike, only one class of exchangeable inputs
\* has more than one member.
OneClass(f) ==
    \A x, y \in f.ins :
        /\ UnatenessOf(f, x) = UnatenessOf(f, y)
        /\ SymmetryClass(f, x) # {x} /\ SymmetryClass(f, y) # {y}
        => y \in SymmetryClass(f, x)

\* Every output of circuit 1 has at most one such class.
OneClassEach == \A po \in Outputs(1) : OneClass(Cone(1, po))

\* A class of several inputs comes before the inputs without a partner.
LEMMA ClassBeforeSingles ==
    ASSUME NEW f, IsCone(f, Names), NEW x \in f.ins, SymmetryClass(f, x) # {x}
    PROVE  ClassOrder(f, x) < Cardinality(f.ins) /\ Cardinality(f.ins) \in Nat
<1> DEFINE first == {z \in f.ins : \A y \in SymmetryClass(f, x) : z < y}
<1>1. f.ins \subseteq Names /\ IsFiniteSet(f.ins)
  BY ConeFinite
<1>2. x \in Nat
  BY <1>1, NamesAssumption
<1>3. x \in SymmetryClass(f, x) /\ ~(x < x)
  BY <1>2 DEF SymmetryClass
<1>4. first \in SUBSET f.ins /\ first # f.ins
  BY <1>3
<1>5. /\ Cardinality(first) < Cardinality(f.ins)
      /\ Cardinality(f.ins) \in Nat
  BY <1>1, <1>4, FS_Subset, FS_CardinalityType
<1> QED
  BY <1>5 DEF ClassOrder

\* When f has one class only, every renaming keeps the order.
LEMMA OneClassOrdered ==
    ASSUME NEW f, NEW g, NEW r, IsCone(f, Names), IsCone(g, Names),
           IsMatch(f, g, r), OneClass(f)
    PROVE  OrderedAlike(f, g, r)
<1> SUFFICES ASSUME NEW x \in f.ins, NEW y \in f.ins,
                    UnatenessOf(f, x) = UnatenessOf(f, y)
             PROVE  ClassOrder(f, x) < ClassOrder(f, y) <=>
                    ClassOrder(g, r[x]) < ClassOrder(g, r[y])
  BY DEF OrderedAlike
<1> DEFINE single(z) == SymmetryClass(f, z) = {z}
<1>1. r[x] \in g.ins /\ r[y] \in g.ins
  BY MatchBijective
<1>2. /\ single(x) <=> SymmetryClass(g, r[x]) = {r[x]}
      /\ single(y) <=> SymmetryClass(g, r[y]) = {r[y]}
  BY MatchSymmetryClass
<1>3. /\ ClassOrder(f, x) \in Nat /\ ClassOrder(f, y) \in Nat
      /\ ClassOrder(g, r[x]) \in Nat /\ ClassOrder(g, r[y]) \in Nat
  BY <1>1, ClassOrderFair
<1>4. CASE ~single(x) /\ ~single(y)
  <2>1. y \in SymmetryClass(f, x)
    BY <1>4 DEF OneClass
  <2>2. r[y] \in SymmetryClass(g, r[x])
    BY <2>1, MatchSymmetryClass DEF Image
  <2>3. ClassOrder(f, y) = ClassOrder(f, x) /\ ClassOrder(g, r[y]) = ClassOrder(g, r[x])
    BY <1>1, <2>1, <2>2, ClassOrderFair
  <2> QED
    BY <1>3, <2>3
<1>5. CASE single(x) /\ single(y)
  BY <1>1, <1>2, <1>3, <1>5, ClassOrderOfClass
<1>6. CASE single(x) /\ ~single(y)
  <2>1. ClassOrder(f, x) = Cardinality(f.ins) /\ ClassOrder(f, y) < Cardinality(f.ins)
    BY <1>6, ClassOrderOfClass, ClassBeforeSingles
  <2>2. /\ ClassOrder(g, r[x]) = Cardinality(g.ins)
        /\ ClassOrder(g, r[y]) < Cardinality(g.ins)
    BY <1>1, <1>2, <1>6, ClassOrderOfClass, ClassBeforeSingles
  <2> QED
    BY <1>3, <2>1, <2>2
<1>7. CASE ~single(x) /\ single(y)
  <2>1. ClassOrder(f, y) = Cardinality(f.ins) /\ ClassOrder(f, x) < Cardinality(f.ins)
    BY <1>7, ClassOrderOfClass, ClassBeforeSingles
  <2>2. /\ ClassOrder(g, r[y]) = Cardinality(g.ins)
        /\ ClassOrder(g, r[x]) < Cardinality(g.ins)
    BY <1>1, <1>2, <1>7, ClassOrderOfClass, ClassBeforeSingles
  <2> QED
    BY <1>3, <2>1, <2>2
<1> QED
  BY <1>4, <1>5, <1>6, <1>7

\* One class in each output of circuit 1 is enough.
LEMMA OneClassEachOrdered == IInv /\ OneClassEach => ClassesOrdered
<1> SUFFICES ASSUME IInv, OneClassEach,
                    NEW po1 \in Outputs(1), NEW po2 \in Outputs(2),
                    NEW r \in InputMatches(Cone(1, po1), Cone(2, po2))
             PROVE  OrderedAlike(Cone(1, po1), Cone(2, po2), r)
  BY DEF ClassesOrdered
<1>1. /\ IsCone(Cone(1, po1), Names) /\ IsCone(Cone(2, po2), Names)
      /\ IsMatch(Cone(1, po1), Cone(2, po2), r)
  BY MatchOfOutputs DEF IInv
<1>2. OneClass(Cone(1, po1))
  BY DEF OneClassEach
<1> QED
  BY <1>1, <1>2, OneClassOrdered

\* Corresponding clusters are what MatchesKept asks for.
LEMMA OrderedKept == IInv /\ MatchInv /\ ClassesOrdered => MatchesKept
<1> SUFFICES ASSUME IInv, MatchInv, ClassesOrdered,
                    NEW po1 \in Outputs(1), NEW po2 \in Outputs(2),
                    NEW r \in InputMatches(Cone(1, po1), Cone(2, po2)),
                    stage # "support"
             PROVE  /\ POSignature(piPart[1][po1]) = POSignature(piPart[2][po2])
                    /\ \A k \in DOMAIN piPart[1][po1] :
                          Image(r, piPart[1][po1][k].ins) = piPart[2][po2][k].ins
  BY DEF MatchesKept
<1>1. OrderedAlike(Cone(1, po1), Cone(2, po2), r)
  BY DEF ClassesOrdered
<1>2. Matched(Cone(1, po1), Cone(2, po2), r, piPart[1][po1], piPart[2][po2])
  BY <1>1, MatchedOutputs
<1>3. POSignature(piPart[1][po1]) = POSignature(piPart[2][po2])
  BY <1>2, SignatureRenamed
<1> QED
  BY <1>2, <1>3 DEF Matched, Corresponding

\* In every state in which the renamings of matched outputs keep the order of
\* the symmetry classes, each of them sends every cluster onto the one with the
\* same position, and matched outputs have one signature: no call of `split'
\* and no random vector loses a match (matcher.cpp:70-401).
THEOREM OrderedMatchesStayKept == Spec => [](ClassesOrdered => MatchesKept)
<1>1. IInv /\ MatchInv => (ClassesOrdered => MatchesKept)
  BY OrderedKept
<1> QED
  BY <1>1, MatchInvariance, PTL

\* The same for circuits whose outputs have one class of exchangeable inputs at
\* most among inputs unate alike: a condition on one circuit.
THEOREM MatchesStayKept == Spec => [](OneClassEach => MatchesKept)
<1>1. IInv /\ MatchInv => (OneClassEach => MatchesKept)
  BY OneClassEachOrdered, OrderedKept
<1> QED
  BY <1>1, MatchInvariance, PTL

-------------------------------------------------------------------------------
(***************************************************************************)
(* The candidates that calculatePossibleMatchings counts.                  *)
(***************************************************************************)
\* Before the first call every output has one cluster and one signature.
Unsplit ==
    stage = "support" =>
        /\ poPart = [c \in Circuits |->
                        [sign \in {InitialSignature(cir[1])} |-> Outputs(c)]]
        /\ piPart = [c \in Circuits |-> [po \in Outputs(c) |->
                        <<[sig |-> PISignature, ins |-> cir[c].ins]>>]]

\* No step comes before the first call.
LEMMA UnsplitPreserved == IInv /\ Unsplit /\ [Next]_vars => Unsplit'
<1> SUFFICES ASSUME IInv, Unsplit, [Next]_vars, stage' = "support"
             PROVE  Unsplit'
  BY DEF Unsplit
<1>1. CASE UNCHANGED vars
  BY <1>1 DEF Unsplit, vars, Outputs
<1>2. CASE SplitBySupport \/ SplitByUnateness \/ SplitBySymmetry
  BY <1>2, StageOrder DEF SplitBySupport, SplitByUnateness, SplitBySymmetry, SplitAll
<1>3. CASE EndLoop
  BY <1>3, StageOrder DEF EndLoop, SimStages
<1>4. CASE BeginRound \/ Attempt \/ NextCluster \/ EndRound \/ Done
  <2>1. stage' = stage /\ (stage \in SimStages \/ stage = "done" \/ inRound)
    BY <1>4 DEF BeginRound, Attempt, NextCluster, EndRound, Done, vars
  <2>2. inRound => stage \in SimStages
    BY DEF IInv, TypeOK, RoundOK
  <2> QED
    BY <2>1, <2>2 DEF SimStages
<1> QED
  BY <1>1, <1>2, <1>3, <1>4 DEF Next

\* Two outputs with one signature, and two clusters with one position, make a
\* candidate.
LEMMA CandidateListed ==
    ASSUME NEW sign \in Common, NEW po1 \in poPart[1][sign], NEW po2 \in poPart[2][sign],
           NEW k \in DOMAIN piPart[1][po1], NEW x \in piPart[1][po1][k].ins,
           NEW y \in piPart[2][po2][k].ins
    PROVE  y \in MatchesOf(x)
<1> DEFINE pos == <<po1, po2>>
<1>1. pos \in OutputPairs
  BY DEF OutputPairs
<1>2. k \in ClustersOf(x, pos[1])
  BY DEF ClustersOf
<1>3. y \in UNION {piPart[2][pos[2]][j].ins : j \in ClustersOf(x, pos[1])}
  BY <1>2
<1> QED
  BY <1>1, <1>3 DEF MatchesOf

\* Corresponding clusters list every renaming.
LEMMA OrderedListed == IInv /\ MatchInv /\ Unsplit /\ ClassesOrdered => RenamingsListed
<1> SUFFICES ASSUME IInv, MatchInv, Unsplit, ClassesOrdered,
                    NEW po1 \in Outputs(1), NEW po2 \in Outputs(2),
                    NEW r \in InputMatches(Cone(1, po1), Cone(2, po2)),
                    NEW x \in Cone(1, po1).ins
             PROVE  r[x] \in MatchesOf(x)
  BY DEF RenamingsListed
<1> DEFINE p == piPart[1][po1]
           q == piPart[2][po2]
<1>1. CASE stage = "support"
  <2> DEFINE sign == InitialSignature(cir[1])
  <2>1. poPart[1][sign] = Outputs(1) /\ poPart[2][sign] = Outputs(2) /\ sign \in Common
    BY <1>1 DEF Unsplit, Common, Circuits
  <2>2. /\ p = <<[sig |-> PISignature, ins |-> cir[1].ins]>>
        /\ q = <<[sig |-> PISignature, ins |-> cir[2].ins]>>
    BY <1>1 DEF Unsplit, Circuits
  <2>3. 1 \in DOMAIN p /\ p[1].ins = cir[1].ins /\ q[1].ins = cir[2].ins
    BY <2>2
  <2>4. IsMatch(Cone(1, po1), Cone(2, po2), r)
    BY MatchOfOutputs DEF IInv
  <2>5. r[x] \in Cone(2, po2).ins
    BY <2>4, MatchBijective
  <2>6. Cone(1, po1).ins \subseteq cir[1].ins /\ Cone(2, po2).ins \subseteq cir[2].ins
    BY CircuitCones DEF IInv, Circuits
  <2> HIDE DEF sign
  <2> QED
    BY <2>1, <2>3, <2>5, <2>6, CandidateListed
<1>2. CASE stage # "support"
  <2>1. OrderedAlike(Cone(1, po1), Cone(2, po2), r)
    BY DEF ClassesOrdered
  <2>2. Matched(Cone(1, po1), Cone(2, po2), r, p, q)
    BY <1>2, <2>1, MatchedOutputs
  <2> DEFINE sign == POSignature(p)
  <2>3. POSignature(q) = sign
    BY <2>2, SignatureRenamed
  <2>4. DOMAIN piPart[1] = Outputs(1) /\ DOMAIN piPart[2] = Outputs(2)
    BY DEF IInv, TypeOK, Circuits
  <2>5. poPart[1] = Regroup(piPart[1]) /\ poPart[2] = Regroup(piPart[2])
    BY <1>2 DEF IInv, SignaturesCurrent, Circuits
  <2> HIDE DEF sign
  <2>6. sign \in DOMAIN poPart[1] /\ po1 \in poPart[1][sign]
    BY <2>4, <2>5 DEF Regroup, sign
  <2>7. sign \in DOMAIN poPart[2] /\ po2 \in poPart[2][sign]
    BY <2>3, <2>4, <2>5 DEF Regroup
  <2>8. MatchedShape(Cone(1, po1), Cone(2, po2), r, p, q)
    BY <2>2, MatchedClusters
  <2>9. PICK k \in DOMAIN p : x \in p[k].ins
    BY <2>2, SetsProperties DEF Matched, Sound, IsOrderedPartition
  <2>10. r[x] \in q[k].ins
    BY <2>8, <2>9 DEF MatchedShape
  <2> QED
    BY <2>6, <2>7, <2>9, <2>10, CandidateListed DEF Common
<1> QED
  BY <1>1, <1>2

-------------------------------------------------------------------------------
(***************************************************************************)
(* The number that calculatePossibleMatchings returns.                     *)
(***************************************************************************)
\* A set of numbers has a least.
LEMMA LeastOf ==
    ASSUME NEW S \in SUBSET Nat, S # {}
    PROVE  \E m \in S : \A n \in S : m <= n
<1>1. PICK m \in S : \A n \in S : ~(<<n, m>> \in OpToRel(<, Nat))
  BY NatLessThanWellFounded, WFMin
<1>2. \A n \in S : ~(n < m)
  BY <1>1 DEF OpToRel
<1> QED
  BY <1>2

\* A set of numbers that has 0 and with a number the next has all of them.
LEMMA AllNumbers ==
    ASSUME NEW S, 0 \in S, \A n \in Nat : n \in S => n + 1 \in S
    PROVE  Nat \subseteq S
<1> SUFFICES ASSUME Nat \ S # {}
             PROVE  FALSE
  OBVIOUS
<1>1. PICK m \in Nat \ S : \A n \in Nat \ S : m <= n
  BY LeastOf
<1>2. m # 0 /\ m - 1 \in Nat /\ m - 1 \in S /\ m = (m - 1) + 1
  BY <1>1
<1> QED
  BY <1>1, <1>2

\* The product of numbers that are not 0 is none.
LEMMA ProductPositive ==
    ASSUME NEW S, IsFiniteSet(S), NEW f \in [S -> Nat \ {0}], NEW base, base = 1
    PROVE  FoldFunction(LAMBDA m, n : m * n, base, f) \in Nat \ {0}
<1> DEFINE pick(s) == CHOOSE x \in s : TRUE
           small(n) == {s \in SUBSET S : Cardinality(s) <= n}
           next(g, s) == IF s = {} THEN base ELSE f[pick(s)] * g[s \ {pick(s)}]
           found == {n \in Nat : \E g : g = [s \in small(n) |-> next(g, s)]}
           iter[s \in SUBSET S] == IF s = {} THEN base ELSE f[pick(s)] * iter[s \ {pick(s)}]
<1>1. FoldFunction(LAMBDA m, n : m * n, base, f) = iter[S]
  BY DEF FoldFunction, FoldFunctionOnSet, MapThenFoldSet
<1>2. ASSUME NEW s \in SUBSET S, s # {}
      PROVE  /\ pick(s) \in S /\ s \ {pick(s)} \in SUBSET S
             /\ Cardinality(s) \in Nat /\ Cardinality(s \ {pick(s)}) = Cardinality(s) - 1
  BY <1>2, FS_Subset, FS_RemoveElement, FS_CardinalityType
<1>3. /\ Cardinality({}) = 0 /\ Cardinality(S) \in Nat
      /\ \A s \in SUBSET S : Cardinality(s) \in Nat /\ (Cardinality(s) = 0 => s = {})
  BY FS_EmptySet, FS_CardinalityType, FS_Subset
<1> HIDE DEF pick
<1>4. 0 \in found
  <2> DEFINE g == [s \in small(0) |-> base]
  <2>1. \A s \in small(0) : s = {}
    BY <1>3
  <2>2. g = [s \in small(0) |-> next(g, s)]
    BY <2>1
  <2> QED
    BY <2>2
<1>5. ASSUME NEW n \in Nat, n \in found
      PROVE  n + 1 \in found
  <2>1. PICK g : g = [s \in small(n) |-> next(g, s)]
    BY <1>5
  <2> DEFINE h == [s \in small(n + 1) |-> next(g, s)]
  <2>2. \A s \in small(n + 1) : s # {} => s \ {pick(s)} \in small(n) /\ s \ {pick(s)} \in small(n + 1)
    BY <1>2
  <2>3. \A s \in small(n) : s \in small(n + 1) /\ h[s] = g[s]
    <3>1. \A s \in small(n) : g[s] = next(g, s)
      BY <2>1
    <3>2. \A s \in small(n) : Cardinality(s) \in Nat
      BY FS_Subset, FS_CardinalityType
    <3> QED
      BY <3>1, <3>2
  <2>4. \A s \in small(n + 1) : next(h, s) = next(g, s)
    <3> HIDE DEF h, small
    <3> QED
      BY <2>2, <2>3
  <2>5. h = [s \in small(n + 1) |-> next(h, s)]
    <3> HIDE DEF next
    <3> QED
      BY <2>4
  <2> HIDE DEF h, small, next
  <2> QED
    BY <2>5
<1>6. \E g : g = [s \in SUBSET S |-> next(g, s)]
  <2>1. Cardinality(S) \in found
    BY <1>3, <1>4, <1>5, AllNumbers
  <2>2. small(Cardinality(S)) = SUBSET S
    BY FS_Subset
  <2> HIDE DEF small, next
  <2> QED
    BY <2>1, <2>2
<1>7. iter = [s \in SUBSET S |-> next(iter, s)]
  BY <1>6
<1> HIDE DEF iter
<1> DEFINE good == {n \in Nat : \A s \in SUBSET S : Cardinality(s) = n => iter[s] \in Nat \ {0}}
<1>8. 0 \in good
  <2>1. iter[{}] = base
    BY <1>7
  <2> QED
    BY <1>3, <2>1
<1>9. ASSUME NEW n \in Nat, n \in good
      PROVE  n + 1 \in good
  <2> SUFFICES ASSUME NEW s \in SUBSET S, Cardinality(s) = n + 1
               PROVE  iter[s] \in Nat \ {0}
    OBVIOUS
  <2>1. s # {}
    BY <1>3
  <2>2. iter[s \ {pick(s)}] \in Nat \ {0}
    BY <1>2, <1>9, <2>1
  <2>3. iter[s] = f[pick(s)] * iter[s \ {pick(s)}] /\ f[pick(s)] \in Nat \ {0}
    BY <1>2, <1>7, <2>1
  <2>4. \A k, m \in Nat \ {0} : k * m \in Nat \ {0}
    OBVIOUS
  <2> QED
    BY <2>2, <2>3, <2>4
<1>10. Cardinality(S) \in good
  BY <1>3, <1>8, <1>9, AllNumbers
<1> QED
  BY <1>1, <1>10
\* fact is defined by its recursion.
LEMMA FactDefined ==
    Fact = [n \in Nat |-> IF n <= 1 THEN 1 ELSE ((n - 1) * Fact[n - 1]) % 2^WordBits]
<1> DEFINE next(g, n) == IF n <= 1 THEN 1 ELSE ((n - 1) * g[n - 1]) % 2^WordBits
           upTo(g, n) == \A m \in 0..n : g[m] = next(g, m)
           found == {n \in Nat : \E g : upTo(g, n)}
           least(n) == CHOOSE g : upTo(g, n)
           all == [n \in Nat |-> least(n)[n]]
<1>1. 0 \in found
  <2> DEFINE g == [m \in 0..0 |-> 1]
  <2>1. upTo(g, 0)
    OBVIOUS
  <2> QED
    BY <2>1
<1>2. ASSUME NEW n \in Nat, n \in found
      PROVE  n + 1 \in found
  <2>1. PICK g : upTo(g, n)
    BY <1>2
  <2> DEFINE h == [m \in 0..(n + 1) |-> IF m = n + 1 THEN next(g, m) ELSE g[m]]
  <2>2. \A m \in 0..n : h[m] = g[m] /\ h[m] = next(g, m)
    BY <2>1
  <2>3. \A m \in 0..(n + 1) : h[m] = next(g, m)
    <3>1. h[n + 1] = next(g, n + 1)
      OBVIOUS
    <3>2. \A m \in 0..(n + 1) : m = n + 1 \/ m \in 0..n
      OBVIOUS
    <3>3. \A m \in 0..n : h[m] = next(g, m)
      BY <2>1, <2>2
    <3> HIDE DEF h, next
    <3> QED
      BY <3>1, <3>2, <3>3
  <2>4. \A m \in 0..(n + 1) : next(h, m) = next(g, m)
    BY <2>2
  <2>5. upTo(h, n + 1)
    <3> HIDE DEF h, next
    <3> QED
      BY <2>3, <2>4
  <2> HIDE DEF h, upTo
  <2> QED
    BY <2>5
<1>3. \A n \in Nat : upTo(least(n), n)
  <2>1. \A n \in Nat : \E g : upTo(g, n)
    BY <1>1, <1>2, AllNumbers
  <2> HIDE DEF upTo
  <2> QED
    BY <2>1
<1>4. ASSUME NEW g, NEW h, NEW k \in Nat, NEW l \in Nat, upTo(g, k), upTo(h, l), k <= l
      PROVE  g[k] = h[k]
  <2> DEFINE alike == {n \in Nat : n <= k => g[n] = h[n]}
  <2>1. 0 \in alike
    BY <1>4
  <2>2. ASSUME NEW n \in Nat, n \in alike
        PROVE  n + 1 \in alike
    BY <1>4, <2>2
  <2>3. k \in alike
    BY <2>1, <2>2, AllNumbers
  <2> QED
    BY <2>3
<1>5. ASSUME NEW n \in Nat
      PROVE  all[n] = next(all, n)
  <2>1. all[n] = next(least(n), n)
    BY <1>3
  <2>2. CASE n <= 1
    BY <2>1, <2>2
  <2>3. CASE ~(n <= 1)
    <3>1. n - 1 \in Nat /\ n - 1 <= n
      BY <2>3
    <3>2. least(n - 1)[n - 1] = least(n)[n - 1]
      <4> HIDE DEF upTo, least
      <4> QED
        BY <1>3, <1>4, <3>1
    <3>3. all[n - 1] = least(n)[n - 1]
      <4> HIDE DEF least
      <4> QED
        BY <3>1, <3>2
    <3>4. next(least(n), n) = next(all, n)
      <4> HIDE DEF all, least
      <4> QED
        BY <3>3
    <3> QED
      BY <2>1, <3>4
  <2> QED
    BY <2>2, <2>3
<1>6. all = [n \in Nat |-> next(all, n)]
  <2> HIDE DEF next, least
  <2> QED
    BY <1>5
<1>7. \E g : g = [n \in Nat |-> next(g, n)]
  <2> HIDE DEF all
  <2> QED
    BY <1>6
<1> QED
  BY <1>7 DEF Fact

\* Every product that fact(n) makes fits in a word.
FactFits(n) == \A m \in 1..(n - 1) : m * Fact[m] < 2^WordBits

\* The numbers of outputs that are counted together are small enough for fact.
CountsFit ==
    \A c \in Circuits : \A sign \in Common : FactFits(Cardinality(poPart[c][sign]))

\* As long as its products fit, fact grows from 1.
LEMMA FactGrows ==
    ASSUME NEW n \in Nat, FactFits(n), NEW k \in 0..n
    PROVE  Fact[n] \in Nat \ {0} /\ Fact[k] \in Nat \ {0} /\ Fact[k] <= Fact[n]
<1> DEFINE good == {m \in Nat : m <= n =>
                       /\ Fact[m] \in Nat \ {0}
                       /\ \A l \in 0..m : Fact[l] \in Nat \ {0} /\ Fact[l] <= Fact[m]}
<1>1. 0 \in good
  <2>1. Fact[0] = 1
    BY FactDefined
  <2> QED
    BY <2>1
<1>2. ASSUME NEW m \in Nat, m \in good
      PROVE  m + 1 \in good
  <2> SUFFICES ASSUME m + 1 <= n
               PROVE  /\ Fact[m + 1] \in Nat \ {0}
                      /\ \A l \in 0..(m + 1) :
                            Fact[l] \in Nat \ {0} /\ Fact[l] <= Fact[m + 1]
    OBVIOUS
  <2>1. \A i, j \in Nat \ {0} : i * j \in Nat \ {0} /\ j <= i * j
    OBVIOUS
  <2>2. Fact[m + 1] \in Nat \ {0} /\ Fact[m] <= Fact[m + 1]
    <3>1. CASE m = 0
      <4>1. Fact[0] = 1 /\ Fact[1] = 1
        BY FactDefined
      <4> QED
        BY <3>1, <4>1
    <3>2. CASE m # 0
      <4>1. m \in Nat \ {0} /\ Fact[m] \in Nat \ {0}
        BY <1>2, <3>2
      <4>2. Fact[m + 1] = (m * Fact[m]) % 2^WordBits
        BY <3>2, FactDefined
      <4>3. m * Fact[m] < 2^WordBits
        BY <4>1 DEF FactFits
      <4>4. \A i, d \in Nat : i < d => i % d = i
        OBVIOUS
      <4>5. Fact[m + 1] = m * Fact[m]
        BY <2>1, <4>1, <4>2, <4>3, <4>4, WordSize, WordBitsAssumption
      <4> QED
        BY <2>1, <4>1, <4>5
    <3> QED
      BY <3>1, <3>2
  <2>3. \A l \in 0..(m + 1) : l = m + 1 \/ l \in 0..m
    OBVIOUS
  <2> QED
    BY <1>2, <2>2, <2>3
<1>3. n \in good
  BY <1>1, <1>2, AllNumbers
<1> QED
  BY <1>3

\* combCount divides by no 0 then, and is never 0.
LEMMA CombCountPositive ==
    ASSUME NEW a \in Nat, NEW b \in Nat, FactFits(a), FactFits(b)
    PROVE  combCount(a, b) \in Nat \ {0}
<1>1. \A i, j \in Nat \ {0} : j <= i => i \div j \in Nat \ {0}
  OBVIOUS
<1>2. CASE a < b
  BY <1>1, <1>2, FactGrows DEF combCount
<1>3. CASE ~(a < b)
  BY <1>1, <1>3, FactGrows DEF combCount
<1> QED
  BY <1>2, <1>3

\* What takes part in the products is finite.
LEMMA FiniteData ==
    ASSUME IInv, Unsplit
    PROVE  /\ \A c \in Circuits : /\ IsFiniteSet(cir[c].ins)
                                  /\ IsFiniteSet(Outputs(c))
                                  /\ IsFiniteSet(DOMAIN poPart[c])
           /\ \A c \in Circuits : \A sign \in DOMAIN poPart[c] : IsFiniteSet(poPart[c][sign])
           /\ \A c \in Circuits : \A po \in Outputs(c) : \A k \in DOMAIN piPart[c][po] :
                 piPart[c][po][k].ins \subseteq Names
<1> SUFFICES ASSUME NEW c \in Circuits
             PROVE  /\ IsFiniteSet(cir[c].ins)
                    /\ IsFiniteSet(Outputs(c))
                    /\ IsFiniteSet(DOMAIN poPart[c])
                    /\ \A sign \in DOMAIN poPart[c] : IsFiniteSet(poPart[c][sign])
                    /\ \A po \in Outputs(c) : \A k \in DOMAIN piPart[c][po] :
                          piPart[c][po][k].ins \subseteq Names
  OBVIOUS
<1>1. /\ cir[c].ins \subseteq Names /\ IsFiniteSet(Outputs(c))
      /\ piPart[c] \in [Outputs(c) -> Seq(Clusters)]
      /\ \A sign \in DOMAIN poPart[c] : poPart[c][sign] \subseteq Outputs(c)
  BY DEF IInv, TypeOK, IsCircuit, Outputs
<1>2. IsFiniteSet(cir[c].ins)
  BY <1>1, NamesAssumption, FS_Subset
<1>3. IsFiniteSet(DOMAIN poPart[c])
  <2>1. CASE stage = "support"
    <3>1. DOMAIN poPart[c] = {InitialSignature(cir[1])}
      BY <2>1 DEF Unsplit
    <3> QED
      BY <3>1, FS_Singleton
  <2>2. CASE stage # "support"
    <3>1. DOMAIN poPart[c] = {POSignature(piPart[c][po]) : po \in Outputs(c)}
      BY <1>1, <2>2 DEF IInv, SignaturesCurrent, Regroup
    <3> DEFINE sig == [po \in Outputs(c) |-> POSignature(piPart[c][po])]
    <3>2. sig \in Surjection(Outputs(c), DOMAIN poPart[c])
      <4> HIDE DEF sig
      <4>1. /\ DOMAIN poPart[c] = {sig[po] : po \in Outputs(c)}
            /\ sig = [po \in Outputs(c) |-> sig[po]]
        BY <3>1 DEF sig
      <4> QED
        BY <4>1 DEF Surjection
    <3> QED
      BY <1>1, <3>2, FS_Surjection
  <2> QED
    BY <2>1, <2>2
<1>4. \A sign \in DOMAIN poPart[c] : IsFiniteSet(poPart[c][sign])
  BY <1>1, FS_Subset
<1>5. ASSUME NEW po \in Outputs(c), NEW k \in DOMAIN piPart[c][po]
      PROVE  piPart[c][po][k].ins \subseteq Names
  <2>1. piPart[c][po][k] \in Clusters
    BY <1>1, ElementOfSeq
  <2> QED
    BY <2>1 DEF Clusters
<1> QED
  BY <1>1, <1>2, <1>3, <1>4, <1>5

\* Outputs with one signature have clusters of the same sizes.
LEMMA SameSizes ==
    ASSUME IInv, Unsplit, NEW sign \in Common,
           NEW po1 \in poPart[1][sign], NEW po2 \in poPart[2][sign],
           NEW k \in DOMAIN piPart[1][po1], piPart[1][po1][k].ins # {},
           stage = "support" => cir[2].ins # {}
    PROVE  /\ po1 \in Outputs(1) /\ po2 \in Outputs(2)
           /\ k \in DOMAIN piPart[2][po2] /\ piPart[2][po2][k].ins # {}
<1> DEFINE p == piPart[1][po1]
           q == piPart[2][po2]
<1>1. po1 \in Outputs(1) /\ po2 \in Outputs(2)
  BY DEF IInv, TypeOK, Circuits, Common
<1>2. CASE stage = "support"
  <2>1. /\ p = <<[sig |-> PISignature, ins |-> cir[1].ins]>>
        /\ q = <<[sig |-> PISignature, ins |-> cir[2].ins]>>
    BY <1>1, <1>2 DEF Unsplit, Circuits
  <2>2. DOMAIN p = DOMAIN q /\ q[1].ins = cir[2].ins /\ \A j \in DOMAIN p : j = 1
    BY <2>1
  <2> HIDE DEF p, q
  <2>3. k = 1 /\ k \in DOMAIN q
    BY <2>2 DEF p
  <2> QED
    BY <1>1, <1>2, <2>2, <2>3 DEF q
<1>3. CASE stage # "support"
  <2>1. POSignature(p) = sign /\ POSignature(q) = sign
    <3>1. poPart[1] = Regroup(piPart[1]) /\ poPart[2] = Regroup(piPart[2])
      BY <1>3 DEF IInv, SignaturesCurrent, Circuits
    <3> QED
      BY <3>1 DEF Regroup, Common
  <2> DEFINE sizes(part) == [i \in DOMAIN part |-> <<Cardinality(part[i].ins), part[i].sig>>]
  <2>2. sizes(p) = sizes(q)
    BY <2>1 DEF POSignature
  <2>3. DOMAIN p = DOMAIN q /\ Cardinality(p[k].ins) = Cardinality(q[k].ins)
    <3>1. sizes(p)[k] = sizes(q)[k] /\ DOMAIN sizes(p) = DOMAIN sizes(q)
      BY <2>2
    <3> QED
      BY <3>1
  <2>4. IsFiniteSet(p[k].ins) /\ IsFiniteSet(q[k].ins)
    BY <1>1, <2>3, FiniteData, NamesAssumption, FS_Subset DEF Circuits
  <2> QED
    BY <1>1, <2>3, <2>4, FS_EmptySet
<1> QED
  BY <1>2, <1>3

\* When some input has a candidate, the number is positive.
LEMMA CandidatesCounted ==
    ASSUME IInv, Unsplit, CountsFit, NEW x \in cir[1].ins, NEW y \in MatchesOf(x)
    PROVE  PossibleMatchings > 0
<1>1. PICK pos \in OutputPairs : \E k \in ClustersOf(x, pos[1]) : y \in piPart[2][pos[2]][k].ins
  BY DEF MatchesOf
<1>2. PICK sign \in Common : pos \in poPart[1][sign] \X poPart[2][sign]
  BY DEF OutputPairs
<1>3. stage = "support" => cir[2].ins # {}
  <2> SUFFICES ASSUME stage = "support"
               PROVE  cir[2].ins # {}
    OBVIOUS
  <2>1. pos[1] \in Outputs(1) /\ pos[2] \in Outputs(2)
    BY <1>2 DEF IInv, TypeOK, Circuits, Common
  <2>2. /\ piPart[1][pos[1]] = <<[sig |-> PISignature, ins |-> cir[1].ins]>>
        /\ piPart[2][pos[2]] = <<[sig |-> PISignature, ins |-> cir[2].ins]>>
    BY <2>1 DEF Unsplit, Circuits
  <2>3. PICK k \in ClustersOf(x, pos[1]) : y \in piPart[2][pos[2]][k].ins
    BY <1>1
  <2>4. k = 1
    BY <2>2 DEF ClustersOf
  <2> QED
    BY <2>2, <2>3, <2>4
<1>4. OutputMatches \in Nat \ {0}
  <2> DEFINE counted == {s \in Common :
                 \A t \in Common : CountOf(t) = 0 => t # s /\ SignatureLess(t, s)}
             count == [s \in Common |-> CountOf(s)]
             base == IF Common = {} THEN 0 ELSE 1
  <2>1. IsFiniteSet(Common)
    BY FiniteData, FS_Subset DEF Common, Circuits
  <2>2. ASSUME NEW s \in Common
        PROVE  CountOf(s) \in Nat \ {0}
    <3>1. \A c \in Circuits : Cardinality(poPart[c][s]) \in Nat
      BY FiniteData, FS_CardinalityType DEF Common, Circuits
    <3> QED
      BY <3>1, CombCountPositive DEF CountOf, CountsFit, Circuits
  <2>3. count \in [Common -> Nat \ {0}]
    BY <2>2
  <2>4. base = 1
    BY <1>2
  <2>5. counted = Common
    BY <2>2
  <2>6. \A s \in Common : CountOf(s) # Fault
    BY <2>2 DEF Fault
  <2>7. OutputMatches = FoldFunction(LAMBDA m, n : m * n, base, count)
    <3>1. OutputMatches = FoldFunction(LAMBDA m, n : m * n, IF counted = {} THEN 0 ELSE 1,
                                       [s \in counted |-> CountOf(s)])
      BY <2>6 DEF OutputMatches
    <3> HIDE DEF counted
    <3> QED
      BY <2>5, <3>1
  <2> HIDE DEF counted, count, base
  <2> QED
    BY <2>1, <2>3, <2>4, <2>7, ProductPositive
<1>5. InputMatchCount \in Nat \ {0}
  <2> DEFINE matched == {z \in cir[1].ins : \E pair \in OutputPairs : ClustersOf(z, pair[1]) # {}}
             count == [z \in matched |-> Cardinality(MatchesOf(z))]
             base == IF matched = {} THEN 0 ELSE 1
  <2>1. IsFiniteSet(matched)
    BY FiniteData, FS_Subset DEF Circuits
  <2>2. base = 1
    BY <1>1
  <2>3. ASSUME NEW z \in matched
        PROVE  Cardinality(MatchesOf(z)) \in Nat \ {0}
    <3>1. PICK pair \in OutputPairs : ClustersOf(z, pair[1]) # {}
      OBVIOUS
    <3>2. PICK s \in Common : pair \in poPart[1][s] \X poPart[2][s]
      BY DEF OutputPairs
    <3>3. PICK k \in DOMAIN piPart[1][pair[1]] : z \in piPart[1][pair[1]][k].ins
      BY <3>1 DEF ClustersOf
    <3>4. k \in DOMAIN piPart[2][pair[2]] /\ piPart[2][pair[2]][k].ins # {}
      BY <1>3, <3>2, <3>3, SameSizes
    <3>5. PICK w : w \in piPart[2][pair[2]][k].ins
      BY <3>4
    <3>6. w \in MatchesOf(z)
      BY <3>2, <3>3, <3>4, <3>5, CandidateListed
    <3>7. MatchesOf(z) \subseteq Names
      <4> SUFFICES ASSUME NEW v \in MatchesOf(z)
                   PROVE  v \in Names
        OBVIOUS
      <4>1. PICK t \in OutputPairs : \E l \in ClustersOf(z, t[1]) : v \in piPart[2][t[2]][l].ins
        BY DEF MatchesOf
      <4>2. PICK l \in ClustersOf(z, t[1]) : v \in piPart[2][t[2]][l].ins
        BY <4>1
      <4>3. PICK u \in Common : t \in poPart[1][u] \X poPart[2][u]
        BY <4>1 DEF OutputPairs
      <4>4. l \in DOMAIN piPart[1][t[1]] /\ z \in piPart[1][t[1]][l].ins
        BY DEF ClustersOf
      <4>5. t[2] \in Outputs(2) /\ l \in DOMAIN piPart[2][t[2]]
        BY <1>3, <4>3, <4>4, SameSizes
      <4> QED
        BY <4>2, <4>5, FiniteData DEF Circuits
    <3> QED
      BY <3>6, <3>7, NamesAssumption, FS_Subset, FS_EmptySet, FS_CardinalityType
  <2>4. count \in [matched -> Nat \ {0}]
    BY <2>3
  <2>5. InputMatchCount = FoldFunction(LAMBDA m, n : m * n, base, count)
    BY DEF InputMatchCount
  <2> HIDE DEF matched, count, base
  <2> QED
    BY <2>1, <2>2, <2>4, <2>5, ProductPositive
<1>6. \A m, n \in Nat \ {0} : m * n > 0 /\ m # -1
  OBVIOUS
<1> QED
  BY <1>4, <1>5, <1>6 DEF PossibleMatchings, Fault

\* When the renamings keep the order of the classes, each of them is among the
\* candidates that calculatePossibleMatchings collects; and when no product that
\* fact makes of the numbers of outputs with one signature wraps, the number it
\* returns is positive, after every call of the command `split'
\* (matcher.cpp:412-432).  With words of 64 bits this covers up to 21 outputs of
\* one signature; with 67 and more the product is 0 (utils.cpp:29), and 0 is
\* printed of equivalent outputs.
THEOREM MatchesStayCounted ==
    Spec => []((ClassesOrdered => RenamingsListed)
               /\ (ClassesOrdered /\ CountsFit => MatchesCounted))
<1>1. Init => Unsplit
  BY DEF Init, Unsplit
<1>2. IInv /\ Unsplit /\ [Next]_vars => Unsplit'
  BY UnsplitPreserved
<1>3. IInv /\ MatchInv /\ Unsplit =>
          (ClassesOrdered => RenamingsListed)
          /\ (ClassesOrdered /\ CountsFit => MatchesCounted)
  <2> SUFFICES ASSUME IInv, MatchInv, Unsplit, ClassesOrdered
               PROVE  RenamingsListed /\ (CountsFit => MatchesCounted)
    OBVIOUS
  <2>1. RenamingsListed
    BY OrderedListed
  <2>2. ASSUME NEW po1 \in Outputs(1), NEW po2 \in Outputs(2),
               InputMatches(Cone(1, po1), Cone(2, po2)) # {}, Cone(1, po1).ins # {},
               CountsFit
        PROVE  PossibleMatchings > 0
    <3>1. PICK r \in InputMatches(Cone(1, po1), Cone(2, po2)), x \in Cone(1, po1).ins : TRUE
      BY <2>2
    <3>2. r[x] \in MatchesOf(x)
      BY <2>1, <3>1 DEF RenamingsListed
    <3>3. x \in cir[1].ins
      BY <3>1, CircuitCones DEF IInv, Circuits
    <3> QED
      BY <2>2, <3>2, <3>3, CandidatesCounted
  <2> QED
    BY <2>1, <2>2 DEF MatchesCounted
<1> QED
  BY <1>1, <1>2, <1>3, MatchInvariance, PTL DEF Spec

===============================================================================
