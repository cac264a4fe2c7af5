---------------------------- MODULE OperatorProofs -----------------------------
(***************************************************************************)
(* What the operators of BoolCone and OrderedPartition do, for every cone  *)
(* and every partition: the lemmas that the proofs about the simulator,    *)
(* the matcher and the validator share.                                    *)
(***************************************************************************)
EXTENDS BoolCone, OrderedPartition, Functions, FiniteSetTheorems, TLAPS

-------------------------------------------------------------------------------
(***************************************************************************)
(* Cones: exchanging inputs is an equivalence, exchangeable inputs cannot  *)
(* be told apart by their unateness nor by a simulation whose vector gives *)
(* both the same value, and a renaming of the inputs keeps all of this.    *)
(***************************************************************************)
\* If x can be exchanged with y, y can be exchanged with x.
LEMMA ExchangeableSymmetric ==
    ASSUME NEW f, NEW x, NEW y, Exchangeable(f, x, y)
    PROVE  Exchangeable(f, y, x)
<1>1. f.ins \ {x, y} = f.ins \ {y, x}
  OBVIOUS
<1> QED
  BY <1>1 DEF Exchangeable

\* Exchanging x and z is exchanging x and y, y and z, x and y.
LEMMA ExchangeableTransitive ==
    ASSUME NEW f, NEW x \in f.ins, NEW y \in f.ins, NEW z \in f.ins,
           x # y, y # z, x # z,
           Exchangeable(f, x, y), Exchangeable(f, y, z)
    PROVE  Exchangeable(f, x, z)
<1> SUFFICES ASSUME NEW vec \in SUBSET (f.ins \ {x, z})
             PROVE  EvalOutput(f, vec \cup {x}) <=> EvalOutput(f, vec \cup {z})
  BY DEF Exchangeable
<1>1. CASE y \notin vec
  <2>1. vec \in SUBSET (f.ins \ {x, y}) /\ vec \in SUBSET (f.ins \ {y, z})
    BY <1>1
  <2>2. /\ EvalOutput(f, vec \cup {x}) <=> EvalOutput(f, vec \cup {y})
        /\ EvalOutput(f, vec \cup {y}) <=> EvalOutput(f, vec \cup {z})
    BY <2>1 DEF Exchangeable
  <2> QED
    BY <2>2
<1>2. CASE y \in vec
  <2> DEFINE rest == vec \ {y}
  <2>1. /\ rest \cup {x} \in SUBSET (f.ins \ {y, z})
        /\ rest \cup {z} \in SUBSET (f.ins \ {x, y})
    OBVIOUS
  <2>2. EvalOutput(f, (rest \cup {x}) \cup {y}) <=> EvalOutput(f, (rest \cup {x}) \cup {z})
    BY <2>1 DEF Exchangeable
  <2>3. EvalOutput(f, (rest \cup {z}) \cup {x}) <=> EvalOutput(f, (rest \cup {z}) \cup {y})
    BY <2>1 DEF Exchangeable
  <2>4. /\ (rest \cup {x}) \cup {y} = vec \cup {x}
        /\ (rest \cup {x}) \cup {z} = (rest \cup {z}) \cup {x}
        /\ (rest \cup {z}) \cup {y} = vec \cup {z}
    BY <1>2
  <2> QED
    BY <2>2, <2>3, <2>4
<1> QED
  BY <1>1, <1>2

\* A symmetry class is the class of each of its members.
LEMMA SymmetryClassOfMember ==
    ASSUME NEW f, NEW x \in f.ins, NEW y \in SymmetryClass(f, x)
    PROVE  y \in f.ins /\ SymmetryClass(f, y) = SymmetryClass(f, x)
<1>1. y \in f.ins /\ (y = x \/ Exchangeable(f, x, y))
  BY DEF SymmetryClass
<1>2. CASE y = x
  BY <1>2
<1>3. CASE y # x
  <2>1. Exchangeable(f, x, y) /\ Exchangeable(f, y, x)
    BY <1>1, <1>3, ExchangeableSymmetric
  <2>2. ASSUME NEW z \in f.ins
        PROVE  z \in SymmetryClass(f, x) <=> z \in SymmetryClass(f, y)
    <3>1. CASE z = x \/ z = y
      BY <1>1, <2>1, <3>1 DEF SymmetryClass
    <3>2. CASE z # x /\ z # y
      <4>1. Exchangeable(f, x, z) => Exchangeable(f, y, z)
        BY <1>1, <1>3, <2>1, <3>2, ExchangeableTransitive
      <4>2. Exchangeable(f, y, z) => Exchangeable(f, x, z)
        BY <1>1, <1>3, <2>1, <3>2, ExchangeableTransitive
      <4> QED
        BY <3>2, <4>1, <4>2 DEF SymmetryClass
    <3> QED
      BY <3>1, <3>2
  <2>3. SymmetryClass(f, x) \subseteq f.ins /\ SymmetryClass(f, y) \subseteq f.ins
    BY DEF SymmetryClass
  <2> QED
    BY <1>1, <2>2, <2>3
<1> QED
  BY <1>2, <1>3

\* Exchangeable inputs are unate in the same direction.
LEMMA ExchangeableUnate ==
    ASSUME NEW f, NEW x \in f.ins, NEW y \in f.ins, x # y,
           Exchangeable(f, x, y)
    PROVE  /\ PosUnateIn(f, x) => PosUnateIn(f, y)
           /\ NegUnateIn(f, x) => NegUnateIn(f, y)
<1> SUFFICES ASSUME NEW vec \in SUBSET (f.ins \ {y})
             PROVE  /\ PosUnateIn(f, x) =>
                         (EvalOutput(f, vec) => EvalOutput(f, vec \cup {y}))
                    /\ NegUnateIn(f, x) =>
                         (EvalOutput(f, vec \cup {y}) => EvalOutput(f, vec))
  BY DEF PosUnateIn, NegUnateIn
<1>1. CASE x \notin vec
  <2>1. vec \in SUBSET (f.ins \ {x}) /\ vec \in SUBSET (f.ins \ {x, y})
    BY <1>1
  <2>2. EvalOutput(f, vec \cup {x}) <=> EvalOutput(f, vec \cup {y})
    BY <2>1 DEF Exchangeable
  <2> QED
    BY <2>1, <2>2 DEF PosUnateIn, NegUnateIn
<1>2. CASE x \in vec
  <2> DEFINE rest == vec \ {x}
  <2>1. rest \in SUBSET (f.ins \ {x, y}) /\ rest \cup {y} \in SUBSET (f.ins \ {x})
    OBVIOUS
  <2>2. EvalOutput(f, rest \cup {x}) <=> EvalOutput(f, rest \cup {y})
    BY <2>1 DEF Exchangeable
  <2>3. rest \cup {x} = vec /\ (rest \cup {y}) \cup {x} = vec \cup {y}
    BY <1>2
  <2> QED
    BY <2>1, <2>2, <2>3 DEF PosUnateIn, NegUnateIn
<1> QED
  BY <1>1, <1>2

\* Flipping x or flipping y gives the same output when vec has the same value
\* for both.
LEMMA ExchangeableFlip ==
    ASSUME NEW f, NEW x \in f.ins, NEW y \in f.ins, x # y,
           Exchangeable(f, x, y),
           NEW vec \in SUBSET f.ins, x \in vec <=> y \in vec
    PROVE  EvalOutput(f, Flip(vec, x)) <=> EvalOutput(f, Flip(vec, y))
<1> DEFINE rest == vec \ {x, y}
<1>1. EvalOutput(f, rest \cup {x}) <=> EvalOutput(f, rest \cup {y})
  BY DEF Exchangeable
<1>2. CASE x \in vec
  <2>1. Flip(vec, x) = rest \cup {y} /\ Flip(vec, y) = rest \cup {x}
    BY <1>2 DEF Flip
  <2> QED
    BY <1>1, <2>1
<1>3. CASE x \notin vec
  <2>1. Flip(vec, x) = rest \cup {x} /\ Flip(vec, y) = rest \cup {y}
    BY <1>3 DEF Flip
  <2> QED
    BY <1>1, <2>1
<1> QED
  BY <1>2, <1>3

-------------------------------------------------------------------------------
(***************************************************************************)
(* Facts about a renaming of inputs under which two cones are equivalent:  *)
(* whatever the matcher asks of an input has the same answer for the input *)
(* it is renamed to.                                                       *)
(***************************************************************************)
\* r is a bijection of the inputs of the cones f and g, under which they compute
\* the same function.
IsMatch(f, g, r) ==
    /\ f.on \in SUBSET (SUBSET f.ins)
    /\ g.on \in SUBSET (SUBSET g.ins)
    /\ r \in InputMatches(f, g)

\* What a bijection of inputs is.
LEMMA MatchBijective ==
    ASSUME NEW f, NEW g, NEW r, IsMatch(f, g, r)
    PROVE  /\ \A x \in f.ins : r[x] \in g.ins
           /\ \A x, y \in f.ins : r[x] = r[y] => x = y
           /\ \A z \in g.ins : \E x \in f.ins : r[x] = z
           /\ r \in Bijection(f.ins, g.ins)
  BY DEF IsMatch, InputMatches, Bijection, Injection, Surjection, IsInjective

\* How images of vectors are built.
LEMMA ImageProperties ==
    ASSUME NEW f, NEW g, NEW r, IsMatch(f, g, r)
    PROVE  /\ \A A \in SUBSET f.ins : Image(r, A) \in SUBSET g.ins
           /\ \A A \in SUBSET f.ins : \A x \in f.ins : r[x] \in Image(r, A) <=> x \in A
           /\ \A A, B \in SUBSET f.ins : Image(r, A) = Image(r, B) => A = B
           /\ Image(r, f.ins) = g.ins
<1> USE MatchBijective
<1>1. \A A \in SUBSET f.ins : Image(r, A) \in SUBSET g.ins
  BY DEF Image
<1>2. \A A \in SUBSET f.ins : \A x \in f.ins : r[x] \in Image(r, A) <=> x \in A
  BY DEF Image
<1>3. ASSUME NEW A \in SUBSET f.ins, NEW B \in SUBSET f.ins, Image(r, A) = Image(r, B)
      PROVE  A = B
  <2>1. \A x \in f.ins : x \in A <=> x \in B
    BY <1>2, <1>3
  <2> QED
    BY <2>1
<1>4. Image(r, f.ins) = g.ins
  BY DEF Image
<1> QED
  BY <1>1, <1>2, <1>3, <1>4

\* Every vector of g is the image of one of f.
LEMMA ImageOnto ==
    ASSUME NEW f, NEW g, NEW r, IsMatch(f, g, r), NEW B \in SUBSET g.ins
    PROVE  \E A \in SUBSET f.ins : Image(r, A) = B
<1>1. Image(r, {x \in f.ins : r[x] \in B}) = B
  BY MatchBijective DEF Image
<1> QED
  BY <1>1

\* Corresponding vectors give corresponding outputs.
LEMMA MatchEvaluates ==
    ASSUME NEW f, NEW g, NEW r, IsMatch(f, g, r), NEW vec \in SUBSET f.ins
    PROVE  EvalOutput(f, vec) <=> EvalOutput(g, Image(r, vec))
<1>1. g.on = {Image(r, v) : v \in f.on} /\ f.on \in SUBSET (SUBSET f.ins)
  BY DEF IsMatch, InputMatches, EquivalentUnder
<1>2. vec \in f.on => Image(r, vec) \in g.on
  BY <1>1
<1>3. ASSUME Image(r, vec) \in g.on
      PROVE  vec \in f.on
  <2>1. PICK v \in f.on : Image(r, vec) = Image(r, v)
    BY <1>1, <1>3
  <2> QED
    BY <1>1, <2>1, ImageProperties
<1> QED
  BY <1>2, <1>3 DEF EvalOutput

\* Flipping an input corresponds to flipping its image.
LEMMA ImageOfFlip ==
    ASSUME NEW f, NEW g, NEW r, IsMatch(f, g, r),
           NEW vec \in SUBSET f.ins, NEW x \in f.ins
    PROVE  Image(r, Flip(vec, x)) = Flip(Image(r, vec), r[x])
<1>1. Image(r, vec \cup {x}) = Image(r, vec) \cup {r[x]}
  BY DEF Image
<1>2. Image(r, vec \ {x}) = Image(r, vec) \ {r[x]}
  BY MatchBijective DEF Image
<1>3. r[x] \in Image(r, vec) <=> x \in vec
  BY ImageProperties
<1> QED
  BY <1>1, <1>2, <1>3 DEF Flip

\* An input is unate as its image is.
LEMMA MatchUnate ==
    ASSUME NEW f, NEW g, NEW r, IsMatch(f, g, r), NEW x \in f.ins
    PROVE  /\ PosUnateIn(f, x) <=> PosUnateIn(g, r[x])
           /\ NegUnateIn(f, x) <=> NegUnateIn(g, r[x])
<1>0. \A B \in SUBSET g.ins : \E A \in SUBSET f.ins : Image(r, A) = B
  BY ImageOnto
<1>1. ASSUME NEW vec \in SUBSET (f.ins \ {x})
      PROVE  /\ Image(r, vec) \in SUBSET (g.ins \ {r[x]})
             /\ EvalOutput(f, vec) <=> EvalOutput(g, Image(r, vec))
             /\ EvalOutput(f, vec \cup {x}) <=> EvalOutput(g, Image(r, vec) \cup {r[x]})
  <2>1. vec \in SUBSET f.ins /\ vec \cup {x} \in SUBSET f.ins /\ x \notin vec
    OBVIOUS
  <2>2. Image(r, vec) \in SUBSET g.ins /\ r[x] \notin Image(r, vec)
    BY <2>1, ImageProperties
  <2>3. Image(r, vec \cup {x}) = Image(r, vec) \cup {r[x]}
    BY DEF Image
  <2>4. EvalOutput(f, vec \cup {x}) <=> EvalOutput(g, Image(r, vec \cup {x}))
    BY <2>1, MatchEvaluates
  <2>5. EvalOutput(f, vec) <=> EvalOutput(g, Image(r, vec))
    BY <2>1, MatchEvaluates
  <2> QED
    BY <2>2, <2>3, <2>4, <2>5
<1>2. \A w \in SUBSET (g.ins \ {r[x]}) : \E vec \in SUBSET (f.ins \ {x}) : Image(r, vec) = w
  <2> SUFFICES ASSUME NEW w \in SUBSET (g.ins \ {r[x]})
               PROVE  \E vec \in SUBSET (f.ins \ {x}) : Image(r, vec) = w
    OBVIOUS
  <2>0. w \in SUBSET g.ins
    OBVIOUS
  <2>1. PICK vec \in SUBSET f.ins : Image(r, vec) = w
    BY <1>0, <2>0
  <2>2. x \notin vec
    BY <2>1, ImageProperties
  <2> QED
    BY <2>1, <2>2
<1>3. PosUnateIn(f, x) <=> PosUnateIn(g, r[x])
  BY <1>1, <1>2 DEF PosUnateIn
<1>4. ASSUME NegUnateIn(f, x), NEW w \in SUBSET (g.ins \ {r[x]}), EvalOutput(g, w \cup {r[x]})
      PROVE  EvalOutput(g, w)
  <2>1. PICK vec \in SUBSET (f.ins \ {x}) : Image(r, vec) = w
    BY <1>2
  <2> QED
    BY <1>1, <1>4, <2>1 DEF NegUnateIn
<1>5. NegUnateIn(g, r[x]) => NegUnateIn(f, x)
  BY <1>1 DEF NegUnateIn
<1> QED
  BY <1>3, <1>4, <1>5 DEF NegUnateIn

\* Two inputs can be exchanged when their images can.
LEMMA MatchExchangeable ==
    ASSUME NEW f, NEW g, NEW r, IsMatch(f, g, r), NEW x \in f.ins, NEW y \in f.ins
    PROVE  Exchangeable(f, x, y) <=> Exchangeable(g, r[x], r[y])
<1>0. \A B \in SUBSET g.ins : \E A \in SUBSET f.ins : Image(r, A) = B
  BY ImageOnto
<1>1. ASSUME NEW vec \in SUBSET (f.ins \ {x, y})
      PROVE  /\ Image(r, vec) \in SUBSET (g.ins \ {r[x], r[y]})
             /\ EvalOutput(f, vec \cup {x}) <=> EvalOutput(g, Image(r, vec) \cup {r[x]})
             /\ EvalOutput(f, vec \cup {y}) <=> EvalOutput(g, Image(r, vec) \cup {r[y]})
  <2>1. /\ vec \in SUBSET f.ins /\ x \notin vec /\ y \notin vec
        /\ vec \cup {x} \in SUBSET f.ins /\ vec \cup {y} \in SUBSET f.ins
    OBVIOUS
  <2>2. Image(r, vec) \in SUBSET g.ins /\ r[x] \notin Image(r, vec) /\ r[y] \notin Image(r, vec)
    BY <2>1, ImageProperties
  <2>3. /\ Image(r, vec \cup {x}) = Image(r, vec) \cup {r[x]}
        /\ Image(r, vec \cup {y}) = Image(r, vec) \cup {r[y]}
    BY DEF Image
  <2>4. EvalOutput(f, vec \cup {x}) <=> EvalOutput(g, Image(r, vec \cup {x}))
    BY <2>1, MatchEvaluates
  <2>5. EvalOutput(f, vec \cup {y}) <=> EvalOutput(g, Image(r, vec \cup {y}))
    BY <2>1, MatchEvaluates
  <2> QED
    BY <2>2, <2>3, <2>4, <2>5
<1>2. \A w \in SUBSET (g.ins \ {r[x], r[y]}) :
          \E vec \in SUBSET (f.ins \ {x, y}) : Image(r, vec) = w
  <2> SUFFICES ASSUME NEW w \in SUBSET (g.ins \ {r[x], r[y]})
               PROVE  \E vec \in SUBSET (f.ins \ {x, y}) : Image(r, vec) = w
    OBVIOUS
  <2>0. w \in SUBSET g.ins
    OBVIOUS
  <2>1. PICK vec \in SUBSET f.ins : Image(r, vec) = w
    BY <1>0, <2>0
  <2>2. x \notin vec /\ y \notin vec
    BY <2>1, ImageProperties
  <2> QED
    BY <2>1, <2>2
<1> QED
  BY <1>1, <1>2 DEF Exchangeable

\* The class of the image is the image of the class.
LEMMA MatchSymmetryClass ==
    ASSUME NEW f, NEW g, NEW r, IsMatch(f, g, r), NEW x \in f.ins
    PROVE  /\ SymmetryClass(g, r[x]) = Image(r, SymmetryClass(f, x))
           /\ SymmetryClass(f, x) = {x} <=> SymmetryClass(g, r[x]) = {r[x]}
<1>1. ASSUME NEW y \in f.ins
      PROVE  y \in SymmetryClass(f, x) <=> r[y] \in SymmetryClass(g, r[x])
  BY MatchBijective, MatchExchangeable DEF SymmetryClass
<1>2. SymmetryClass(f, x) \in SUBSET f.ins /\ SymmetryClass(g, r[x]) \in SUBSET g.ins
  BY DEF SymmetryClass
<1>3. SymmetryClass(g, r[x]) = Image(r, SymmetryClass(f, x))
  BY <1>1, <1>2, MatchBijective DEF Image
<1>4. Image(r, {x}) = {r[x]} /\ {x} \in SUBSET f.ins
  BY DEF Image
<1>5. \A A, B \in SUBSET f.ins : Image(r, A) = Image(r, B) => A = B
  BY ImageProperties
<1> QED
  BY <1>2, <1>3, <1>4, <1>5

\* A set of inputs has as many members as its image.
LEMMA MatchCardinality ==
    ASSUME NEW f, NEW g, NEW r, IsMatch(f, g, r), IsFiniteSet(f.ins),
           NEW A \in SUBSET f.ins
    PROVE  Cardinality(Image(r, A)) = Cardinality(A) /\ IsFiniteSet(Image(r, A))
<1> DEFINE h == [x \in A |-> r[x]]
<1>1. h \in Bijection(A, Image(r, A))
  BY MatchBijective DEF Image, Bijection, Injection, Surjection, IsInjective
<1>2. IsFiniteSet(A)
  BY FS_Subset
<1>3. ExistsBijection(A, Image(r, A))
  BY <1>1 DEF ExistsBijection
<1> QED
  BY <1>2, <1>3, FS_Bijection


-------------------------------------------------------------------------------
(***************************************************************************)
(* SplitBy of an ordered partition of a finite set is an ordered partition *)
(* of the same set that refines it, for every key.  The slots are finitely *)
(* many pairs of natural numbers; the number of slots before a slot orders *)
(* them without gaps, which makes SlotAt a bijection.                      *)
(***************************************************************************)
IsFiniteSlots(S) == S \subseteq Nat \X Nat /\ IsFiniteSet(S)

\* part is a sequence of subsets of a finite set, and key gives every element
\* of every cluster a natural number.
IsKeyed(part, key) ==
    /\ \E N : IsFiniteSet(N) /\ part \in Seq(SUBSET N)
    /\ \A k \in DOMAIN part : \A x \in part[k] : key[k][x] \in Nat

\* Of two different slots one comes before the other, which then has more slots
\* before it.
LEMMA LaterHasMore ==
    ASSUME NEW S, IsFiniteSlots(S), NEW s \in S, NEW t \in S, Before(s, t)
    PROVE  Position(S, s) < Position(S, t)
<1>1. S \subseteq Nat \X Nat /\ IsFiniteSet(S)
  BY DEF IsFiniteSlots
<1>2. Predecessors(S, t) \in SUBSET S
  BY DEF Predecessors
<1>3. IsFiniteSet(Predecessors(S, t))
  BY <1>1, <1>2, FS_Subset
<1>4. Predecessors(S, s) \in SUBSET Predecessors(S, t)
  BY <1>1 DEF Predecessors, Before
<1>5. s \in Predecessors(S, t) /\ s \notin Predecessors(S, s)
  BY <1>1 DEF Predecessors, Before
<1>6. /\ Cardinality(Predecessors(S, s)) <= Cardinality(Predecessors(S, t))
      /\ Cardinality(Predecessors(S, s)) # Cardinality(Predecessors(S, t))
      /\ IsFiniteSet(Predecessors(S, s))
  BY <1>3, <1>4, <1>5, FS_Subset
<1>7. Cardinality(Predecessors(S, s)) \in Nat /\ Cardinality(Predecessors(S, t)) \in Nat
  BY <1>3, <1>6, FS_CardinalityType
<1> QED
  BY <1>6, <1>7 DEF Position

\* A slot's position is one of the first Cardinality(S) numbers.
LEMMA PositionInRange ==
    ASSUME NEW S, IsFiniteSlots(S), NEW s \in S
    PROVE  Position(S, s) \in 1..Cardinality(S)
<1>1. S \subseteq Nat \X Nat /\ IsFiniteSet(S)
  BY DEF IsFiniteSlots
<1>2. Predecessors(S, s) \in SUBSET S /\ s \notin Predecessors(S, s)
  BY <1>1 DEF Predecessors, Before
<1>3. /\ Cardinality(Predecessors(S, s)) <= Cardinality(S)
      /\ Cardinality(Predecessors(S, s)) # Cardinality(S)
      /\ IsFiniteSet(Predecessors(S, s))
  BY <1>1, <1>2, FS_Subset
<1>4. Cardinality(Predecessors(S, s)) \in Nat /\ Cardinality(S) \in Nat
  BY <1>1, <1>3, FS_CardinalityType
<1> QED
  BY <1>3, <1>4 DEF Position

\* SlotAt enumerates the slots: each position has one slot and each slot one
\* position.
LEMMA SlotEnumeration ==
    ASSUME NEW S, IsFiniteSlots(S)
    PROVE  /\ \A n \in 1..Cardinality(S) :
                SlotAt(S, n) \in S /\ Position(S, SlotAt(S, n)) = n
           /\ \A s \in S : SlotAt(S, Position(S, s)) = s
           /\ \A m, n \in 1..Cardinality(S) :
                m < n => Before(SlotAt(S, m), SlotAt(S, n))
<1>1. S \subseteq Nat \X Nat /\ IsFiniteSet(S) /\ Cardinality(S) \in Nat
  BY FS_CardinalityType DEF IsFiniteSlots
<1> DEFINE T == 1..Cardinality(S)
           p == [s \in S |-> Position(S, s)]
<1>2. \A s, t \in S : s # t => Before(s, t) \/ Before(t, s)
  BY <1>1 DEF Before
<1>3. \A s \in S : Position(S, s) \in T
  BY PositionInRange
<1>4. \A s, t \in S : Position(S, s) = Position(S, t) => s = t
  <2> SUFFICES ASSUME NEW s \in S, NEW t \in S, s # t
               PROVE  Position(S, s) # Position(S, t)
    OBVIOUS
  <2>1. Position(S, s) \in Int /\ Position(S, t) \in Int
    BY <1>3
  <2> QED
    BY <1>2, <2>1, LaterHasMore
<1>5. p \in Injection(S, T)
  BY <1>3, <1>4 DEF Injection, IsInjective
<1>6. IsFiniteSet(T) /\ Cardinality(T) = Cardinality(S)
  <2>1. CASE Cardinality(S) = 0
    BY <1>1, <2>1, FS_Interval
  <2>2. CASE Cardinality(S) > 0
    BY <1>1, <2>2, FS_Interval
  <2> QED
    BY <1>1, <2>1, <2>2
<1>7. p \in Surjection(S, T)
  BY <1>5, <1>6, FS_Injection
<1>8. \A n \in T : \E s \in S : Position(S, s) = n
  BY <1>7 DEF Surjection
<1>9. \A n \in T : SlotAt(S, n) \in S /\ Position(S, SlotAt(S, n)) = n
  BY <1>8 DEF SlotAt
<1>10. \A s \in S : SlotAt(S, Position(S, s)) = s
  BY <1>3, <1>4, <1>9
<1>11. ASSUME NEW m \in T, NEW n \in T, m < n
       PROVE  Before(SlotAt(S, m), SlotAt(S, n))
  <2>1. SlotAt(S, m) # SlotAt(S, n)
    BY <1>9, <1>11
  <2>2. ~Before(SlotAt(S, n), SlotAt(S, m))
    BY <1>9, <1>11, LaterHasMore
  <2> QED
    BY <1>2, <1>9, <2>1, <2>2
<1> QED
  BY <1>9, <1>10, <1>11

\* A split has finitely many slots, and they are pairs of numbers.
LEMMA SlotsFinite ==
    ASSUME NEW part, NEW key, IsKeyed(part, key)
    PROVE  IsFiniteSlots(Slots(part, key))
<1>1. PICK N : IsFiniteSet(N) /\ part \in Seq(SUBSET N)
  BY DEF IsKeyed
<1>2. \A k \in DOMAIN part : \A x \in part[k] : key[k][x] \in Nat
  BY DEF IsKeyed
<1> DEFINE K == 1..Len(part)
           D == {p \in K \X N : p[2] \in part[p[1]]}
           g == [p \in D |-> <<p[1], key[p[1]][p[2]]>>]
<1>3. Len(part) \in Nat /\ DOMAIN part = K /\ \A k \in K : part[k] \subseteq N
  BY <1>1
<1>4. IsFiniteSet(D)
  <2>1. IsFiniteSet(K)
    BY <1>3, FS_Interval
  <2>2. IsFiniteSet(K \X N)
    BY <1>1, <2>1, FS_Product
  <2>3. D \in SUBSET (K \X N)
    OBVIOUS
  <2> QED
    BY <2>2, <2>3, FS_Subset
<1>5. g \in Surjection(D, Slots(part, key))
  <2>1. \A p \in D : g[p] \in Slots(part, key)
    BY <1>3 DEF Slots
  <2>2. \A s \in Slots(part, key) : \E p \in D : g[p] = s
    <3> SUFFICES ASSUME NEW s \in Slots(part, key)
                 PROVE  \E p \in D : g[p] = s
      OBVIOUS
    <3>1. PICK k \in DOMAIN part : \E x \in part[k] : s = <<k, key[k][x]>>
      BY DEF Slots
    <3>2. PICK x \in part[k] : s = <<k, key[k][x]>>
      BY <3>1
    <3>3. <<k, x>> \in D /\ g[<<k, x>>] = s
      BY <1>3, <3>2
    <3> QED
      BY <3>3
  <2> QED
    BY <2>1, <2>2 DEF Surjection
<1>6. IsFiniteSet(Slots(part, key))
  BY <1>4, <1>5, FS_Surjection
<1>7. Slots(part, key) \subseteq Nat \X Nat
  BY <1>2, <1>3 DEF Slots
<1> QED
  BY <1>6, <1>7 DEF IsFiniteSlots

\* Each cluster of SplitBy holds the members of its slot, which share a cluster
\* of part and their key, and each element has a cluster.
LEMMA SplitByClusters ==
    ASSUME NEW part, NEW key, IsKeyed(part, key)
    PROVE  LET S == Slots(part, key) new == SplitBy(part, key) IN
           /\ DOMAIN new = 1..Cardinality(S)
           /\ \A n \in DOMAIN new :
                /\ SlotAt(S, n) \in S
                /\ SlotAt(S, n)[1] \in DOMAIN part
                /\ new[n] = Members(part, key, SlotAt(S, n))
                /\ new[n] # {}
           /\ \A k \in DOMAIN part : \A x \in part[k] :
                \E n \in DOMAIN new : SlotAt(S, n) = <<k, key[k][x]>> /\ x \in new[n]
<1> DEFINE S == Slots(part, key)
           new == SplitBy(part, key)
<1>1. IsFiniteSlots(S)
  BY SlotsFinite
<1>2. new = [n \in 1..Cardinality(S) |-> Members(part, key, SlotAt(S, n))]
  BY DEF SplitBy
<1>3. \A s \in S : s[1] \in DOMAIN part /\ Members(part, key, s) # {}
  BY DEF Slots, Members
<1>4. \A n \in DOMAIN new : /\ SlotAt(S, n) \in S
                            /\ SlotAt(S, n)[1] \in DOMAIN part
                            /\ new[n] = Members(part, key, SlotAt(S, n))
                            /\ new[n] # {}
  BY <1>1, <1>2, <1>3, SlotEnumeration
<1>5. ASSUME NEW k \in DOMAIN part, NEW x \in part[k]
      PROVE  \E n \in DOMAIN new : SlotAt(S, n) = <<k, key[k][x]>> /\ x \in new[n]
  <2> DEFINE s == <<k, key[k][x]>>
             n == Position(S, s)
  <2>1. s \in S /\ x \in Members(part, key, s)
    BY DEF Slots, Members
  <2>2. n \in DOMAIN new /\ SlotAt(S, n) = s
    BY <1>1, <1>2, <2>1, PositionInRange, SlotEnumeration
  <2>3. x \in new[n]
    BY <1>2, <2>1, <2>2
  <2> QED
    BY <2>2, <2>3
<1> QED
  BY <1>2, <1>4, <1>5

\* Splitting loses no element and gives none to two clusters.
THEOREM SplitByPartitions ==
    ASSUME NEW part, NEW key, IsKeyed(part, key),
           NEW X, IsOrderedPartition(part, X)
    PROVE  IsOrderedPartition(SplitBy(part, key), X)
<1> DEFINE S == Slots(part, key)
           new == SplitBy(part, key)
<1>1. \A n \in DOMAIN new : /\ SlotAt(S, n) \in S
                            /\ SlotAt(S, n)[1] \in DOMAIN part
                            /\ new[n] = Members(part, key, SlotAt(S, n))
  BY SplitByClusters
<1>2. ASSUME NEW m \in DOMAIN new, NEW n \in DOMAIN new, NEW x \in new[m] \cap new[n]
      PROVE  m = n
  <2> DEFINE s == SlotAt(S, m)
             t == SlotAt(S, n)
  <2>1. x \in part[s[1]] /\ key[s[1]][x] = s[2] /\ x \in part[t[1]] /\ key[t[1]][x] = t[2]
    BY <1>1, <1>2 DEF Members
  <2>2. s[1] = t[1]
    BY <1>1, <2>1 DEF IsOrderedPartition
  <2>3. IsFiniteSlots(S)
    BY SlotsFinite
  <2>4. s \in Nat \X Nat /\ t \in Nat \X Nat
    BY <1>1, <2>3 DEF IsFiniteSlots
  <2>5. s = t
    BY <2>1, <2>2, <2>4
  <2>6. m \in 1..Cardinality(S) /\ n \in 1..Cardinality(S)
    BY DEF SplitBy
  <2> QED
    BY <2>3, <2>5, <2>6, SlotEnumeration
<1>3. \A n \in DOMAIN new : \E k \in DOMAIN part : new[n] \subseteq part[k]
  BY <1>1 DEF Members
<1>4. \A k \in DOMAIN part : \A x \in part[k] : \E n \in DOMAIN new : x \in new[n]
  BY SplitByClusters
<1>5. UNION {new[n] : n \in DOMAIN new} = UNION {part[k] : k \in DOMAIN part}
  BY <1>3, <1>4
<1>6. \A m, n \in DOMAIN new : m # n => new[m] \cap new[n] = {}
  BY <1>2
<1> QED
  BY <1>5, <1>6 DEF IsOrderedPartition

\* The new clusters lie in the old ones, in the old order.
THEOREM SplitByRefines ==
    ASSUME NEW part, NEW key, IsKeyed(part, key),
           NEW X, IsOrderedPartition(part, X)
    PROVE  Refines(SplitBy(part, key), part)
<1> DEFINE S == Slots(part, key)
           new == SplitBy(part, key)
<1>1. \A n \in DOMAIN new : /\ SlotAt(S, n)[1] \in DOMAIN part
                            /\ new[n] \subseteq part[SlotAt(S, n)[1]]
  BY SplitByClusters DEF Members
<1>2. ASSUME NEW m \in DOMAIN new, NEW n \in DOMAIN new,
             NEW j \in DOMAIN part, NEW k \in DOMAIN part,
             m < n, new[m] \cap part[j] # {}, new[n] \cap part[k] # {}
      PROVE  j <= k
  <2>1. j = SlotAt(S, m)[1] /\ k = SlotAt(S, n)[1]
    BY <1>1, <1>2 DEF IsOrderedPartition
  <2>2. IsFiniteSlots(S) /\ m \in 1..Cardinality(S) /\ n \in 1..Cardinality(S)
    BY SlotsFinite DEF SplitBy
  <2>3. Before(SlotAt(S, m), SlotAt(S, n))
    BY <1>2, <2>2, SlotEnumeration
  <2>4. SlotAt(S, m) \in Nat \X Nat /\ SlotAt(S, n) \in Nat \X Nat
    BY <2>2, SlotEnumeration DEF IsFiniteSlots
  <2> QED
    BY <2>1, <2>3, <2>4 DEF Before
<1> QED
  BY <1>1, <1>2 DEF Refines

\* Elements of one cluster with the same key stay in one cluster.
THEOREM SplitByTogether ==
    ASSUME NEW part, NEW key, IsKeyed(part, key),
           NEW X, IsOrderedPartition(part, X),
           NEW k \in DOMAIN part, NEW x \in part[k], NEW y \in part[k],
           key[k][x] = key[k][y],
           NEW n \in DOMAIN SplitBy(part, key), x \in SplitBy(part, key)[n]
    PROVE  y \in SplitBy(part, key)[n]
<1> DEFINE s == SlotAt(Slots(part, key), n)
<1>1. s[1] \in DOMAIN part /\ SplitBy(part, key)[n] = Members(part, key, s)
  BY SplitByClusters
<1>2. x \in part[s[1]] /\ key[s[1]][x] = s[2]
  BY <1>1 DEF Members
<1>3. s[1] = k
  BY <1>1, <1>2 DEF IsOrderedPartition
<1> QED
  BY <1>1, <1>2, <1>3 DEF Members

\* When the slots of two splits correspond and are in the same order, the slots of
\* one position do.
LEMMA SlotsCorrespond ==
    ASSUME NEW S, IsFiniteSlots(S), NEW T, IsFiniteSlots(T), NEW b \in Surjection(S, T),
           \A s, t \in S : Before(s, t) <=> Before(b[s], b[t])
    PROVE  /\ Cardinality(T) = Cardinality(S)
           /\ \A n \in 1..Cardinality(S) : SlotAt(T, n) = b[SlotAt(S, n)]
<1>1. S \subseteq Nat \X Nat /\ T \subseteq Nat \X Nat /\ IsFiniteSet(S) /\ IsFiniteSet(T)
  BY DEF IsFiniteSlots
<1>2. /\ \A s \in S : b[s] \in T
      /\ \A t \in T : \E s \in S : b[s] = t
  BY DEF Surjection
<1>3. ASSUME NEW s \in S, NEW t \in S, b[s] = b[t]
      PROVE  s = t
  <2>1. ~Before(s, t) /\ ~Before(t, s)
    <3>1. b[s] \in Nat \X Nat /\ b[t] \in Nat \X Nat
      BY <1>1, <1>2
    <3>2. ~Before(b[s], b[t]) /\ ~Before(b[t], b[s])
      BY <1>3, <3>1 DEF Before
    <3> QED
      BY <3>2
  <2>2. s \in Nat \X Nat /\ t \in Nat \X Nat
    BY <1>1
  <2> QED
    BY <2>1, <2>2 DEF Before
<1>4. Cardinality(T) = Cardinality(S)
  <2>1. b \in Bijection(S, T)
    BY <1>3 DEF Bijection, Injection, Surjection, IsInjective
  <2>2. ExistsBijection(S, T)
    BY <2>1 DEF ExistsBijection
  <2> QED
    BY <1>1, <2>2, FS_Bijection
<1>5. ASSUME NEW s \in S
      PROVE  Position(T, b[s]) = Position(S, s)
  <2> DEFINE P == Predecessors(S, s)
             Q == Predecessors(T, b[s])
             h == [t \in P |-> b[t]]
  <2>1. P \subseteq S /\ Q \subseteq T
    BY DEF Predecessors
  <2>2. \A t \in P : h[t] \in Q
    BY <1>2 DEF Predecessors
  <2>3. ASSUME NEW u \in Q
        PROVE  \E t \in P : h[t] = u
    <3>1. PICK t \in S : b[t] = u
      BY <1>2, <2>1
    <3>2. Before(b[t], b[s])
      BY <3>1 DEF Predecessors
    <3>3. t \in P
      BY <3>2 DEF Predecessors
    <3> QED
      BY <3>1, <3>3
  <2>4. \A t, u \in P : h[t] = h[u] => t = u
    BY <1>3, <2>1
  <2>5. h \in Bijection(P, Q)
    BY <2>2, <2>3, <2>4 DEF Bijection, Injection, Surjection, IsInjective
  <2>6. ExistsBijection(P, Q)
    BY <2>5 DEF ExistsBijection
  <2>7. IsFiniteSet(P)
    BY <1>1, <2>1, FS_Subset
  <2>8. Cardinality(P) = Cardinality(Q)
    BY <2>6, <2>7, FS_Bijection
  <2> QED
    BY <2>8 DEF Position
<1>6. ASSUME NEW n \in 1..Cardinality(S)
      PROVE  SlotAt(T, n) = b[SlotAt(S, n)]
  <2> DEFINE s == SlotAt(S, n)
  <2>1. s \in S /\ Position(S, s) = n
    BY SlotEnumeration
  <2>2. b[s] \in T /\ Position(T, b[s]) = n
    BY <1>2, <1>5, <2>1
  <2>3. SlotAt(T, Position(T, b[s])) = b[s]
    BY <2>2, SlotEnumeration
  <2> QED
    BY <2>2, <2>3
<1> QED
  BY <1>4, <1>6

\* A cluster with two keys is split: the new partition is longer when no cluster
\* of the old one is empty.
THEOREM SplitByGrows ==
    ASSUME NEW part, NEW key, IsKeyed(part, key),
           \A k \in DOMAIN part : part[k] # {},
           NEW i \in DOMAIN part, NEW x \in part[i], NEW y \in part[i],
           key[i][x] # key[i][y]
    PROVE  Len(part) < Cardinality(Slots(part, key))
<1> DEFINE S == Slots(part, key)
           R == S \ {<<i, key[i][y]>>}
           K == 1..Len(part)
           h == [s \in R |-> s[1]]
<1>1. Len(part) \in Nat /\ DOMAIN part = K
  <2>1. PICK N : IsFiniteSet(N) /\ part \in Seq(SUBSET N)
    BY DEF IsKeyed
  <2> QED
    BY <2>1
<1>2. IsFiniteSet(S) /\ Cardinality(S) \in Nat
  BY SlotsFinite, FS_CardinalityType DEF IsFiniteSlots
<1>3. \A k \in K : \A z \in part[k] : <<k, key[k][z]>> \in S
  BY <1>1 DEF Slots
<1>4. \A s \in S : s[1] \in K
  BY <1>1 DEF Slots
<1>5. IsFiniteSet(R) /\ Cardinality(R) = Cardinality(S) - 1
  <2>1. <<i, key[i][y]>> \in S
    BY <1>1, <1>3
  <2> HIDE DEF S
  <2> QED
    BY <1>2, <2>1, FS_RemoveElement
<1>6. ASSUME NEW k \in K
      PROVE  \E s \in R : h[s] = k
  <2>1. CASE k = i
    <3>1. <<i, key[i][x]>> \in R
      BY <1>1, <1>3
    <3> QED
      BY <2>1, <3>1
  <2>2. CASE k # i
    <3>1. PICK z \in part[k] : <<k, key[k][z]>> \in S
      BY <1>1, <1>3
    <3>2. <<k, key[k][z]>> \in R
      BY <2>2, <3>1
    <3> QED
      BY <3>2
  <2> QED
    BY <2>1, <2>2
<1>7. h \in Surjection(R, K)
  BY <1>4, <1>6 DEF Surjection
<1> HIDE DEF h, R, K
<1>8. Cardinality(K) <= Cardinality(R)
  BY <1>5, <1>7, FS_Surjection, Zenon
<1>9. Cardinality(K) = Len(part)
  <2>1. \A b \in Int : Cardinality(1..b) = IF 1 > b THEN 0 ELSE b - 1 + 1
    BY FS_Interval
  <2>2. Len(part) \in Int /\ (1 > Len(part) => Len(part) = 0)
    BY <1>1
  <2> QED
    BY <2>1, <2>2 DEF K
<1> QED
  BY <1>1, <1>2, <1>5, <1>8, <1>9

-------------------------------------------------------------------------------
\* The number of values of a word.
LEMMA WordSize ==
    ASSUME NEW w \in Nat
    PROVE  2^w \in Nat \ {0}
<1>1. IsFiniteSet(1..w) /\ Cardinality(1..w) = w
  BY FS_Interval
<1>2. IsFiniteSet(SUBSET (1..w)) /\ Cardinality(SUBSET (1..w)) = 2^w
  BY <1>1, FS_SUBSET
<1>3. Cardinality(SUBSET (1..w)) \in Nat /\ Cardinality(SUBSET (1..w)) # 0
  BY <1>2, FS_CardinalityType, FS_EmptySet
<1> QED
  BY <1>2, <1>3

================================================================================
