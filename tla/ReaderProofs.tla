----------------------------- MODULE ReaderProofs ------------------------------
(***************************************************************************)
(* delete_comments deletes the comments of every text and nothing else,    *)
(* and parse_verilog returns what the statements of a file say, whatever   *)
(* files it has read or refused before.                                    *)
(***************************************************************************)
EXTENDS Reader, Comments, SequenceTheorems, FiniteSetTheorems,
        WellFoundedInduction, TLAPS

-------------------------------------------------------------------------------
(***************************************************************************)
(* Selections.                                                             *)
(***************************************************************************)
\* A set of positions below a bound is finite, and each has a rank in it.
LEMMA RankInRange ==
    ASSUME NEW N \in Nat, NEW P \in SUBSET (1 .. N), NEW n \in P
    PROVE  Rank(P, n) \in 1 .. Cardinality(P)
<1> DEFINE R == {m \in P : m <= n}
<1>1. IsFiniteSet(1 .. N)
  BY FS_Interval
<1>2. IsFiniteSet(P) /\ R \in SUBSET P
  BY <1>1, FS_Subset
<1>3. IsFiniteSet(R) /\ Cardinality(R) <= Cardinality(P)
  BY <1>2, FS_Subset
<1>4. Cardinality(R) \in Nat /\ Cardinality(P) \in Nat
  BY <1>2, <1>3, FS_CardinalityType
<1>5. n \in R
  OBVIOUS
<1>6. Cardinality(R) # 0
  BY <1>3, <1>5, FS_EmptySet
<1> QED
  BY <1>3, <1>4, <1>6 DEF Rank

\* A sequence goes on listing the elements of a selection when the next one is
\* appended.
LEMMA SelectsNext ==
    ASSUME NEW A, NEW seq \in Seq(A), NEW all, NEW N \in Nat,
           NEW P \in SUBSET (1 .. N), Selects(seq, all, P),
           NEW n \in Nat, \A m \in P : m < n, NEW v \in A, v = all[n]
    PROVE  Selects(Append(seq, v), all, P \cup {n})
<1> DEFINE Q == P \cup {n}
<1>1. IsFiniteSet(P) /\ n \notin P /\ \A m \in P : m \in Nat
  <2>1. IsFiniteSet(1 .. N)
    BY FS_Interval
  <2>2. IsFiniteSet(P)
    BY <2>1, FS_Subset
  <2>3. ~(n < n)
    OBVIOUS
  <2> QED
    BY <2>2, <2>3
<1>2. Cardinality(Q) = Cardinality(P) + 1 /\ Cardinality(P) \in Nat
  BY <1>1, FS_AddElement, FS_CardinalityType
<1>3. Len(seq) = Cardinality(P)
  BY DEF Selects
<1>4. /\ Len(Append(seq, v)) = Cardinality(P) + 1
      /\ Append(seq, v)[Cardinality(P) + 1] = v
      /\ \A k \in 1 .. Cardinality(P) : Append(seq, v)[k] = seq[k]
  BY <1>3
<1>5. Rank(Q, n) = Cardinality(P) + 1
  <2>0. \A m \in Q : m <= n
    BY <1>1
  <2>1. {m \in Q : m <= n} = Q
    BY <2>0
  <2> QED
    BY <1>2, <2>1 DEF Rank
<1>6. ASSUME NEW p \in P
      PROVE  Append(seq, v)[Rank(Q, p)] = all[p]
  <2>1. {m \in Q : m <= p} = {m \in P : m <= p}
    BY <1>1
  <2>2. Rank(Q, p) = Rank(P, p)
    BY <2>1 DEF Rank
  <2>3. Rank(P, p) \in 1 .. Cardinality(P)
    BY RankInRange
  <2>4. seq[Rank(P, p)] = all[p]
    BY DEF Selects
  <2> QED
    BY <1>4, <2>2, <2>3, <2>4
<1>7. Len(Append(seq, v)) = Cardinality(Q)
  BY <1>2, <1>4
<1>8. \A p \in Q : Append(seq, v)[Rank(Q, p)] = all[p]
  BY <1>4, <1>5, <1>6
<1> QED
  BY <1>7, <1>8 DEF Selects

\* Only the selected elements matter.
LEMMA SelectsSame ==
    ASSUME NEW seq, NEW all, NEW new, NEW P, Selects(seq, all, P),
           \A n \in P : new[n] = all[n]
    PROVE  Selects(seq, new, P)
BY DEF Selects

\* The empty sequence lists nothing.
LEMMA SelectsNothing == ASSUME NEW all PROVE Selects(<<>>, all, {})
BY FS_EmptySet DEF Selects

\* A set of positions has a first.
LEMMA FirstPosition ==
    ASSUME NEW S \in SUBSET Nat, S # {}
    PROVE  Min(S) \in S /\ \A n \in S : Min(S) <= n
<1>1. PICK m \in S : \A n \in S : ~(<<n, m>> \in OpToRel(<, Nat))
  BY NatLessThanWellFounded, WFMin
<1>2. \A n \in S : ~(n < m)
  BY <1>1 DEF OpToRel
<1>3. \A n \in S : m <= n
  BY <1>2
<1> QED
  BY <1>3 DEF Min

-------------------------------------------------------------------------------
(***************************************************************************)
(* delete_comments.  Where the loop is between two comments it is at a     *)
(* cut, and each cut before it ends there or earlier; so the cuts before   *)
(* it are the ones it has been at.                                         *)
(***************************************************************************)
\* Two characters at a position.
LEMMA AtTwo ==
    ASSUME NEW k \in Nat \ {0}, NEW a, NEW b, str \in Seq({"/", "*", "\n", "x"})
    PROVE  At(k, <<a, b>>) <=> k + 1 <= Len(str) /\ str[k] = a /\ str[k + 1] = b
<1>1. Len(<<a, b>>) = 2 /\ k + 2 - 1 = k + 1 /\ Len(str) \in Nat
  OBVIOUS
<1>2. ASSUME k + 1 <= Len(str)
      PROVE  SubSeq(str, k, k + 1) = <<a, b>> <=> str[k] = a /\ str[k + 1] = b
  <2> DEFINE two == SubSeq(str, k, k + 1)
  <2>1. Len(two) = 2 /\ two[1] = str[k] /\ two[2] = str[k + 1]
    BY <1>1, <1>2
  <2>2. two \in Seq({"/", "*", "\n", "x"})
    BY <1>1, <1>2
  <2> HIDE DEF two
  <2>3. two = <<two[1], two[2]>>
    BY <2>1, <2>2
  <2> QED
    BY <2>1, <2>3 DEF two
<1> QED
  BY <1>1, <1>2 DEF At

\* No comment begins in both ways.
LEMMA NotBoth ==
    ASSUME str \in Seq({"/", "*", "\n", "x"}), NEW k \in Nat \ {0}
    PROVE  ~(LineBegins(k) /\ BlockBegins(k))
BY AtTwo DEF LineBegins, BlockBegins

\* The piece that begins at a position ends behind it and in the text.
LEMMA AfterIsLater ==
    ASSUME str \in Seq({"/", "*", "\n", "x"}), NEW k \in 1 .. Len(str)
    PROVE  After(k) \in k + 1 .. Len(str) + 1
<1> DEFINE stars == {n \in k + 2 .. Len(str) : At(n, <<"*", "/">>)}
           ends == {n \in k + 2 .. Len(str) : str[n] = "\n"}
<1>1. Len(str) \in Nat /\ k \in Nat
  OBVIOUS
<1>2. stars \in SUBSET Nat /\ ends \in SUBSET Nat
  BY <1>1
<1>3. ASSUME stars # {}
      PROVE  Min(stars) + 2 \in k + 1 .. Len(str) + 1
  <2>1. Min(stars) \in stars
    BY <1>2, <1>3, FirstPosition
  <2>2. Min(stars) \in k + 2 .. Len(str) /\ At(Min(stars), <<"*", "/">>)
    BY <2>1
  <2>3. Min(stars) + 1 <= Len(str)
    BY <1>1, <2>2 DEF At
  <2> QED
    BY <1>1, <2>2, <2>3
<1>4. ASSUME ends # {}
      PROVE  Min(ends) \in k + 1 .. Len(str) + 1
  <2>1. Min(ends) \in ends
    BY <1>2, <1>4, FirstPosition
  <2>2. Min(ends) \in k + 2 .. Len(str)
    BY <2>1
  <2> QED
    BY <1>1, <2>2
<1>5. After(k) \in {Len(str) + 1, k + 1}
                     \cup (IF stars = {} THEN {} ELSE {Min(stars) + 2})
                     \cup (IF ends = {} THEN {} ELSE {Min(ends)})
  <2>1. After(k) = CASE BlockBegins(k) -> IF stars = {} THEN Len(str) + 1 ELSE Min(stars) + 2
                     [] LineBegins(k) -> IF ends = {} THEN Len(str) + 1 ELSE Min(ends)
                     [] OTHER -> k + 1
    BY DEF After
  <2> HIDE DEF stars, ends
  <2>2. CASE BlockBegins(k) /\ ~LineBegins(k)
    BY <2>1, <2>2
  <2>3. CASE LineBegins(k) /\ ~BlockBegins(k)
    BY <2>1, <2>3
  <2>4. CASE ~LineBegins(k) /\ ~BlockBegins(k)
    BY <2>1, <2>4
  <2>5. ~(LineBegins(k) /\ BlockBegins(k))
    BY NotBoth
  <2> QED
    BY <2>2, <2>3, <2>4, <2>5
<1> HIDE DEF stars, ends
<1>6. Len(str) + 1 \in k + 1 .. Len(str) + 1 /\ k + 1 \in k + 1 .. Len(str) + 1
  BY <1>1
<1> QED
  BY <1>3, <1>4, <1>5, <1>6

Chars == {"/", "*", "\n", "x"}

\* A cut at which every piece before it has ended.
AtCut(k) == k \in Cuts /\ \A v \in Cuts : v < k => After(v) <= k

\* The kept characters before a position are in the result.
Listed(r, k) == Selects(r, str, {v \in Kept : v < k})

\* The loop is at p in the comment that begins at k.
InBlock(k, p) ==
    /\ BlockBegins(k)
    /\ p \in k + 2 .. Len(str) + 1
    /\ \A n \in k + 2 .. p - 1 : ~At(n, <<"*", "/">>)

InLine(k, p) ==
    /\ LineBegins(k)
    /\ p \in k + 2 .. Len(str) + 1
    /\ \A n \in k + 2 .. p - 1 : str[n] # "\n"

\* A comment that begins in the way the loop misreads.
Misread == \E k \in Pieces : At(k, <<"/", "*", "/">>)

\* Where the loop is and what it has done.
Describes(p, o, e, r) ==
    IF o THEN AtCut(p) /\ Listed(r, p)
    ELSE \E k \in Pieces : AtCut(k) /\ Listed(r, k)
                           /\ IF e THEN InLine(k, p) ELSE InBlock(k, p)

DeleteType ==
    /\ str \in Seq(Chars)
    /\ result \in Seq(Chars)
    /\ i \in 1 .. Len(str) + 1
    /\ out \in BOOLEAN
    /\ eol \in BOOLEAN

DeleteInv == DeleteType /\ (Misread \/ Describes(i, out, eol, result))

\* The cuts are the least set that has the ends of its pieces.
LEMMA CutsAreLeast ==
    ASSUME str \in Seq(Chars)
    PROVE  /\ Cuts \in SUBSET (1 .. Len(str) + 1)
           /\ CutAfterEach(Cuts)
           /\ \A S \in SUBSET (1 .. Len(str) + 1) : CutAfterEach(S) => Cuts \subseteq S
<1>1. Len(str) \in Nat
  OBVIOUS
<1>2. Cuts \in SUBSET (1 .. Len(str) + 1)
  BY DEF Cuts
<1>3. 1 \in Cuts
  BY <1>1 DEF Cuts, CutAfterEach
<1>4. ASSUME NEW k \in Cuts, k <= Len(str)
      PROVE  After(k) \in Cuts
  <2>1. k \in 1 .. Len(str)
    BY <1>1, <1>2, <1>4
  <2>2. After(k) \in 1 .. Len(str) + 1
    BY <1>1, <2>1, AfterIsLater DEF Chars
  <2>3. \A S \in SUBSET (1 .. Len(str) + 1) : CutAfterEach(S) => After(k) \in S
    BY <1>4 DEF Cuts, CutAfterEach
  <2> QED
    BY <2>2, <2>3 DEF Cuts
<1>5. \A S \in SUBSET (1 .. Len(str) + 1) : CutAfterEach(S) => Cuts \subseteq S
  BY DEF Cuts
<1> QED
  BY <1>2, <1>3, <1>4, <1>5 DEF CutAfterEach

\* From a cut the next is where its piece ends.
LEMMA NextCut ==
    ASSUME str \in Seq(Chars), NEW k \in Pieces, AtCut(k)
    PROVE  /\ AtCut(After(k))
           /\ \A v \in Cuts : v < After(k) <=> v < k \/ v = k
<1>1. /\ Len(str) \in Nat /\ Cuts \in SUBSET (1 .. Len(str) + 1) /\ CutAfterEach(Cuts)
      /\ k \in Cuts /\ k \in 1 .. Len(str)
  BY CutsAreLeast DEF Pieces
<1>2. \A v \in 1 .. Len(str) : After(v) \in v + 1 .. Len(str) + 1
  BY AfterIsLater DEF Chars
<1> DEFINE S == {v \in Cuts : v <= k} \cup (After(k) .. Len(str) + 1)
<1>3. S \in SUBSET (1 .. Len(str) + 1)
  <2>1. After(k) \in Nat /\ 1 <= After(k)
    BY <1>1, <1>2
  <2>2. After(k) .. Len(str) + 1 \subseteq 1 .. Len(str) + 1
    BY <1>1, <2>1
  <2>3. {v \in Cuts : v <= k} \subseteq 1 .. Len(str) + 1
    BY <1>1
  <2> QED
    BY <2>2, <2>3
<1>4. CutAfterEach(S)
  <2>1. 1 \in S
    BY <1>1 DEF CutAfterEach
  <2>2. ASSUME NEW v \in Cuts, v <= k
        PROVE  After(v) \in S
    <3>1. v \in 1 .. Len(str)
      BY <1>1, <2>2
    <3>2. After(v) \in Cuts /\ After(v) \in v + 1 .. Len(str) + 1
      BY <1>1, <1>2, <3>1 DEF CutAfterEach
    <3>3. v = k \/ After(v) <= k
      BY <1>1, <2>2, <3>1 DEF AtCut
    <3> QED
      BY <1>1, <3>2, <3>3
  <2>3. ASSUME NEW v \in After(k) .. Len(str) + 1, v <= Len(str)
        PROVE  After(v) \in S
    BY <1>1, <1>2, <2>3
  <2> QED
    BY <2>1, <2>2, <2>3 DEF CutAfterEach
<1>5. Cuts \subseteq S
  BY <1>3, <1>4, CutsAreLeast
<1>6. ASSUME NEW v \in Cuts
      PROVE  v < After(k) <=> v < k \/ v = k
  <2>1. v \in Nat /\ k \in Nat /\ After(k) \in Nat /\ k < After(k)
    BY <1>1, <1>2
  <2>2. v <= k \/ After(k) <= v
    BY <1>5, <2>1
  <2> QED
    BY <2>1, <2>2
<1>7. AtCut(After(k))
  <2>1. After(k) \in Cuts
    BY <1>1 DEF CutAfterEach
  <2>2. ASSUME NEW v \in Cuts, v < After(k)
        PROVE  After(v) <= After(k)
    <3>1. CASE v < k
      <4>1. v \in 1 .. Len(str)
        BY <1>1, <3>1
      <4>2. After(v) <= k /\ After(v) \in Nat
        BY <1>1, <1>2, <3>1, <4>1 DEF AtCut
      <4> QED
        BY <1>1, <1>2, <4>2
    <3>2. CASE v = k
      BY <1>1, <1>2, <3>2
    <3> QED
      BY <1>6, <2>2, <3>1, <3>2
  <2> QED
    BY <2>1, <2>2 DEF AtCut
<1> QED
  BY <1>6, <1>7

\* At the end of a comment as many characters are listed as at its beginning.
LEMMA CommentListsNothing ==
    ASSUME str \in Seq(Chars), NEW k \in Pieces, AtCut(k), k \notin Kept,
           NEW r, Listed(r, k)
    PROVE  AtCut(After(k)) /\ Listed(r, After(k))
<1>1. AtCut(After(k)) /\ \A v \in Cuts : v < After(k) <=> v < k \/ v = k
  BY NextCut
<1>2. {v \in Kept : v < After(k)} = {v \in Kept : v < k}
  BY <1>1 DEF Kept, Pieces
<1> QED
  BY <1>1, <1>2 DEF Listed

\* A character is listed next.
LEMMA CharacterIsListed ==
    ASSUME str \in Seq(Chars), NEW k \in Pieces, AtCut(k), k \in Kept,
           NEW r \in Seq(Chars), Listed(r, k)
    PROVE  AtCut(k + 1) /\ Listed(Append(r, str[k]), k + 1)
<1>1. AtCut(After(k)) /\ \A v \in Cuts : v < After(k) <=> v < k \/ v = k
  BY NextCut
<1>2. After(k) = k + 1
  BY DEF Kept, After
<1>3. /\ Len(str) \in Nat /\ k \in 1 .. Len(str) /\ Kept \subseteq Cuts
      /\ Cuts \in SUBSET (1 .. Len(str) + 1)
  BY CutsAreLeast DEF Pieces, Kept
<1> DEFINE P == {v \in Kept : v < k}
<1>4. {v \in Kept : v < k + 1} = P \cup {k}
  BY <1>1, <1>2, <1>3
<1>5. P \in SUBSET (1 .. Len(str) + 1) /\ \A v \in P : v < k
  BY <1>3
<1>6. str[k] \in Chars /\ k \in Nat /\ Len(str) + 1 \in Nat
  BY <1>3
<1>7. Selects(r, str, P)
  BY DEF Listed
<1> HIDE DEF P
<1>8. Selects(Append(r, str[k]), str, P \cup {k})
  BY <1>5, <1>6, <1>7, SelectsNext
<1> QED
  BY <1>1, <1>2, <1>4, <1>8 DEF Listed

\* As long as the text is the same, so are its comments.
LEMMA SameText ==
    ASSUME str' = str
    PROVE  /\ Misread' = Misread
           /\ \A p, o, e, r : Describes(p, o, e, r)' = Describes(p, o, e, r)
<1>1. \A k, s : At(k, s)' = At(k, s)
  BY DEF At
<1>2. \A k : BlockBegins(k)' = BlockBegins(k) /\ LineBegins(k)' = LineBegins(k)
  BY DEF BlockBegins, LineBegins, At
<1>3. \A k : After(k)' = After(k)
  BY DEF After, BlockBegins, LineBegins, At
<1>4. Cuts' = Cuts
  BY DEF Cuts, CutAfterEach, After, BlockBegins, LineBegins, At
<1>5. Pieces' = Pieces
  BY <1>4 DEF Pieces
<1>6. Kept' = Kept
  BY <1>2, <1>5 DEF Kept
<1>7. Misread' = Misread
  BY <1>1, <1>5 DEF Misread
<1>8. \A k : AtCut(k)' = AtCut(k)
  BY <1>3, <1>4 DEF AtCut
<1>9. \A r, k : Listed(r, k)' = Listed(r, k)
  BY <1>6 DEF Listed
<1>10. \A k, p : InBlock(k, p)' = InBlock(k, p) /\ InLine(k, p)' = InLine(k, p)
  BY <1>1, <1>2 DEF InBlock, InLine
<1>11. \A p, o, e, r : Describes(p, o, e, r)' = Describes(p, o, e, r)
  BY <1>5, <1>8, <1>9, <1>10 DEF Describes
<1> QED
  BY <1>7, <1>11


\* A comment to the end of the line ends at the first one after it.
LEMMA LineEnds ==
    ASSUME str \in Seq(Chars), NEW k \in Pieces, NEW p, InLine(k, p),
           p <= Len(str), str[p] = "\n"
    PROVE  After(k) = p
<1> DEFINE ends == {n \in k + 2 .. Len(str) : str[n] = "\n"}
<1>1. k \in 1 .. Len(str) /\ Len(str) \in Nat /\ p \in k + 2 .. Len(str)
  BY CutsAreLeast DEF Pieces, InLine
<1>2. p \in ends /\ \A n \in ends : p <= n
  BY <1>1 DEF InLine
<1>3. ends \in SUBSET Nat /\ ends # {}
  BY <1>1, <1>2
<1>4. LineBegins(k) /\ ~BlockBegins(k)
  BY <1>1, NotBoth DEF InLine, Chars
<1>5. After(k) = Min(ends)
  BY <1>3, <1>4 DEF After
<1> HIDE DEF ends
<1>6. Min(ends) \in ends /\ Min(ends) <= p
  BY <1>2, <1>3, FirstPosition
<1>7. Min(ends) \in Nat /\ p <= Min(ends) /\ p \in Nat
  BY <1>2, <1>3, <1>6
<1>8. Min(ends) = p
  BY <1>6, <1>7
<1> QED
  BY <1>5, <1>8

\* A block comment ends at the first star and slash after its beginning.
LEMMA BlockEnds ==
    ASSUME str \in Seq(Chars), NEW k \in Pieces, NEW p, InBlock(k, p),
           p <= Len(str), At(p, <<"*", "/">>)
    PROVE  After(k) = p + 2
<1> DEFINE stars == {n \in k + 2 .. Len(str) : At(n, <<"*", "/">>)}
<1>1. k \in 1 .. Len(str) /\ Len(str) \in Nat /\ p \in k + 2 .. Len(str)
  BY CutsAreLeast DEF Pieces, InBlock
<1>2. p \in stars /\ \A n \in stars : p <= n
  BY <1>1 DEF InBlock
<1>3. stars \in SUBSET Nat /\ stars # {}
  BY <1>1, <1>2
<1>4. BlockBegins(k)
  BY DEF InBlock
<1>5. After(k) = Min(stars) + 2
  BY <1>1, <1>3, <1>4, NotBoth DEF After, Chars
<1> HIDE DEF stars
<1>6. Min(stars) \in stars /\ Min(stars) <= p
  BY <1>2, <1>3, FirstPosition
<1>7. Min(stars) \in Nat /\ p <= Min(stars) /\ p \in Nat
  BY <1>2, <1>3, <1>6
<1>8. Min(stars) = p
  BY <1>6, <1>7
<1> QED
  BY <1>5, <1>8

\* A comment that is still open at the end of the text ends there.
LEMMA OpenEnds ==
    ASSUME str \in Seq(Chars), NEW k \in Pieces,
           InLine(k, Len(str) + 1) \/ InBlock(k, Len(str) + 1)
    PROVE  After(k) = Len(str) + 1
<1>1. k \in 1 .. Len(str) /\ Len(str) \in Nat
  BY CutsAreLeast DEF Pieces
<1>2. ~(LineBegins(k) /\ BlockBegins(k))
  BY <1>1, NotBoth DEF Chars
<1>3. CASE InLine(k, Len(str) + 1)
  <2>1. {n \in k + 2 .. Len(str) : str[n] = "\n"} = {}
    BY <1>1, <1>3 DEF InLine
  <2> QED
    BY <1>2, <1>3, <2>1 DEF After, InLine
<1>4. CASE InBlock(k, Len(str) + 1)
  <2>1. {n \in k + 2 .. Len(str) : At(n, <<"*", "/">>)} = {}
    BY <1>1, <1>4 DEF InBlock
  <2> QED
    BY <1>2, <1>4, <2>1 DEF After, InBlock
<1> QED
  BY <1>3, <1>4

\* One iteration of the loop.
LEMMA DeleteStep ==
    ASSUME DeleteInv, [DeleteNext]_commentVars
    PROVE  DeleteInv'
<1>1. str' = str
  BY DEF DeleteNext, commentVars, OpenBlock, OpenBlockAsLine, OpenLine, KeepCharacter,
         EndLine, CloseBlock, SkipCharacter
<1>2. /\ str \in Seq(Chars) /\ result \in Seq(Chars) /\ i \in 1 .. Len(str) + 1
      /\ out \in BOOLEAN /\ eol \in BOOLEAN /\ Len(str) \in Nat
  BY DEF DeleteInv, DeleteType
<1>3. SUFFICES /\ result' \in Seq(Chars)
               /\ i' \in 1 .. Len(str) + 1
               /\ out' \in BOOLEAN /\ eol' \in BOOLEAN
               /\ Misread \/ Describes(i', out', eol', result')
  <2>1. DeleteType' <=> /\ str' \in Seq(Chars) /\ result' \in Seq(Chars)
                        /\ i' \in 1 .. Len(str') + 1
                        /\ out' \in BOOLEAN /\ eol' \in BOOLEAN
    BY DEF DeleteType
  <2>2. Misread' = Misread /\ \A p, o, e, r : Describes(p, o, e, r)' = Describes(p, o, e, r)
    BY <1>1, SameText
  <2>3. Describes(i, out, eol, result)' = Describes(i', out', eol', result')
    BY <1>1, SameText
  <2> QED
    BY <1>1, <1>2, <2>1, <2>2, <2>3 DEF DeleteInv
<1>4. Misread \/ Describes(i, out, eol, result)
  BY DEF DeleteInv
<1>5. CASE OpenBlock
  <2>1. /\ i <= Len(str) /\ out /\ BlockBegins(i) /\ out' = FALSE /\ eol' = FALSE
        /\ i' = i + 2 /\ result' = result
    BY <1>5 DEF OpenBlock
  <2>2. i + 1 <= Len(str) /\ i' \in i + 2 .. Len(str) + 1 /\ i' \in 1 .. Len(str) + 1
    BY <1>2, <2>1, AtTwo DEF BlockBegins, Chars
  <2>3. ASSUME ~Misread
        PROVE  Describes(i', out', eol', result')
    <3>1. AtCut(i) /\ Listed(result, i) /\ i \in Pieces
      BY <1>4, <2>1, <2>3 DEF Describes, AtCut, Pieces
    <3>2. InBlock(i, i')
      BY <1>2, <2>1, <2>2 DEF InBlock
    <3> QED
      BY <2>1, <3>1, <3>2 DEF Describes
  <2> QED
    BY <1>2, <2>1, <2>2, <2>3
<1>6. CASE OpenBlockAsLine
  <2>1. /\ i <= Len(str) /\ out /\ At(i, <<"/", "*", "/">>) /\ out' = FALSE /\ eol' = TRUE
        /\ i' = i + 3 /\ result' = result
    BY <1>6 DEF OpenBlockAsLine
  <2>2. i' \in 1 .. Len(str) + 1
    <3>1. Len(<<"/", "*", "/">>) = 3
      OBVIOUS
    <3>2. i + 3 - 1 <= Len(str)
      BY <2>1, <3>1 DEF At
    <3> QED
      BY <1>2, <2>1, <3>2
  <2>3. Misread
    <3>1. ASSUME ~Misread
          PROVE  i \in Pieces
      BY <1>4, <2>1, <3>1 DEF Describes, AtCut, Pieces
    <3> QED
      BY <2>1, <3>1 DEF Misread
  <2> QED
    BY <1>2, <2>1, <2>2, <2>3
<1>7. CASE OpenLine
  <2>1. /\ i <= Len(str) /\ out /\ LineBegins(i) /\ out' = FALSE /\ eol' = TRUE
        /\ i' = i + 2 /\ result' = result
    BY <1>7 DEF OpenLine
  <2>2. i + 1 <= Len(str) /\ i' \in i + 2 .. Len(str) + 1 /\ i' \in 1 .. Len(str) + 1
    BY <1>2, <2>1, AtTwo DEF LineBegins, Chars
  <2>3. ASSUME ~Misread
        PROVE  Describes(i', out', eol', result')
    <3>1. AtCut(i) /\ Listed(result, i) /\ i \in Pieces
      BY <1>4, <2>1, <2>3 DEF Describes, AtCut, Pieces
    <3>2. InLine(i, i')
      BY <1>2, <2>1, <2>2 DEF InLine
    <3> QED
      BY <2>1, <3>1, <3>2 DEF Describes
  <2> QED
    BY <1>2, <2>1, <2>2, <2>3
<1>8. CASE KeepCharacter
  <2>1. /\ i <= Len(str) /\ out /\ ~BlockBegins(i) /\ ~LineBegins(i)
        /\ out' = out /\ eol' = eol /\ i' = i + 1 /\ result' = Append(result, str[i])
    BY <1>8 DEF KeepCharacter
  <2>2. str[i] \in Chars /\ i' \in 1 .. Len(str) + 1 /\ result' \in Seq(Chars)
    BY <1>2, <2>1
  <2>3. ASSUME ~Misread
        PROVE  Describes(i', out', eol', result')
    <3>1. AtCut(i) /\ Listed(result, i) /\ i \in Pieces
      BY <1>4, <2>1, <2>3 DEF Describes, AtCut, Pieces
    <3>2. i \in Kept
      BY <2>1, <3>1 DEF Kept
    <3>3. AtCut(i + 1) /\ Listed(Append(result, str[i]), i + 1)
      BY <1>2, <3>1, <3>2, CharacterIsListed
    <3> QED
      BY <2>1, <3>3 DEF Describes
  <2> QED
    BY <1>2, <2>1, <2>2, <2>3
<1>9. CASE EndLine
  <2>1. /\ i <= Len(str) /\ ~out /\ eol /\ str[i] = "\n"
        /\ out' = TRUE /\ eol' = eol /\ i' = i + 1 /\ result' = Append(result, str[i])
    BY <1>9 DEF EndLine
  <2>2. str[i] \in Chars /\ i' \in 1 .. Len(str) + 1 /\ result' \in Seq(Chars)
    BY <1>2, <2>1
  <2>3. ASSUME ~Misread
        PROVE  Describes(i', out', eol', result')
    <3>1. PICK k \in Pieces : AtCut(k) /\ Listed(result, k) /\ InLine(k, i)
      BY <1>4, <2>1, <2>3 DEF Describes
    <3>2. After(k) = i
      BY <1>2, <2>1, <3>1, LineEnds
    <3>3. AtCut(i) /\ Listed(result, i)
      <4>1. k \notin Kept
        BY <3>1 DEF Kept, InLine
      <4> QED
        BY <1>2, <3>1, <3>2, <4>1, CommentListsNothing
    <3>4. i \in Kept
      <4>1. ~BlockBegins(i) /\ ~LineBegins(i)
        BY <1>2, <2>1, AtTwo DEF BlockBegins, LineBegins, Chars
      <4> QED
        BY <2>1, <3>3, <4>1 DEF Kept, Pieces, AtCut
    <3>5. AtCut(i + 1) /\ Listed(Append(result, str[i]), i + 1)
      BY <1>2, <3>3, <3>4, CharacterIsListed DEF Kept
    <3> QED
      BY <2>1, <3>5 DEF Describes
  <2> QED
    BY <1>2, <2>1, <2>2, <2>3
<1>10. CASE CloseBlock
  <2>1. /\ i <= Len(str) /\ ~out /\ ~eol /\ At(i, <<"*", "/">>)
        /\ out' = TRUE /\ eol' = eol /\ i' = i + 2 /\ result' = result
    BY <1>10 DEF CloseBlock
  <2>2. i + 1 <= Len(str) /\ i' \in 1 .. Len(str) + 1
    BY <1>2, <2>1, AtTwo DEF Chars
  <2>3. ASSUME ~Misread
        PROVE  Describes(i', out', eol', result')
    <3>1. PICK k \in Pieces : AtCut(k) /\ Listed(result, k) /\ InBlock(k, i)
      BY <1>4, <2>1, <2>3 DEF Describes
    <3>2. After(k) = i + 2
      BY <1>2, <2>1, <3>1, BlockEnds
    <3>3. AtCut(i + 2) /\ Listed(result, i + 2)
      <4>1. k \notin Kept
        BY <3>1 DEF Kept, InBlock
      <4> QED
        BY <1>2, <3>1, <3>2, <4>1, CommentListsNothing
    <3> QED
      BY <2>1, <3>3 DEF Describes
  <2> QED
    BY <1>2, <2>1, <2>2, <2>3
<1>11. CASE SkipCharacter
  <2>1. /\ i <= Len(str) /\ ~out
        /\ IF eol THEN str[i] # "\n" ELSE ~At(i, <<"*", "/">>)
        /\ out' = out /\ eol' = eol /\ i' = i + 1 /\ result' = result
    BY <1>11 DEF SkipCharacter
  <2>2. i' \in 1 .. Len(str) + 1
    BY <1>2, <2>1
  <2>3. ASSUME ~Misread
        PROVE  Describes(i', out', eol', result')
    <3>1. PICK k \in Pieces : AtCut(k) /\ Listed(result, k)
                              /\ IF eol THEN InLine(k, i) ELSE InBlock(k, i)
      BY <1>4, <2>1, <2>3 DEF Describes
    <3>2. k \in Nat
      BY <1>2, <3>1, CutsAreLeast DEF Pieces
    <3>3. IF eol THEN InLine(k, i + 1) ELSE InBlock(k, i + 1)
      <4>1. \A n \in k + 2 .. (i + 1) - 1 : n = i \/ n \in k + 2 .. i - 1
        BY <1>2, <3>2
      <4>2. CASE eol
        BY <1>2, <2>1, <3>1, <3>2, <4>1, <4>2 DEF InLine
      <4>3. CASE ~eol
        BY <1>2, <2>1, <3>1, <3>2, <4>1, <4>3 DEF InBlock
      <4> QED
        BY <4>2, <4>3
    <3> QED
      BY <2>1, <3>1, <3>3, Zenon DEF Describes
  <2> QED
    BY <1>2, <2>1, <2>2, <2>3
<1>12. CASE UNCHANGED commentVars
  BY <1>2, <1>4, <1>12, Zenon DEF commentVars
<1> QED
  BY <1>5, <1>6, <1>7, <1>8, <1>9, <1>10, <1>11, <1>12 DEF DeleteNext

\* A text comes out of delete_comments (verilog.ypp:60-88) without its comments
\* and otherwise as it was, whatever it is, unless it has a block comment that
\* begins with a slash.
THEOREM CommentsAreDeleted == DeleteSpec => []CommentsDeleted
<1>1. DeleteInit => DeleteInv
  <2> SUFFICES ASSUME DeleteInit
               PROVE  DeleteInv
    OBVIOUS
  <2>1. /\ str \in Seq(Chars) /\ i = 1 /\ out = TRUE /\ eol = FALSE /\ result = <<>>
    BY TextsAssumption DEF DeleteInit, Chars
  <2>2. <<>> \in Seq(Chars) /\ Len(str) \in Nat
    BY <2>1
  <2>3. DeleteType
    <3>1. i \in 1 .. Len(str) + 1
      BY <2>1, <2>2
    <3>2. out \in BOOLEAN /\ eol \in BOOLEAN
      BY <2>1, Zenon
    <3> QED
      BY <2>1, <2>2, <3>1, <3>2, Zenon DEF DeleteType
  <2>4. AtCut(1) /\ \A v \in Cuts : ~(v < 1)
    BY <2>1, <2>2, CutsAreLeast DEF AtCut, CutAfterEach
  <2>5. {v \in Kept : v < 1} = {}
    BY <2>4 DEF Kept, Pieces
  <2>6. Listed(<<>>, 1)
    BY <2>5, SelectsNothing DEF Listed
  <2> QED
    BY <2>1, <2>3, <2>4, <2>6 DEF DeleteInv, Describes
<1>2. DeleteInv /\ [DeleteNext]_commentVars => DeleteInv'
  BY DeleteStep
<1>3. DeleteInv => CommentsDeleted
  <2> SUFFICES ASSUME DeleteInv, i > Len(str), ~Misread
               PROVE  Selects(result, str, Kept)
    BY DEF CommentsDeleted, Misread
  <2>1. /\ str \in Seq(Chars) /\ Len(str) \in Nat /\ i = Len(str) + 1
        /\ out \in BOOLEAN /\ eol \in BOOLEAN
    BY DEF DeleteInv, DeleteType
  <2>2. Describes(i, out, eol, result)
    BY DEF DeleteInv
  <2>3. Listed(result, Len(str) + 1)
    <3>1. CASE out
      BY <2>1, <2>2, <3>1 DEF Describes
    <3>2. CASE ~out
      <4>1. PICK k \in Pieces : AtCut(k) /\ Listed(result, k)
                                /\ IF eol THEN InLine(k, i) ELSE InBlock(k, i)
        BY <2>2, <3>2 DEF Describes
      <4>2. After(k) = Len(str) + 1
        BY <2>1, <4>1, OpenEnds
      <4>3. k \notin Kept
        BY <4>1 DEF Kept, InLine, InBlock
      <4> QED
        BY <2>1, <4>1, <4>2, <4>3, CommentListsNothing
    <3> QED
      BY <3>1, <3>2
  <2>4. {v \in Kept : v < Len(str) + 1} = Kept
    BY <2>1, CutsAreLeast DEF Kept, Pieces
  <2> QED
    BY <2>3, <2>4 DEF Listed
<1> QED
  BY <1>1, <1>2, <1>3, PTL DEF DeleteSpec


-------------------------------------------------------------------------------
(***************************************************************************)
(* parse_verilog.  While a file is read, its declarations are in items and *)
(* its gates in gates, word_list is empty between statements, and no       *)
(* statement is of a part of the grammar that is still to come.            *)
(***************************************************************************)
AllWords == {statement.words : statement \in Statements}
WordsOfFile == [n \in DOMAIN file |-> file[n].words]

\* What items says of a name.
ItemType(name) ==
    IF name \in Named("input") THEN "input"
    ELSE IF name \in Named("output") THEN "output"
    ELSE IF name \in Named("module") THEN "port"
    ELSE "wire"

ItemsWritten ==
    /\ DOMAIN items = Named("module") \cup Named("input") \cup Named("output") \cup Named("wire")
    /\ Named("input") \cup Named("output") \subseteq Named("module")
    /\ Named("input") \cap Named("output") = {}
    /\ \A name \in DOMAIN items : items[name] = ItemType(name)

\* The names that the gates of this file drive.
Driven == {file[n].words[1] : n \in Said("gate")}

GatesWritten ==
    /\ gates \in Seq(AllWords)
    /\ Selects(gates, WordsOfFile, Said("gate"))
    /\ Drivers = Driven

\* The name is that of the header, once there is one.
NameWritten == \A n \in Said("module") : circuit_name = file[n].title

InSection ==
    /\ section \in Nat
    /\ \A n \in DOMAIN file : SectionOf(file[n].kind) \in 1 .. section

Reading ==
    /\ file \in Seq(Statements)
    /\ word_list = <<>>
    /\ InSection
    /\ ItemsWritten
    /\ GatesWritten
    /\ NameWritten

ReaderInv == (program = "reads" => Reading) /\ ReturnedAsWritten

\* The order of the parts of the grammar.
LEMMA SectionOrder ==
    /\ SectionOf("module") = 1
    /\ SectionOf("input") = 2
    /\ SectionOf("output") = 3
    /\ SectionOf("wire") = 4
    /\ SectionOf("gate") = 5
    /\ SectionOf("endmodule") = 6
<1>1. DOMAIN Sections = {1, 2, 3, 4, 5, 6}
  <2>1. DOMAIN Sections = 1 .. 6
    BY DEF Sections
  <2> QED
    BY <2>1
<1>2. /\ Sections[1] = "module" /\ Sections[2] = "input" /\ Sections[3] = "output"
      /\ Sections[4] = "wire" /\ Sections[5] = "gate" /\ Sections[6] = "endmodule"
  BY DEF Sections
<1> QED
  BY <1>1, <1>2 DEF SectionOf

\* The words of a statement, when none are left in word_list.
LEMMA WordsOfStatement ==
    ASSUME NEW statement \in Statements, word_list = <<>>
    PROVE  /\ word_list \o statement.words = statement.words
           /\ Words(statement) = ToSet(statement.words)
<1>1. statement.words \in Seq(ToSet(statement.words))
  BY StatementsAssumption
<1>2. word_list \o statement.words = statement.words
  BY <1>1
<1> QED
  BY <1>2 DEF Words

\* The positions and the names of the statements of a kind, after one more.
Added(statement, kind, S) == IF statement.kind = kind THEN S ELSE {}

LEMMA OneMoreStatement ==
    ASSUME file \in Seq(Statements), NEW statement \in Statements,
           file' = Append(file, statement)
    PROVE  /\ file' \in Seq(Statements)
           /\ \A kind : Said(kind)' = Said(kind) \cup Added(statement, kind, {Len(file) + 1})
           /\ \A kind : Named(kind)' = Named(kind)
                                       \cup Added(statement, kind, ToSet(statement.words))
           /\ WordsOfFile'[Len(file) + 1] = statement.words
           /\ \A n \in DOMAIN file : WordsOfFile'[n] = WordsOfFile[n]
<1>1. /\ Len(file) \in Nat /\ DOMAIN file = 1 .. Len(file)
      /\ DOMAIN file' = 1 .. Len(file) + 1
      /\ \A n \in 1 .. Len(file) : file'[n] = file[n]
      /\ file'[Len(file) + 1] = statement
      /\ file' \in Seq(Statements)
  OBVIOUS
<1>2. DOMAIN file' = DOMAIN file \cup {Len(file) + 1}
  BY <1>1
<1>3. ASSUME NEW kind
      PROVE  Said(kind)' = Said(kind) \cup Added(statement, kind, {Len(file) + 1})
  BY <1>1, <1>2 DEF Said, Added
<1>4. ASSUME NEW kind
      PROVE  Named(kind)' = Named(kind) \cup Added(statement, kind, ToSet(statement.words))
  <2>1. Named(kind)' = UNION {ToSet(file'[n].words) : n \in Said(kind)'}
    BY DEF Named, ToSet
  <2>2. Said(kind) \subseteq 1 .. Len(file)
    BY <1>1 DEF Said
  <2>3. \A n \in Said(kind) : file'[n] = file[n]
    BY <1>1, <2>2
  <2>4. Named(kind) = UNION {ToSet(file[n].words) : n \in Said(kind)}
    BY DEF Named
  <2>5. CASE statement.kind = kind
    <3>1. Said(kind)' = Said(kind) \cup {Len(file) + 1}
      BY <1>3, <2>5 DEF Added
    <3>2. {ToSet(file'[n].words) : n \in Said(kind)'} =
             {ToSet(file[n].words) : n \in Said(kind)} \cup {ToSet(statement.words)}
      BY <1>1, <2>3, <3>1
    <3> QED
      BY <2>1, <2>4, <2>5, <3>2 DEF Added
  <2>6. CASE statement.kind # kind
    <3>1. Said(kind)' = Said(kind)
      BY <1>3, <2>6 DEF Added
    <3> QED
      BY <2>1, <2>3, <2>4, <2>6, <3>1 DEF Added
  <2> QED
    BY <2>5, <2>6
<1>5. /\ WordsOfFile'[Len(file) + 1] = statement.words
      /\ \A n \in DOMAIN file : WordsOfFile'[n] = WordsOfFile[n]
  BY <1>1, <1>2 DEF WordsOfFile
<1> QED
  BY <1>1, <1>3, <1>4, <1>5

\* A statement the grammar has a place for keeps the file in order.
LEMMA SectionGrows ==
    ASSUME file \in Seq(Statements), InSection, NEW statement \in Statements,
           NEW kind \in {"module", "input", "output", "wire", "gate", "endmodule"},
           Reads(statement, kind)
    PROVE  /\ file' = Append(file, statement) /\ statement.kind = kind
           /\ InSection'
           /\ \A n \in DOMAIN file : SectionOf(file[n].kind) <= SectionOf(kind)
           /\ kind = "module" => DOMAIN file = {}
<1>1. /\ statement.kind = kind /\ file' = Append(file, statement)
      /\ section' = SectionOf(kind)
      /\ IF kind = "module" THEN section = 0 ELSE section \in 1 .. SectionOf(kind)
  BY DEF Reads
<1>2. SectionOf(kind) \in 1 .. 6 /\ section \in Nat /\ section <= SectionOf(kind)
  BY <1>1, SectionOrder DEF InSection
<1>3. \A n \in DOMAIN file : SectionOf(file[n].kind) \in 1 .. SectionOf(kind)
  BY <1>2 DEF InSection
<1>4. InSection'
  <2>1. ASSUME NEW n \in DOMAIN file'
        PROVE  SectionOf(file'[n].kind) \in 1 .. SectionOf(kind)
    <3>1. CASE n \in DOMAIN file
      BY <1>1, <1>3, <3>1
    <3>2. CASE n \notin DOMAIN file
      <4>1. file'[n] = statement
        BY <1>1, <3>2
      <4> QED
        BY <1>1, <1>2, <4>1
    <3> QED
      BY <3>1, <3>2
  <2>2. section' \in Nat
    BY <1>1, <1>2
  <2>3. \A k : SectionOf(k)' = SectionOf(k)
    BY DEF SectionOf, Sections
  <2> QED
    BY <1>1, <2>1, <2>2 DEF InSection, SectionOf, Sections
<1>5. kind = "module" => DOMAIN file = {}
  BY <1>1 DEF InSection
<1> QED
  BY <1>1, <1>3, <1>4, <1>5


\* A statement leaves the declarations of other kinds as they were.
LEMMA OtherNames ==
    ASSUME file \in Seq(Statements), NEW statement \in Statements,
           file' = Append(file, statement)
    PROVE  /\ \A kind : kind # statement.kind => /\ Said(kind)' = Said(kind)
                                                 /\ Named(kind)' = Named(kind)
           /\ Named(statement.kind)' = Named(statement.kind) \cup ToSet(statement.words)
<1>1. \A kind : Said(kind)' = Said(kind) \cup Added(statement, kind, {Len(file) + 1})
  BY OneMoreStatement
<1>2. \A kind : Named(kind)' = Named(kind) \cup Added(statement, kind, ToSet(statement.words))
  BY OneMoreStatement
<1>3. \A kind, S : kind # statement.kind => Added(statement, kind, S) = {}
  BY DEF Added
<1>4. Added(statement, statement.kind, ToSet(statement.words)) = ToSet(statement.words)
  BY DEF Added
<1>5. ASSUME NEW kind, kind # statement.kind
      PROVE  Said(kind)' = Said(kind) /\ Named(kind)' = Named(kind)
  <2>1. Said(kind)' = Said(kind)
    BY <1>1, <1>3, <1>5
  <2>2. Named(kind)' = Named(kind)
    BY <1>2, <1>3, <1>5
  <2> QED
    BY <2>1, <2>2
<1>6. Named(statement.kind)' = Named(statement.kind) \cup ToSet(statement.words)
  <2>1. Named(statement.kind)' = Named(statement.kind)
                                 \cup Added(statement, statement.kind, ToSet(statement.words))
    BY <1>2
  <2> QED
    BY <1>4, <2>1
<1> QED
  BY <1>5, <1>6

\* The gates stay as written when a statement of another kind is read.
LEMMA GatesStay ==
    ASSUME file \in Seq(Statements), NEW statement \in Statements,
           file' = Append(file, statement), statement.kind # "gate",
           GatesWritten, gates' = gates
    PROVE  GatesWritten'
<1>1. Said("gate")' = Said("gate") /\ Said("gate") \subseteq DOMAIN file
  BY OtherNames DEF Said
<1>2. \A n \in DOMAIN file : WordsOfFile'[n] = WordsOfFile[n]
  BY OneMoreStatement
<1>3. Selects(gates, WordsOfFile', Said("gate"))
  BY <1>1, <1>2, SelectsSame DEF GatesWritten
<1>4. gates' \in Seq(AllWords)
  BY DEF GatesWritten
<1>5. Drivers' = Driven'
  <2>1. \A n \in Said("gate") : file'[n] = file[n]
    BY <1>1
  <2>2. Driven' = Driven
    BY <1>1, <2>1 DEF Driven
  <2> QED
    BY <2>2 DEF GatesWritten, Drivers, ToSet
<1> QED
  BY <1>1, <1>3, <1>4, <1>5 DEF GatesWritten, Selects, Rank, AllWords

\* The name stays as written when a statement that is no header is read.
LEMMA NameStays ==
    ASSUME file \in Seq(Statements), NEW statement \in Statements,
           file' = Append(file, statement), statement.kind # "module",
           NameWritten, circuit_name' = circuit_name
    PROVE  NameWritten'
<1>1. Said("module")' = Said("module") /\ Said("module") \subseteq DOMAIN file
  BY OtherNames DEF Said
<1>2. \A n \in DOMAIN file : file'[n] = file[n]
  OBVIOUS
<1> QED
  BY <1>1, <1>2 DEF NameWritten

\* The name of a header is taken.
LEMMA NameTaken ==
    ASSUME file \in Seq(Statements), InSection, NEW statement \in Statements,
           Reads(statement, "module"), circuit_name' = statement.title
    PROVE  NameWritten'
<1>1. file' = Append(file, statement) /\ DOMAIN file = {}
  BY SectionGrows
<1>2. file' = <<statement>>
  <2>1. Len(file) \in Nat /\ DOMAIN file = 1 .. Len(file)
    OBVIOUS
  <2>2. file = <<>>
    BY <1>1, <2>1
  <2> QED
    BY <1>1, <2>2
<1>3. \A n \in DOMAIN file' : file'[n] = statement
  BY <1>2
<1> QED
  BY <1>3 DEF NameWritten, Said

\* The first statement declares ports.
LEMMA ModuleWritten ==
    ASSUME Reading, NEW statement \in Statements, Reads(statement, "module"),
           items' = Marked(items, ToSet(statement.words), "port")
    PROVE  ItemsWritten'
<1>1. /\ file \in Seq(Statements) /\ InSection /\ ItemsWritten
  BY DEF Reading
<1>2. file' = Append(file, statement) /\ statement.kind = "module" /\ DOMAIN file = {}
  BY <1>1, SectionGrows
<1>3. \A kind : Named(kind) = {}
  BY <1>2 DEF Named, Said
<1>4. /\ Named("module")' = ToSet(statement.words) /\ Named("input")' = {}
      /\ Named("output")' = {} /\ Named("wire")' = {}
  BY <1>1, <1>2, <1>3, OtherNames
<1>5. DOMAIN items = {}
  BY <1>1, <1>3 DEF ItemsWritten
<1> QED
  BY <1>4, <1>5 DEF ItemsWritten, ItemType, Marked

\* Inputs are declared before outputs and wires, and are ports.
LEMMA InputWritten ==
    ASSUME Reading, NEW statement \in Statements, Reads(statement, "input"),
           ToSet(statement.words) \subseteq DOMAIN items,
           items' = Marked(items, ToSet(statement.words), "input")
    PROVE  ItemsWritten'
<1>1. /\ file \in Seq(Statements) /\ InSection /\ ItemsWritten
  BY DEF Reading
<1>2. /\ file' = Append(file, statement) /\ statement.kind = "input"
      /\ \A n \in DOMAIN file : SectionOf(file[n].kind) <= 2
  BY <1>1, SectionGrows, SectionOrder
<1>3. Named("output") = {} /\ Named("wire") = {}
  <2>1. \A n \in DOMAIN file : file[n].kind # "output" /\ file[n].kind # "wire"
    BY <1>2, SectionOrder
  <2> QED
    BY <2>1 DEF Named, Said
<1>4. /\ Named("module")' = Named("module")
      /\ Named("input")' = Named("input") \cup ToSet(statement.words)
      /\ Named("output")' = {} /\ Named("wire")' = {}
  BY <1>1, <1>2, <1>3, OtherNames
<1>5. /\ DOMAIN items = Named("module") \cup Named("input")
      /\ Named("input") \subseteq Named("module")
      /\ \A name \in DOMAIN items : items[name] = ItemType(name)
  BY <1>1, <1>3 DEF ItemsWritten
<1>6. \A name \in DOMAIN items : ItemType(name) = IF name \in Named("input") THEN "input"
                                                  ELSE "port"
  BY <1>3, <1>5 DEF ItemType
<1>7. \A name : ItemType(name)' = IF name \in Named("input") \cup ToSet(statement.words)
                                  THEN "input"
                                  ELSE IF name \in Named("module") THEN "port" ELSE "wire"
  BY <1>4 DEF ItemType
<1> QED
  BY <1>4, <1>5, <1>6, <1>7 DEF ItemsWritten, Marked

\* Outputs are declared before wires, and are ports that are not inputs.
LEMMA OutputWritten ==
    ASSUME Reading, NEW statement \in Statements, Reads(statement, "output"),
           \A name \in ToSet(statement.words) : name \in DOMAIN items /\ items[name] # "input",
           items' = Marked(items, ToSet(statement.words), "output")
    PROVE  ItemsWritten'
<1>1. /\ file \in Seq(Statements) /\ InSection /\ ItemsWritten
  BY DEF Reading
<1>2. /\ file' = Append(file, statement) /\ statement.kind = "output"
      /\ \A n \in DOMAIN file : SectionOf(file[n].kind) <= 3
  BY <1>1, SectionGrows, SectionOrder
<1>3. Named("wire") = {}
  <2>1. \A n \in DOMAIN file : file[n].kind # "wire"
    BY <1>2, SectionOrder
  <2> QED
    BY <2>1 DEF Named, Said
<1>4. /\ Named("module")' = Named("module") /\ Named("input")' = Named("input")
      /\ Named("output")' = Named("output") \cup ToSet(statement.words)
      /\ Named("wire")' = {}
  BY <1>1, <1>2, <1>3, OtherNames
<1>5. /\ DOMAIN items = Named("module")
      /\ Named("input") \cup Named("output") \subseteq Named("module")
      /\ Named("input") \cap Named("output") = {}
      /\ \A name \in DOMAIN items : items[name] = ItemType(name)
  BY <1>1, <1>3 DEF ItemsWritten
<1>6. ToSet(statement.words) \subseteq Named("module") \ Named("input")
  BY <1>5 DEF ItemType
<1>7. \A name : ItemType(name)' =
         IF name \in Named("input") THEN "input"
         ELSE IF name \in Named("output") \cup ToSet(statement.words) THEN "output"
         ELSE IF name \in Named("module") THEN "port" ELSE "wire"
  BY <1>4 DEF ItemType
<1>8. \A name \in Named("module") :
         Marked(items, ToSet(statement.words), "output")[name] = ItemType(name)'
  BY <1>5, <1>6, <1>7 DEF Marked, ItemType
<1>9. DOMAIN items' = Named("module")
  BY <1>5, <1>6 DEF Marked
<1> QED
  BY <1>4, <1>5, <1>6, <1>8, <1>9 DEF ItemsWritten

\* A wire that is a port stays what it is.
LEMMA WireWritten ==
    ASSUME Reading, NEW statement \in Statements, Reads(statement, "wire"),
           items' = Marked(items, ToSet(statement.words) \ DOMAIN items, "wire")
    PROVE  ItemsWritten'
<1>1. /\ file \in Seq(Statements) /\ InSection /\ ItemsWritten
  BY DEF Reading
<1>2. file' = Append(file, statement) /\ statement.kind = "wire"
  BY <1>1, SectionGrows
<1>3. /\ Named("module")' = Named("module") /\ Named("input")' = Named("input")
      /\ Named("output")' = Named("output")
      /\ Named("wire")' = Named("wire") \cup ToSet(statement.words)
  BY <1>1, <1>2, OtherNames
<1>4. \A name : ItemType(name)' = ItemType(name)
  BY <1>3 DEF ItemType
<1>5. \A name : name \notin DOMAIN items => ItemType(name) = "wire"
  BY <1>1 DEF ItemsWritten, ItemType
<1>6. DOMAIN items' = DOMAIN items \cup ToSet(statement.words)
  BY DEF Marked
<1>7. \A name \in DOMAIN items' : items'[name] = ItemType(name)
  BY <1>1, <1>5, <1>6 DEF ItemsWritten, Marked
<1> QED
  BY <1>1, <1>3, <1>4, <1>6, <1>7 DEF ItemsWritten

\* Statements that declare nothing.
LEMMA ItemsStay ==
    ASSUME Reading, NEW statement \in Statements, NEW kind \in {"gate", "endmodule"},
           Reads(statement, kind), items' = items
    PROVE  ItemsWritten'
<1>1. /\ file \in Seq(Statements) /\ InSection /\ ItemsWritten
  BY DEF Reading
<1>2. file' = Append(file, statement) /\ statement.kind \in {"gate", "endmodule"}
  BY <1>1, SectionGrows
<1>3. /\ Named("module")' = Named("module") /\ Named("input")' = Named("input")
      /\ Named("output")' = Named("output") /\ Named("wire")' = Named("wire")
  BY <1>1, <1>2, OtherNames
<1>4. \A name : ItemType(name)' = ItemType(name)
  BY <1>3 DEF ItemType
<1> QED
  BY <1>1, <1>3, <1>4 DEF ItemsWritten

\* A gate is listed behind those of earlier statements.
LEMMA GateWritten ==
    ASSUME Reading, NEW statement \in Statements, Reads(statement, "gate"),
           gates' = Append(gates, statement.words)
    PROVE  GatesWritten'
<1>1. /\ file \in Seq(Statements) /\ InSection /\ GatesWritten
  BY DEF Reading
<1>2. file' = Append(file, statement) /\ statement.kind = "gate"
  BY <1>1, SectionGrows
<1>3. Said("gate")' = Said("gate") \cup {Len(file) + 1}
  BY <1>1, <1>2, OneMoreStatement DEF Added
<1>4. /\ WordsOfFile'[Len(file) + 1] = statement.words
      /\ \A n \in DOMAIN file : WordsOfFile'[n] = WordsOfFile[n]
  BY <1>1, <1>2, OneMoreStatement
<1>5. /\ Len(file) \in Nat /\ Said("gate") \in SUBSET (1 .. Len(file))
      /\ \A m \in Said("gate") : m < Len(file) + 1
      /\ Said("gate") \subseteq DOMAIN file
  BY <1>1 DEF Said
<1>6. statement.words \in AllWords
  BY DEF AllWords
<1>7. gates \in Seq(AllWords) /\ Selects(gates, WordsOfFile', Said("gate"))
  BY <1>1, <1>4, <1>5, SelectsSame DEF GatesWritten
<1>8. Selects(gates', WordsOfFile', Said("gate") \cup {Len(file) + 1})
  <2> DEFINE all == WordsOfFile'
  <2>1. /\ Selects(gates, all, Said("gate")) /\ statement.words = all[Len(file) + 1]
        /\ Len(file) + 1 \in Nat
    BY <1>4, <1>5, <1>7
  <2> HIDE DEF all
  <2>2. Selects(Append(gates, statement.words), all, Said("gate") \cup {Len(file) + 1})
    BY <1>5, <1>6, <1>7, <2>1, SelectsNext
  <2> QED
    BY <2>2 DEF all
<1>9. gates' \in Seq(AllWords)
  BY <1>6, <1>7
<1>10. Drivers' = Driven'
  <2>1. ToSet(gates') = ToSet(gates) \cup {statement.words}
    <3>1. /\ Len(gates) \in Nat /\ DOMAIN gates = 1 .. Len(gates)
          /\ DOMAIN gates' = 1 .. Len(gates) + 1
          /\ \A n \in 1 .. Len(gates) : gates'[n] = gates[n]
          /\ gates'[Len(gates) + 1] = statement.words
      BY <1>6, <1>7
    <3>2. DOMAIN gates' = DOMAIN gates \cup {Len(gates) + 1}
      BY <3>1
    <3> QED
      BY <3>1, <3>2 DEF ToSet
  <2>2. Drivers' = Drivers \cup {statement.words[1]}
    BY <2>1 DEF Drivers, ToSet
  <2>3. file'[Len(file) + 1] = statement /\ \A n \in Said("gate") : file'[n] = file[n]
    BY <1>1, <1>2, <1>5
  <2>4. Driven' = Driven \cup {statement.words[1]}
    BY <1>3, <2>3 DEF Driven
  <2> QED
    BY <1>1, <2>2, <2>4 DEF GatesWritten
<1> QED
  BY <1>3, <1>8, <1>9, <1>10 DEF GatesWritten, Selects, Rank, AllWords

\* Every statement the grammar has a place for keeps what is read as written.
LEMMA StatementRead ==
    ASSUME Reading, NEW statement \in Statements,
           \/ ReadModule(statement) \/ ReadInput(statement) \/ ReadOutput(statement)
           \/ ReadWire(statement) \/ ReadGate(statement) \/ ReadEnd(statement)
    PROVE  (program' = "reads" /\ Reading') \/ program' = "exit"
<1>1. /\ file \in Seq(Statements) /\ word_list = <<>> /\ InSection
      /\ ItemsWritten /\ GatesWritten /\ NameWritten
  BY DEF Reading
<1>2. /\ word_list \o statement.words = statement.words
      /\ Words(statement) = ToSet(statement.words)
  BY <1>1, WordsOfStatement
<1>3. ASSUME NEW kind \in {"module", "input", "output", "wire", "gate", "endmodule"},
             Reads(statement, kind)
      PROVE  /\ program = "reads" /\ file' \in Seq(Statements) /\ InSection'
             /\ (kind # "gate" /\ gates' = gates) => GatesWritten'
             /\ (kind # "module" /\ circuit_name' = circuit_name) => NameWritten'
             /\ (kind = "module" /\ circuit_name' = statement.title) => NameWritten'
  <2>1. file' = Append(file, statement) /\ statement.kind = kind /\ InSection'
    BY <1>1, <1>3, SectionGrows
  <2>2. file' \in Seq(Statements)
    BY <1>1, <2>1
  <2>3. (kind # "gate" /\ gates' = gates) => GatesWritten'
    BY <1>1, <2>1, GatesStay
  <2>4. (kind # "module" /\ circuit_name' = circuit_name) => NameWritten'
    BY <1>1, <2>1, NameStays
  <2>5. (kind = "module" /\ circuit_name' = statement.title) => NameWritten'
    BY <1>1, <1>3, NameTaken
  <2> QED
    BY <1>3, <2>1, <2>2, <2>3, <2>4, <2>5 DEF Reads
<1>4. CASE ReadModule(statement)
  <2>1. Reads(statement, "module")
    BY <1>4 DEF ReadModule
  <2>2. program' = "exit" \/ ( /\ items' = Marked(items, ToSet(statement.words), "port")
                              /\ word_list' = <<>> /\ gates' = gates /\ program' = program
                              /\ circuit_name' = statement.title)
    BY <1>2, <1>4 DEF ReadModule, Exit
  <2> QED
    BY <1>3, <2>1, <2>2, ModuleWritten DEF Reading
<1>5. CASE ReadInput(statement)
  <2>1. Reads(statement, "input")
    BY <1>5 DEF ReadInput
  <2>2. program' = "exit" \/ ( /\ ToSet(statement.words) \subseteq DOMAIN items
                              /\ items' = Marked(items, ToSet(statement.words), "input")
                              /\ word_list' = <<>> /\ gates' = gates /\ program' = program
                              /\ circuit_name' = circuit_name)
    BY <1>2, <1>5 DEF ReadInput, Exit
  <2> QED
    BY <1>3, <2>1, <2>2, InputWritten DEF Reading
<1>6. CASE ReadOutput(statement)
  <2>1. Reads(statement, "output")
    BY <1>6 DEF ReadOutput
  <2>2. program' = "exit" \/ ( /\ \A name \in ToSet(statement.words) :
                                    name \in DOMAIN items /\ items[name] # "input"
                              /\ items' = Marked(items, ToSet(statement.words), "output")
                              /\ word_list' = <<>> /\ gates' = gates /\ program' = program
                              /\ circuit_name' = circuit_name)
    BY <1>2, <1>6 DEF ReadOutput, Exit
  <2> QED
    BY <1>3, <2>1, <2>2, OutputWritten DEF Reading
<1>7. CASE ReadWire(statement)
  <2>1. Reads(statement, "wire")
    BY <1>7 DEF ReadWire
  <2>2. /\ items' = Marked(items, ToSet(statement.words) \ DOMAIN items, "wire")
        /\ word_list' = <<>> /\ gates' = gates /\ program' = program
        /\ circuit_name' = circuit_name
    BY <1>2, <1>7 DEF ReadWire
  <2> QED
    BY <1>3, <2>1, <2>2, WireWritten DEF Reading
<1>8. CASE ReadGate(statement)
  <2>1. Reads(statement, "gate")
    BY <1>8 DEF ReadGate
  <2>2. program' = "exit" \/ ( /\ gates' = Append(gates, statement.words)
                              /\ word_list' = <<>> /\ items' = items /\ program' = program
                              /\ circuit_name' = circuit_name)
    BY <1>2, <1>8 DEF ReadGate, Exit
  <2> QED
    BY <1>3, <2>1, <2>2, GateWritten, ItemsStay DEF Reading
<1>9. CASE ReadEnd(statement)
  <2>1. Reads(statement, "endmodule") /\ items' = items /\ gates' = gates
        /\ word_list' = <<>> /\ program' = program /\ circuit_name' = circuit_name
    BY <1>1, <1>9 DEF ReadEnd
  <2> QED
    BY <1>3, <2>1, ItemsStay DEF Reading
<1> QED
  BY <1>4, <1>5, <1>6, <1>7, <1>8, <1>9

\* The circuit is built of what was read, however the file ends.
LEMMA BuiltAsWritten ==
    ASSUME Reading, NEW words, Build(words), file' = file
    PROVE  ReaderInv'
<1>1. ItemsWritten /\ GatesWritten /\ NameWritten
  BY DEF Reading
<1>2. CASE program' = "crash"
  BY <1>2 DEF ReaderInv, ReturnedAsWritten
<1>3. CASE program' # "crash"
  <2> DEFINE Nets == AddedNets \cup Drivers
             Role(name) == CASE name \in Named("input") -> "input"
                             [] name \in Named("output") -> "output"
                             [] OTHER -> "wire"
  <2>1. /\ program' = "runs" /\ circuit'.gates = gates /\ circuit'.name = circuit_name
        /\ circuit'.nets = [name \in Nets |-> NetType(name)]
    BY <1>3 DEF Build
  <2>2. /\ \A kind : Named(kind)' = Named(kind) /\ Said(kind)' = Said(kind)
        /\ [n \in DOMAIN file' |-> file'[n].words] = WordsOfFile
    BY DEF Named, Said, WordsOfFile
  <2>3. AddedNets = Named("input") \cup Named("output") \cup (Named("wire") \ Named("module"))
    BY <1>1 DEF AddedNets, NetTypes, ItemsWritten, ItemType
  <2>4. \A name : NetType(name) = Role(name)
    <3> SUFFICES ASSUME NEW name
                 PROVE  NetType(name) = Role(name)
      OBVIOUS
    <3>1. Named("input") \cap Named("output") = {}
      BY <1>1 DEF ItemsWritten
    <3>2. CASE name \in AddedNets
      <4>1. NetType(name) = ItemType(name) /\ ItemType(name) # "port"
        BY <1>1, <3>2 DEF AddedNets, NetType, ItemsWritten, NetTypes
      <4> QED
        BY <3>1, <4>1 DEF ItemType
    <3>3. CASE name \notin AddedNets
      BY <2>3, <3>1, <3>3 DEF NetType
    <3> QED
      BY <3>2, <3>3
  <2>5. /\ Selects(gates, WordsOfFile, Said("gate")) /\ Drivers = Driven
        /\ Named("input") \cap Named("output") = {}
    BY <1>1 DEF GatesWritten, ItemsWritten
  <2>6. DOMAIN circuit'.nets = Nets /\ \A name \in Nets : circuit'.nets[name] = NetType(name)
    BY <2>1
  <2> HIDE DEF Nets, Role
  <2>7. ReturnedAsWritten'
    <3>1. /\ Selects(circuit'.gates, [n \in DOMAIN file' |-> file'[n].words], Said("gate")')
          /\ Named("input")' \cap Named("output")' = {}
      BY <2>1, <2>2, <2>5
    <3>2. DOMAIN circuit'.nets = Named("input")' \cup Named("output")'
                                 \cup (Named("wire")' \ Named("module")')
                                 \cup {file'[n].words[1] : n \in Said("gate")'}
      BY <2>2, <2>3, <2>5, <2>6 DEF Nets, Driven
    <3>3. \A name \in DOMAIN circuit'.nets :
             circuit'.nets[name] = CASE name \in Named("input")' -> "input"
                                     [] name \in Named("output")' -> "output"
                                     [] OTHER -> "wire"
      BY <2>2, <2>4, <2>6 DEF Role
    <3>4. \A n \in Said("module")' : circuit'.name = file'[n].title
      BY <1>1, <2>1, <2>2 DEF NameWritten
    <3> QED
      BY <3>1, <3>2, <3>3, <3>4 DEF ReturnedAsWritten, Selects, Rank
  <2> QED
    BY <2>1, <2>7 DEF ReaderInv
<1> QED
  BY <1>2, <1>3

\* ReturnedAsWritten: whatever was read, broken off or refused before, the
\* circuit that parse_verilog returns has the nets and gates of its own file, the
\* nets that construct inserts included, and the name in its header, if its file
\* has one (verilog.ypp:96-204).
THEOREM CircuitsAreReturnedAsWritten == ReaderSpec => []ReturnedAsWritten
<1>1. Init => ReaderInv
  BY DEF Init, ReaderInv, ReturnedAsWritten
<1>2. ReaderInv /\ [Next]_vars => ReaderInv'
  <2> SUFFICES ASSUME ReaderInv, [Next]_vars PROVE ReaderInv'
    OBVIOUS
  <2>1. CASE Begin
    <3>1. /\ program' = "reads" /\ file' = <<>> /\ word_list' = <<>> /\ section' = 0
          /\ items' = <<>> /\ gates' = <<>>
      BY <2>1 DEF Begin
    <3>2. InSection'
      BY <3>1 DEF InSection
    <3>3. \A kind : Said(kind)' = {} /\ Named(kind)' = {}
      BY <3>1 DEF Said, Named
    <3>4. ItemsWritten'
      BY <3>1, <3>3 DEF ItemsWritten
    <3>5. GatesWritten'
      <4> DEFINE all == WordsOfFile'
      <4>1. Selects(<<>>, all, {})
        BY SelectsNothing
      <4>2. gates' \in Seq(AllWords)
        BY <3>1
      <4> QED
        BY <3>1, <3>3, <4>1, <4>2 DEF GatesWritten, Selects, Rank, AllWords, Drivers, Driven, ToSet
    <3>6. Reading'
      BY <3>1, <3>2, <3>3, <3>4, <3>5 DEF Reading, NameWritten
    <3> QED
      BY <3>1, <3>6 DEF ReaderInv, ReturnedAsWritten
  <2>2. ASSUME NEW statement \in Statements,
               \/ ReadModule(statement) \/ ReadInput(statement) \/ ReadOutput(statement)
               \/ ReadWire(statement) \/ ReadGate(statement) \/ ReadEnd(statement)
        PROVE  ReaderInv'
    <3>1. Reading
      BY <2>2 DEF ReaderInv, ReadModule, ReadInput, ReadOutput, ReadWire, ReadGate, ReadEnd,
                  Reads
    <3>2. (program' = "reads" /\ Reading') \/ program' = "exit"
      BY <2>2, <3>1, StatementRead
    <3> QED
      BY <3>2 DEF ReaderInv, ReturnedAsWritten
  <2>3. CASE EndOfFile
    <3>1. Reading /\ Build(word_list) /\ file' = file
      BY <2>3 DEF EndOfFile, ReaderInv
    <3> QED
      BY <3>1, BuiltAsWritten
  <2>4. CASE SyntaxError
    <3>1. Reading /\ file' = file /\ \E words : Build(words)
      BY <2>4 DEF SyntaxError, ReaderInv
    <3> QED
      BY <3>1, BuiltAsWritten
  <2>5. CASE UNCHANGED vars
    <3>1. /\ file' = file /\ section' = section /\ items' = items /\ gates' = gates
          /\ word_list' = word_list /\ circuit' = circuit /\ program' = program
          /\ circuit_name' = circuit_name
      BY <2>5 DEF vars
    <3>2. ReturnedAsWritten' <=> ReturnedAsWritten
      BY <3>1 DEF ReturnedAsWritten, Named, Said, Selects, Rank
    <3>3. Reading' <=> Reading
      BY <3>1 DEF Reading, InSection, SectionOf, Sections, ItemsWritten, ItemType, GatesWritten,
                  WordsOfFile, Named, Said, Selects, Rank, AllWords, NameWritten, Drivers, Driven
    <3> QED
      BY <3>1, <3>2, <3>3 DEF ReaderInv
  <2> QED
    BY <2>1, <2>2, <2>3, <2>4, <2>5 DEF Next
<1>3. ReaderInv => ReturnedAsWritten
  BY DEF ReaderInv
<1> QED
  BY <1>1, <1>2, <1>3, PTL DEF ReaderSpec

================================================================================
