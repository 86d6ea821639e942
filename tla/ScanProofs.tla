------------------------------- MODULE ScanProofs -------------------------------
(***************************************************************************)
(* What a scan gives. One scan of a vector index (AnnScan): what a search  *)
(* finds, and that a scan which stops has returned what it could reach.    *)
(* A query over a columnar table (ColumnarQuery): that a chunk group which *)
(* is skipped holds no row that matches, and that every route and plan     *)
(* answers what SQL says.                                                  *)
(***************************************************************************)
EXTENDS AnnScan, ColumnarQuery, FiniteSetTheorems, SequenceTheorems, TLAPS

None(p, a, x) == a
Facts == INSTANCE FoldFacts WITH Op <- None

Size == Cardinality(VectorRows)

LEMMA Rows_Numbers ==
    /\ Size \in Nat /\ VectorRows = 1 .. Size /\ IsFiniteSet(VectorRows)
BY AnnAssumption, FS_CardinalityType DEF Size

-----------------------------------------------------------------------------
(* The nearest of a set.                                                   *)

\* Different rows have different ranks.
Ranks == {f \in [VectorRows -> VectorRows] : \A a, b \in VectorRows : f[a] = f[b] => a = b}

\* The n first of a set of rows, by their ranks.
First(f, n, rows) == {r \in rows : Cardinality({q \in rows : f[q] < f[r]}) < n}

\* A set of rows that is not empty has a row of the greatest rank.
LEMMA Furthest_Exists ==
    ASSUME NEW f \in [VectorRows -> VectorRows], NEW rows, rows \subseteq VectorRows, rows # {}
    PROVE  \E r \in rows : \A q \in rows : f[q] <= f[r]
<1> DEFINE T == {Size - f[r] : r \in rows}
<1>1. \A r \in rows : f[r] \in 1 .. Size
  BY Rows_Numbers
<1>2. T \subseteq Nat /\ T # {}
  BY <1>1, Rows_Numbers
<1>3. PICK x \in T : \A y \in T : x <= y
  BY <1>2, Facts!Least_Exists
<1>4. PICK r \in rows : x = Size - f[r]
  BY <1>3
<1>5. \A q \in rows : x <= Size - f[q]
  BY <1>3
<1>6. \A q \in rows : f[q] <= f[r]
  BY <1>1, <1>4, <1>5, Rows_Numbers
<1> QED BY <1>6

\* ... and one of the least.
LEMMA Closest_Exists ==
    ASSUME NEW f \in [VectorRows -> VectorRows], NEW rows, rows \subseteq VectorRows, rows # {}
    PROVE  \E r \in rows : \A q \in rows : f[r] <= f[q]
<1> DEFINE T == {f[r] : r \in rows}
<1>1. \A r \in rows : f[r] \in Nat
  <2>1. \A r \in rows : f[r] \in 1 .. Size
    BY Rows_Numbers
  <2> QED BY <2>1, Rows_Numbers
<1>2. T \subseteq Nat /\ T # {}
  BY <1>1
<1>3. PICK x \in T : \A y \in T : x <= y
  BY <1>2, Facts!Least_Exists
<1> QED BY <1>3

\* The n first of a set are n, or all of them.
LEMMA First_Size ==
    ASSUME NEW f \in Ranks, NEW n \in Nat, NEW rows, rows \subseteq VectorRows
    PROVE  /\ First(f, n, rows) \subseteq rows
           /\ Cardinality(rows) <= n => First(f, n, rows) = rows
           /\ Cardinality(rows) > n => Cardinality(First(f, n, rows)) = n
<1> DEFINE Good(s) == /\ Cardinality(s) <= n => First(f, n, s) = s
                      /\ Cardinality(s) > n => Cardinality(First(f, n, s)) = n
           T == {m \in Nat : \A s \in SUBSET VectorRows : Cardinality(s) = m => Good(s)}
<1>1. \A s \in SUBSET VectorRows : IsFiniteSet(s) /\ Cardinality(s) \in Nat
  BY Rows_Numbers, FS_Subset, FS_CardinalityType
<1>2. 0 \in T
  <2> SUFFICES ASSUME NEW s \in SUBSET VectorRows, Cardinality(s) = 0 PROVE Good(s)
    OBVIOUS
  <2>1. s = {}
    BY <1>1, FS_EmptySet
  <2> QED BY <2>1, FS_EmptySet DEF First
<1>3. ASSUME NEW m \in Nat, m \in T PROVE m + 1 \in T
  <2> SUFFICES ASSUME NEW s \in SUBSET VectorRows, Cardinality(s) = m + 1 PROVE Good(s)
    OBVIOUS
  <2>1. s # {}
    BY FS_EmptySet
  <2>2. PICK g \in s : \A q \in s : f[q] <= f[g]
    BY <2>1, Furthest_Exists DEF Ranks
  <2> DEFINE rest == s \ {g}
  <2>3. rest \in SUBSET VectorRows /\ Cardinality(rest) = m
    <3>1. IsFiniteSet(s) /\ g \in s
      BY <1>1
    <3>2. Cardinality(rest) = Cardinality(s) - 1
      BY <3>1, FS_RemoveElement
    <3> QED BY <3>2
  <2>4. Good(rest)
    BY <1>3, <2>3
  <2>5. \A q \in s : f[q] \in Nat /\ (q # g => f[q] # f[g])
    <3>1. /\ f \in [VectorRows -> VectorRows]
          /\ \A p, q \in VectorRows : p # q => f[p] # f[q]
      BY DEF Ranks
    <3>2. VectorRows \subseteq Nat
      BY Rows_Numbers
    <3>3. \A q \in s : q \in VectorRows /\ f[q] \in VectorRows
      BY <3>1
    <3>4. g \in VectorRows
      BY <3>3
    <3> QED BY <3>1, <3>2, <3>3, <3>4
  <2>6. ASSUME NEW r \in rest
        PROVE  {q \in s : f[q] < f[r]} = {q \in rest : f[q] < f[r]}
    BY <2>2, <2>5
  <2>7. {q \in s : f[q] < f[g]} = rest
    BY <2>2, <2>5
  <2>8. First(f, n, s) = First(f, n, rest) \cup (IF m < n THEN {g} ELSE {})
    BY <2>3, <2>6, <2>7 DEF First
  <2>9. First(f, n, rest) \subseteq rest
    BY DEF First
  <2> HIDE DEF rest
  <2>10. CASE m + 1 <= n
    <3>1. First(f, n, rest) = rest
      BY <2>3, <2>4, <2>10
    <3> QED BY <2>8, <2>10, <3>1 DEF rest
  <2>11. CASE m + 1 > n
    <3>1. First(f, n, s) = First(f, n, rest)
      BY <2>8, <2>11
    <3>2. CASE m <= n
      BY <2>3, <2>4, <2>11, <3>1, <3>2
    <3>3. CASE m > n
      BY <2>3, <2>4, <2>11, <3>1, <3>3
    <3> QED BY <3>2, <3>3
  <2> QED BY <2>10, <2>11
<1> HIDE DEF T, Good
<1>4. Cardinality(rows) \in T
  BY <1>1, <1>2, <1>3, Facts!Induction
<1>5. Good(rows)
  BY <1>1, <1>4 DEF T
<1> QED BY <1>5 DEF Good, First

-----------------------------------------------------------------------------
(* One index: its rows, its walks.                                         *)

Copies == {"met", "taken"}
Beams == [frontier : SUBSET VectorRows, seen : SUBSET VectorRows,
          result : SUBSET (VectorRows \X Copies)]

LEMMA Index_Facts ==
    ASSUME annIndex \in Indexes
    PROVE  /\ annIndex.kind \in {"hnsw", "ivf"} /\ annIndex.exact \in BOOLEAN
           /\ annIndex.upper \in [VectorRows -> Seq(Indexed(annIndex))]
           /\ annIndex.near \in [VectorRows -> Seq(Indexed(annIndex))]
           /\ annIndex.entry \in Indexed(annIndex)
           /\ annIndex.dead \subseteq VectorRows
           /\ annIndex.lists \in Seq(SUBSET Indexed(annIndex))
           /\ annIndex.pooled \in BOOLEAN
           /\ annIndex.score \in Ranks
           /\ annIndex.labels \in [VectorRows -> Seq(Nat)]
           /\ annIndex.pending \subseteq VectorRows
           /\ Indexed(annIndex) \subseteq VectorRows
<1>1. annIndex \in AnnIndex
  BY AnnAssumption
<1> DEFINE I == Indexed(annIndex)
<1>2. /\ IsInjective(annIndex.score) /\ annIndex.entry \in I
      /\ \A r \in VectorRows : ToSet(annIndex.upper[r]) \cup ToSet(annIndex.near[r]) \subseteq I
      /\ \A i \in DOMAIN annIndex.lists : annIndex.lists[i] \subseteq I
  BY AnnAssumption
<1>3. /\ annIndex.kind \in {"hnsw", "ivf"} /\ annIndex.exact \in BOOLEAN
      /\ annIndex.upper \in [VectorRows -> Seq(VectorRows)]
      /\ annIndex.near \in [VectorRows -> Seq(VectorRows)]
      /\ annIndex.dead \subseteq VectorRows
      /\ annIndex.lists \in Seq(SUBSET VectorRows)
      /\ annIndex.pooled \in BOOLEAN
      /\ annIndex.score \in [VectorRows -> VectorRows]
      /\ annIndex.labels \in [VectorRows -> Seq(Nat)]
      /\ annIndex.pending \subseteq VectorRows
  BY <1>1 DEF AnnIndex
<1>4. ASSUME NEW S, NEW seq \in Seq(S), NEW R, \A i \in DOMAIN seq : seq[i] \in R
      PROVE  seq \in Seq(R)
  BY <1>4, LenProperties, IsASeq
<1>5. ASSUME NEW seq \in Seq(VectorRows), ToSet(seq) \subseteq I PROVE seq \in Seq(I)
  <2>1. \A i \in DOMAIN seq : seq[i] \in I
    BY <1>5 DEF ToSet
  <2> QED BY <1>4, <2>1
<1>6. annIndex.upper \in [VectorRows -> Seq(I)] /\ annIndex.near \in [VectorRows -> Seq(I)]
  BY <1>2, <1>3, <1>5
<1>7. annIndex.lists \in Seq(SUBSET I)
  BY <1>2, <1>3, <1>4
<1>8. annIndex.score \in Ranks
  BY <1>2, <1>3 DEF Ranks, IsInjective
<1> QED BY <1>2, <1>3, <1>6, <1>7, <1>8 DEF Indexed

LEMMA NearestOf_In ==
    ASSUME annIndex \in Indexes, NEW rows, rows \subseteq VectorRows, rows # {}
    PROVE  NearestOf(rows) \in rows
<1>1. annIndex.score \in Ranks
  BY Index_Facts
<1>2. PICK r \in rows : \A q \in rows : annIndex.score[r] <= annIndex.score[q]
  BY <1>1, Closest_Exists DEF Ranks
<1>3. \A q \in rows : annIndex.score[q] \in Nat
  <2>1. \A q \in rows : annIndex.score[q] \in 1 .. Size
    BY <1>1, Rows_Numbers DEF Ranks
  <2> QED BY <2>1, Rows_Numbers
<1>4. \A q \in rows \ {r} : Before(r, q)
  <2> SUFFICES ASSUME NEW q \in rows \ {r} PROVE annIndex.score[r] < annIndex.score[q]
    BY DEF Before
  <2>1. annIndex.score[r] # annIndex.score[q]
    BY <1>1 DEF Ranks
  <2> QED BY <1>2, <1>3, <2>1
<1> QED BY <1>4 DEF NearestOf

LEMMA WorstOf_In ==
    ASSUME annIndex \in Indexes, NEW result, result \subseteq VectorRows \X Copies, result # {}
    PROVE  WorstOf(result) \in result
<1> DEFINE rows == {c[1] : c \in result}
<1>1. annIndex.score \in Ranks /\ rows \subseteq VectorRows /\ rows # {}
  BY Index_Facts
<1>2. PICK r \in rows : \A q \in rows : annIndex.score[q] <= annIndex.score[r]
  BY <1>1, Furthest_Exists DEF Ranks
<1>3. \A q \in rows : annIndex.score[q] \in Nat
  <2>1. \A q \in rows : annIndex.score[q] \in 1 .. Size
    BY <1>1, Rows_Numbers DEF Ranks
  <2> QED BY <2>1, Rows_Numbers
<1>4. PICK c \in result : c[1] = r
  OBVIOUS
<1>5. \A d \in result : ~Before(c[1], d[1])
  <2> SUFFICES ASSUME NEW d \in result PROVE ~(annIndex.score[r] < annIndex.score[d[1]])
    BY <1>4 DEF Before
  <2>1. d[1] \in rows
    OBVIOUS
  <2> QED BY <1>2, <1>3, <2>1
<1> QED BY <1>5 DEF WorstOf

LEMMA Beam_Finite ==
    ASSUME NEW b \in Beams
    PROVE  /\ IsFiniteSet(b.frontier) /\ IsFiniteSet(b.seen) /\ IsFiniteSet(b.result)
           /\ Cardinality(b.frontier) \in Nat /\ Cardinality(b.seen) \in Nat
           /\ Cardinality(b.result) \in Nat
<1>1. IsFiniteSet(VectorRows \X Copies)
  <2>1. IsFiniteSet(Copies)
    <3>1. IsFiniteSet({"met"})
      BY FS_Singleton
    <3>2. IsFiniteSet({"met"} \cup {"taken"})
      BY <3>1, FS_AddElement
    <3>3. Copies = {"met"} \cup {"taken"}
      BY DEF Copies
    <3> QED BY <3>2, <3>3
  <2> QED BY <2>1, Rows_Numbers, FS_Product
<1>2. /\ b.frontier \subseteq VectorRows /\ b.seen \subseteq VectorRows
      /\ b.result \subseteq VectorRows \X Copies
  BY DEF Beams
<1>3. IsFiniteSet(b.frontier) /\ IsFiniteSet(b.seen) /\ IsFiniteSet(b.result)
  BY <1>1, <1>2, Rows_Numbers, FS_Subset
<1> QED BY <1>3, FS_CardinalityType

\* What entering a row does to the result: it is in, or the result is full.
LEMMA Kept_Facts ==
    ASSUME annIndex \in Indexes, NEW result, result \subseteq VectorRows \X Copies,
           IsFiniteSet(result), NEW c \in VectorRows \X Copies, NEW ef \in Nat
    PROVE  /\ Kept(result \cup {c}, ef) \subseteq result \cup {c}
           /\ Cardinality(result) >= ef => Cardinality(Kept(result \cup {c}, ef)) >= ef
           /\ Cardinality(result) < ef => Kept(result \cup {c}, ef) = result \cup {c}
<1> DEFINE more == result \cup {c}
<1>1. /\ IsFiniteSet(more) /\ Cardinality(result) \in Nat
      /\ Cardinality(more) = IF c \in result THEN Cardinality(result) ELSE Cardinality(result) + 1
  BY FS_AddElement, FS_CardinalityType
<1>2. WorstOf(more) \in more
  BY WorstOf_In
<1>3. Cardinality(more \ {WorstOf(more)}) = Cardinality(more) - 1
  BY <1>1, <1>2, FS_RemoveElement
<1> HIDE DEF more
<1>4. /\ Kept(more, ef) \subseteq more
      /\ Cardinality(result) >= ef => Cardinality(Kept(more, ef)) >= ef
      /\ Cardinality(result) < ef => Kept(more, ef) = more
  BY <1>1, <1>3 DEF Kept
<1> QED BY <1>4 DEF more

-----------------------------------------------------------------------------
(* The walk of the ground layer.  The parameter p of a fold is the pair of *)
(* the width and whether the beam is resumed.                              *)

MeetStep(p, b, n) == Meet(b, n, p[1], p[2])
MeetFold == INSTANCE FoldFacts WITH Op <- MeetStep
RoundStep(p, b, i) == Round(b, p[1], p[2])
RoundFold == INSTANCE FoldFacts WITH Op <- RoundStep
CloserStep(p, a, n) == CloserOf(a, n)
CloserFold == INSTANCE FoldFacts WITH Op <- CloserStep
DescendStep(p, a, i) == FoldLeft(CloserOf, a, annIndex.upper[a])
DescendFold == INSTANCE FoldFacts WITH Op <- DescendStep

LEMMA Expanded_Fold ==
    ASSUME NEW b, NEW r, NEW ef, NEW resumed
    PROVE  Expanded(b, r, ef, resumed) =
             MeetFold!Fold(<<ef, resumed>>, Taken(b, r, ef, resumed), annIndex.near[r])
BY DEF Expanded, FoldLeft, MapThenFoldSet, Max, MeetFold!Fold, MeetFold!Greatest, MeetStep

LEMMA GroundSearch_Fold ==
    ASSUME NEW b, NEW ef, NEW resumed
    PROVE  GroundSearch(b, ef, resumed) = RoundFold!Fold(<<ef, resumed>>, b, Rounds)
BY DEF GroundSearch, FoldLeft, MapThenFoldSet, Max, RoundFold!Fold, RoundFold!Greatest, RoundStep

LEMMA Rounds_Type == Rounds \in Seq(VectorRows) /\ Len(Rounds) = Size
<1>1. Rounds \in [1 .. Size -> VectorRows]
  BY Rows_Numbers DEF Rounds
<1>2. Rounds \in Seq(VectorRows)
  BY <1>1, Rows_Numbers, IsASeq
<1> QED BY <1>1, <1>2, Rows_Numbers, LenProperties

LEMMA Descend_In ==
    ASSUME annIndex \in Indexes PROVE GreedyDescend(annIndex.entry) \in Indexed(annIndex)
<1> DEFINE I == Indexed(annIndex)
<1>1. annIndex.upper \in [VectorRows -> Seq(I)] /\ annIndex.entry \in I /\ I \subseteq VectorRows
  BY Index_Facts
<1>2. ASSUME NEW a \in I PROVE FoldLeft(CloserOf, a, annIndex.upper[a]) \in I
  <2>1. FoldLeft(CloserOf, a, annIndex.upper[a]) = CloserFold!Fold(0, a, annIndex.upper[a])
    BY DEF FoldLeft, MapThenFoldSet, Max, CloserFold!Fold, CloserFold!Greatest, CloserStep
  <2>2. \A x \in I, n \in I : CloserStep(0, x, n) \in I
    BY DEF CloserStep, CloserOf
  <2>3. annIndex.upper[a] \in Seq(I)
    BY <1>1
  <2> HIDE DEF I
  <2> QED BY <2>1, <2>2, <2>3, CloserFold!Fold_In
<1>3. GreedyDescend(annIndex.entry) = DescendFold!Fold(0, annIndex.entry, Rounds)
  BY DEF GreedyDescend, FoldLeft, MapThenFoldSet, Max, DescendFold!Fold, DescendFold!Greatest,
         DescendStep
<1>4. \A x \in I, i \in VectorRows : DescendStep(0, x, i) \in I
  BY <1>2 DEF DescendStep
<1> HIDE DEF I
<1> QED BY <1>1, <1>3, <1>4, Rounds_Type, DescendFold!Fold_In DEF I

LEMMA Meet_Type ==
    ASSUME annIndex \in Indexes, NEW b \in Beams, NEW n \in VectorRows, NEW ef \in Nat,
           NEW resumed \in BOOLEAN
    PROVE  Meet(b, n, ef, resumed) \in Beams
<1>1. /\ b.frontier \subseteq VectorRows /\ b.seen \subseteq VectorRows
      /\ b.result \subseteq VectorRows \X Copies /\ IsFiniteSet(b.result)
  BY Beam_Finite DEF Beams
<1>2. <<n, "met">> \in VectorRows \X Copies
  BY DEF Copies
<1>3. Kept(b.result \cup {<<n, "met">>}, ef) \subseteq VectorRows \X Copies
  BY <1>1, <1>2, Kept_Facts
<1> QED BY <1>1, <1>3 DEF Meet, EnterResult, Beams

LEMMA Taken_Type ==
    ASSUME annIndex \in Indexes, NEW b \in Beams, NEW r \in VectorRows, NEW ef \in Nat,
           NEW resumed \in BOOLEAN
    PROVE  Taken(b, r, ef, resumed) \in Beams
<1>1. /\ b.frontier \subseteq VectorRows /\ b.seen \subseteq VectorRows
      /\ b.result \subseteq VectorRows \X Copies /\ IsFiniteSet(b.result)
  BY Beam_Finite DEF Beams
<1>2. <<r, "taken">> \in VectorRows \X Copies
  BY DEF Copies
<1>3. Kept(b.result \cup {<<r, "taken">>}, ef) \subseteq VectorRows \X Copies
  BY <1>1, <1>2, Kept_Facts
<1> QED BY <1>1, <1>3 DEF Taken, EnterResult, Beams

LEMMA Round_Type ==
    ASSUME annIndex \in Indexes, NEW b \in Beams, NEW ef \in Nat, NEW resumed \in BOOLEAN
    PROVE  Round(b, ef, resumed) \in Beams
<1> SUFFICES ASSUME ~Over(b, ef)
             PROVE  Expanded(b, NearestOf(b.frontier), ef, resumed) \in Beams
  BY DEF Round
<1> DEFINE r == NearestOf(b.frontier)
<1>1. b.frontier # {} /\ b.frontier \subseteq VectorRows
  BY DEF Over, Beams
<1>2. r \in VectorRows
  BY <1>1, NearestOf_In
<1> HIDE DEF r
<1>3. Taken(b, r, ef, resumed) \in Beams
  BY <1>2, Taken_Type
<1>4. annIndex.near[r] \in Seq(VectorRows)
  <2>1. annIndex.near[r] \in Seq(Indexed(annIndex)) /\ Indexed(annIndex) \subseteq VectorRows
    BY <1>2, Index_Facts
  <2> QED BY <2>1
<1>5. \A x \in Beams, n \in VectorRows : MeetStep(<<ef, resumed>>, x, n) \in Beams
  BY Meet_Type DEF MeetStep
<1> DEFINE W == Beams
<1>6. MeetFold!Fold(<<ef, resumed>>, Taken(b, r, ef, resumed), annIndex.near[r]) \in W
  <2>1. /\ Taken(b, r, ef, resumed) \in W
        /\ \A x \in W, n \in VectorRows : MeetStep(<<ef, resumed>>, x, n) \in W
    BY <1>3, <1>5
  <2> HIDE DEF W
  <2> QED BY <1>4, <2>1, MeetFold!Fold_In
<1> QED BY <1>6, Expanded_Fold DEF r

LEMMA GroundSearch_Type ==
    ASSUME annIndex \in Indexes, NEW b \in Beams, NEW ef \in Nat, NEW resumed \in BOOLEAN
    PROVE  GroundSearch(b, ef, resumed) \in Beams
<1>1. \A x \in Beams, i \in VectorRows : RoundStep(<<ef, resumed>>, x, i) \in Beams
  BY Round_Type DEF RoundStep
<1> DEFINE W == Beams
<1>2. RoundFold!Fold(<<ef, resumed>>, b, Rounds) \in W
  <2>1. b \in W /\ \A x \in W, i \in VectorRows : RoundStep(<<ef, resumed>>, x, i) \in W
    BY <1>1
  <2> HIDE DEF W
  <2> QED BY <2>1, Rounds_Type, RoundFold!Fold_In
<1> QED BY <1>2, GroundSearch_Fold

-----------------------------------------------------------------------------
(* A search that begins anew.  Until its result is full a walk takes every *)
(* live row it meets, so that it ends with a full result or with all that  *)
(* the lists lead to.                                                      *)

Full(b, ef) == Cardinality(b.result) >= ef
FoundAll(b) == \A r \in b.seen : Live(r) => r \in Found(b)
\* Every list of a row that is through, except r's, has been met.
Through(b, ef, except) ==
    Full(b, ef) \/ \A q \in (b.seen \ b.frontier) \ except : ToSet(annIndex.near[q]) \subseteq b.seen

Walking(b, first, ef) ==
    /\ b \in Beams
    /\ b.frontier \subseteq b.seen /\ b.seen \subseteq Reached({first}) /\ first \in b.seen
    /\ \A c \in b.result : c[1] \in b.seen /\ Live(c[1])
    /\ \A c, d \in b.result : c[1] = d[1] => c = d
    /\ Full(b, ef) \/ FoundAll(b)

\* The rows that may still be taken from the frontier.
Ahead(b) == Cardinality(VectorRows \ b.seen) + Cardinality(b.frontier)

LEMMA Reached_Facts ==
    ASSUME annIndex \in Indexes, NEW first \in Indexed(annIndex)
    PROVE  /\ first \in Reached({first}) /\ Reached({first}) \subseteq Indexed(annIndex)
           /\ \A r \in Reached({first}) : ToSet(annIndex.near[r]) \subseteq Reached({first})
           /\ \A s : first \in s /\ LedAlong(s) /\ s \subseteq VectorRows
                       => Reached({first}) \subseteq s
<1> DEFINE I == Indexed(annIndex)
<1>1. annIndex.near \in [VectorRows -> Seq(I)] /\ I \subseteq VectorRows
  BY Index_Facts
<1>2. ASSUME NEW r \in VectorRows PROVE ToSet(annIndex.near[r]) \subseteq I
  <2>1. annIndex.near[r] \in Seq(I)
    BY <1>1
  <2>2. annIndex.near[r] \in [1 .. Len(annIndex.near[r]) -> I]
    BY <2>1, LenProperties
  <2> HIDE DEF I
  <2> QED BY <2>2 DEF ToSet
<1>3. LedAlong(I)
  BY <1>1, <1>2 DEF LedAlong
<1>4. first \in VectorRows /\ first \in I /\ I \in SUBSET VectorRows
  BY <1>1
<1> HIDE DEF I
<1>5. \A s \in SUBSET VectorRows : first \in s /\ LedAlong(s) => Reached({first}) \subseteq s
  BY DEF Reached
<1>6. Reached({first}) \subseteq I
  BY <1>3, <1>4, <1>5
<1>7. first \in Reached({first})
  BY <1>4 DEF Reached
<1>8. ASSUME NEW r \in Reached({first}), NEW n \in ToSet(annIndex.near[r])
      PROVE  n \in Reached({first})
  <2>1. r \in VectorRows
    BY DEF Reached
  <2>2. n \in VectorRows
    BY <1>1, <1>2, <2>1
  <2>3. \A s \in SUBSET VectorRows : first \in s /\ LedAlong(s) => n \in s
    BY <1>8 DEF Reached, LedAlong
  <2> QED BY <2>2, <2>3 DEF Reached
<1> QED BY <1>5, <1>6, <1>7, <1>8 DEF I

LEMMA Meet_Walks ==
    ASSUME annIndex \in Indexes, NEW first \in Indexed(annIndex), NEW ef \in Nat,
           NEW b, Walking(b, first, ef), NEW n \in Reached({first}), NEW r,
           Through(b, ef, {r})
    PROVE  LET m == Meet(b, n, ef, FALSE)
           IN  /\ Walking(m, first, ef) /\ Through(m, ef, {r})
               /\ b.seen \subseteq m.seen /\ n \in m.seen
               /\ r \notin b.frontier /\ r \in b.seen => r \notin m.frontier
               /\ Ahead(m) <= Ahead(b)
<1> DEFINE m == Meet(b, n, ef, FALSE)
<1>1. b \in Beams /\ n \in VectorRows
  BY Reached_Facts, Index_Facts DEF Walking, Reached
<1>2. m \in Beams
  BY <1>1, Meet_Type
<1>3. CASE n \in b.seen
  <2>1. m = b
    BY <1>3 DEF Meet
  <2>2. Ahead(b) <= Ahead(b)
    <3>1. Cardinality(VectorRows \ b.seen) \in Nat
      BY Rows_Numbers, FS_Difference, FS_CardinalityType
    <3> QED BY <1>1, <3>1, Beam_Finite DEF Ahead
  <2> QED BY <1>3, <2>1, <2>2
<1>4. CASE n \notin b.seen
  <2> DEFINE promising == \/ Cardinality(b.result) < ef
                          \/ Closer(n, WorstOf(b.result)[1])
             entered == b.result \cup {<<n, "met">>}
  <2>1. /\ m.seen = b.seen \cup {n}
        /\ m.frontier = IF promising THEN b.frontier \cup {n} ELSE b.frontier
        /\ m.result = IF promising /\ Live(n) THEN Kept(entered, ef) ELSE b.result
    BY <1>1, <1>4 DEF Meet, EnterResult, Beams
  <2> HIDE DEF m
  <2>2. <<n, "met">> \in VectorRows \X Copies
    BY <1>1 DEF Copies
  <2>3. b.result \subseteq VectorRows \X Copies /\ IsFiniteSet(b.result)
        /\ Cardinality(b.result) \in Nat
    BY <1>1, Beam_Finite DEF Beams
  <2>4. /\ Kept(entered, ef) \subseteq entered
        /\ Cardinality(b.result) >= ef => Cardinality(Kept(entered, ef)) >= ef
        /\ Cardinality(b.result) < ef => Kept(entered, ef) = entered
    BY <2>2, <2>3, Kept_Facts
  <2>5. m.result \subseteq entered
    BY <2>1, <2>4
  <2>6. Full(b, ef) => Full(m, ef)
    BY <2>1, <2>4 DEF Full
  <2>7. \A c \in b.result : c[1] \in b.seen /\ Live(c[1])
    BY DEF Walking
  <2>8. \A c \in m.result : c[1] \in m.seen /\ Live(c[1])
    <3> SUFFICES ASSUME NEW c \in m.result PROVE c[1] \in m.seen /\ Live(c[1])
      OBVIOUS
    <3>1. CASE c \in b.result
      BY <2>1, <2>7, <3>1
    <3>2. CASE c \notin b.result
      <4>1. c = <<n, "met">> /\ Live(n)
        BY <2>1, <2>4, <2>5, <3>2
      <4> QED BY <2>1, <4>1
    <3> QED BY <3>1, <3>2
  <2>9. \A c, d \in m.result : c[1] = d[1] => c = d
    <3>1. \A c \in m.result : c \in b.result \/ c = <<n, "met">>
      BY <2>5
    <3>2. \A c \in b.result : c[1] # n
      BY <1>4, <2>7
    <3>3. \A c, d \in b.result : c[1] = d[1] => c = d
      BY DEF Walking
    <3> SUFFICES ASSUME NEW c \in m.result, NEW d \in m.result, c[1] = d[1] PROVE c = d
      OBVIOUS
    <3>4. CASE c \in b.result /\ d \in b.result
      BY <3>3, <3>4
    <3>5. CASE c = <<n, "met">> /\ d = <<n, "met">>
      BY <3>5
    <3>6. CASE c \in b.result /\ d = <<n, "met">>
      BY <3>2, <3>6
    <3>7. CASE c = <<n, "met">> /\ d \in b.result
      BY <3>2, <3>7
    <3> QED BY <3>1, <3>4, <3>5, <3>6, <3>7
  <2>10. ASSUME ~Full(b, ef)
         PROVE  m.frontier = b.frontier \cup {n}
                /\ m.result = IF Live(n) THEN entered ELSE b.result
    <3>1. Cardinality(b.result) < ef
      BY <2>3, <2>10 DEF Full
    <3> QED BY <2>1, <2>4, <3>1
  <2>11. Full(m, ef) \/ FoundAll(m)
    <3> SUFFICES ASSUME ~Full(b, ef), NEW x \in m.seen, Live(x) PROVE x \in Found(m)
      BY <2>6 DEF FoundAll
    <3>1. CASE x = n
      <4>1. <<n, "met">> \in m.result
        BY <2>10, <3>1
      <4>2. <<n, "met">>[1] = n
        OBVIOUS
      <4> QED BY <3>1, <4>1, <4>2 DEF Found
    <3>2. CASE x # n
      <4>1. x \in b.seen
        BY <2>1, <3>2
      <4>2. x \in Found(b)
        BY <4>1 DEF Walking, FoundAll
      <4>3. b.result \subseteq m.result
        BY <2>10
      <4> QED BY <4>2, <4>3 DEF Found
    <3> QED BY <3>1, <3>2
  <2>12. Through(m, ef, {r})
    <3> SUFFICES ASSUME ~Full(b, ef), NEW q \in (m.seen \ m.frontier) \ {r}
                 PROVE  ToSet(annIndex.near[q]) \subseteq m.seen
      BY <2>6 DEF Through
    <3>1. q \in (b.seen \ b.frontier) \ {r}
      BY <2>1, <2>10
    <3> QED BY <2>1, <3>1 DEF Through
  <2>13. m.frontier \subseteq m.seen /\ m.seen \subseteq Reached({first}) /\ first \in m.seen
    BY <2>1 DEF Walking
  <2>14. Walking(m, first, ef)
    BY <1>2, <2>8, <2>9, <2>11, <2>13 DEF Walking
  <2>15. Ahead(m) <= Ahead(b)
    <3>1. IsFiniteSet(VectorRows \ b.seen)
      BY Rows_Numbers, FS_Difference
    <3>2. VectorRows \ m.seen = (VectorRows \ b.seen) \ {n} /\ n \in VectorRows \ b.seen
      BY <1>1, <1>4, <2>1
    <3> DEFINE S == VectorRows \ b.seen
    <3>6. IsFiniteSet(S) /\ n \in S /\ VectorRows \ m.seen = S \ {n}
      BY <3>1, <3>2
    <3> HIDE DEF S
    <3>7. Cardinality(S) \in Nat /\ Cardinality(S \ {n}) = Cardinality(S) - 1
      BY <3>6, FS_RemoveElement, FS_CardinalityType
    <3>3. Cardinality(VectorRows \ b.seen) \in Nat
          /\ Cardinality(VectorRows \ m.seen) = Cardinality(VectorRows \ b.seen) - 1
      BY <3>6, <3>7 DEF S
    <3>4. Cardinality(m.frontier) \in Nat /\ Cardinality(b.frontier) \in Nat
          /\ IsFiniteSet(b.frontier)
      BY <1>1, <1>2, Beam_Finite
    <3>5. Cardinality(m.frontier) <= Cardinality(b.frontier) + 1
      <4>1. Cardinality(b.frontier \cup {n})
              = IF n \in b.frontier THEN Cardinality(b.frontier) ELSE Cardinality(b.frontier) + 1
        BY <3>4, FS_AddElement
      <4> QED BY <2>1, <3>4, <4>1
    <3> QED BY <3>3, <3>4, <3>5 DEF Ahead
  <2>16. r \notin b.frontier /\ r \in b.seen => r \notin m.frontier
    BY <1>4, <2>1
  <2> QED BY <2>1, <2>12, <2>14, <2>15, <2>16 DEF m
<1> QED BY <1>3, <1>4

\* One round: the nearest of the frontier is taken and its list met.
LEMMA Round_Walks ==
    ASSUME annIndex \in Indexes, NEW first \in Indexed(annIndex), NEW ef \in Nat,
           NEW b, Walking(b, first, ef), Through(b, ef, {})
    PROVE  LET next == Round(b, ef, FALSE)
           IN  /\ Walking(next, first, ef) /\ Through(next, ef, {})
               /\ ~Over(b, ef) => Ahead(next) < Ahead(b)
<1>1. CASE Over(b, ef)
  BY <1>1 DEF Round
<1>2. CASE ~Over(b, ef)
  <2> DEFINE r == NearestOf(b.frontier)
             left == Taken(b, r, ef, FALSE)
             near == annIndex.near[r]
             p == <<ef, FALSE>>
             D == Reached({first})
             Good(x) == /\ Walking(x, first, ef) /\ Through(x, ef, {r})
                        /\ Ahead(x) <= Ahead(left)
                        /\ r \notin x.frontier /\ r \in x.seen
             W == {x \in Beams : Good(x)}
             T == {s \in Seq(D) : /\ MeetFold!Fold(p, left, s) \in W
                                  /\ ToSet(s) \subseteq MeetFold!Fold(p, left, s).seen}
  <2>1. b \in Beams /\ b.frontier # {} /\ b.frontier \subseteq b.seen /\ b.seen \subseteq D
        /\ D \subseteq VectorRows
    BY <1>2 DEF Over, Walking, Reached
  <2>2. r \in b.frontier
    <3>1. b.frontier \subseteq VectorRows
      BY <2>1
    <3> QED BY <2>1, <3>1, NearestOf_In
  <2>3. r \in VectorRows /\ r \in D
    BY <2>1, <2>2
  <2> HIDE DEF r
  <2>4. left \in Beams
    BY <2>1, <2>3, Taken_Type
  <2>5. left.frontier = b.frontier \ {r} /\ left.seen = b.seen /\ left.result = b.result
    BY <2>1 DEF Taken, Beams
  <2> HIDE DEF left
  <2>6. Walking(left, first, ef)
    <3>1. Found(left) = Found(b) /\ (Full(left, ef) <=> Full(b, ef))
      BY <2>5 DEF Found, Full
    <3>2. FoundAll(left) <=> FoundAll(b)
      BY <2>5, <3>1 DEF FoundAll
    <3> QED BY <2>4, <2>5, <3>1, <3>2 DEF Walking
  <2>7. Through(left, ef, {r})
    <3>1. (left.seen \ left.frontier) \ {r} \subseteq (b.seen \ b.frontier) \ {}
      BY <2>5
    <3> QED BY <2>5, <3>1 DEF Through, Full
  <2>8. Ahead(left) = Ahead(b) - 1 /\ Ahead(left) \in Nat /\ Ahead(b) \in Nat
    <3> DEFINE F == b.frontier
    <3>4. IsFiniteSet(F) /\ r \in F /\ left.frontier = F \ {r}
      BY <2>1, <2>2, <2>5, Beam_Finite
    <3> HIDE DEF F
    <3>5. Cardinality(F \ {r}) = Cardinality(F) - 1
      BY <3>4, FS_RemoveElement
    <3>1. Cardinality(left.frontier) = Cardinality(b.frontier) - 1
      BY <3>4, <3>5 DEF F
    <3>2. Cardinality(VectorRows \ b.seen) \in Nat
      BY Rows_Numbers, FS_Difference, FS_CardinalityType
    <3>3. Cardinality(left.frontier) \in Nat /\ Cardinality(b.frontier) \in Nat
      BY <2>1, <2>4, Beam_Finite
    <3> QED BY <2>5, <3>1, <3>2, <3>3 DEF Ahead
  <2>9. left \in W
    BY <2>2, <2>4, <2>5, <2>6, <2>7, <2>8, <2>1
  <2>10. ASSUME NEW x \in W, NEW n \in D
         PROVE  /\ MeetStep(p, x, n) \in W /\ n \in MeetStep(p, x, n).seen
                /\ x.seen \subseteq MeetStep(p, x, n).seen
    <3> DEFINE y == Meet(x, n, ef, FALSE)
    <3>1. MeetStep(p, x, n) = y
      BY DEF MeetStep
    <3>2. Walking(x, first, ef) /\ Through(x, ef, {r}) /\ Ahead(x) <= Ahead(left)
          /\ r \notin x.frontier /\ r \in x.seen
      OBVIOUS
    <3>3. /\ Walking(y, first, ef) /\ Through(y, ef, {r}) /\ x.seen \subseteq y.seen /\ n \in y.seen
          /\ (r \notin x.frontier /\ r \in x.seen => r \notin y.frontier) /\ Ahead(y) <= Ahead(x)
      BY <3>2, Meet_Walks
    <3> HIDE DEF y
    <3>4. Ahead(y) \in Nat /\ Ahead(x) \in Nat
      <4>1. \A z \in Beams : Ahead(z) \in Nat
        <5> SUFFICES ASSUME NEW z \in Beams PROVE Ahead(z) \in Nat
          OBVIOUS
        <5>1. Cardinality(VectorRows \ z.seen) \in Nat
          BY Rows_Numbers, FS_Difference, FS_CardinalityType
        <5> QED BY <5>1, Beam_Finite DEF Ahead
      <4> QED BY <3>2, <3>3, <4>1 DEF Walking
    <3>5. Ahead(y) <= Ahead(left)
      BY <2>8, <3>2, <3>3, <3>4
    <3>6. y \in Beams
      BY <3>3 DEF Walking
    <3>7. r \notin y.frontier /\ r \in y.seen
      BY <3>2, <3>3
    <3>8. y \in W
      BY <3>3, <3>5, <3>6, <3>7
    <3> QED BY <3>1, <3>3, <3>8
  <2> HIDE DEF W, p, D
  <2>11. <<>> \in T
    <3>1. MeetFold!Fold(p, left, <<>>) = left
      BY MeetFold!Fold_Empty
    <3>2. ToSet(<<>>) = {}
      BY DEF ToSet
    <3> QED BY <2>9, <3>1, <3>2
  <2>12. ASSUME NEW s \in Seq(D), NEW n \in D, s \in T PROVE Append(s, n) \in T
    <3> DEFINE x == MeetFold!Fold(p, left, s)
               y == MeetFold!Fold(p, left, Append(s, n))
    <3>1. y = MeetStep(p, x, n)
      BY <2>9, <2>10, MeetFold!Fold_Append
    <3>2. x \in W /\ ToSet(s) \subseteq x.seen
      BY <2>12
    <3> HIDE DEF x
    <3>3. y \in W /\ n \in y.seen /\ x.seen \subseteq y.seen
      BY <2>10, <3>1, <3>2
    <3>4. ToSet(Append(s, n)) = ToSet(s) \cup {n}
      <4>1. /\ Append(s, n) \in Seq(D) /\ Len(Append(s, n)) = Len(s) + 1 /\ Len(s) \in Nat
            /\ Append(s, n)[Len(s) + 1] = n /\ \A i \in 1 .. Len(s) : Append(s, n)[i] = s[i]
        BY LenProperties
      <4>2. DOMAIN s = 1 .. Len(s) /\ DOMAIN Append(s, n) = 1 .. Len(s) + 1
        BY <4>1, LenProperties
      <4>3. \A i \in 1 .. Len(s) + 1 : i \in 1 .. Len(s) \/ i = Len(s) + 1
        BY <4>1
      <4> QED BY <4>1, <4>2, <4>3 DEF ToSet
    <3>5. ToSet(Append(s, n)) \subseteq y.seen
      BY <3>2, <3>3, <3>4
    <3>6. Append(s, n) \in Seq(D)
      OBVIOUS
    <3> QED BY <3>3, <3>5, <3>6
  <2>13. near \in Seq(D)
    <3>1. near \in Seq(Indexed(annIndex)) /\ ToSet(near) \subseteq D
      BY <2>3, Index_Facts, Reached_Facts DEF D
    <3>2. \A i \in DOMAIN near : near[i] \in D
      BY <3>1 DEF ToSet
    <3> HIDE DEF near
    <3> QED BY <3>1, <3>2, LenProperties, IsASeq
  <2> HIDE DEF T
  <2>14. near \in T
    BY <2>11, <2>12, <2>13, Facts!SequenceInduction
  <2> DEFINE next == MeetFold!Fold(p, left, near)
  <2>15. next \in W /\ ToSet(near) \subseteq next.seen
    BY <2>14 DEF T
  <2>16. Round(b, ef, FALSE) = next
    BY <1>2, Expanded_Fold DEF Round, left, p, r
  <2> HIDE DEF next
  <2>17. /\ Walking(next, first, ef) /\ Through(next, ef, {r}) /\ Ahead(next) <= Ahead(left)
         /\ Ahead(next) \in Nat
    <3>1. next \in Beams /\ Good(next)
      BY <2>15 DEF W
    <3>2. Cardinality(VectorRows \ next.seen) \in Nat
      BY Rows_Numbers, FS_Difference, FS_CardinalityType
    <3>3. Ahead(next) \in Nat
      BY <3>1, <3>2, Beam_Finite DEF Ahead
    <3> QED BY <3>1, <3>3
  <2>18. Through(next, ef, {})
    BY <2>15, <2>17 DEF Through
  <2>19. Ahead(next) < Ahead(b)
    BY <2>8, <2>17
  <2> QED BY <2>16, <2>17, <2>18, <2>19
<1> QED BY <1>1, <1>2

\* The rows of a result are as many as its copies when each row has one.
LEMMA Found_Size ==
    ASSUME NEW b \in Beams, \A c, d \in b.result : c[1] = d[1] => c = d
    PROVE  /\ IsFiniteSet(Found(b)) /\ Cardinality(Found(b)) = Cardinality(b.result)
           /\ Found(b) \subseteq VectorRows
<1> DEFINE f == [c \in b.result |-> c[1]]
           R == b.result
           F == Found(b)
<1>1. IsFiniteSet(R)
  BY Beam_Finite
<1>2. F \subseteq VectorRows
  BY DEF Found, Beams
<1>3. f \in [R -> F]
  BY DEF Found
<1>4. f \in Injection(R, F)
  BY <1>3 DEF Injection, IsInjective
<1>5. f \in Surjection(R, F)
  BY <1>3 DEF Surjection, Found
<1>6. f \in Bijection(R, F)
  BY <1>4, <1>5 DEF Bijection
<1> HIDE DEF f, R, F
<1>7. ExistsBijection(R, F)
  BY <1>6 DEF ExistsBijection
<1>8. IsFiniteSet(F)
  BY <1>2, Rows_Numbers, FS_Subset
<1>9. Cardinality(F) = Cardinality(R)
  BY <1>1, <1>7, <1>8, FS_Bijection
<1> QED BY <1>2, <1>8, <1>9 DEF R, F

\* A search that begins anew finds ef live rows, or all there are.
LEMMA Search_Finds ==
    ASSUME annIndex \in Indexes, NEW first \in Indexed(annIndex), NEW ef \in Nat \ {0}
    PROVE  LET b == GroundSearch(EnterResult(FreshBeam(first), first, "taken", ef), ef, FALSE)
           IN  /\ Found(b) \subseteq Reached({first}) \ annIndex.dead
               /\ \/ Cardinality(Found(b)) >= ef
                  \/ Found(b) = Reached({first}) \ annIndex.dead
<1> DEFINE b0 == EnterResult(FreshBeam(first), first, "taken", ef)
           p == <<ef, FALSE>>
           Good(x) == Walking(x, first, ef) /\ Through(x, ef, {})
           W == {x \in Beams : Good(x)}
           T == {s \in Seq(VectorRows) :
                   LET x == RoundFold!Fold(p, b0, s)
                   IN  x \in W /\ (Over(x, ef) \/ Ahead(x) + Len(s) <= Ahead(b0))}
<1>1. first \in VectorRows
  BY Index_Facts
<1>2. /\ b0.frontier = {first} /\ b0.seen = {first}
      /\ b0.result = IF Live(first) THEN {<<first, "taken">>} ELSE {}
      /\ b0 \in Beams
  <2>1. <<first, "taken">> \in VectorRows \X Copies
    BY <1>1 DEF Copies
  <2>2. Kept({} \cup {<<first, "taken">>}, ef) = {} \cup {<<first, "taken">>}
    <3>1. IsFiniteSet({}) /\ Cardinality({}) < ef /\ {} \subseteq VectorRows \X Copies
      BY FS_EmptySet
    <3> QED BY <2>1, <3>1, Kept_Facts
  <2>3. b0 = [frontier |-> {first}, seen |-> {first},
              result |-> IF Live(first) THEN {<<first, "taken">>} ELSE {}]
    BY <2>2 DEF EnterResult, FreshBeam
  <2> HIDE DEF b0
  <2> QED BY <1>1, <2>1, <2>3 DEF Beams
<1> HIDE DEF b0
<1>3. Walking(b0, first, ef)
  <2>1. first \in Reached({first})
    BY Reached_Facts
  <2>2. \A c \in b0.result : c = <<first, "taken">> /\ c[1] = first /\ Live(c[1])
    BY <1>2
  <2>3. Live(first) => first \in Found(b0)
    <3>1. <<first, "taken">>[1] = first
      OBVIOUS
    <3> QED BY <1>2, <3>1 DEF Found
  <2> QED BY <1>2, <2>1, <2>2, <2>3 DEF Walking, FoundAll
<1>4. Through(b0, ef, {})
  BY <1>2 DEF Through
<1>5. b0 \in W
  BY <1>2, <1>3, <1>4
<1>6. \A z \in Beams : Ahead(z) \in Nat
  <2> SUFFICES ASSUME NEW z \in Beams PROVE Ahead(z) \in Nat
    OBVIOUS
  <2>1. Cardinality(VectorRows \ z.seen) \in Nat
    BY Rows_Numbers, FS_Difference, FS_CardinalityType
  <2> QED BY <2>1, Beam_Finite DEF Ahead
<1>7. Ahead(b0) = Size
  <2>1. Cardinality(VectorRows \ {first}) = Size - 1
    BY <1>1, Rows_Numbers, FS_RemoveElement DEF Size
  <2>2. Cardinality({first}) = 1
    BY FS_Singleton
  <2> QED BY <1>2, <2>1, <2>2, Rows_Numbers DEF Ahead
<1>8. ASSUME NEW x \in W, NEW i \in VectorRows
      PROVE  /\ RoundStep(p, x, i) \in W
             /\ Over(x, ef) => RoundStep(p, x, i) = x
             /\ ~Over(x, ef) => Ahead(RoundStep(p, x, i)) < Ahead(x)
  <2>1. Walking(x, first, ef) /\ Through(x, ef, {}) /\ x \in Beams
    OBVIOUS
  <2>2. RoundStep(p, x, i) = Round(x, ef, FALSE)
    BY DEF RoundStep
  <2> DEFINE next == Round(x, ef, FALSE)
  <2>3. /\ Walking(next, first, ef) /\ Through(next, ef, {})
        /\ ~Over(x, ef) => Ahead(next) < Ahead(x)
    BY <2>1, Round_Walks
  <2>4. Over(x, ef) => next = x
    BY DEF Round
  <2> HIDE DEF next
  <2>5. next \in W
    BY <2>3 DEF Walking
  <2> QED BY <2>2, <2>3, <2>4, <2>5 DEF next
<1> HIDE DEF W, p
<1>9. <<>> \in T
  <2>1. RoundFold!Fold(p, b0, <<>>) = b0
    BY RoundFold!Fold_Empty
  <2>2. Ahead(b0) + Len(<<>>) <= Ahead(b0)
    BY <1>7, Rows_Numbers
  <2> QED BY <1>5, <2>1, <2>2
<1>10. ASSUME NEW s \in Seq(VectorRows), NEW i \in VectorRows, s \in T PROVE Append(s, i) \in T
  <2> DEFINE x == RoundFold!Fold(p, b0, s)
             y == RoundFold!Fold(p, b0, Append(s, i))
  <2>1. \A z \in W, j \in VectorRows : RoundStep(p, z, j) \in W
    BY <1>8
  <2>2. y = RoundStep(p, x, i)
    BY <1>5, <2>1, RoundFold!Fold_Append
  <2>3. x \in W /\ (Over(x, ef) \/ Ahead(x) + Len(s) <= Ahead(b0))
    BY <1>10
  <2> HIDE DEF x
  <2>4. y \in W /\ (Over(x, ef) => y = x) /\ (~Over(x, ef) => Ahead(y) < Ahead(x))
    BY <1>8, <2>2, <2>3
  <2> HIDE DEF y
  <2>5. Ahead(x) \in Nat /\ Ahead(y) \in Nat /\ Ahead(b0) \in Nat
    BY <1>2, <1>6, <2>3, <2>4 DEF W
  <2>6. Len(Append(s, i)) = Len(s) + 1 /\ Len(s) \in Nat /\ Append(s, i) \in Seq(VectorRows)
    BY LenProperties
  <2>7. Over(y, ef) \/ Ahead(y) + Len(Append(s, i)) <= Ahead(b0)
    BY <2>3, <2>4, <2>5, <2>6
  <2> QED BY <2>4, <2>6, <2>7 DEF y
<1> HIDE DEF T
<1>11. Rounds \in T
  BY <1>9, <1>10, Rounds_Type, Facts!SequenceInduction
<1> DEFINE b == RoundFold!Fold(p, b0, Rounds)
<1>12. b \in W /\ (Over(b, ef) \/ Ahead(b) + Size <= Size)
  BY <1>7, <1>11, Rounds_Type DEF T
<1>13. GroundSearch(b0, ef, FALSE) = b
  BY GroundSearch_Fold DEF p
<1> HIDE DEF b
<1>14. b \in Beams /\ Walking(b, first, ef) /\ Through(b, ef, {})
  BY <1>12 DEF W
<1>15. Over(b, ef)
  <2>1. CASE Ahead(b) + Size <= Size
    <3>1. Cardinality(VectorRows \ b.seen) \in Nat /\ Cardinality(b.frontier) \in Nat
          /\ IsFiniteSet(b.frontier)
      BY <1>14, Rows_Numbers, FS_Difference, FS_CardinalityType, Beam_Finite
    <3>2. Cardinality(b.frontier) = 0
      BY <2>1, <3>1, Rows_Numbers DEF Ahead
    <3>3. b.frontier = {}
      BY <3>1, <3>2, FS_EmptySet
    <3> QED BY <3>3 DEF Over
  <2> QED BY <1>12, <2>1
<1> DEFINE D == Reached({first})
<1>16. /\ IsFiniteSet(Found(b)) /\ Cardinality(Found(b)) = Cardinality(b.result)
       /\ Found(b) \subseteq VectorRows
  BY <1>14, Found_Size DEF Walking
<1>17. Found(b) \subseteq D \ annIndex.dead
  BY <1>14 DEF Walking, Found, Live
<1>18. CASE Full(b, ef)
  BY <1>13, <1>16, <1>17, <1>18 DEF Full, b0
<1>19. CASE ~Full(b, ef)
  <2>1. b.frontier = {}
    BY <1>15, <1>19 DEF Over, Full
  <2>2. LedAlong(b.seen) /\ first \in b.seen /\ b.seen \subseteq VectorRows
    BY <1>14, <1>19, <2>1 DEF Through, LedAlong, Walking, Beams
  <2>3. D \subseteq b.seen
    BY <2>2, Reached_Facts
  <2>4. \A r \in b.seen : Live(r) => r \in Found(b)
    BY <1>14, <1>19 DEF Walking, FoundAll
  <2>5. D \ annIndex.dead \subseteq Found(b)
    BY <2>3, <2>4 DEF Live
  <2> QED BY <1>13, <1>17, <2>5 DEF b0
<1> QED BY <1>18, <1>19

-----------------------------------------------------------------------------
(* What the batches of a scan hold.                                        *)

LEMMA Nearest_Facts ==
    ASSUME NEW n \in Nat, NEW rows, rows \subseteq VectorRows
    PROVE  /\ Nearest(n, rows) \subseteq rows
           /\ Cardinality(rows) <= n => Nearest(n, rows) = rows
           /\ Cardinality(rows) > n => Cardinality(Nearest(n, rows)) = n
<1> DEFINE f == [r \in VectorRows |-> r]
<1>1. f \in Ranks
  BY DEF Ranks
<1>2. First(f, n, rows) = Nearest(n, rows)
  <2>1. \A r \in rows : {q \in rows : f[q] < f[r]} = {q \in rows : q < r}
    OBVIOUS
  <2> QED BY <2>1 DEF First, Nearest
<1> HIDE DEF f
<1> QED BY <1>1, <1>2, First_Size

\* A set of rows is finite.
LEMMA Rows_Finite ==
    ASSUME NEW rows, rows \subseteq VectorRows
    PROVE  IsFiniteSet(rows) /\ Cardinality(rows) \in Nat
BY Rows_Numbers, FS_Subset, FS_CardinalityType

LEMMA Reachable_In ==
    ASSUME annIndex \in Indexes
    PROVE  Reachable \subseteq Indexed(annIndex)
<1>1. CASE annIndex.kind = "hnsw"
  BY <1>1, Descend_In, Reached_Facts DEF Reachable
<1>2. CASE annIndex.kind # "hnsw"
  <2>1. annIndex.lists \in Seq(SUBSET Indexed(annIndex))
    BY Index_Facts
  <2> DEFINE S == SUBSET Indexed(annIndex)
  <2>2. \A i \in DOMAIN annIndex.lists : annIndex.lists[i] \in S
    <3>1. annIndex.lists \in Seq(S)
      BY <2>1
    <3> HIDE DEF S
    <3> QED BY <3>1, LenProperties
  <2> QED BY <1>2, <2>2 DEF Reachable, Range
<1> QED BY <1>1, <1>2

LEMMA Pending_Apart ==
    ASSUME annIndex \in Indexes, annPending \subseteq annIndex.pending \cup Arrivals
    PROVE  /\ annPending \subseteq VectorRows /\ annPending \cap Reachable = {}
           /\ annPending \cap Indexed(annIndex) = {}
BY Index_Facts, Reachable_In, AnnAssumption DEF Indexed

\* A search for ef candidates gives ef rows, or every row it can reach.
LEMMA Traverse_Facts ==
    ASSUME annIndex \in Indexes, annIndex.kind = "hnsw", NEW ef \in Nat \ {0}
    PROVE  /\ Traverse(ef) \subseteq Reachable
           /\ Cardinality(Traverse(ef)) = ef \/ Traverse(ef) = Reachable
           /\ Cardinality(Traverse(ef)) <= ef
<1> DEFINE first == GreedyDescend(annIndex.entry)
           width == IF annIndex.exact THEN ef ELSE ef * OverFetch
           F == Found(GroundSearch(EnterResult(FreshBeam(first), first, "taken", width),
                                   width, FALSE))
<1>1. first \in Indexed(annIndex)
  BY Descend_In
<1>2. OverFetch \in Nat \ {0}
  BY AnnAssumption
<1>3. width \in Nat \ {0} /\ width >= ef
  <2>1. \A a, c \in Nat \ {0} : a * c \in Nat \ {0} /\ a * c >= a
    <3> SUFFICES ASSUME NEW a \in Nat \ {0}, NEW c \in Nat \ {0}
                 PROVE  a * c \in Nat \ {0} /\ a * c >= a
      OBVIOUS
    <3>1. c = 1 \/ c > 1
      OBVIOUS
    <3> QED BY <3>1, SMTT(30)
  <2> QED BY <1>2, <2>1
<1>4. Reachable = Reached({first}) \ annIndex.dead
  BY DEF Reachable
<1>5. Traverse(ef) = Nearest(ef, F)
  BY DEF Traverse
<1> HIDE DEF width
<1>6. F \subseteq Reachable /\ (Cardinality(F) >= width \/ F = Reachable)
  BY <1>1, <1>3, <1>4, Search_Finds
<1> HIDE DEF first, F
<1>7. F \subseteq VectorRows
  BY <1>6, Reachable_In, Index_Facts
<1>8. Cardinality(F) \in Nat
  BY <1>7, Rows_Finite
<1>9. /\ Nearest(ef, F) \subseteq F
      /\ Cardinality(F) <= ef => Nearest(ef, F) = F
      /\ Cardinality(F) > ef => Cardinality(Nearest(ef, F)) = ef
  BY <1>7, Nearest_Facts
<1>10. CASE F = Reachable
  BY <1>5, <1>8, <1>9, <1>10
<1>11. CASE Cardinality(F) >= width
  <2>1. Cardinality(F) >= ef
    BY <1>3, <1>8, <1>11
  <2> QED BY <1>5, <1>6, <1>8, <1>9, <2>1
<1> QED BY <1>6, <1>10, <1>11

LEMMA Reranked_Facts ==
    ASSUME annIndex \in Indexes, NEW pool \in Nat, NEW cands, cands \subseteq VectorRows
    PROVE  /\ Reranked(pool, cands) \subseteq cands
           /\ ~annIndex.pooled => Reranked(pool, cands) = cands
           /\ annIndex.pooled => /\ Cardinality(Reranked(pool, cands)) <= pool
                                 /\ Cardinality(cands) <= pool => Reranked(pool, cands) = cands
                                 /\ Cardinality(cands) > pool
                                      => Cardinality(Reranked(pool, cands)) = pool
<1>1. annIndex.score \in Ranks
  BY Index_Facts
<1>2. annIndex.pooled => Reranked(pool, cands) = First(annIndex.score, pool, cands)
  BY DEF Reranked, First, Before
<1>3. ~annIndex.pooled => Reranked(pool, cands) = cands
  BY DEF Reranked
<1>4. /\ First(annIndex.score, pool, cands) \subseteq cands
      /\ Cardinality(cands) <= pool => First(annIndex.score, pool, cands) = cands
      /\ Cardinality(cands) > pool => Cardinality(First(annIndex.score, pool, cands)) = pool
  BY <1>1, First_Size
<1>5. Cardinality(cands) \in Nat
  BY Rows_Finite
<1> QED BY <1>2, <1>3, <1>4, <1>5

LEMMA Probes_Facts ==
    ASSUME annIndex \in Indexes, NEW f, NEW probes \in Nat, NEW pool \in Nat
    PROVE  LET n == ListsProbed(probes, pool, f)
           IN  /\ CandidatesOf(n, f) \subseteq Indexed(annIndex)
               /\ probes >= Len(annIndex.lists) => n = Len(annIndex.lists)
<1> DEFINE all == Len(annIndex.lists)
           asked == IF probes < all THEN probes ELSE all
           enough == {n \in asked .. all : \/ ~InlineFilter(f)
                                           \/ Cardinality(CandidatesOf(n, f)) >= pool
                                           \/ n = all}
           S == SUBSET Indexed(annIndex)
<1>1. annIndex.lists \in Seq(S)
  BY Index_Facts
<1>2. all \in Nat /\ \A i \in 1 .. all : annIndex.lists[i] \in S
  <2> HIDE DEF S
  <2> QED BY <1>1, LenProperties
<1>3. ListsProbed(probes, pool, f) = Min(enough)
  BY DEF ListsProbed
<1> HIDE DEF all
<1>4. asked \in Nat /\ asked <= all
  BY <1>2
<1> HIDE DEF asked
<1>5. all \in enough /\ enough \subseteq Nat /\ \A x \in enough : x <= all /\ asked <= x
  BY <1>2, <1>4
<1> HIDE DEF enough
<1>6. \E x \in enough : \A y \in enough : x <= y
  BY <1>5, Facts!Least_Exists
<1>7. Min(enough) \in enough
  BY <1>6 DEF Min
<1>8. CandidatesOf(Min(enough), f) \subseteq Indexed(annIndex)
  <2>1. \A m \in enough : 1 .. m \subseteq 1 .. all
    <3> SUFFICES ASSUME NEW m \in enough PROVE 1 .. m \subseteq 1 .. all
      OBVIOUS
    <3>1. m \in Nat /\ m <= all /\ all \in Nat
      BY <1>2, <1>5
    <3> QED BY <3>1
  <2> QED BY <1>2, <1>7, <2>1 DEF CandidatesOf
<1>9. ASSUME probes >= all PROVE Min(enough) = all
  <2>1. asked = all
    BY <1>2, <1>9 DEF asked
  <2>2. Min(enough) \in Nat /\ Min(enough) <= all /\ all <= Min(enough)
    BY <1>5, <1>7, <2>1
  <2> QED BY <1>2, <2>2
<1> QED BY <1>3, <1>8, <1>9 DEF all

-----------------------------------------------------------------------------
(* What every state of a scan keeps to.                                    *)

\* What the search for each number of candidates gives.
Traverses == [ef \in Nat |-> Traverse(ef)]

AnnTypes ==
    /\ annIndex \in Indexes
    /\ annPending \subseteq annIndex.pending \cup Arrivals
    /\ ann \in [filter : Filters, open : BOOLEAN, heap : SUBSET VectorRows,
                emitted : SUBSET VectorRows, beam : Beams \cup {NoBeam}, ef : Nat,
                probes : Nat, pool : Nat, last : Nat, owed : SUBSET VectorRows,
                exhausted : BOOLEAN]

\* What was returned had the recheck on exactly when the query filters.
Answered ==
    /\ \A t \in annReturned : t[2] = Filtering(ann.filter)
    /\ \A r \in ann.emitted : <<r, Filtering(ann.filter)>> \in annReturned

\* A scan that has stopped has nothing left; the rows pending when it began are in the
\* first batch.
Stopped ==
    /\ ann.exhausted => ann.heap = {} /\ ann.open
    /\ ann.open => ann.owed \ Reachable \subseteq ann.heap \cup ann.emitted
    /\ ann.open => ann.ef > 0 /\ (~Resumable => ann.beam = NoBeam)

\* Below the ceiling a scan has stopped.
Ended == ann.exhausted /\ Cardinality(ann.emitted) < MaxScanTuples

\* A search again has given all of the last search, and fewer rows than the next one asks.
Searching ==
    /\ ann.ef >= EfSearch
    /\ Traverses[ann.ef] \subseteq ann.heap \cup ann.emitted
    /\ ann.ef < MaxScanTuples
         => Cardinality((ann.heap \cup ann.emitted) \cap Reachable) < 2 * ann.ef
    /\ Ended => Reachable \subseteq ann.emitted

\* The last rerank gave at most its pool and what was pending.
Probing ==
    /\ ann.probes > 0 /\ ann.pool > 0
    /\ annIndex.pooled => ann.last <= ann.pool + Cardinality(annPending)
    /\ Ended => CandidatesOf(Len(annIndex.lists), ann.filter) \subseteq ann.emitted

ByKind ==
    ann.open => /\ annIndex.kind = "hnsw" /\ ~Resumable => Searching
                /\ annIndex.kind = "ivf" => Probing

AnnInv == AnnTypes /\ Answered /\ Stopped /\ ByKind

LEMMA Idle_Facts ==
    /\ Idle.filter \in Filters /\ ~Idle.open /\ Idle.heap = {} /\ Idle.emitted = {}
    /\ ~Idle.exhausted
    /\ Idle \in [filter : Filters, open : BOOLEAN, heap : SUBSET VectorRows,
                 emitted : SUBSET VectorRows, beam : Beams \cup {NoBeam}, ef : Nat,
                 probes : Nat, pool : Nat, last : Nat, owed : SUBSET VectorRows,
                 exhausted : BOOLEAN]
<1>1. (CHOOSE f \in Filters : TRUE) \in Filters
  BY AnnAssumption
<1> QED BY <1>1 DEF Idle

LEMMA Init_Inv == ASSUME AnnInit PROVE AnnInv
<1>1. ann = Idle /\ annReturned = {} /\ annIndex \in Indexes /\ annPending = annIndex.pending
  BY DEF AnnInit
<1>2. AnnTypes
  BY <1>1, Idle_Facts DEF AnnTypes
<1>3. Answered
  BY <1>1, Idle_Facts DEF Answered
<1>4. Stopped
  BY <1>1, Idle_Facts DEF Stopped
<1>5. ByKind
  BY <1>1, Idle_Facts DEF ByKind
<1> QED BY <1>2, <1>3, <1>4, <1>5 DEF AnnInv

\* The index of a scan never changes, and neither does what it reaches.
LEMMA Index_Kept ==
    ASSUME annIndex' = annIndex
    PROVE  Reachable' = Reachable /\ Traverses' = Traverses /\ Resumable' = Resumable
<1>1. Reachable' = Reachable
  BY SMTT(60) DEF Reachable, Reached, LedAlong, GreedyDescend, CloserOf, Closer, Comparable, Before,
         FoldLeft, MapThenFoldSet
<1>2. Traverses' = Traverses
  BY SMTT(60) DEF Traverses, Traverse, GroundSearch, EnterResult, Live, Kept, WorstOf, Round, Over,
         Expanded, Meet, Taken, NearestOf, GreedyDescend, CloserOf, Closer, Comparable, Before,
         FoldLeft, MapThenFoldSet
<1>3. Resumable' = Resumable
  BY DEF Resumable
<1> QED BY <1>1, <1>2, <1>3

-----------------------------------------------------------------------------
(* The first batch.                                                        *)

\* The beam that a resumed search continues with, and its rows.
LEMMA Resumed_Type ==
    ASSUME annIndex \in Indexes, NEW beam \in Beams
    PROVE  ResumableNext(beam) \in Beams /\ Found(ResumableNext(beam)) \subseteq VectorRows
<1>1. [beam EXCEPT !.result = {}] \in Beams
  BY DEF Beams
<1>2. EfSearch \in Nat
  BY AnnAssumption
<1>3. ResumableNext(beam) \in Beams
  BY <1>1, <1>2, GroundSearch_Type DEF ResumableNext
<1> QED BY <1>3 DEF Found, Beams

LEMMA Fresh_Type ==
    ASSUME annIndex \in Indexes PROVE ResumableInit \in Beams
<1>1. GreedyDescend(annIndex.entry) \in VectorRows
  BY Descend_In, Index_Facts
<1> QED BY <1>1 DEF ResumableInit, FreshBeam, Beams

\* What a probe gives: rows of the lists and the pending ones, no more than the pool and these.
LEMMA ScanIvf_Facts ==
    ASSUME AnnTypes, NEW f, NEW probes \in Nat, NEW pool \in Nat
    PROVE  LET all == ScanIvf(probes, pool, f, annPending)
           IN  /\ all \subseteq VectorRows /\ annPending \subseteq all
               /\ Cardinality(all) \in Nat /\ Cardinality(annPending) \in Nat
               /\ annIndex.pooled => Cardinality(all) <= pool + Cardinality(annPending)
               /\ probes >= Len(annIndex.lists)
                    => \/ CandidatesOf(Len(annIndex.lists), f) \subseteq all
                       \/ /\ annIndex.pooled
                          /\ Cardinality(all) = pool + Cardinality(annPending)
<1> DEFINE n == ListsProbed(probes, pool, f)
           cands == CandidatesOf(n, f)
           best == Reranked(pool, cands)
           all == ScanIvf(probes, pool, f, annPending)
<1>1. annIndex \in Indexes /\ annIndex.pooled \in BOOLEAN
  BY Index_Facts DEF AnnTypes
<1>2. cands \subseteq Indexed(annIndex) /\ (probes >= Len(annIndex.lists) => n = Len(annIndex.lists))
  BY <1>1, Probes_Facts
<1>3. all = best \cup annPending
  BY DEF ScanIvf
<1> HIDE DEF all, n
<1>4. cands \subseteq VectorRows
  BY <1>1, <1>2, Index_Facts
<1>5. /\ annPending \subseteq VectorRows /\ annPending \cap Indexed(annIndex) = {}
  BY <1>1, Pending_Apart DEF AnnTypes
<1>6. probes >= Len(annIndex.lists) => cands = CandidatesOf(Len(annIndex.lists), f)
  BY <1>2
<1> HIDE DEF cands
<1>7. /\ best \subseteq cands
      /\ ~annIndex.pooled => best = cands
      /\ annIndex.pooled => /\ Cardinality(best) <= pool
                            /\ Cardinality(cands) <= pool => best = cands
                            /\ Cardinality(cands) > pool => Cardinality(best) = pool
  BY <1>1, <1>4, Reranked_Facts
<1> HIDE DEF best
<1>8. /\ IsFiniteSet(best) /\ IsFiniteSet(annPending) /\ Cardinality(best) \in Nat
      /\ Cardinality(annPending) \in Nat /\ Cardinality(cands) \in Nat
  BY <1>4, <1>5, <1>7, Rows_Finite
<1>9. best \cap annPending = {}
  BY <1>2, <1>5, <1>7
<1>10. Cardinality(all) = Cardinality(best) + Cardinality(annPending)
  <2>1. Cardinality(best \cap annPending) = 0
    BY <1>9, FS_EmptySet
  <2> QED BY <1>3, <1>8, <2>1, FS_Union
<1>11. all \subseteq VectorRows /\ annPending \subseteq all
  BY <1>3, <1>4, <1>5, <1>7
<1>12. annIndex.pooled => Cardinality(all) <= pool + Cardinality(annPending)
  BY <1>7, <1>8, <1>10
<1>13. ASSUME probes >= Len(annIndex.lists)
       PROVE  \/ CandidatesOf(Len(annIndex.lists), f) \subseteq all
              \/ annIndex.pooled /\ Cardinality(all) = pool + Cardinality(annPending)
  <2>1. CASE best = cands
    BY <1>3, <1>6, <1>13, <2>1
  <2>2. CASE annIndex.pooled /\ Cardinality(cands) > pool
    BY <1>7, <1>10, <2>2
  <2> QED BY <1>1, <1>7, <1>8, <2>1, <2>2
<1> QED BY <1>8, <1>10, <1>11, <1>12, <1>13 DEF all

\* ... of a search: rows it can reach and the pending ones.
LEMMA GatherHnsw_Facts ==
    ASSUME AnnTypes, annIndex.kind = "hnsw", NEW ef \in Nat \ {0}
    PROVE  LET all == GatherHnsw(ef, annPending)
           IN  /\ all \subseteq VectorRows /\ annPending \subseteq all
               /\ Traverses[ef] \subseteq all
               /\ all \cap Reachable = Traverses[ef]
               /\ Traverses[ef] \subseteq Reachable
               /\ Cardinality(Traverses[ef]) = ef \/ Traverses[ef] = Reachable
               /\ Cardinality(Traverses[ef]) <= ef /\ Cardinality(Traverses[ef]) \in Nat
<1> DEFINE T == Traverse(ef)
<1>1. annIndex \in Indexes
  BY DEF AnnTypes
<1>2. /\ T \subseteq Reachable /\ (Cardinality(T) = ef \/ T = Reachable) /\ Cardinality(T) <= ef
  BY <1>1, Traverse_Facts
<1>3. Traverses[ef] = T
  BY DEF Traverses
<1>4. GatherHnsw(ef, annPending) = T \cup annPending
  BY DEF GatherHnsw
<1> HIDE DEF T
<1>5. annPending \subseteq VectorRows /\ annPending \cap Reachable = {}
  BY <1>1, Pending_Apart DEF AnnTypes
<1>6. Reachable \subseteq VectorRows
  BY <1>1, Reachable_In, Index_Facts
<1>7. Cardinality(T) \in Nat
  BY <1>2, <1>6, Rows_Finite
<1> QED BY <1>2, <1>3, <1>4, <1>5, <1>6, <1>7

LEMMA amrescan_Inv ==
    ASSUME AnnInv, NEW f \in Filters, amrescan(f) PROVE AnnInv'
<1> DEFINE beam == ResumableNext(ResumableInit)
           first == IF Resumable THEN Found(beam) \cup annPending
                    ELSE IF annIndex.kind = "hnsw" THEN GatherHnsw(EfSearch, annPending)
                    ELSE ScanIvf(FirstProbes, FirstPool, f, annPending)
           kept == IF Resumable THEN beam ELSE NoBeam
<1>1. AnnTypes /\ annIndex \in Indexes /\ annIndex.kind \in {"hnsw", "ivf"}
  BY Index_Facts DEF AnnInv, AnnTypes
<1>2. EfSearch \in Nat \ {0} /\ FirstProbes \in Nat \ {0} /\ FirstPool \in Nat \ {0}
  BY AnnAssumption
<1>3. beam \in Beams /\ Found(beam) \subseteq VectorRows
  BY <1>1, Resumed_Type, Fresh_Type
<1>4. ann' = [filter |-> f, open |-> TRUE, heap |-> first, emitted |-> {}, beam |-> kept,
              ef |-> EfSearch, probes |-> FirstProbes, pool |-> FirstPool,
              last |-> Cardinality(first), owed |-> Reachable \cup annPending,
              exhausted |-> FALSE]
      /\ annReturned' = {} /\ annIndex' = annIndex /\ annPending' = annPending
  BY DEF amrescan
<1> HIDE DEF beam
<1>5. annPending \subseteq VectorRows /\ Reachable \subseteq VectorRows
  BY <1>1, Pending_Apart, Reachable_In, Index_Facts DEF AnnTypes
<1>6. Resumable => annIndex.kind = "hnsw"
  BY DEF Resumable
<1>7. annIndex.kind = "hnsw" => LET all == GatherHnsw(EfSearch, annPending)
                               IN  /\ all \subseteq VectorRows /\ annPending \subseteq all
                                   /\ Traverses[EfSearch] \subseteq all
                                   /\ all \cap Reachable = Traverses[EfSearch]
                                   /\ Cardinality(Traverses[EfSearch]) <= EfSearch
                                   /\ Cardinality(Traverses[EfSearch]) \in Nat
  BY <1>1, <1>2, GatherHnsw_Facts
<1>8. LET all == ScanIvf(FirstProbes, FirstPool, f, annPending)
      IN  /\ all \subseteq VectorRows /\ annPending \subseteq all
          /\ Cardinality(all) \in Nat /\ Cardinality(annPending) \in Nat
          /\ annIndex.pooled => Cardinality(all) <= FirstPool + Cardinality(annPending)
  BY <1>1, <1>2, ScanIvf_Facts
<1>9. first \subseteq VectorRows /\ annPending \subseteq first
  BY <1>3, <1>5, <1>7, <1>8
<1>10. annIndex.kind = "hnsw" /\ ~Resumable => first = GatherHnsw(EfSearch, annPending)
  OBVIOUS
<1>11. annIndex.kind = "ivf" => first = ScanIvf(FirstProbes, FirstPool, f, annPending)
  BY <1>6
<1> HIDE DEF first
<1>12. Cardinality(first) \in Nat
  BY <1>9, Rows_Finite
<1>13. kept \in Beams \cup {NoBeam}
  BY <1>3
<1> HIDE DEF kept
<1>14. /\ Reachable' = Reachable /\ Traverses' = Traverses /\ Resumable' = Resumable
  BY <1>4, Index_Kept
<1>15. /\ ann'.filter = f /\ ann'.open = TRUE /\ ann'.heap = first /\ ann'.emitted = {}
       /\ ann'.beam = kept /\ ann'.ef = EfSearch /\ ann'.probes = FirstProbes
       /\ ann'.pool = FirstPool /\ ann'.last = Cardinality(first)
       /\ ann'.owed = Reachable \cup annPending /\ ann'.exhausted = FALSE
  BY <1>4
<1>16. AnnTypes'
  <2>1. ann' \in [filter : Filters, open : BOOLEAN, heap : SUBSET VectorRows,
                  emitted : SUBSET VectorRows, beam : Beams \cup {NoBeam}, ef : Nat,
                  probes : Nat, pool : Nat, last : Nat, owed : SUBSET VectorRows,
                  exhausted : BOOLEAN]
    BY <1>2, <1>4, <1>5, <1>9, <1>12, <1>13
  <2> QED BY <1>1, <1>4, <2>1 DEF AnnTypes
<1>17. Answered'
  BY <1>4, <1>15 DEF Answered
<1>18. Stopped'
  <2>1. ~Resumable => kept = NoBeam
    BY DEF kept
  <2>2. (Reachable \cup annPending) \ Reachable \subseteq first
    BY <1>9
  <2> QED BY <1>2, <1>14, <1>15, <2>1, <2>2 DEF Stopped
<1>19. ASSUME annIndex.kind = "hnsw", ~Resumable PROVE Searching'
  <2>1. Cardinality(first \cap Reachable) < 2 * EfSearch
    <3>1. first \cap Reachable = Traverses[EfSearch]
      BY <1>7, <1>10, <1>19
    <3>2. /\ Cardinality(Traverses[EfSearch]) <= EfSearch
          /\ Cardinality(Traverses[EfSearch]) \in Nat
      BY <1>7, <1>19
    <3>3. \A c \in Nat : c <= EfSearch => c < 2 * EfSearch
      BY <1>2
    <3> QED BY <3>1, <3>2, <3>3
  <2>2. Traverses[EfSearch] \subseteq first
    BY <1>7, <1>10, <1>19
  <2>3. first \cup {} = first
    OBVIOUS
  <2> QED BY <1>2, <1>14, <1>15, <2>1, <2>2, <2>3 DEF Searching, Ended
<1>20. ASSUME annIndex.kind = "ivf" PROVE Probing'
  <2>1. annIndex.pooled => Cardinality(first) <= FirstPool + Cardinality(annPending)
    BY <1>8, <1>11, <1>20
  <2> QED BY <1>2, <1>4, <1>15, <2>1 DEF Probing, Ended
<1>21. ByKind'
  BY <1>4, <1>14, <1>19, <1>20 DEF ByKind
<1> QED BY <1>16, <1>17, <1>18, <1>21 DEF AnnInv

-----------------------------------------------------------------------------
(* The rows returned, and the batches that follow.                         *)

LEMMA PopCandidate_Inv == ASSUME AnnInv, PopCandidate PROVE AnnInv'
<1> DEFINE r == Min(ann.heap)
<1>1. AnnTypes /\ annIndex \in Indexes /\ ann.open /\ ann.heap # {}
  BY DEF AnnInv, AnnTypes, PopCandidate
<1>2. ann.heap \subseteq VectorRows /\ ann.heap \subseteq Nat
  BY <1>1, Rows_Numbers DEF AnnTypes
<1>3. r \in ann.heap
  BY <1>1, <1>2, Facts!Least_Exists DEF Min
<1>4. /\ ann' = [ann EXCEPT !.heap = @ \ {r}, !.emitted = @ \cup {r}]
      /\ annReturned' = IF r \in ann.emitted THEN annReturned
                        ELSE annReturned \cup {<<r, Filtering(ann.filter)>>}
      /\ annIndex' = annIndex /\ annPending' = annPending
  BY DEF PopCandidate
<1> HIDE DEF r
<1>5. /\ ann'.filter = ann.filter /\ ann'.open = ann.open /\ ann'.heap = ann.heap \ {r}
      /\ ann'.emitted = ann.emitted \cup {r} /\ ann'.beam = ann.beam /\ ann'.ef = ann.ef
      /\ ann'.probes = ann.probes /\ ann'.pool = ann.pool /\ ann'.last = ann.last
      /\ ann'.owed = ann.owed /\ ann'.exhausted = ann.exhausted
  BY <1>1, <1>4 DEF AnnTypes
<1>6. Reachable' = Reachable /\ Traverses' = Traverses /\ Resumable' = Resumable
  BY <1>4, Index_Kept
<1>7. ~ann.exhausted
  BY <1>1 DEF AnnInv, Stopped
<1>8. ann'.heap \cup ann'.emitted = ann.heap \cup ann.emitted
  BY <1>3, <1>5
<1>9. AnnTypes'
  <2>1. r \in VectorRows
    BY <1>2, <1>3
  <2>2. ann.heap \ {r} \in SUBSET VectorRows /\ ann.emitted \cup {r} \in SUBSET VectorRows
    BY <1>1, <2>1 DEF AnnTypes
  <2> QED BY <1>1, <1>4, <2>2 DEF AnnTypes
<1>10. Answered'
  <2>1. Answered
    BY DEF AnnInv
  <2> QED BY <1>4, <1>5, <2>1 DEF Answered, Filtering
<1>11. Stopped'
  BY <1>5, <1>6, <1>7, <1>8 DEF AnnInv, Stopped
<1>12. ByKind'
  <2>1. annIndex.kind = "hnsw" /\ ~Resumable => Searching
    BY <1>1 DEF AnnInv, ByKind
  <2>2. annIndex.kind = "ivf" => Probing
    BY <1>1 DEF AnnInv, ByKind
  <2>3. annIndex.kind = "hnsw" /\ ~Resumable => Searching'
    BY <1>5, <1>6, <1>7, <1>8, <2>1 DEF Searching, Ended
  <2>4. annIndex.kind = "ivf" => Probing'
    BY <1>4, <1>5, <1>7, <2>2 DEF Probing, Ended
  <2> QED BY <1>4, <1>6, <2>3, <2>4 DEF ByKind
<1> QED BY <1>9, <1>10, <1>11, <1>12 DEF AnnInv

\* What a batch that follows leaves of a scan.
LEMMA MayGrow_Facts ==
    ASSUME AnnInv, MayGrow
    PROVE  /\ AnnTypes /\ annIndex \in Indexes /\ ann.open /\ ann.heap = {} /\ ~ann.exhausted
           /\ Cardinality(ann.emitted) < MaxScanTuples /\ Cardinality(ann.emitted) \in Nat
           /\ MaxScanTuples \in Nat /\ ann.emitted \subseteq VectorRows
           /\ ann.owed \ Reachable \subseteq ann.emitted /\ ann.ef > 0
           /\ ~Resumable => ann.beam = NoBeam
           /\ annIndex.kind = "hnsw" /\ ~Resumable => Searching
           /\ annIndex.kind = "ivf" => Probing
<1>1. ann.emitted \subseteq VectorRows
  BY DEF AnnInv, AnnTypes
<1>2. Cardinality(ann.emitted) \in Nat
  BY <1>1, Rows_Finite
<1> QED BY <1>1, <1>2, AnnAssumption DEF AnnInv, AnnTypes, MayGrow, Stopped, ByKind

LEMMA GrowResumed_Inv == ASSUME AnnInv, GrowResumed PROVE AnnInv'
<1> DEFINE beam == ResumableNext(ann.beam)
           fresh == Found(beam) \ ann.emitted
<1>1. /\ AnnTypes /\ annIndex \in Indexes /\ ann.open /\ ann.heap = {} /\ ~ann.exhausted
      /\ ann.owed \ Reachable \subseteq ann.emitted /\ ann.ef > 0
      /\ ~Resumable => ann.beam = NoBeam
  BY MayGrow_Facts DEF GrowResumed
<1>2. ann.beam # NoBeam /\ ann.beam \in Beams /\ Resumable
  BY <1>1 DEF GrowResumed, AnnTypes
<1>3. beam \in Beams /\ Found(beam) \subseteq VectorRows
  BY <1>1, <1>2, Resumed_Type
<1>4. /\ ann' = IF fresh = {} /\ beam.frontier = {}
                THEN [ann EXCEPT !.beam = beam, !.heap = fresh, !.exhausted = TRUE]
                ELSE [ann EXCEPT !.beam = beam, !.heap = fresh]
      /\ annReturned' = annReturned /\ annIndex' = annIndex /\ annPending' = annPending
  BY <1>1 DEF GrowResumed, Exhaust, AnnTypes
<1> HIDE DEF beam
<1>5. fresh \subseteq VectorRows
  BY <1>3
<1> HIDE DEF fresh
<1>6. /\ ann'.filter = ann.filter /\ ann'.open = ann.open /\ ann'.heap = fresh
      /\ ann'.emitted = ann.emitted /\ ann'.owed = ann.owed /\ ann'.ef = ann.ef
      /\ ann'.exhausted = (fresh = {} /\ beam.frontier = {})
  BY <1>1, <1>4 DEF AnnTypes
<1>7. Reachable' = Reachable /\ Resumable' = Resumable
  BY <1>4, Index_Kept
<1>8. AnnTypes'
  <2>1. fresh \in SUBSET VectorRows /\ beam \in Beams \cup {NoBeam}
    BY <1>3, <1>5
  <2> QED BY <1>1, <1>4, <2>1 DEF AnnTypes
<1>9. Answered'
  <2>1. Answered
    BY DEF AnnInv
  <2> QED BY <1>4, <1>6, <2>1 DEF Answered, Filtering
<1>10. Stopped'
  BY <1>1, <1>2, <1>6, <1>7 DEF Stopped
<1>11. ByKind'
  BY <1>2, <1>4, <1>7 DEF ByKind, Resumable
<1> QED BY <1>8, <1>9, <1>10, <1>11 DEF AnnInv

\* What the next batch adds to a search: fewer rows than twice the candidates asked for.
LEMMA Union_Size ==
    ASSUME NEW a, NEW b, a \subseteq VectorRows, b \subseteq VectorRows
    PROVE  /\ Cardinality(a) \in Nat /\ Cardinality(b) \in Nat /\ Cardinality(a \cup b) \in Nat
           /\ Cardinality(a \cup b) <= Cardinality(a) + Cardinality(b)
<1>1. IsFiniteSet(a) /\ IsFiniteSet(b) /\ a \cup b \subseteq VectorRows
      /\ a \cap b \subseteq VectorRows
  BY Rows_Finite
<1>2. /\ Cardinality(a) \in Nat /\ Cardinality(b) \in Nat /\ Cardinality(a \cup b) \in Nat
      /\ Cardinality(a \cap b) \in Nat
  BY <1>1, Rows_Finite
<1>3. Cardinality(a \cup b) = Cardinality(a) + Cardinality(b) - Cardinality(a \cap b)
  BY <1>1, FS_Union
<1> QED BY <1>2, <1>3

LEMMA GrowHnsw_Inv == ASSUME AnnInv, GrowHnsw PROVE AnnInv'
<1> DEFINE wide == WiderEf
           all == GatherHnsw(wide, annPending)
           fresh == all \ ann.emitted
<1>1. /\ AnnTypes /\ annIndex \in Indexes /\ ann.open /\ ann.heap = {} /\ ~ann.exhausted
      /\ ann.owed \ Reachable \subseteq ann.emitted /\ ann.emitted \subseteq VectorRows
      /\ ann.ef > 0
      /\ ~Resumable => ann.beam = NoBeam
      /\ annIndex.kind = "hnsw" /\ ~Resumable => Searching
      /\ Cardinality(ann.emitted) < MaxScanTuples /\ Cardinality(ann.emitted) \in Nat
      /\ MaxScanTuples \in Nat
  BY MayGrow_Facts DEF GrowHnsw
<1>2. /\ annIndex.kind = "hnsw" /\ ann.ef \in Nat
      /\ ann' = IF wide <= ann.ef THEN [ann EXCEPT !.exhausted = TRUE]
                ELSE IF fresh = {} THEN [ann EXCEPT !.ef = wide, !.exhausted = TRUE]
                ELSE [ann EXCEPT !.ef = wide, !.heap = fresh]
      /\ annReturned' = annReturned /\ annIndex' = annIndex /\ annPending' = annPending
  BY <1>1 DEF GrowHnsw, Exhaust, AnnTypes
<1>3. wide = IF 2 * ann.ef < MaxScanTuples THEN 2 * ann.ef ELSE MaxScanTuples
  BY DEF WiderEf
<1> HIDE DEF wide
<1>4. wide \in Nat \ {0}
  <2>1. MaxScanTuples > 0
    BY <1>1
  <2> QED BY <1>1, <1>2, <1>3, <2>1
<1>5. /\ all \subseteq VectorRows /\ annPending \subseteq all
      /\ Traverses[wide] \subseteq all
      /\ all \cap Reachable = Traverses[wide]
      /\ Traverses[wide] \subseteq Reachable
      /\ Cardinality(Traverses[wide]) = wide \/ Traverses[wide] = Reachable
      /\ Cardinality(Traverses[wide]) <= wide /\ Cardinality(Traverses[wide]) \in Nat
  BY <1>1, <1>2, <1>4, GatherHnsw_Facts
<1> HIDE DEF all
<1>6. fresh \subseteq VectorRows
  BY <1>5
<1>7. Reachable' = Reachable /\ Traverses' = Traverses /\ Resumable' = Resumable
  BY <1>2, Index_Kept
<1>8. /\ ann'.filter = ann.filter /\ ann'.open = ann.open /\ ann'.emitted = ann.emitted
      /\ ann'.beam = ann.beam /\ ann'.owed = ann.owed
      /\ ann'.exhausted = (wide <= ann.ef \/ fresh = {})
      /\ ann'.ef = (IF wide <= ann.ef THEN ann.ef ELSE wide)
      /\ ann'.heap = (IF wide <= ann.ef \/ fresh = {} THEN {} ELSE fresh)
  BY <1>1, <1>2 DEF AnnTypes
<1>9. AnnTypes'
  <2>1. fresh \in SUBSET VectorRows /\ wide \in Nat
    BY <1>4, <1>6
  <2> HIDE DEF fresh
  <2> QED BY <1>1, <1>2, <2>1 DEF AnnTypes
<1>10. Answered'
  <2>1. Answered
    BY DEF AnnInv
  <2> QED BY <1>2, <1>8, <2>1 DEF Answered, Filtering
<1>11. Stopped'
  <2>1. ann'.ef > 0
    BY <1>1, <1>4, <1>8
  <2>2. ann'.exhausted => ann'.heap = {}
    BY <1>8
  <2> QED BY <1>1, <1>7, <1>8, <2>1, <2>2 DEF Stopped
<1>12. ASSUME ~Resumable PROVE Searching'
  <2>1. /\ ann.ef > 0 /\ ann.ef >= EfSearch
        /\ Traverses[ann.ef] \subseteq ann.emitted
        /\ ann.ef < MaxScanTuples => Cardinality(ann.emitted \cap Reachable) < 2 * ann.ef
    <3>1. Searching
      BY <1>1, <1>2, <1>12
    <3>2. {} \cup ann.emitted = ann.emitted
      OBVIOUS
    <3> QED BY <1>1, <3>1, <3>2 DEF Searching
  <2>2. EfSearch \in Nat
    BY AnnAssumption
  <2>3. Traverses[ann.ef] \subseteq Reachable
        /\ (Cardinality(Traverses[ann.ef]) = ann.ef \/ Traverses[ann.ef] = Reachable)
    BY <1>1, <1>2, <2>1, GatherHnsw_Facts
  <2>4. CASE wide <= ann.ef
    <3>1. MaxScanTuples <= ann.ef
      BY <1>1, <1>2, <1>3, <2>1, <2>4
    <3>2. Traverses[ann.ef] = Reachable
      <4>1. Cardinality(Traverses[ann.ef]) <= Cardinality(ann.emitted)
        BY <1>1, <2>1, Rows_Finite, FS_Subset
      <4>2. Cardinality(Traverses[ann.ef]) \in Nat
        BY <1>1, <1>2, <2>1, GatherHnsw_Facts
      <4>3. Cardinality(Traverses[ann.ef]) # ann.ef
        BY <1>1, <1>2, <3>1, <4>1, <4>2
      <4> QED BY <2>3, <4>3
    <3>3. Reachable \subseteq ann.emitted
      BY <2>1, <3>2
    <3>4. ann'.ef = ann.ef /\ ann'.heap \cup ann'.emitted = ann.emitted
      BY <1>8, <2>4
    <3> QED BY <1>7, <1>8, <2>1, <3>3, <3>4 DEF Searching, Ended
  <2>5. CASE ~(wide <= ann.ef)
    <3>1. wide > ann.ef /\ ann'.ef = wide
      BY <1>2, <1>4, <1>8, <2>5
    <3>2. ann'.heap \cup ann'.emitted = ann.emitted \cup all
      BY <1>8, <2>5
    <3>3. Traverses[wide] \subseteq ann'.heap \cup ann'.emitted
      BY <1>5, <3>2
    <3>4. ASSUME wide < MaxScanTuples
          PROVE  Cardinality((ann.emitted \cup all) \cap Reachable) < 2 * wide
      <4>1. wide = 2 * ann.ef
        BY <1>3, <3>4
      <4>2. ann.ef < MaxScanTuples
        BY <1>1, <1>2, <1>4, <3>1, <3>4
      <4> DEFINE old == ann.emitted \cap Reachable
                 new == Traverses[wide]
      <4>3. (ann.emitted \cup all) \cap Reachable = old \cup new
        BY <1>5
      <4>4. old \subseteq VectorRows /\ new \subseteq VectorRows
        BY <1>1, <1>5
      <4>5. Cardinality(old) < 2 * ann.ef /\ Cardinality(new) <= wide
        BY <1>5, <2>1, <4>2
      <4> HIDE DEF old, new
      <4>6. /\ Cardinality(old) \in Nat /\ Cardinality(new) \in Nat
            /\ Cardinality(old \cup new) \in Nat
            /\ Cardinality(old \cup new) <= Cardinality(old) + Cardinality(new)
        BY <4>4, Union_Size
      <4>7. \A a, c, d \in Nat : d <= a + c /\ a < wide /\ c <= wide => d < 2 * wide
        BY <1>4
      <4>8. Cardinality(old) < wide
        BY <4>1, <4>5
      <4> QED BY <4>3, <4>5, <4>6, <4>7, <4>8
    <3>5. ASSUME fresh = {} PROVE Reachable \subseteq ann.emitted
      <4>1. Traverses[wide] \subseteq ann.emitted
        BY <1>5, <3>5
      <4>2. Cardinality(Traverses[wide]) # wide
        <5>1. CASE 2 * ann.ef < MaxScanTuples
          <6>1. wide = 2 * ann.ef /\ ann.ef < MaxScanTuples
            BY <1>1, <1>2, <1>3, <5>1
          <6> DEFINE old == ann.emitted \cap Reachable
          <6>2. Cardinality(old) < 2 * ann.ef
            BY <2>1, <6>1
          <6>3. Traverses[wide] \subseteq old /\ old \subseteq VectorRows
            BY <1>1, <1>5, <4>1
          <6> HIDE DEF old
          <6>4. IsFiniteSet(old) /\ Cardinality(old) \in Nat
            BY <6>3, Rows_Finite
          <6>5. Cardinality(Traverses[wide]) <= Cardinality(old)
            BY <6>3, <6>4, FS_Subset
          <6> QED BY <1>2, <1>5, <6>1, <6>2, <6>4, <6>5
        <5>2. CASE ~(2 * ann.ef < MaxScanTuples)
          <6>1. wide = MaxScanTuples
            BY <1>3, <5>2
          <6>2. Cardinality(Traverses[wide]) <= Cardinality(ann.emitted)
            BY <1>1, <4>1, Rows_Finite, FS_Subset
          <6> QED BY <1>1, <1>5, <6>1, <6>2
        <5> QED BY <5>1, <5>2
      <4> QED BY <1>5, <4>1, <4>2
    <3>6. Ended' => Reachable \subseteq ann.emitted
      BY <1>8, <3>5, <2>5 DEF Ended
    <3>7. ann'.ef > 0 /\ ann'.ef >= EfSearch
      BY <1>2, <1>4, <2>1, <2>2, <3>1
    <3> QED BY <1>7, <1>8, <3>1, <3>2, <3>3, <3>4, <3>6, <3>7 DEF Searching
  <2> QED BY <2>4, <2>5
<1>13. ByKind'
  BY <1>2, <1>7, <1>12 DEF ByKind
<1> QED BY <1>9, <1>10, <1>11, <1>13 DEF AnnInv

LEMMA GrowIvf_Inv == ASSUME AnnInv, GrowIvf PROVE AnnInv'
<1> DEFINE twice == [ann EXCEPT !.probes = 2 * @, !.pool = 2 * @]
           all == ScanIvf(twice.probes, twice.pool, ann.filter, annPending)
           fresh == all \ ann.emitted
           done == Saturated(twice, Cardinality(all))
<1>1. /\ AnnTypes /\ annIndex \in Indexes /\ ann.open /\ ann.heap = {} /\ ~ann.exhausted
      /\ ann.owed \ Reachable \subseteq ann.emitted /\ ann.emitted \subseteq VectorRows
      /\ ann.ef > 0 /\ (~Resumable => ann.beam = NoBeam)
      /\ annIndex.kind = "ivf" /\ Probing
  BY MayGrow_Facts DEF GrowIvf
<1>2. /\ ann' = IF fresh # {} THEN [twice EXCEPT !.heap = fresh]
                ELSE IF done THEN [twice EXCEPT !.exhausted = TRUE]
                ELSE [twice EXCEPT !.last = Cardinality(all)]
      /\ annReturned' = annReturned /\ annIndex' = annIndex /\ annPending' = annPending
  BY DEF GrowIvf, Exhaust
<1>3. ann.probes \in Nat /\ ann.pool \in Nat /\ ann.last \in Nat /\ ann.probes > 0 /\ ann.pool > 0
  BY <1>1 DEF AnnTypes, Probing
<1>4. twice = [ann EXCEPT !.probes = 2 * ann.probes, !.pool = 2 * ann.pool]
      /\ twice.probes = 2 * ann.probes /\ twice.pool = 2 * ann.pool /\ twice.last = ann.last
  BY <1>1 DEF AnnTypes
<1>5. done <=> 2 * ann.probes >= Len(annIndex.lists) /\ Cardinality(all) <= ann.last
  BY <1>4 DEF Saturated
<1>6. /\ all \subseteq VectorRows /\ annPending \subseteq all
      /\ Cardinality(all) \in Nat /\ Cardinality(annPending) \in Nat
      /\ annIndex.pooled => Cardinality(all) <= 2 * ann.pool + Cardinality(annPending)
      /\ 2 * ann.probes >= Len(annIndex.lists)
           => \/ CandidatesOf(Len(annIndex.lists), ann.filter) \subseteq all
              \/ annIndex.pooled /\ Cardinality(all) = 2 * ann.pool + Cardinality(annPending)
  <2> DEFINE P == 2 * ann.probes
             Q == 2 * ann.pool
             rows == ScanIvf(P, Q, ann.filter, annPending)
  <2>1. P \in Nat /\ Q \in Nat
    BY <1>3
  <2>2. all = rows
    BY <1>4
  <2> HIDE DEF all, P, Q
  <2>3. /\ rows \subseteq VectorRows /\ annPending \subseteq rows
        /\ Cardinality(rows) \in Nat /\ Cardinality(annPending) \in Nat
        /\ annIndex.pooled => Cardinality(rows) <= Q + Cardinality(annPending)
        /\ P >= Len(annIndex.lists)
             => \/ CandidatesOf(Len(annIndex.lists), ann.filter) \subseteq rows
                \/ annIndex.pooled /\ Cardinality(rows) = Q + Cardinality(annPending)
    BY <1>1, <2>1, ScanIvf_Facts
  <2> HIDE DEF rows
  <2> QED BY <2>2, <2>3 DEF P, Q
<1> HIDE DEF done
<1>7. /\ ann'.filter = ann.filter /\ ann'.open = ann.open /\ ann'.emitted = ann.emitted
      /\ ann'.beam = ann.beam /\ ann'.owed = ann.owed /\ ann'.ef = ann.ef
      /\ ann'.probes = 2 * ann.probes /\ ann'.pool = 2 * ann.pool
      /\ ann'.heap = fresh
      /\ ann'.exhausted = (fresh = {} /\ done)
      /\ ann'.last = (IF fresh = {} /\ ~done THEN Cardinality(all) ELSE ann.last)
  <2> HIDE DEF fresh, all
  <2>1. CASE fresh # {}
    BY <1>1, <1>2, <1>4, <2>1 DEF AnnTypes
  <2>2. CASE fresh = {} /\ done
    BY <1>1, <1>2, <1>4, <2>2 DEF AnnTypes
  <2>3. CASE fresh = {} /\ ~done
    BY <1>1, <1>2, <1>4, <2>3 DEF AnnTypes
  <2> QED BY <2>1, <2>2, <2>3
<1> HIDE DEF all
<1>8. fresh \in SUBSET VectorRows
  BY <1>6
<1>9. Reachable' = Reachable /\ Resumable' = Resumable
  BY <1>2, Index_Kept
<1>10. AnnTypes'
  <2>1. 2 * ann.probes \in Nat /\ 2 * ann.pool \in Nat
    BY <1>3
  <2> HIDE DEF fresh, twice
  <2>2. twice \in [filter : Filters, open : BOOLEAN, heap : SUBSET VectorRows,
                   emitted : SUBSET VectorRows, beam : Beams \cup {NoBeam}, ef : Nat,
                   probes : Nat, pool : Nat, last : Nat, owed : SUBSET VectorRows,
                   exhausted : BOOLEAN]
    BY <1>1, <1>4, <2>1 DEF AnnTypes
  <2> QED BY <1>1, <1>2, <1>6, <1>8, <2>2 DEF AnnTypes
<1>11. Answered'
  <2>1. Answered
    BY DEF AnnInv
  <2> QED BY <1>2, <1>7, <2>1 DEF Answered, Filtering
<1>12. Stopped'
  BY <1>1, <1>7, <1>9 DEF Stopped
<1>13. Probing'
  <2>1. annIndex.pooled => ann.last <= ann.pool + Cardinality(annPending)
    BY <1>1 DEF Probing
  <2>2. ann'.probes > 0 /\ ann'.pool > 0
    BY <1>3, <1>7
  <2>3. annIndex.pooled => ann'.last <= 2 * ann.pool + Cardinality(annPending)
    BY <1>3, <1>6, <1>7, <2>1
  <2>4. ASSUME ann'.exhausted
        PROVE  CandidatesOf(Len(annIndex.lists), ann.filter) \subseteq ann.emitted
    <3>1. fresh = {} /\ done
      BY <1>7, <2>4
    <3>2. all \subseteq ann.emitted
      BY <3>1
    <3>3. 2 * ann.probes >= Len(annIndex.lists) /\ Cardinality(all) <= ann.last
      BY <1>5, <3>1
    <3>4. ~(annIndex.pooled /\ Cardinality(all) = 2 * ann.pool + Cardinality(annPending))
      BY <1>3, <1>6, <2>1, <3>3
    <3> QED BY <1>6, <3>2, <3>3, <3>4
  <2>5. CandidatesOf(Len(annIndex.lists), ann.filter)'
          = CandidatesOf(Len(annIndex.lists), ann.filter)
    BY <1>2, <1>7 DEF CandidatesOf, Skipped, StoredLabels
  <2> QED BY <1>2, <1>7, <2>2, <2>3, <2>4, <2>5 DEF Probing, Ended
<1>14. ByKind'
  BY <1>1, <1>2, <1>13 DEF ByKind
<1> QED BY <1>10, <1>11, <1>12, <1>14 DEF AnnInv

\* A scan at its ceiling, or without growth.
LEMMA StopAtCap_Inv == ASSUME AnnInv, StopAtCap PROVE AnnInv'
<1>1. AnnTypes /\ ann.open /\ ann.heap = {} /\ ann.emitted \subseteq VectorRows
  BY DEF AnnInv, AnnTypes, StopAtCap
<1>2. /\ ann' = [ann EXCEPT !.exhausted = TRUE]
      /\ annReturned' = annReturned /\ annIndex' = annIndex /\ annPending' = annPending
  BY DEF StopAtCap, Exhaust
<1>3. /\ ann'.filter = ann.filter /\ ann'.open = ann.open /\ ann'.emitted = ann.emitted
      /\ ann'.heap = ann.heap /\ ann'.beam = ann.beam /\ ann'.owed = ann.owed
      /\ ann'.ef = ann.ef /\ ann'.probes = ann.probes /\ ann'.pool = ann.pool
      /\ ann'.last = ann.last /\ ann'.exhausted = TRUE
  BY <1>1, <1>2 DEF AnnTypes
<1>4. Reachable' = Reachable /\ Traverses' = Traverses /\ Resumable' = Resumable
  BY <1>2, Index_Kept
<1>5. ~Ended'
  <2>1. MaxScanTuples = 0 \/ Cardinality(ann.emitted) >= MaxScanTuples
    BY DEF StopAtCap
  <2>2. Cardinality(ann.emitted) \in Nat /\ MaxScanTuples \in Nat
    BY <1>1, Rows_Finite, AnnAssumption
  <2> QED BY <1>3, <2>1, <2>2 DEF Ended
<1>6. AnnTypes'
  BY <1>1, <1>2 DEF AnnTypes
<1>7. Answered'
  <2>1. Answered
    BY DEF AnnInv
  <2> QED BY <1>2, <1>3, <2>1 DEF Answered, Filtering
<1>8. Stopped'
  <2>1. Stopped
    BY DEF AnnInv
  <2> QED BY <1>1, <1>3, <1>4, <2>1 DEF Stopped
<1>9. ByKind'
  <2>1. annIndex.kind = "hnsw" /\ ~Resumable => Searching
    BY <1>1 DEF AnnInv, ByKind
  <2>2. annIndex.kind = "ivf" => Probing
    BY <1>1 DEF AnnInv, ByKind
  <2>3. annIndex.kind = "hnsw" /\ ~Resumable => Searching'
    BY <1>3, <1>4, <1>5, <2>1 DEF Searching
  <2>4. annIndex.kind = "ivf" => Probing'
    BY <1>2, <1>3, <1>5, <2>2 DEF Probing
  <2> QED BY <1>2, <1>4, <2>3, <2>4 DEF ByKind
<1> QED BY <1>6, <1>7, <1>8, <1>9 DEF AnnInv

LEMMA amendscan_Inv == ASSUME AnnInv, amendscan PROVE AnnInv'
<1>1. ann' = Idle /\ annReturned' = {} /\ annIndex' = annIndex /\ annPending' = annPending
  BY DEF amendscan
<1>2. AnnTypes'
  BY <1>1, Idle_Facts DEF AnnInv, AnnTypes
<1>3. Answered'
  BY <1>1, Idle_Facts DEF Answered
<1>4. Stopped'
  BY <1>1, Idle_Facts DEF Stopped
<1>5. ByKind'
  BY <1>1, Idle_Facts DEF ByKind
<1> QED BY <1>2, <1>3, <1>4, <1>5 DEF AnnInv

LEMMA InsertPending_Inv == ASSUME AnnInv, InsertPending PROVE AnnInv'
<1>1. PICK r \in Arrivals \ annPending :
        /\ annPending' = annPending \cup {r}
        /\ ann' = ann /\ annReturned' = annReturned /\ annIndex' = annIndex
  BY DEF InsertPending
<1>2. AnnTypes /\ annIndex \in Indexes /\ annPending \subseteq annIndex.pending \cup Arrivals
  BY DEF AnnInv, AnnTypes
<1>3. Reachable' = Reachable /\ Traverses' = Traverses /\ Resumable' = Resumable
  BY <1>1, Index_Kept
<1>4. AnnTypes'
  BY <1>1, <1>2 DEF AnnTypes
<1>5. Answered'
  BY <1>1 DEF AnnInv, Answered, Filtering
<1>6. Stopped'
  BY <1>1, <1>3 DEF AnnInv, Stopped
<1>7. Cardinality(annPending) <= Cardinality(annPending') /\ Cardinality(annPending) \in Nat
      /\ Cardinality(annPending') \in Nat
  <2>1. annPending' \subseteq VectorRows /\ annPending \subseteq annPending'
    BY <1>1, <1>2, Pending_Apart, AnnAssumption
  <2>2. IsFiniteSet(annPending')
    BY <2>1, Rows_Finite
  <2> QED BY <2>1, <2>2, FS_Subset, FS_CardinalityType
<1>8. ByKind'
  <2>1. Searching => Searching'
    BY <1>1, <1>3 DEF Searching, Ended
  <2>2. Probing => Probing'
    <3> SUFFICES ASSUME Probing PROVE Probing'
      OBVIOUS
    <3>1. ann.last \in Nat /\ ann.pool \in Nat
      BY <1>2 DEF AnnTypes
    <3>2. annIndex.pooled => ann.last <= ann.pool + Cardinality(annPending')
      BY <1>7, <3>1 DEF Probing
    <3>3. CandidatesOf(Len(annIndex.lists), ann.filter)'
            = CandidatesOf(Len(annIndex.lists), ann.filter)
      BY <1>1 DEF CandidatesOf, Skipped, StoredLabels
    <3> QED BY <1>1, <3>2, <3>3 DEF Probing, Ended
  <2> QED BY <1>1, <1>3, <2>1, <2>2 DEF AnnInv, ByKind
<1> QED BY <1>4, <1>5, <1>6, <1>8 DEF AnnInv

LEMMA Stutter_Inv == ASSUME AnnInv, UNCHANGED annVars PROVE AnnInv'
<1>1. ann' = ann /\ annReturned' = annReturned /\ annIndex' = annIndex /\ annPending' = annPending
  BY DEF annVars
<1>2. Reachable' = Reachable /\ Traverses' = Traverses /\ Resumable' = Resumable
  BY <1>1, Index_Kept
<1>3. CandidatesOf(Len(annIndex.lists), ann.filter)'
        = CandidatesOf(Len(annIndex.lists), ann.filter)
  BY <1>1 DEF CandidatesOf, Skipped, StoredLabels
<1>4. AnnTypes' /\ Answered' /\ Stopped'
  BY <1>1, <1>2 DEF AnnInv, AnnTypes, Answered, Stopped, Filtering
<1>5. (Searching => Searching') /\ (Probing => Probing')
  BY <1>1, <1>2, <1>3 DEF Searching, Probing, Ended
<1> QED BY <1>1, <1>2, <1>4, <1>5 DEF AnnInv, ByKind

-----------------------------------------------------------------------------
(* The theorems.                                                           *)

\* Every state of a scan keeps to the invariant: the batches so far, the widths asked for,
\* the rows returned and what is still owed fit each other (amrescan, amgettuple).
THEOREM ScansKeepInvariant == AnnSpec => []AnnInv
<1>1. AnnInit => AnnInv
  BY Init_Inv
<1>2. AnnInv /\ [AnnNext]_annVars => AnnInv'
  <2> SUFFICES ASSUME AnnInv, [AnnNext]_annVars PROVE AnnInv'
    OBVIOUS
  <2>1. ASSUME NEW f \in Filters, amrescan(f) PROVE AnnInv'
    BY <2>1, amrescan_Inv
  <2>2. CASE PopCandidate
    BY <2>2, PopCandidate_Inv
  <2>3. CASE GrowResumed
    BY <2>3, GrowResumed_Inv
  <2>4. CASE GrowHnsw
    BY <2>4, GrowHnsw_Inv
  <2>5. CASE GrowIvf
    BY <2>5, GrowIvf_Inv
  <2>6. CASE StopAtCap
    BY <2>6, StopAtCap_Inv
  <2>7. CASE amendscan
    BY <2>7, amendscan_Inv
  <2>8. CASE InsertPending
    BY <2>8, InsertPending_Inv
  <2>9. CASE UNCHANGED annVars
    BY <2>9, Stutter_Inv
  <2> QED BY <2>1, <2>2, <2>3, <2>4, <2>5, <2>6, <2>7, <2>8, <2>9 DEF AnnNext
<1> QED BY <1>1, <1>2, PTL DEF AnnSpec

\* The first batch of a search for ef candidates has ef live rows, or all there are, whatever
\* the graph, the tombstones and the codes: a tombstone takes no place (scan_core.rs:130-132).
THEOREM BatchesFill == AnnSpec => []FirstBatchFills
<1>1. AnnInv => FirstBatchFills
  <2> SUFFICES ASSUME AnnInv, ann.open, annIndex.kind = "hnsw", ~Resumable, ann.ef = EfSearch,
                      ann.emitted = {}
               PROVE  Cardinality(ann.heap \cap Reachable)
                        >= (IF Cardinality(Reachable) < EfSearch THEN Cardinality(Reachable)
                            ELSE EfSearch)
    BY DEF FirstBatchFills
  <2> DEFINE T == Traverses[EfSearch]
             N == ann.heap \cap Reachable
  <2>1. AnnTypes /\ annIndex \in Indexes /\ EfSearch \in Nat \ {0}
    BY AnnAssumption DEF AnnInv, AnnTypes
  <2>2. T \subseteq ann.heap
    BY DEF AnnInv, ByKind, Searching
  <2>3. T \subseteq Reachable /\ (Cardinality(T) = EfSearch \/ T = Reachable)
        /\ Cardinality(T) \in Nat
    BY <2>1, GatherHnsw_Facts
  <2> HIDE DEF T
  <2>4. T \subseteq N /\ N \subseteq VectorRows
    BY <2>1, <2>2, <2>3 DEF AnnTypes
  <2> HIDE DEF N
  <2>5. IsFiniteSet(N) /\ Cardinality(N) \in Nat
    BY <2>4, Rows_Finite
  <2>6. Cardinality(T) <= Cardinality(N)
    BY <2>4, <2>5, FS_Subset
  <2>7. Cardinality(Reachable) \in Nat
    BY <2>1, Reachable_In, Index_Facts, Rows_Finite
  <2>8. CASE Cardinality(T) = EfSearch
    BY <2>1, <2>5, <2>6, <2>7, <2>8 DEF N
  <2>9. CASE T = Reachable
    BY <2>1, <2>5, <2>6, <2>7, <2>9 DEF N
  <2> QED BY <2>3, <2>8, <2>9
<1> QED BY <1>1, ScansKeepInvariant, PTL

\* A scan that searches again or probes more lists stops below the ceiling only when it has
\* returned every matching row it could reach when it began, whatever it skipped by labels and
\* sets, but for a row that matches only by a label its record has no place for; every scan has
\* then returned the rows that were pending (scan.rs:1153, 1181, 430).
THEOREM StoppedScansReturned ==
    ASSUME SetsAdmitMatches PROVE AnnSpec => []ExhaustedMeansReturned
<1>1. AnnInv => ExhaustedMeansReturned
  <2> DEFINE f == ann.filter
             rows == IF Resumable THEN ann.owed \ Reachable ELSE ann.owed
  <2>5. Filtering(f) \in BOOLEAN
    BY DEF Filtering
  <2>6. ASSUME AnnInv, NEW x \in ann.emitted PROVE \E b \in BOOLEAN : <<x, b>> \in annReturned
    <3>1. <<x, Filtering(f)>> \in annReturned
      BY <2>6 DEF AnnInv, Answered
    <3> WITNESS Filtering(f) \in BOOLEAN
    <3> QED BY <3>1
  <2> SUFFICES ASSUME AnnInv, Ended, NEW r \in rows, Matches(r, f), ~MatchesBeyondRecord(r)
               PROVE  r \in ann.emitted
    BY <2>6 DEF ExhaustedMeansReturned, Withheld, Ended
  <2>1. /\ AnnTypes /\ annIndex \in Indexes /\ f \in Filters /\ ann.open /\ ann.heap = {}
        /\ ann.owed \ Reachable \subseteq ann.emitted /\ annIndex.kind \in {"hnsw", "ivf"}
    BY Index_Facts DEF AnnInv, AnnTypes, Stopped, Ended
  <2>2. CASE r \notin Reachable
    BY <2>1, <2>2
  <2>3. CASE r \in Reachable /\ annIndex.kind = "hnsw"
    <3>1. ~Resumable
      BY <2>3
    <3>2. Searching
      BY <2>1, <2>3, <3>1 DEF AnnInv, ByKind
    <3> QED BY <2>3, <3>2 DEF Searching
  <2>4. CASE r \in Reachable /\ annIndex.kind = "ivf"
    <3>1. Probing
      BY <2>1, <2>4 DEF AnnInv, ByKind
    <3>2. CandidatesOf(Len(annIndex.lists), f) \subseteq ann.emitted
      BY <3>1 DEF Probing
    <3>3. PICK i \in DOMAIN annIndex.lists : r \in annIndex.lists[i]
      BY <2>4 DEF Reachable, Range
    <3>4. i \in 1 .. Len(annIndex.lists)
      BY <2>1, Index_Facts, LenProperties
    <3>5. r \in Indexed(annIndex)
      BY <2>1, <2>4, Reachable_In
    <3>6. f.labels # {} => f.labelled
      BY <2>1, AnnAssumption
    <3>7. annIndex.labels[r] \in Seq(Nat)
      BY <2>1, <3>5, Index_Facts
    <3>8. ASSUME NEW k \in DOMAIN annIndex.labels[r], k <= LabelK
          PROVE  annIndex.labels[r][k] \in StoredLabels(r)
      <4> DEFINE s == annIndex.labels[r]
                 m == IF Len(s) < LabelK THEN Len(s) ELSE LabelK
                 t == SubSeq(s, 1, m)
      <4>1. s \in Seq(Nat) /\ Len(s) \in Nat /\ LabelK \in Nat /\ k \in 1 .. Len(s)
        BY <3>7, <3>8, AnnAssumption
      <4>2. m \in Nat /\ m <= Len(s) /\ k \in 1 .. m
        BY <3>8, <4>1
      <4>3. StoredLabels(r) = ToSet(t)
        BY DEF StoredLabels
      <4> HIDE DEF s, m
      <4>4. t[k] = s[k] /\ k \in DOMAIN t
        BY <4>1, <4>2
      <4> HIDE DEF t
      <4> QED BY <4>3, <4>4 DEF ToSet, s
    <3>9. ~Skipped(r, f)
      <4>1. f.member => r \in f.admitted
        BY <2>1, <3>5 DEF Matches, SetsAdmitMatches
      <4>2. ASSUME "labels" \in annIndex.inline, f.labels # {}
            PROVE  StoredLabels(r) \cap f.labels # {}
        <5>1. PICK k \in DOMAIN annIndex.labels[r] : annIndex.labels[r][k] \in f.labels /\ ~(k > LabelK)
          BY <2>4, <3>6, <4>2 DEF MatchesBeyondRecord
        <5>2. k \in Nat /\ LabelK \in Nat
          BY <3>7, AnnAssumption
        <5> QED BY <3>8, <5>1, <5>2
      <4> QED BY <4>1, <4>2 DEF Skipped
    <3>10. r \in CandidatesOf(Len(annIndex.lists), f)
      BY <3>3, <3>4, <3>9 DEF CandidatesOf
    <3> QED BY <3>2, <3>10
  <2> QED BY <2>1, <2>2, <2>3, <2>4
<1> QED BY <1>1, ScansKeepInvariant, PTL

-----------------------------------------------------------------------------
(* Queries over a columnar table (ColumnarQuery).                           *)

(* The elements of a sequence that are in a set.                           *)

AmongStep(set, s, x) == IF x \in set THEN Append(s, x) ELSE s
AmongFold == INSTANCE FoldFacts WITH Op <- AmongStep

LEMMA Among_IsFold ==
    ASSUME NEW seq, NEW set PROVE Among(seq, set) = AmongFold!Fold(set, <<>>, seq)
BY DEF Among, FoldLeft, MapThenFoldSet, Max, AmongFold!Fold, AmongFold!Greatest, AmongStep

LEMMA Among_Empty ==
    ASSUME NEW set PROVE Among(<<>>, set) = <<>>
BY Among_IsFold, AmongFold!Fold_Empty

LEMMA Among_Append ==
    ASSUME NEW B, NEW set, NEW seq \in Seq(B), NEW y \in B
    PROVE  Among(Append(seq, y), set) =
             IF y \in set THEN Append(Among(seq, set), y) ELSE Among(seq, set)
<1>1. <<>> \in Seq(B) /\ \A s \in Seq(B), x \in B : AmongStep(set, s, x) \in Seq(B)
  BY DEF AmongStep
<1> DEFINE W == Seq(B)
<1>2. <<>> \in W /\ \A s \in W, x \in B : AmongStep(set, s, x) \in W
  BY <1>1
<1> HIDE DEF W
<1>3. AmongFold!Fold(set, <<>>, Append(seq, y)) =
        AmongStep(set, AmongFold!Fold(set, <<>>, seq), y)
  BY <1>2, AmongFold!Fold_Append
<1> QED BY <1>3, Among_IsFold DEF AmongStep

LEMMA Among_In ==
    ASSUME NEW B, NEW set, NEW seq \in Seq(B)
    PROVE  Among(seq, set) \in Seq(B \cap set)
<1> DEFINE C == B \cap set
           T == {s \in Seq(B) : Among(s, set) \in Seq(C)}
<1>0. \A x : x \in C <=> x \in B /\ x \in set
  OBVIOUS
<1> HIDE DEF C
<1>1. <<>> \in T
  <2>1. <<>> \in Seq(C) /\ <<>> \in Seq(B)
    OBVIOUS
  <2> QED BY <2>1, Among_Empty
<1>2. ASSUME NEW s \in Seq(B), NEW x \in B, s \in T PROVE Append(s, x) \in T
  <2>1. Among(s, set) \in Seq(C) /\ Append(s, x) \in Seq(B)
    BY <1>2
  <2>2. Among(Append(s, x), set) = IF x \in set THEN Append(Among(s, set), x) ELSE Among(s, set)
    BY Among_Append
  <2>3. x \in set => Append(Among(s, set), x) \in Seq(C)
    BY <1>0, <2>1
  <2> QED BY <2>1, <2>2, <2>3
<1> HIDE DEF T
<1>3. Seq(B) \subseteq T
  BY <1>1, <1>2, AmongFold!SequenceInduction
<1> QED BY <1>3 DEF T, C

\* Only the membership of the elements counts.
LEMMA Among_Same ==
    ASSUME NEW B, NEW set, NEW other, \A x \in B : x \in set <=> x \in other
    PROVE  \A seq \in Seq(B) : Among(seq, set) = Among(seq, other)
<1> DEFINE T == {s \in Seq(B) : Among(s, set) = Among(s, other)}
<1>1. <<>> \in T
  BY Among_Empty
<1>2. \A s \in Seq(B), x \in B : s \in T => Append(s, x) \in T
  BY Among_Append
<1> HIDE DEF T
<1>3. Seq(B) \subseteq T
  BY <1>1, <1>2, AmongFold!SequenceInduction
<1> QED BY <1>3 DEF T

LEMMA Append_Concat ==
    ASSUME NEW B, NEW s \in Seq(B), NEW t \in Seq(B), NEW x \in B
    PROVE  s \o Append(t, x) = Append(s \o t, x)
<1>1. /\ s \o Append(t, x) \in Seq(B) /\ Append(s \o t, x) \in Seq(B)
      /\ Len(s \o Append(t, x)) = Len(s) + Len(t) + 1
      /\ Len(Append(s \o t, x)) = Len(s) + Len(t) + 1
  OBVIOUS
<1>2. ASSUME NEW i \in 1 .. Len(s) + Len(t) + 1
      PROVE  (s \o Append(t, x))[i] = Append(s \o t, x)[i]
  OBVIOUS
<1> QED BY <1>1, <1>2, SeqEqual

LEMMA Among_Concat ==
    ASSUME NEW B, NEW set, NEW seq \in Seq(B)
    PROVE  \A more \in Seq(B) : Among(seq \o more, set) = Among(seq, set) \o Among(more, set)
<1> DEFINE T == {s \in Seq(B) : Among(seq \o s, set) = Among(seq, set) \o Among(s, set)}
<1>1. Among(seq, set) \in Seq(B)
  <2>1. Among(seq, set) \in Seq(B \cap set)
    BY Among_In
  <2> QED BY <2>1, SeqMonotonic
<1>2. <<>> \in T
  BY <1>1, Among_Empty
<1>3. ASSUME NEW s \in Seq(B), NEW x \in B, s \in T PROVE Append(s, x) \in T
  <2>1. seq \o Append(s, x) = Append(seq \o s, x) /\ seq \o s \in Seq(B)
    BY Append_Concat
  <2>6. Append(s, x) \in Seq(B)
    OBVIOUS
  <2>2. Among(s, set) \in Seq(B)
    <3>1. Among(s, set) \in Seq(B \cap set)
      BY Among_In
    <3> QED BY <3>1, SeqMonotonic
  <2>3. Among(seq \o s, set) = Among(seq, set) \o Among(s, set)
    BY <1>3
  <2> HIDE DEF T
  <2>4. CASE x \in set
    <3>1. Among(Append(seq \o s, x), set) = Append(Among(seq \o s, set), x)
      BY <2>1, <2>4, Among_Append
    <3>2. Among(Append(s, x), set) = Append(Among(s, set), x)
      BY <2>4, Among_Append
    <3>3. Append(Among(seq, set) \o Among(s, set), x) = Among(seq, set) \o Append(Among(s, set), x)
      <4> DEFINE a == Among(seq, set)
                 b == Among(s, set)
      <4>1. a \in Seq(B) /\ b \in Seq(B)
        BY <1>1, <2>2
      <4> HIDE DEF a, b
      <4>2. \A p, q \in Seq(B) : p \o Append(q, x) = Append(p \o q, x)
        BY Append_Concat
      <4>3. Append(a \o b, x) = a \o Append(b, x)
        BY <4>1, <4>2, Zenon
      <4> QED BY <4>3 DEF a, b
    <3>4. Among(seq \o Append(s, x), set) = Among(seq, set) \o Among(Append(s, x), set)
      BY <2>1, <2>3, <3>1, <3>2, <3>3
    <3> QED BY <2>6, <3>4 DEF T
  <2>5. CASE x \notin set
    <3> DEFINE joined == seq \o s
    <3>0. joined \in Seq(B)
      BY <2>1
    <3>1. Among(Append(joined, x), set) = Among(joined, set)
      <4> HIDE DEF joined
      <4> QED BY <2>5, <3>0, Among_Append
    <3>2. Among(Append(s, x), set) = Among(s, set)
      BY <2>5, Among_Append
    <3>3. Among(seq \o Append(s, x), set) = Among(seq, set) \o Among(Append(s, x), set)
      BY <2>1, <2>3, <3>1, <3>2
    <3> QED BY <2>6, <3>3 DEF T
  <2> QED BY <2>4, <2>5
<1> HIDE DEF T
<1>4. Seq(B) \subseteq T
  BY <1>2, <1>3, AmongFold!SequenceInduction
<1> QED BY <1>4 DEF T

LEMMA Among_All ==
    ASSUME NEW B, NEW set, B \subseteq set
    PROVE  \A seq \in Seq(B) : Among(seq, set) = seq
<1> DEFINE T == {s \in Seq(B) : Among(s, set) = s}
<1>1. <<>> \in T
  BY Among_Empty
<1>2. \A s \in Seq(B), x \in B : s \in T => Append(s, x) \in T
  BY Among_Append
<1> HIDE DEF T
<1>3. Seq(B) \subseteq T
  BY <1>1, <1>2, AmongFold!SequenceInduction
<1> QED BY <1>3 DEF T

LEMMA Among_None ==
    ASSUME NEW B, NEW set, B \cap set = {}
    PROVE  \A seq \in Seq(B) : Among(seq, set) = <<>>
<1> DEFINE T == {s \in Seq(B) : Among(s, set) = <<>>}
<1>1. <<>> \in T
  BY Among_Empty
<1>2. \A s \in Seq(B), x \in B : s \in T => Append(s, x) \in T
  BY Among_Append
<1> HIDE DEF T
<1>3. Seq(B) \subseteq T
  BY <1>1, <1>2, AmongFold!SequenceInduction
<1> QED BY <1>3 DEF T

LEMMA Append_Elements ==
    ASSUME NEW B, NEW s \in Seq(B), NEW x \in B
    PROVE  ToSet(Append(s, x)) = ToSet(s) \cup {x}
<1>1. /\ DOMAIN s = 1 .. Len(s) /\ DOMAIN Append(s, x) = 1 .. Len(s) + 1 /\ Len(s) \in Nat
      /\ Append(s, x)[Len(s) + 1] = x
      /\ \A i \in 1 .. Len(s) : Append(s, x)[i] = s[i]
  OBVIOUS
<1>2. \A i : i \in 1 .. Len(s) + 1 <=> i \in 1 .. Len(s) \/ i = Len(s) + 1
  BY <1>1
<1>3. ToSet(Append(s, x)) \subseteq ToSet(s) \cup {x}
  BY <1>1, <1>2 DEF ToSet
<1>4. ToSet(s) \cup {x} \subseteq ToSet(Append(s, x))
  BY <1>1, <1>2 DEF ToSet
<1> QED BY <1>3, <1>4

\* What is left are the elements that are in the set.
LEMMA Among_Elements ==
    ASSUME NEW B, NEW set
    PROVE  \A seq \in Seq(B) : ToSet(Among(seq, set)) = ToSet(seq) \cap set
<1> DEFINE T == {s \in Seq(B) : ToSet(Among(s, set)) = ToSet(s) \cap set}
<1>1. <<>> \in T
  BY Among_Empty DEF ToSet
<1>2. ASSUME NEW s \in Seq(B), NEW x \in B, s \in T PROVE Append(s, x) \in T
  <2>1. \A q \in Seq(B) : ToSet(Append(q, x)) = ToSet(q) \cup {x}
    BY Append_Elements
  <2>2. Among(s, set) \in Seq(B)
    <3>1. Among(s, set) \in Seq(B \cap set)
      BY Among_In
    <3> QED BY <3>1, SeqMonotonic
  <2>3. ToSet(Among(s, set)) = ToSet(s) \cap set
    BY <1>2
  <2>4. ToSet(Append(s, x)) = ToSet(s) \cup {x}
    BY <2>1
  <2>5. ToSet(Append(Among(s, set), x)) = ToSet(Among(s, set)) \cup {x}
    BY <2>1, <2>2
  <2>6. ToSet(Among(Append(s, x), set)) = ToSet(Append(s, x)) \cap set
    <3>1. CASE x \in set
      <4>1. Among(Append(s, x), set) = Append(Among(s, set), x)
        BY <3>1, Among_Append
      <4> HIDE DEF T
      <4> QED BY <2>3, <2>4, <2>5, <3>1, <4>1
    <3>2. CASE x \notin set
      <4>1. Among(Append(s, x), set) = Among(s, set)
        BY <3>2, Among_Append
      <4> QED BY <2>3, <2>4, <3>2, <4>1
    <3> QED BY <3>1, <3>2
  <2>7. Append(s, x) \in Seq(B)
    OBVIOUS
  <2> QED BY <2>6, <2>7
<1> HIDE DEF T
<1>3. Seq(B) \subseteq T
  BY <1>1, <1>2, AmongFold!SequenceInduction
<1> QED BY <1>3 DEF T

-----------------------------------------------------------------------------
(* Sequences of sequences.                                                 *)

\* The recursion in FlattenSeq.
With(a, b) == a \o b
FlatAt(f, seqs, i) == IF i = 1 THEN seqs[i] ELSE With(f[i - 1], seqs[i])
Flattens(f, seqs) == f = [i \in 1 .. Len(seqs) |-> FlatAt(f, seqs, i)]

LEMMA FlatAt_Later ==
    ASSUME NEW f, NEW seqs, NEW i, NEW j, i # 1, i - 1 = j
    PROVE  FlatAt(f, seqs, i) = With(f[j], seqs[i])
BY DEF FlatAt

LEMMA Flattens_Exists ==
    ASSUME NEW B
    PROVE  \A seqs \in Seq(Seq(B)) :
             \E f \in [1 .. Len(seqs) -> Seq(B)] : Flattens(f, seqs)
<1> DEFINE W == Seq(B)
           T == {s \in Seq(W) : \E f \in [1 .. Len(s) -> W] : Flattens(f, s)}
<1>0. \A a, b \in W : a \o b \in W
  OBVIOUS
<1> HIDE DEF W
<1>1. <<>> \in T
  <2> DEFINE f == [i \in 1 .. Len(<<>>) |-> <<>>]
  <2>1. 1 .. Len(<<>>) = {} /\ <<>> \in Seq(W)
    OBVIOUS
  <2>2. f \in [1 .. Len(<<>>) -> W]
    BY <2>1
  <2>3. Flattens(f, <<>>)
    BY <2>1 DEF Flattens, FlatAt, With
  <2> QED BY <2>1, <2>2, <2>3
<1>2. ASSUME NEW s \in Seq(W), NEW x \in W, s \in T PROVE Append(s, x) \in T
  <2>1. PICK f \in [1 .. Len(s) -> W] : Flattens(f, s)
    BY <1>2
  <2> DEFINE n == Len(s)
             more == Append(s, x)
             last == IF n = 0 THEN x ELSE f[n] \o x
             g == [i \in 1 .. n + 1 |-> IF i = n + 1 THEN last ELSE f[i]]
  <2>2. n \in Nat /\ more \in Seq(W) /\ Len(more) = n + 1 /\ more[n + 1] = x
        /\ \A i \in 1 .. n : more[i] = s[i]
    OBVIOUS
  <2> HIDE DEF more
  <2>3. last \in W
    BY <1>0, <2>1, <2>2
  <2>4. \A i \in 1 .. n : f[i] = IF i = 1 THEN s[i] ELSE f[i - 1] \o s[i]
    BY <2>1 DEF Flattens, FlatAt, With
  <2>5. g \in [1 .. n + 1 -> W]
    BY <2>1, <2>2, <2>3
  <2>6. ASSUME NEW i \in 1 .. n + 1
        PROVE  g[i] = IF i = 1 THEN more[i] ELSE g[i - 1] \o more[i]
    <3>1. g[n + 1] = last /\ \A j \in 1 .. n : g[j] = f[j]
      BY <2>2
    <3> HIDE DEF g
    <3>2. CASE i = n + 1 /\ n = 0
      BY <2>2, <3>1, <3>2
    <3>3. CASE i = n + 1 /\ n # 0
      <4>1. last = f[n] \o x /\ n \in 1 .. n /\ i # 1 /\ i - 1 = n
        BY <2>2, <3>3
      <4> HIDE DEF last
      <4> QED BY <2>2, <3>1, <3>3, <4>1
    <3>4. CASE i \in 1 .. n
      <4>1. more[i] = s[i] /\ g[i] = f[i] /\ (i # 1 => g[i - 1] = f[i - 1])
        BY <2>2, <3>1, <3>4
      <4>2. f[i] = IF i = 1 THEN s[i] ELSE f[i - 1] \o s[i]
        BY <2>4, <3>4
      <4> QED BY <4>1, <4>2
    <3>5. i = n + 1 \/ i \in 1 .. n
      BY <2>2
    <3> QED BY <3>2, <3>3, <3>4, <3>5
  <2> HIDE DEF g, last
  <2>7. Flattens(g, more)
    BY <2>2, <2>5, <2>6 DEF Flattens, FlatAt, With
  <2>8. more \in T
    BY <2>2, <2>5, <2>7
  <2> QED BY <2>8 DEF more
<1> HIDE DEF T
<1>3. Seq(W) \subseteq T
  BY <1>1, <1>2, AmongFold!SequenceInduction
<1> QED BY <1>3 DEF T, W

LEMMA FlattenSeq_Step ==
    ASSUME NEW B, NEW seqs \in Seq(Seq(B)), seqs # <<>>
    PROVE  \E f \in [1 .. Len(seqs) -> Seq(B)] :
             Flattens(f, seqs) /\ FlattenSeq(seqs) = f[Len(seqs)]
<1>1. PICK f \in [1 .. Len(seqs) -> Seq(B)] : Flattens(f, seqs)
  BY Flattens_Exists
<1> DEFINE g == CHOOSE h : Flattens(h, seqs)
<1>2. Flattens(g, seqs)
  BY <1>1
<1>3. Len(seqs) # 0
  OBVIOUS
<1>4. FlattenSeq(seqs) = g[Len(seqs)]
  BY <1>3 DEF FlattenSeq, Flattens, FlatAt, With
<1> HIDE DEF g
<1> DEFINE n == Len(seqs)
           T == {m \in Nat : m \in 1 .. n => g[m] = f[m]}
<1>5. n \in Nat
  OBVIOUS
<1>6. /\ \A i \in 1 .. n : g[i] = IF i = 1 THEN seqs[i] ELSE g[i - 1] \o seqs[i]
      /\ \A i \in 1 .. n : f[i] = IF i = 1 THEN seqs[i] ELSE f[i - 1] \o seqs[i]
  BY <1>1, <1>2 DEF Flattens, FlatAt, With
<1> HIDE DEF n
<1>7. 0 \in T
  OBVIOUS
<1>8. ASSUME NEW m \in Nat, m \in T PROVE m + 1 \in T
  BY <1>5, <1>6, <1>8
<1> HIDE DEF T
<1>9. Nat \subseteq T
  BY <1>7, <1>8, AmongFold!Induction
<1>10. n \in T /\ n # 0
  BY <1>3, <1>5, <1>9 DEF n
<1>11. g[n] = f[n]
  BY <1>5, <1>10 DEF T
<1> QED BY <1>1, <1>4, <1>11 DEF n

LEMMA FlattenSeq_Empty == FlattenSeq(<<>>) = <<>>
BY DEF FlattenSeq

LEMMA FlattenSeq_Append ==
    ASSUME NEW B, NEW seqs \in Seq(Seq(B)), NEW seq \in Seq(B)
    PROVE  FlattenSeq(Append(seqs, seq)) = FlattenSeq(seqs) \o seq
<1> DEFINE n == Len(seqs)
           more == Append(seqs, seq)
<1>1. /\ n \in Nat /\ more \in Seq(Seq(B)) /\ more # <<>> /\ Len(more) = n + 1
      /\ more[n + 1] = seq /\ \A i \in 1 .. n : more[i] = seqs[i]
  <2> DEFINE W == Seq(B)
  <2>1. seqs \in Seq(W) /\ seq \in W
    OBVIOUS
  <2> HIDE DEF W
  <2>2. /\ n \in Nat /\ more \in Seq(W) /\ Len(more) = n + 1
        /\ more[n + 1] = seq /\ \A i \in 1 .. n : more[i] = seqs[i]
    BY <2>1
  <2>3. Len(<<>>) = 0
    OBVIOUS
  <2>4. more # <<>>
    <3>1. Len(more) # Len(<<>>)
      BY <2>2, <2>3
    <3> HIDE DEF more
    <3> QED BY <3>1
  <2> QED BY <2>2, <2>4 DEF W
<1> HIDE DEF more
<1>2. PICK h : Flattens(h, more) /\ FlattenSeq(more) = h[Len(more)]
  BY <1>1, FlattenSeq_Step
<1>3. \A i \in 1 .. n + 1 : h[i] = FlatAt(h, more, i)
  BY <1>1, <1>2 DEF Flattens, FlatAt, With
<1>4. CASE seqs = <<>>
  <2>1. n = 0
    BY <1>4
  <2>2. FlattenSeq(more) = seq
    BY <1>1, <1>2, <1>3, <2>1 DEF FlatAt
  <2>3. <<>> \o seq = seq
    OBVIOUS
  <2> QED BY <1>4, <2>2, <2>3, FlattenSeq_Empty DEF more
<1>5. CASE seqs # <<>>
  <2>1. PICK f : Flattens(f, seqs) /\ FlattenSeq(seqs) = f[n]
    BY <1>5, FlattenSeq_Step
  <2>2. \A i \in 1 .. n : f[i] = FlatAt(f, seqs, i)
    BY <2>1 DEF Flattens, FlatAt, With
  <2>3. n # 0
    BY <1>5
  <2> DEFINE T == {m \in Nat : m \in 1 .. n => h[m] = f[m]}
  <2> HIDE DEF n
  <2>4. 0 \in T
    OBVIOUS
  <2>5. ASSUME NEW m \in Nat, m \in T PROVE m + 1 \in T
    <3> SUFFICES ASSUME m + 1 \in 1 .. n PROVE h[m + 1] = f[m + 1]
      OBVIOUS
    <3>1. more[m + 1] = seqs[m + 1] /\ m + 1 \in 1 .. n + 1 /\ m + 1 - 1 = m
      BY <1>1
    <3>2. h[m + 1] = FlatAt(h, more, m + 1) /\ f[m + 1] = FlatAt(f, seqs, m + 1)
      BY <1>3, <2>2, <3>1
    <3>3. m + 1 # 1 => h[m] = f[m]
      BY <1>1, <2>5
    <3>4. FlatAt(h, more, m + 1) = FlatAt(f, seqs, m + 1)
      BY <3>1, <3>3 DEF FlatAt
    <3> QED BY <3>2, <3>4
  <2> HIDE DEF T
  <2>6. Nat \subseteq T
    BY <2>4, <2>5, AmongFold!Induction
  <2>7. n \in T
    BY <1>1, <2>6
  <2>8. h[n] = f[n]
    BY <1>1, <2>3, <2>7 DEF T
  <2>9. h[n + 1] = h[n] \o seq
    <3>1. n + 1 \in 1 .. n + 1 /\ n + 1 # 1
      BY <1>1, <2>3
    <3>2. h[n + 1] = FlatAt(h, more, n + 1)
      BY <1>3, <3>1
    <3>3. n + 1 - 1 = n
      BY <1>1
    <3>4. FlatAt(h, more, n + 1) = With(h[n], more[n + 1])
      <4>1. n + 1 \in Nat
        BY <1>1
      <4> DEFINE k == n + 1
      <4>2. k # 1 /\ k - 1 = n /\ k \in Nat
        BY <1>1, <3>1
      <4> HIDE DEF k
      <4>3. FlatAt(h, more, k) = With(h[n], more[k])
        BY <4>2, FlatAt_Later
      <4> QED BY <4>3 DEF k
    <3>5. more[n + 1] = seq
      BY <1>1
    <3> QED BY <3>2, <3>4, <3>5 DEF With
  <2> QED BY <1>1, <1>2, <2>1, <2>8, <2>9 DEF more
<1> QED BY <1>4, <1>5

LEMMA FlattenSeq_In ==
    ASSUME NEW B PROVE \A seqs \in Seq(Seq(B)) : FlattenSeq(seqs) \in Seq(B)
<1> DEFINE T == {s \in Seq(Seq(B)) : FlattenSeq(s) \in Seq(B)}
<1>1. <<>> \in T
  <2>1. <<>> \in Seq(Seq(B)) /\ <<>> \in Seq(B)
    BY EmptySeq
  <2> QED BY <2>1, FlattenSeq_Empty
<1>2. ASSUME NEW s \in Seq(Seq(B)), NEW x \in Seq(B), s \in T PROVE Append(s, x) \in T
  <2>1. FlattenSeq(Append(s, x)) = FlattenSeq(s) \o x
    BY FlattenSeq_Append
  <2>2. FlattenSeq(s) \o x \in Seq(B)
    BY <1>2
  <2>3. Append(s, x) \in Seq(Seq(B))
    OBVIOUS
  <2> QED BY <2>1, <2>2, <2>3
<1> HIDE DEF T
<1>3. Seq(Seq(B)) \subseteq T
  <2> DEFINE W == Seq(B)
  <2>1. <<>> \in T /\ \A s \in Seq(W), x \in W : s \in T => Append(s, x) \in T
    BY <1>1, <1>2
  <2> HIDE DEF W
  <2>2. Seq(W) \subseteq T
    BY <2>1, AmongFold!SequenceInduction
  <2> QED BY <2>2 DEF W
<1> QED BY <1>3 DEF T

LEMMA FlattenSeq_Concat ==
    ASSUME NEW B, NEW seqs \in Seq(Seq(B))
    PROVE  \A more \in Seq(Seq(B)) :
             FlattenSeq(seqs \o more) = FlattenSeq(seqs) \o FlattenSeq(more)
<1> DEFINE W == Seq(B)
           T == {s \in Seq(W) : FlattenSeq(seqs \o s) = FlattenSeq(seqs) \o FlattenSeq(s)}
<1>1. <<>> \in T
  <2>1. seqs \o <<>> = seqs /\ FlattenSeq(seqs) \in Seq(B)
    BY FlattenSeq_In, ConcatEmptySeq
  <2>2. FlattenSeq(seqs) \o <<>> = FlattenSeq(seqs)
    BY <2>1
  <2> QED BY <2>1, <2>2, FlattenSeq_Empty
<1>2. ASSUME NEW s \in Seq(W), NEW x \in W, s \in T PROVE Append(s, x) \in T
  <2>1. /\ FlattenSeq(seqs \o s) = FlattenSeq(seqs) \o FlattenSeq(s)
        /\ FlattenSeq(seqs) \in W /\ FlattenSeq(s) \in W
    BY <1>2, FlattenSeq_In
  <2> HIDE DEF T
  <2>2. seqs \in Seq(W)
    OBVIOUS
  <2>3. FlattenSeq(Append(s, x)) = FlattenSeq(s) \o x
    BY FlattenSeq_Append
  <2>4. (FlattenSeq(seqs) \o FlattenSeq(s)) \o x = FlattenSeq(seqs) \o (FlattenSeq(s) \o x)
    BY <2>1, ConcatAssociative
  <2> DEFINE joined == seqs \o s
  <2>5. joined \in Seq(Seq(B))
    OBVIOUS
  <2>6. FlattenSeq(Append(joined, x)) = FlattenSeq(joined) \o x
    <3> HIDE DEF joined
    <3> QED BY <2>5, FlattenSeq_Append
  <2> HIDE DEF W
  <2>7. seqs \o Append(s, x) = Append(seqs \o s, x) /\ Append(s, x) \in Seq(W)
    BY <2>2, Append_Concat
  <2> QED BY <2>1, <2>3, <2>4, <2>6, <2>7 DEF T
<1> HIDE DEF T, W
<1>3. Seq(W) \subseteq T
  BY <1>1, <1>2, AmongFold!SequenceInduction
<1> QED BY <1>3 DEF T, W

-----------------------------------------------------------------------------
(* A column that is encoded and decoded.                                   *)

Value == Int \cup {SqlNull}

\* The rows up to one that have a value.
Filled(vals, i) == {j \in 1 .. i : vals[j] # SqlNull}

LEMMA Elements_Seq ==
    ASSUME NEW B, NEW s \in Seq(B)
    PROVE  s \in Seq(ToSet(s)) /\ ToSet(s) \subseteq B
<1>1. Len(s) \in Nat /\ DOMAIN s = 1 .. Len(s) /\ \A i \in 1 .. Len(s) : s[i] \in B
  OBVIOUS
<1>2. ToSet(s) \subseteq B
  BY <1>1 DEF ToSet
<1>3. \A i \in 1 .. Len(s) : s[i] \in ToSet(s)
  BY <1>1 DEF ToSet
<1>4. s = [i \in 1 .. Len(s) |-> s[i]]
  OBVIOUS
<1> DEFINE S == ToSet(s)
<1> HIDE DEF S
<1>5. [i \in 1 .. Len(s) |-> s[i]] \in Seq(S)
  BY <1>1, <1>3, IsASeq DEF S
<1> QED BY <1>2, <1>4, <1>5 DEF S

LEMMA Present_Among ==
    ASSUME NEW vals \in Seq(Value)
    PROVE  Present(vals) = Among(vals, Int)
<1> DEFINE B == ToSet(vals)
<1>1. vals \in Seq(B) /\ B \subseteq Value
  BY Elements_Seq
<1>2. \A x \in B : x \in B \ {SqlNull} <=> x \in Int
  BY <1>1, QueryAssumption DEF Value
<1> HIDE DEF B
<1>3. Among(vals, B \ {SqlNull}) = Among(vals, Int)
  BY <1>1, <1>2, Among_Same
<1> QED BY <1>3 DEF Present, B

LEMMA Filled_Facts ==
    ASSUME NEW vals \in Seq(Value), NEW i \in 0 .. Len(vals)
    PROVE  /\ IsFiniteSet(Filled(vals, i)) /\ Cardinality(Filled(vals, i)) \in Nat
           /\ i + 1 \in DOMAIN vals =>
                Cardinality(Filled(vals, i + 1)) =
                  IF vals[i + 1] # SqlNull THEN Cardinality(Filled(vals, i)) + 1
                  ELSE Cardinality(Filled(vals, i))
<1>1. IsFiniteSet(1 .. i) /\ i \in Nat
  BY FS_Interval
<1>2. IsFiniteSet(Filled(vals, i))
  BY <1>1, FS_Subset DEF Filled
<1>3. Cardinality(Filled(vals, i)) \in Nat
  BY <1>2, FS_CardinalityType
<1>4. i + 1 \notin Filled(vals, i)
  BY <1>1 DEF Filled
<1>5. \A j : j \in 1 .. i + 1 <=> j \in 1 .. i \/ j = i + 1
  BY <1>1
<1>6. ASSUME i + 1 \in DOMAIN vals, vals[i + 1] # SqlNull
      PROVE  Filled(vals, i + 1) = Filled(vals, i) \cup {i + 1}
  BY <1>5, <1>6 DEF Filled
<1>7. ASSUME i + 1 \in DOMAIN vals, vals[i + 1] = SqlNull
      PROVE  Filled(vals, i + 1) = Filled(vals, i)
  BY <1>5, <1>7 DEF Filled
<1>8. Cardinality(Filled(vals, i) \cup {i + 1}) = Cardinality(Filled(vals, i)) + 1
  BY <1>2, <1>4, FS_AddElement
<1> QED BY <1>2, <1>3, <1>6, <1>7, <1>8

\* The values of a stream are found by counting the rows that have one.
Counted(vals) ==
    /\ Len(Present(vals)) = Cardinality(Filled(vals, Len(vals)))
    /\ \A i \in DOMAIN vals :
         vals[i] # SqlNull =>
           /\ Cardinality(Filled(vals, i)) \in 1 .. Len(Present(vals))
           /\ Present(vals)[Cardinality(Filled(vals, i))] = vals[i]

LEMMA Present_Counted ==
    \A vals \in Seq(Value) : Counted(vals)
<1> DEFINE T == {s \in Seq(Value) : Counted(s)}
<1>1. <<>> \in T
  <2>1. Present(<<>>) = <<>>
    BY Among_Empty DEF Present
  <2>2. Filled(<<>>, 0) = {} /\ Len(<<>>) = 0 /\ DOMAIN <<>> = {} /\ <<>> \in Seq(Value)
    BY DEF Filled
  <2>3. Cardinality({}) = 0
    BY FS_EmptySet
  <2> QED BY <2>1, <2>2, <2>3 DEF Counted
<1>2. ASSUME NEW s \in Seq(Value), NEW x \in Value, s \in T PROVE Append(s, x) \in T
  <2> DEFINE more == Append(s, x)
             n == Len(s)
  <2>1. Counted(s)
    BY <1>2
  <2> HIDE DEF T
  <2>2. /\ n \in Nat /\ more \in Seq(Value) /\ Len(more) = n + 1 /\ more[n + 1] = x
        /\ DOMAIN more = 1 .. n + 1 /\ DOMAIN s = 1 .. n
        /\ \A i \in 1 .. n : more[i] = s[i]
    OBVIOUS
  <2>3. Present(s) = Among(s, Int) /\ Present(more) = Among(more, Int)
    BY <2>2, Present_Among
  <2>4. Present(more) = IF x \in Int THEN Append(Present(s), x) ELSE Present(s)
    BY <2>3, Among_Append
  <2>5. Present(s) \in Seq(Value)
    <3>1. Among(s, Int) \in Seq(Value \cap Int)
      BY Among_In
    <3> QED BY <2>3, <3>1, SeqMonotonic
  <2>6. x \in Int <=> x # SqlNull
    BY QueryAssumption DEF Value
  <2>7. \A i \in 0 .. n : Filled(more, i) = Filled(s, i)
    BY <2>2 DEF Filled
  <2>8. Cardinality(Filled(more, n + 1)) =
          IF x # SqlNull THEN Cardinality(Filled(s, n)) + 1 ELSE Cardinality(Filled(s, n))
    <3>1. n \in 0 .. Len(more) /\ n \in 0 .. n /\ n + 1 \in DOMAIN more
      BY <2>2
    <3> HIDE DEF more
    <3>2. Cardinality(Filled(more, n + 1)) =
            IF more[n + 1] # SqlNull THEN Cardinality(Filled(more, n)) + 1
            ELSE Cardinality(Filled(more, n))
      BY <2>2, <3>1, Filled_Facts
    <3> QED BY <2>2, <2>7, <3>1, <3>2
  <2>9. Len(Present(s)) = Cardinality(Filled(s, n)) /\ Len(Present(s)) \in Nat
    BY <2>1, <2>5 DEF Counted
  <2> HIDE DEF more
  <2>10. CASE x # SqlNull
    <3>1. Present(more) = Append(Present(s), x)
      BY <2>4, <2>6, <2>10
    <3>2. /\ Len(Present(more)) = Len(Present(s)) + 1
          /\ Present(more)[Len(Present(s)) + 1] = x
          /\ \A k \in 1 .. Len(Present(s)) : Present(more)[k] = Present(s)[k]
      <4> DEFINE p == Present(s)
      <4>1. p \in Seq(Value) /\ x \in Value
        BY <2>5
      <4> HIDE DEF p
      <4>2. /\ Len(Append(p, x)) = Len(p) + 1 /\ Append(p, x)[Len(p) + 1] = x
            /\ \A k \in 1 .. Len(p) : Append(p, x)[k] = p[k]
        BY <4>1
      <4> QED BY <3>1, <4>2 DEF p
    <3>3. Cardinality(Filled(more, n + 1)) = Len(Present(more))
      BY <2>8, <2>9, <2>10, <3>2
    <3>4. ASSUME NEW i \in 1 .. n + 1, more[i] # SqlNull
          PROVE  /\ Cardinality(Filled(more, i)) \in 1 .. Len(Present(more))
                 /\ Present(more)[Cardinality(Filled(more, i))] = more[i]
      <4>1. CASE i = n + 1
        BY <2>2, <2>8, <2>9, <2>10, <3>2, <4>1
      <4>2. CASE i \in 1 .. n
        <5>1. more[i] = s[i] /\ Filled(more, i) = Filled(s, i)
          BY <2>2, <2>7, <4>2
        <5>2. /\ Cardinality(Filled(s, i)) \in 1 .. Len(Present(s))
              /\ Present(s)[Cardinality(Filled(s, i))] = s[i]
          BY <2>1, <2>2, <3>4, <4>2, <5>1 DEF Counted
        <5> QED BY <2>9, <3>2, <5>1, <5>2
      <4> QED BY <2>2, <4>1, <4>2
    <3>5. Counted(more)
      BY <2>2, <3>3, <3>4 DEF Counted
    <3> QED BY <2>2, <3>5 DEF T, more
  <2>11. CASE x = SqlNull
    <3>1. Present(more) = Present(s)
      BY <2>4, <2>6, <2>11
    <3>2. Cardinality(Filled(more, n + 1)) = Len(Present(more))
      BY <2>8, <2>9, <2>11, <3>1
    <3>3. ASSUME NEW i \in 1 .. n + 1, more[i] # SqlNull
          PROVE  /\ Cardinality(Filled(more, i)) \in 1 .. Len(Present(more))
                 /\ Present(more)[Cardinality(Filled(more, i))] = more[i]
      <4>1. i \in 1 .. n
        BY <2>2, <2>11, <3>3
      <4>2. more[i] = s[i] /\ Filled(more, i) = Filled(s, i)
        BY <2>2, <2>7, <4>1
      <4> QED BY <2>1, <2>2, <3>1, <3>3, <4>1, <4>2 DEF Counted
    <3>4. Counted(more)
      BY <2>2, <3>2, <3>3 DEF Counted
    <3> QED BY <2>2, <3>4 DEF T, more
  <2> QED BY <2>10, <2>11
<1> HIDE DEF T
<1>3. Seq(Value) \subseteq T
  BY <1>1, <1>2, AmongFold!SequenceInduction
<1> QED BY <1>3 DEF T

\* decode_column gives back what encode_column was given.
LEMMA DecodeColumn_Exact ==
    ASSUME NEW vals \in Seq(Value)
    PROVE  /\ DecodeColumn(EncodeColumn(vals), Len(vals)) = vals
           /\ ~EncodeColumn(vals).nulls => EncodeColumn(vals).stream = vals
<1> DEFINE chunk == EncodeColumn(vals)
<1>1. /\ chunk.nulls = (\E i \in DOMAIN vals : vals[i] = SqlNull)
      /\ chunk.bitmap = [i \in DOMAIN vals |-> vals[i] # SqlNull]
      /\ chunk.stream = Present(vals)
  BY DEF EncodeColumn
<1> HIDE DEF chunk
<1>2. Len(vals) \in Nat /\ DOMAIN vals = 1 .. Len(vals) /\ vals = [i \in 1 .. Len(vals) |-> vals[i]]
      /\ \A i \in 1 .. Len(vals) : vals[i] \in Value
  OBVIOUS
<1>3. ASSUME ~chunk.nulls PROVE chunk.stream = vals
  <2>1. \A i \in 1 .. Len(vals) : vals[i] \in Int
    BY <1>1, <1>2, <1>3 DEF Value
  <2>2. vals \in Seq(Int)
    BY <1>2, <2>1
  <2>3. Among(vals, Int) = vals
    BY <2>2, Among_All
  <2> QED BY <1>1, <2>3, Present_Among
<1>4. ASSUME NEW i \in 1 .. Len(vals)
      PROVE  (IF chunk.bitmap[i]
                THEN chunk.stream[Cardinality({j \in 1..i : chunk.bitmap[j]})] ELSE SqlNull)
             = vals[i]
  <2>1. {j \in 1 .. i : chunk.bitmap[j]} = Filled(vals, i)
    <3>1. \A j \in 1 .. i : j \in DOMAIN vals
      BY <1>2
    <3>2. \A j \in DOMAIN vals : chunk.bitmap[j] = (vals[j] # SqlNull)
      BY <1>1, Zenon
    <3>3. \A j \in 1 .. i : chunk.bitmap[j] <=> vals[j] # SqlNull
      BY <3>1, <3>2
    <3> QED BY <3>3 DEF Filled
  <2>2. Counted(vals)
    BY Present_Counted
  <2> QED BY <1>1, <1>2, <2>1, <2>2 DEF Counted
<1>5. [i \in 1 .. Len(vals) |->
         IF chunk.bitmap[i]
           THEN chunk.stream[Cardinality({j \in 1..i : chunk.bitmap[j]})] ELSE SqlNull] = vals
  BY <1>2, <1>4
<1>6. DecodeColumn(chunk, Len(vals)) = vals
  BY <1>3, <1>5 DEF DecodeColumn
<1> QED BY <1>3, <1>6 DEF chunk

-----------------------------------------------------------------------------
(* Chunk groups.                                                           *)

\* A value of a row is an integer or NULL.
LEMMA Column_Facts ==
    ASSUME NEW rs \in Seq(Rows), NEW c \in 1 .. 2
    PROVE  /\ Column(rs, c) \in Seq(Value) /\ Len(Column(rs, c)) = Len(rs)
           /\ \A i \in 1 .. Len(rs) : Column(rs, c)[i] = rs[i][c]
<1>1. /\ DOMAIN rs = 1 .. Len(rs) /\ Len(rs) \in Nat
      /\ \A i \in 1 .. Len(rs) : rs[i] \in Rows
  OBVIOUS
<1>2. \A r \in Rows : r[1] \in Value /\ r[2] \in Value
  BY QueryAssumption DEF Value
<1>3. \A r \in Rows : r[c] \in Value
  BY <1>2
<1>4. Column(rs, c) = [i \in 1 .. Len(rs) |-> rs[i][c]]
  BY <1>1 DEF Column
<1>5. \A i \in 1 .. Len(rs) : rs[i][c] \in Value
  BY <1>1, <1>3
<1> DEFINE col == [i \in 1 .. Len(rs) |-> rs[i][c]]
<1>6. col \in Seq(Value) /\ Len(col) = Len(rs) /\ \A i \in 1 .. Len(rs) : col[i] = rs[i][c]
  BY <1>1, <1>5
<1> QED BY <1>4, <1>6

LEMMA EncodeGroup_Facts ==
    ASSUME NEW rs \in Seq(Rows)
    PROVE  /\ EncodeGroup(rs).n = Len(rs)
           /\ \A c \in 1 .. 2 : EncodeGroup(rs).cols[c] = EncodeColumn(Column(rs, c))
BY DEF EncodeGroup

\* The rows whose two columns these are.
LEMMA Rows_Pair ==
    ASSUME NEW rs \in Seq(Rows)
    PROVE  [i \in 1 .. Len(rs) |-> <<Column(rs, 1)[i], Column(rs, 2)[i]>>] = rs
<1>1. /\ rs = [i \in 1 .. Len(rs) |-> rs[i]] /\ \A i \in 1 .. Len(rs) : rs[i] \in Rows
  OBVIOUS
<1>2. \A r \in Rows : <<r[1], r[2]>> = r
  BY QueryAssumption
<1>3. \A i \in 1 .. Len(rs) : Column(rs, 1)[i] = rs[i][1] /\ Column(rs, 2)[i] = rs[i][2]
  BY Column_Facts
<1>4. \A i \in 1 .. Len(rs) : <<Column(rs, 1)[i], Column(rs, 2)[i]>> = rs[i]
  BY <1>1, <1>2, <1>3
<1> QED BY <1>1, <1>4

\* A group of the table gives the rows that were encoded, on both routes.
LEMMA DecodeGroup_Exact ==
    ASSUME NEW rs \in Seq(Rows), NEW k \in DOMAIN Groups, Groups[k] = EncodeGroup(rs)
    PROVE  DecodeGroup(Groups[k]) = rs
<1> DEFINE g == Groups[k]
           col(c) == IF FixedMode(c) THEN g.cols[c].stream ELSE DecodeColumn(g.cols[c], g.n)
<1>1. g.n = Len(rs) /\ \A c \in 1 .. 2 : g.cols[c] = EncodeColumn(Column(rs, c))
  BY EncodeGroup_Facts
<1>2. ASSUME NEW c \in 1 .. 2 PROVE col(c) = Column(rs, c)
  <2>1. Column(rs, c) \in Seq(Value) /\ Len(Column(rs, c)) = Len(rs)
    BY Column_Facts
  <2>2. FixedMode(c) => ~g.cols[c].nulls
    BY DEF FixedMode
  <2>3. /\ DecodeColumn(EncodeColumn(Column(rs, c)), Len(rs)) = Column(rs, c)
        /\ ~EncodeColumn(Column(rs, c)).nulls => EncodeColumn(Column(rs, c)).stream = Column(rs, c)
    BY <2>1, DecodeColumn_Exact
  <2> QED BY <1>1, <2>2, <2>3
<1>3. \A c \in 1 .. 2 : Len(col(c)) = g.n
  BY <1>1, <1>2, Column_Facts
<1>4. DecodeGroup(g) = [i \in 1 .. g.n |-> <<col(1)[i], col(2)[i]>>]
  BY <1>3 DEF DecodeGroup
<1>5. col(1) = Column(rs, 1) /\ col(2) = Column(rs, 2)
  BY <1>2
<1> HIDE DEF g, col
<1>6. DecodeGroup(g) = [i \in 1 .. Len(rs) |-> <<Column(rs, 1)[i], Column(rs, 2)[i]>>]
  BY <1>1, <1>4, <1>5
<1> QED BY <1>6, Rows_Pair DEF g

\* decode_columns reads the same.
Cells(g) ==
    [i \in 1..g.n |-> <<DecodeColumn(g.cols[1], g.n)[i], DecodeColumn(g.cols[2], g.n)[i]>>]

LEMMA Cells_Exact ==
    ASSUME NEW rs \in Seq(Rows)
    PROVE  Cells(EncodeGroup(rs)) = rs
<1> DEFINE g == EncodeGroup(rs)
<1>1. g.n = Len(rs) /\ \A c \in 1 .. 2 : g.cols[c] = EncodeColumn(Column(rs, c))
  BY EncodeGroup_Facts
<1>2. \A c \in 1 .. 2 : DecodeColumn(g.cols[c], g.n) = Column(rs, c)
  BY <1>1, Column_Facts, DecodeColumn_Exact
<1> HIDE DEF g
<1>3. Cells(g) = [i \in 1 .. Len(rs) |-> <<Column(rs, 1)[i], Column(rs, 2)[i]>>]
  BY <1>1, <1>2 DEF Cells
<1> QED BY <1>3, Rows_Pair DEF g

-----------------------------------------------------------------------------
(* The minimum and the maximum of a chunk.                                 *)

LEMMA Extremes_Seq ==
    \A s \in Seq(Int) :
      s # <<>> => /\ \E i \in DOMAIN s : \A j \in DOMAIN s : s[i] <= s[j]
                  /\ \E i \in DOMAIN s : \A j \in DOMAIN s : s[i] >= s[j]
<1> DEFINE Ends(s) == /\ \E i \in DOMAIN s : \A j \in DOMAIN s : s[i] <= s[j]
                      /\ \E i \in DOMAIN s : \A j \in DOMAIN s : s[i] >= s[j]
           T == {s \in Seq(Int) : s # <<>> => Ends(s)}
<1>1. <<>> \in T
  OBVIOUS
<1>2. ASSUME NEW s \in Seq(Int), NEW x \in Int, s \in T PROVE Append(s, x) \in T
  <2> DEFINE more == Append(s, x)
             n == Len(s)
  <2>1. /\ n \in Nat /\ more \in Seq(Int) /\ DOMAIN more = 1 .. n + 1 /\ DOMAIN s = 1 .. n
        /\ more[n + 1] = x
        /\ \A i \in 1 .. n : more[i] = s[i] /\ s[i] \in Int
    OBVIOUS
  <2>2. s # <<>> => Ends(s)
    BY <1>2
  <2>3. s = <<>> => n = 0
    OBVIOUS
  <2> HIDE DEF more, n
  <2>4. CASE s = <<>>
    <3>1. \A j \in DOMAIN more : more[j] = x
      BY <2>1, <2>3, <2>4
    <3>2. n + 1 \in DOMAIN more
      BY <2>1
    <3>3. Ends(more)
      BY <2>1, <3>1, <3>2
    <3> QED BY <2>1, <3>3 DEF more
  <2>5. CASE s # <<>>
    <3>1. \E i \in DOMAIN more : \A j \in DOMAIN more : more[i] <= more[j]
      <4>1. PICK i \in DOMAIN s : \A j \in DOMAIN s : s[i] <= s[j]
        BY <2>2, <2>5
      <4>2. CASE s[i] <= x
        <5>1. \A j \in DOMAIN more : more[i] <= more[j]
          BY <2>1, <4>1, <4>2
        <5>2. i \in DOMAIN more
          BY <2>1
        <5> QED BY <5>1, <5>2
      <4>3. CASE ~(s[i] <= x)
        <5>1. \A j \in DOMAIN more : more[n + 1] <= more[j]
          BY <2>1, <4>1, <4>3
        <5>2. n + 1 \in DOMAIN more
          BY <2>1
        <5> QED BY <5>1, <5>2
      <4> QED BY <4>2, <4>3
    <3>2. \E i \in DOMAIN more : \A j \in DOMAIN more : more[i] >= more[j]
      <4>1. PICK i \in DOMAIN s : \A j \in DOMAIN s : s[i] >= s[j]
        BY <2>2, <2>5
      <4>2. CASE s[i] >= x
        <5>1. \A j \in DOMAIN more : more[i] >= more[j]
          BY <2>1, <4>1, <4>2
        <5>2. i \in DOMAIN more
          BY <2>1
        <5> QED BY <5>1, <5>2
      <4>3. CASE ~(s[i] >= x)
        <5>1. \A j \in DOMAIN more : more[n + 1] >= more[j]
          BY <2>1, <4>1, <4>3
        <5>2. n + 1 \in DOMAIN more
          BY <2>1
        <5> QED BY <5>1, <5>2
      <4> QED BY <4>2, <4>3
    <3> QED BY <2>1, <3>1, <3>2 DEF more
  <2> QED BY <2>4, <2>5
<1> HIDE DEF T
<1>3. Seq(Int) \subseteq T
  BY <1>1, <1>2, AmongFold!SequenceInduction
<1> QED BY <1>3 DEF T

LEMMA Extremes ==
    ASSUME NEW s \in Seq(Int), s # <<>>
    PROVE  /\ Min(ToSet(s)) \in ToSet(s) /\ \A x \in ToSet(s) : Min(ToSet(s)) <= x
           /\ Max(ToSet(s)) \in ToSet(s) /\ \A x \in ToSet(s) : Max(ToSet(s)) >= x
<1>1. /\ \E y \in ToSet(s) : \A x \in ToSet(s) : y <= x
      /\ \E y \in ToSet(s) : \A x \in ToSet(s) : y >= x
  BY Extremes_Seq DEF ToSet
<1> DEFINE S == ToSet(s)
<1> HIDE DEF S
<1>2. /\ \E y \in S : \A x \in S : y <= x
      /\ \E y \in S : \A x \in S : y >= x
  BY <1>1 DEF S
<1>3. Min(S) \in S /\ \A x \in S : Min(S) <= x
  BY <1>2 DEF Min
<1>4. Max(S) \in S /\ \A x \in S : Max(S) >= x
  BY <1>2 DEF Max
<1> QED BY <1>3, <1>4 DEF S

\* The values of a column that are no NaN, in order.
Numbers(vals) == Among(Present(vals), Int \ {NaN})

LEMMA Numbers_Facts ==
    ASSUME NEW vals \in Seq(Value)
    PROVE  /\ Present(vals) \in Seq(Int)
           /\ ToSet(Present(vals)) = ToSet(vals) \cap Int
           /\ Numbers(vals) \in Seq(Int)
           /\ ToSet(Numbers(vals)) = ToSet(Present(vals)) \ {NaN}
<1>1. Present(vals) = Among(vals, Int)
  BY Present_Among
<1>2. Value \cap Int = Int
  BY DEF Value
<1>3. Among(vals, Int) \in Seq(Value \cap Int)
  BY Among_In
<1>4. Present(vals) \in Seq(Int)
  BY <1>1, <1>2, <1>3
<1>5. ToSet(Present(vals)) = ToSet(vals) \cap Int
  BY <1>1, Among_Elements
<1> DEFINE p == Present(vals)
           N == Int \ {NaN}
<1>6. p \in Seq(Int) /\ N \subseteq Int
  BY <1>4
<1> HIDE DEF p, N
<1>7. Among(p, N) \in Seq(Int)
  <2>1. Among(p, N) \in Seq(Int \cap N)
    BY <1>6, Among_In
  <2>2. Int \cap N \subseteq Int
    OBVIOUS
  <2> QED BY <2>1, <2>2, SeqMonotonic
<1>8. ToSet(Among(p, N)) = ToSet(p) \cap N
  BY <1>6, Among_Elements
<1>9. ToSet(p) \subseteq Int
  BY <1>6, Elements_Seq
<1>10. ToSet(p) \cap N = ToSet(p) \ {NaN}
  BY <1>9 DEF N
<1> QED BY <1>4, <1>5, <1>7, <1>8, <1>10 DEF Numbers, p, N

LEMMA ToSet_Empty ==
    ASSUME NEW B, NEW s \in Seq(B) PROVE ToSet(s) = {} <=> s = <<>>
<1>1. Len(s) \in Nat /\ DOMAIN s = 1 .. Len(s)
  OBVIOUS
<1>2. ASSUME s # <<>> PROVE ToSet(s) # {}
  <2>1. Len(s) # 0
    BY <1>2
  <2>2. 1 \in DOMAIN s
    BY <1>1, <2>1
  <2> QED BY <2>2 DEF ToSet
<1>3. ToSet(<<>>) = {}
  BY DEF ToSet
<1> QED BY <1>2, <1>3

\* What the directory says of a chunk whose values these are.
Bounds(zone, numbers) ==
    /\ zone.has \in BOOLEAN
    /\ zone.has <=> numbers # {}
    /\ zone.has =>
         /\ zone.min \in numbers /\ zone.max \in numbers
         /\ \A x \in numbers : x \in Int /\ zone.min <= x /\ zone.max >= x

LEMMA Minmax_Bounds ==
    ASSUME NEW vals \in Seq(Value)
    PROVE  Bounds(ComputeMinmax(vals), ToSet(Numbers(vals)))
<1> DEFINE N == ToSet(Numbers(vals))
<1>1. N = ToSet(Present(vals)) \ {NaN} /\ Numbers(vals) \in Seq(Int) /\ N \subseteq Int
  BY Numbers_Facts, Elements_Seq
<1>2. N # {} <=> Numbers(vals) # <<>>
  BY <1>1, ToSet_Empty
<1>3. N # {} => /\ Min(N) \in N /\ \A x \in N : Min(N) <= x
                /\ Max(N) \in N /\ \A x \in N : Max(N) >= x
  BY <1>1, <1>2, Extremes
<1> HIDE DEF N
<1>4. ComputeMinmax(vals) =
        IF N = {} THEN [has |-> FALSE, min |-> 0, max |-> 0]
        ELSE [has |-> TRUE, min |-> Min(N), max |-> Max(N)]
  BY <1>1 DEF ComputeMinmax
<1>5. CASE N = {}
  BY <1>4, <1>5 DEF N, Bounds
<1>6. CASE N # {}
  <2> DEFINE zone == ComputeMinmax(vals)
  <2>2. zone.has = TRUE /\ zone.min = Min(N) /\ zone.max = Max(N)
    BY <1>4, <1>6
  <2> HIDE DEF zone
  <2>3. Min(N) \in N /\ Max(N) \in N /\ \A x \in N : x \in Int /\ Min(N) <= x /\ Max(N) >= x
    <3>1. N \subseteq Int
      BY <1>1 DEF N
    <3> QED BY <1>3, <1>6, <3>1
  <2>4. Bounds(zone, N)
    BY <1>6, <2>2, <2>3 DEF Bounds
  <2>1. Bounds(ComputeMinmax(vals), N)
    BY <2>4 DEF zone
  <2> QED BY <2>1 DEF N
<1> QED BY <1>5, <1>6

-----------------------------------------------------------------------------
(* A chunk group that is skipped.                                          *)

Matching(w) == {r \in Rows : RowMatches(r, w)}

LEMMA Filter_Among ==
    ASSUME NEW rs \in Seq(Rows), NEW w
    PROVE  Filter(rs, w) = Among(rs, Matching(w)) /\ Filter(rs, w) \in Seq(Rows)
<1> DEFINE B == ToSet(rs)
           M == {r \in B : RowMatches(r, w)}
<1>1. rs \in Seq(B) /\ B \subseteq Rows
  BY Elements_Seq
<1>2. \A x \in B : x \in M <=> x \in Matching(w)
  BY <1>1 DEF Matching
<1>3. Filter(rs, w) = Among(rs, M)
  BY DEF Filter
<1> HIDE DEF B, M
<1>4. Among(rs, M) = Among(rs, Matching(w))
  BY <1>1, <1>2, Among_Same
<1>5. Among(rs, Matching(w)) \in Seq(Rows \cap Matching(w))
  BY Among_In
<1>6. Rows \cap Matching(w) \subseteq Rows
  OBVIOUS
<1> QED BY <1>3, <1>4, <1>5, <1>6, SeqMonotonic

LEMMA Excluded_Sound ==
    ASSUME NEW min \in Int, NEW max \in Int, NEW c \in Int, NEW op \in ZoneOps, NEW x \in Int,
           min <= x, x <= max, Excluded(min, max, c, op)
    PROVE  ~Compares(x, op, c)
<1>1. CASE op = "lt"
  BY <1>1 DEF Excluded, Compares
<1>2. CASE op = "le"
  BY <1>2 DEF Excluded, Compares
<1>3. CASE op = "eq"
  BY <1>3 DEF Excluded, Compares
<1>4. CASE op = "ge"
  BY <1>4 DEF Excluded, Compares
<1>5. CASE op = "gt"
  BY <1>5 DEF Excluded, Compares
<1>6. CASE op = "ne"
  BY <1>6 DEF Excluded, Compares
<1> QED BY <1>1, <1>2, <1>3, <1>4, <1>5, <1>6 DEF ZoneOps

LEMMA Skipped_NoMatch ==
    ASSUME KeysAreNumbers, NEW rs \in Seq(Rows), NEW w \in Wheres,
           SkippedByZone(EncodeGroup(rs), w)
    PROVE  Filter(rs, w) = <<>>
<1> DEFINE keys == Column(rs, 1)
           zone == ComputeMinmax(keys)
           N == ToSet(Numbers(keys))
<1>1. EncodeGroup(rs).cols[1].zone = zone
  <2>1. EncodeGroup(rs).cols[1] = EncodeColumn(keys)
    BY EncodeGroup_Facts
  <2>2. EncodeColumn(keys).zone = zone
    BY DEF EncodeColumn
  <2> QED BY <2>1, <2>2
<1>2. w.op \in ZoneOps /\ zone.has /\ Excluded(zone.min, zone.max, w.const, w.op)
  BY <1>1 DEF SkippedByZone, ChunkCanMatch
<1>3. w.const \in Int /\ w.op # "in" /\ w.op # "true"
  <2>1. w \in [op : ZoneOps, const : Consts]
    BY <1>2 DEF Wheres, Everything, ZoneOps
  <2>2. w.const \in Consts /\ w.op \in ZoneOps
    BY <2>1
  <2> QED BY <2>2, QueryAssumption DEF ZoneOps
<1>4. /\ keys \in Seq(Value) /\ Len(keys) = Len(rs)
      /\ \A i \in 1 .. Len(rs) : keys[i] = rs[i][1]
  BY Column_Facts
<1>5. Bounds(zone, N) /\ N = (ToSet(keys) \cap Int) \ {NaN}
  BY <1>4, Minmax_Bounds, Numbers_Facts
<1> HIDE DEF keys, zone, N
<1>6. zone.min \in Int /\ zone.max \in Int
      /\ \A x \in N : x \in Int /\ zone.min <= x /\ zone.max >= x
  BY <1>2, <1>5 DEF Bounds
<1>7. ASSUME NEW r \in ToSet(rs), RowMatches(r, w) PROVE FALSE
  <2>1. PICK i \in 1 .. Len(rs) : r = rs[i]
    BY DEF ToSet
  <2>2. r \in Rows /\ r[1] = keys[i]
    BY <1>4, <2>1
  <2>3. r[1] # SqlNull /\ Compares(r[1], w.op, w.const)
    BY <1>3, <1>7 DEF RowMatches
  <2>4. r[1] \in Int /\ r[1] # NaN
    BY <2>2, <2>3, QueryAssumption DEF KeysAreNumbers
  <2>5. keys[i] \in ToSet(keys)
    <3>1. DOMAIN keys = 1 .. Len(rs)
      BY <1>4
    <3> QED BY <3>1 DEF ToSet
  <2>6. r[1] \in N
    BY <1>5, <2>2, <2>4, <2>5
  <2>7. zone.min <= r[1] /\ r[1] <= zone.max
    BY <1>6, <2>4, <2>6
  <2>8. ~Compares(r[1], w.op, w.const)
    BY <1>2, <1>3, <1>6, <2>4, <2>7, Excluded_Sound
  <2> QED BY <2>3, <2>8
<1> DEFINE B == ToSet(rs)
           M == {r \in B : RowMatches(r, w)}
<1>8. B \cap M = {} /\ rs \in Seq(B)
  BY <1>7, Elements_Seq
<1>9. Filter(rs, w) = Among(rs, M)
  BY DEF Filter
<1> HIDE DEF B, M
<1> QED BY <1>8, <1>9, Among_None

-----------------------------------------------------------------------------
(* The chunk groups of a stripe.                                           *)

\* Where the first n groups of a stripe of so many rows end.
Edge(n, len) == IF n * GroupRows <= len THEN n * GroupRows ELSE len

Groupings(len) == (len + GroupRows - 1) \div GroupRows

LEMMA Edge_Facts ==
    ASSUME NEW len \in Nat
    PROVE  /\ Groupings(len) \in Nat /\ Edge(0, len) = 0 /\ Edge(Groupings(len), len) = len
           /\ \A n \in Nat : Edge(n, len) \in 0 .. len
           /\ \A n \in 1 .. Groupings(len) :
                /\ Edge(n - 1, len) = (n - 1) * GroupRows /\ Edge(n - 1, len) <= Edge(n, len)
                /\ Min({n * GroupRows, len}) = Edge(n, len)
<1> DEFINE g == GroupRows
           q == (len + g - 1) \div g
<1>1. g \in Nat /\ g >= 1
  BY QueryAssumption
<1>2. q \in Nat /\ q * g <= len + g - 1 /\ len + g - 1 < (q + 1) * g
  <2> HIDE DEF g
  <2>1. len + g - 1 \in Nat
    BY <1>1
  <2> DEFINE a == len + g - 1
  <2> HIDE DEF a
  <2>2. \A b \in Nat : b \div g \in Nat /\ (b \div g) * g <= b /\ b < (b \div g + 1) * g
    BY <1>1
  <2>3. a \in Nat
    BY <2>1 DEF a
  <2> QED BY <2>2, <2>3 DEF a
<1> HIDE DEF g, q
<1>3. len <= q * g
  <2>1. (q + 1) * g = q * g + g /\ q * g \in Nat
    BY <1>1, <1>2
  <2> QED BY <1>1, <1>2, <2>1
<1>4. ASSUME NEW n \in Nat PROVE n * g \in Nat
  BY <1>1
<1>5. ASSUME NEW n \in 1 .. q PROVE (n - 1) * g <= len /\ (n - 1) * g <= n * g /\ (n - 1) * g \in Nat
  <2>1. n * g <= q * g
    BY <1>1, <1>2
  <2>2. n * g = (n - 1) * g + g /\ (n - 1) * g \in Nat
    BY <1>1, <1>2
  <2> QED BY <1>1, <1>2, <1>4, <2>1, <2>2
<1>6. \A n \in Nat : Edge(n, len) = IF n * g <= len THEN n * g ELSE len
  BY DEF Edge, g
<1>7. Groupings(len) = q
  BY DEF Groupings, q, g
<1>8. Edge(0, len) = 0 /\ Edge(q, len) = len
  BY <1>1, <1>2, <1>3, <1>4, <1>6
<1>9. \A n \in Nat : Edge(n, len) \in 0 .. len
  BY <1>4, <1>6
<1>10. ASSUME NEW n \in 1 .. q
       PROVE  /\ Edge(n - 1, len) = (n - 1) * g /\ Edge(n - 1, len) <= Edge(n, len)
              /\ Min({n * g, len}) = Edge(n, len)
  <2>1. n \in Nat /\ n - 1 \in Nat /\ n * g \in Nat
    BY <1>2, <1>4
  <2>2. Edge(n - 1, len) = (n - 1) * g /\ Edge(n, len) = IF n * g <= len THEN n * g ELSE len
    BY <1>5, <1>6, <2>1
  <2>3. Edge(n - 1, len) <= Edge(n, len)
    BY <1>5, <2>1, <2>2
  <2>4. \A a, b \in Nat : Min({a, b}) = IF a <= b THEN a ELSE b
    <3> SUFFICES ASSUME NEW a \in Nat, NEW b \in Nat PROVE Min({a, b}) = IF a <= b THEN a ELSE b
      OBVIOUS
    <3> DEFINE S == {a, b}
    <3>1. \E y \in S : \A x \in S : y <= x
      OBVIOUS
    <3>2. Min(S) \in S /\ \A x \in S : Min(S) <= x
      <4> HIDE DEF S
      <4> QED BY <3>1 DEF Min
    <3> QED BY <3>2
  <2> QED BY <2>1, <2>2, <2>3, <2>4
<1> QED BY <1>2, <1>7, <1>8, <1>9, <1>10 DEF g

\* The rows that the groups of a stripe hold.
Split(rs) ==
    [n \in 1 .. Groupings(Len(rs)) |-> SubSeq(rs, Edge(n - 1, Len(rs)) + 1, Edge(n, Len(rs)))]

LEMMA Split_Facts ==
    ASSUME NEW rs \in Seq(Rows)
    PROVE  /\ Split(rs) \in Seq(Seq(Rows)) /\ Len(Split(rs)) = Groupings(Len(rs))
           /\ ChunkGroups(rs) = [n \in 1 .. Len(Split(rs)) |-> EncodeGroup(Split(rs)[n])]
           /\ FlattenSeq(Split(rs)) = rs
<1> DEFINE len == Len(rs)
           k == Groupings(len)
<1>1. len \in Nat /\ k \in Nat
  BY Edge_Facts
<1>2. \A n \in 1 .. k : /\ Edge(n - 1, len) = (n - 1) * GroupRows
                        /\ Min({n * GroupRows, len}) = Edge(n, len)
                        /\ Edge(n - 1, len) \in 0 .. len /\ Edge(n, len) \in 0 .. len
                        /\ Edge(n - 1, len) <= Edge(n, len)
  <2> SUFFICES ASSUME NEW n \in 1 .. k
               PROVE  /\ Edge(n - 1, len) = (n - 1) * GroupRows
                      /\ Min({n * GroupRows, len}) = Edge(n, len)
                      /\ Edge(n - 1, len) \in 0 .. len /\ Edge(n, len) \in 0 .. len
                      /\ Edge(n - 1, len) <= Edge(n, len)
    OBVIOUS
  <2>1. n \in Nat /\ n - 1 \in Nat
    BY <1>1
  <2> HIDE DEF len
  <2>2. Edge(n - 1, len) \in 0 .. len /\ Edge(n, len) \in 0 .. len
    BY <1>1, <2>1, Edge_Facts
  <2> QED BY <1>1, <2>2, Edge_Facts
<1>3. \A n \in 1 .. k : SubSeq(rs, Edge(n - 1, len) + 1, Edge(n, len)) \in Seq(Rows)
  <2> SUFFICES ASSUME NEW n \in 1 .. k
               PROVE  SubSeq(rs, Edge(n - 1, len) + 1, Edge(n, len)) \in Seq(Rows)
    OBVIOUS
  <2> DEFINE a == Edge(n - 1, len)
             b == Edge(n, len)
  <2>1. a \in 0 .. len /\ b \in 0 .. len
    BY <1>2
  <2> HIDE DEF a, b
  <2>2. SubSeq(rs, a + 1, b) \in Seq(Rows)
    BY <1>1, <2>1
  <2> QED BY <2>2 DEF a, b
<1>4. Split(rs) \in Seq(Seq(Rows)) /\ Len(Split(rs)) = k
  <2> DEFINE W == Seq(Rows)
             F(n) == SubSeq(rs, Edge(n - 1, len) + 1, Edge(n, len))
  <2>1. \A n \in 1 .. k : F(n) \in W
    BY <1>3
  <2>2. Split(rs) = [n \in 1 .. k |-> F(n)]
    BY DEF Split
  <2> HIDE DEF W, F, k
  <2>3. [n \in 1 .. k |-> F(n)] \in Seq(W) /\ Len([n \in 1 .. k |-> F(n)]) = k
    BY <1>1, <2>1
  <2> QED BY <2>2, <2>3 DEF W
<1>5. ChunkGroups(rs) = [n \in 1 .. k |-> EncodeGroup(Split(rs)[n])]
  <2>1. ChunkGroups(rs) = [n \in 1 .. k |->
          EncodeGroup(SubSeq(rs, (n - 1) * GroupRows + 1, Min({n * GroupRows, len})))]
    BY DEF ChunkGroups, Groupings
  <2>2. ASSUME NEW n \in 1 .. k
        PROVE  SubSeq(rs, (n - 1) * GroupRows + 1, Min({n * GroupRows, len})) = Split(rs)[n]
    BY <1>2 DEF Split
  <2> HIDE DEF k, len
  <2> QED BY <2>1, <2>2
<1>7. \A n \in 1 .. k : Split(rs)[n] = SubSeq(rs, Edge(n - 1, len) + 1, Edge(n, len))
  BY DEF Split
<1>6. FlattenSeq(Split(rs)) = rs
  <2> DEFINE Upto(n) == [i \in 1 .. n |-> Split(rs)[i]]
             T == {n \in Nat : n <= k =>
                     Upto(n) \in Seq(Seq(Rows)) /\ FlattenSeq(Upto(n)) = SubSeq(rs, 1, Edge(n, len))}
  <2>1. 0 \in T
    <3>1. Upto(0) = <<>> /\ <<>> \in Seq(Seq(Rows))
      BY EmptySeq
    <3>2. Edge(0, len) = 0
      BY <1>1, Edge_Facts
    <3>3. SubSeq(rs, 1, 0) = <<>>
      OBVIOUS
    <3> HIDE DEF Upto
    <3> QED BY <3>1, <3>2, <3>3, FlattenSeq_Empty
  <2>2. ASSUME NEW n \in Nat, n \in T PROVE n + 1 \in T
    <3> SUFFICES ASSUME n + 1 <= k
                 PROVE  /\ Upto(n + 1) \in Seq(Seq(Rows))
                        /\ FlattenSeq(Upto(n + 1)) = SubSeq(rs, 1, Edge(n + 1, len))
      OBVIOUS
    <3> DEFINE part == Split(rs)[n + 1]
               a == Edge(n, len)
               b == Edge(n + 1, len)
    <3>1. Upto(n) \in Seq(Seq(Rows)) /\ FlattenSeq(Upto(n)) = SubSeq(rs, 1, a)
      BY <1>1, <2>2
    <3>2. n + 1 \in 1 .. k /\ n + 1 - 1 = n
      BY <1>1
    <3>3. part \in Seq(Rows) /\ part = SubSeq(rs, a + 1, b)
      <4>1. part = SubSeq(rs, Edge(n + 1 - 1, len) + 1, Edge(n + 1, len))
        BY <1>7, <3>2
      <4> HIDE DEF part, len, k
      <4> QED BY <1>3, <3>2, <4>1
    <3>4. a \in 0 .. len /\ b \in 0 .. len /\ a <= b
      <4> DEFINE m == n + 1
      <4>1. m \in 1 .. k /\ m - 1 = n
        BY <3>2
      <4> HIDE DEF m, k, len
      <4>2. Edge(m - 1, len) \in 0 .. len /\ Edge(m, len) \in 0 .. len
            /\ Edge(m - 1, len) <= Edge(m, len)
        BY <1>2, <4>1
      <4> QED BY <4>1, <4>2 DEF m
    <3>5. Upto(n + 1) = Append(Upto(n), part)
      <4> DEFINE W == Seq(Rows)
                 u == Upto(n)
                 v == Upto(n + 1)
      <4>1. /\ Len(u) = n /\ \A i \in 1 .. n : u[i] = Split(rs)[i]
            /\ \A i \in 1 .. n + 1 : v[i] = Split(rs)[i]
        OBVIOUS
      <4>2. u \in Seq(W) /\ part \in W
        BY <3>1, <3>3
      <4>3. \A i \in 1 .. k : Split(rs)[i] \in W
        BY <1>3, <1>7
      <4>4. v \in Seq(W) /\ Len(v) = n + 1
        <5>1. \A i \in 1 .. n + 1 : Split(rs)[i] \in W
          BY <1>1, <4>3
        <5> HIDE DEF W, k, len
        <5> QED BY <5>1
      <4> HIDE DEF u, v, W, T, k, len
      <4>5. Append(u, part) \in Seq(W) /\ Len(Append(u, part)) = n + 1
            /\ \A i \in 1 .. n + 1 : Append(u, part)[i] = IF i = n + 1 THEN part ELSE u[i]
        <5> HIDE DEF part
        <5> QED BY <4>1, <4>2
      <4>6. \A i \in 1 .. n + 1 : Append(u, part)[i] = v[i]
        BY <4>1, <4>5
      <4>7. Append(u, part) = v
        <5> HIDE DEF part
        <5> QED BY <4>4, <4>5, <4>6, SeqEqual
      <4> QED BY <4>7 DEF u, v
    <3> HIDE DEF T, Upto, part, a, b
    <3>6. FlattenSeq(Append(Upto(n), part)) = FlattenSeq(Upto(n)) \o part
      BY <3>1, <3>3, FlattenSeq_Append
    <3>7. SubSeq(rs, 1, a) \o SubSeq(rs, a + 1, b) = SubSeq(rs, 1, b)
      BY <1>1, <3>4, ConcatAdjacentSubSeq
    <3>8. Append(Upto(n), part) \in Seq(Seq(Rows))
      <4> DEFINE W == Seq(Rows)
      <4>1. Upto(n) \in Seq(W) /\ part \in W
        BY <3>1, <3>3
      <4> HIDE DEF W
      <4>2. Append(Upto(n), part) \in Seq(W)
        BY <4>1
      <4> QED BY <4>2 DEF W
    <3> QED BY <3>1, <3>3, <3>5, <3>6, <3>7, <3>8 DEF b
  <2> HIDE DEF T
  <2>3. k \in T
    BY <1>1, <2>1, <2>2, AmongFold!Induction
  <2>4. FlattenSeq(Upto(k)) = SubSeq(rs, 1, Edge(k, len))
    BY <1>1, <2>3 DEF T
  <2>5. Upto(k) = Split(rs)
    BY DEF Split
  <2>6. Edge(k, len) = len
    BY <1>1, Edge_Facts
  <2>7. SubSeq(rs, 1, len) = rs
    OBVIOUS
  <2> HIDE DEF Upto
  <2> QED BY <2>4, <2>5, <2>6, <2>7
<1> QED BY <1>4, <1>5, <1>6

-----------------------------------------------------------------------------
(* The invariant: the chunk groups and the buffer hold what was inserted.  *)

Encoded == {EncodeGroup(rs) : rs \in Seq(Rows)}
GroupsOf(parts) == [i \in 1 .. Len(parts) |-> EncodeGroup(parts[i])]

Holds(groups, rest, rows) ==
    \E parts \in Seq(Seq(Rows)) :
      groups = GroupsOf(parts) /\ FlattenSeq(parts) \o rest = rows

QueryInv ==
    /\ unflushed \in Seq(Rows) /\ inserted \in Seq(Rows)
    /\ stripes \in Seq(Seq(Encoded))
    /\ Holds(FlattenSeq(stripes), unflushed, inserted)

LEMMA GroupsOf_Facts ==
    ASSUME NEW parts \in Seq(Seq(Rows))
    PROVE  /\ GroupsOf(parts) \in Seq(Encoded) /\ Len(GroupsOf(parts)) = Len(parts)
           /\ \A i \in 1 .. Len(parts) :
                parts[i] \in Seq(Rows) /\ GroupsOf(parts)[i] = EncodeGroup(parts[i])
<1> DEFINE W == Seq(Rows)
<1>1. Len(parts) \in Nat /\ \A i \in 1 .. Len(parts) : parts[i] \in W
  OBVIOUS
<1>2. \A rs \in W : EncodeGroup(rs) \in Encoded
  BY DEF Encoded
<1> DEFINE gs == [i \in 1 .. Len(parts) |-> EncodeGroup(parts[i])]
<1>3. \A i \in 1 .. Len(parts) : EncodeGroup(parts[i]) \in Encoded
  BY <1>1, <1>2
<1>4. gs \in Seq(Encoded) /\ Len(gs) = Len(parts)
      /\ \A i \in 1 .. Len(parts) : gs[i] = EncodeGroup(parts[i])
  <2> HIDE DEF W
  <2> QED BY <1>1, <1>3
<1> QED BY <1>1, <1>4 DEF GroupsOf

LEMMA GroupsOf_Concat ==
    ASSUME NEW parts \in Seq(Seq(Rows)), NEW more \in Seq(Seq(Rows))
    PROVE  GroupsOf(parts) \o GroupsOf(more) = GroupsOf(parts \o more)
<1> DEFINE W == Seq(Rows)
           all == parts \o more
           a == GroupsOf(parts)
           b == GroupsOf(more)
           c == GroupsOf(all)
<1>1. parts \in Seq(W) /\ more \in Seq(W)
  OBVIOUS
<1>2. /\ all \in Seq(Seq(Rows)) /\ Len(all) = Len(parts) + Len(more)
      /\ Len(parts) \in Nat /\ Len(more) \in Nat
      /\ \A i \in 1 .. Len(parts) : all[i] = parts[i]
      /\ \A i \in 1 .. Len(more) : all[Len(parts) + i] = more[i]
  <2> HIDE DEF W
  <2>1. /\ all \in Seq(W) /\ Len(all) = Len(parts) + Len(more)
        /\ Len(parts) \in Nat /\ Len(more) \in Nat
        /\ \A i \in 1 .. Len(parts) : all[i] = parts[i]
        /\ \A i \in 1 .. Len(more) : all[Len(parts) + i] = more[i]
    BY <1>1
  <2> QED BY <2>1 DEF W
<1> HIDE DEF all
<1>3. /\ a \in Seq(Encoded) /\ Len(a) = Len(parts)
      /\ b \in Seq(Encoded) /\ Len(b) = Len(more)
      /\ c \in Seq(Encoded) /\ Len(c) = Len(all)
      /\ \A i \in 1 .. Len(parts) : a[i] = EncodeGroup(parts[i])
      /\ \A i \in 1 .. Len(more) : b[i] = EncodeGroup(more[i])
      /\ \A i \in 1 .. Len(all) : c[i] = EncodeGroup(all[i])
  BY <1>2, GroupsOf_Facts
<1> HIDE DEF a, b, c, W
<1>4. /\ a \o b \in Seq(Encoded) /\ Len(a \o b) = Len(parts) + Len(more)
      /\ \A i \in 1 .. Len(parts) : (a \o b)[i] = a[i]
      /\ \A i \in 1 .. Len(more) : (a \o b)[Len(parts) + i] = b[i]
  <2>1. a \in Seq(Encoded) /\ b \in Seq(Encoded)
    BY <1>3
  <2>2. /\ a \o b \in Seq(Encoded) /\ Len(a \o b) = Len(a) + Len(b)
        /\ \A i \in 1 .. Len(a) : (a \o b)[i] = a[i]
        /\ \A i \in 1 .. Len(b) : (a \o b)[Len(a) + i] = b[i]
    BY <2>1
  <2>3. Len(a) = Len(parts) /\ Len(b) = Len(more)
    BY <1>3
  <2> QED BY <2>2, <2>3
<1>5. ASSUME NEW i \in 1 .. Len(parts) + Len(more) PROVE (a \o b)[i] = c[i]
  <2>1. CASE i \in 1 .. Len(parts)
    BY <1>2, <1>3, <1>4, <2>1
  <2>2. CASE i \notin 1 .. Len(parts)
    <3> DEFINE j == i - Len(parts)
    <3>1. j \in 1 .. Len(more) /\ i = Len(parts) + j
      BY <1>2, <2>2
    <3> HIDE DEF j
    <3> QED BY <1>2, <1>3, <1>4, <3>1
  <2> QED BY <2>1, <2>2
<1>6. a \o b = c
  BY <1>2, <1>3, <1>4, <1>5, SeqEqual
<1> QED BY <1>6 DEF a, b, c, all

LEMMA Init_QueryInv ==
    ASSUME QueryInit PROVE QueryInv
<1>1. stripes = <<>> /\ unflushed = <<>> /\ inserted = <<>>
  BY DEF QueryInit
<1>2. \A S : <<>> \in Seq(S)
  BY EmptySeq
<1>3. GroupsOf(<<>>) = <<>> /\ <<>> \o <<>> = <<>>
  BY DEF GroupsOf
<1>4. Holds(<<>>, <<>>, <<>>)
  BY <1>2, <1>3, FlattenSeq_Empty DEF Holds
<1> QED BY <1>1, <1>2, <1>4, FlattenSeq_Empty DEF QueryInv

LEMMA Insert_Holds ==
    ASSUME NEW groups, NEW rest \in Seq(Rows), NEW rows \in Seq(Rows), NEW row \in Rows,
           Holds(groups, rest, rows)
    PROVE  Holds(groups, Append(rest, row), Append(rows, row))
<1>1. PICK parts \in Seq(Seq(Rows)) : groups = GroupsOf(parts) /\ FlattenSeq(parts) \o rest = rows
  BY DEF Holds
<1>2. FlattenSeq(parts) \in Seq(Rows)
  BY FlattenSeq_In
<1> DEFINE flat == FlattenSeq(parts)
<1> HIDE DEF flat
<1>3. flat \o Append(rest, row) = Append(flat \o rest, row)
  BY <1>2, Append_Concat DEF flat
<1>4. FlattenSeq(parts) \o Append(rest, row) = Append(rows, row)
  BY <1>1, <1>3 DEF flat
<1> QED BY <1>1, <1>4 DEF Holds

LEMMA Flush_Holds ==
    ASSUME NEW all \in Seq(Seq(Encoded)), NEW rest \in Seq(Rows), NEW rows \in Seq(Rows),
           Holds(FlattenSeq(all), rest, rows)
    PROVE  /\ Append(all, ChunkGroups(rest)) \in Seq(Seq(Encoded))
           /\ Holds(FlattenSeq(Append(all, ChunkGroups(rest))), <<>>, rows)
<1>1. PICK parts \in Seq(Seq(Rows)) :
        FlattenSeq(all) = GroupsOf(parts) /\ FlattenSeq(parts) \o rest = rows
  BY DEF Holds
<1> DEFINE new == Split(rest)
<1>2. new \in Seq(Seq(Rows)) /\ ChunkGroups(rest) = GroupsOf(new) /\ FlattenSeq(new) = rest
  BY Split_Facts DEF GroupsOf
<1> HIDE DEF new
<1>3. ChunkGroups(rest) \in Seq(Encoded)
  BY <1>2, GroupsOf_Facts
<1>4. FlattenSeq(Append(all, ChunkGroups(rest))) = GroupsOf(parts) \o GroupsOf(new)
  BY <1>1, <1>2, <1>3, FlattenSeq_Append
<1>5. GroupsOf(parts) \o GroupsOf(new) = GroupsOf(parts \o new)
  BY <1>2, GroupsOf_Concat
<1>6. FlattenSeq(parts \o new) = rows
  BY <1>1, <1>2, FlattenSeq_Concat
<1>7. parts \o new \in Seq(Seq(Rows))
  <2> DEFINE W == Seq(Rows)
  <2>1. parts \in Seq(W) /\ new \in Seq(W)
    BY <1>2
  <2> HIDE DEF W
  <2>2. parts \o new \in Seq(W)
    BY <2>1
  <2> QED BY <2>2 DEF W
<1>8. rows \o <<>> = rows
  OBVIOUS
<1>9. Holds(FlattenSeq(Append(all, ChunkGroups(rest))), <<>>, rows)
  BY <1>4, <1>5, <1>6, <1>7, <1>8 DEF Holds
<1>10. Append(all, ChunkGroups(rest)) \in Seq(Seq(Encoded))
  <2> DEFINE W == Seq(Encoded)
             new1 == ChunkGroups(rest)
  <2>1. all \in Seq(W) /\ new1 \in W
    BY <1>3
  <2> HIDE DEF W, new1
  <2>2. Append(all, new1) \in Seq(W)
    BY <2>1
  <2> QED BY <2>2 DEF W, new1
<1> QED BY <1>9, <1>10

LEMMA Next_QueryInv ==
    ASSUME QueryInv, [QueryNext]_queryVars PROVE QueryInv'
<1>1. ASSUME NEW row \in Rows, AccumulateRow(row) PROVE QueryInv'
  <2>1. /\ stripes' = stripes /\ unflushed' = Append(unflushed, row)
        /\ inserted' = Append(inserted, row)
    BY <1>1 DEF AccumulateRow
  <2>2. Append(unflushed, row) \in Seq(Rows) /\ Append(inserted, row) \in Seq(Rows)
    BY DEF QueryInv
  <2>3. Holds(FlattenSeq(stripes), Append(unflushed, row), Append(inserted, row))
    BY Insert_Holds DEF QueryInv
  <2> QED BY <2>1, <2>2, <2>3 DEF QueryInv
<1>2. ASSUME FlushPending PROVE QueryInv'
  <2>1. /\ stripes' = Append(stripes, ChunkGroups(unflushed)) /\ unflushed' = <<>>
        /\ inserted' = inserted
    BY <1>2 DEF FlushPending
  <2>2. <<>> \in Seq(Rows)
    BY EmptySeq
  <2> QED BY <2>1, <2>2, Flush_Holds DEF QueryInv
<1>3. ASSUME NEW q, Ask(q) PROVE QueryInv'
  BY <1>3 DEF Ask, QueryInv
<1>4. ASSUME UNCHANGED queryVars PROVE QueryInv'
  BY <1>4 DEF queryVars, QueryInv
<1> QED BY <1>1, <1>2, <1>3, <1>4 DEF QueryNext

-----------------------------------------------------------------------------
LEMMA Inv_Skip ==
    ASSUME QueryInv, KeysAreNumbers PROVE SkipProvesNoMatch
<1> SUFFICES ASSUME NEW w \in Wheres, NEW i \in DOMAIN Groups, SkippedByZone(Groups[i], w)
             PROVE  Filter(DecodeGroup(Groups[i]), w) = <<>>
  BY DEF SkipProvesNoMatch
<1>1. PICK parts \in Seq(Seq(Rows)) : Groups = GroupsOf(parts)
  BY DEF QueryInv, Holds, Groups
<1>2. i \in 1 .. Len(parts)
  BY <1>1 DEF GroupsOf
<1>3. parts[i] \in Seq(Rows) /\ Groups[i] = EncodeGroup(parts[i])
  BY <1>1, <1>2, GroupsOf_Facts
<1>4. DecodeGroup(Groups[i]) = parts[i]
  BY <1>3, DecodeGroup_Exact
<1>5. SkippedByZone(EncodeGroup(parts[i]), w)
  BY <1>3
<1> QED BY <1>3, <1>4, <1>5, Skipped_NoMatch

\* chunk_can_match (am/zonemap.rs) skips a chunk group only if no row of it
\* satisfies the predicate, where the column of the predicate has no NaN: in every
\* state, of every chunk group and every WHERE clause.
THEOREM SkipsProveNoMatch ==
    ASSUME KeysAreNumbers PROVE QuerySpec => []SkipProvesNoMatch
<1>1. QueryInit => QueryInv
  BY Init_QueryInv
<1>2. QueryInv /\ [QueryNext]_queryVars => QueryInv'
  BY Next_QueryInv
<1>3. QueryInv => SkipProvesNoMatch
  BY Inv_Skip
<1> QED BY <1>1, <1>2, <1>3, PTL DEF QuerySpec

-----------------------------------------------------------------------------
(* What a query reads.                                                     *)

LEMMA Cells_Type == \A g \in Encoded : Cells(g) \in Seq(Rows)
BY Cells_Exact DEF Encoded

CellsOf(groups) == [i \in 1 .. Len(groups) |-> Cells(groups[i])]

LEMMA CellsOf_Facts ==
    ASSUME NEW groups \in Seq(Encoded)
    PROVE  /\ CellsOf(groups) \in Seq(Seq(Rows)) /\ Len(CellsOf(groups)) = Len(groups)
           /\ \A g \in Encoded : CellsOf(Append(groups, g)) = Append(CellsOf(groups), Cells(g))
<1> DEFINE W == Seq(Rows)
           n == Len(groups)
           cs == [i \in 1 .. Len(groups) |-> Cells(groups[i])]
<1>1. n \in Nat /\ \A i \in 1 .. n : groups[i] \in Encoded
  OBVIOUS
<1>2. \A g \in Encoded : Cells(g) \in W
  BY Cells_Type
<1>3. \A i \in 1 .. n : Cells(groups[i]) \in W
  BY <1>1, <1>2
<1> HIDE DEF W
<1>4. cs \in Seq(W) /\ Len(cs) = n /\ \A i \in 1 .. n : cs[i] = Cells(groups[i])
  BY <1>1, <1>3
<1>5. CellsOf(groups) = cs
  BY DEF CellsOf
<1> HIDE DEF cs
<1>6. ASSUME NEW g \in Encoded
      PROVE  CellsOf(Append(groups, g)) = Append(cs, Cells(g))
  <2> DEFINE more == Append(groups, g)
             ms == [i \in 1 .. Len(more) |-> Cells(more[i])]
  <2>1. /\ Len(more) = n + 1 /\ more[n + 1] = g /\ \A i \in 1 .. n : more[i] = groups[i]
    OBVIOUS
  <2> HIDE DEF more
  <2>2. \A i \in 1 .. n + 1 : ms[i] = IF i = n + 1 THEN Cells(g) ELSE cs[i]
    BY <1>1, <1>4, <2>1
  <2>3. \A i \in 1 .. n + 1 : Cells(more[i]) \in W
    BY <1>1, <1>2, <2>1
  <2>4. ms \in Seq(W) /\ Len(ms) = n + 1
    <3> HIDE DEF n
    <3> QED BY <1>1, <2>1, <2>3
  <2>5. /\ Append(cs, Cells(g)) \in Seq(W) /\ Len(Append(cs, Cells(g))) = n + 1
        /\ \A i \in 1 .. n + 1 :
             Append(cs, Cells(g))[i] = IF i = n + 1 THEN Cells(g) ELSE cs[i]
    <3> DEFINE c == Cells(g)
    <3>1. c \in W
      BY <1>2
    <3> HIDE DEF c, n
    <3>2. /\ Append(cs, c) \in Seq(W) /\ Len(Append(cs, c)) = n + 1
          /\ \A i \in 1 .. n + 1 : Append(cs, c)[i] = IF i = n + 1 THEN c ELSE cs[i]
      BY <1>1, <1>4, <3>1
    <3> QED BY <3>2 DEF c
  <2> HIDE DEF ms, n
  <2>6. ms = Append(cs, Cells(g))
    BY <2>2, <2>4, <2>5, SeqEqual
  <2>7. CellsOf(more) = ms
    BY DEF CellsOf, ms
  <2> QED BY <2>6, <2>7 DEF more
<1> QED BY <1>4, <1>5, <1>6 DEF W

\* The rows of the groups that are encoded.
LEMMA CellsOf_Exact ==
    ASSUME NEW parts \in Seq(Seq(Rows)) PROVE CellsOf(GroupsOf(parts)) = parts
<1> DEFINE gs == GroupsOf(parts)
<1>1. /\ gs \in Seq(Encoded) /\ Len(gs) = Len(parts)
      /\ \A i \in 1 .. Len(parts) : parts[i] \in Seq(Rows) /\ gs[i] = EncodeGroup(parts[i])
  BY GroupsOf_Facts
<1> HIDE DEF gs
<1>2. \A i \in 1 .. Len(parts) : Cells(gs[i]) = parts[i]
  BY <1>1, Cells_Exact
<1>3. parts = [i \in 1 .. Len(parts) |-> parts[i]]
  OBVIOUS
<1>4. CellsOf(gs) = [i \in 1 .. Len(parts) |-> Cells(gs[i])]
  BY <1>1 DEF CellsOf
<1> QED BY <1>2, <1>3, <1>4 DEF gs

Unskipped(w) == {g \in Encoded : ~SkippedByZone(g, w)}

\* Leaving out what is skipped leaves out no row that matches.
LEMMA Unskipped_Filter ==
    ASSUME KeysAreNumbers, NEW w \in Wheres
    PROVE  \A groups \in Seq(Encoded) :
             Filter(FlattenSeq(CellsOf(Among(groups, Unskipped(w)))), w) =
               Filter(FlattenSeq(CellsOf(groups)), w)
<1> DEFINE Read(gs) == FlattenSeq(CellsOf(gs))
           T == {gs \in Seq(Encoded) :
                   Filter(Read(Among(gs, Unskipped(w))), w) = Filter(Read(gs), w)}
<1>1. <<>> \in T
  <2>1. Among(<<>>, Unskipped(w)) = <<>> /\ <<>> \in Seq(Encoded)
    BY Among_Empty, EmptySeq
  <2> QED BY <2>1
<1>2. ASSUME NEW gs \in Seq(Encoded), NEW g \in Encoded, gs \in T PROVE Append(gs, g) \in T
  <2> DEFINE kept == Among(gs, Unskipped(w))
             F(rs) == Filter(rs, w)
  <2>1. F(Read(kept)) = F(Read(gs))
    BY <1>2
  <2>2. kept \in Seq(Encoded)
    <3>1. kept \in Seq(Encoded \cap Unskipped(w))
      BY Among_In
    <3> QED BY <3>1, SeqMonotonic
  <2>3. Cells(g) \in Seq(Rows)
    BY Cells_Type
  <2> HIDE DEF kept
  <2>4. ASSUME NEW some \in Seq(Encoded)
        PROVE  /\ Read(some) \in Seq(Rows)
               /\ F(Read(Append(some, g))) = F(Read(some)) \o F(Cells(g))
    <3>1. CellsOf(some) \in Seq(Seq(Rows))
          /\ CellsOf(Append(some, g)) = Append(CellsOf(some), Cells(g))
      BY CellsOf_Facts
    <3>2. Read(some) \in Seq(Rows)
      BY <3>1, FlattenSeq_In
    <3>3. Read(Append(some, g)) = Read(some) \o Cells(g)
      BY <2>3, <3>1, FlattenSeq_Append
    <3>4. \A rs \in Seq(Rows) : F(rs) = Among(rs, Matching(w))
      BY Filter_Among
    <3>5. Read(some) \o Cells(g) \in Seq(Rows)
      <4> DEFINE a == Read(some)
                 b == Cells(g)
      <4>1. a \in Seq(Rows) /\ b \in Seq(Rows)
        BY <2>3, <3>2
      <4> HIDE DEF a, b
      <4>2. a \o b \in Seq(Rows)
        BY <4>1
      <4> QED BY <4>2 DEF a, b
    <3> HIDE DEF Read, F
    <3>6. Among(Read(some) \o Cells(g), Matching(w)) =
            Among(Read(some), Matching(w)) \o Among(Cells(g), Matching(w))
      BY <2>3, <3>2, Among_Concat
    <3> QED BY <2>3, <3>2, <3>3, <3>4, <3>5, <3>6
  <2> HIDE DEF T
  <2>5. Append(gs, g) \in Seq(Encoded)
    OBVIOUS
  <2>6. CASE g \in Unskipped(w)
    <3>1. Among(Append(gs, g), Unskipped(w)) = Append(kept, g)
      BY <2>6, Among_Append DEF kept
    <3> HIDE DEF Read, F
    <3>2. F(Read(Append(kept, g))) = F(Read(Append(gs, g)))
      BY <2>1, <2>2, <2>4
    <3> QED BY <2>5, <3>1, <3>2 DEF T, F
  <2>7. CASE g \notin Unskipped(w)
    <3>1. Among(Append(gs, g), Unskipped(w)) = kept
      BY <2>7, Among_Append DEF kept
    <3>2. SkippedByZone(g, w)
      BY <2>7 DEF Unskipped
    <3>3. PICK rs \in Seq(Rows) : g = EncodeGroup(rs)
      BY DEF Encoded
    <3>4. F(Cells(g)) = <<>>
      BY <3>2, <3>3, Cells_Exact, Skipped_NoMatch
    <3>5. F(Read(gs)) \in Seq(Rows)
      BY <2>4, Filter_Among
    <3>6. F(Read(gs)) \o <<>> = F(Read(gs))
      BY <3>5, ConcatEmptySeq
    <3> HIDE DEF Read, F
    <3>7. F(Read(Append(gs, g))) = F(Read(kept))
      BY <2>1, <2>4, <3>4, <3>6
    <3> QED BY <2>5, <3>1, <3>7 DEF T, F
  <2> QED BY <2>6, <2>7
<1> HIDE DEF T
<1>3. Seq(Encoded) \subseteq T
  BY <1>1, <1>2, AmongFold!SequenceInduction
<1> QED BY <1>3 DEF T

\* What the routes decode: the chunk groups that are not skipped.
LEMMA KeptGroups_Facts ==
    ASSUME QueryInv, NEW w
    PROVE  /\ KeptGroups(w) = Among(Groups, Unskipped(w))
           /\ Groups \in Seq(Encoded) /\ KeptGroups(w) \in Seq(Encoded)
           /\ \A i \in 1 .. Len(KeptGroups(w)) : DecodeGroup(KeptGroups(w)[i]) = Cells(KeptGroups(w)[i])
<1>1. PICK parts \in Seq(Seq(Rows)) : Groups = GroupsOf(parts)
  BY DEF QueryInv, Holds, Groups
<1>2. Groups \in Seq(Encoded)
  BY <1>1, GroupsOf_Facts
<1> DEFINE B == ToSet(Groups)
           U == {g \in B : ~SkippedByZone(g, w)}
<1>3. Groups \in Seq(B) /\ B \subseteq Encoded
  BY <1>2, Elements_Seq
<1>4. \A g \in B : g \in U <=> g \in Unskipped(w)
  BY <1>3 DEF Unskipped
<1>5. KeptGroups(w) = Among(Groups, U)
  BY DEF KeptGroups
<1> HIDE DEF U
<1>6. Among(Groups, U) = Among(Groups, Unskipped(w)) /\ Among(Groups, U) \in Seq(B \cap U)
  BY <1>3, <1>4, Among_Same, Among_In
<1> DEFINE kept == KeptGroups(w)
<1>7. kept \in Seq(B)
  <2>1. B \cap U \subseteq B
    OBVIOUS
  <2> QED BY <1>5, <1>6, <2>1, SeqMonotonic
<1>8. kept \in Seq(Encoded)
  BY <1>3, <1>7, SeqMonotonic
<1>9. ASSUME NEW i \in 1 .. Len(kept) PROVE DecodeGroup(kept[i]) = Cells(kept[i])
  <2>1. kept[i] \in B
    <3> HIDE DEF kept, B
    <3> QED BY <1>7
  <2>2. PICK k \in DOMAIN Groups : kept[i] = Groups[k]
    BY <2>1 DEF ToSet
  <2>3. k \in 1 .. Len(parts)
    BY <1>1 DEF GroupsOf
  <2>4. parts[k] \in Seq(Rows) /\ Groups[k] = EncodeGroup(parts[k])
    BY <1>1, <2>3, GroupsOf_Facts
  <2> QED BY <2>2, <2>4, DecodeGroup_Exact, Cells_Exact
<1> QED BY <1>2, <1>5, <1>6, <1>8, <1>9

\* What is read of the chunk groups.
ReadOf(w) == FlattenSeq(CellsOf(KeptGroups(w)))

LEMMA Reads_Filter ==
    ASSUME QueryInv, KeysAreNumbers, NEW w \in Wheres
    PROVE  /\ ReadOf(w) \in Seq(Rows) /\ ReadOf(w) \o unflushed \in Seq(Rows)
           /\ Filter(ReadOf(w) \o unflushed, w) = Filter(inserted, w)
<1>1. PICK parts \in Seq(Seq(Rows)) :
        Groups = GroupsOf(parts) /\ FlattenSeq(parts) \o unflushed = inserted
  BY DEF QueryInv, Holds, Groups
<1>2. /\ KeptGroups(w) = Among(Groups, Unskipped(w))
      /\ Groups \in Seq(Encoded) /\ KeptGroups(w) \in Seq(Encoded)
  BY KeptGroups_Facts
<1>3. ReadOf(w) \in Seq(Rows)
  BY <1>2, CellsOf_Facts, FlattenSeq_In DEF ReadOf
<1> DEFINE flat == FlattenSeq(parts)
           read == ReadOf(w)
<1>4. flat \in Seq(Rows) /\ flat = FlattenSeq(CellsOf(Groups))
  BY <1>1, CellsOf_Exact, FlattenSeq_In
<1>5. Filter(read, w) = Filter(flat, w)
  BY <1>2, <1>4, Unskipped_Filter DEF ReadOf
<1>6. unflushed \in Seq(Rows) /\ read \in Seq(Rows)
  BY <1>3 DEF QueryInv
<1> HIDE DEF flat, read
<1>7. ASSUME NEW s \in Seq(Rows)
      PROVE  s \o unflushed \in Seq(Rows)
             /\ Filter(s \o unflushed, w) = Filter(s, w) \o Filter(unflushed, w)
  <2>1. s \o unflushed \in Seq(Rows)
    BY <1>6
  <2>2. Among(s \o unflushed, Matching(w)) = Among(s, Matching(w)) \o Among(unflushed, Matching(w))
    BY <1>6, Among_Concat
  <2> QED BY <1>6, <2>1, <2>2, Filter_Among
<1>8. Filter(read \o unflushed, w) = Filter(flat \o unflushed, w)
  BY <1>4, <1>5, <1>6, <1>7
<1> QED BY <1>1, <1>6, <1>7, <1>8 DEF flat, read

LEMMA Routes ==
    ASSUME QueryInv, KeysAreNumbers, NEW w \in Wheres
    PROVE  /\ Streamed(w) = ReadOf(w)
           /\ DecodeCells(w) = ReadOf(w) \o unflushed
           /\ DecodeColumns(w) = ReadOf(w) \o unflushed
<1> DEFINE kept == KeptGroups(w)
           batches == [i \in DOMAIN kept |-> DecodeGroup(kept[i])]
<1>1. /\ kept \in Seq(Encoded)
      /\ \A i \in 1 .. Len(kept) : DecodeGroup(kept[i]) = Cells(kept[i])
  BY KeptGroups_Facts
<1>2. DOMAIN kept = 1 .. Len(kept) /\ \A i \in 1 .. Len(kept) : kept[i] \in Encoded
  <2> HIDE DEF kept
  <2> QED BY <1>1
<1>3. batches = CellsOf(kept)
  BY <1>1, <1>2 DEF CellsOf
<1>4. \A i \in DOMAIN batches : batches[i] # QueryError
  BY <1>1, <1>2, Cells_Type, QueryAssumption
<1>5. Joined(batches) = ReadOf(w)
  <2> HIDE DEF batches, kept
  <2> QED BY <1>3, <1>4 DEF Joined, ReadOf, kept
<1>6. Streamed(w) = ReadOf(w)
  BY <1>5 DEF Streamed
<1>7. DecodeCells(w) = ReadOf(w) \o unflushed
  <2>1. DecodeCells(w) = FlattenSeq([i \in DOMAIN kept |-> Cells(kept[i])]) \o unflushed
    BY DEF DecodeCells, Cells
  <2>2. [i \in DOMAIN kept |-> Cells(kept[i])] = CellsOf(kept)
    BY <1>2 DEF CellsOf
  <2> QED BY <2>1, <2>2 DEF ReadOf
<1>8. unflushed = <<>> => ReadOf(w) = ReadOf(w) \o unflushed
  <2>1. ReadOf(w) \in Seq(Rows)
    BY Reads_Filter
  <2> QED BY <2>1, ConcatEmptySeq
<1>9. DecodeColumns(w) = ReadOf(w) \o unflushed
  BY <1>5, <1>7, <1>8 DEF DecodeColumns
<1> QED BY <1>6, <1>7, <1>9

-----------------------------------------------------------------------------
(* Aggregates.                                                             *)

SumStep(p, acc, x) == acc + x
SumFold == INSTANCE FoldFacts WITH Op <- SumStep

LEMMA Sum_Step ==
    ASSUME NEW W, NEW z \in W, \A a \in W, y \in W : SumStep(z, a, y) \in W
    PROVE  \A s \in Seq(W) : \A x \in W :
             SumFold!Fold(z, z, Append(s, x)) = SumStep(z, SumFold!Fold(z, z, s), x)
BY SumFold!Fold_Append

LEMMA Sum_Facts ==
    /\ Sum(<<>>) = 0
    /\ \A s \in Seq(Int) : Sum(s) \in Int /\ \A x \in Int : Sum(Append(s, x)) = Sum(s) + x
<1>1. \A s : Sum(s) = SumFold!Fold(0, 0, s)
  BY DEF Sum, FoldLeft, MapThenFoldSet, Max, SumFold!Fold, SumFold!Greatest, SumStep
<1>2. 0 \in Int /\ \A acc \in Int, x \in Int : SumStep(0, acc, x) \in Int
  BY DEF SumStep
<1>3. ASSUME NEW s \in Seq(Int) PROVE Sum(s) \in Int
  BY <1>1, <1>2, SumFold!Fold_In
<1> DEFINE W == Int
           zero == 0
<1>4. zero \in W /\ \A a \in W, y \in W : SumStep(zero, a, y) \in W
  BY <1>2
<1> HIDE DEF W, zero
<1>5. \A s \in Seq(W) : \A x \in W :
        SumFold!Fold(zero, zero, Append(s, x)) = SumStep(zero, SumFold!Fold(zero, zero, s), x)
  BY <1>4, Sum_Step
<1>6. ASSUME NEW s \in Seq(Int), NEW x \in Int PROVE Sum(Append(s, x)) = Sum(s) + x
  <2>1. s \in Seq(W) /\ x \in W
    BY DEF W
  <2>2. SumFold!Fold(zero, zero, Append(s, x)) = SumStep(zero, SumFold!Fold(zero, zero, s), x)
    BY <1>5, <2>1, Zenon
  <2> QED BY <1>1, <2>2 DEF SumStep, zero
<1>7. Sum(<<>>) = 0
  BY <1>1, SumFold!Fold_Empty
<1> QED BY <1>3, <1>6, <1>7

Names == {"sum", "countv", "count", "distinct", "sumadd", "min", "max", "avg"}

LEMMA Push_Facts ==
    ASSUME NEW agg \in Names
    PROVE  /\ PushAggExprs(agg) \in Seq(Names)
           /\ agg = "avg" => /\ Len(PushAggExprs(agg)) = 2
                             /\ PushAggExprs(agg)[1] = "sum" /\ PushAggExprs(agg)[2] = "countv"
           /\ agg # "avg" => Len(PushAggExprs(agg)) = 1 /\ PushAggExprs(agg)[1] = agg
<1>1. "sum" \in Names /\ "countv" \in Names
  BY DEF Names
<1> DEFINE S == Names
           sum == "sum"
           countv == "countv"
<1>2. sum \in S /\ countv \in S /\ agg \in S
  BY <1>1
<1> HIDE DEF S, sum, countv
<1>3. /\ <<sum, countv>> \in Seq(S) /\ Len(<<sum, countv>>) = 2
      /\ <<sum, countv>>[1] = sum /\ <<sum, countv>>[2] = countv
  BY <1>2
<1>5. <<agg>> \in Seq(S) /\ Len(<<agg>>) = 1 /\ <<agg>>[1] = agg
  BY <1>2
<1>4. PushAggExprs(agg) = IF agg = "avg" THEN <<sum, countv>> ELSE <<agg>>
  BY DEF PushAggExprs, sum, countv
<1> QED BY <1>3, <1>4, <1>5 DEF S, sum, countv

Pushed(aggs) == [i \in 1 .. Len(aggs) |-> PushAggExprs(aggs[i])]
Lengths(aggs) == [i \in 1 .. Len(aggs) |-> Len(PushAggExprs(aggs[i]))]

LEMMA Pushed_Facts ==
    ASSUME NEW aggs \in Seq(Names), NEW agg \in Names
    PROVE  /\ Pushed(aggs) \in Seq(Seq(Names)) /\ Lengths(aggs) \in Seq(Int)
           /\ Pushed(Append(aggs, agg)) = Append(Pushed(aggs), PushAggExprs(agg))
           /\ Lengths(Append(aggs, agg)) = Append(Lengths(aggs), Len(PushAggExprs(agg)))
<1> DEFINE W == Seq(Names)
           n == Len(aggs)
           more == Append(aggs, agg)
<1>1. /\ n \in Nat /\ Len(more) = n + 1 /\ more[n + 1] = agg
      /\ \A i \in 1 .. n : more[i] = aggs[i] /\ aggs[i] \in Names
      /\ \A i \in 1 .. n + 1 : more[i] \in Names
  <2> DEFINE S == Names
  <2>1. aggs \in Seq(S) /\ agg \in S
    OBVIOUS
  <2> HIDE DEF S
  <2>2. /\ n \in Nat /\ Len(more) = n + 1 /\ more[n + 1] = agg
        /\ \A i \in 1 .. n : more[i] = aggs[i]
    BY <2>1
  <2>4. \A i \in 1 .. n : aggs[i] \in S
    BY <2>1
  <2>3. \A i \in 1 .. n + 1 : i \in 1 .. n \/ i = n + 1
    BY <2>2
  <2> QED BY <2>1, <2>2, <2>3, <2>4 DEF S
<1>2. \A a \in Names : PushAggExprs(a) \in W /\ Len(PushAggExprs(a)) \in Int
  BY Push_Facts
<1> HIDE DEF W, n, more
<1>3. /\ \A i \in 1 .. n + 1 : PushAggExprs(more[i]) \in W /\ Len(PushAggExprs(more[i])) \in Int
      /\ \A i \in 1 .. n : PushAggExprs(aggs[i]) \in W /\ Len(PushAggExprs(aggs[i])) \in Int
  BY <1>1, <1>2
<1>4. ASSUME NEW B, NEW s \in Seq(B), NEW t \in Seq(B), Len(s) = n, Len(t) = n + 1,
             NEW x \in B, t[n + 1] = x, \A i \in 1 .. n : t[i] = s[i]
      PROVE  t = Append(s, x)
  <2>1. /\ Append(s, x) \in Seq(B) /\ Len(Append(s, x)) = n + 1
        /\ \A i \in 1 .. n + 1 : Append(s, x)[i] = IF i = n + 1 THEN x ELSE s[i]
    BY <1>1, <1>4
  <2>2. \A i \in 1 .. n + 1 : t[i] = Append(s, x)[i]
    BY <1>1, <1>4, <2>1
  <2> QED BY <1>1, <1>4, <2>1, <2>2, SeqEqual
<1> DEFINE ps == [i \in 1 .. n |-> PushAggExprs(aggs[i])]
           qs == [i \in 1 .. n + 1 |-> PushAggExprs(more[i])]
           ls == [i \in 1 .. n |-> Len(PushAggExprs(aggs[i]))]
           ms == [i \in 1 .. n + 1 |-> Len(PushAggExprs(more[i]))]
<1>5. /\ ps \in Seq(W) /\ Len(ps) = n /\ qs \in Seq(W) /\ Len(qs) = n + 1
      /\ ls \in Seq(Int) /\ Len(ls) = n /\ ms \in Seq(Int) /\ Len(ms) = n + 1
  BY <1>1, <1>3
<1>6. /\ qs[n + 1] = PushAggExprs(agg) /\ \A i \in 1 .. n : qs[i] = ps[i]
      /\ ms[n + 1] = Len(PushAggExprs(agg)) /\ \A i \in 1 .. n : ms[i] = ls[i]
  <2>1. n + 1 \in 1 .. n + 1 /\ \A i \in 1 .. n : i \in 1 .. n + 1
    BY <1>1
  <2> QED BY <1>1, <2>1, Zenon
<1>7. PushAggExprs(agg) \in W /\ Len(PushAggExprs(agg)) \in Int
  BY <1>2
<1> HIDE DEF ps, qs, ls, ms
<1>8. qs = Append(ps, PushAggExprs(agg)) /\ ms = Append(ls, Len(PushAggExprs(agg)))
  BY <1>4, <1>5, <1>6, <1>7
<1>9. Pushed(aggs) = ps /\ Pushed(more) = qs /\ Lengths(aggs) = ls /\ Lengths(more) = ms
  BY <1>1 DEF Pushed, Lengths, ps, qs, ls, ms, n
<1> QED BY <1>5, <1>8, <1>9 DEF W, more

-----------------------------------------------------------------------------
\* The columns the aggregates take: each its own, in their order.
Laid(aggs) ==
    /\ AggExprs(aggs) \in Seq(Names) /\ Sum(Lengths(aggs)) = Len(AggExprs(aggs))
    /\ \A i \in 1 .. Len(aggs) :
         /\ Offset(aggs, i) \in DOMAIN AggExprs(aggs)
         /\ AggExprs(aggs)[Offset(aggs, i)] = PushAggExprs(aggs[i])[1]
         /\ aggs[i] = "avg" =>
              /\ Offset(aggs, i) + 1 \in DOMAIN AggExprs(aggs)
              /\ AggExprs(aggs)[Offset(aggs, i) + 1] = "countv"

LEMMA Aggs_Laid == \A aggs \in Seq(Names) : Laid(aggs)
<1> DEFINE T == {s \in Seq(Names) : Laid(s)}
<1>0. ASSUME NEW aggs \in Seq(Names)
      PROVE  AggExprs(aggs) = FlattenSeq(Pushed(aggs)) /\ AggExprs(aggs) \in Seq(Names)
  <2>1. AggExprs(aggs) = FlattenSeq(Pushed(aggs))
    BY DEF AggExprs, Pushed
  <2>2. Pushed(aggs) \in Seq(Seq(Names))
    <3>1. "sum" \in Names
      BY DEF Names
    <3> QED BY <3>1, Pushed_Facts
  <2> QED BY <2>1, <2>2, FlattenSeq_In
<1>1. <<>> \in T
  <2>1. <<>> \in Seq(Names) /\ Len(<<>>) = 0 /\ 1 .. 0 = {}
    OBVIOUS
  <2>2. Pushed(<<>>) = <<>> /\ Lengths(<<>>) = <<>>
    BY <2>1 DEF Pushed, Lengths
  <2>3. AggExprs(<<>>) = <<>> /\ Sum(Lengths(<<>>)) = 0
    BY <1>0, <2>1, <2>2, FlattenSeq_Empty, Sum_Facts
  <2> QED BY <2>1, <2>3 DEF Laid
<1>2. ASSUME NEW aggs \in Seq(Names), NEW agg \in Names, aggs \in T PROVE Append(aggs, agg) \in T
  <2> DEFINE more == Append(aggs, agg)
             exprs == AggExprs(aggs)
             push == PushAggExprs(agg)
             n == Len(aggs)
             m == Len(exprs)
  <2>1. Laid(aggs)
    BY <1>2
  <2>2. /\ more \in Seq(Names) /\ Len(more) = n + 1 /\ n \in Nat
        /\ more[n + 1] = agg /\ \A i \in 1 .. n : more[i] = aggs[i]
    OBVIOUS
  <2>3. /\ push \in Seq(Names)
        /\ agg = "avg" => Len(push) = 2 /\ push[2] = "countv"
        /\ agg # "avg" => Len(push) = 1
    BY Push_Facts
  <2>4. exprs \in Seq(Names) /\ Sum(Lengths(aggs)) = m /\ m \in Nat
    BY <2>1 DEF Laid
  <2>5. AggExprs(more) = exprs \o push
    <3>1. /\ Pushed(aggs) \in Seq(Seq(Names))
          /\ Pushed(more) = Append(Pushed(aggs), push)
      BY Pushed_Facts
    <3>2. FlattenSeq(Append(Pushed(aggs), push)) = FlattenSeq(Pushed(aggs)) \o push
      BY <2>3, <3>1, FlattenSeq_Append
    <3> QED BY <1>0, <2>2, <3>1, <3>2
  <2>6. Sum(Lengths(more)) = m + Len(push)
    <3>1. Lengths(aggs) \in Seq(Int) /\ Lengths(more) = Append(Lengths(aggs), Len(push))
      BY Pushed_Facts
    <3>2. Len(push) \in Int
      BY <2>3
    <3> QED BY <2>4, <3>1, <3>2, Sum_Facts
  <2>7. \A i \in 1 .. n : Offset(more, i) = Offset(aggs, i)
    <3> SUFFICES ASSUME NEW i \in 1 .. n PROVE Offset(more, i) = Offset(aggs, i)
      OBVIOUS
    <3>1. \A j \in 1 .. (i - 1) : more[j] = aggs[j]
      BY <2>2
    <3>2. [j \in 1 .. (i - 1) |-> Len(PushAggExprs(more[j]))] =
            [j \in 1 .. (i - 1) |-> Len(PushAggExprs(aggs[j]))]
      BY <3>1
    <3> QED BY <3>2 DEF Offset
  <2>8. Offset(more, n + 1) = m + 1
    <3>1. 1 .. (n + 1 - 1) = 1 .. n
      BY <2>2
    <3>2. [j \in 1 .. (n + 1 - 1) |-> Len(PushAggExprs(more[j]))] = Lengths(aggs)
      BY <2>2, <3>1 DEF Lengths
    <3>3. Offset(more, n + 1) = 1 + Sum(Lengths(aggs))
      BY <3>2 DEF Offset
    <3> QED BY <2>4, <3>3
  <2> DEFINE all == AggExprs(more)
             k == Len(push)
  <2>9. k \in Nat /\ all = exprs \o push
    BY <2>3, <2>5
  <2>12. agg = "avg" => k = 2 /\ push[2] = "countv"
    BY <2>3
  <2>13. agg # "avg" => k = 1
    BY <2>3
  <2> HIDE DEF exprs, push, n, m, more, all, k
  <2>10. /\ all \in Seq(Names) /\ Len(all) = m + k /\ DOMAIN all = 1 .. m + k
         /\ DOMAIN exprs = 1 .. m
         /\ \A j \in 1 .. m : all[j] = exprs[j]
         /\ \A j \in 1 .. k : all[m + j] = push[j]
    BY <2>3, <2>4, <2>9 DEF m, k
  <2>11. ASSUME NEW i \in 1 .. n + 1
         PROVE  /\ Offset(more, i) \in DOMAIN all
                /\ all[Offset(more, i)] = PushAggExprs(more[i])[1]
                /\ more[i] = "avg" =>
                     Offset(more, i) + 1 \in DOMAIN all /\ all[Offset(more, i) + 1] = "countv"
    <3>1. CASE i \in 1 .. n
      <4> DEFINE o == Offset(aggs, i)
      <4>1. /\ o \in 1 .. m /\ exprs[o] = PushAggExprs(aggs[i])[1]
            /\ aggs[i] = "avg" => o + 1 \in 1 .. m /\ exprs[o + 1] = "countv"
        BY <2>1, <2>10, <3>1 DEF Laid, n, exprs
      <4>2. more[i] = aggs[i] /\ Offset(more, i) = o
        BY <2>2, <2>7, <3>1
      <4> HIDE DEF o
      <4>3. /\ o \in DOMAIN all /\ all[o] = exprs[o]
            /\ o + 1 \in 1 .. m => o + 1 \in DOMAIN all /\ all[o + 1] = exprs[o + 1]
        BY <2>4, <2>9, <2>10, <4>1
      <4> QED BY <4>1, <4>2, <4>3
    <3>2. CASE i = n + 1
      <4>1. more[i] = agg /\ Offset(more, i) = m + 1
        BY <2>2, <2>8, <3>2
      <4>2. k # 0
        BY <2>12, <2>13
      <4>3. m + 1 \in DOMAIN all /\ all[m + 1] = push[1]
        BY <2>4, <2>9, <2>10, <4>2
      <4>4. agg = "avg" => m + 1 + 1 \in DOMAIN all /\ all[m + 1 + 1] = "countv"
        <5> SUFFICES ASSUME agg = "avg" PROVE m + 1 + 1 \in DOMAIN all /\ all[m + 1 + 1] = "countv"
          OBVIOUS
        <5>1. k = 2 /\ 2 \in 1 .. k /\ m + 2 = m + 1 + 1 /\ m + 2 \in 1 .. m + k
          BY <2>4, <2>12
        <5>2. all[m + 2] = push[2] /\ push[2] = "countv"
          BY <2>10, <2>12, <5>1
        <5> QED BY <2>10, <5>1, <5>2
      <4>5. PushAggExprs(more[i])[1] = push[1]
        BY <4>1 DEF push
      <4> QED BY <4>1, <4>3, <4>4, <4>5
    <3> QED BY <2>2, <3>1, <3>2
  <2> HIDE DEF T
  <2>14. Laid(more)
    <3>1. Sum(Lengths(more)) = Len(all) /\ Len(more) = n + 1
      BY <2>2, <2>6, <2>10 DEF k
    <3> QED BY <2>10, <2>11, <3>1 DEF Laid, all
  <2>15. more \in T
    BY <2>2, <2>14 DEF T
  <2> QED BY <2>15 DEF more
<1> HIDE DEF T
<1>3. Seq(Names) \subseteq T
  BY <1>1, <1>2, AmongFold!SequenceInduction
<1> QED BY <1>3 DEF T

LEMMA AggCells_Exact ==
    ASSUME NEW rs \in Seq(Rows), NEW aggs \in Seq(Names)
    PROVE  AggCells(rs, aggs) = [i \in DOMAIN aggs |-> SqlAgg(rs, aggs[i])]
<1> DEFINE exprs == AggExprs(aggs)
           cols == [j \in DOMAIN exprs |-> Reduce(exprs[j], rs)]
           vals == Present(Column(rs, 2))
<1>1. vals \in Seq(Int) /\ Len(vals) \in Nat /\ (vals # <<>> => Len(vals) # 0)
  <2>1. vals \in Seq(Int)
    BY Column_Facts, Numbers_Facts
  <2> HIDE DEF vals
  <2> QED BY <2>1
<1>2. Sum(vals) \in Int /\ SqlNull \notin Int
  BY <1>1, Sum_Facts, QueryAssumption
<1>3. Laid(aggs) /\ DOMAIN aggs = 1 .. Len(aggs)
  BY Aggs_Laid
<1>4. /\ Reduce("sum", rs) = IF vals = <<>> THEN SqlNull ELSE Sum(vals)
      /\ Reduce("countv", rs) = Len(vals)
  BY DEF Reduce, ReduceValues
<1>5. ASSUME NEW i \in DOMAIN aggs
      PROVE  AggDatum(cols, Offset(aggs, i), aggs[i]) = SqlAgg(rs, aggs[i])
  <2> DEFINE o == Offset(aggs, i)
  <2>1. /\ o \in DOMAIN exprs /\ exprs[o] = PushAggExprs(aggs[i])[1]
        /\ aggs[i] = "avg" => o + 1 \in DOMAIN exprs /\ exprs[o + 1] = "countv"
    BY <1>3 DEF Laid
  <2>2. aggs[i] \in Names
    BY <1>3
  <2>3. IF aggs[i] = "avg" THEN PushAggExprs(aggs[i])[1] = "sum"
        ELSE PushAggExprs(aggs[i])[1] = aggs[i]
    BY <2>2, Push_Facts
  <2> HIDE DEF o, exprs, vals
  <2>4. CASE aggs[i] # "avg"
    <3>1. cols[o] = Reduce(aggs[i], rs)
      BY <2>1, <2>3, <2>4
    <3>2. AggDatum(cols, o, aggs[i]) = cols[o]
      BY <2>4 DEF AggDatum
    <3>3. SqlAgg(rs, aggs[i]) = Reduce(aggs[i], rs)
      BY <2>4 DEF SqlAgg
    <3> QED BY <3>1, <3>2, <3>3 DEF o
  <2>5. CASE aggs[i] = "avg"
    <3>1. cols[o] = Reduce("sum", rs) /\ cols[o + 1] = Reduce("countv", rs)
      BY <2>1, <2>3, <2>5
    <3>2. SqlAgg(rs, aggs[i]) = IF vals = <<>> THEN SqlNull ELSE <<Sum(vals), Len(vals)>>
      BY <2>5 DEF SqlAgg, vals
    <3> HIDE DEF cols
    <3>3. CASE vals = <<>>
      BY <1>4, <3>1, <3>2, <3>3 DEF AggDatum, o
    <3>4. CASE vals # <<>>
      <4>1. cols[o] = Sum(vals) /\ cols[o + 1] = Len(vals) /\ cols[o] # SqlNull /\ cols[o + 1] # 0
        BY <1>1, <1>2, <1>4, <3>1, <3>4
      <4>2. AggDatum(cols, o, aggs[i]) = <<cols[o], cols[o + 1]>>
        BY <2>5, <4>1 DEF AggDatum
      <4> QED BY <3>2, <3>4, <4>1, <4>2 DEF o
    <3> QED BY <3>3, <3>4
  <2> QED BY <2>4, <2>5
<1>6. AggCells(rs, aggs) = [i \in DOMAIN aggs |-> AggDatum(cols, Offset(aggs, i), aggs[i])]
  BY DEF AggCells
<1> HIDE DEF cols
<1> QED BY <1>5, <1>6

LEMMA OfKey_In ==
    ASSUME NEW rs \in Seq(Rows), NEW key PROVE OfKey(rs, key) \in Seq(Rows)
<1> DEFINE M == {r \in ToSet(rs) : r[1] = key}
<1>1. OfKey(rs, key) = Among(rs, M)
  BY DEF OfKey
<1> HIDE DEF M
<1>2. Among(rs, M) \in Seq(Rows \cap M) /\ Rows \cap M \subseteq Rows
  BY Among_In
<1>3. Seq(Rows \cap M) \subseteq Seq(Rows)
  BY <1>2, SeqMonotonic
<1> QED BY <1>1, <1>2, <1>3

LEMMA Shape_Facts ==
    ASSUME NEW s \in Shapes
    PROVE  /\ s.shape \in {"scalar", "group", "topk", "rows"}
           /\ s.shape \in {"scalar", "group"} => s.aggs \in Seq(Names)
<1>1. /\ <<"avg", "max", "count">> \in Seq(Names) /\ <<"min", "max">> \in Seq(Names)
      /\ <<"distinct", "sumadd">> \in Seq(Names) /\ <<"avg", "count">> \in Seq(Names)
  <2> DEFINE a == "avg"
             b == "max"
             c == "count"
             d == "min"
             e == "distinct"
             f == "sumadd"
  <2>1. /\ a \in Names /\ b \in Names /\ c \in Names
        /\ d \in Names /\ e \in Names /\ f \in Names
    BY DEF Names
  <2> HIDE DEF a, b, c, d, e, f
  <2>2. <<a, b, c>> \in Seq(Names)
    BY <2>1
  <2>3. <<d, b>> \in Seq(Names)
    BY <2>1
  <2>4. <<e, f>> \in Seq(Names)
    BY <2>1
  <2>5. <<a, c>> \in Seq(Names)
    BY <2>1
  <2> QED BY <2>2, <2>3, <2>4, <2>5 DEF a, b, c, d, e, f
<1>2. CASE s \in [shape : {"scalar"},
                  aggs  : {<<"avg", "max", "count">>, <<"min", "max">>, <<"distinct", "sumadd">>}]
  BY <1>1, <1>2
<1>3. CASE s \in [shape : {"group"}, aggs : {<<"avg", "count">>}]
  BY <1>1, <1>3
<1>4. CASE s \in [shape : {"topk"}, asc : BOOLEAN, nullsFirst : BOOLEAN, limit : Limits]
  <2>1. s.shape = "topk"
    BY <1>4
  <2> QED BY <2>1
<1>5. CASE s \in [shape : {"rows"}]
  <2>1. s.shape = "rows"
    BY <1>5
  <2> QED BY <2>1
<1> QED BY <1>2, <1>3, <1>4, <1>5 DEF Shapes

Asked(q) == q.where \in Wheres /\ q.plan \in Shapes /\ q.outcome \in Outcomes

\* A plan over rows that hold the same matching rows answers what SQL says.
LEMMA Plan_Exact ==
    ASSUME NEW q, Asked(q), NEW rs \in Seq(Rows), NEW rows \in Seq(Rows),
           Filter(rs, q.where) = Filter(rows, q.where)
    PROVE  PlanOver(rs, q) = SqlAnswer(rows, q)
<1> DEFINE kept == Filter(rs, q.where)
           keys == GroupKeys(kept)
<1>1. kept \in Seq(Rows) /\ kept = Filter(rows, q.where)
  BY Filter_Among
<1>2. rs # QueryError
  BY QueryAssumption
<1>3. /\ q.plan.shape \in {"scalar", "group", "topk", "rows"}
      /\ q.plan.shape \in {"scalar", "group"} => q.plan.aggs \in Seq(Names)
  BY Shape_Facts DEF Asked
<1> HIDE DEF kept
<1>4. CASE q.plan.shape = "scalar"
  <2>1. PlanOver(rs, q) = AggCells(kept, q.plan.aggs)
    BY <1>2, <1>4 DEF PlanOver, kept
  <2>2. SqlAnswer(rows, q) = [i \in DOMAIN q.plan.aggs |-> SqlAgg(kept, q.plan.aggs[i])]
    BY <1>1, <1>4 DEF SqlAnswer
  <2> QED BY <1>1, <1>3, <1>4, <2>1, <2>2, AggCells_Exact
<1>5. CASE q.plan.shape = "group"
  <2> DEFINE aggs == q.plan.aggs
             OwnRow(i) == <<keys[i]>> \o AggCells(OfKey(kept, keys[i]), aggs)
             SqlRow(i) == <<keys[i]>> \o [j \in DOMAIN aggs |-> SqlAgg(OfKey(kept, keys[i]), aggs[j])]
  <2>1. PlanOver(rs, q) = [i \in DOMAIN keys |-> OwnRow(i)]
    BY <1>2, <1>5 DEF PlanOver, kept, GroupRowsOf
  <2>2. SqlAnswer(rows, q) = [i \in DOMAIN keys |-> SqlRow(i)]
    BY <1>1, <1>5 DEF SqlAnswer
  <2>3. \A key : AggCells(OfKey(kept, key), aggs) =
                   [j \in DOMAIN aggs |-> SqlAgg(OfKey(kept, key), aggs[j])]
    BY <1>1, <1>3, <1>5, OfKey_In, AggCells_Exact
  <2>4. \A i \in DOMAIN keys : OwnRow(i) = SqlRow(i)
    BY <2>3
  <2> HIDE DEF OwnRow, SqlRow, keys
  <2> QED BY <2>1, <2>2, <2>4
<1>6. CASE q.plan.shape = "topk"
  BY <1>1, <1>2, <1>6 DEF PlanOver, SqlAnswer, kept
<1>7. CASE q.plan.shape = "rows"
  BY <1>1, <1>2, <1>7 DEF PlanOver, SqlAnswer, kept
<1> QED BY <1>3, <1>4, <1>5, <1>6, <1>7

-----------------------------------------------------------------------------
(* The directory's answer.                                                 *)

\* The least of the least, and the greatest of the greatest, of zones that cover
\* every number and lie among the values.
LEMMA Zones_Ends ==
    ASSUME NEW P, NEW Z, Z # {},
           \A x \in P : x \in Int /\ x <= NaN,
           \A z \in Z : z.min \in P /\ z.max \in P /\ z.min # NaN,
           \A x \in P : x # NaN => \E z \in Z : z.min <= x /\ x <= z.max
    PROVE  /\ (Min(P) \in P /\ \A x \in P : Min(P) <= x) => Min({z.min : z \in Z}) = Min(P)
           /\ (Max(P) \in P /\ \A x \in P : Max(P) >= x) /\ NaN \notin P =>
                Max({z.max : z \in Z}) = Max(P)
<1> DEFINE mins == {z.min : z \in Z}
           maxs == {z.max : z \in Z}
<1>1. \A x : x \in mins <=> \E z \in Z : x = z.min
  OBVIOUS
<1>2. \A x : x \in maxs <=> \E z \in Z : x = z.max
  OBVIOUS
<1> HIDE DEF mins, maxs
<1>3. ASSUME Min(P) \in P, \A x \in P : Min(P) <= x PROVE Min(mins) = Min(P)
  <2> DEFINE m == Min(P)
  <2>1. m \in P /\ m \in Int /\ \A x \in P : m <= x
    BY <1>3
  <2> HIDE DEF m
  <2>2. NaN \in Int
    BY QueryAssumption
  <2>3. m # NaN
    <3>1. PICK z \in Z : TRUE
      OBVIOUS
    <3>2. z.min \in P /\ z.min # NaN /\ z.min \in Int /\ z.min <= NaN /\ m <= z.min
      BY <2>1
    <3> QED BY <2>1, <2>2, <3>2
  <2>4. PICK z \in Z : z.min <= m
    BY <2>1, <2>3
  <2>5. z.min = m
    <3>1. z.min \in Int /\ m <= z.min
      BY <2>1
    <3> QED BY <2>1, <2>4, <3>1
  <2>6. m \in mins
    BY <1>1, <2>5
  <2>7. \A x \in mins : x \in Int /\ m <= x
    BY <1>1, <2>1
  <2>8. \A y \in mins : (\A x \in mins : y <= x) => y = m
    BY <2>1, <2>6, <2>7
  <2>9. Min(mins) \in mins /\ \A x \in mins : Min(mins) <= x
    BY <2>6, <2>7 DEF Min
  <2> QED BY <2>8, <2>9 DEF m
<1>4. ASSUME Max(P) \in P, \A x \in P : Max(P) >= x, NaN \notin P PROVE Max(maxs) = Max(P)
  <2> DEFINE m == Max(P)
  <2>1. m \in P /\ m \in Int /\ \A x \in P : m >= x
    BY <1>4
  <2> HIDE DEF m
  <2>3. m # NaN
    BY <1>4, <2>1
  <2>4. PICK z \in Z : m <= z.max
    BY <2>1, <2>3
  <2>5. z.max = m
    <3>1. z.max \in Int /\ m >= z.max
      BY <2>1
    <3> QED BY <2>1, <2>4, <3>1
  <2>6. m \in maxs
    BY <1>2, <2>5
  <2>7. \A x \in maxs : x \in Int /\ m >= x
    <3>1. \A y \in Z : y.max \in Int /\ m >= y.max
      BY <2>1
    <3> SUFFICES ASSUME NEW x \in maxs PROVE x \in Int /\ m >= x
      OBVIOUS
    <3>2. PICK y \in Z : x = y.max
      BY <1>2
    <3> QED BY <3>1, <3>2
  <2>8. \A y \in maxs : (\A x \in maxs : y >= x) => y = m
    BY <2>1, <2>6, <2>7
  <2>9. Max(maxs) \in maxs /\ \A x \in maxs : Max(maxs) >= x
    BY <2>6, <2>7 DEF Max
  <2> QED BY <2>8, <2>9 DEF m
<1> QED BY <1>3, <1>4 DEF mins, maxs

LEMMA Concat_Elements ==
    ASSUME NEW B, NEW s \in Seq(B), NEW t \in Seq(B)
    PROVE  ToSet(s \o t) = ToSet(s) \cup ToSet(t)
<1>1. /\ DOMAIN s = 1 .. Len(s) /\ DOMAIN t = 1 .. Len(t) /\ Len(s) \in Nat /\ Len(t) \in Nat
      /\ DOMAIN (s \o t) = 1 .. Len(s) + Len(t)
      /\ \A i \in 1 .. Len(s) : (s \o t)[i] = s[i]
      /\ \A i \in 1 .. Len(t) : (s \o t)[Len(s) + i] = t[i]
  OBVIOUS
<1>2. ASSUME NEW i \in 1 .. Len(s) + Len(t) PROVE (s \o t)[i] \in ToSet(s) \cup ToSet(t)
  <2>1. CASE i \in 1 .. Len(s)
    BY <1>1, <2>1 DEF ToSet
  <2>2. CASE i \notin 1 .. Len(s)
    <3> DEFINE j == i - Len(s)
    <3>1. j \in 1 .. Len(t) /\ i = Len(s) + j
      BY <1>1, <2>2
    <3> HIDE DEF j
    <3> QED BY <1>1, <3>1 DEF ToSet
  <2> QED BY <2>1, <2>2
<1>3. ToSet(s \o t) \subseteq ToSet(s) \cup ToSet(t)
  BY <1>1, <1>2 DEF ToSet
<1>4. ToSet(s) \subseteq ToSet(s \o t)
  <2>1. \A i \in 1 .. Len(s) : i \in 1 .. Len(s) + Len(t)
    BY <1>1
  <2> QED BY <1>1, <2>1 DEF ToSet
<1>5. ToSet(t) \subseteq ToSet(s \o t)
  <2>1. \A i \in 1 .. Len(t) : Len(s) + i \in 1 .. Len(s) + Len(t)
    BY <1>1
  <2> QED BY <1>1, <2>1 DEF ToSet
<1> QED BY <1>3, <1>4, <1>5

LEMMA Flatten_Elements ==
    ASSUME NEW B
    PROVE  \A seqs \in Seq(Seq(B)) : \A x :
             x \in ToSet(FlattenSeq(seqs)) <=> \E i \in 1 .. Len(seqs) : x \in ToSet(seqs[i])
<1> DEFINE W == Seq(B)
           Same(s) == \A x : x \in ToSet(FlattenSeq(s)) <=> \E i \in 1 .. Len(s) : x \in ToSet(s[i])
           T == {s \in Seq(W) : Same(s)}
<1>1. <<>> \in T
  <2>1. <<>> \in Seq(W) /\ Len(<<>>) = 0 /\ 1 .. 0 = {}
    OBVIOUS
  <2>2. FlattenSeq(<<>>) = <<>> /\ ToSet(<<>>) = {}
    BY FlattenSeq_Empty DEF ToSet
  <2> QED BY <2>1, <2>2
<1>2. ASSUME NEW s \in Seq(W), NEW q \in W, s \in T PROVE Append(s, q) \in T
  <2> DEFINE more == Append(s, q)
             flat == FlattenSeq(s)
  <2>1. flat \in Seq(B) /\ FlattenSeq(more) = flat \o q
    BY FlattenSeq_In, FlattenSeq_Append
  <2>2. Same(s)
    BY <1>2
  <2>3. q \in Seq(B)
    OBVIOUS
  <2> HIDE DEF W, T
  <2>4. /\ more \in Seq(W) /\ Len(more) = Len(s) + 1 /\ Len(s) \in Nat
        /\ more[Len(s) + 1] = q /\ \A i \in 1 .. Len(s) : more[i] = s[i]
    OBVIOUS
  <2> HIDE DEF more, flat
  <2>5. ToSet(FlattenSeq(more)) = ToSet(flat) \cup ToSet(q)
    BY <2>1, <2>3, Concat_Elements
  <2>6. \A i : i \in 1 .. Len(s) + 1 <=> i \in 1 .. Len(s) \/ i = Len(s) + 1
    BY <2>4
  <2>7. \A x : x \in ToSet(flat) <=> \E i \in 1 .. Len(s) : x \in ToSet(s[i])
    BY <2>2 DEF flat
  <2>8. \A x : (\E i \in 1 .. Len(s) + 1 : x \in ToSet(more[i])) <=>
                 (\E i \in 1 .. Len(s) : x \in ToSet(s[i])) \/ x \in ToSet(q)
    BY <2>4, <2>6
  <2>9. Same(more)
    BY <2>4, <2>5, <2>7, <2>8
  <2> HIDE DEF Same
  <2> QED BY <2>4, <2>9 DEF T, more
<1> HIDE DEF T
<1>3. Seq(W) \subseteq T
  BY <1>1, <1>2, AmongFold!SequenceInduction
<1> QED BY <1>3 DEF T, W

\* The values of the second column.
Values(rs) == ToSet(Present(Column(rs, 2)))

LEMMA Values_Facts ==
    ASSUME NEW rs \in Seq(Rows)
    PROVE  /\ Present(Column(rs, 2)) \in Seq(Int)
           /\ \A x : x \in Values(rs) <=> x \in Int /\ \E r \in ToSet(rs) : x = r[2]
           /\ \A x \in Values(rs) : x <= NaN /\ (x = NaN => Float)
<1> DEFINE vals == Column(rs, 2)
<1>1. /\ vals \in Seq(Value) /\ Len(vals) = Len(rs)
      /\ \A i \in 1 .. Len(rs) : vals[i] = rs[i][2]
  BY Column_Facts
<1>2. DOMAIN rs = 1 .. Len(rs) /\ \A i \in 1 .. Len(rs) : rs[i] \in Rows
  OBVIOUS
<1> HIDE DEF vals
<1>3. DOMAIN vals = 1 .. Len(rs)
  BY <1>1
<1>4. Present(vals) \in Seq(Int) /\ ToSet(Present(vals)) = ToSet(vals) \cap Int
  BY <1>1, Numbers_Facts
<1>5. \A x : x \in ToSet(vals) <=> \E r \in ToSet(rs) : x = r[2]
  BY <1>1, <1>2, <1>3 DEF ToSet
<1>6. \A x : x \in Values(rs) <=> x \in Int /\ \E r \in ToSet(rs) : x = r[2]
  BY <1>4, <1>5 DEF Values, vals
<1>7. ToSet(rs) \subseteq Rows
  BY <1>2 DEF ToSet
<1>8. ASSUME NEW x \in Values(rs) PROVE x <= NaN /\ (x = NaN => Float)
  <2>1. PICK r \in Rows : x = r[2] /\ x \in Int
    BY <1>6, <1>7
  <2>2. r[2] # SqlNull /\ 2 \in 1 .. 2
    BY <2>1, QueryAssumption
  <2> QED BY <2>1, <2>2, QueryAssumption
<1> QED BY <1>4, <1>6, <1>8 DEF vals

Zone(rs) == ComputeMinmax(Column(rs, 2))

LEMMA Zone_Facts ==
    ASSUME NEW rs \in Seq(Rows)
    PROVE  LET zone == Zone(rs) IN
             /\ zone.has \in BOOLEAN
             /\ \A x \in Values(rs) : x # NaN => zone.has /\ zone.min <= x /\ x <= zone.max
             /\ zone.has => zone.min \in Values(rs) /\ zone.max \in Values(rs) /\ zone.min # NaN
<1> DEFINE vals == Column(rs, 2)
           N == ToSet(Numbers(vals))
<1>1. vals \in Seq(Value)
  BY Column_Facts
<1> HIDE DEF vals
<1>2. Bounds(ComputeMinmax(vals), N) /\ N = ToSet(Present(vals)) \ {NaN}
  BY <1>1, Minmax_Bounds, Numbers_Facts
<1>3. Values(rs) = ToSet(Present(vals)) /\ Zone(rs) = ComputeMinmax(vals)
  BY DEF Values, Zone, vals
<1> HIDE DEF N
<1> DEFINE z == Zone(rs)
<1>4. /\ z.has \in BOOLEAN /\ (z.has <=> N # {})
      /\ z.has => z.min \in N /\ z.max \in N
      /\ z.has => \A x \in N : x \in Int /\ z.min <= x /\ z.max >= x
  BY <1>2, <1>3 DEF Bounds
<1>5. \A x : x \in N <=> x \in Values(rs) /\ x # NaN
  BY <1>2, <1>3
<1> HIDE DEF z
<1>6. ASSUME NEW x \in Values(rs), x # NaN PROVE z.has /\ z.min <= x /\ x <= z.max
  <2>1. x \in N
    BY <1>5, <1>6
  <2>2. z.has
    BY <1>4, <2>1
  <2>3. z.max \in Int /\ x \in Int /\ z.max >= x /\ z.min <= x
    BY <1>4, <2>1, <2>2
  <2> QED BY <2>2, <2>3
<1> QED BY <1>4, <1>5, <1>6 DEF z

\* Every value of the table is in a chunk group or in the buffer.
LEMMA Inserted_Values ==
    ASSUME NEW parts \in Seq(Seq(Rows)), NEW rest \in Seq(Rows)
    PROVE  /\ FlattenSeq(parts) \o rest \in Seq(Rows)
           /\ \A x : x \in Values(FlattenSeq(parts) \o rest) <=>
                x \in Values(rest) \/ \E i \in 1 .. Len(parts) : x \in Values(parts[i])
<1> DEFINE flat == FlattenSeq(parts)
           rows == flat \o rest
<1>1. flat \in Seq(Rows)
  BY FlattenSeq_In
<1>2. \A r : r \in ToSet(flat) <=> \E i \in 1 .. Len(parts) : r \in ToSet(parts[i])
  BY Flatten_Elements
<1>3. \A i \in 1 .. Len(parts) : parts[i] \in Seq(Rows)
  BY GroupsOf_Facts
<1> HIDE DEF flat
<1>4. rows \in Seq(Rows) /\ ToSet(rows) = ToSet(flat) \cup ToSet(rest)
  BY <1>1, Concat_Elements
<1> HIDE DEF rows
<1>5. \A s \in Seq(Rows) : \A x : x \in Values(s) <=> x \in Int /\ \E r \in ToSet(s) : x = r[2]
  BY Values_Facts
<1>6. ASSUME NEW x
      PROVE  x \in Values(rows) <=>
               x \in Values(rest) \/ \E i \in 1 .. Len(parts) : x \in Values(parts[i])
  <2>1. ASSUME x \in Values(rows)
        PROVE  x \in Values(rest) \/ \E i \in 1 .. Len(parts) : x \in Values(parts[i])
    <3>1. PICK r \in ToSet(rows) : x = r[2] /\ x \in Int
      BY <1>4, <1>5, <2>1
    <3>2. CASE r \in ToSet(rest)
      BY <1>5, <3>1, <3>2
    <3>3. CASE r \in ToSet(flat)
      <4>1. PICK i \in 1 .. Len(parts) : r \in ToSet(parts[i])
        BY <1>2, <3>3
      <4>2. x \in Values(parts[i])
        BY <1>3, <1>5, <3>1, <4>1
      <4> QED BY <4>2
    <3> QED BY <1>4, <3>1, <3>2, <3>3
  <2>2. ASSUME x \in Values(rest) PROVE x \in Values(rows)
    <3>1. PICK r \in ToSet(rest) : x = r[2] /\ x \in Int
      BY <1>5, <2>2
    <3> QED BY <1>4, <1>5, <3>1
  <2>3. ASSUME NEW i \in 1 .. Len(parts), x \in Values(parts[i]) PROVE x \in Values(rows)
    <3>1. PICK r \in ToSet(parts[i]) : x = r[2] /\ x \in Int
      BY <1>3, <1>5, <2>3
    <3>2. r \in ToSet(rows)
      BY <1>2, <1>4, <3>1
    <3> QED BY <1>4, <1>5, <3>1, <3>2
  <2> QED BY <2>1, <2>2, <2>3
<1> QED BY <1>4, <1>6 DEF rows, flat

LEMMA Directory_Exact ==
    ASSUME QueryInv, NEW agg \in {"min", "max"}, ~DirectoryDeclines(agg)
    PROVE  DirectoryMinmax(agg) = SqlAgg(inserted, agg)
<1>1. PICK parts \in Seq(Seq(Rows)) :
        Groups = GroupsOf(parts) /\ FlattenSeq(parts) \o unflushed = inserted
  BY DEF QueryInv, Holds, Groups
<1> DEFINE n == Len(parts)
           own == Zone(unflushed)
           zones == Zones
           seen == ToSet(zones) \cup (IF own.has THEN {own} ELSE {})
           P == Values(inserted)
           vals == Present(Column(inserted, 2))
<1>2. \A i \in 1 .. n : parts[i] \in Seq(Rows) /\ Groups[i] = EncodeGroup(parts[i])
  BY <1>1, GroupsOf_Facts
<1>3. DOMAIN Groups = 1 .. n
  BY <1>1 DEF GroupsOf
<1>4. DOMAIN zones = 1 .. n /\ \A i \in 1 .. n : zones[i] = Zone(parts[i])
  <2>1. \A rs \in Seq(Rows) : EncodeGroup(rs).cols[2].zone = Zone(rs)
    <3> SUFFICES ASSUME NEW rs \in Seq(Rows) PROVE EncodeGroup(rs).cols[2].zone = Zone(rs)
      OBVIOUS
    <3>1. 2 \in 1 .. 2
      OBVIOUS
    <3>2. EncodeGroup(rs).cols[2] = EncodeColumn(Column(rs, 2))
      BY <3>1, EncodeGroup_Facts
    <3>3. EncodeColumn(Column(rs, 2)).zone = Zone(rs)
      BY DEF EncodeColumn, Zone
    <3> QED BY <3>2, <3>3
  <2>2. DOMAIN zones = 1 .. n /\ \A i \in 1 .. n : zones[i] = Groups[i].cols[2].zone
    BY <1>3 DEF Zones
  <2> QED BY <1>2, <2>1, <2>2
<1>5. unflushed \in Seq(Rows) /\ inserted \in Seq(Rows)
  BY DEF QueryInv
<1>6. \A x : x \in P <=> x \in Values(unflushed) \/ \E i \in 1 .. n : x \in Values(parts[i])
  BY <1>1, <1>5, Inserted_Values
<1>7. own = ComputeMinmax(UnflushedValues) /\ Values(unflushed) = ToSet(Present(UnflushedValues))
  BY DEF Zone, UnflushedValues, Values
<1>8. /\ Float => agg # "max"
      /\ \A i \in 1 .. n : Zone(parts[i]).has
      /\ Present(UnflushedValues) = <<>> \/ own.has
  BY <1>4, <1>7 DEF DirectoryDeclines
<1>9. DirectoryMinmax(agg) =
        IF seen = {} THEN SqlNull
        ELSE IF agg = "max" THEN Max({z.max : z \in seen}) ELSE Min({z.min : z \in seen})
  BY <1>7 DEF DirectoryMinmax
<1>10. SqlAgg(inserted, agg) = IF vals = <<>> THEN SqlNull
                               ELSE IF agg = "max" THEN Max(ToSet(vals)) ELSE Min(ToSet(vals))
  BY DEF SqlAgg, Reduce, ReduceValues
<1>11. /\ vals \in Seq(Int) /\ P = ToSet(vals)
       /\ \A x \in P : x \in Int /\ x <= NaN /\ (x = NaN => Float)
  BY <1>5, Values_Facts DEF Values
<1> HIDE DEF vals, P, zones, own
<1>12. P = {} <=> vals = <<>>
  BY <1>11, ToSet_Empty
<1>13. \A z : z \in ToSet(zones) <=> \E i \in 1 .. n : z = Zone(parts[i])
  BY <1>4 DEF ToSet
<1> DEFINE Of(z, rs) ==
             /\ \A x \in Values(rs) : x # NaN => z.has /\ z.min <= x /\ x <= z.max
             /\ z.has => z.min \in Values(rs) /\ z.max \in Values(rs) /\ z.min # NaN
<1>14. Of(own, unflushed) /\ own.has \in BOOLEAN
  BY <1>5, Zone_Facts DEF own
<1>15. \A i \in 1 .. n : Of(Zone(parts[i]), parts[i])
  BY <1>2, Zone_Facts
<1>16. \A z \in seen : z.min \in P /\ z.max \in P /\ z.min # NaN
  <2> SUFFICES ASSUME NEW z \in seen PROVE z.min \in P /\ z.max \in P /\ z.min # NaN
    OBVIOUS
  <2>1. CASE z \in ToSet(zones)
    <3>1. PICK i \in 1 .. n : z = Zone(parts[i])
      BY <1>13, <2>1
    <3> QED BY <1>6, <1>8, <1>15, <3>1
  <2>2. CASE own.has /\ z = own
    BY <1>6, <1>14, <2>2
  <2> QED BY <2>1, <2>2
<1>17. \A x \in P : x # NaN => \E z \in seen : z.min <= x /\ x <= z.max
  <2> SUFFICES ASSUME NEW x \in P, x # NaN PROVE \E z \in seen : z.min <= x /\ x <= z.max
    OBVIOUS
  <2>1. CASE x \in Values(unflushed)
    BY <1>14, <2>1
  <2>2. ASSUME NEW i \in 1 .. n, x \in Values(parts[i])
        PROVE  \E z \in seen : z.min <= x /\ x <= z.max
    <3>1. Zone(parts[i]) \in seen
      BY <1>13
    <3>2. Zone(parts[i]).min <= x /\ x <= Zone(parts[i]).max
      BY <1>15, <2>2
    <3> QED BY <3>1, <3>2
  <2> QED BY <1>6, <2>1, <2>2
<1>18. CASE seen = {}
  <2>1. ~own.has /\ ToSet(zones) = {}
    BY <1>18
  <2>2. Values(unflushed) = {}
    BY <1>7, <1>8, <2>1 DEF ToSet
  <2>3. \A i \in 1 .. n : FALSE
    BY <1>13, <2>1
  <2>4. P = {}
    BY <1>6, <2>2, <2>3
  <2> QED BY <1>9, <1>10, <1>12, <1>18, <2>4
<1>19. CASE seen # {}
  <2>1. P # {} /\ vals # <<>>
    BY <1>12, <1>16, <1>19
  <2>2. /\ Min(P) \in P /\ \A x \in P : Min(P) <= x
        /\ Max(P) \in P /\ \A x \in P : Max(P) >= x
    BY <1>11, <2>1, Extremes
  <2> HIDE DEF seen
  <2>3. agg = "max" => NaN \notin P
    BY <1>8, <1>11
  <2>4. agg = "max" => Max({z.max : z \in seen}) = Max(P)
    BY <1>11, <1>16, <1>17, <1>19, <2>2, <2>3, Zones_Ends
  <2>5. Min({z.min : z \in seen}) = Min(P)
    BY <1>11, <1>16, <1>17, <1>19, <2>2, Zones_Ends
  <2> QED BY <1>9, <1>10, <1>11, <1>19, <2>1, <2>4, <2>5
<1> QED BY <1>18, <1>19

-----------------------------------------------------------------------------
LEMMA Run_Exact ==
    ASSUME QueryInv, KeysAreNumbers, NEW q, Asked(q)
    PROVE  \/ Run(q, q.outcome) = QueryError /\ q.outcome \in {"exhausted_wide", "cancelled"}
           \/ Run(q, q.outcome) = SqlAnswer(inserted, q)
<1> DEFINE w == q.where
           read == ReadOf(w) \o unflushed
           o == q.outcome
           aggs == q.plan.aggs
<1>1. w \in Wheres /\ o \in Outcomes
  BY DEF Asked
<1>2. inserted \in Seq(Rows) /\ unflushed \in Seq(Rows)
  BY DEF QueryInv
<1>3. /\ ReadOf(w) \in Seq(Rows) /\ read \in Seq(Rows)
      /\ Filter(read, w) = Filter(inserted, w)
  BY <1>1, Reads_Filter
<1>4. Streamed(w) = ReadOf(w) /\ DecodeCells(w) = read /\ DecodeColumns(w) = read
  BY <1>1, Routes
<1>5. Streams(w) => ReadOf(w) = read
  <2> SUFFICES ASSUME unflushed = <<>> PROVE ReadOf(w) = read
    BY DEF Streams
  <2> QED BY <1>3, ConcatEmptySeq
<1> HIDE DEF read
<1>6. PlanOver(read, q) = SqlAnswer(inserted, q)
  BY <1>2, <1>3, Plan_Exact
<1>7. CASE FromDirectory(q)
  <2>1. q.plan.shape = "scalar" /\ w = Everything
    BY <1>7 DEF FromDirectory
  <2>2. \A i \in DOMAIN aggs : aggs[i] \in {"min", "max"} /\ ~DirectoryDeclines(aggs[i])
    BY <1>7 DEF FromDirectory, ToSet
  <2>3. \A i \in DOMAIN aggs : DirectoryMinmax(aggs[i]) = SqlAgg(inserted, aggs[i])
    BY <2>2, Directory_Exact
  <2>4. Filter(inserted, w) = inserted
    <3>1. Rows \subseteq Matching(w)
      BY <2>1 DEF Matching, RowMatches, Everything
    <3> QED BY <1>2, <3>1, Among_All, Filter_Among
  <2>5. Run(q, o) = [i \in DOMAIN aggs |-> DirectoryMinmax(aggs[i])]
    BY <1>7 DEF Run
  <2>6. SqlAnswer(inserted, q) = [i \in DOMAIN aggs |-> SqlAgg(inserted, aggs[i])]
    BY <2>1, <2>4 DEF SqlAnswer
  <2> QED BY <2>3, <2>5, <2>6
<1>8. CASE ~FromDirectory(q)
  <2>1. CASE q.plan.shape = "rows"
    BY <1>4, <1>6, <1>8, <2>1 DEF Run
  <2>2. CASE q.plan.shape # "rows" /\ (o = "off" \/ ~Streams(w) \/ FailOpen(q, o))
    BY <1>4, <1>6, <1>8, <2>2 DEF Run
  <2>3. CASE q.plan.shape # "rows" /\ ~(o = "off" \/ ~Streams(w) \/ FailOpen(q, o)) /\ o = "ok"
    BY <1>4, <1>5, <1>6, <1>8, <2>3 DEF Run
  <2>4. CASE q.plan.shape # "rows" /\ ~(o = "off" \/ ~Streams(w) \/ FailOpen(q, o)) /\ o # "ok"
    <3>1. Run(q, o) = QueryError
      BY <1>8, <2>4 DEF Run
    <3>2. o \in {"exhausted_wide", "cancelled"}
      BY <1>1, <2>4 DEF Outcomes, FailOpen
    <3> QED BY <3>1, <3>2
  <2> QED BY <2>1, <2>2, <2>3, <2>4
<1> QED BY <1>7, <1>8

LEMMA Next_Answer ==
    ASSUME KeysAreNumbers, QueryInv, AnswerExact, [QueryNext]_queryVars PROVE AnswerExact'
<1>1. ASSUME NEW row \in Rows, AccumulateRow(row) PROVE AnswerExact'
  BY <1>1 DEF AccumulateRow, AnswerExact, NoQuery
<1>2. ASSUME FlushPending PROVE AnswerExact'
  BY <1>2 DEF FlushPending, AnswerExact, NoQuery
<1>3. ASSUME NEW s \in Shapes, NEW w \in Wheres, NEW o \in Outcomes,
             Ask([where |-> w, plan |-> s, outcome |-> o])
      PROVE  AnswerExact'
  <2> DEFINE q == [where |-> w, plan |-> s, outcome |-> o]
  <2>1. Asked(q)
    BY DEF Asked
  <2>2. query' = q /\ answer' = Run(q, q.outcome) /\ inserted' = inserted
    BY <1>3 DEF Ask
  <2> HIDE DEF q
  <2>3. \/ answer' = QueryError /\ query'.outcome \in {"exhausted_wide", "cancelled"}
        \/ answer' = SqlAnswer(inserted', query')
    BY <2>1, <2>2, Run_Exact
  <2> QED BY <2>3 DEF AnswerExact
<1>4. ASSUME UNCHANGED queryVars PROVE AnswerExact'
  BY <1>4 DEF queryVars, AnswerExact
<1> QED BY <1>1, <1>2, <1>3, <1>4 DEF QueryNext

\* Whatever route it takes (am/columnar_agg.rs, am/df_executor.rs), a query over a
\* columnar table answers what SQL says of the rows inserted, or fails because it is
\* cancelled or its memory ran out, where the column of the predicate has no NaN.
THEOREM AnswersAreSql ==
    ASSUME KeysAreNumbers PROVE QuerySpec => []AnswerExact
<1>1. QueryInit => QueryInv /\ AnswerExact
  BY Init_QueryInv DEF QueryInit, AnswerExact
<1>2. QueryInv /\ AnswerExact /\ [QueryNext]_queryVars => QueryInv' /\ AnswerExact'
  BY Next_QueryInv, Next_Answer
<1> QED BY <1>1, <1>2, PTL DEF QuerySpec
================================================================================
