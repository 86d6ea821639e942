------------------------------ MODULE GraphProofs ------------------------------
(***************************************************************************)
(* The entity graph (GraphExtract): what chunks that are ingested at the   *)
(* same time add up to.  What a chunk gives is computed by folds over its  *)
(* text or its reply; the upsert folds its rows into the graph's.          *)
(***************************************************************************)
EXTENDS GraphExtract, SequenceTheorems, FiniteSetTheorems, TLAPS

-----------------------------------------------------------------------------
(* Extraction.                                                              *)

Sources == Texts \X BOOLEAN \X Replies
Of(source) == ExtractDispatch(source[1], source[2], source[3])

Different(seq) == \A i, j \in DOMAIN seq : seq[i] = seq[j] => i = j

\* Relations are between names, the smaller one first.
IsPair(p) == p \in Nat \X Nat /\ p[1] <= p[2]

\* What both extractions give: names that are counted once at least, and relations.
Extracted(x) ==
    /\ x.entities \in Seq(Nat) /\ Different(x.entities)
    /\ \A n \in ToSet(x.entities) : x.mentions[n] \in Nat \ {0}
    /\ IsFiniteSet(DOMAIN x.weights)
    /\ \A p \in DOMAIN x.weights : IsPair(p) /\ x.weights[p] \in Nat \ {0}

NewStep(p, order, x) == AddNew(order, x)
NewFold == INSTANCE FoldFacts WITH Op <- NewStep
SpanStep(p, spans, x) == FlushRun(spans, x)
SpanFold == INSTANCE FoldFacts WITH Op <- SpanStep
NameStep(p, names, r) == AddName(names, r)
NameFold == INSTANCE FoldFacts WITH Op <- NameStep
EdgeStep(p, pairs, r) == AddRelation(pairs, r)
EdgeFold == INSTANCE FoldFacts WITH Op <- EdgeStep

LEMMA InOrder_Facts ==
    ASSUME NEW seq \in Seq(Nat)
    PROVE  /\ InOrder(seq) \in Seq(Nat) /\ Different(InOrder(seq))
           /\ ToSet(InOrder(seq)) \subseteq ToSet(seq)
<1> DEFINE S == ToSet(seq)
           W == {q \in Seq(S) : Different(q)}
<1>1. S \subseteq Nat /\ seq \in Seq(S)
  BY DEF ToSet
<1>2. <<>> \in W
  BY DEF Different
<1>3. ASSUME NEW q \in W, NEW x \in S PROVE NewStep(0, q, x) \in W
  <2>1. CASE x \in ToSet(q)
    BY <2>1 DEF NewStep, AddNew
  <2>2. CASE x \notin ToSet(q)
    <3>1. NewStep(0, q, x) = Append(q, x) /\ Append(q, x) \in Seq(S)
      BY <2>2 DEF NewStep, AddNew
    <3>2. \A i \in DOMAIN q : q[i] # x
      BY <2>2 DEF ToSet
    <3>3. Different(q)
      OBVIOUS
    <3> HIDE DEF S
    <3>4. Different(Append(q, x))
      BY <3>2, <3>3 DEF Different
    <3> QED BY <3>1, <3>4
  <2> QED BY <2>1, <2>2
<1>4. InOrder(seq) = NewFold!Fold(0, <<>>, seq)
  BY DEF InOrder, FoldLeft, MapThenFoldSet, Max, NewFold!Fold, NewFold!Greatest, NewStep
<1> HIDE DEF W, S
<1>5. InOrder(seq) \in W
  <2>1. seq \in Seq(S) /\ \A q \in W, x \in S : NewStep(0, q, x) \in W
    BY <1>1, <1>3
  <2>2. NewFold!Fold(0, <<>>, seq) \in W
    BY <1>2, <2>1, NewFold!Fold_In
  <2> QED BY <1>4, <2>2
<1>6. InOrder(seq) \in Seq(S) /\ Different(InOrder(seq))
  BY <1>5 DEF W
<1>7. ToSet(InOrder(seq)) \subseteq S
  BY <1>6 DEF ToSet
<1> QED BY <1>1, <1>6, <1>7 DEF S

LEMMA Spans_Type ==
    ASSUME NEW text \in Seq(Nat) PROVE FoldLeft(FlushRun, <<>>, text) \in Seq(Nat)
<1> DEFINE W == Seq(Nat)
<1>1. <<>> \in W /\ \A q \in W, x \in Nat : SpanStep(0, q, x) \in W
  BY DEF SpanStep, FlushRun
<1>2. FoldLeft(FlushRun, <<>>, text) = SpanFold!Fold(0, <<>>, text)
  BY DEF FoldLeft, MapThenFoldSet, Max, SpanFold!Fold, SpanFold!Greatest, SpanStep
<1> HIDE DEF W
<1>3. SpanFold!Fold(0, <<>>, text) \in W
  BY <1>1, SpanFold!Fold_In
<1> QED BY <1>2, <1>3 DEF W

LEMMA Canonical_Pair ==
    ASSUME NEW a \in Nat, NEW b \in Nat
    PROVE  /\ IsPair(Canonical(a, b))
           /\ {Canonical(a, b)[1], Canonical(a, b)[2]} = {a, b}
BY DEF IsPair, Canonical

LEMMA Reply_Types ==
    ASSUME NEW reply \in Seq(Records)
    PROVE  /\ FoldLeft(AddName, <<>>, reply) \in Seq(Nat)
           /\ FoldLeft(AddRelation, <<>>, reply) \in Seq({p \in Nat \X Nat : IsPair(p)})
<1> DEFINE N == Seq(Nat)
           P == Seq({p \in Nat \X Nat : IsPair(p)})
<1>1. <<>> \in N /\ <<>> \in P
  OBVIOUS
<1>2. ASSUME NEW q \in N, NEW r \in Records PROVE NameStep(0, q, r) \in N
  <2>1. CASE r[1] = "E"
    <3>1. r[2] \in Nat
      BY <2>1 DEF Records
    <3> QED BY <2>1, <3>1 DEF NameStep, AddName
  <2>2. CASE r[1] # "E"
    BY <2>2 DEF NameStep, AddName
  <2> QED BY <2>1, <2>2
<1>3. ASSUME NEW q \in P, NEW r \in Records PROVE EdgeStep(0, q, r) \in P
  <2>1. CASE r[1] = "R" /\ r[2] # r[3]
    <3>1. r[2] \in Nat /\ r[3] \in Nat
      BY <2>1 DEF Records
    <3>2. IsPair(Canonical(r[2], r[3]))
      BY <3>1, Canonical_Pair
    <3>3. Canonical(r[2], r[3]) \in {p \in Nat \X Nat : IsPair(p)}
      BY <3>2 DEF IsPair
    <3>4. Append(q, Canonical(r[2], r[3])) \in P
      BY <3>3
    <3> QED BY <2>1, <3>4 DEF EdgeStep, AddRelation
  <2>2. CASE ~(r[1] = "R" /\ r[2] # r[3])
    BY <2>2 DEF EdgeStep, AddRelation
  <2> QED BY <2>1, <2>2
<1>4. FoldLeft(AddName, <<>>, reply) = NameFold!Fold(0, <<>>, reply)
  BY DEF FoldLeft, MapThenFoldSet, Max, NameFold!Fold, NameFold!Greatest, NameStep
<1>5. FoldLeft(AddRelation, <<>>, reply) = EdgeFold!Fold(0, <<>>, reply)
  BY DEF FoldLeft, MapThenFoldSet, Max, EdgeFold!Fold, EdgeFold!Greatest, EdgeStep
<1> HIDE DEF N, P
<1>6. NameFold!Fold(0, <<>>, reply) \in N
  BY <1>1, <1>2, NameFold!Fold_In
<1>7. EdgeFold!Fold(0, <<>>, reply) \in P
  BY <1>1, <1>3, EdgeFold!Fold_In
<1> QED BY <1>4, <1>5, <1>6, <1>7 DEF N, P

\* What is somewhere in a sequence is there once at least.
LEMMA Mentions_Positive ==
    ASSUME NEW T, NEW seq \in Seq(T), NEW x \in ToSet(seq)
    PROVE  Mentions(seq, x) \in Nat \ {0}
<1> DEFINE at == {i \in DOMAIN seq : seq[i] = x}
<1>1. DOMAIN seq = 1 .. Len(seq) /\ Len(seq) \in Nat
  OBVIOUS
<1>2. IsFiniteSet(at)
  <2>1. IsFiniteSet(1 .. Len(seq))
    BY <1>1, FS_Interval
  <2>2. at \subseteq 1 .. Len(seq)
    OBVIOUS
  <2> QED BY <2>1, <2>2, FS_Subset
<1>3. at # {}
  BY DEF ToSet
<1> HIDE DEF at
<1>4. Cardinality(at) \in Nat /\ Cardinality(at) # 0
  BY <1>2, <1>3, FS_CardinalityType, FS_EmptySet
<1> QED BY <1>4 DEF Mentions, at

LEMMA ToSet_Finite ==
    ASSUME NEW T, NEW seq \in Seq(T) PROVE IsFiniteSet(ToSet(seq))
<1>1. DOMAIN seq = 1 .. Len(seq) /\ Len(seq) \in Nat
  OBVIOUS
<1>2. IsFiniteSet(DOMAIN seq)
  BY <1>1, FS_Interval
<1>3. seq \in Surjection(DOMAIN seq, ToSet(seq))
  BY <1>1 DEF ToSet, Surjection
<1> QED BY <1>2, <1>3, FS_Surjection

LEMMA CoOccurrences_Facts ==
    ASSUME NEW order \in Seq(Nat)
    PROVE  /\ IsFiniteSet(CoOccurrences(order))
           /\ \A p \in CoOccurrences(order) : IsPair(p)
<1> DEFINE D == DOMAIN order
           S == {q \in D \X D : q[1] < q[2] /\ q[2] <= q[1] + Window}
           F == [p \in S |-> Canonical(order[p[1]], order[p[2]])]
<1>1. D = 1 .. Len(order) /\ Len(order) \in Nat
  OBVIOUS
<1>2. IsFiniteSet(S)
  <2>1. IsFiniteSet(D)
    BY <1>1, FS_Interval
  <2>2. IsFiniteSet(D \X D)
    BY <2>1, FS_Product
  <2>3. S \subseteq D \X D
    OBVIOUS
  <2> HIDE DEF S, D
  <2> QED BY <2>2, <2>3, FS_Subset
<1>3. F \in Surjection(S, CoOccurrences(order))
  BY DEF Surjection, CoOccurrences
<1>4. \A p \in S : order[p[1]] \in Nat /\ order[p[2]] \in Nat
  OBVIOUS
<1>5. \A p \in CoOccurrences(order) : IsPair(p)
  BY <1>4, Canonical_Pair DEF CoOccurrences
<1> HIDE DEF F, S, D
<1>6. IsFiniteSet(CoOccurrences(order))
  BY <1>2, <1>3, FS_Surjection
<1> QED BY <1>5, <1>6

LEMMA Extraction_Extracted ==
    ASSUME NEW names \in Seq(Nat), NEW order \in Seq(Nat), Different(order),
           ToSet(order) \subseteq ToSet(names), NEW w, IsFiniteSet(DOMAIN w),
           \A p \in DOMAIN w : IsPair(p) /\ w[p] \in Nat \ {0}
    PROVE  Extracted(Extraction(order, [x \in ToSet(order) |-> Mentions(names, x)], w))
<1>1. \A n \in ToSet(order) : Mentions(names, n) \in Nat \ {0}
  BY Mentions_Positive
<1> QED BY <1>1 DEF Extracted, Extraction

LEMMA CoOccurrences_Weights ==
    ASSUME NEW order \in Seq(Nat)
    PROVE  LET w == [p \in CoOccurrences(order) |-> 1] IN
           IsFiniteSet(DOMAIN w) /\ \A p \in DOMAIN w : IsPair(p) /\ w[p] \in Nat \ {0}
BY CoOccurrences_Facts

\* The first so many of a sequence without repetitions.
LEMMA Cap_Facts ==
    ASSUME NEW seq \in Seq(Nat), Different(seq)
    PROVE  LET order == SubSeq(seq, 1, Min({Len(seq), MaxEntities})) IN
           /\ order \in Seq(Nat) /\ Different(order)
           /\ ToSet(order) \subseteq ToSet(seq)
<1> DEFINE k == Min({Len(seq), MaxEntities})
           order == SubSeq(seq, 1, k)
<1>1. k \in Nat /\ k <= Len(seq)
  <2> DEFINE S == {Len(seq), MaxEntities}
  <2>1. Len(seq) \in Nat /\ MaxEntities \in Nat
    BY ExtractAssumption
  <2>2. \E x \in S : \A y \in S : x <= y
    BY <2>1
  <2>3. Min(S) \in S /\ \A y \in S : Min(S) <= y
    BY <2>2 DEF Min
  <2> QED BY <2>1, <2>3
<1> HIDE DEF k
<1>2. /\ order \in Seq(Nat) /\ DOMAIN order = 1 .. k /\ DOMAIN seq = 1 .. Len(seq)
      /\ \A i \in 1 .. k : order[i] = seq[i] /\ i \in DOMAIN seq
  BY <1>1
<1> HIDE DEF order
<1>3. Different(order) /\ ToSet(order) \subseteq ToSet(seq)
  BY <1>2 DEF Different, ToSet
<1> QED BY <1>2, <1>3 DEF order, k

LEMMA Heuristic_Extracted ==
    ASSUME NEW text \in Seq(Nat) PROVE Extracted(ExtractHeuristic(text))
<1> DEFINE spans == FoldLeft(FlushRun, <<>>, text)
           all == InOrder(spans)
           order == SubSeq(all, 1, Min({Len(all), MaxEntities}))
           w == [p \in CoOccurrences(order) |-> 1]
<1>1. spans \in Seq(Nat)
  BY Spans_Type
<1>2. ExtractHeuristic(text) = Extraction(order, [x \in ToSet(order) |-> Mentions(spans, x)], w)
  BY DEF ExtractHeuristic
<1> HIDE DEF spans
<1>3. all \in Seq(Nat) /\ Different(all) /\ ToSet(all) \subseteq ToSet(spans)
  BY <1>1, InOrder_Facts
<1> HIDE DEF all
<1>4. order \in Seq(Nat) /\ Different(order) /\ ToSet(order) \subseteq ToSet(all)
  BY <1>3, Cap_Facts
<1> HIDE DEF order
<1>5. IsFiniteSet(DOMAIN w) /\ \A p \in DOMAIN w : IsPair(p) /\ w[p] \in Nat \ {0}
  BY <1>4, CoOccurrences_Weights
<1>6. ToSet(order) \subseteq ToSet(spans)
  BY <1>3, <1>4
<1> HIDE DEF w
<1>7. Extracted(Extraction(order, [x \in ToSet(order) |-> Mentions(spans, x)], w))
  BY <1>1, <1>4, <1>5, <1>6, Extraction_Extracted
<1> QED BY <1>2, <1>7

LEMMA Reply_Extracted ==
    ASSUME NEW reply \in Seq(Records) PROVE Extracted(ParseLlmExtraction(reply))
<1> DEFINE names == FoldLeft(AddName, <<>>, reply)
           pairs == FoldLeft(AddRelation, <<>>, reply)
           order == InOrder(names)
           met == [p \in CoOccurrences(order) |-> 1]
           said == [p \in ToSet(pairs) |-> Mentions(pairs, p)]
           w == IF pairs = <<>> THEN met ELSE said
           P == {p \in Nat \X Nat : IsPair(p)}
<1>1. names \in Seq(Nat) /\ pairs \in Seq(P)
  BY Reply_Types
<1>2. ParseLlmExtraction(reply) =
        Extraction(order, [x \in ToSet(order) |-> Mentions(names, x)], w)
  BY DEF ParseLlmExtraction
<1> HIDE DEF names, pairs
<1>3. order \in Seq(Nat) /\ Different(order) /\ ToSet(order) \subseteq ToSet(names)
  BY <1>1, InOrder_Facts
<1> HIDE DEF order
<1>4. IsFiniteSet(DOMAIN met) /\ \A p \in DOMAIN met : IsPair(p) /\ met[p] \in Nat \ {0}
  BY <1>3, CoOccurrences_Weights
<1>5. IsFiniteSet(DOMAIN said) /\ \A p \in DOMAIN said : IsPair(p) /\ said[p] \in Nat \ {0}
  <2>1. ToSet(pairs) \subseteq P
    BY <1>1 DEF ToSet
  <2> HIDE DEF P
  <2>2. IsFiniteSet(ToSet(pairs)) /\ \A p \in ToSet(pairs) : Mentions(pairs, p) \in Nat \ {0}
    BY <1>1, ToSet_Finite, Mentions_Positive
  <2> QED BY <2>1, <2>2 DEF P
<1> HIDE DEF met, said
<1>6. IsFiniteSet(DOMAIN w) /\ \A p \in DOMAIN w : IsPair(p) /\ w[p] \in Nat \ {0}
  BY <1>4, <1>5
<1> HIDE DEF w
<1>7. Extracted(Extraction(order, [x \in ToSet(order) |-> Mentions(names, x)], w))
  BY <1>1, <1>3, <1>6, Extraction_Extracted
<1> QED BY <1>2, <1>7

LEMMA Dispatch_Extracted ==
    ASSUME NEW source \in Sources PROVE Extracted(Of(source))
<1>1. source[1] \in Seq(Nat) /\ source[3] \in Seq(Records)
  BY ExtractAssumption DEF Sources
<1> QED BY <1>1, Heuristic_Extracted, Reply_Extracted DEF Of, ExtractDispatch
-----------------------------------------------------------------------------
(* The rows of a chunk.                                                     *)

GraphRow == [kind : {"n", "e"}, key : Seq(Nat), amount : Nat \ {0}]
Same(r, q) == r.kind = q.kind /\ r.key = q.key
Unlike(w) == \A i, j \in DOMAIN w : Same(w[i], w[j]) => i = j

\* Each entity has a row with its mentions; a relation has its ends among them.
NamesCounted(w, x) ==
    \A i \in DOMAIN w : w[i].kind = "n" =>
      \E n \in ToSet(x.entities) : w[i].key = <<n>> /\ w[i].amount = x.mentions[n]
NamesWritten(w, x) ==
    \A n \in ToSet(x.entities) : \E i \in DOMAIN w :
      w[i].kind = "n" /\ w[i].key = <<n>>
EndsNamed(w, x) ==
    \A i \in DOMAIN w : w[i].kind = "e" =>
      IsPair(w[i].key) /\ {w[i].key[1], w[i].key[2]} \subseteq ToSet(x.entities)

LEMMA SetToSeq_Facts ==
    ASSUME NEW S, IsFiniteSet(S)
    PROVE  SetToSeq(S) \in Seq(S) /\ Different(SetToSeq(S))
<1> DEFINE n == Cardinality(S)
<1>1. n \in Nat /\ ExistsBijection(1 .. n, S)
  BY FS_CardinalityType
<1> HIDE DEF n
<1>2. PICK f \in Bijection(1 .. n, S) : TRUE
  BY <1>1 DEF ExistsBijection
<1>3. f \in [1 .. n -> S] /\ IsInjective(f)
  BY <1>2 DEF Bijection, Injection, IsInjective
<1>4. SetToSeq(S) \in [1 .. n -> S] /\ IsInjective(SetToSeq(S))
  BY <1>3 DEF SetToSeq, n
<1> QED BY <1>1, <1>4 DEF IsInjective, Different

LEMMA UpsertRows_Facts ==
    ASSUME NEW x, Extracted(x)
    PROVE  LET w == UpsertRows(x) IN
           /\ w \in Seq(GraphRow) /\ Unlike(w)
           /\ NamesCounted(w, x) /\ NamesWritten(w, x) /\ EndsNamed(w, x)
<1> DEFINE order == x.entities
           pairs == SetToSeq(Linked(x))
           nodes == [i \in DOMAIN order |->
                       [kind |-> "n", key |-> <<order[i]>>, amount |-> x.mentions[order[i]]]]
           links == [i \in DOMAIN pairs |->
                       [kind |-> "e", key |-> pairs[i], amount |-> x.weights[pairs[i]]]]
           w == nodes \o links
           a == Len(order)
           b == Len(pairs)
<1>1. order \in Seq(Nat) /\ Different(order) /\ a \in Nat /\ DOMAIN order = 1 .. a
  BY DEF Extracted
<1>2. pairs \in Seq(Linked(x)) /\ Different(pairs) /\ b \in Nat /\ DOMAIN pairs = 1 .. b
  <2>1. IsFiniteSet(Linked(x))
    <3>1. Linked(x) \subseteq DOMAIN x.weights /\ IsFiniteSet(DOMAIN x.weights)
      BY DEF Linked, Extracted
    <3> QED BY <3>1, FS_Subset
  <2> QED BY <2>1, SetToSeq_Facts, LenProperties
<1>3. \A i \in 1 .. a : order[i] \in ToSet(order) /\ order[i] \in Nat
  BY <1>1 DEF ToSet
<1>4. \A i \in 1 .. b :
        /\ pairs[i] \in Linked(x) /\ IsPair(pairs[i]) /\ x.weights[pairs[i]] \in Nat \ {0}
        /\ {pairs[i][1], pairs[i][2]} \subseteq ToSet(order)
  <2>1. \A p \in Linked(x) : /\ IsPair(p) /\ x.weights[p] \in Nat \ {0}
                            /\ {p[1], p[2]} \subseteq ToSet(order)
    BY DEF Linked, Extracted
  <2>2. \A i \in 1 .. b : pairs[i] \in Linked(x)
    BY <1>2
  <2> HIDE DEF pairs, order
  <2> QED BY <2>1, <2>2
<1>5. nodes \in Seq(GraphRow) /\ Len(nodes) = a
  <2>1. \A i \in 1 .. a : nodes[i] \in GraphRow
    BY <1>1, <1>3 DEF GraphRow, Extracted
  <2>2. nodes \in [1 .. a -> GraphRow]
    BY <1>1, <2>1
  <2> HIDE DEF nodes
  <2> QED BY <1>1, <2>2
<1>6. links \in Seq(GraphRow) /\ Len(links) = b
  <2>1. \A i \in 1 .. b : links[i] \in GraphRow
    <3> SUFFICES ASSUME NEW i \in 1 .. b
                 PROVE  [kind |-> "e", key |-> pairs[i], amount |-> x.weights[pairs[i]]] \in GraphRow
      BY <1>2
    <3>1. pairs[i] \in Nat \X Nat
      BY <1>4 DEF IsPair
    <3>2. PICK c \in Nat, d \in Nat : pairs[i] = <<c, d>>
      BY <3>1
    <3>3. pairs[i] \in Seq(Nat)
      BY <3>2
    <3> QED BY <1>4, <3>3 DEF GraphRow
  <2>2. links \in [1 .. b -> GraphRow]
    BY <1>2, <2>1
  <2> HIDE DEF links
  <2> QED BY <1>2, <2>2
<1>7. /\ \A i \in 1 .. a : /\ nodes[i].kind = "n" /\ nodes[i].key = <<order[i]>>
                            /\ nodes[i].amount = x.mentions[order[i]]
      /\ \A i \in 1 .. b : links[i].kind = "e" /\ links[i].key = pairs[i]
  BY <1>1, <1>2
<1>8. UpsertRows(x) = w
  BY DEF UpsertRows
<1> HIDE DEF nodes, links
<1>9. /\ w \in Seq(GraphRow) /\ DOMAIN w = 1 .. a + b
      /\ \A i \in 1 .. a : i \in DOMAIN w /\ w[i] = nodes[i]
      /\ \A i \in DOMAIN w : i > a => i - a \in 1 .. b /\ w[i] = links[i - a]
  <2>1. w \in Seq(GraphRow) /\ DOMAIN w = 1 .. a + b
    <3> HIDE DEF a, b
    <3>1. w \in Seq(GraphRow) /\ Len(w) = Len(nodes) + Len(links)
      BY <1>5, <1>6
    <3>2. Len(w) = a + b
      BY <1>5, <1>6, <3>1
    <3> HIDE DEF w
    <3> QED BY <3>1, <3>2
  <2>2. \A i \in 1 .. a : i \in 1 .. a + b /\ w[i] = nodes[i]
    BY <1>1, <1>2, <1>5, <1>6
  <2>3. ASSUME NEW i \in 1 .. a + b, i > a PROVE i - a \in 1 .. b /\ w[i] = links[i - a]
    BY <1>1, <1>2, <1>5, <1>6, <2>3
  <2> QED BY <2>1, <2>2, <2>3
<1> HIDE DEF w, order, pairs, a, b
<1>10. /\ \A i \in DOMAIN w : w[i].kind = "n" <=> i <= a
       /\ \A i \in DOMAIN w : i <= a => i \in 1 .. a
  <2> SUFFICES ASSUME NEW i \in DOMAIN w
               PROVE  (w[i].kind = "n" <=> i <= a) /\ (i <= a => i \in 1 .. a)
    OBVIOUS
  <2>1. CASE i <= a
    <3>1. i \in 1 .. a
      BY <1>1, <1>2, <1>9, <2>1
    <3> QED BY <1>7, <1>9, <2>1, <3>1
  <2>2. CASE ~(i <= a)
    <3>1. i > a
      BY <1>1, <1>2, <1>9, <2>2
    <3> QED BY <1>7, <1>9, <2>2, <3>1
  <2> QED BY <2>1, <2>2
<1>11. Unlike(w)
  <2> SUFFICES ASSUME NEW i \in DOMAIN w, NEW j \in DOMAIN w, Same(w[i], w[j]) PROVE i = j
    BY DEF Unlike
  <2>1. CASE i <= a
    <3>1. i \in 1 .. a /\ j \in 1 .. a
      BY <1>10, <2>1 DEF Same
    <3>2. order[i] = order[j]
      BY <1>7, <1>9, <3>1 DEF Same
    <3> QED BY <1>1, <3>1, <3>2 DEF Different
  <2>2. CASE ~(i <= a)
    <3>1. i > a /\ j > a
      BY <1>1, <1>2, <1>9, <1>10, <2>2 DEF Same
    <3>2. i - a \in 1 .. b /\ j - a \in 1 .. b /\ pairs[i - a] = pairs[j - a]
      BY <1>7, <1>9, <3>1 DEF Same
    <3>3. i - a = j - a
      BY <1>2, <3>2 DEF Different
    <3> QED BY <1>1, <1>2, <1>9, <3>3
  <2> QED BY <2>1, <2>2
<1>12. NamesCounted(w, x)
  BY <1>3, <1>7, <1>9, <1>10 DEF NamesCounted, order
<1>13. NamesWritten(w, x)
  <2> SUFFICES ASSUME NEW n \in ToSet(order)
               PROVE  \E i \in DOMAIN w : w[i].kind = "n" /\ w[i].key = <<n>>
    BY DEF NamesWritten, order
  <2>1. PICK i \in 1 .. a : order[i] = n
    BY <1>1 DEF ToSet
  <2> QED BY <1>7, <1>9, <2>1
<1>14. EndsNamed(w, x)
  <2> SUFFICES ASSUME NEW i \in DOMAIN w, w[i].kind = "e"
               PROVE  IsPair(w[i].key) /\ {w[i].key[1], w[i].key[2]} \subseteq ToSet(order)
    BY DEF EndsNamed, order
  <2>1. i > a
    BY <1>1, <1>2, <1>9, <1>10
  <2>2. i - a \in 1 .. b /\ w[i].key = pairs[i - a]
    BY <1>7, <1>9, <2>1
  <2> QED BY <1>4, <2>2
<1> QED BY <1>8, <1>9, <1>11, <1>12, <1>13, <1>14

-----------------------------------------------------------------------------
(* The upsert of a row adds its amount and changes no other row.            *)

OneEach(rows) == \A r, q \in rows : Same(r, q) => r = q
Table == {rows \in SUBSET GraphRow : OneEach(rows)}

LEMMA AmountOf_Row ==
    ASSUME NEW rows \in Table, NEW r \in rows
    PROVE  AmountOf(rows, r.kind, r.key) = r.amount
<1> DEFINE S == {q \in rows : q.kind = r.kind /\ q.key = r.key}
<1>1. r \in S /\ \A q \in S : q = r
  BY DEF Table, OneEach, Same
<1>2. S # {} /\ (CHOOSE q \in S : TRUE) = r
  BY <1>1
<1> QED BY <1>2 DEF AmountOf

LEMMA AmountOf_None ==
    ASSUME NEW rows, NEW kind, NEW key,
           \A r \in rows : ~(r.kind = kind /\ r.key = key)
    PROVE  AmountOf(rows, kind, key) = 0
BY DEF AmountOf

LEMMA AmountOf_Type ==
    ASSUME NEW rows \in Table, NEW kind, NEW key
    PROVE  /\ AmountOf(rows, kind, key) \in Nat
           /\ AmountOf(rows, kind, key) > 0 =>
                \E r \in rows : r.kind = kind /\ r.key = key
           /\ (\E r \in rows : r.kind = kind /\ r.key = key) => AmountOf(rows, kind, key) > 0
<1>1. ASSUME NEW r \in rows, r.kind = kind, r.key = key
      PROVE  AmountOf(rows, kind, key) \in Nat /\ AmountOf(rows, kind, key) > 0
  <2>1. AmountOf(rows, kind, key) = r.amount
    BY <1>1, AmountOf_Row
  <2>2. r.amount \in Nat \ {0}
    BY DEF Table, GraphRow
  <2> QED BY <2>1, <2>2
<1>2. ASSUME \A r \in rows : ~(r.kind = kind /\ r.key = key)
      PROVE  AmountOf(rows, kind, key) = 0
  BY <1>2, AmountOf_None
<1> QED BY <1>1, <1>2

LEMMA Upserted_Facts ==
    ASSUME NEW rows \in Table, NEW row \in GraphRow
    PROVE  /\ Upserted(rows, row) \in Table
           /\ \A kind, key : AmountOf(Upserted(rows, row), kind, key) =
                AmountOf(rows, kind, key)
                  + (IF kind = row.kind /\ key = row.key THEN row.amount ELSE 0)
<1> DEFINE same == {r \in rows : r.kind = row.kind /\ r.key = row.key}
           new == Upserted(rows, row)
<1>1. row.amount \in Nat \ {0} /\ row.kind \in {"n", "e"} /\ row.key \in Seq(Nat)
  BY DEF GraphRow
<1>2. \E r \in GraphRow : /\ Same(r, row) /\ r \in new
                          /\ r.amount = AmountOf(rows, row.kind, row.key) + row.amount
                          /\ \A q : q \in new <=> q = r \/ (q \in rows /\ ~Same(q, row))
  <2>1. CASE same = {}
    <3>1. new = rows \cup {row} /\ \A q \in rows : ~Same(q, row)
      BY <2>1 DEF Upserted, Same
    <3>2. AmountOf(rows, row.kind, row.key) = 0
      BY <3>1, AmountOf_None DEF Same
    <3> WITNESS row \in GraphRow
    <3> QED BY <1>1, <3>1, <3>2 DEF Same
  <2>2. CASE same # {}
    <3> DEFINE old == CHOOSE r \in same : TRUE
               r == [old EXCEPT !.amount = AmountOnConflict(@, row.amount)]
    <3>1. old \in same
      BY <2>2
    <3>2. old \in rows /\ old.kind = row.kind /\ old.key = row.key
      BY <3>1
    <3>3. new = (rows \ same) \cup {r}
      BY <2>2 DEF Upserted
    <3> HIDE DEF old
    <3>4. old \in GraphRow
      BY <3>2 DEF Table
    <3>5. r \in GraphRow /\ r.kind = old.kind /\ r.key = old.key
          /\ r.amount = old.amount + row.amount
      <4> DEFINE sum == AmountOnConflict(old.amount, row.amount)
      <4>1. sum = old.amount + row.amount /\ sum \in Nat \ {0}
        BY <1>1, <3>4 DEF GraphRow, AmountOnConflict
      <4>2. r = [old EXCEPT !.amount = sum]
        OBVIOUS
      <4> HIDE DEF sum, r
      <4> QED BY <3>4, <4>1, <4>2 DEF GraphRow
    <3>6. AmountOf(rows, row.kind, row.key) = old.amount
      BY <3>2, AmountOf_Row
    <3>7. \A q \in rows : q \in same <=> Same(q, row)
      BY DEF Same
    <3> HIDE DEF r, same, new
    <3>8. \A q : q \in new <=> q = r \/ (q \in rows /\ ~Same(q, row))
      BY <3>3, <3>7
    <3>9. Same(r, row)
      BY <3>2, <3>5 DEF Same
    <3> QED BY <3>5, <3>6, <3>8, <3>9
  <2> QED BY <2>1, <2>2
<1> HIDE DEF new, same
<1>3. PICK r \in GraphRow : /\ Same(r, row) /\ r \in new
                            /\ r.amount = AmountOf(rows, row.kind, row.key) + row.amount
                            /\ \A q : q \in new <=> q = r \/ (q \in rows /\ ~Same(q, row))
  BY <1>2
<1>4. new \in Table
  <2>1. new \subseteq GraphRow
    BY <1>3 DEF Table
  <2>2. OneEach(new)
    <3> SUFFICES ASSUME NEW p \in new, NEW q \in new, Same(p, q) PROVE p = q
      BY DEF OneEach
    <3>1. CASE p = r \/ q = r
      <4>1. Same(p, row) /\ Same(q, row)
        BY <1>3, <3>1 DEF Same
      <4> QED BY <1>3, <4>1
    <3>2. CASE p # r /\ q # r
      <4>1. p \in rows /\ q \in rows
        BY <1>3, <3>2
      <4> QED BY <4>1 DEF Table, OneEach
    <3> QED BY <3>1, <3>2
  <2> QED BY <2>1, <2>2 DEF Table
<1>5. ASSUME NEW kind, NEW key
      PROVE  AmountOf(new, kind, key) = AmountOf(rows, kind, key)
               + (IF kind = row.kind /\ key = row.key THEN row.amount ELSE 0)
  <2>1. CASE kind = row.kind /\ key = row.key
    <3>1. AmountOf(new, r.kind, r.key) = r.amount
      BY <1>3, <1>4, AmountOf_Row
    <3> QED BY <1>3, <2>1, <3>1 DEF Same
  <2>2. CASE ~(kind = row.kind /\ key = row.key)
    <3>0. AmountOf(rows, kind, key) \in Nat
      BY AmountOf_Type
    <3>1. CASE \E q \in rows : q.kind = kind /\ q.key = key
      <4>1. PICK q \in rows : q.kind = kind /\ q.key = key
        BY <3>1
      <4>2. q \in new
        BY <1>3, <2>2, <4>1 DEF Same
      <4>3. AmountOf(rows, q.kind, q.key) = q.amount
        BY AmountOf_Row
      <4>4. AmountOf(new, q.kind, q.key) = q.amount
        BY <1>4, <4>2, AmountOf_Row
      <4>5. AmountOf(new, kind, key) = AmountOf(rows, kind, key)
        BY <4>1, <4>3, <4>4
      <4> QED BY <2>2, <3>0, <4>5
    <3>2. CASE ~\E q \in rows : q.kind = kind /\ q.key = key
      <4>1. \A q \in new : ~(q.kind = kind /\ q.key = key)
        BY <1>3, <2>2, <3>2 DEF Same
      <4>2. AmountOf(new, kind, key) = 0 /\ AmountOf(rows, kind, key) = 0
        BY <3>2, <4>1, AmountOf_None
      <4> QED BY <2>2, <4>2
    <3> QED BY <3>1, <3>2
  <2> QED BY <2>1, <2>2
<1> QED BY <1>4, <1>5 DEF new

\* What a sequence of rows that are unlike one another adds to a row.
Adds(w, kind, key) ==
    IF \E i \in DOMAIN w : w[i].kind = kind /\ w[i].key = key
      THEN w[CHOOSE i \in DOMAIN w : w[i].kind = kind /\ w[i].key = key].amount ELSE 0

RowStep(p, rows, row) == Upserted(rows, row)
RowFold == INSTANCE FoldFacts WITH Op <- RowStep

Folded(rows, w) == FoldLeft(Upserted, rows, w)
Adding(rows, w) ==
    /\ Folded(rows, w) \in Table
    /\ \A kind, key : AmountOf(Folded(rows, w), kind, key) =
         AmountOf(rows, kind, key) + Adds(w, kind, key)

LEMMA Folded_Empty ==
    ASSUME NEW rows PROVE Folded(rows, <<>>) = rows
<1>1. Folded(rows, <<>>) = RowFold!Fold(0, rows, <<>>)
  BY DEF Folded, FoldLeft, MapThenFoldSet, Max, RowFold!Fold, RowFold!Greatest, RowStep
<1> QED BY <1>1, RowFold!Fold_Empty

LEMMA Folded_Append ==
    ASSUME NEW rows \in Table, NEW w \in Seq(GraphRow), NEW row \in GraphRow
    PROVE  Folded(rows, Append(w, row)) = Upserted(Folded(rows, w), row)
<1>1. \A q \in Table, r \in GraphRow : RowStep(0, q, r) \in Table
  BY Upserted_Facts DEF RowStep
<1>2. \A v : Folded(rows, v) = RowFold!Fold(0, rows, v)
  BY DEF Folded, FoldLeft, MapThenFoldSet, Max, RowFold!Fold, RowFold!Greatest, RowStep
<1>3. RowFold!Fold(0, rows, Append(w, row)) = RowStep(0, RowFold!Fold(0, rows, w), row)
  BY <1>1, RowFold!Fold_Append
<1> QED BY <1>2, <1>3 DEF RowStep

LEMMA Adds_Append ==
    ASSUME NEW w \in Seq(GraphRow), NEW row \in GraphRow, Unlike(Append(w, row)),
           NEW kind, NEW key
    PROVE  /\ Unlike(w)
           /\ Adds(w, kind, key) \in Nat
           /\ Adds(Append(w, row), kind, key) = Adds(w, kind, key)
                + (IF kind = row.kind /\ key = row.key THEN row.amount ELSE 0)
<1> DEFINE v == Append(w, row)
           n == Len(w)
           At(i) == v[i].kind = kind /\ v[i].key = key
<1>1. /\ n \in Nat /\ DOMAIN w = 1 .. n /\ DOMAIN v = 1 .. n + 1
      /\ v[n + 1] = row /\ \A i \in 1 .. n : v[i] = w[i] /\ w[i] \in GraphRow
  OBVIOUS
<1>2. \A i, j \in DOMAIN v : Same(v[i], v[j]) => i = j
  BY DEF Unlike
<1> HIDE DEF v, n
<1>3. Unlike(w)
  BY <1>1, <1>2 DEF Unlike
<1>4. ASSUME NEW i \in 1 .. n, At(i)
      PROVE  /\ Adds(w, kind, key) = w[i].amount /\ Adds(v, kind, key) = w[i].amount
             /\ ~(kind = row.kind /\ key = row.key)
  <2>1. \A j \in DOMAIN v : At(j) => j = i
    BY <1>1, <1>2, <1>4 DEF Same
  <2>2. (CHOOSE j \in DOMAIN v : v[j].kind = kind /\ v[j].key = key) = i
    BY <1>1, <1>4, <2>1
  <2>3. (CHOOSE j \in DOMAIN w : w[j].kind = kind /\ w[j].key = key) = i
    BY <1>1, <1>4, <2>1
  <2>4. Adds(w, kind, key) = w[i].amount
    BY <1>1, <1>4, <2>3 DEF Adds
  <2>5. Adds(v, kind, key) = w[i].amount
    <3>1. \E j \in DOMAIN v : v[j].kind = kind /\ v[j].key = key
      BY <1>1, <1>4
    <3>2. Adds(v, kind, key) = v[i].amount
      BY <2>2, <3>1 DEF Adds
    <3> QED BY <1>1, <1>4, <3>2
  <2>6. ~At(n + 1)
    BY <1>1, <2>1
  <2> QED BY <1>1, <2>4, <2>5, <2>6
<1>5. ASSUME \A i \in 1 .. n : ~At(i)
      PROVE  /\ Adds(w, kind, key) = 0
             /\ Adds(v, kind, key) = IF kind = row.kind /\ key = row.key THEN row.amount ELSE 0
  <2>1. Adds(w, kind, key) = 0
    BY <1>1, <1>5 DEF Adds
  <2>2. CASE At(n + 1)
    <3>1. (CHOOSE j \in DOMAIN v : v[j].kind = kind /\ v[j].key = key) = n + 1
      BY <1>1, <1>5, <2>2
    <3>2. \E j \in DOMAIN v : v[j].kind = kind /\ v[j].key = key
      BY <1>1, <2>2
    <3>3. Adds(v, kind, key) = v[n + 1].amount
      BY <3>1, <3>2 DEF Adds
    <3> QED BY <1>1, <2>1, <2>2, <3>3
  <2>3. CASE ~At(n + 1)
    <3>1. Adds(v, kind, key) = 0
      BY <1>1, <1>5, <2>3 DEF Adds
    <3> QED BY <1>1, <2>1, <2>3, <3>1
  <2> QED BY <2>2, <2>3
<1>6. row.amount \in Nat /\ \A i \in 1 .. n : w[i].amount \in Nat
  BY <1>1 DEF GraphRow
<1> HIDE DEF At
<1>7. CASE \E i \in 1 .. n : At(i)
  BY <1>3, <1>4, <1>6, <1>7 DEF v
<1>8. CASE \A i \in 1 .. n : ~At(i)
  BY <1>3, <1>5, <1>6, <1>8 DEF v
<1> QED BY <1>7, <1>8

LEMMA Folded_Adds ==
    ASSUME NEW rows \in Table, NEW w \in Seq(GraphRow), Unlike(w)
    PROVE  Adding(rows, w)
<1> DEFINE T == {v \in Seq(GraphRow) : Unlike(v) => Adding(rows, v)}
<1>1. <<>> \in T
  <2>1. Folded(rows, <<>>) = rows
    BY Folded_Empty
  <2>2. \A kind, key : Adds(<<>>, kind, key) = 0 /\ AmountOf(rows, kind, key) \in Nat
    BY AmountOf_Type DEF Adds
  <2> QED BY <2>1, <2>2 DEF Adding
<1>2. ASSUME NEW v \in Seq(GraphRow), NEW row \in GraphRow, v \in T
      PROVE  Append(v, row) \in T
  <2> SUFFICES ASSUME Unlike(Append(v, row)) PROVE Adding(rows, Append(v, row))
    OBVIOUS
  <2>1. Unlike(v)
    BY Adds_Append
  <2>2. Adding(rows, v)
    BY <1>2, <2>1
  <2> DEFINE old == Folded(rows, v)
             new == Folded(rows, Append(v, row))
             more(kind, key) == IF kind = row.kind /\ key = row.key THEN row.amount ELSE 0
  <2>3. old \in Table
    BY <2>2 DEF Adding
  <2>4. new = Upserted(old, row)
    BY Folded_Append
  <2> HIDE DEF old, new
  <2>5. new \in Table
        /\ \A kind, key : AmountOf(new, kind, key) = AmountOf(old, kind, key) + more(kind, key)
    BY <2>3, <2>4, Upserted_Facts
  <2>6. ASSUME NEW kind, NEW key
        PROVE  AmountOf(new, kind, key) =
                 AmountOf(rows, kind, key) + Adds(Append(v, row), kind, key)
    <3>1. /\ Adds(v, kind, key) \in Nat
          /\ Adds(Append(v, row), kind, key) = Adds(v, kind, key) + more(kind, key)
      BY Adds_Append
    <3>2. AmountOf(old, kind, key) = AmountOf(rows, kind, key) + Adds(v, kind, key)
      BY <2>2 DEF Adding, old
    <3>3. AmountOf(rows, kind, key) \in Nat
      BY AmountOf_Type
    <3>4. more(kind, key) \in Nat
      BY DEF GraphRow
    <3> HIDE DEF more
    <3> QED BY <2>5, <3>1, <3>2, <3>3, <3>4
  <2> QED BY <2>5, <2>6 DEF Adding, new
<1> HIDE DEF T
<1>3. Seq(GraphRow) \subseteq T
  BY <1>1, <1>2, RowFold!SequenceInduction
<1> QED BY <1>3 DEF T

-----------------------------------------------------------------------------
(* The graph's rows are those of the committed chunks.                      *)

Upsert == [todo : Seq(GraphRow), wrote : Seq(GraphRow), source : Sources]

\* The rows written and those left are the rows of the chunk.
UpsertFits(u) ==
    \/ u = IdleUpsert
    \/ u \in Upsert /\ u.wrote \o u.todo = UpsertRows(Of(u.source))

\* Node rows are keyed by a name, relations by two with rows of their own.
RowFits(rows, r) ==
    /\ r.kind = "n" => \E n \in Nat : r.key = <<n>>
    /\ r.kind = "e" => /\ IsPair(r.key)
                       /\ AmountOf(rows, "n", <<r.key[1]>>) > 0
                       /\ AmountOf(rows, "n", <<r.key[2]>>) > 0

Total(name, sources) ==
    FoldLeft(LAMBDA acc, source : acc + Named(source, name), 0, sources)

ExtractTypes == graphRows \in Table /\ ingested \in Seq(Sources)
UpsertsFit == \A s \in Ingesters : UpsertFits(upserts[s])
RowsFit == \A r \in graphRows : RowFits(graphRows, r)
NamesAddUp == \A n \in Nat : AmountOf(graphRows, "n", <<n>>) = Total(n, ingested)

ExtractInv ==
    /\ ExtractTypes
    /\ upserts \in [Ingesters -> {IdleUpsert} \cup Upsert] /\ UpsertsFit
    /\ RowsFit
    /\ NamesAddUp

NamedStep(name, total, source) == total + Named(source, name)
NamedFold == INSTANCE FoldFacts WITH Op <- NamedStep

LEMMA Named_Type ==
    ASSUME NEW source \in Sources, NEW n PROVE Named(source, n) \in Nat
<1>1. Extracted(Of(source))
  BY Dispatch_Extracted
<1> QED BY <1>1 DEF Named, Of, Extracted

LEMMA Total_Append ==
    ASSUME NEW sources \in Seq(Sources), NEW source \in Sources, NEW n
    PROVE  /\ Total(n, sources) \in Nat
           /\ Total(n, Append(sources, source)) = Total(n, sources) + Named(source, n)
<1>1. \A total \in Nat, q \in Sources : NamedStep(n, total, q) \in Nat
  BY Named_Type DEF NamedStep
<1>2. \A q : Total(n, q) = NamedFold!Fold(n, 0, q)
  BY DEF Total, FoldLeft, MapThenFoldSet, Max, NamedFold!Fold, NamedFold!Greatest, NamedStep
<1> DEFINE N == Nat
<1>3. 0 \in N /\ \A total \in N, q \in Sources : NamedStep(n, total, q) \in N
  BY <1>1
<1> HIDE DEF N
<1>4. NamedFold!Fold(n, 0, sources) \in N
  BY <1>3, NamedFold!Fold_In
<1>5. NamedFold!Fold(n, 0, Append(sources, source))
        = NamedStep(n, NamedFold!Fold(n, 0, sources), source)
  BY <1>3, NamedFold!Fold_Append
<1> QED BY <1>2, <1>4, <1>5 DEF NamedStep, N

LEMMA Total_Empty ==
    ASSUME NEW n PROVE Total(n, <<>>) = 0
<1>1. Total(n, <<>>) = NamedFold!Fold(n, 0, <<>>)
  BY DEF Total, FoldLeft, MapThenFoldSet, Max, NamedFold!Fold, NamedFold!Greatest, NamedStep
<1> QED BY <1>1, NamedFold!Fold_Empty

\* The rows of a chunk add to a name's row how often the chunk names it.
LEMMA Adds_Named ==
    ASSUME NEW source \in Sources, NEW n \in Nat
    PROVE  Adds(UpsertRows(Of(source)), "n", <<n>>) = Named(source, n)
<1> DEFINE x == Of(source)
           w == UpsertRows(x)
<1>1. /\ Extracted(x) /\ w \in Seq(GraphRow) /\ Unlike(w)
      /\ NamesCounted(w, x) /\ NamesWritten(w, x)
  BY Dispatch_Extracted, UpsertRows_Facts
<1>2. Named(source, n) = IF n \in ToSet(x.entities) THEN x.mentions[n] ELSE 0
  BY DEF Named, Of
<1> HIDE DEF w, x
<1>3. CASE n \in ToSet(x.entities)
  <2> DEFINE i == CHOOSE i \in DOMAIN w : w[i].kind = "n" /\ w[i].key = <<n>>
  <2>1. \E j \in DOMAIN w : w[j].kind = "n" /\ w[j].key = <<n>>
    BY <1>1, <1>3 DEF NamesWritten
  <2>2. i \in DOMAIN w /\ w[i].kind = "n" /\ w[i].key = <<n>>
    BY <2>1
  <2>3. Adds(w, "n", <<n>>) = w[i].amount
    BY <2>1 DEF Adds
  <2> HIDE DEF i
  <2>4. PICK m \in ToSet(x.entities) : w[i].key = <<m>> /\ w[i].amount = x.mentions[m]
    BY <1>1, <2>2 DEF NamesCounted
  <2>5. m = n
    BY <2>2, <2>4
  <2> QED BY <1>2, <1>3, <2>3, <2>4, <2>5 DEF w, x
<1>4. CASE n \notin ToSet(x.entities)
  <2>1. \A j \in DOMAIN w : ~(w[j].kind = "n" /\ w[j].key = <<n>>)
    <3> SUFFICES ASSUME NEW j \in DOMAIN w, w[j].kind = "n", w[j].key = <<n>> PROVE FALSE
      OBVIOUS
    <3>1. PICK m \in ToSet(x.entities) : w[j].key = <<m>>
      BY <1>1 DEF NamesCounted
    <3>2. m = n
      BY <3>1
    <3> QED BY <1>4, <3>1, <3>2
  <2>2. Adds(w, "n", <<n>>) = 0
    BY <2>1 DEF Adds
  <2> QED BY <1>2, <1>4, <2>2 DEF w, x
<1> QED BY <1>3, <1>4

LEMMA Adds_Exists ==
    ASSUME NEW w \in Seq(GraphRow), NEW kind, NEW key
    PROVE  Adds(w, kind, key) \in Nat
           /\ (Adds(w, kind, key) > 0 =>
                 \E i \in DOMAIN w : w[i].kind = kind /\ w[i].key = key)
<1> DEFINE i == CHOOSE i \in DOMAIN w : w[i].kind = kind /\ w[i].key = key
<1>1. CASE \E j \in DOMAIN w : w[j].kind = kind /\ w[j].key = key
  <2>1. i \in DOMAIN w
    BY <1>1
  <2>2. Adds(w, kind, key) = w[i].amount
    BY <1>1 DEF Adds
  <2> HIDE DEF i
  <2>3. w[i] \in GraphRow
    BY <2>1
  <2> QED BY <1>1, <2>2, <2>3 DEF GraphRow
<1>2. CASE ~\E j \in DOMAIN w : w[j].kind = kind /\ w[j].key = key
  BY <1>2 DEF Adds
<1> QED BY <1>1, <1>2

\* A committed chunk: its relations have their ends among the names it wrote.
LEMMA Committed_Fits ==
    ASSUME NEW rows \in Table, \A r \in rows : RowFits(rows, r), NEW source \in Sources
    PROVE  LET new == Folded(rows, UpsertRows(Of(source))) IN
           /\ new \in Table
           /\ \A n \in Nat :
                AmountOf(new, "n", <<n>>) = AmountOf(rows, "n", <<n>>) + Named(source, n)
           /\ \A r \in new : RowFits(new, r)
<1> DEFINE x == Of(source)
           w == UpsertRows(x)
           new == Folded(rows, w)
<1>1. /\ Extracted(x) /\ w \in Seq(GraphRow) /\ Unlike(w)
      /\ NamesCounted(w, x) /\ EndsNamed(w, x)
  BY Dispatch_Extracted, UpsertRows_Facts
<1>2. Adding(rows, w)
  BY <1>1, Folded_Adds
<1>3. \A n \in Nat : Adds(w, "n", <<n>>) = Named(source, n)
  BY Adds_Named
<1>4. \A n : Named(source, n) = IF n \in ToSet(x.entities) THEN x.mentions[n] ELSE 0
  BY DEF Named, Of
<1> HIDE DEF x, w
<1>5. /\ new \in Table
      /\ \A kind, key : AmountOf(new, kind, key) = AmountOf(rows, kind, key) + Adds(w, kind, key)
  BY <1>2 DEF Adding
<1> HIDE DEF new
<1>6. ToSet(x.entities) \subseteq Nat /\ \A n \in ToSet(x.entities) : x.mentions[n] \in Nat \ {0}
  BY <1>1 DEF Extracted, ToSet
<1>7. \A kind, key : AmountOf(rows, kind, key) \in Nat /\ Adds(w, kind, key) \in Nat
  BY <1>1, AmountOf_Type, Adds_Exists
<1>8. \A n \in ToSet(x.entities) : AmountOf(new, "n", <<n>>) > 0
  <2> SUFFICES ASSUME NEW n \in ToSet(x.entities) PROVE AmountOf(new, "n", <<n>>) > 0
    OBVIOUS
  <2>1. n \in Nat /\ Adds(w, "n", <<n>>) = x.mentions[n] /\ x.mentions[n] \in Nat \ {0}
    BY <1>3, <1>4, <1>6
  <2>2. AmountOf(new, "n", <<n>>) = AmountOf(rows, "n", <<n>>) + Adds(w, "n", <<n>>)
    BY <1>5
  <2>3. AmountOf(rows, "n", <<n>>) \in Nat
    BY <1>7
  <2> QED BY <2>1, <2>2, <2>3
<1>9. ASSUME NEW kind, NEW key, AmountOf(rows, kind, key) > 0 PROVE AmountOf(new, kind, key) > 0
  <2>1. AmountOf(new, kind, key) = AmountOf(rows, kind, key) + Adds(w, kind, key)
    BY <1>5
  <2>2. AmountOf(rows, kind, key) \in Nat /\ Adds(w, kind, key) \in Nat
    BY <1>7
  <2> QED BY <1>9, <2>1, <2>2
<1>10. ASSUME NEW r \in new PROVE RowFits(new, r)
  <2>1. AmountOf(new, r.kind, r.key) > 0
    BY <1>5, AmountOf_Type
  <2>2. AmountOf(rows, r.kind, r.key) > 0 \/ Adds(w, r.kind, r.key) > 0
    <3>1. AmountOf(new, r.kind, r.key) = AmountOf(rows, r.kind, r.key) + Adds(w, r.kind, r.key)
      BY <1>5
    <3>2. AmountOf(rows, r.kind, r.key) \in Nat /\ Adds(w, r.kind, r.key) \in Nat
      BY <1>7
    <3> QED BY <2>1, <3>1, <3>2
  <2>3. CASE AmountOf(rows, r.kind, r.key) > 0
    <3>1. PICK q \in rows : q.kind = r.kind /\ q.key = r.key
      BY <2>3, AmountOf_Type
    <3>2. RowFits(rows, q)
      OBVIOUS
    <3> QED BY <1>9, <3>1, <3>2 DEF RowFits
  <2>4. CASE Adds(w, r.kind, r.key) > 0
    <3>1. PICK i \in DOMAIN w : w[i].kind = r.kind /\ w[i].key = r.key
      BY <1>1, <2>4, Adds_Exists
    <3>2. CASE r.kind = "n"
      <4>1. PICK n \in ToSet(x.entities) : w[i].key = <<n>>
        BY <1>1, <3>1, <3>2 DEF NamesCounted
      <4> QED BY <1>6, <3>1, <3>2, <4>1 DEF RowFits
    <3>3. CASE r.kind # "n"
      <4>1. r.kind = "e" => IsPair(r.key) /\ {r.key[1], r.key[2]} \subseteq ToSet(x.entities)
        BY <1>1, <3>1 DEF EndsNamed
      <4> QED BY <1>8, <3>3, <4>1 DEF RowFits
    <3> QED BY <3>2, <3>3
  <2> QED BY <2>2, <2>3, <2>4
<1> QED BY <1>3, <1>5, <1>10 DEF new, w, x

LEMMA ExtractInit_Inv == ExtractInit => ExtractInv
<1> SUFFICES ASSUME ExtractInit PROVE ExtractInv
  OBVIOUS
<1>1. graphRows = {} /\ ingested = <<>> /\ upserts = [s \in Ingesters |-> IdleUpsert]
  BY DEF ExtractInit
<1>2. ExtractTypes /\ RowsFit
  BY <1>1 DEF ExtractTypes, RowsFit, Table, OneEach
<1>3. NamesAddUp
  BY <1>1, AmountOf_None, Total_Empty DEF NamesAddUp
<1>4. upserts \in [Ingesters -> {IdleUpsert} \cup Upsert] /\ UpsertsFit
  BY <1>1 DEF UpsertsFit, UpsertFits
<1> QED BY <1>2, <1>3, <1>4 DEF ExtractInv

\* Only a commit touches the graph; the other steps move one upsert on.
LEMMA OneUpsert ==
    ASSUME ExtractInv, NEW s \in Ingesters, NEW u, u = IdleUpsert \/ u \in Upsert, UpsertFits(u),
           upserts' = [upserts EXCEPT ![s] = u], UNCHANGED <<graphRows, ingested>>
    PROVE  ExtractInv'
<1>1. upserts' \in [Ingesters -> {IdleUpsert} \cup Upsert]
  BY DEF ExtractInv
<1>2. UpsertsFit'
  <2> SUFFICES ASSUME NEW q \in Ingesters PROVE UpsertFits(upserts'[q])
    BY DEF UpsertsFit
  <2>1. upserts'[q] = IF q = s THEN u ELSE upserts[q]
    BY DEF ExtractInv
  <2>2. UpsertFits(upserts[q])
    BY DEF ExtractInv, UpsertsFit
  <2> QED BY <2>1, <2>2
<1>3. ExtractTypes' /\ RowsFit' /\ NamesAddUp'
  BY DEF ExtractInv, ExtractTypes, RowsFit, NamesAddUp
<1> QED BY <1>1, <1>2, <1>3 DEF ExtractInv

LEMMA StartUpsert_Inv ==
    ASSUME ExtractInv, NEW s \in Ingesters, NEW text \in Texts, NEW useLlm \in BOOLEAN,
           NEW reply \in Replies, StartUpsert(s, text, useLlm, reply)
    PROVE  ExtractInv'
<1> DEFINE source == <<text, useLlm, reply>>
           w == UpsertRows(Of(source))
           u == [todo |-> w, wrote |-> <<>>, source |-> source]
<1>1. source \in Sources /\ Of(source) = ExtractDispatch(text, useLlm, reply)
  BY DEF Sources, Of
<1>2. upserts' = [upserts EXCEPT ![s] = u] /\ UNCHANGED <<graphRows, ingested>>
  BY <1>1 DEF StartUpsert
<1>3. w \in Seq(GraphRow)
  BY <1>1, Dispatch_Extracted, UpsertRows_Facts
<1> HIDE DEF source, w
<1>4. u \in Upsert
  BY <1>1, <1>3 DEF Upsert
<1>5. u.wrote \o u.todo = UpsertRows(Of(u.source))
  <2>1. <<>> \o w = w
    BY <1>3
  <2> QED BY <2>1 DEF w
<1> HIDE DEF u
<1>6. UpsertFits(u)
  BY <1>4, <1>5 DEF UpsertFits
<1> QED BY <1>2, <1>4, <1>6, OneUpsert

LEMMA UpsertRow_Inv ==
    ASSUME ExtractInv, NEW s \in Ingesters, UpsertRow(s)
    PROVE  ExtractInv'
<1> DEFINE u == upserts[s]
           new == [todo |-> Tail(u.todo), wrote |-> Append(u.wrote, Head(u.todo)),
                   source |-> u.source]
<1>1. u \in {IdleUpsert} \cup Upsert /\ UpsertFits(u) /\ u.todo # <<>>
  BY DEF ExtractInv, UpsertsFit, UpsertRow
<1>2. u \in Upsert /\ u.wrote \o u.todo = UpsertRows(Of(u.source))
  <2> HIDE DEF u
  <2>1. u # IdleUpsert
    BY <1>1 DEF IdleUpsert
  <2> QED BY <1>1, <2>1 DEF UpsertFits
<1>3. upserts' = [upserts EXCEPT ![s].todo = Tail(@), ![s].wrote = Append(@, Head(u.todo))]
      /\ UNCHANGED <<graphRows, ingested>>
  BY DEF UpsertRow
<1> HIDE DEF u
<1>4. /\ u.todo \in Seq(GraphRow) /\ u.wrote \in Seq(GraphRow) /\ u.source \in Sources
      /\ u = [todo |-> u.todo, wrote |-> u.wrote, source |-> u.source]
  BY <1>2 DEF Upsert
<1>5. [[u EXCEPT !.todo = Tail(u.todo)] EXCEPT !.wrote = Append(u.wrote, Head(u.todo))] = new
  <2> DEFINE t == Tail(u.todo)
             w == Append(u.wrote, Head(u.todo))
  <2> HIDE DEF t, w
  <2> DEFINE v == [u EXCEPT !.todo = t]
  <2>1. v = [todo |-> t, wrote |-> u.wrote, source |-> u.source]
    BY <1>4
  <2> HIDE DEF v
  <2>2. [v EXCEPT !.wrote = w] = [todo |-> t, wrote |-> w, source |-> u.source]
    BY <2>1
  <2> QED BY <2>2 DEF t, w, v
<1>6. upserts' = [upserts EXCEPT ![s] = new]
  <2>1. upserts \in [Ingesters -> {IdleUpsert} \cup Upsert]
    BY DEF ExtractInv
  <2>2. DOMAIN upserts' = Ingesters /\ \A q \in Ingesters : q # s => upserts'[q] = upserts[q]
    BY <1>3, <2>1
  <2>3. upserts'[s] = [[u EXCEPT !.todo = Tail(u.todo)] EXCEPT !.wrote = Append(u.wrote, Head(u.todo))]
    BY <1>3, <2>1 DEF u
  <2>4. upserts' = [q \in Ingesters |-> upserts'[q]]
    BY <1>3, <2>1
  <2> QED BY <1>5, <2>1, <2>2, <2>3, <2>4
<1>7. /\ Tail(u.todo) \in Seq(GraphRow) /\ Head(u.todo) \in GraphRow
      /\ Append(u.wrote, Head(u.todo)) \in Seq(GraphRow)
      /\ Append(u.wrote, Head(u.todo)) \o Tail(u.todo) = u.wrote \o u.todo
  BY <1>1, <1>4
<1>8. new \in Upsert
  BY <1>4, <1>7 DEF Upsert
<1>9. new.wrote \o new.todo = UpsertRows(Of(new.source))
  BY <1>2, <1>7
<1> HIDE DEF new
<1>10. UpsertFits(new)
  BY <1>8, <1>9 DEF UpsertFits
<1> QED BY <1>3, <1>6, <1>8, <1>10, OneUpsert

LEMMA CommitUpsert_Inv ==
    ASSUME ExtractInv, NEW s \in Ingesters, CommitUpsert(s)
    PROVE  ExtractInv'
<1> DEFINE u == upserts[s]
           new == Folded(graphRows, UpsertRows(Of(u.source)))
<1>1. /\ u \in {IdleUpsert} \cup Upsert /\ UpsertFits(u)
      /\ u.source # <<>> /\ u.todo = <<>>
  BY DEF ExtractInv, UpsertsFit, CommitUpsert
<1>2. u \in Upsert /\ u.wrote \o u.todo = UpsertRows(Of(u.source))
  BY <1>1 DEF UpsertFits, IdleUpsert
<1>3. /\ graphRows' = Folded(graphRows, u.wrote)
      /\ ingested' = Append(ingested, u.source)
      /\ upserts' = [upserts EXCEPT ![s] = IdleUpsert]
  BY DEF CommitUpsert, Folded
<1>4. u.source \in Sources /\ u.wrote = UpsertRows(Of(u.source))
  BY <1>1, <1>2 DEF Upsert
<1> HIDE DEF u
<1>5. graphRows' = new
  BY <1>3, <1>4
<1>6. graphRows \in Table /\ ingested \in Seq(Sources) /\ \A r \in graphRows : RowFits(graphRows, r)
  BY DEF ExtractInv, ExtractTypes, RowsFit
<1>7. /\ new \in Table
      /\ \A n \in Nat : AmountOf(new, "n", <<n>>) = AmountOf(graphRows, "n", <<n>>) + Named(u.source, n)
      /\ \A r \in new : RowFits(new, r)
  BY <1>4, <1>6, Committed_Fits
<1> HIDE DEF new
<1>8. ExtractTypes' /\ RowsFit'
  BY <1>3, <1>4, <1>5, <1>6, <1>7 DEF ExtractTypes, RowsFit
<1>9. NamesAddUp'
  <2> SUFFICES ASSUME NEW n \in Nat PROVE AmountOf(graphRows', "n", <<n>>) = Total(n, ingested')
    BY DEF NamesAddUp
  <2>1. AmountOf(graphRows, "n", <<n>>) = Total(n, ingested)
    BY DEF ExtractInv, NamesAddUp
  <2>2. Total(n, ingested') = Total(n, ingested) + Named(u.source, n)
    BY <1>3, <1>4, <1>6, Total_Append
  <2> QED BY <1>5, <1>7, <2>1, <2>2
<1>10. upserts' \in [Ingesters -> {IdleUpsert} \cup Upsert] /\ UpsertsFit'
  <2>1. upserts' \in [Ingesters -> {IdleUpsert} \cup Upsert]
    BY <1>3 DEF ExtractInv
  <2>2. ASSUME NEW q \in Ingesters PROVE UpsertFits(upserts'[q])
    <3>1. upserts'[q] = IF q = s THEN IdleUpsert ELSE upserts[q]
      BY <1>3 DEF ExtractInv
    <3>2. UpsertFits(upserts[q])
      BY DEF ExtractInv, UpsertsFit
    <3> QED BY <3>1, <3>2 DEF UpsertFits
  <2> QED BY <2>1, <2>2 DEF UpsertsFit
<1> QED BY <1>8, <1>9, <1>10 DEF ExtractInv

LEMMA AbortUpsert_Inv ==
    ASSUME ExtractInv, NEW s \in Ingesters, AbortUpsert(s)
    PROVE  ExtractInv'
<1>1. upserts' = [upserts EXCEPT ![s] = IdleUpsert] /\ UNCHANGED <<graphRows, ingested>>
  BY DEF AbortUpsert
<1> QED BY <1>1, OneUpsert DEF UpsertFits

LEMMA ExtractNext_Inv == ExtractInv /\ [ExtractNext]_extractVars => ExtractInv'
<1> SUFFICES ASSUME ExtractInv, [ExtractNext]_extractVars PROVE ExtractInv'
  OBVIOUS
<1>1. CASE ExtractNext
  BY <1>1, StartUpsert_Inv, UpsertRow_Inv, CommitUpsert_Inv, AbortUpsert_Inv DEF ExtractNext
<1>2. CASE UNCHANGED extractVars
  BY <1>2 DEF extractVars, ExtractInv, ExtractTypes, UpsertsFit, RowsFit, NamesAddUp
<1> QED BY <1>1, <1>2

LEMMA ExtractInv_AddsUp == ExtractInv => GraphAddsUp
<1> SUFFICES ASSUME ExtractInv PROVE GraphAddsUp
  OBVIOUS
<1>1. graphRows \in Table /\ \A r \in graphRows : RowFits(graphRows, r)
  BY DEF ExtractInv, ExtractTypes, RowsFit
<1>2. CountsAddUp
  <2>1. ASSUME NEW r \in graphRows, NEW q \in graphRows, r.kind = q.kind, r.key = q.key
        PROVE  r = q
    BY <1>1, <2>1 DEF Table, OneEach, Same
  <2>2. ASSUME NEW r \in graphRows, r.kind = "n"
        PROVE  AmountOf(graphRows, "n", <<r.key[1]>>) = Total(r.key[1], ingested)
    <3>1. PICK n \in Nat : r.key = <<n>>
      BY <1>1, <2>2 DEF RowFits
    <3>2. r.key[1] = n
      BY <3>1
    <3>3. AmountOf(graphRows, "n", <<n>>) = Total(n, ingested)
      BY DEF ExtractInv, NamesAddUp
    <3> QED BY <3>2, <3>3
  <2>3. \A n \in {r.key[1] : r \in {q \in graphRows : q.kind = "n"}} :
          AmountOf(graphRows, "n", <<n>>) = Total(n, ingested)
    BY <2>2
  <2> QED BY <2>1, <2>3 DEF CountsAddUp, Total
<1>3. RelationsSound
  <2> SUFFICES ASSUME NEW r \in graphRows, r.kind = "e"
               PROVE  /\ AmountOf(graphRows, "n", <<r.key[1]>>) > 0
                      /\ AmountOf(graphRows, "n", <<r.key[2]>>) > 0
                      /\ r.key[1] # r.key[2] =>
                           AmountOf(graphRows, "e", <<r.key[2], r.key[1]>>) = 0
    BY DEF RelationsSound
  <2>1. /\ AmountOf(graphRows, "n", <<r.key[1]>>) > 0
        /\ AmountOf(graphRows, "n", <<r.key[2]>>) > 0
        /\ IsPair(r.key)
    BY <1>1 DEF RowFits
  <2>2. ASSUME r.key[1] # r.key[2] PROVE AmountOf(graphRows, "e", <<r.key[2], r.key[1]>>) = 0
    <3> SUFFICES ASSUME NEW q \in graphRows, q.kind = "e", q.key = <<r.key[2], r.key[1]>>
                 PROVE  FALSE
      BY AmountOf_None
    <3>1. IsPair(q.key)
      BY <1>1 DEF RowFits
    <3>2. q.key[1] = r.key[2] /\ q.key[2] = r.key[1]
      OBVIOUS
    <3> QED BY <2>1, <2>2, <3>1, <3>2 DEF IsPair
  <2> QED BY <2>1, <2>2
<1> QED BY <1>2, <1>3 DEF GraphAddsUp

\* Whatever chunks are ingested at the same time, deadlock and roll back, a node's row
\* counts each mention of the committed chunks once, and a relation has two nodes and
\* one direction.
THEOREM IngestsAddUp == ExtractSpec => []GraphAddsUp
<1>1. ExtractInit => ExtractInv
  BY ExtractInit_Inv
<1>2. ExtractInv /\ [ExtractNext]_extractVars => ExtractInv'
  BY ExtractNext_Inv
<1>3. ExtractInv => GraphAddsUp
  BY ExtractInv_AddsUp
<1> QED BY <1>1, <1>2, <1>3, PTL DEF ExtractSpec
================================================================================
