--------------------------- MODULE VectorIndexProofs ---------------------------
(***************************************************************************)
(* The vector index: its types, that no row is lost (NothingLost), that it *)
(* fails loud only after a fold that was cut (LoudOnlyAfterCut) and that   *)
(* in an ivf a row is ranked by its own vector (IvfStoredVectorsAreHeap);  *)
(* and that the graph of a parallel build is sound (GraphSound).           *)
(*                                                                         *)
(* Struct is about pages: the live generation lies in the file with its    *)
(* directory in place, and a fold writes where no reader looks until the   *)
(* pivot.  RowsOK is about the heap: an open row belongs to a session that *)
(* shares the lock, and what VACUUM has collected stays dead.  Kept says,  *)
(* for each phase of a fold, where the rows are; IvfOK which tuples the    *)
(* entries of an ivf may name.                                             *)
(***************************************************************************)
EXTENDS VectorIndex, HnswBuild, FiniteSetTheorems, SequenceTheorems, TLAPS

USE LayoutAssumption, GucAssumption, BoundAssumption, TidAssumption

PairOf(i) == [tid |-> i.tid, vec |-> i.vec]

\* A page that belongs to a generation.
BodyOK(page) == page.kind # "pending" /\ page.items \subseteq Element /\ IsFiniteSet(page.items)

\* The pages of a new generation of the pairs P, wherever they will lie.
Whole(body, P) ==
    /\ body \in Seq(Page)
    /\ \A i \in 1 .. Len(body) : BodyOK(body[i])
    /\ \A i \in 1 .. Len(body) : \A e \in body[i].items : ~e.deleted /\ PairOf(e) \in P
    /\ \A p \in P : \E i \in 1 .. Len(body) : \E e \in body[i].items : PairOf(e) = p
    /\ Len(body) > 0 => body[IF layout = "hnsw" THEN Len(body) ELSE 1].kind = "directory"
    /\ layout # "hnsw" => Len(body) > 0

\* VACUUM's locals: the sweep's or the fold's next block, and the packed generation.
Sweeping == [pc : {"sweep", "cleanup", "lock", "reap"}, dead : SUBSET Tids,
             exclusive : BOOLEAN, next : Nat]
Folding == [pc : {"write", "reclaim", "reap"}, dead : SUBSET Tids, exclusive : {TRUE},
            body : Seq(Page), base : Nat \ {0}, next : Nat]
VacType == {NoVacuum} \cup Sweeping \cup Folding

Types ==
    /\ layout \in Layouts
    /\ heap \in [Tids -> [state : {"open", "live", "dead"}, vec : Vectors] \cup {Free}]
    /\ txn \in [Sessions -> [shared : BOOLEAN, rows : SUBSET Tids]]
    /\ meta \in [first : Nat \ {0}, npages : Nat]
    /\ pages \in Seq(Page)
    /\ vac \in VacType
    /\ cuts \in Nat

\* The live generation lies in the file, and its directory, or its links, in its place.
LiveOK ==
    /\ GenEnd - 1 <= Len(pages)
    /\ \A b \in 1 .. Len(pages) : IsFiniteSet(pages[b].items)
    /\ \A b \in Generation : BodyOK(pages[b])
    /\ meta.npages > 0 => pages[DirectoryBlock].kind = "directory"
    /\ layout # "hnsw" => meta.npages > 0

LockOK == vac.exclusive => NobodyShares /\ vac.pc \in {"write", "reclaim", "reap"}

\* Until the pivot the new generation lies below the live one or makes the end of the file.
Placed ==
    LET n == Len(vac.body) IN
    /\ vac.next \in 1 .. n + 1
    /\ \A i \in 1 .. n : BodyOK(vac.body[i]) /\ \A e \in vac.body[i].items : ~e.deleted
    /\ n > 0 => vac.body[IF layout = "hnsw" THEN n ELSE 1].kind = "directory"
    /\ layout # "hnsw" => n > 0
    /\ \A i \in 1 .. vac.next - 1 :
          vac.base + i - 1 <= Len(pages) /\ pages[vac.base + i - 1] = vac.body[i]
    /\ \/ vac.base + n <= meta.first
       \/ vac.base >= GenEnd /\ Len(pages) = vac.base + vac.next - 2

\* After it, the pages behind the new generation are emptied one by one.
Emptied ==
    /\ vac.next \in GenEnd .. Len(pages) + 1
    /\ \A b \in GenEnd .. vac.next - 1 : pages[b] = Empty

FoldOK ==
    /\ vac.pc = "write" => Placed
    /\ vac.pc = "reclaim" => Emptied

Struct == Types /\ LiveOK /\ LockOK /\ FoldOK

\* An open row is one transaction's, which holds the share lock; a tuple that VACUUM has
\* collected stays dead until VACUUM frees it.
RowsOK ==
    /\ \A s \in Sessions : \A t \in txn[s].rows : heap[t].state = "open" /\ txn[s].shared
    /\ \A r, s \in Sessions : txn[r].rows \cap txn[s].rows # {} => r = s
    /\ \A t \in Tids : heap[t].state = "open" => \E s \in Sessions : t \in txn[s].rows
    /\ \A t \in vac.dead : heap[t].state = "dead"

\* The rows an index has to hold: in it, in what the fold has packed, and from the pivot
\* on in the new generation alone.
Rows == {t \in Tids : heap[t].state \in {"open", "live"}}

Kept ==
    /\ NothingLost
    /\ vac.pc = "write" =>
          \A t \in Rows : \E i \in 1 .. Len(vac.body) :
             \E e \in vac.body[i].items : PairOf(e) = RowOf(t)
    /\ vac.pc = "reclaim" => \A t \in Rows : RowOf(t) \in Enumerated
    /\ cuts = 0 /\ vac.pc \notin {"write", "reclaim"} => Readable

\* An entry names a heap tuple that is not free, by its vector.
OwnVector(p) == heap[p.tid] # Free /\ p = RowOf(p.tid)

\* After the pivot the old pages still pass for pending items from some block on.
TailOK ==
    \A b \in vac.next .. Len(pages) :
       (\A c \in b .. Len(pages) : pages[c].kind = "pending") =>
          \A p \in pages[b].items : OwnVector(p)

IvfOK == layout = "ivf" =>
    /\ Readable => \A p \in Stored : OwnVector(p)
    /\ vac.pc # "sweep" /\ (vac.pc = "cleanup" => vac.dead = {})
    /\ vac.pc = "write" =>
          /\ \A i \in 1 .. Len(vac.body) : \A e \in vac.body[i].items :
                OwnVector(PairOf(e)) /\ e.tid \notin vac.dead
          /\ vac.base + Len(vac.body) <= meta.first => Readable
    /\ vac.pc = "reclaim" =>
          /\ \A p \in Enumerated : OwnVector(p) /\ p.tid \notin vac.dead
          /\ TailOK
    /\ vac.pc = "reap" =>
          vac.dead = {} \/ (vac.exclusive /\ \A p \in Stored : p.tid \notin vac.dead)

-----------------------------------------------------------------------------
(* Pages and how they are filled.                                          *)

LEMMA FreshTypes ==
  /\ Free.state = "free" /\ Free \notin [state : {"open", "live", "dead"}, vec : Vectors]
  /\ NoTxn \in [shared : BOOLEAN, rows : SUBSET Tids]
  /\ Directory \in Page /\ Empty \in Page /\ Empty.kind = "pending" /\ Empty.items = {}
BY DEF Free, NoTxn, Directory, Empty, PendingPage, Page

\* Every entry has a page, and the pages are as many as the division says.
LEMMA PageOfEntry ==
  ASSUME NEW n \in Nat
  PROVE  /\ (n + PerPage - 1) \div PerPage \in Nat
         /\ \A k \in 1 .. n : (k - 1) \div PerPage + 1 \in 1 .. (n + PerPage - 1) \div PerPage
<1>1. \A m \in Nat : m \div PerPage \in Nat
  BY Z3
<1>2. n + PerPage - 1 \in Nat
  OBVIOUS
<1>3. ASSUME NEW k \in 1 .. n
      PROVE  (k - 1) \div PerPage + 1 <= (n + PerPage - 1) \div PerPage
  BY Z3
<1>4. \A k \in 1 .. n : k - 1 \in Nat
  OBVIOUS
<1> QED
  BY <1>1, <1>2, <1>3, <1>4

\* A finite set is counted off without repetition or omission.
Order(P) == CHOOSE f \in [1 .. Cardinality(P) -> P] :
              \A i, j \in 1 .. Cardinality(P) : f[i] = f[j] => i = j

LEMMA Counted ==
  ASSUME NEW P, IsFiniteSet(P)
  PROVE  /\ Cardinality(P) \in Nat
         /\ Order(P) \in [1 .. Cardinality(P) -> P]
         /\ \A p \in P : \E i \in 1 .. Cardinality(P) : Order(P)[i] = p
<1> DEFINE n == Cardinality(P)
           Once(f) == \A i, j \in 1 .. n : f[i] = f[j] => i = j
<1>1. n \in Nat
  BY FS_CardinalityType
<1>2. IsFiniteSet(1 .. n) /\ Cardinality(1 .. n) = n
  BY <1>1, FS_Interval
<1>3. \E f \in [1 .. n -> P] : Once(f)
  <2>1. ExistsBijection(1 .. n, P)
    BY <1>2, FS_SameCardinalityBij
  <2> HIDE DEF n
  <2>2. PICK f : f \in Bijection(1 .. n, P)
    BY <2>1 DEF ExistsBijection
  <2>3. f \in [1 .. n -> P] /\ Once(f)
    BY <2>2 DEF Bijection, Injection, IsInjective
  <2> QED
    BY <2>3
<1>4. Order(P) \in [1 .. n -> P] /\ Once(Order(P))
  BY <1>3 DEF Order
<1>5. ASSUME NEW p \in P, \A i \in 1 .. n : Order(P)[i] # p PROVE FALSE
  <2>1. Order(P) \in [1 .. n -> P \ {p}]
    BY <1>4, <1>5
  <2>2. IsFiniteSet(P \ {p}) /\ Cardinality(P \ {p}) = n - 1
    BY FS_RemoveElement
  <2>3. Cardinality(P \ {p}) < Cardinality(1 .. n)
    BY <1>1, <1>2, <2>2
  <2> DEFINE S == 1 .. n
             T == P \ {p}
             g == Order(P)
  <2>4. IsFiniteSet(S) /\ IsFiniteSet(T) /\ Cardinality(T) < Cardinality(S) /\ g \in [S -> T]
    BY <1>2, <2>1, <2>2, <2>3
  <2> HIDE DEF S, T, g
  <2>5. \E x, y \in S : x # y /\ g[x] = g[y]
    BY <2>4, FS_PigeonHole
  <2> QED
    BY <1>4, <2>5 DEF S, g
<1> QED
  BY <1>1, <1>4, <1>5

\* Body packs exactly P, with the directory (or the links) where scans look for it.
LEMMA BodyWhole == ASSUME NEW P \in SUBSET Pair, IsFiniteSet(P) PROVE Whole(Body(P), P)
<1> DEFINE n == Cardinality(P)
           m == (n + PerPage - 1) \div PerPage
           order == Order(P)
           element(i) == [tid |-> order[i].tid, vec |-> order[i].vec,
                          deleted |-> FALSE, churned |-> FALSE]
           On(p) == {k \in 1 .. n : (k - 1) \div PerPage = p - 1}
           full == [p \in 1 .. m |-> BodyPage({element(i) : i \in On(p)})]
<1>1. /\ n \in Nat /\ order \in [1 .. n -> P]
      /\ \A p \in P : \E i \in 1 .. n : order[i] = p
  BY Counted
<1>2. /\ m \in Nat /\ \A k \in 1 .. n : (k - 1) \div PerPage + 1 \in 1 .. m
  BY <1>1, PageOfEntry
<1>3. Body(P) = IF layout # "hnsw" THEN <<Directory>> \o full
                ELSE IF n = 0 THEN <<>> ELSE Append(full, Directory)
  BY DEF Body, Order
<1> HIDE DEF n, m, order
<1>4. ASSUME NEW i \in 1 .. n
      PROVE  element(i) \in Element /\ ~element(i).deleted /\ PairOf(element(i)) = order[i]
  BY <1>1 DEF Element, PairOf, Pair
<1>5. ASSUME NEW S \in SUBSET (1 .. n) PROVE IsFiniteSet({element(i) : i \in S})
  <2>1. IsFiniteSet(1 .. n)
    BY <1>1, FS_Interval
  <2>2. IsFiniteSet(S)
    BY <2>1, FS_Subset
  <2> DEFINE T == {element(i) : i \in S}
             g == [i \in S |-> element(i)]
  <2>3. g \in Surjection(S, T)
    BY DEF Surjection
  <2> HIDE DEF g, T
  <2> QED
    BY <2>2, <2>3, FS_Surjection DEF T
<1> HIDE DEF element
<1>6. ASSUME NEW p \in 1 .. m
      PROVE  /\ full[p] \in Page /\ BodyOK(full[p])
             /\ \A e \in full[p].items : ~e.deleted /\ PairOf(e) \in P
  <2>1. full[p] = [kind |-> "body", items |-> {element(i) : i \in On(p)}]
    BY DEF BodyPage
  <2>2. On(p) \in SUBSET (1 .. n)
    OBVIOUS
  <2>3. IsFiniteSet({element(i) : i \in On(p)})
    BY <1>5, <2>2
  <2> HIDE DEF full
  <2>4. {element(i) : i \in On(p)} \subseteq Element
    BY <1>4, <2>2
  <2>5. full[p] \in Page /\ BodyOK(full[p])
    BY <2>1, <2>3, <2>4 DEF Page, BodyOK
  <2>6. \A e \in full[p].items : ~e.deleted /\ PairOf(e) \in P
    BY <1>1, <1>4, <2>1
  <2> QED
    BY <2>5, <2>6
<1>7. ASSUME NEW q \in P PROVE \E p \in 1 .. m : \E e \in full[p].items : PairOf(e) = q
  <2>1. PICK k \in 1 .. n : order[k] = q
    BY <1>1
  <2>2. (k - 1) \div PerPage + 1 \in 1 .. m
    BY <1>2
  <2> DEFINE p == (k - 1) \div PerPage + 1
  <2>3. p \in 1 .. m /\ (k - 1) \div PerPage = p - 1
    BY <2>2
  <2> HIDE DEF p
  <2>4. element(k) \in full[p].items
    BY <2>3 DEF BodyPage
  <2> QED
    BY <1>4, <2>1, <2>3, <2>4
<1>8. full \in Seq(Page) /\ Len(full) = m
  <2>1. full \in [1 .. m -> Page]
    BY <1>6
  <2> HIDE DEF full
  <2> QED
    BY <1>2, <2>1
<1> HIDE DEF full
<1>9. /\ Directory \in Page /\ Directory.kind = "directory" /\ BodyOK(Directory)
      /\ Directory.items = {}
  BY FS_EmptySet DEF Directory, Page, BodyOK
<1>10. CASE layout # "hnsw"
  <2>1. Body(P) = <<Directory>> \o full
    BY <1>3, <1>10
  <2>2. /\ Body(P) \in Seq(Page) /\ Len(Body(P)) = m + 1 /\ Body(P)[1] = Directory
        /\ \A i \in 1 .. m : Body(P)[i + 1] = full[i]
        /\ \A i \in 2 .. (m + 1) : i - 1 \in 1 .. m /\ Body(P)[i] = full[i - 1]
    BY <1>2, <1>8, <1>9, <2>1
  <2>3. ASSUME NEW i \in 1 .. Len(Body(P))
        PROVE  BodyOK(Body(P)[i]) /\ \A e \in Body(P)[i].items : ~e.deleted /\ PairOf(e) \in P
    <3>1. CASE i = 1
      BY <1>9, <2>2, <3>1
    <3>2. CASE i # 1
      <4>1. i \in 2 .. (m + 1)
        BY <1>2, <2>2, <3>2
      <4> QED
        BY <1>6, <2>2, <4>1
    <3> QED
      BY <3>1, <3>2
  <2>4. ASSUME NEW q \in P
        PROVE  \E i \in 1 .. Len(Body(P)) : \E e \in Body(P)[i].items : PairOf(e) = q
    <3>1. PICK p \in 1 .. m : \E e \in full[p].items : PairOf(e) = q
      BY <1>7
    <3>2. p + 1 \in 1 .. Len(Body(P)) /\ Body(P)[p + 1] = full[p]
      BY <1>2, <2>2
    <3> QED
      BY <3>1, <3>2
  <2>5. Body(P)[1].kind = "directory" /\ Len(Body(P)) > 0
    BY <1>2, <1>9, <2>2
  <2>6. Body(P) \in Seq(Page)
    BY <2>2
  <2> QED
    BY <1>10, <2>3, <2>4, <2>5, <2>6, Zenon DEF Whole
<1>11. CASE layout = "hnsw" /\ n = 0
  <2>1. P = {}
    BY <1>11, FS_EmptySet DEF n
  <2>2. Body(P) = <<>>
    BY <1>3, <1>11
  <2>3. Body(P) \in Seq(Page) /\ Len(Body(P)) = 0
    BY <2>2
  <2>4. ~(Len(Body(P)) > 0) /\ \A i \in 1 .. Len(Body(P)) : FALSE
    BY <2>3
  <2> QED
    BY <1>11, <2>1, <2>3, <2>4 DEF Whole
<1>12. CASE layout = "hnsw" /\ n # 0
  <2>1. Body(P) = Append(full, Directory)
    BY <1>3, <1>12
  <2>2. /\ Body(P) \in Seq(Page) /\ Len(Body(P)) = m + 1 /\ Body(P)[m + 1] = Directory
        /\ \A i \in 1 .. m : Body(P)[i] = full[i]
    BY <1>2, <1>8, <1>9, <2>1
  <2>3. ASSUME NEW i \in 1 .. Len(Body(P))
        PROVE  BodyOK(Body(P)[i]) /\ \A e \in Body(P)[i].items : ~e.deleted /\ PairOf(e) \in P
    <3>1. CASE i = m + 1
      BY <1>9, <2>2, <3>1
    <3>2. CASE i \in 1 .. m
      BY <1>6, <2>2, <3>2
    <3> QED
      BY <1>2, <2>2, <3>1, <3>2
  <2>4. ASSUME NEW q \in P
        PROVE  \E i \in 1 .. Len(Body(P)) : \E e \in Body(P)[i].items : PairOf(e) = q
    <3>1. PICK p \in 1 .. m : \E e \in full[p].items : PairOf(e) = q
      BY <1>7
    <3>2. p \in 1 .. Len(Body(P)) /\ Body(P)[p] = full[p]
      BY <1>2, <2>2
    <3> QED
      BY <3>1, <3>2
  <2> QED
    BY <1>2, <1>9, <1>12, <2>2, <2>3, <2>4 DEF Whole
<1> QED
  BY <1>10, <1>11, <1>12

\* One page of the file is replaced, or one is added.
OnePage(b, x) ==
    /\ pages' \in Seq(Page) /\ Len(pages') = Len(pages) /\ pages'[b] = x
    /\ \A c \in 1 .. Len(pages) : c # b => pages'[c] = pages[c]
OneMore(x) ==
    /\ pages' \in Seq(Page) /\ Len(pages') = Len(pages) + 1 /\ pages'[Len(pages) + 1] = x
    /\ \A c \in 1 .. Len(pages) : pages'[c] = pages[c]

LEMMA SetPage ==
  ASSUME pages \in Seq(Page), NEW b \in 1 .. Len(pages), NEW x \in Page,
         pages' = [pages EXCEPT ![b] = x]
  PROVE  OnePage(b, x)
BY DEF OnePage

LEMMA AddPage ==
  ASSUME pages \in Seq(Page), NEW x \in Page, pages' = Append(pages, x)
  PROVE  OneMore(x)
BY DEF OneMore

LEMMA PageTypes ==
  /\ \A x \in Page : /\ x.kind \in {"pending", "body", "directory"}
                     /\ x.items \subseteq Pair \cup Element
                     /\ x.kind = "pending" => x.items \subseteq Pair
                     /\ x = [kind |-> x.kind, items |-> x.items]
  /\ \A X \in SUBSET Pair : /\ [kind |-> "pending", items |-> X] \in Page
                            /\ PendingPage(X) \in Page
  /\ \A X \in SUBSET (Pair \cup Element), k \in {"body", "directory"} :
       [kind |-> k, items |-> X] \in Page
BY DEF Page, PendingPage

WithItems(y, X) == [y EXCEPT !.items = X]

LEMMA ItemsOfPage ==
  ASSUME NEW y \in Page, NEW X
  PROVE  /\ WithItems(y, X).kind = y.kind /\ WithItems(y, X).items = X
         /\ X \subseteq Pair => WithItems(y, X) \in Page
         /\ y.kind # "pending" /\ X \subseteq Pair \cup Element => WithItems(y, X) \in Page
<1>1. /\ y.kind \in {"pending", "body", "directory"} /\ DOMAIN y = {"kind", "items"}
      /\ WithItems(y, X) = [kind |-> y.kind, items |-> X]
  BY DEF Page, WithItems
<1> QED
  BY <1>1 DEF Page

LEMMA PairOfTyped ==
  /\ \A e \in Element : PairOf(e) \in Pair /\ PairOf(e).tid = e.tid /\ e.deleted \in BOOLEAN
  /\ \A p \in Pair : PairOf(p) = p
BY DEF PairOf, Pair, Element

-----------------------------------------------------------------------------
(* The structure: steps that leave the pages alone.                        *)

LEMMA Ranges ==
  ASSUME Types, LiveOK
  PROVE  /\ meta.first \in Nat \ {0} /\ meta.npages \in Nat /\ Len(pages) \in Nat
         /\ GenEnd \in Nat \ {0} /\ GenEnd = meta.first + meta.npages
         /\ Generation \subseteq 1 .. Len(pages) /\ PendingBlocks \subseteq 1 .. Len(pages)
         /\ meta.npages > 0 => DirectoryBlock \in Generation
         /\ \A b \in 1 .. Len(pages) : pages[b] \in Page
<1>1. /\ meta.first \in Nat \ {0} /\ meta.npages \in Nat /\ Len(pages) \in Nat
      /\ \A b \in 1 .. Len(pages) : pages[b] \in Page
  BY DEF Types
<1> QED
  BY <1>1 DEF LiveOK, GenEnd, Generation, PendingBlocks, DirectoryBlock

LEMMA VacFacts ==
  ASSUME vac \in VacType
  PROVE  /\ vac.pc \in {"idle", "sweep", "cleanup", "lock", "write", "reclaim", "reap"}
         /\ vac.dead \in SUBSET Tids /\ vac.exclusive \in BOOLEAN
         /\ vac.pc \in {"sweep", "cleanup", "lock"} =>
              /\ vac.next \in Nat
              /\ \A x \in BOOLEAN, q \in {"sweep", "cleanup", "lock", "reap"}, n \in Nat :
                   /\ [vac EXCEPT !.pc = q] \in VacType
                   /\ [vac EXCEPT !.pc = q, !.exclusive = x] \in VacType
                   /\ [vac EXCEPT !.next = n] \in VacType
         /\ vac.pc \in {"write", "reclaim"} =>
              /\ vac.exclusive /\ vac.body \in Seq(Page)
              /\ vac.base \in Nat \ {0} /\ vac.next \in Nat
              /\ \A q \in {"write", "reclaim", "reap"}, n \in Nat :
                   /\ [vac EXCEPT !.pc = q] \in VacType
                   /\ [vac EXCEPT !.next = n] \in VacType
                   /\ [vac EXCEPT !.pc = q, !.next = n] \in VacType
<1>1. CASE vac = NoVacuum
  BY <1>1 DEF NoVacuum
<1>2. CASE vac \in Sweeping
  BY <1>2 DEF VacType, Sweeping
<1>3. CASE vac \in Folding
  BY <1>3 DEF VacType, Folding
<1> QED
  BY <1>1, <1>2, <1>3 DEF VacType

LEMMA SameIndex ==
  ASSUME Struct, UNCHANGED <<layout, meta, pages>>
  PROVE  LiveOK' /\ (UNCHANGED vac => FoldOK')
BY DEF Struct, LiveOK, FoldOK, Placed, Emptied, GenEnd, Generation, PendingBlocks, DirectoryBlock

\* Which of the two shapes the locals have.
LEMMA VacShape ==
  ASSUME vac \in VacType
  PROVE  /\ vac.pc # "idle" => vac \in Sweeping \/ vac \in Folding
         /\ vac.pc \in {"sweep", "cleanup", "lock"} => vac \in Sweeping
         /\ vac.pc \in {"write", "reclaim"} => vac \in Folding
<1>1. vac = NoVacuum => vac.pc = "idle"
  BY DEF NoVacuum
<1>2. vac \in Sweeping => vac.pc \in {"sweep", "cleanup", "lock", "reap"}
  BY DEF Sweeping
<1>3. vac \in Folding => vac.pc \in {"write", "reclaim", "reap"}
  BY DEF Folding
<1>4. vac = NoVacuum \/ vac \in Sweeping \/ vac \in Folding
  BY DEF VacType
<1> QED
  BY <1>1, <1>2, <1>3, <1>4

\* The packed generation of a fold under way.
LEMMA FoldFacts ==
  ASSUME vac \in VacType, vac.pc \in {"write", "reclaim"}
  PROVE  /\ vac.body \in Seq(Page) /\ Len(vac.body) \in Nat /\ vac.base \in Nat \ {0}
         /\ vac.next \in Nat /\ vac.exclusive = TRUE
<1>1. vac \in Folding
  BY VacShape
<1>2. vac.body \in Seq(Page) /\ vac.base \in Nat \ {0} /\ vac.next \in Nat /\ vac.exclusive = TRUE
  BY <1>1 DEF Folding
<1> QED
  BY <1>2

\* VACUUM turns to another phase.
LEMMA Turn ==
  ASSUME vac \in VacType, NEW q \in {"lock", "reap"}, vac' = [vac EXCEPT !.pc = q],
         vac.pc \in {"sweep", "cleanup"} \/ (vac.pc = "reclaim" /\ q = "reap")
  PROVE  vac' \in VacType /\ vac'.pc = q /\ vac'.dead = vac.dead /\ vac'.exclusive = vac.exclusive
<1>1. CASE vac \in Sweeping
  <2>1. /\ vac' \in Sweeping /\ vac'.pc = q /\ vac'.dead = vac.dead
        /\ vac'.exclusive = vac.exclusive
    BY <1>1 DEF Sweeping
  <2> QED
    BY <2>1 DEF VacType
<1>2. CASE vac \in Folding /\ q = "reap"
  <2>1. \A x \in Folding : [x EXCEPT !.pc = "reap"] \in Folding
    BY DEF Folding
  <2>2. \A x \in Folding : /\ [x EXCEPT !.pc = "reap"].pc = "reap"
                           /\ [x EXCEPT !.pc = "reap"].dead = x.dead
                           /\ [x EXCEPT !.pc = "reap"].exclusive = x.exclusive
    BY DEF Folding
  <2>3. vac' = [vac EXCEPT !.pc = "reap"]
    BY <1>2
  <2> QED
    BY <1>2, <2>1, <2>2, <2>3 DEF VacType
<1> QED
  BY <1>1, <1>2, VacShape

\* What a step of VACUUM that writes nothing does to its locals.
LEMMA Turns ==
  ASSUME vac \in VacType
  PROVE  /\ EndSweep \/ Cleanup \/ EndReclaim =>
              /\ vac' \in VacType /\ vac'.pc \in {"lock", "reap"} /\ vac'.dead = vac.dead
              /\ vac'.exclusive = vac.exclusive
         /\ EndReclaim => vac'.pc = "reap"
<1>1. ASSUME EndSweep \/ Cleanup
      PROVE  \E q \in {"lock", "reap"} :
                vac' = [vac EXCEPT !.pc = q] /\ vac.pc \in {"sweep", "cleanup"}
  BY <1>1 DEF EndSweep, Cleanup
<1>2. EndReclaim => vac' = [vac EXCEPT !.pc = "reap"] /\ vac.pc = "reclaim"
  BY DEF EndReclaim
<1>3. ASSUME EndSweep \/ Cleanup
      PROVE  /\ vac' \in VacType /\ vac'.pc \in {"lock", "reap"} /\ vac'.dead = vac.dead
             /\ vac'.exclusive = vac.exclusive
  <2>1. PICK q \in {"lock", "reap"} :
                vac' = [vac EXCEPT !.pc = q] /\ vac.pc \in {"sweep", "cleanup"}
    BY <1>1, <1>3
  <2> QED
    BY <2>1, Turn
<1>4. ASSUME EndReclaim
      PROVE  /\ vac' \in VacType /\ vac'.pc = "reap" /\ vac'.dead = vac.dead
             /\ vac'.exclusive = vac.exclusive
  BY <1>2, <1>4, Turn
<1> QED
  BY <1>3, <1>4

\* VACUUM goes on to the next block.
LEMMA Advance ==
  ASSUME vac \in VacType, vac.pc \in {"sweep", "write", "reclaim"},
         vac' = [vac EXCEPT !.next = @ + 1]
  PROVE  /\ vac' \in VacType /\ vac'.pc = vac.pc /\ vac'.dead = vac.dead
         /\ vac'.exclusive = vac.exclusive /\ vac'.next = vac.next + 1
         /\ vac.pc \in {"write", "reclaim"} => vac'.body = vac.body /\ vac'.base = vac.base
<1>1. CASE vac \in Sweeping
  <2>1. /\ vac' \in Sweeping /\ vac'.pc = vac.pc /\ vac'.dead = vac.dead
        /\ vac'.exclusive = vac.exclusive /\ vac'.next = vac.next + 1
        /\ vac.pc \notin {"write", "reclaim"}
    BY <1>1 DEF Sweeping
  <2> QED
    BY <2>1 DEF VacType
<1>2. CASE vac \in Folding
  <2>1. /\ vac' \in Folding /\ vac'.pc = vac.pc /\ vac'.dead = vac.dead
        /\ vac'.exclusive = vac.exclusive /\ vac'.next = vac.next + 1
        /\ vac'.body = vac.body /\ vac'.base = vac.base
    <3>1. \A x \in Folding, n \in Nat : [x EXCEPT !.next = n] \in Folding
      BY DEF Folding
    <3>2. \A x \in Folding : x.next \in Nat /\ x.next + 1 \in Nat
      BY DEF Folding
    <3>3. \A x \in Folding, n \in Nat :
            /\ [x EXCEPT !.next = n].pc = x.pc /\ [x EXCEPT !.next = n].dead = x.dead
            /\ [x EXCEPT !.next = n].exclusive = x.exclusive /\ [x EXCEPT !.next = n].next = n
            /\ [x EXCEPT !.next = n].body = x.body /\ [x EXCEPT !.next = n].base = x.base
      BY DEF Folding
    <3>4. vac' = [vac EXCEPT !.next = vac.next + 1]
      OBVIOUS
    <3> QED
      BY <1>2, <3>1, <3>2, <3>3, <3>4
  <2> QED
    BY <2>1 DEF VacType
<1> QED
  BY <1>1, <1>2, VacShape

\* ... gives the fold up, under the lock it has ...
LEMMA GiveUp ==
  ASSUME vac \in VacType, vac.pc = "lock", vac' = [vac EXCEPT !.pc = "reap", !.exclusive = TRUE]
  PROVE  vac' \in VacType /\ vac'.pc = "reap" /\ vac'.dead = vac.dead /\ vac'.exclusive = TRUE
<1>1. vac \in Sweeping
  BY VacShape
<1>2. vac' \in Sweeping /\ vac'.pc = "reap" /\ vac'.dead = vac.dead /\ vac'.exclusive = TRUE
  BY <1>1 DEF Sweeping
<1> QED
  BY <1>2 DEF VacType

\* ... has the new generation packed ...
LEMMA Packed ==
  ASSUME NEW D \in SUBSET Tids, NEW B \in Seq(Page), NEW k \in Nat \ {0}, NEW n \in Nat
  PROVE  [pc |-> "write", dead |-> D, exclusive |-> TRUE, body |-> B, base |-> k, next |-> n]
            \in VacType
BY DEF VacType, Folding

\* ... and pivots.
LEMMA Pivots ==
  ASSUME vac \in VacType, vac.pc = "write", NEW n \in Nat,
         vac' = [vac EXCEPT !.pc = "reclaim", !.next = n]
  PROVE  /\ vac' \in VacType /\ vac'.pc = "reclaim" /\ vac'.next = n /\ vac'.dead = vac.dead
         /\ vac'.exclusive = TRUE /\ vac.exclusive = TRUE
<1>1. vac \in Folding
  BY VacShape
<1>2. /\ vac' \in Folding /\ vac'.pc = "reclaim" /\ vac'.next = n /\ vac'.dead = vac.dead
      /\ vac'.exclusive = TRUE /\ vac.exclusive = TRUE
  BY <1>1 DEF Folding
<1> QED
  BY <1>2 DEF VacType

\* Transactions: scans, COMMIT and ROLLBACK, DELETE.
LEMMA ScanStruct == ASSUME Struct, NEW s \in Sessions, Scan(s) PROVE Struct'
<1>1. Types'
  BY DEF Struct, Types, Scan, index, budgets
<1>2. LiveOK' /\ FoldOK'
  BY SameIndex DEF Scan, index
<1>3. LockOK'
  BY DEF Struct, LockOK, Scan
<1> QED
  BY <1>1, <1>2, <1>3 DEF Struct

LEMMA HeapStates ==
  ASSUME Types, NEW t \in Tids, NEW x \in {"open", "live", "dead"}, heap[t] # Free
  PROVE  /\ [heap[t] EXCEPT !.state = x] \in [state : {"open", "live", "dead"}, vec : Vectors]
         /\ [heap[t] EXCEPT !.state = x].state = x
         /\ [heap[t] EXCEPT !.state = x].vec = heap[t].vec
<1>1. heap[t] \in [state : {"open", "live", "dead"}, vec : Vectors]
  BY DEF Types
<1> QED
  BY <1>1

LEMMA NotFree == ASSUME Types, NEW t \in Tids PROVE heap[t] # Free <=> heap[t].state # "free"
BY DEF Types, Free

LEMMA EndStruct ==
  ASSUME Struct, RowsOK, NEW s \in Sessions, NEW outcome \in {"live", "dead"}, End(s, outcome)
  PROVE  Struct'
<1>1. heap' \in [Tids -> [state : {"open", "live", "dead"}, vec : Vectors] \cup {Free}]
  <2>1. ASSUME NEW t \in txn[s].rows
        PROVE  /\ t \in Tids
               /\ [heap[t] EXCEPT !.state = outcome] \in
                     [state : {"open", "live", "dead"}, vec : Vectors]
    <3>1. t \in Tids /\ heap[t].state = "open"
      BY DEF Struct, Types, RowsOK
    <3> QED
      BY <3>1, HeapStates, NotFree DEF Struct
  <2> QED
    BY <2>1 DEF End, Struct, Types
<1>2. Types'
  BY <1>1, FreshTypes DEF Struct, Types, End, index, budgets
<1>3. LiveOK' /\ FoldOK'
  BY SameIndex DEF End, index
<1>4. LockOK'
  BY DEF Struct, LockOK, End, NobodyShares, NoTxn, Types
<1> QED
  BY <1>2, <1>3, <1>4 DEF Struct

LEMMA DeleteStruct == ASSUME Struct, NEW t \in Tids, Delete(t) PROVE Struct'
<1>1. [heap[t] EXCEPT !.state = "dead"] \in [state : {"open", "live", "dead"}, vec : Vectors]
  BY HeapStates, NotFree DEF Delete, Struct
<1>2. heap' = [heap EXCEPT ![t] = [heap[t] EXCEPT !.state = "dead"]]
  BY DEF Delete
<1>3. Types'
  BY <1>1, <1>2 DEF Struct, Types, Delete, index, budgets
<1>4. LiveOK' /\ FoldOK'
  BY SameIndex DEF Delete, index
<1>5. LockOK'
  BY DEF Struct, LockOK, Delete, NobodyShares
<1> QED
  BY <1>3, <1>4, <1>5 DEF Struct

\* VACUUM, where it writes nothing.
LEMMA VacuumStruct ==
  ASSUME Struct, StartVacuum \/ EndSweep \/ Cleanup \/ EndReclaim \/ CancelVacuum
  PROVE  Struct'
<1>1. vac' \in VacType
  <2>1. CASE StartVacuum
    BY <2>1 DEF StartVacuum, DeadTids, VacType, Sweeping, Struct, Types
  <2>2. CASE EndSweep \/ Cleanup \/ EndReclaim
    BY <2>2, Turns DEF Struct, Types
  <2>3. CASE CancelVacuum
    BY <2>3 DEF CancelVacuum, VacType
  <2> QED
    BY <2>1, <2>2, <2>3
<1>2. Types'
  BY <1>1 DEF Struct, Types, StartVacuum, EndSweep, Cleanup, EndReclaim, CancelVacuum, index, budgets
<1>3. LiveOK'
  BY SameIndex DEF StartVacuum, EndSweep, Cleanup, EndReclaim, CancelVacuum, index
<1>4. vac'.pc \notin {"write", "reclaim"}
  <2>1. CASE StartVacuum \/ CancelVacuum
    BY <2>1 DEF StartVacuum, CancelVacuum, NoVacuum
  <2>2. CASE EndSweep \/ Cleanup \/ EndReclaim
    BY <2>2, Turns DEF Struct, Types
  <2> QED
    BY <2>1, <2>2
<1>5. LockOK'
  <2>1. CASE StartVacuum \/ CancelVacuum
    BY <2>1 DEF StartVacuum, CancelVacuum, NoVacuum, LockOK
  <2>2. CASE EndSweep \/ Cleanup
    <3>1. ~vac.exclusive
      BY <2>2 DEF EndSweep, Cleanup, Struct, LockOK
    <3> QED
      BY <2>2, <3>1, Turns DEF Struct, Types, LockOK
  <2>3. CASE EndReclaim
    BY <2>3, Turns DEF EndReclaim, Struct, Types, LockOK, NobodyShares
  <2> QED
    BY <2>1, <2>2, <2>3
<1> QED
  BY <1>2, <1>3, <1>4, <1>5 DEF Struct, FoldOK

LEMMA ReapStruct == ASSUME Struct, Reap PROVE Struct'
<1>1. vac' = NoVacuum /\ vac'.pc = "idle" /\ vac'.exclusive = FALSE
  BY DEF Reap, NoVacuum
<1>2. Types'
  BY <1>1 DEF Struct, Types, VacType, Reap, index, budgets
<1>3. LiveOK'
  BY SameIndex DEF Reap, index
<1> QED
  BY <1>1, <1>2, <1>3 DEF Struct, FoldOK, LockOK

LEMMA CrashStruct == ASSUME Struct, Crash PROVE Struct'
<1>1. vac' = NoVacuum /\ vac'.pc = "idle" /\ vac'.exclusive = FALSE
  BY DEF Crash, NoVacuum
<1>2. heap' \in [Tids -> [state : {"open", "live", "dead"}, vec : Vectors] \cup {Free}]
  <2>1. \A t \in Tids : heap[t].state = "open" =>
          [heap[t] EXCEPT !.state = "dead"] \in [state : {"open", "live", "dead"}, vec : Vectors]
    BY HeapStates, NotFree DEF Struct
  <2> QED
    BY <2>1 DEF Crash, Struct, Types
<1>3. Types'
  BY <1>1, <1>2, FreshTypes DEF Struct, Types, VacType, Crash, index
<1>4. LiveOK'
  BY SameIndex DEF Crash, index
<1> QED
  BY <1>1, <1>3, <1>4 DEF Struct, FoldOK, LockOK

-----------------------------------------------------------------------------
(* The structure: steps that write a page.                                 *)

\* A page of the generation keeps its kind, and one outside it may become anything.
LEMMA OnePageLive ==
  ASSUME Types, LiveOK, NEW b \in 1 .. Len(pages), NEW x, IsFiniteSet(x.items),
         b \in Generation => x.kind = pages[b].kind /\ x.items \subseteq Element,
         OnePage(b, x), UNCHANGED <<layout, meta>>
  PROVE  LiveOK'
<1>1. GenEnd' = GenEnd /\ Generation' = Generation /\ DirectoryBlock' = DirectoryBlock
  BY DEF GenEnd, Generation, DirectoryBlock
<1>2. Generation \subseteq 1 .. Len(pages) /\ (meta.npages > 0 => DirectoryBlock \in Generation)
  BY Ranges
<1> QED
  BY <1>1, <1>2 DEF LiveOK, BodyOK, OnePage

LEMMA OneMoreLive ==
  ASSUME Types, LiveOK, NEW x, IsFiniteSet(x.items), OneMore(x), UNCHANGED <<layout, meta>>
  PROVE  LiveOK'
<1>1. GenEnd' = GenEnd /\ Generation' = Generation /\ DirectoryBlock' = DirectoryBlock
  BY DEF GenEnd, Generation, DirectoryBlock
<1>2. /\ Generation \subseteq 1 .. Len(pages) /\ (meta.npages > 0 => DirectoryBlock \in Generation)
      /\ Len(pages) \in Nat /\ GenEnd \in Nat
  BY Ranges
<1>3. \A b \in 1 .. Len(pages') : b \in 1 .. Len(pages) \/ b = Len(pages) + 1
  BY <1>2 DEF OneMore
<1>4. \A b \in 1 .. Len(pages') : IsFiniteSet(pages'[b].items)
  BY <1>3 DEF LiveOK, OneMore
<1>5. GenEnd - 1 <= Len(pages')
  BY <1>2 DEF LiveOK, OneMore
<1> QED
  BY <1>1, <1>2, <1>4, <1>5 DEF LiveOK, BodyOK, OneMore

\* What aminsert does to the pages: an element revived in the generation, or a pending item
\* at the end, in the last page or in a new one.
Revived(t, v) == [tid |-> t, vec |-> v, deleted |-> FALSE, churned |-> TRUE]
Item(t, v) == [tid |-> t, vec |-> v]

InsertsPage(t, v) ==
    \/ \E b \in Generation : \E e \in pages[b].items : \E x \in Page :
          /\ layout = "hnsw" /\ e.deleted /\ OnePage(b, x) /\ x.kind = pages[b].kind
          /\ x.items = (pages[b].items \ {e}) \cup {Revived(t, v)}
    \/ \E x \in Page :
          /\ Len(pages) \in PendingBlocks /\ OnePage(Len(pages), x)
          /\ x.kind = pages[Len(pages)].kind
          /\ x.items = pages[Len(pages)].items \cup {Item(t, v)}
    \/ OneMore(PendingPage({Item(t, v)}))

LEMMA InsertPages ==
  ASSUME Struct, NEW s \in Sessions, NEW t \in Tids, NEW v \in Vectors, Insert(s, t, v)
  PROVE  InsertsPage(t, v) /\ LiveOK'
<1>1. Types /\ LiveOK /\ UNCHANGED <<layout, meta>> /\ pages \in Seq(Page)
  BY DEF Struct, Insert, Types
<1>2. /\ \A b \in 1 .. Len(pages) : pages[b] \in Page /\ IsFiniteSet(pages[b].items)
      /\ Generation \subseteq 1 .. Len(pages) /\ PendingBlocks \subseteq 1 .. Len(pages)
      /\ \A b \in PendingBlocks : b \notin Generation
      /\ \A b \in Generation : pages[b].kind # "pending" /\ pages[b].items \subseteq Element
  BY <1>1, Ranges DEF LiveOK, BodyOK, PendingBlocks, Generation
<1>3. Revived(t, v) \in Element /\ Item(t, v) \in Pair
  BY DEF Revived, Item, Element, Pair
<1>4. CASE Revive(t, v) /\ layout = "hnsw"
  <2>1. PICK b \in Generation : \E e \in pages[b].items :
          e.deleted /\ pages' = [pages EXCEPT ![b].items =
                                  (pages[b].items \ {e}) \cup {Revived(t, v)}]
    BY <1>4 DEF Revive, Revived
  <2>2. PICK e \in pages[b].items :
          e.deleted /\ pages' = [pages EXCEPT ![b].items =
                                  (pages[b].items \ {e}) \cup {Revived(t, v)}]
    BY <2>1
  <2> DEFINE X == (pages[b].items \ {e}) \cup {Revived(t, v)}
             x == WithItems(pages[b], X)
  <2>3. b \in 1 .. Len(pages) /\ pages[b] \in Page /\ IsFiniteSet(X) /\ X \subseteq Element
    <3>1. IsFiniteSet(pages[b].items \ {e})
      BY <1>2, FS_Difference
    <3> QED
      BY <1>2, <1>3, <3>1, FS_AddElement
  <2>5. x \in Page /\ x.kind = pages[b].kind /\ x.items = X
    <3> HIDE DEF X
    <3> QED
      BY <1>2, <2>3, ItemsOfPage
  <2>6. pages' = [pages EXCEPT ![b] = x]
    BY <2>2 DEF WithItems
  <2> HIDE DEF X, x
  <2>7. OnePage(b, x)
    BY <1>1, <2>3, <2>5, <2>6, SetPage
  <2>8. LiveOK'
    BY <1>1, <2>3, <2>5, <2>7, OnePageLive
  <2> QED
    BY <1>4, <2>2, <2>5, <2>7, <2>8 DEF InsertsPage, X
<1>5. CASE /\ Len(pages) \in PendingBlocks
           /\ pages' = [pages EXCEPT ![Len(pages)].items = @ \cup {Item(t, v)}]
  <2> DEFINE b == Len(pages)
             X == pages[b].items \cup {Item(t, v)}
             x == WithItems(pages[b], X)
  <2>1. b \in 1 .. Len(pages) /\ b \notin Generation /\ IsFiniteSet(X) /\ pages[b] \in Page
    BY <1>2, <1>5, FS_AddElement
  <2>2. X \subseteq Pair \/ (pages[b].kind # "pending" /\ X \subseteq Pair \cup Element)
    BY <1>3, <2>1, PageTypes
  <2>3. x \in Page /\ x.kind = pages[b].kind /\ x.items = X
    <3> HIDE DEF X
    <3> QED
      BY <2>1, <2>2, ItemsOfPage
  <2>4. pages' = [pages EXCEPT ![b] = x]
    BY <1>5 DEF WithItems
  <2> HIDE DEF X, x
  <2>5. OnePage(b, x)
    BY <1>1, <2>1, <2>3, <2>4, SetPage
  <2>6. LiveOK'
    BY <1>1, <2>1, <2>3, <2>5, OnePageLive
  <2> QED
    BY <1>5, <2>3, <2>5, <2>6 DEF InsertsPage, X
<1>6. CASE pages' = Append(pages, PendingPage({Item(t, v)}))
  <2> DEFINE x == PendingPage({Item(t, v)})
  <2>1. x \in Page /\ IsFiniteSet(x.items)
    BY <1>3, PageTypes, FS_Singleton DEF PendingPage
  <2>2. pages' = Append(pages, x)
    BY <1>6
  <2> HIDE DEF x
  <2>3. OneMore(x)
    BY <1>1, <2>1, <2>2, AddPage
  <2>4. LiveOK'
    BY <1>1, <2>1, <2>3, OneMoreLive
  <2> QED
    BY <2>3, <2>4 DEF InsertsPage, x
<1>7. (Revive(t, v) /\ layout = "hnsw") \/ AppendPending(t, v)
  BY DEF Insert
<1> QED
  BY <1>4, <1>5, <1>6, <1>7 DEF AppendPending, Item

LEMMA InsertStruct ==
  ASSUME Struct, NEW s \in Sessions, NEW t \in Tids, NEW v \in Vectors, Insert(s, t, v)
  PROVE  Struct'
<1>1. pages' \in Seq(Page) /\ LiveOK'
  BY InsertPages DEF InsertsPage, OnePage, OneMore
<1>2. Types'
  <2>1. heap' \in [Tids -> [state : {"open", "live", "dead"}, vec : Vectors] \cup {Free}]
    BY DEF Insert, Tuple, Struct, Types
  <2>2. txn' \in [Sessions -> [shared : BOOLEAN, rows : SUBSET Tids]]
    BY DEF Insert, Struct, Types
  <2> QED
    BY <1>1, <2>1, <2>2 DEF Insert, Struct, Types
<1>3. ~vac.exclusive /\ UNCHANGED vac /\ vac.pc \notin {"write", "reclaim"}
  BY VacFacts DEF Insert, Struct, Types
<1> QED
  BY <1>1, <1>2, <1>3 DEF Struct, FoldOK, LockOK

\* What tombstone_sweep does to an element.
Struck(e) == IF e.tid \in vac.dead /\ ~e.deleted
             THEN [e EXCEPT !.deleted = TRUE, !.churned = TRUE] ELSE e

LEMMA StruckElement ==
  ASSUME NEW e \in Element
  PROVE  /\ Struck(e) \in Element /\ PairOf(Struck(e)) = PairOf(e)
         /\ e.tid \notin vac.dead => Struck(e) = e
         /\ ~Struck(e).deleted => e.tid \notin vac.dead
BY DEF Struck, Element, PairOf

LEMMA SweepPages ==
  ASSUME Struct, Sweep
  PROVE  /\ pages' \in Seq(Page) /\ LiveOK'
         /\ \E x \in Page : /\ OnePage(vac.next, x) /\ x.kind = pages[vac.next].kind
                            /\ x.items = {Struck(e) : e \in pages[vac.next].items}
<1>1. Types /\ LiveOK /\ UNCHANGED <<layout, meta>> /\ pages \in Seq(Page) /\ vac.next \in Generation
  BY DEF Struct, Sweep, Types
<1> DEFINE b == vac.next
           X == {Struck(e) : e \in pages[b].items}
           x == WithItems(pages[b], X)
<1>2. /\ b \in Generation /\ b \in 1 .. Len(pages) /\ pages[b] \in Page
      /\ pages[b].kind # "pending" /\ pages[b].items \subseteq Element
      /\ IsFiniteSet(pages[b].items)
  BY <1>1, Ranges DEF LiveOK, BodyOK
<1>3. IsFiniteSet(X)
  <2> DEFINE T == pages[b].items
             g == [e \in T |-> Struck(e)]
  <2>1. g \in Surjection(T, X)
    BY DEF Surjection
  <2> HIDE DEF g, X
  <2> QED
    BY <1>2, <2>1, FS_Surjection
<1>4. X \subseteq Element
  BY <1>2, StruckElement
<1>5. pages' = [pages EXCEPT ![b] = x]
  BY DEF Sweep, Struck, WithItems
<1> HIDE DEF X
<1>6. x \in Page /\ x.kind = pages[b].kind /\ x.items = X
  BY <1>2, <1>4, ItemsOfPage
<1> HIDE DEF x, b
<1>7. OnePage(b, x)
  BY <1>1, <1>2, <1>5, <1>6, SetPage
<1>8. LiveOK'
  BY <1>1, <1>2, <1>3, <1>4, <1>6, <1>7, OnePageLive
<1> QED
  BY <1>6, <1>7, <1>8 DEF OnePage, b, X

LEMMA SweepStruct == ASSUME Struct, Sweep PROVE Struct'
<1>1. pages' \in Seq(Page) /\ LiveOK'
  BY SweepPages
<1>2. vac' \in VacType /\ vac'.pc = "sweep" /\ vac'.exclusive = vac.exclusive
  BY Advance DEF Sweep, Struct, Types
<1>3. Types'
  BY <1>1, <1>2 DEF Sweep, Struct, Types, budgets
<1>4. ~vac.exclusive
  BY DEF Struct, LockOK, Sweep
<1> QED
  BY <1>1, <1>2, <1>3, <1>4 DEF Struct, FoldOK, LockOK

\* Everything the index holds is finitely many pairs.
LEMMA PairsFinite ==
  ASSUME NEW S, IsFiniteSet(S), S \subseteq Element
  PROVE  IsFiniteSet(Pairs(S)) /\ Pairs(S) \subseteq Pair
<1>1. Pairs(S) = {PairOf(i) : i \in S}
  BY DEF Pairs, PairOf
<1> DEFINE X == {PairOf(i) : i \in S}
           g == [i \in S |-> PairOf(i)]
<1>2. g \in Surjection(S, X)
  BY DEF Surjection
<1>3. X \subseteq Pair
  BY PairOfTyped
<1> HIDE DEF g, X
<1> QED
  BY <1>1, <1>2, <1>3, FS_Surjection DEF X

LEMMA StoredFinite ==
  ASSUME Types, LiveOK
  PROVE  /\ Enumerated \subseteq Pair /\ Pending \subseteq Pair /\ Stored \subseteq Pair
         /\ IsFiniteSet(Stored)
<1>1. IsFiniteSet(Elements) /\ Elements \subseteq Element
  <2> DEFINE S == {pages[b].items : b \in Generation}
             g == [b \in Generation |-> pages[b].items]
  <2>1. IsFiniteSet(Generation)
    <3>1. meta.first \in Int /\ GenEnd - 1 \in Int
      BY Ranges
    <3> QED
      BY <3>1, FS_Interval DEF Generation
  <2>2. g \in Surjection(Generation, S)
    BY DEF Surjection
  <2>3. \A X \in S : IsFiniteSet(X) /\ X \subseteq Element
    BY Ranges DEF LiveOK, BodyOK
  <2>4. IsFiniteSet(S)
    <3> HIDE DEF g, S
    <3> QED
      BY <2>1, <2>2, FS_Surjection
  <2> HIDE DEF S
  <2>5. IsFiniteSet(UNION S) /\ UNION S \subseteq Element
    BY <2>3, <2>4, FS_UNION
  <2> QED
    BY <2>5 DEF Elements, S
<1>2. IsFiniteSet(Enumerated) /\ Enumerated \subseteq Pair
  <2> DEFINE S == {e \in Elements : ~e.deleted}
  <2>1. IsFiniteSet(S) /\ S \subseteq Element
    BY <1>1, FS_Subset
  <2> HIDE DEF S
  <2>2. IsFiniteSet(Pairs(S)) /\ Pairs(S) \subseteq Pair
    BY <2>1, PairsFinite
  <2> QED
    BY <2>2, FS_EmptySet DEF Enumerated, S
<1>3. IsFiniteSet(Pending) /\ Pending \subseteq Pair
  <2> DEFINE B == {c \in PendingBlocks : pages[c].kind = "pending"}
             S == {pages[b].items : b \in B}
             g == [b \in B |-> pages[b].items]
  <2>1. IsFiniteSet(B)
    <3>1. IsFiniteSet(PendingBlocks)
      BY Ranges, FS_Interval DEF PendingBlocks
    <3> QED
      BY <3>1, FS_Subset
  <2>2. g \in Surjection(B, S)
    BY DEF Surjection
  <2>3. \A X \in S : IsFiniteSet(X) /\ X \subseteq Pair
    BY Ranges, PageTypes DEF LiveOK
  <2>4. IsFiniteSet(S)
    <3> HIDE DEF g, S, B
    <3> QED
      BY <2>1, <2>2, FS_Surjection
  <2> HIDE DEF S
  <2>5. IsFiniteSet(UNION S) /\ UNION S \subseteq Pair
    BY <2>3, <2>4, FS_UNION
  <2> QED
    BY <2>5 DEF Pending, S
<1> QED
  BY <1>2, <1>3, FS_Union DEF Stored

LEMMA SurvivorsWhole ==
  ASSUME Types, LiveOK PROVE Whole(Body(Survivors), Survivors) /\ Survivors \subseteq Pair
<1>1. Survivors \subseteq Pair /\ IsFiniteSet(Survivors)
  BY StoredFinite, FS_Subset DEF Survivors
<1> QED
  BY <1>1, BodyWhole

\* The fold, up to the packed generation.
LEMMA FoldBegins ==
  ASSUME Struct, BeginFold
  PROVE  /\ UNCHANGED <<layout, heap, txn, meta, pages, cuts>> /\ vac.pc = "lock" /\ NobodyShares
         /\ \/ ~CanFold /\ vac' = [vac EXCEPT !.pc = "reap", !.exclusive = TRUE]
            \/ /\ CanFold /\ Readable
               /\ vac' = [pc |-> "write", dead |-> vac.dead, exclusive |-> TRUE,
                          body |-> vac'.body, base |-> vac'.base, next |-> 1]
               /\ Whole(vac'.body, Survivors) /\ vac'.base \in Nat \ {0}
               /\ \/ vac'.base + Len(vac'.body) <= meta.first
                  \/ vac'.base = Len(pages) + 1
            \/ CanFold /\ ~Readable /\ vac' = NoVacuum
<1>1. Types /\ LiveOK
  BY DEF Struct
<1> DEFINE body == Body(Survivors)
           base == FreeRegion(meta.first, Len(body))
<1>2. Whole(body, Survivors)
  BY <1>1, SurvivorsWhole
<1> HIDE DEF body
<1>3. /\ base \in Nat \ {0}
      /\ base + Len(body) <= meta.first \/ base = Len(pages) + 1
  <2>1. Len(body) \in Nat
    BY <1>2 DEF Whole
  <2>2. meta.first \in Nat /\ Len(pages) \in Nat
    BY <1>1, Ranges
  <2>3. CASE base = 1 /\ meta.first - 1 >= Len(body)
    BY <2>1, <2>2, <2>3
  <2>4. CASE base = Len(pages) + 1
    BY <2>2, <2>4
  <2> QED
    BY <2>3, <2>4 DEF FreeRegion
<1> HIDE DEF base
<1>4. /\ vac.pc = "lock" /\ NobodyShares /\ UNCHANGED <<layout, heap, txn, meta, pages, cuts>>
      /\ \/ ~CanFold /\ vac' = [vac EXCEPT !.pc = "reap", !.exclusive = TRUE]
         \/ /\ CanFold /\ Readable
            /\ vac' = [pc |-> "write", dead |-> vac.dead, exclusive |-> TRUE,
                       body |-> body, base |-> base, next |-> 1]
         \/ CanFold /\ ~Readable /\ vac' = NoVacuum
  BY DEF BeginFold, index, budgets, body, base
<1>5. CASE /\ CanFold /\ Readable
           /\ vac' = [pc |-> "write", dead |-> vac.dead, exclusive |-> TRUE,
                       body |-> body, base |-> base, next |-> 1]
  <2>1. vac'.body = body /\ vac'.base = base
    BY <1>5
  <2> QED
    BY <1>2, <1>3, <1>4, <1>5, <2>1
<1> QED
  BY <1>4, <1>5

LEMMA BeginFoldStruct == ASSUME Struct, BeginFold PROVE Struct'
<1>1. UNCHANGED <<layout, heap, txn, meta, pages, cuts>> /\ vac.pc = "lock" /\ NobodyShares
  BY FoldBegins
<1>2. LiveOK'
  BY <1>1, SameIndex
<1>3. CASE ~CanFold /\ vac' = [vac EXCEPT !.pc = "reap", !.exclusive = TRUE]
  <2>1. vac' \in VacType /\ vac'.pc = "reap"
    BY <1>1, <1>3, GiveUp DEF Struct, Types
  <2> QED
    BY <1>1, <1>2, <2>1 DEF Struct, Types, FoldOK, LockOK, NobodyShares
<1>4. CASE /\ vac' = [pc |-> "write", dead |-> vac.dead, exclusive |-> TRUE,
                      body |-> vac'.body, base |-> vac'.base, next |-> 1]
           /\ Whole(vac'.body, Survivors) /\ vac'.base \in Nat \ {0}
           /\ \/ vac'.base + Len(vac'.body) <= meta.first
              \/ vac'.base = Len(pages) + 1
  <2>1. /\ vac'.pc = "write" /\ vac'.dead = vac.dead /\ vac'.exclusive = TRUE /\ vac'.next = 1
    BY <1>4
  <2>2. vac'.body \in Seq(Page) /\ vac'.base \in Nat \ {0} /\ vac.dead \in SUBSET Tids
    BY <1>4, VacFacts DEF Whole, Struct, Types
  <2>3. vac' \in VacType
    BY <1>4, <2>2, Packed, 1 \in Nat, ZenonT(40)
  <2>4. Len(vac'.body) \in Nat /\ Len(pages) \in Nat /\ GenEnd - 1 <= Len(pages) /\ GenEnd \in Nat
    BY <2>2, Ranges DEF Struct, LiveOK
  <2>5. Placed'
    <3>1. \A i \in 1 .. vac'.next - 1 : FALSE
      BY <2>1
    <3>2. GenEnd' = GenEnd /\ layout' = layout
      BY <1>1 DEF GenEnd
    <3>3. vac'.next \in 1 .. Len(vac'.body) + 1
      BY <2>1, <2>4
    <3>4. \/ vac'.base + Len(vac'.body) <= meta.first
          \/ vac'.base >= GenEnd /\ Len(pages) = vac'.base + vac'.next - 2
      BY <1>4, <2>1, <2>4
    <3> QED
      BY <1>1, <1>4, <3>1, <3>2, <3>3, <3>4 DEF Placed, Whole
  <2> QED
    BY <1>1, <1>2, <2>1, <2>3, <2>5 DEF Struct, Types, FoldOK, LockOK, NobodyShares
<1>5. CASE vac' = NoVacuum
  <2>1. vac'.pc = "idle" /\ vac'.exclusive = FALSE /\ vac' \in VacType
    BY <1>5 DEF NoVacuum, VacType
  <2> QED
    BY <1>1, <1>2, <2>1 DEF Struct, Types, FoldOK, LockOK
<1> QED
  BY <1>3, <1>4, <1>5, FoldBegins

\* Where the blocks of a generation of n pages that begins at k lie.
LEMMA Blocks ==
  ASSUME NEW k \in Nat, NEW n \in Nat
  PROVE  /\ \A b \in k .. (k + n - 1) : b - k + 1 \in 1 .. n /\ b = k + (b - k + 1) - 1
         /\ \A i \in 1 .. n : k + i - 1 \in k .. (k + n - 1) /\ k + i - 1 < k + n
OBVIOUS

\* A page of the new generation is written.
LEMMA WritePages ==
  ASSUME Struct, WritePage
  PROVE  /\ UNCHANGED <<layout, heap, txn, meta, cuts>> /\ vac.pc = "write"
         /\ vac.next \in 1 .. Len(vac.body) /\ vac.body[vac.next] \in Page
         /\ vac.base + vac.next - 1 \in Nat \ {0} /\ LiveOK'
         /\ \/ /\ vac.base + vac.next - 1 \in 1 .. Len(pages)
               /\ vac.base + Len(vac.body) <= meta.first
               /\ OnePage(vac.base + vac.next - 1, vac.body[vac.next])
            \/ /\ vac.base + vac.next - 1 = Len(pages) + 1 /\ vac.base >= GenEnd
               /\ OneMore(vac.body[vac.next])
<1> DEFINE b == vac.base + vac.next - 1
           x == vac.body[vac.next]
           n == Len(vac.body)
<1>1. /\ UNCHANGED <<layout, heap, txn, meta, cuts>> /\ vac.pc = "write"
      /\ Types /\ LiveOK /\ Placed /\ pages \in Seq(Page)
  BY DEF WritePage, Struct, FoldOK, budgets, Types
<1>2. vac.body \in Seq(Page) /\ vac.base \in Nat \ {0} /\ n \in Nat
  BY <1>1, FoldFacts DEF Types
<1>3. vac.next \in 1 .. n
  BY <1>1, <1>2 DEF WritePage, Placed
<1>4. b \in Nat \ {0} /\ x \in Page
  BY <1>2, <1>3
<1>5. BodyOK(x)
  BY <1>1, <1>3 DEF Placed
<1>6. IsFiniteSet(x.items)
  BY <1>5 DEF BodyOK
<1>7. /\ meta.first \in Nat \ {0} /\ meta.npages \in Nat /\ Len(pages) \in Nat
      /\ GenEnd = meta.first + meta.npages /\ GenEnd - 1 <= Len(pages)
  BY <1>1, Ranges DEF LiveOK
<1>8. pages' = IF b <= Len(pages) THEN [pages EXCEPT ![b] = x] ELSE Append(pages, x)
  BY DEF WritePage
<1> HIDE DEF x
<1>9. CASE vac.base + n <= meta.first
  <2>1. b \in 1 .. Len(pages) /\ b \notin Generation
    <3> HIDE DEF n
    <3>0. vac.base \in Nat /\ n \in Nat /\ b < vac.base + n
      BY <1>2, <1>3, Blocks
    <3> HIDE DEF b
    <3>1. b < meta.first /\ b <= Len(pages)
      BY <1>4, <1>7, <1>9, <3>0
    <3> QED
      BY <1>4, <1>7, <3>1 DEF Generation
  <2> HIDE DEF b
  <2>2. OnePage(b, x)
    <3>1. pages' = [pages EXCEPT ![b] = x]
      BY <1>7, <1>8, <2>1
    <3> QED
      BY <1>1, <1>4, <2>1, <3>1, SetPage
  <2>3. LiveOK'
    BY <1>1, <1>6, <2>1, <2>2, OnePageLive
  <2> QED
    BY <1>1, <1>3, <1>4, <1>9, <2>1, <2>2, <2>3 DEF b, x
<1>10. CASE vac.base >= GenEnd /\ Len(pages) = vac.base + vac.next - 2
  <2>1. b = Len(pages) + 1
    BY <1>2, <1>3, <1>7, <1>10
  <2>2. ~(b <= Len(pages))
    BY <1>7, <2>1
  <2> HIDE DEF b
  <2>3. OneMore(x)
    BY <1>1, <1>4, <1>8, <2>2, AddPage
  <2>4. LiveOK'
    BY <1>1, <1>6, <2>3, OneMoreLive
  <2> QED
    BY <1>1, <1>3, <1>4, <1>10, <2>1, <2>3, <2>4 DEF b, x
<1> QED
  BY <1>1, <1>9, <1>10 DEF Placed

LEMMA WritePageStruct == ASSUME Struct, WritePage PROVE Struct'
<1> DEFINE b == vac.base + vac.next - 1
           x == vac.body[vac.next]
           n == Len(vac.body)
<1>1. /\ UNCHANGED <<layout, heap, txn, meta, cuts>> /\ vac.pc = "write"
      /\ Types /\ LiveOK /\ Placed /\ pages \in Seq(Page) /\ vac.next \in 1 .. n /\ LiveOK'
  BY WritePages DEF Struct, FoldOK, Types
<1>2. /\ vac' \in VacType /\ vac'.pc = "write" /\ vac'.exclusive = vac.exclusive
      /\ vac'.next = vac.next + 1 /\ vac'.body = vac.body /\ vac'.base = vac.base
  BY <1>1, Advance DEF WritePage, Types
<1>3. /\ vac.body \in Seq(Page) /\ vac.base \in Nat \ {0} /\ n \in Nat
      /\ meta.first \in Nat \ {0} /\ meta.npages \in Nat /\ Len(pages) \in Nat
      /\ GenEnd = meta.first + meta.npages
  <2>1. vac.body \in Seq(Page) /\ vac.base \in Nat \ {0} /\ n \in Nat
    BY <1>1, FoldFacts DEF Types
  <2>2. /\ meta.first \in Nat \ {0} /\ meta.npages \in Nat /\ Len(pages) \in Nat
        /\ GenEnd = meta.first + meta.npages
    BY <1>1, Ranges
  <2> QED
    BY <2>1, <2>2
<1>4. GenEnd' = GenEnd /\ LockOK'
  BY <1>1, <1>2 DEF GenEnd, Struct, LockOK, NobodyShares
<1>5. /\ vac'.next \in 1 .. Len(vac'.body) + 1
      /\ \A i \in 1 .. vac'.next - 1 : i \in 1 .. vac.next - 1 \/ i = vac.next
      /\ \A i \in 1 .. vac.next : vac.base + i - 1 \in Nat \ {0}
      /\ \A i \in 1 .. vac.next - 1 : vac.base + i - 1 < b
  <2> HIDE DEF n
  <2>1. Len(vac'.body) = n
    BY <1>2 DEF n
  <2>2. vac.base \in Nat \ {0} /\ n \in Nat /\ vac.next \in 1 .. n /\ vac'.next = vac.next + 1
    BY <1>1, <1>2, <1>3
  <2> QED
    BY <2>1, <2>2, SMTT(30)
<1>6. \/ b \in 1 .. Len(pages) /\ vac.base + n <= meta.first /\ OnePage(b, x)
      \/ b = Len(pages) + 1 /\ vac.base >= GenEnd /\ OneMore(x)
  BY WritePages
<1>7. pages' \in Seq(Page) /\ Len(pages') >= Len(pages) /\ Len(pages') \in Nat
  BY <1>3, <1>6 DEF OnePage, OneMore
<1>8. Types'
  BY <1>1, <1>2, <1>7 DEF Types
<1>9. ASSUME NEW i \in 1 .. vac'.next - 1
      PROVE  vac.base + i - 1 <= Len(pages') /\ pages'[vac.base + i - 1] = vac.body[i]
  <2>1. CASE i = vac.next
    <3>1. vac.base + i - 1 = b /\ vac.body[i] = x
      BY <2>1
    <3> HIDE DEF b, x
    <3> QED
      BY <1>3, <1>6, <3>1 DEF OnePage, OneMore
  <2>2. CASE i \in 1 .. vac.next - 1
    <3> DEFINE c == vac.base + i - 1
    <3>0. c <= Len(pages) /\ pages[c] = vac.body[i]
      BY <1>1, <2>2, Zenon DEF Placed
    <3>1. c \in Nat \ {0} /\ c # b /\ c <= Len(pages) /\ pages[c] = vac.body[i]
      BY <1>1, <1>3, <1>5, <2>2, <3>0, SMTT(30)
    <3> HIDE DEF b, c, x
    <3>2. c \in 1 .. Len(pages) /\ c <= Len(pages')
      BY <1>3, <1>7, <3>1
    <3> QED
      BY <1>6, <3>1, <3>2 DEF c, OnePage, OneMore
  <2> QED
    BY <1>5, <2>1, <2>2
<1>10. \/ vac.base + n <= meta.first
       \/ vac.base >= GenEnd /\ Len(pages') = vac.base + vac'.next - 2
  <2>1. CASE b = Len(pages) + 1 /\ vac.base >= GenEnd /\ OneMore(x)
    <3>1. Len(pages') = Len(pages) + 1
      BY <2>1 DEF OneMore
    <3> QED
      BY <1>1, <1>2, <1>3, <2>1, <3>1
  <2> QED
    BY <1>6, <2>1
<1>11. Placed'
  BY <1>1, <1>2, <1>4, <1>5, <1>9, <1>10 DEF Placed
<1> QED
  BY <1>1, <1>2, <1>4, <1>8, <1>11 DEF Struct, FoldOK

\* The pivot: the new generation is live, where it was placed.
LEMMA Pivoted ==
  ASSUME Struct, Pivot
  PROVE  /\ UNCHANGED <<layout, heap, txn, pages, cuts>> /\ vac.pc = "write"
         /\ vac'.pc = "reclaim" /\ vac'.next = GenEnd' /\ vac'.dead = vac.dead
         /\ Generation' = {vac.base + i - 1 : i \in 1 .. Len(vac.body)}
         /\ \A i \in 1 .. Len(vac.body) : pages'[vac.base + i - 1] = vac.body[i]
         /\ LiveOK' /\ Types' /\ LockOK'
<1> DEFINE n == Len(vac.body)
<1>1. /\ UNCHANGED <<layout, heap, txn, pages, cuts>> /\ vac.pc = "write"
      /\ Types /\ LiveOK /\ Placed /\ pages \in Seq(Page)
      /\ meta' = [first |-> vac.base, npages |-> n]
      /\ vac' = [vac EXCEPT !.pc = "reclaim", !.next = vac.base + n]
  BY DEF Pivot, Struct, FoldOK, budgets, Types
<1>2. /\ vac.body \in Seq(Page) /\ vac.base \in Nat \ {0} /\ n \in Nat /\ vac.base + n \in Nat
      /\ meta.first \in Nat \ {0} /\ meta.npages \in Nat /\ Len(pages) \in Nat
      /\ GenEnd = meta.first + meta.npages /\ GenEnd - 1 <= Len(pages)
  <2>1. vac.body \in Seq(Page) /\ vac.base \in Nat \ {0} /\ n \in Nat
    BY <1>1, FoldFacts DEF Types
  <2>2. /\ meta.first \in Nat \ {0} /\ meta.npages \in Nat /\ Len(pages) \in Nat
        /\ GenEnd = meta.first + meta.npages /\ GenEnd - 1 <= Len(pages)
    BY <1>1, Ranges DEF LiveOK
  <2>3. vac.base + n \in Nat
    BY <2>1
  <2> QED
    BY <2>1, <2>2, <2>3
<1>3. /\ vac' \in VacType /\ vac'.pc = "reclaim" /\ vac'.next = vac.base + n
      /\ vac'.dead = vac.dead /\ vac'.exclusive = TRUE /\ vac.exclusive = TRUE
  BY <1>1, <1>2, Pivots DEF Types
<1>4. vac.next = n + 1
  <2>1. vac.next > n
    BY DEF Pivot
  <2>2. vac.next \in 1 .. n + 1
    BY <1>1, Zenon DEF Placed
  <2> HIDE DEF n
  <2> QED
    BY <1>2, <2>1, <2>2
<1>5. /\ meta'.first = vac.base /\ meta'.npages = n /\ GenEnd' = vac.base + n
      /\ meta' \in [first : Nat \ {0}, npages : Nat]
  BY <1>1, <1>2 DEF GenEnd
<1>6. Types' /\ LockOK'
  BY <1>1, <1>3, <1>5 DEF Types, Struct, LockOK, NobodyShares
<1> HIDE DEF n
<1>7. \A i \in 1 .. n : vac.base + i - 1 <= Len(pages) /\ pages[vac.base + i - 1] = vac.body[i]
  <2>1. \A i \in 1 .. vac.next - 1 :
          vac.base + i - 1 <= Len(pages) /\ pages[vac.base + i - 1] = vac.body[i]
    BY <1>1 DEF Placed
  <2> QED
    BY <1>2, <1>4, <2>1
<1>8. GenEnd' - 1 <= Len(pages)
  <2>1. CASE n = 0
    <3>1. \/ vac.base + n <= meta.first
          \/ vac.base >= GenEnd /\ Len(pages) = vac.base + vac.next - 2
      BY <1>1 DEF Placed, n
    <3> QED
      BY <1>2, <1>4, <1>5, <2>1, <3>1
  <2>2. CASE n > 0
    BY <1>2, <1>5, <1>7, <2>2
  <2> QED
    BY <1>2, <2>1, <2>2
<1>9. /\ \A b \in Generation' : /\ b - vac.base + 1 \in 1 .. n
                               /\ b = vac.base + (b - vac.base + 1) - 1
      /\ \A i \in 1 .. n : vac.base + i - 1 \in Generation'
  <2>1. vac.base \in Nat /\ n \in Nat /\ Generation' = vac.base .. (vac.base + n - 1)
    BY <1>2, <1>5 DEF Generation
  <2> QED
    BY <2>1, Blocks
<1>10. \A b \in Generation' : pages[b] = vac.body[b - vac.base + 1] /\ BodyOK(pages[b])
  BY <1>1, <1>7, <1>9 DEF Placed, n
<1>11. n > 0 => pages[DirectoryBlock'].kind = "directory"
  <2>1. DirectoryBlock' = vac.base + (IF layout = "hnsw" THEN n ELSE 1) - 1
    <3>1. vac.base \in Nat /\ n \in Nat /\ layout' = layout
      BY <1>1, <1>2
    <3> QED
      BY <1>5, <3>1 DEF DirectoryBlock
  <2>2. n > 0 => vac.body[IF layout = "hnsw" THEN n ELSE 1].kind = "directory"
    BY <1>1 DEF Placed, n
  <2>3. n > 0 => (IF layout = "hnsw" THEN n ELSE 1) \in 1 .. n
    BY <1>2
  <2> QED
    BY <1>7, <2>1, <2>2, <2>3
<1>12. LiveOK'
  BY <1>1, <1>5, <1>8, <1>10, <1>11 DEF LiveOK, BodyOK, Placed, n
<1>13. Generation' = {vac.base + i - 1 : i \in 1 .. n}
  BY <1>9
<1> QED
  BY <1>1, <1>3, <1>5, <1>6, <1>7, <1>12, <1>13 DEF n

LEMMA PivotStruct == ASSUME Struct, Pivot PROVE Struct'
<1>1. vac'.pc = "reclaim" /\ vac'.next = GenEnd' /\ LiveOK' /\ Types' /\ LockOK'
  BY Pivoted
<1>2. GenEnd' \in Nat \ {0} /\ Len(pages') \in Nat /\ GenEnd' - 1 <= Len(pages')
  <2>1. GenEnd' = meta'.first + meta'.npages
    BY DEF GenEnd
  <2> QED
    BY <1>1, <2>1 DEF Types, LiveOK
<1>3. Emptied'
  <2>1. vac'.next \in GenEnd' .. Len(pages') + 1 /\ \A b \in GenEnd' .. vac'.next - 1 : FALSE
    <3> DEFINE g == GenEnd'
               l == Len(pages')
               m == vac'.next
    <3>1. g \in Nat \ {0} /\ l \in Nat /\ g - 1 <= l /\ m = g
      BY <1>1, <1>2
    <3> HIDE DEF g, l, m
    <3>2. m \in g .. l + 1 /\ \A b \in g .. m - 1 : FALSE
      BY <3>1
    <3> QED
      BY <3>2 DEF g, l, m
  <2> QED
    BY <2>1, Zenon DEF Emptied
<1> QED
  BY <1>1, <1>3 DEF Struct, FoldOK

\* An old page is emptied.
LEMMA Reclaims ==
  ASSUME Struct, Reclaim
  PROVE  /\ UNCHANGED <<layout, heap, txn, meta, cuts>> /\ vac.pc = "reclaim"
         /\ vac.next \in PendingBlocks /\ OnePage(vac.next, Empty) /\ LiveOK'
         /\ vac'.pc = "reclaim" /\ vac'.next = vac.next + 1 /\ vac'.dead = vac.dead
         /\ vac'.exclusive = vac.exclusive /\ vac' \in VacType
<1>1. /\ UNCHANGED <<layout, heap, txn, meta, cuts>> /\ vac.pc = "reclaim"
      /\ Types /\ LiveOK /\ Emptied /\ pages \in Seq(Page) /\ vac.next <= Len(pages)
      /\ pages' = [pages EXCEPT ![vac.next] = Empty] /\ vac' = [vac EXCEPT !.next = @ + 1]
  BY DEF Reclaim, Struct, FoldOK, budgets, Types
<1>2. Len(pages) \in Nat /\ GenEnd \in Nat \ {0} /\ vac.next \in GenEnd .. Len(pages) + 1
  BY <1>1, Ranges DEF Emptied
<1>3. vac.next \in 1 .. Len(pages) /\ vac.next \in PendingBlocks /\ vac.next \notin Generation
  BY <1>1, <1>2 DEF PendingBlocks, Generation
<1>4. OnePage(vac.next, Empty)
  BY <1>1, <1>3, FreshTypes, SetPage
<1>5. IsFiniteSet(Empty.items)
  BY FS_EmptySet, FreshTypes
<1>6. LiveOK'
  BY <1>1, <1>3, <1>4, <1>5, OnePageLive
<1> QED
  BY <1>1, <1>3, <1>4, <1>6, Advance DEF Types

LEMMA ReclaimStruct == ASSUME Struct, Reclaim PROVE Struct'
<1>1. /\ UNCHANGED <<layout, heap, txn, meta, cuts>> /\ vac.pc = "reclaim" /\ Types /\ Emptied
      /\ vac.next \in PendingBlocks /\ OnePage(vac.next, Empty) /\ LiveOK'
      /\ vac'.pc = "reclaim" /\ vac'.next = vac.next + 1
      /\ vac'.exclusive = vac.exclusive /\ vac' \in VacType
  BY Reclaims DEF Struct, FoldOK
<1>2. Types'
  BY <1>1 DEF Types, OnePage
<1>3. LockOK'
  BY <1>1 DEF Struct, LockOK, NobodyShares
<1>4. /\ GenEnd \in Nat \ {0} /\ Len(pages) \in Nat /\ vac.next \in GenEnd .. Len(pages)
      /\ Len(pages') = Len(pages) /\ GenEnd' = GenEnd
  BY <1>1, Ranges DEF Struct, PendingBlocks, OnePage, GenEnd
<1>5. ASSUME NEW b \in GenEnd .. vac.next PROVE pages'[b] = Empty
  <2>1. b \in 1 .. Len(pages) /\ (b = vac.next \/ b \in GenEnd .. vac.next - 1)
    BY <1>4
  <2> QED
    BY <1>1, <2>1 DEF OnePage, Emptied
<1>6. Emptied'
  <2>1. vac'.next - 1 = vac.next /\ vac'.next \in GenEnd .. Len(pages') + 1
    BY <1>1, <1>4
  <2> QED
    BY <1>4, <1>5, <2>1 DEF Emptied
<1> QED
  BY <1>1, <1>2, <1>3, <1>6 DEF Struct, FoldOK

-----------------------------------------------------------------------------
(* The structure: a new file.                                              *)

\* The rows that ambuild finds.
Visible == {[tid |-> t, vec |-> heap[t].vec] : t \in {u \in Tids : heap[u].state = "live"}}

\* A scan finds what the generation holds and is not a tombstone: its directory is there.
LEMMA EnumeratedIs ==
  Types /\ LiveOK =>
     \A p : p \in Enumerated <=>
              \E b \in Generation : \E e \in pages[b].items : ~e.deleted /\ PairOf(e) = p
<1> SUFFICES ASSUME Types, LiveOK
             PROVE  \A p : p \in Enumerated <=>
                      \E b \in Generation : \E e \in pages[b].items : ~e.deleted /\ PairOf(e) = p
  OBVIOUS
<1>1. meta.npages = 0 => Generation = {}
  BY Ranges DEF Generation
<1>2. Enumerated = Pairs({e \in Elements : ~e.deleted}) \/ (Enumerated = {} /\ Generation = {})
  BY <1>1, Ranges DEF Enumerated, LiveOK
<1>3. \A p : p \in Pairs({e \in Elements : ~e.deleted}) <=>
               \E e \in Elements : ~e.deleted /\ PairOf(e) = p
  BY DEF Pairs, PairOf
<1> QED
  BY <1>2, <1>3 DEF Elements

\* A file that holds one whole generation and no more, as ambuild leaves it.
Fresh == Whole(pages, Visible) /\ meta = [first |-> 1, npages |-> Len(pages)]

LEMMA FreshLive ==
  Fresh => /\ LiveOK /\ pages \in Seq(Page) /\ meta \in [first : Nat \ {0}, npages : Nat]
           /\ PendingBlocks = {} /\ Generation = 1 .. Len(pages)
<1> SUFFICES ASSUME Fresh
             PROVE  /\ LiveOK /\ pages \in Seq(Page)
                    /\ meta \in [first : Nat \ {0}, npages : Nat]
                    /\ PendingBlocks = {} /\ Generation = 1 .. Len(pages)
  OBVIOUS
<1>1. /\ pages \in Seq(Page) /\ Len(pages) \in Nat /\ meta.first = 1 /\ meta.npages = Len(pages)
      /\ meta \in [first : Nat \ {0}, npages : Nat]
  BY DEF Fresh, Whole
<1>2. /\ GenEnd = Len(pages) + 1 /\ Generation = 1 .. Len(pages)
      /\ DirectoryBlock = IF layout = "hnsw" THEN Len(pages) ELSE 1
  BY <1>1 DEF GenEnd, Generation, DirectoryBlock
<1>3. PendingBlocks = {}
  BY <1>1, <1>2 DEF PendingBlocks
<1>4. LiveOK
  BY <1>1, <1>2 DEF Fresh, Whole, LiveOK, BodyOK
<1> QED
  BY <1>1, <1>2, <1>3, <1>4

LEMMA FreshHolds == Fresh /\ Types => \A p : p \in Stored <=> p \in Visible
<1> SUFFICES ASSUME Fresh, Types, NEW p PROVE p \in Stored <=> p \in Visible
  OBVIOUS
<1>1. LiveOK /\ PendingBlocks = {} /\ Generation = 1 .. Len(pages)
  BY FreshLive
<1>2. p \in Stored <=> p \in Enumerated
  BY <1>1 DEF Stored, Pending
<1>3. p \in Enumerated <=> \E b \in 1 .. Len(pages) : \E e \in pages[b].items : ~e.deleted /\ PairOf(e) = p
  BY <1>1, EnumeratedIs
<1> QED
  BY <1>2, <1>3 DEF Fresh, Whole

LEMMA VisiblePairs == ASSUME Types PROVE Visible \in SUBSET Pair /\ IsFiniteSet(Visible)
<1> DEFINE T == {u \in Tids : heap[u].state = "live"}
           g == [t \in T |-> RowOf(t)]
<1>1. IsFiniteSet(T)
  BY FS_Subset
<1>2. Visible = {RowOf(t) : t \in T}
  BY DEF Visible, RowOf
<1>3. g \in Surjection(T, Visible)
  BY <1>2 DEF Surjection
<1>4. \A t \in T : heap[t] # Free
  BY NotFree
<1>5. \A t \in T : RowOf(t) \in Pair
  BY <1>4 DEF Types, RowOf, Pair
<1> HIDE DEF g, T
<1>6. IsFiniteSet(Visible)
  BY <1>1, <1>3, FS_Surjection
<1> QED
  BY <1>2, <1>5, <1>6

LEMMA Reindexed ==
  ASSUME Struct, Reindex
  PROVE  /\ UNCHANGED <<layout, heap, txn, vac, cuts>> /\ vac.pc = "idle" /\ NobodyShares
         /\ Fresh'
<1>1. Whole(Body(Visible), Visible)
  BY VisiblePairs, BodyWhole DEF Struct
<1>2. pages' = Body(Visible) /\ meta' = [first |-> 1, npages |-> Len(pages')]
  BY DEF Reindex, Visible
<1>3. UNCHANGED <<layout, heap, txn, vac, cuts>> /\ vac.pc = "idle" /\ NobodyShares
  BY DEF Reindex, budgets
<1>4. Visible' = Visible
  BY <1>3 DEF Visible
<1>5. Whole(pages', Visible)
  BY <1>1, <1>2
<1> QED
  BY <1>2, <1>3, <1>4, <1>5 DEF Whole, Fresh

LEMMA ReindexStruct == ASSUME Struct, Reindex PROVE Struct'
<1>1. UNCHANGED <<layout, heap, txn, vac, cuts>> /\ vac.pc = "idle" /\ Fresh'
  BY Reindexed
<1>2. /\ LiveOK' /\ pages' \in Seq(Page) /\ meta' \in [first : Nat \ {0}, npages : Nat]
  <2>1. (Fresh => /\ LiveOK /\ pages \in Seq(Page) /\ meta \in [first : Nat \ {0}, npages : Nat])'
    BY FreshLive, PTL
  <2> QED
    BY <1>1, <2>1
<1>3. Types'
  BY <1>1, <1>2 DEF Struct, Types
<1> QED
  BY <1>1, <1>2, <1>3 DEF Struct, LockOK, FoldOK

LEMMA InitFresh == ASSUME Init PROVE Types /\ Fresh /\ Struct
<1>1. \A t \in Tids : heap[t] = Free
  BY DEF Init
<1>2. Visible = {}
  BY <1>1, FreshTypes DEF Visible
<1>3. Whole(Body(Visible), Visible)
  BY <1>2, FS_EmptySet, BodyWhole
<1>4. Fresh
  BY <1>2, <1>3 DEF Init, Fresh
<1>5. /\ LiveOK /\ pages \in Seq(Page) /\ meta \in [first : Nat \ {0}, npages : Nat]
  BY <1>4, FreshLive
<1>6. vac \in VacType /\ vac.pc = "idle" /\ vac.exclusive = FALSE
  BY DEF Init, VacType, NoVacuum
<1>7. Types
  BY <1>5, <1>6, FreshTypes DEF Init, Types
<1> QED
  BY <1>4, <1>5, <1>6, <1>7 DEF Struct, LockOK, FoldOK

-----------------------------------------------------------------------------
(* Rows and transactions.                                                  *)

LEMMA InitRows == ASSUME Init PROVE RowsOK
<1>1. \A t \in Tids : heap[t].state # "open"
  BY FreshTypes DEF Init
<1>2. vac.dead = {} /\ \A s \in Sessions : txn[s].rows = {}
  BY DEF Init, NoVacuum, NoTxn
<1> QED
  BY <1>1, <1>2 DEF RowsOK

\* Which tuples VACUUM has collected after each of its steps.
LEMMA DeadNext ==
  ASSUME Struct, Vacuum
  PROVE  vac'.dead = vac.dead \/ vac'.dead = {} \/ vac'.dead = DeadTids
<1>1. CASE StartVacuum
  BY <1>1 DEF StartVacuum
<1>2. CASE Sweep
  BY <1>2, Advance DEF Sweep, Struct, Types
<1>3. CASE EndSweep \/ Cleanup \/ EndReclaim
  BY <1>3, Turns DEF Struct, Types
<1>4. CASE BeginFold
  <2>1. CASE vac' = [vac EXCEPT !.pc = "reap", !.exclusive = TRUE]
    BY <1>4, <2>1, FoldBegins, GiveUp DEF Struct, Types
  <2>2. CASE vac' = [pc |-> "write", dead |-> vac.dead, exclusive |-> TRUE,
                      body |-> vac'.body, base |-> vac'.base, next |-> 1]
    BY <2>2
  <2>3. CASE vac' = NoVacuum
    BY <2>3 DEF NoVacuum
  <2> QED
    BY <1>4, <2>1, <2>2, <2>3, FoldBegins
<1>5. CASE WritePage
  BY <1>5, Advance DEF WritePage, Struct, Types
<1>6. CASE Pivot
  BY <1>6, Pivoted
<1>7. CASE Reclaim
  BY <1>7, Reclaims
<1>8. CASE Reap \/ CancelVacuum
  BY <1>8 DEF Reap, CancelVacuum, NoVacuum
<1> QED
  BY <1>1, <1>2, <1>3, <1>4, <1>5, <1>6, <1>7, <1>8 DEF Vacuum

LEMMA RowsStep == ASSUME Struct, RowsOK, Next PROVE RowsOK'
<1> USE DEF RowsOK
<1>1. ASSUME NEW s \in Sessions, NEW t \in Tids, NEW v \in Vectors, Insert(s, t, v)
      PROVE  RowsOK'
  <2>1. /\ heap[t] = Free /\ heap' = [heap EXCEPT ![t] = Tuple("open", v)] /\ UNCHANGED vac
        /\ txn' = [txn EXCEPT ![s] = [shared |-> TRUE, rows |-> txn[s].rows \cup {t}]]
    BY <1>1 DEF Insert
  <2>2. /\ \A r \in Sessions : txn'[r].rows = IF r = s THEN txn[s].rows \cup {t} ELSE txn[r].rows
        /\ txn'[s].shared /\ \A r \in Sessions : txn[r].shared => txn'[r].shared
    BY <2>1 DEF Struct, Types
  <2>3. /\ heap'[t].state = "open" /\ heap[t].state = "free"
        /\ \A u \in Tids : u # t => heap'[u] = heap[u]
    BY <2>1, FreshTypes DEF Struct, Types, Tuple
  <2>4. t \notin vac.dead /\ \A r \in Sessions : t \notin txn[r].rows
    BY <2>3
  <2>5. vac.dead \subseteq Tids /\ \A r \in Sessions : txn[r].rows \subseteq Tids
    BY VacFacts DEF Struct, Types
  <2> QED
    BY <2>1, <2>2, <2>3, <2>4, <2>5
<1>2. ASSUME NEW s \in Sessions, Scan(s) PROVE RowsOK'
  <2>1. /\ UNCHANGED <<heap, vac>>
        /\ \A r \in Sessions : txn'[r].rows = txn[r].rows /\ (txn[r].shared => txn'[r].shared)
    BY <1>2 DEF Scan, Struct, Types
  <2> QED
    BY <2>1
<1>3. ASSUME NEW s \in Sessions, NEW outcome \in {"live", "dead"}, End(s, outcome) PROVE RowsOK'
  <2>1. /\ UNCHANGED vac /\ txn' = [txn EXCEPT ![s] = NoTxn]
        /\ \A t \in Tids : heap'[t] = IF t \in txn[s].rows THEN [heap[t] EXCEPT !.state = outcome]
                                       ELSE heap[t]
    BY <1>3 DEF End
  <2>2. /\ \A r \in Sessions : txn'[r] = IF r = s THEN NoTxn ELSE txn[r]
        /\ NoTxn.rows = {}
    BY <2>1 DEF Struct, Types, NoTxn
  <2>3. vac.dead \subseteq Tids /\ \A r \in Sessions : txn[r].rows \subseteq Tids
    BY VacFacts DEF Struct, Types
  <2>4. ASSUME NEW t \in txn[s].rows PROVE heap'[t].state = outcome
    <3>1. t \in Tids /\ heap[t].state = "open" /\ heap'[t] = [heap[t] EXCEPT !.state = outcome]
      BY <2>1, <2>3
    <3>2. heap[t] # Free
      BY <3>1, NotFree DEF Struct
    <3> QED
      BY <3>1, <3>2, HeapStates DEF Struct
  <2>5. \A t \in Tids : t \notin txn[s].rows => heap'[t] = heap[t]
    BY <2>1
  <2>6. \A r \in Sessions : \A t \in txn'[r].rows : r # s /\ t \in txn[r].rows /\ t \notin txn[s].rows
    BY <2>2
  <2>7. \A r \in Sessions : \A t \in txn'[r].rows : heap'[t].state = "open" /\ txn'[r].shared
    BY <2>2, <2>3, <2>5, <2>6
  <2>8. \A q, r \in Sessions : txn'[q].rows \cap txn'[r].rows # {} => q = r
    BY <2>2
  <2>9. \A t \in Tids : heap'[t].state = "open" => \E r \in Sessions : t \in txn'[r].rows
    BY <2>2, <2>4, <2>5
  <2>10. \A t \in vac'.dead : heap'[t].state = "dead"
    BY <2>1, <2>3, <2>5
  <2> QED
    BY <2>7, <2>8, <2>9, <2>10
<1>4. ASSUME NEW t \in Tids, Delete(t) PROVE RowsOK'
  <2>1. UNCHANGED <<txn, vac>> /\ \A u \in Tids : u # t => heap'[u] = heap[u]
    BY <1>4 DEF Delete, Struct, Types
  <2>2. heap[t].state = "live" /\ heap'[t].state = "dead"
    BY <1>4, HeapStates, NotFree DEF Delete, Struct, Types
  <2>3. vac.dead \subseteq Tids /\ \A r \in Sessions : txn[r].rows \subseteq Tids
    BY VacFacts DEF Struct, Types
  <2> QED
    BY <2>1, <2>2, <2>3
<1>5. CASE Vacuum /\ ~Reap
  <2>1. UNCHANGED <<heap, txn>>
    <3>1. CASE StartVacuum \/ Sweep \/ EndSweep \/ Cleanup \/ BeginFold
      BY <3>1 DEF StartVacuum, Sweep, EndSweep, Cleanup, BeginFold
    <3>2. CASE WritePage \/ Pivot \/ Reclaim \/ EndReclaim \/ CancelVacuum
      BY <3>2 DEF WritePage, Pivot, Reclaim, EndReclaim, CancelVacuum
    <3> QED
      BY <1>5, <3>1, <3>2 DEF Vacuum
  <2>2. \A t \in vac'.dead : heap[t].state = "dead"
    BY <1>5, DeadNext DEF DeadTids
  <2> QED
    BY <2>1, <2>2
<1>6. CASE Reap
  <2>1. UNCHANGED txn /\ vac'.dead = {}
    BY <1>6 DEF Reap, NoVacuum
  <2>2. \A t \in Tids : heap'[t] = IF t \in vac.dead THEN Free ELSE heap[t]
    BY <1>6 DEF Reap
  <2>3. \A r \in Sessions : txn[r].rows \subseteq Tids
    BY DEF Struct, Types
  <2> QED
    BY <2>1, <2>2, <2>3, FreshTypes
<1>7. CASE Crash
  <2>1. \A s \in Sessions : txn'[s].rows = {}
    BY <1>7 DEF Crash, NoTxn
  <2>2. \A t \in Tids : heap'[t].state # "open"
    BY <1>7, HeapStates, NotFree DEF Crash, Struct
  <2>3. vac'.dead = {}
    BY <1>7 DEF Crash, NoVacuum
  <2> QED
    BY <2>1, <2>2, <2>3
<1>8. CASE Reindex
  BY <1>8, Reindexed
<1> QED
  BY <1>1, <1>2, <1>3, <1>4, <1>5, <1>6, <1>7, <1>8 DEF Next

LEMMA StructStep == ASSUME Struct, RowsOK, Next PROVE Struct'
<1>1. CASE Vacuum
  BY <1>1, VacuumStruct, SweepStruct, BeginFoldStruct, WritePageStruct, PivotStruct,
     ReclaimStruct, ReapStruct DEF Vacuum
<1> QED
  BY <1>1, InsertStruct, ScanStruct, EndStruct, DeleteStruct, CrashStruct, ReindexStruct DEF Next

-----------------------------------------------------------------------------
(* No row is lost.                                                         *)

Inv == Struct /\ RowsOK /\ Kept

\* The fold's part of the invariant: what is packed, or live since the pivot, has the rows.
FoldKept ==
    /\ vac.pc = "write" =>
          \A t \in Rows : \E i \in 1 .. Len(vac.body) :
             \E e \in vac.body[i].items : PairOf(e) = RowOf(t)
    /\ vac.pc = "reclaim" => \A t \in Rows : RowOf(t) \in Enumerated
    /\ cuts = 0 /\ vac.pc \notin {"write", "reclaim"} => Readable

LEMMA KeptParts == Kept <=> NothingLost /\ FoldKept
BY DEF Kept, FoldKept

\* NothingLost, of the set of rows.
LEMMA LostParts == NothingLost <=> (Readable => \A t \in Rows : RowOf(t) \in Stored)
BY DEF NothingLost, Rows

\* A scan's answers, by page.
Held(p) ==
    \/ \E b \in Generation : \E e \in pages[b].items : ~e.deleted /\ PairOf(e) = p
    \/ \E b \in PendingBlocks : pages[b].kind = "pending" /\ p \in pages[b].items

LEMMA StoredIs == Types /\ LiveOK => \A p : p \in Stored <=> Held(p)
BY EnumeratedIs DEF Stored, Pending, Held

LEMMA StoredIsNext == (Types /\ LiveOK => \A p : p \in Stored <=> Held(p))'
BY StoredIs, PTL

\* The index is left alone and no row is added.
LEMMA KeptSame ==
  ASSUME Kept, UNCHANGED <<layout, meta, pages>>,
         \A t \in Rows' : t \in Rows /\ RowOf(t)' = RowOf(t)
  PROVE  /\ NothingLost' /\ (UNCHANGED <<vac, cuts>> => FoldKept')
         /\ Readable' = Readable
<1>1. Readable' = Readable /\ Stored' = Stored /\ Enumerated' = Enumerated
  BY DEF Readable, Stored, Enumerated, Pending, PendingBlocks, Elements, Generation, GenEnd,
         DirectoryBlock
<1>2. NothingLost'
  BY <1>1, LostParts, KeptParts DEF NothingLost, Rows
<1>3. ASSUME UNCHANGED <<vac, cuts>> PROVE FoldKept'
  BY <1>1, <1>3 DEF Kept, FoldKept
<1> QED
  BY <1>1, <1>2, <1>3

\* The rows when the heap is left alone.
LEMMA RowsSame == ASSUME UNCHANGED heap PROVE Rows' = Rows /\ \A t : RowOf(t)' = RowOf(t)
BY DEF Rows, RowOf

LEMMA InitKept == ASSUME Init PROVE Kept
<1>1. Rows = {}
  BY FreshTypes DEF Init, Rows
<1>2. PendingBlocks = {} /\ vac.pc = "idle"
  BY InitFresh, FreshLive DEF Init, NoVacuum
<1> QED
  BY <1>1, <1>2 DEF Kept, NothingLost, Rows, Readable

\* Transactions.
LEMMA InsertKept ==
  ASSUME Inv, Struct', NEW s \in Sessions, NEW t \in Tids, NEW v \in Vectors, Insert(s, t, v)
  PROVE  Kept'
<1>1. /\ Types /\ LiveOK /\ Types' /\ LiveOK' /\ UNCHANGED <<layout, meta, vac, cuts>>
      /\ ~vac.exclusive /\ InsertsPage(t, v)
      /\ heap[t] = Free /\ heap' = [heap EXCEPT ![t] = Tuple("open", v)]
  BY InsertPages DEF Inv, Struct, Insert
<1>2. vac.pc \notin {"write", "reclaim"}
  BY <1>1, VacFacts DEF Types
<1>3. /\ GenEnd' = GenEnd /\ Generation' = Generation /\ GenEnd \in Nat \ {0} /\ Len(pages) \in Nat
      /\ Generation \subseteq 1 .. Len(pages) /\ PendingBlocks = GenEnd .. Len(pages)
      /\ PendingBlocks' = GenEnd .. Len(pages') /\ PendingBlocks \subseteq 1 .. Len(pages)
      /\ \A b \in Generation : b \notin PendingBlocks
  BY <1>1, Ranges DEF GenEnd, Generation, PendingBlocks
<1>4. ASSUME NEW u \in Rows' PROVE RowOf(u)' = Item(t, v) \/ (u \in Rows /\ RowOf(u)' = RowOf(u))
  <2>1. CASE u = t
    BY <1>1, <2>1 DEF RowOf, Item, Tuple, Types
  <2>2. CASE u # t
    BY <1>1, <2>2 DEF RowOf, Rows, Types
  <2> QED
    BY <2>1, <2>2
<1>5. (Readable' => Readable) /\ (Readable => Readable')
      /\ (Readable => \A p : p \in Stored \/ p = Item(t, v) => p \in Stored')
  <2>1. ASSUME NEW b \in Generation, NEW e \in pages[b].items, NEW x \in Page,
               e.deleted, OnePage(b, x), x.kind = pages[b].kind,
               x.items = (pages[b].items \ {e}) \cup {Revived(t, v)}
        PROVE  <1>5
    <3>1. /\ PendingBlocks' = PendingBlocks /\ \A c \in PendingBlocks : pages'[c] = pages[c]
      BY <1>3, <2>1 DEF OnePage
    <3>2. Readable' = Readable
      BY <3>1 DEF Readable
    <3>3. ASSUME NEW c \in Generation, NEW d \in pages[c].items, ~d.deleted
          PROVE  d \in pages'[c].items
      BY <1>3, <2>1, <3>3 DEF OnePage
    <3>4. /\ Revived(t, v) \in pages'[b].items /\ ~Revived(t, v).deleted
          /\ PairOf(Revived(t, v)) = Item(t, v)
      BY <1>3, <2>1 DEF OnePage, Revived, Item, PairOf
    <3>5. \A p : p \in Stored \/ p = Item(t, v) =>
             \/ \E c \in Generation : \E d \in pages'[c].items : ~d.deleted /\ PairOf(d) = p
             \/ \E c \in PendingBlocks' : pages'[c].kind = "pending" /\ p \in pages'[c].items
      BY <1>1, <3>1, <3>3, <3>4, StoredIs DEF Held
    <3> QED
      BY <1>1, <1>3, <3>2, <3>5, StoredIsNext DEF Held
  <2>2. ASSUME NEW x \in Page, Len(pages) \in PendingBlocks, OnePage(Len(pages), x),
               x.kind = pages[Len(pages)].kind,
               x.items = pages[Len(pages)].items \cup {Item(t, v)}
        PROVE  <1>5
    <3>1. /\ PendingBlocks' = PendingBlocks
          /\ \A c \in 1 .. Len(pages) : pages'[c].kind = pages[c].kind /\ pages[c].items \subseteq pages'[c].items
          /\ Item(t, v) \in pages'[Len(pages)].items
      BY <1>3, <2>2 DEF OnePage
    <3>2. Readable' = Readable
      BY <1>3, <3>1 DEF Readable
    <3>3. Readable => pages[Len(pages)].kind = "pending"
      BY <2>2 DEF Readable
    <3>4. ASSUME Readable
          PROVE  \A p : p \in Stored \/ p = Item(t, v) =>
             \/ \E c \in Generation : \E d \in pages'[c].items : ~d.deleted /\ PairOf(d) = p
             \/ \E c \in PendingBlocks' : pages'[c].kind = "pending" /\ p \in pages'[c].items
      BY <1>1, <1>3, <2>2, <3>1, <3>3, <3>4, StoredIs DEF Held
    <3> QED
      BY <1>1, <1>3, <3>2, <3>4, StoredIsNext DEF Held
  <2>3. ASSUME OneMore(PendingPage({Item(t, v)})) PROVE <1>5
    <3>1. /\ \A c \in 1 .. Len(pages) : pages'[c] = pages[c]
          /\ PendingBlocks \subseteq PendingBlocks' /\ Len(pages) + 1 \in PendingBlocks'
          /\ \A c \in PendingBlocks' : c \in PendingBlocks \/ c = Len(pages) + 1
          /\ pages'[Len(pages) + 1].kind = "pending"
          /\ Item(t, v) \in pages'[Len(pages) + 1].items
      <4>1. Len(pages') = Len(pages) + 1 /\ GenEnd <= Len(pages) + 1
        BY <1>1, <1>3, <2>3 DEF OneMore, LiveOK
      <4> QED
        BY <1>3, <2>3, <4>1 DEF OneMore, PendingPage
    <3>2. (Readable' => Readable) /\ (Readable => Readable')
      BY <1>3, <3>1 DEF Readable
    <3>3. \A p : p \in Stored \/ p = Item(t, v) =>
             \/ \E c \in Generation : \E d \in pages'[c].items : ~d.deleted /\ PairOf(d) = p
             \/ \E c \in PendingBlocks' : pages'[c].kind = "pending" /\ p \in pages'[c].items
      BY <1>1, <1>3, <3>1, StoredIs DEF Held
    <3> QED
      BY <1>1, <1>3, <3>2, <3>3, StoredIsNext DEF Held
  <2> QED
    BY <1>1, <2>1, <2>2, <2>3 DEF InsertsPage
<1>6. NothingLost'
  <2> SUFFICES ASSUME Readable', NEW u \in Rows' PROVE RowOf(u)' \in Stored'
    BY DEF NothingLost, Rows
  <2>1. RowOf(u)' = Item(t, v) \/ RowOf(u)' \in Stored
    BY <1>4, <1>5 DEF Inv, Kept, NothingLost, Rows
  <2> QED
    BY <1>5, <2>1
<1>7. FoldKept'
  BY <1>1, <1>2, <1>5 DEF Inv, Kept, FoldKept
<1> QED
  BY <1>6, <1>7 DEF Kept, FoldKept

LEMMA ScanKept == ASSUME Inv, NEW s \in Sessions, Scan(s) PROVE Kept'
<1>1. UNCHANGED <<layout, heap, meta, pages, vac, cuts>>
  BY DEF Scan, index, budgets
<1>2. NothingLost' /\ FoldKept'
  BY <1>1, RowsSame, KeptSame DEF Inv
<1> QED
  BY <1>2 DEF Kept, FoldKept

LEMMA EndKept ==
  ASSUME Inv, NEW s \in Sessions, NEW outcome \in {"live", "dead"}, End(s, outcome) PROVE Kept'
<1>1. /\ UNCHANGED <<layout, meta, pages, vac, cuts>>
      /\ \A t \in Tids : heap'[t] = IF t \in txn[s].rows THEN [heap[t] EXCEPT !.state = outcome]
                                    ELSE heap[t]
  BY DEF End, index, budgets
<1>2. ASSUME NEW t \in Rows' PROVE t \in Rows /\ RowOf(t)' = RowOf(t)
  <2>1. CASE t \in txn[s].rows
    <3>1. t \in Tids /\ heap[t].state = "open" /\ heap'[t] = [heap[t] EXCEPT !.state = outcome]
      BY <1>1, <1>2, <2>1 DEF Rows, Inv, RowsOK
    <3>2. heap[t] # Free
      BY <3>1, NotFree DEF Inv, Struct
    <3>3. heap'[t].vec = heap[t].vec
      BY <3>1, <3>2, HeapStates DEF Inv, Struct
    <3> QED
      BY <3>1, <3>3 DEF Rows, RowOf
  <2>2. CASE t \notin txn[s].rows
    BY <1>1, <1>2, <2>2 DEF Rows, RowOf
  <2> QED
    BY <2>1, <2>2
<1>3. NothingLost' /\ FoldKept'
  BY <1>1, <1>2, KeptSame DEF Inv
<1> QED
  BY <1>3 DEF Kept, FoldKept

LEMMA DeleteKept == ASSUME Inv, NEW t \in Tids, Delete(t) PROVE Kept'
<1>1. /\ UNCHANGED <<layout, meta, pages, vac, cuts>> /\ heap[t].state = "live"
      /\ \A u \in Tids : u # t => heap'[u] = heap[u]
  BY DEF Delete, index, budgets, Inv, Struct, Types
<1>2. heap'[t].state = "dead"
  BY <1>1, HeapStates, NotFree DEF Delete, Inv, Struct, Types
<1>3. \A u \in Rows' : u \in Rows /\ RowOf(u)' = RowOf(u)
  BY <1>1, <1>2 DEF Rows, RowOf
<1>4. NothingLost' /\ FoldKept'
  BY <1>1, <1>3, KeptSame DEF Inv
<1> QED
  BY <1>4 DEF Kept, FoldKept

\* VACUUM, where it writes nothing, and what cuts it short.
LEMMA ReapKept == ASSUME Inv, Reap PROVE Kept'
<1>1. UNCHANGED <<layout, meta, pages, cuts>> /\ vac.pc = "reap" /\ vac'.pc = "idle"
  BY DEF Reap, index, budgets, NoVacuum
<1>2. \A t \in Rows' : t \in Rows /\ RowOf(t)' = RowOf(t)
  BY FreshTypes DEF Reap, Rows, RowOf
<1>3. NothingLost' /\ Readable' = Readable
  BY <1>1, <1>2, KeptSame DEF Inv
<1> QED
  BY <1>1, <1>3 DEF Inv, Kept

LEMMA CrashKept == ASSUME Inv, Crash PROVE Kept'
<1>1. /\ UNCHANGED <<layout, meta, pages>> /\ vac'.pc = "idle" /\ cuts' = cuts + 1 /\ cuts \in Nat
      /\ \A t \in Tids : heap'[t] = IF heap[t].state = "open" THEN [heap[t] EXCEPT !.state = "dead"]
                                    ELSE heap[t]
  BY DEF Crash, index, NoVacuum, Inv, Struct, Types
<1>2. ASSUME NEW t \in Rows' PROVE t \in Rows /\ RowOf(t)' = RowOf(t)
  <2>1. t \in Tids /\ heap'[t].state \in {"open", "live"}
    BY DEF Rows
  <2>2. heap[t].state # "open"
    <3>1. heap[t].state = "open" => heap'[t].state = "dead"
      BY <1>1, <2>1, HeapStates, NotFree DEF Inv, Struct
    <3> QED
      BY <2>1, <3>1
  <2> QED
    BY <1>1, <2>1, <2>2 DEF Rows, RowOf
<1>3. NothingLost'
  BY <1>1, <1>2, KeptSame DEF Inv
<1> QED
  BY <1>1, <1>3 DEF Kept

LEMMA VacuumKept ==
  ASSUME Inv, StartVacuum \/ EndSweep \/ Cleanup \/ CancelVacuum PROVE Kept'
<1>1. UNCHANGED <<layout, heap, meta, pages>>
  BY DEF StartVacuum, EndSweep, Cleanup, CancelVacuum, index
<1>2. NothingLost' /\ Readable' = Readable
  BY <1>1, RowsSame, KeptSame DEF Inv
<1>3. /\ vac'.pc \notin {"write", "reclaim"}
      /\ cuts' = 0 => cuts = 0 /\ vac.pc \notin {"write", "reclaim"}
  <2>1. CASE StartVacuum
    BY <2>1 DEF StartVacuum
  <2>2. CASE EndSweep \/ Cleanup
    BY <2>2, Turns DEF EndSweep, Cleanup, budgets, Inv, Struct, Types
  <2>3. CASE CancelVacuum
    BY <2>3 DEF CancelVacuum, NoVacuum, Inv, Struct, Types
  <2> QED
    BY <2>1, <2>2, <2>3
<1> QED
  BY <1>2, <1>3 DEF Inv, Kept

\* With the last old page emptied the pending region reads again.
LEMMA EndReclaimReads == ASSUME Struct, EndReclaim PROVE Readable
<1>1. /\ Types /\ LiveOK /\ Emptied /\ vac.next > Len(pages)
  BY DEF Struct, FoldOK, EndReclaim
<1>2. Len(pages) \in Nat /\ GenEnd \in Nat \ {0} /\ vac.next \in GenEnd .. Len(pages) + 1
  BY <1>1, Ranges DEF Emptied
<1>3. \A b \in PendingBlocks : b \in GenEnd .. vac.next - 1
  BY <1>1, <1>2 DEF PendingBlocks
<1> QED
  BY <1>1, <1>3, FreshTypes DEF Emptied, Readable

LEMMA EndReclaimKept == ASSUME Inv, EndReclaim PROVE Kept'
<1>1. UNCHANGED <<layout, heap, meta, pages, cuts>>
  BY DEF EndReclaim, index, budgets
<1>2. NothingLost' /\ Readable' = Readable
  BY <1>1, RowsSame, KeptSame DEF Inv
<1>3. Readable /\ vac'.pc = "reap"
  BY EndReclaimReads, Turns DEF Inv, Struct, Types
<1> QED
  BY <1>2, <1>3 DEF Kept

\* The sweep strikes out no row, since what VACUUM has collected is dead.
LEMMA SweepKept == ASSUME Inv, Struct', Sweep PROVE Kept'
<1>1. /\ UNCHANGED <<layout, heap, meta, cuts>> /\ vac.pc = "sweep" /\ vac.next \in Generation
      /\ Types /\ LiveOK /\ Types' /\ LiveOK'
  BY DEF Sweep, budgets, Inv, Struct
<1>2. PICK x \in Page : /\ OnePage(vac.next, x) /\ x.kind = pages[vac.next].kind
                        /\ x.items = {Struck(e) : e \in pages[vac.next].items}
  BY SweepPages DEF Inv
<1>3. vac'.pc = "sweep"
  BY <1>1, Advance DEF Sweep, Types
<1>4. /\ GenEnd' = GenEnd /\ Generation' = Generation
      /\ Generation \subseteq 1 .. Len(pages) /\ PendingBlocks \subseteq 1 .. Len(pages)
      /\ PendingBlocks' = PendingBlocks /\ \A b \in Generation : b \notin PendingBlocks
  <2>1. GenEnd' = GenEnd /\ Generation' = Generation /\ Len(pages') = Len(pages)
    BY <1>1, <1>2 DEF GenEnd, Generation, OnePage
  <2>2. \A b \in Generation : b \notin PendingBlocks
    BY <1>1, Ranges DEF Generation, PendingBlocks
  <2> QED
    BY <1>1, <2>1, <2>2, Ranges DEF PendingBlocks
<1>5. \A c \in PendingBlocks : pages'[c] = pages[c]
  BY <1>1, <1>2, <1>4 DEF OnePage
<1>6. Readable' = Readable
  BY <1>4, <1>5 DEF Readable
<1>7. ASSUME NEW p, Held(p), p.tid \notin vac.dead PROVE Held(p)'
  <2>1. ASSUME NEW b \in Generation, NEW e \in pages[b].items, ~e.deleted, PairOf(e) = p
        PROVE  e \in pages'[b].items
    <3>1. CASE b = vac.next
      <4>1. e \in Element
        BY <1>1 DEF LiveOK, BodyOK
      <4>2. e.tid \notin vac.dead
        BY <1>7, <2>1, <4>1, PairOfTyped
      <4>3. Struck(e) = e
        BY <4>1, <4>2, StruckElement
      <4>4. pages'[b] = x
        BY <1>2, <3>1 DEF OnePage
      <4> QED
        BY <1>2, <2>1, <3>1, <4>3, <4>4
    <3>2. CASE b # vac.next
      BY <1>2, <1>4, <3>2 DEF OnePage
    <3> QED
      BY <3>1, <3>2
  <2> QED
    BY <1>4, <1>5, <1>7, <2>1 DEF Held
<1>8. NothingLost'
  <2> SUFFICES ASSUME Readable', NEW t \in Rows' PROVE RowOf(t)' \in Stored'
    BY DEF NothingLost, Rows
  <2>1. t \in Rows /\ RowOf(t)' = RowOf(t) /\ RowOf(t) \in Stored
    BY <1>1, <1>6, RowsSame DEF Inv, Kept, NothingLost, Rows
  <2>2. RowOf(t).tid = t /\ t \notin vac.dead
    BY <2>1 DEF RowOf, Rows, Inv, RowsOK
  <2>3. Held(RowOf(t))'
    BY <1>1, <1>7, <2>1, <2>2, StoredIs
  <2> QED
    BY <1>1, <2>1, <2>3, StoredIsNext
<1> QED
  BY <1>1, <1>3, <1>6, <1>8 DEF Inv, Kept

LEMMA BeginFoldKept == ASSUME Inv, BeginFold PROVE Kept'
<1>1. UNCHANGED <<layout, heap, txn, meta, pages, cuts>> /\ vac.pc = "lock"
  BY FoldBegins DEF Inv
<1>2. NothingLost' /\ Readable' = Readable
  BY <1>1, RowsSame, KeptSame DEF Inv
<1>3. Rows' = Rows /\ \A t : RowOf(t)' = RowOf(t)
  BY <1>1, RowsSame
<1>4. CASE ~CanFold /\ vac' = [vac EXCEPT !.pc = "reap", !.exclusive = TRUE]
  <2>1. vac'.pc = "reap"
    BY <1>1, <1>4, GiveUp DEF Inv, Struct, Types
  <2> QED
    BY <1>1, <1>2, <2>1 DEF Inv, Kept
<1>5. CASE /\ CanFold /\ Readable
           /\ vac' = [pc |-> "write", dead |-> vac.dead, exclusive |-> TRUE,
                      body |-> vac'.body, base |-> vac'.base, next |-> 1]
           /\ Whole(vac'.body, Survivors)
  <2>1. vac'.pc = "write"
    BY <1>5
  <2>2. ASSUME NEW t \in Rows PROVE RowOf(t) \in Survivors
    <3>1. RowOf(t) \in Stored
      BY <1>5, <2>2 DEF Inv, Kept, NothingLost, Rows
    <3>2. RowOf(t).tid = t /\ t \notin vac.dead
      BY DEF RowOf, Rows, Inv, RowsOK
    <3> QED
      BY <3>1, <3>2 DEF Survivors
  <2>3. \A p \in Survivors : \E i \in 1 .. Len(vac'.body) : \E e \in vac'.body[i].items : PairOf(e) = p
    BY <1>5 DEF Whole
  <2> QED
    BY <1>2, <1>3, <2>1, <2>2, <2>3 DEF Kept
<1>6. CASE CanFold /\ ~Readable /\ vac' = NoVacuum
  <2>1. cuts # 0 /\ vac'.pc = "idle"
    BY <1>1, <1>6 DEF Inv, Kept, NoVacuum
  <2> QED
    BY <1>1, <1>2, <2>1 DEF Kept
<1> QED
  BY <1>4, <1>5, <1>6, FoldBegins DEF Inv

\* Until the pivot a reader finds what it found before, or an index that does not read.
LEMMA WritePageKept == ASSUME Inv, Struct', WritePage PROVE Kept'
<1>1. /\ UNCHANGED <<layout, heap, meta, cuts>> /\ vac.pc = "write" /\ Types /\ LiveOK /\ Placed
      /\ vac.next \in 1 .. Len(vac.body) /\ Types' /\ LiveOK'
  BY WritePages DEF Inv, Struct, FoldOK
<1>2. /\ vac'.pc = "write" /\ vac'.body = vac.body
  BY <1>1, Advance DEF WritePage, Types
<1>3. /\ GenEnd' = GenEnd /\ Generation' = Generation /\ GenEnd \in Nat /\ Len(pages) \in Nat
      /\ Generation \subseteq 1 .. Len(pages) /\ PendingBlocks \subseteq 1 .. Len(pages)
  BY <1>1, Ranges DEF GenEnd, Generation
<1>4. CASE /\ vac.base + vac.next - 1 \in 1 .. Len(pages)
           /\ vac.base + Len(vac.body) <= meta.first
           /\ OnePage(vac.base + vac.next - 1, vac.body[vac.next])
  <2> DEFINE b == vac.base + vac.next - 1
  <2>1. b \notin Generation /\ b \notin PendingBlocks
    <3>1. vac.base \in Nat /\ Len(vac.body) \in Nat
      BY <1>1, FoldFacts DEF Types
    <3>2. b < vac.base + Len(vac.body)
      BY <1>1, <3>1, Blocks
    <3>3. meta.first \in Nat /\ meta.first <= GenEnd
      BY <1>1, Ranges
    <3> HIDE DEF b
    <3>4. b \in Nat /\ b < meta.first
      BY <1>4, <3>1, <3>2, <3>3 DEF b
    <3> QED
      BY <1>3, <3>3, <3>4 DEF Generation, PendingBlocks
  <2> HIDE DEF b
  <2>2. /\ PendingBlocks' = PendingBlocks
        /\ \A c \in Generation \cup PendingBlocks : pages'[c] = pages[c]
    BY <1>3, <1>4, <2>1 DEF b, OnePage, PendingBlocks
  <2>3. Readable' = Readable /\ \A p : Held(p)' <=> Held(p)
    BY <1>3, <2>2 DEF Readable, Held
  <2>4. NothingLost'
    <3> SUFFICES ASSUME Readable', NEW t \in Rows' PROVE RowOf(t)' \in Stored'
      BY DEF NothingLost, Rows
    <3>1. t \in Rows /\ RowOf(t)' = RowOf(t) /\ RowOf(t) \in Stored
      BY <1>1, <2>3, RowsSame DEF Inv, Kept, NothingLost, Rows
    <3> QED
      BY <1>1, <2>3, <3>1, StoredIs, StoredIsNext
  <2> QED
    BY <1>1, <1>2, <2>4, RowsSame DEF Inv, Kept
<1>5. CASE /\ vac.base + vac.next - 1 = Len(pages) + 1 /\ vac.base >= GenEnd
           /\ OneMore(vac.body[vac.next])
  <2>1. Len(pages') = Len(pages) + 1 /\ pages'[Len(pages) + 1] = vac.body[vac.next]
    BY <1>5 DEF OneMore
  <2>2. vac.body[vac.next].kind # "pending"
    BY <1>1 DEF Placed, BodyOK
  <2>3. Len(pages) + 1 \in PendingBlocks'
    <3>1. GenEnd <= Len(pages) + 1
      BY <1>1, <1>3 DEF LiveOK
    <3> QED
      BY <1>3, <2>1, <3>1 DEF PendingBlocks
  <2>4. ~Readable'
    BY <2>1, <2>2, <2>3 DEF Readable
  <2> QED
    BY <1>1, <1>2, <2>4, RowsSame DEF Inv, Kept, NothingLost
<1> QED
  BY <1>4, <1>5, WritePages DEF Inv

\* The pivot turns what was packed into what is live.
LEMMA PivotKept == ASSUME Inv, Struct', Pivot PROVE Kept'
<1>1. /\ UNCHANGED <<layout, heap, txn, pages, cuts>> /\ vac.pc = "write" /\ vac'.pc = "reclaim"
      /\ Generation' = {vac.base + i - 1 : i \in 1 .. Len(vac.body)}
      /\ \A i \in 1 .. Len(vac.body) : pages'[vac.base + i - 1] = vac.body[i]
      /\ Types' /\ LiveOK' /\ Placed
  BY Pivoted DEF Inv, Struct, FoldOK
<1>2. (Types /\ LiveOK =>
         \A p : p \in Enumerated <=>
                  \E b \in Generation : \E e \in pages[b].items : ~e.deleted /\ PairOf(e) = p)'
  BY EnumeratedIs, PTL
<1>3. ASSUME NEW t \in Rows' PROVE RowOf(t)' \in Enumerated'
  <2>1. t \in Rows /\ RowOf(t)' = RowOf(t)
    BY <1>1, RowsSame
  <2>2. PICK i \in 1 .. Len(vac.body) : \E e \in vac.body[i].items : PairOf(e) = RowOf(t)
    BY <1>1, <2>1 DEF Inv, Kept
  <2>3. PICK e \in vac.body[i].items : PairOf(e) = RowOf(t)
    BY <2>2
  <2>4. ~e.deleted
    BY <1>1 DEF Placed
  <2>5. vac.base + i - 1 \in Generation' /\ e \in pages'[vac.base + i - 1].items
    BY <1>1
  <2> QED
    BY <1>1, <1>2, <2>1, <2>3, <2>4, <2>5
<1>4. NothingLost'
  BY <1>3 DEF NothingLost, Stored, Rows
<1> QED
  BY <1>1, <1>3, <1>4 DEF Kept

LEMMA ReclaimKept == ASSUME Inv, Struct', Reclaim PROVE Kept'
<1>1. /\ UNCHANGED <<layout, heap, txn, meta, cuts>> /\ vac.pc = "reclaim" /\ vac'.pc = "reclaim"
      /\ vac.next \in PendingBlocks /\ OnePage(vac.next, Empty) /\ Types /\ LiveOK
      /\ Types' /\ LiveOK'
  BY Reclaims DEF Inv, Struct
<1>2. Generation' = Generation /\ \A c \in Generation : pages'[c] = pages[c]
  <2>1. Generation' = Generation
    BY <1>1 DEF Generation, GenEnd
  <2>2. Generation \subseteq 1 .. Len(pages) /\ vac.next \notin Generation
    BY <1>1, Ranges DEF Generation, PendingBlocks
  <2> QED
    BY <1>1, <2>1, <2>2 DEF OnePage
<1>3. (Types /\ LiveOK =>
         \A p : p \in Enumerated <=>
                  \E b \in Generation : \E e \in pages[b].items : ~e.deleted /\ PairOf(e) = p)'
  BY EnumeratedIs, PTL
<1>4. \A p : p \in Enumerated' <=> p \in Enumerated
  BY <1>1, <1>2, <1>3, EnumeratedIs
<1>5. ASSUME NEW t \in Rows' PROVE RowOf(t)' \in Enumerated'
  BY <1>1, <1>4, RowsSame DEF Inv, Kept
<1>6. NothingLost'
  BY <1>5 DEF NothingLost, Stored, Rows
<1> QED
  BY <1>1, <1>5, <1>6 DEF Kept

\* REINDEX finds no open row, since whoever inserted one shares the lock.
LEMMA ReindexKept == ASSUME Inv, Struct', Reindex PROVE Kept'
<1>1. UNCHANGED <<layout, heap, txn, vac, cuts>> /\ vac.pc = "idle" /\ NobodyShares /\ Fresh' /\ Types'
  BY Reindexed DEF Inv, Struct
<1>2. (Fresh /\ Types => \A p : p \in Stored <=> p \in Visible)'
  BY FreshHolds, PTL
<1>3. (Fresh => /\ LiveOK /\ pages \in Seq(Page) /\ meta \in [first : Nat \ {0}, npages : Nat]
                /\ PendingBlocks = {} /\ Generation = 1 .. Len(pages))'
  BY FreshLive, PTL
<1>4. Readable'
  BY <1>1, <1>3 DEF Readable
<1>5. ASSUME NEW t \in Rows PROVE heap[t].state = "live"
  BY <1>1 DEF Rows, NobodyShares, Inv, RowsOK
<1>6. ASSUME NEW t \in Rows PROVE RowOf(t) \in Visible
  BY <1>5 DEF Visible, RowOf, Rows
<1>7. Visible' = Visible /\ Rows' = Rows /\ \A t : RowOf(t)' = RowOf(t)
  BY <1>1, RowsSame DEF Visible
<1>8. NothingLost'
  BY <1>1, <1>2, <1>6, <1>7 DEF NothingLost, Rows
<1> QED
  BY <1>1, <1>4, <1>8 DEF Kept

LEMMA KeptStep == ASSUME Inv, Next, Struct' PROVE Kept'
<1>1. CASE Vacuum
  BY <1>1, VacuumKept, SweepKept, BeginFoldKept, WritePageKept, PivotKept, ReclaimKept,
     EndReclaimKept, ReapKept DEF Vacuum
<1> QED
  BY <1>1, InsertKept, ScanKept, EndKept, DeleteKept, CrashKept, ReindexKept DEF Next

LEMMA InvStutter == ASSUME Inv, UNCHANGED vars PROVE Inv'
<1>1. UNCHANGED <<layout, heap, txn, meta, pages, vac, cuts>>
  BY DEF vars
<1>2. Struct'
  BY <1>1, SameIndex DEF Inv, Struct, Types, LockOK, NobodyShares
<1>3. RowsOK'
  BY <1>1 DEF Inv, RowsOK
<1>4. NothingLost' /\ FoldKept'
  BY <1>1, RowsSame, KeptSame DEF Inv
<1> QED
  BY <1>2, <1>3, <1>4 DEF Inv, Kept, FoldKept

LEMMA Invariance == Spec => []Inv
<1>1. Init => Inv
  BY InitFresh, InitRows, InitKept DEF Inv
<1>2. Inv /\ [Next]_vars => Inv'
  BY InvStutter, StructStep, RowsStep, KeptStep DEF Inv
<1> QED
  BY <1>1, <1>2, PTL DEF Spec

\* The types: in particular the live generation always lies in the file and is made of
\* elements alone, and only VACUUM's rebuild holds the exclusive lock of lock.rs, with
\* nobody sharing it.
THEOREM TypeCorrect == Spec => []TypeOK
<1>1. Inv => TypeOK
  <2> SUFFICES ASSUME Inv PROVE TypeOK
    OBVIOUS
  <2>1. Types /\ LiveOK /\ LockOK
    BY DEF Inv, Struct
  <2>2. /\ vac.pc \in {"idle", "sweep", "cleanup", "lock", "write", "reclaim", "reap"}
        /\ vac.dead \subseteq Tids
    BY <2>1, VacFacts DEF Types
  <2> QED
    BY <2>1, <2>2 DEF TypeOK, Types, LiveOK, LockOK, BodyOK
<1> QED
  BY <1>1, Invariance, PTL

\* No row is lost while the index reads (vacuum_rebuild, pivot_meta_page, insert_inplace,
\* append_pending): through every INSERT, sweep and fold, and wherever a crash or a cancel
\* cuts VACUUM short.
THEOREM RowsAreStored == Spec => []NothingLost
<1>1. Inv => NothingLost
  BY DEF Inv, Kept
<1> QED
  BY <1>1, Invariance, PTL

\* read_pending refuses the index only after a fold that was cut: as long as nothing
\* crashes and nothing is cancelled, a fold that has ended leaves an index that reads.
THEOREM LoudAfterCut == Spec => []LoudOnlyAfterCut
<1>1. Inv => LoudOnlyAfterCut
  <2> SUFFICES ASSUME Inv, cuts = 0, ~vac.exclusive PROVE Readable
    BY DEF LoudOnlyAfterCut
  <2>1. vac.pc \notin {"write", "reclaim"}
    BY VacFacts DEF Inv, Struct, Types
  <2> QED
    BY <2>1 DEF Inv, Kept
<1> QED
  BY <1>1, Invariance, PTL

-----------------------------------------------------------------------------
(* An ivf index: a row is ranked by its own vector.                        *)

\* The index stays below the cap above which VACUUM skips the fold.
UnderCap == FoldCap = 0 \/ Len(pages) < FoldCap

\* Entries and their tuples, when tuples change their state alone.
LEMMA OwnKept ==
  ASSUME NEW p, OwnVector(p), heap'[p.tid] # Free, heap'[p.tid].vec = heap[p.tid].vec
  PROVE  OwnVector(p)'
BY DEF OwnVector, RowOf

\* The entries that IvfOK speaks of are pairs.
LEMMA EntriesTyped ==
  ASSUME Struct
  PROVE  /\ Stored \subseteq Pair /\ Enumerated \subseteq Stored
         /\ \A b \in 1 .. Len(pages) : pages[b].kind = "pending" => pages[b].items \subseteq Pair
         /\ vac.pc = "write" =>
              \A i \in 1 .. Len(vac.body) : \A e \in vac.body[i].items : PairOf(e) \in Pair
<1>1. Stored \subseteq Pair /\ Enumerated \subseteq Stored
  BY StoredFinite DEF Struct, Stored
<1>2. \A b \in 1 .. Len(pages) : pages[b].kind = "pending" => pages[b].items \subseteq Pair
  BY Ranges, PageTypes DEF Struct
<1>3. ASSUME vac.pc = "write", NEW i \in 1 .. Len(vac.body), NEW e \in vac.body[i].items
      PROVE  PairOf(e) \in Pair
  <2>1. e \in Element
    BY <1>3 DEF Struct, FoldOK, Placed, BodyOK
  <2> QED
    BY <2>1, PairOfTyped
<1> QED
  BY <1>1, <1>2, <1>3

\* An index that reads while its old pages are emptied has nothing of them but own vectors.
Exposed == /\ Struct /\ vac.pc = "reclaim" /\ TailOK /\ Readable
           /\ \A p \in Enumerated : OwnVector(p)

LEMMA ReclaimOwn == Exposed => \A p \in Stored : OwnVector(p)
<1> SUFFICES ASSUME Struct, vac.pc = "reclaim", TailOK, \A p \in Enumerated : OwnVector(p), Readable
             PROVE  \A p \in Stored : OwnVector(p)
  BY DEF Exposed
<1>1. /\ vac.next \in GenEnd .. Len(pages) + 1 /\ \A b \in GenEnd .. vac.next - 1 : pages[b] = Empty
      /\ GenEnd \in Nat \ {0} /\ Len(pages) \in Nat
  BY Ranges DEF Struct, FoldOK, Emptied
<1>2. ASSUME NEW b \in PendingBlocks, NEW p \in pages[b].items PROVE OwnVector(p)
  <2>1. CASE b \in GenEnd .. vac.next - 1
    BY <1>1, <1>2, <2>1, FreshTypes
  <2>2. CASE b \in vac.next .. Len(pages)
    <3>1. \A c \in b .. Len(pages) : c \in PendingBlocks
      BY <1>1, <2>2 DEF PendingBlocks
    <3>2. \A c \in b .. Len(pages) : pages[c].kind = "pending"
      BY <3>1 DEF Readable
    <3> QED
      BY <1>2, <2>2, <3>2 DEF TailOK
  <2>3. b \in GenEnd .. vac.next - 1 \/ b \in vac.next .. Len(pages)
    BY <1>1 DEF PendingBlocks
  <2> QED
    BY <2>1, <2>2, <2>3
<1> QED
  BY <1>2 DEF Stored, Pending

LEMMA ReclaimOwnNext ==
  ASSUME Struct', vac'.pc = "reclaim", TailOK', Readable', \A p \in Enumerated' : OwnVector(p)'
  PROVE  \A p \in Stored' : OwnVector(p)'
<1>1. (Exposed => \A p \in Stored : OwnVector(p))'
  BY ReclaimOwn, PTL
<1> QED
  BY <1>1 DEF Exposed

\* Steps that leave the index alone and change of the tuples in use the state at most.
LEMMA IvfSame ==
  ASSUME Struct, IvfOK, UNCHANGED <<layout, meta, pages>>,
         \A t \in Tids : heap[t] # Free => heap'[t] # Free /\ heap'[t].vec = heap[t].vec
  PROVE  /\ layout = "ivf" => ((Readable => \A p \in Stored : OwnVector(p)))'
         /\ UNCHANGED vac => IvfOK'
<1>1. /\ Readable' = Readable /\ Stored' = Stored /\ Enumerated' = Enumerated
  BY DEF Readable, Stored, Enumerated, Pending, PendingBlocks, Elements, Generation, GenEnd,
         DirectoryBlock
<1>2. \A p \in Pair : OwnVector(p) => OwnVector(p)'
  <2> TAKE p \in Pair
  <2> HAVE OwnVector(p)
  <2>1. p.tid \in Tids /\ heap[p.tid] # Free
    BY DEF Pair, OwnVector
  <2> QED
    BY <2>1, OwnKept
<1>3. layout = "ivf" => ((Readable => \A p \in Stored : OwnVector(p)))'
  BY <1>1, <1>2, EntriesTyped DEF IvfOK
<1>4. ASSUME UNCHANGED vac, layout = "ivf"
      PROVE  /\ vac.pc = "write" =>
                   /\ \A i \in 1 .. Len(vac.body) : \A e \in vac.body[i].items :
                        OwnVector(PairOf(e))' /\ e.tid \notin vac.dead
                   /\ vac.base + Len(vac.body) <= meta.first => Readable
             /\ vac.pc = "reclaim" =>
                   \A p \in Enumerated : OwnVector(p)' /\ p.tid \notin vac.dead
  BY <1>2, <1>4, EntriesTyped DEF IvfOK
<1>5. ASSUME layout = "ivf", vac.pc = "reclaim", UNCHANGED vac PROVE TailOK'
  <2> SUFFICES ASSUME NEW b \in vac.next .. Len(pages),
                      \A c \in b .. Len(pages) : pages[c].kind = "pending",
                      NEW p \in pages[b].items
               PROVE  OwnVector(p)'
    BY <1>5 DEF TailOK
  <2>1. b \in 1 .. Len(pages) /\ b \in b .. Len(pages)
    <3>1. vac.next \in Nat /\ vac.next \in GenEnd .. Len(pages) + 1 /\ GenEnd \in Nat \ {0} /\ Len(pages) \in Nat
      BY <1>5, FoldFacts, Ranges DEF Struct, FoldOK, Emptied, Types
    <3> QED
      BY <3>1
  <2>2. p \in Pair
    BY <2>1, EntriesTyped
  <2>3. OwnVector(p)
    BY <1>5 DEF IvfOK, TailOK
  <2> QED
    BY <1>2, <2>2, <2>3
<1>6. ASSUME UNCHANGED vac PROVE IvfOK'
  BY <1>1, <1>3, <1>4, <1>5, <1>6 DEF IvfOK
<1> QED
  BY <1>3, <1>6

LEMMA IvfInit == ASSUME Init PROVE IvfOK
<1>1. vac.pc = "idle" /\ Stored = {}
  <2>1. Fresh /\ Types
    BY InitFresh
  <2>2. Visible = {}
    BY FreshTypes DEF Init, Visible
  <2> QED
    BY <2>1, <2>2, FreshHolds DEF Init, NoVacuum
<1> QED
  BY <1>1 DEF IvfOK

LEMMA IvfTransactions ==
  ASSUME Inv, IvfOK,
         \/ \E s \in Sessions : Scan(s) \/ \E outcome \in {"live", "dead"} : End(s, outcome)
         \/ \E t \in Tids : Delete(t)
         \/ UNCHANGED vars
  PROVE  IvfOK'
<1>1. UNCHANGED <<layout, meta, pages, vac>>
  BY DEF Scan, End, Delete, index, budgets, vars
<1>2. \A t \in Tids : heap[t] # Free => heap'[t] # Free /\ heap'[t].vec = heap[t].vec
  <2>1. ASSUME NEW s \in Sessions, Scan(s) \/ UNCHANGED vars PROVE <1>2
    BY <2>1 DEF Scan, vars
  <2>2. ASSUME NEW s \in Sessions, NEW outcome \in {"live", "dead"}, End(s, outcome) PROVE <1>2
    <3> SUFFICES ASSUME NEW t \in Tids, heap[t] # Free
                 PROVE  heap'[t] # Free /\ heap'[t].vec = heap[t].vec
      OBVIOUS
    <3>1. heap'[t] = [heap[t] EXCEPT !.state = outcome] \/ heap'[t] = heap[t]
      BY <2>2 DEF End
    <3> QED
      BY <3>1, HeapStates, FreshTypes, ZenonT(40) DEF Inv, Struct
  <2>3. ASSUME NEW u \in Tids, Delete(u) PROVE <1>2
    <3> SUFFICES ASSUME NEW t \in Tids, heap[t] # Free
                 PROVE  heap'[t] # Free /\ heap'[t].vec = heap[t].vec
      OBVIOUS
    <3>1. heap'[t] = [heap[t] EXCEPT !.state = "dead"] \/ heap'[t] = heap[t]
      BY <2>3 DEF Delete, Inv, Struct, Types
    <3> QED
      BY <3>1, HeapStates, FreshTypes DEF Inv, Struct
  <2>4. UNCHANGED vars => UNCHANGED heap
    BY DEF vars
  <2> QED
    BY <2>1, <2>2, <2>3, <2>4
<1> QED
  BY <1>1, <1>2, IvfSame DEF Inv

LEMMA IvfCut ==
  ASSUME Inv, IvfOK, Crash \/ CancelVacuum
  PROVE  IvfOK'
<1>1. UNCHANGED <<layout, meta, pages>> /\ vac'.pc = "idle"
  BY DEF Crash, CancelVacuum, index, NoVacuum
<1>2. \A t \in Tids : heap[t] # Free => heap'[t] # Free /\ heap'[t].vec = heap[t].vec
  <2>1. CASE Crash
    <3> SUFFICES ASSUME NEW t \in Tids, heap[t] # Free
                 PROVE  heap'[t] # Free /\ heap'[t].vec = heap[t].vec
      OBVIOUS
    <3>1. heap'[t] = [heap[t] EXCEPT !.state = "dead"] \/ heap'[t] = heap[t]
      BY <2>1 DEF Crash
    <3> QED
      BY <3>1, HeapStates, FreshTypes DEF Inv, Struct
  <2> QED
    BY <2>1 DEF CancelVacuum
<1> QED
  BY <1>1, <1>2, IvfSame DEF Inv, IvfOK

\* INSERT: the tuple was free, so nothing in the index named it.
LEMMA IvfInsert ==
  ASSUME Inv, Struct', IvfOK, NEW s \in Sessions, NEW t \in Tids, NEW v \in Vectors, Insert(s, t, v)
  PROVE  IvfOK'
<1> SUFFICES ASSUME layout = "ivf" PROVE IvfOK'
  BY DEF IvfOK, Insert
<1>1. /\ Types /\ LiveOK /\ Types' /\ LiveOK' /\ UNCHANGED <<layout, meta, vac>>
      /\ ~vac.exclusive /\ InsertsPage(t, v)
      /\ heap[t] = Free /\ heap' = [heap EXCEPT ![t] = Tuple("open", v)]
  BY InsertPages DEF Inv, Struct, Insert
<1>2. vac.pc \notin {"write", "reclaim"}
  BY <1>1, VacFacts DEF Types
<1>3. /\ GenEnd' = GenEnd /\ Generation' = Generation /\ GenEnd \in Nat \ {0} /\ Len(pages) \in Nat
      /\ Generation \subseteq 1 .. Len(pages) /\ PendingBlocks = GenEnd .. Len(pages)
      /\ PendingBlocks' = GenEnd .. Len(pages') /\ PendingBlocks \subseteq 1 .. Len(pages)
      /\ \A b \in Generation : b \notin PendingBlocks
  BY <1>1, Ranges DEF GenEnd, Generation, PendingBlocks
<1>4. (Readable' => Readable) /\ \A p : Held(p)' => Held(p) \/ p = Item(t, v)
  <2>1. /\ \A c \in Generation : pages'[c] = pages[c]
        /\ \A c \in PendingBlocks : /\ c \in PendingBlocks' /\ pages'[c].kind = pages[c].kind
                                    /\ pages'[c].items \subseteq pages[c].items \cup {Item(t, v)}
        /\ \A c \in PendingBlocks' \ PendingBlocks : pages'[c].items = {Item(t, v)}
    <3>1. ASSUME NEW x \in Page, Len(pages) \in PendingBlocks, OnePage(Len(pages), x),
                 x.kind = pages[Len(pages)].kind,
                 x.items = pages[Len(pages)].items \cup {Item(t, v)}
          PROVE  <2>1
      BY <1>3, <3>1 DEF OnePage
    <3>2. ASSUME OneMore(PendingPage({Item(t, v)})) PROVE <2>1
      BY <1>3, <3>2 DEF OneMore, PendingPage
    <3> QED
      BY <1>1, <3>1, <3>2 DEF InsertsPage
  <2> QED
    BY <1>3, <2>1 DEF Readable, Held
<1>5. ASSUME Readable', NEW p \in Stored' PROVE OwnVector(p)'
  <2>1. Held(p) \/ p = Item(t, v)
    BY <1>1, <1>4, <1>5, StoredIsNext
  <2>2. CASE p = Item(t, v)
    BY <1>1, <2>2, FreshTypes DEF OwnVector, RowOf, Item, Tuple, Free, Types
  <2>3. CASE Held(p)
    <3>1. p \in Stored /\ OwnVector(p) /\ p \in Pair
      BY <1>1, <1>4, <1>5, <2>3, StoredIs, EntriesTyped DEF IvfOK, Inv
    <3>2. p.tid # t /\ p.tid \in Tids
      BY <1>1, <3>1 DEF OwnVector, Pair
    <3>3. heap'[p.tid] = heap[p.tid] /\ heap[p.tid] # Free
      BY <1>1, <3>1, <3>2 DEF OwnVector, Types
    <3> QED
      BY <3>1, <3>3, OwnKept
  <2> QED
    BY <2>1, <2>2, <2>3
<1>6. vac.pc = "reap" => vac.dead = {}
  BY <1>1 DEF IvfOK
<1> QED
  BY <1>1, <1>2, <1>5, <1>6 DEF IvfOK

\* VACUUM of an ivf never sweeps; with dead tuples it goes straight for the fold.
LEMMA IvfVacuum ==
  ASSUME Inv, IvfOK, StartVacuum \/ Sweep \/ EndSweep \/ Cleanup
  PROVE  IvfOK'
<1> SUFFICES ASSUME layout = "ivf" PROVE IvfOK'
  BY DEF IvfOK, StartVacuum, Sweep, EndSweep, Cleanup
<1>1. ~Sweep /\ ~EndSweep
  BY DEF IvfOK, Sweep, EndSweep
<1>2. UNCHANGED <<layout, heap, meta, pages>>
  BY <1>1 DEF StartVacuum, Cleanup, index
<1>3. (Readable => \A p \in Stored : OwnVector(p))'
  BY <1>2, IvfSame DEF Inv
<1>4. CASE StartVacuum
  <2>1. vac'.pc = (IF vac'.dead = {} THEN "cleanup" ELSE "lock")
    BY <1>4 DEF StartVacuum
  <2> QED
    BY <1>3, <2>1 DEF IvfOK
<1>5. CASE Cleanup
  <2>1. vac'.dead = {} /\ vac'.pc \in {"lock", "reap"}
    BY <1>5, Turns DEF IvfOK, Cleanup, Inv, Struct, Types
  <2> QED
    BY <1>3, <2>1 DEF IvfOK
<1> QED
  BY <1>1, <1>4, <1>5

LEMMA IvfBeginFold == ASSUME Inv, IvfOK, UnderCap, BeginFold PROVE IvfOK'
<1> SUFFICES ASSUME layout = "ivf" PROVE IvfOK'
  BY DEF IvfOK, BeginFold
<1>1. UNCHANGED <<layout, heap, txn, meta, pages, cuts>> /\ CanFold
  BY FoldBegins DEF Inv, CanFold, UnderCap
<1>2. (Readable => \A p \in Stored : OwnVector(p))' /\ Readable' = Readable
  BY <1>1, IvfSame DEF Inv, Readable, PendingBlocks, GenEnd
<1>3. CASE vac' = NoVacuum
  <2>1. vac'.pc = "idle"
    BY <1>3 DEF NoVacuum
  <2> QED
    BY <1>2, <2>1 DEF IvfOK
<1>4. CASE /\ Readable
           /\ vac' = [pc |-> "write", dead |-> vac.dead, exclusive |-> TRUE,
                      body |-> vac'.body, base |-> vac'.base, next |-> 1]
           /\ Whole(vac'.body, Survivors)
  <2>1. vac'.pc = "write" /\ vac'.dead = vac.dead
    BY <1>4
  <2>2. ASSUME NEW i \in 1 .. Len(vac'.body), NEW e \in vac'.body[i].items
        PROVE  OwnVector(PairOf(e))' /\ e.tid \notin vac.dead
    <3>1. PairOf(e) \in Survivors
      BY <1>4 DEF Whole
    <3>2. PairOf(e) \in Stored /\ PairOf(e).tid \notin vac.dead
      BY <3>1 DEF Survivors
    <3>3. OwnVector(PairOf(e)) /\ PairOf(e).tid = e.tid
      BY <1>4, <3>2 DEF IvfOK, PairOf
    <3> QED
      BY <1>1, <3>2, <3>3 DEF OwnVector, RowOf
  <2> QED
    BY <1>2, <1>4, <2>1, <2>2 DEF IvfOK
<1> QED
  BY <1>1, <1>3, <1>4, FoldBegins DEF Inv

LEMMA IvfWritePage == ASSUME Inv, Struct', IvfOK, WritePage PROVE IvfOK'
<1> SUFFICES ASSUME layout = "ivf" PROVE IvfOK'
  BY DEF IvfOK, WritePage
<1>1. /\ UNCHANGED <<layout, heap, meta, cuts>> /\ vac.pc = "write" /\ Types /\ LiveOK /\ Placed
      /\ vac.next \in 1 .. Len(vac.body) /\ Types' /\ LiveOK'
  BY WritePages DEF Inv, Struct, FoldOK
<1>2. vac'.pc = "write" /\ vac'.body = vac.body /\ vac'.base = vac.base /\ vac'.dead = vac.dead
  BY <1>1, Advance DEF WritePage, Types
<1>3. \A p : OwnVector(p)' = OwnVector(p)
  BY <1>1 DEF OwnVector, RowOf
<1>4. /\ GenEnd' = GenEnd /\ Generation' = Generation /\ GenEnd \in Nat \ {0} /\ Len(pages) \in Nat
      /\ Generation \subseteq 1 .. Len(pages) /\ PendingBlocks \subseteq 1 .. Len(pages)
      /\ vac.base \in Nat \ {0} /\ Len(vac.body) \in Nat /\ GenEnd - 1 <= Len(pages)
      /\ meta.first \in Nat \ {0} /\ meta.first <= GenEnd
  BY <1>1, Ranges, FoldFacts DEF GenEnd, Generation, Types, LiveOK
<1>5. CASE /\ vac.base + vac.next - 1 \in 1 .. Len(pages)
           /\ vac.base + Len(vac.body) <= meta.first
           /\ OnePage(vac.base + vac.next - 1, vac.body[vac.next])
  <2> DEFINE b == vac.base + vac.next - 1
  <2>1. b \notin Generation /\ b \notin PendingBlocks
    <3>1. b < vac.base + Len(vac.body)
      BY <1>1, <1>4, Blocks
    <3> HIDE DEF b
    <3>2. b \in Nat /\ b < meta.first
      BY <1>4, <1>5, <3>1 DEF b
    <3> QED
      BY <1>4, <3>2 DEF Generation, PendingBlocks
  <2> HIDE DEF b
  <2>2. /\ PendingBlocks' = PendingBlocks
        /\ \A c \in Generation \cup PendingBlocks : pages'[c] = pages[c]
    BY <1>4, <1>5, <2>1 DEF b, OnePage, PendingBlocks
  <2>3. Readable' = Readable /\ \A p : Held(p)' <=> Held(p)
    BY <1>4, <2>2 DEF Readable, Held
  <2>4. \A p : p \in Stored' <=> p \in Stored
    BY <1>1, <2>3, StoredIs, StoredIsNext
  <2> QED
    BY <1>1, <1>2, <1>3, <2>3, <2>4 DEF IvfOK
<1>6. CASE /\ vac.base + vac.next - 1 = Len(pages) + 1 /\ vac.base >= GenEnd
           /\ OneMore(vac.body[vac.next])
  <2>1. ~Readable'
    <3>1. Len(pages') = Len(pages) + 1 /\ pages'[Len(pages) + 1] = vac.body[vac.next]
      BY <1>6 DEF OneMore
    <3>2. vac.body[vac.next].kind # "pending"
      BY <1>1 DEF Placed, BodyOK
    <3>3. Len(pages) + 1 \in PendingBlocks'
      BY <1>4, <3>1 DEF PendingBlocks
    <3> QED
      BY <3>1, <3>2, <3>3 DEF Readable
  <2>2. ~(vac.base + Len(vac.body) <= meta.first)
    <3>1. Len(vac.body) > 0
      BY <1>1, <1>4
    <3> QED
      BY <1>4, <1>6, <3>1
  <2> QED
    BY <1>1, <1>2, <1>3, <2>1, <2>2 DEF IvfOK
<1> QED
  BY <1>5, <1>6, WritePages DEF Inv

\* The pivot: behind the new generation, what still passes for pending items is the old
\* pending region, since the old generation lies in front of it.
LEMMA IvfPivot == ASSUME Inv, Struct', IvfOK, Pivot PROVE IvfOK'
<1> SUFFICES ASSUME layout = "ivf" PROVE IvfOK'
  BY DEF IvfOK, Pivot
<1>1. /\ UNCHANGED <<layout, heap, txn, pages, cuts>> /\ vac.pc = "write" /\ vac'.pc = "reclaim"
      /\ vac'.next = GenEnd' /\ vac'.dead = vac.dead
      /\ Generation' = {vac.base + i - 1 : i \in 1 .. Len(vac.body)}
      /\ \A i \in 1 .. Len(vac.body) : pages'[vac.base + i - 1] = vac.body[i]
      /\ Types /\ LiveOK /\ Types' /\ LiveOK' /\ Placed
  BY Pivoted DEF Inv, Struct, FoldOK
<1>2. (Types /\ LiveOK =>
         \A p : p \in Enumerated <=>
                  \E b \in Generation : \E e \in pages[b].items : ~e.deleted /\ PairOf(e) = p)'
  BY EnumeratedIs, PTL
<1>3. \A p : OwnVector(p)' = OwnVector(p)
  BY <1>1 DEF OwnVector, RowOf
<1>4. ASSUME NEW p \in Enumerated' PROVE OwnVector(p) /\ p.tid \notin vac.dead
  <2>1. PICK b \in Generation' : \E e \in pages'[b].items : ~e.deleted /\ PairOf(e) = p
    BY <1>1, <1>2
  <2>2. PICK e \in pages'[b].items : PairOf(e) = p
    BY <2>1
  <2>3. PICK i \in 1 .. Len(vac.body) : b = vac.base + i - 1
    BY <1>1
  <2>4. e \in vac.body[i].items
    BY <1>1, <2>2, <2>3
  <2> QED
    BY <1>1, <2>2, <2>4 DEF IvfOK, PairOf
<1>5. /\ vac.base \in Nat \ {0} /\ Len(vac.body) \in Nat /\ GenEnd' = vac.base + Len(vac.body)
      /\ meta.first \in Nat \ {0} /\ meta.npages \in Nat /\ meta.npages > 0
      /\ GenEnd = meta.first + meta.npages /\ Len(pages) \in Nat /\ GenEnd - 1 <= Len(pages)
  <2>1. GenEnd' = vac.base + Len(vac.body)
    <3>1. meta'.first = vac.base /\ meta'.npages = Len(vac.body)
      BY DEF Pivot
    <3> QED
      BY <3>1 DEF GenEnd
  <2> QED
    BY <1>1, <2>1, Ranges, FoldFacts DEF Types, LiveOK
<1>6. TailOK'
  <2> SUFFICES ASSUME NEW b \in GenEnd' .. Len(pages),
                      \A c \in b .. Len(pages) : pages[c].kind = "pending",
                      NEW p \in pages[b].items
               PROVE  OwnVector(p)
    BY <1>1, <1>3 DEF TailOK
  <2>1. CASE vac.base + Len(vac.body) <= meta.first
    <3>1. Readable
      BY <1>1, <2>1 DEF IvfOK
    <3>2. pages[GenEnd - 1].kind # "pending"
      <4>1. GenEnd - 1 \in Generation
        BY <1>5 DEF Generation
      <4> QED
        BY <1>1, <4>1 DEF LiveOK, BodyOK
    <3>3. b > GenEnd - 1
      BY <1>5, <3>2
    <3>4. b \in PendingBlocks
      BY <1>5, <3>3 DEF PendingBlocks
    <3>5. pages[b].kind = "pending"
      BY <3>1, <3>4 DEF Readable
    <3>6. p \in Stored
      BY <3>4, <3>5 DEF Stored, Pending
    <3> QED
      BY <3>1, <3>6 DEF IvfOK
  <2>2. CASE Len(pages) = vac.base + vac.next - 2
    <3>1. vac.next = Len(vac.body) + 1
      <4>1. vac.next > Len(vac.body) /\ vac.next \in 1 .. Len(vac.body) + 1
        BY <1>1 DEF Pivot, Placed
      <4> QED
        BY <1>5, <4>1
    <3> QED
      BY <1>5, <2>2, <3>1
  <2> QED
    BY <1>1, <2>1, <2>2 DEF Placed
<1>8. Readable' => \A p \in Stored' : OwnVector(p)'
  BY <1>1, <1>3, <1>4, <1>6, ReclaimOwnNext
<1> QED
  BY <1>1, <1>3, <1>4, <1>6, <1>8 DEF IvfOK

LEMMA IvfReclaim == ASSUME Inv, Struct', IvfOK, Reclaim PROVE IvfOK'
<1> SUFFICES ASSUME layout = "ivf" PROVE IvfOK'
  BY DEF IvfOK, Reclaim
<1>1. /\ UNCHANGED <<layout, heap, txn, meta, cuts>> /\ vac.pc = "reclaim" /\ vac'.pc = "reclaim"
      /\ vac.next \in PendingBlocks /\ OnePage(vac.next, Empty) /\ Types /\ LiveOK
      /\ Types' /\ LiveOK' /\ vac'.next = vac.next + 1 /\ vac'.dead = vac.dead
  BY Reclaims DEF Inv, Struct
<1>2. Generation' = Generation /\ \A c \in Generation : pages'[c] = pages[c]
  <2>1. Generation' = Generation
    BY <1>1 DEF Generation, GenEnd
  <2>2. Generation \subseteq 1 .. Len(pages) /\ vac.next \notin Generation
    BY <1>1, Ranges DEF Generation, PendingBlocks
  <2> QED
    BY <1>1, <2>1, <2>2 DEF OnePage
<1>3. (Types /\ LiveOK =>
         \A p : p \in Enumerated <=>
                  \E b \in Generation : \E e \in pages[b].items : ~e.deleted /\ PairOf(e) = p)'
  BY EnumeratedIs, PTL
<1>4. \A p : p \in Enumerated' <=> p \in Enumerated
  BY <1>1, <1>2, <1>3, EnumeratedIs
<1>5. \A p : OwnVector(p)' = OwnVector(p)
  BY <1>1 DEF OwnVector, RowOf
<1>6. TailOK'
  <2>1. vac.next \in Nat \ {0} /\ Len(pages') = Len(pages) /\ Len(pages) \in Nat
    BY <1>1, Ranges DEF OnePage
  <2> SUFFICES ASSUME NEW b \in vac.next + 1 .. Len(pages),
                      \A c \in b .. Len(pages) : pages'[c].kind = "pending",
                      NEW p \in pages'[b].items
               PROVE  OwnVector(p)
    BY <1>1, <1>5, <2>1 DEF TailOK
  <2>2. b \in vac.next .. Len(pages) /\ \A c \in b .. Len(pages) : c \in 1 .. Len(pages) /\ c # vac.next
    BY <2>1
  <2>3. \A c \in b .. Len(pages) : pages'[c] = pages[c]
    BY <1>1, <2>2 DEF OnePage
  <2>4. b \in b .. Len(pages)
    BY <2>1
  <2>5. p \in pages[b].items /\ \A c \in b .. Len(pages) : pages[c].kind = "pending"
    BY <2>3, <2>4
  <2> QED
    BY <1>1, <2>2, <2>5 DEF IvfOK, TailOK
<1>7. Readable' => \A p \in Stored' : OwnVector(p)'
  <2>1. \A p \in Enumerated' : OwnVector(p)'
    BY <1>1, <1>4, <1>5 DEF IvfOK
  <2> QED
    BY <1>1, <1>6, <2>1, ReclaimOwnNext
<1> QED
  BY <1>1, <1>4, <1>5, <1>6, <1>7 DEF IvfOK

LEMMA IvfEndReclaim == ASSUME Inv, IvfOK, EndReclaim PROVE IvfOK'
<1> SUFFICES ASSUME layout = "ivf" PROVE IvfOK'
  BY DEF IvfOK, EndReclaim
<1>1. UNCHANGED <<layout, heap, meta, pages>> /\ vac.pc = "reclaim"
  BY DEF EndReclaim, index
<1>2. (Readable => \A p \in Stored : OwnVector(p))'
  BY <1>1, IvfSame DEF Inv
<1>3. vac'.pc = "reap" /\ vac'.dead = vac.dead /\ vac'.exclusive = TRUE
  BY <1>1, Turns, FoldFacts DEF Inv, Struct, Types
<1>4. Stored' = Stored
  BY <1>1 DEF Stored, Enumerated, Pending, PendingBlocks, Elements, Generation, GenEnd,
              DirectoryBlock
<1>5. ASSUME NEW p \in Stored PROVE p \in Enumerated
  <2>1. /\ vac.next \in GenEnd .. Len(pages) + 1 /\ \A b \in GenEnd .. vac.next - 1 : pages[b] = Empty
        /\ GenEnd \in Nat \ {0} /\ Len(pages) \in Nat /\ vac.next > Len(pages)
    BY <1>1, Ranges DEF Inv, Struct, FoldOK, Emptied, EndReclaim
  <2>2. \A b \in PendingBlocks : pages[b].items = {}
    BY <2>1, FreshTypes DEF PendingBlocks
  <2> QED
    BY <2>2 DEF Stored, Pending
<1>6. \A p \in Stored : p.tid \notin vac.dead
  BY <1>1, <1>5 DEF IvfOK
<1> QED
  BY <1>2, <1>3, <1>4, <1>6 DEF IvfOK

\* The tuples that are freed are in the index no longer.
LEMMA IvfReap == ASSUME Inv, IvfOK, Reap PROVE IvfOK'
<1> SUFFICES ASSUME layout = "ivf" PROVE IvfOK'
  BY DEF IvfOK, Reap
<1>1. /\ UNCHANGED <<layout, meta, pages>> /\ vac.pc = "reap" /\ vac'.pc = "idle"
      /\ \A t \in Tids : heap'[t] = IF t \in vac.dead THEN Free ELSE heap[t]
  BY DEF Reap, index, NoVacuum
<1>2. Stored' = Stored /\ Readable' = Readable
  BY <1>1 DEF Stored, Enumerated, Pending, PendingBlocks, Elements, Generation, GenEnd,
              DirectoryBlock, Readable
<1>3. ASSUME Readable, NEW p \in Stored PROVE OwnVector(p)'
  <2>1. OwnVector(p) /\ p.tid \in Tids /\ p.tid \notin vac.dead
    BY <1>1, <1>3, EntriesTyped DEF IvfOK, Inv, Pair
  <2> QED
    BY <1>1, <2>1, OwnKept DEF OwnVector
<1> QED
  BY <1>1, <1>2, <1>3 DEF IvfOK

LEMMA IvfReindex == ASSUME Inv, Struct', Reindex PROVE IvfOK'
<1>1. UNCHANGED <<layout, heap, txn, vac, cuts>> /\ vac.pc = "idle" /\ Fresh' /\ Types'
  BY Reindexed DEF Inv, Struct
<1>2. (Fresh /\ Types => \A p : p \in Stored <=> p \in Visible)'
  BY FreshHolds, PTL
<1>3. ASSUME NEW p \in Visible PROVE OwnVector(p)
  <2>1. PICK t \in Tids : heap[t].state = "live" /\ p = [tid |-> t, vec |-> heap[t].vec]
    BY DEF Visible
  <2> QED
    BY <2>1, FreshTypes DEF OwnVector, RowOf
<1>4. \A p \in Stored' : OwnVector(p)'
  BY <1>1, <1>2, <1>3 DEF Visible, OwnVector, RowOf
<1> QED
  BY <1>1, <1>4 DEF IvfOK

LEMMA IvfStep == ASSUME Inv, Inv', IvfOK, UnderCap, [Next]_vars PROVE IvfOK'
<1>1. CASE Vacuum
  BY <1>1, IvfVacuum, IvfBeginFold, IvfWritePage, IvfPivot, IvfReclaim, IvfEndReclaim, IvfReap,
     IvfCut DEF Vacuum, Inv
<1> QED
  BY <1>1, IvfTransactions, IvfInsert, IvfCut, IvfReindex DEF Next, Inv

\* A row of an ivf index is ranked by its own vector (StoredVectorsAreHeap, of an ivf): its
\* VACUUM rebuilds the index before it frees a dead tuple for reuse.  The rebuild is
\* skipped above the cap of theodb.vacuum_fold_max_mb, so the theorem is about an index
\* that stays below it.
THEOREM IvfRanksOwnVectors == Spec /\ []UnderCap => []IvfStoredVectorsAreHeap
<1>1. Init => IvfOK
  BY IvfInit
<1>2. Inv /\ Inv' /\ IvfOK /\ UnderCap /\ [Next]_vars => IvfOK'
  BY IvfStep
<1>3. Inv /\ IvfOK => IvfStoredVectorsAreHeap
  <2> SUFFICES ASSUME Inv, IvfOK, layout = "ivf", Readable, NEW t \in Tids, heap[t].state = "live",
                      NEW p \in Stored, p.tid = t
               PROVE  p = RowOf(t)
    BY DEF IvfStoredVectorsAreHeap, StoredVectorsAreHeap
  <2> QED
    BY DEF IvfOK, OwnVector
<1> QED
  BY <1>1, <1>2, <1>3, Invariance, PTL DEF Spec
-----------------------------------------------------------------------------
(* The entry point of an HNSW graph under concurrent insertions (HnswBuild): a worker     *)
(* reads the entry when it begins and compares its level with what is there when it ends, *)
(* while other workers do the same.                                                       *)

\* What build_parallel is called with: n > 0 nodes with a level each, a worker at
\* least, and batches of CANCEL_CHECK_BATCH nodes.
CorpusOf(c, n) == DOMAIN c.at = 0 .. n - 1 /\ c.level \in [0 .. n - 1 -> Nat]
BuildInputs ==
    /\ Batch \in Nat \ {0}
    /\ \A c \in Corpora : c.threads \in Nat \ {0} /\ \E n \in Nat \ {0} : CorpusOf(c, n)
-----------------------------------------------------------------------------
(* The invariant.                                                          *)

\* The worker has claimed a node and not offered it as the entry yet.
Busy(w) == worker[w].pc \notin {"claim", "joined"}

EntryOK == entry.node \in Nodes /\ corpus.level[entry.node] = entry.level

BatchOK ==
    /\ batch \in [start : Int, next : Int]
    /\ ~Cancelled => 1 <= batch.start /\ batch.start <= Cardinality(Nodes)
                     /\ batch.start <= batch.next

\* What a worker read of the entry when it began is not above the entry now.
WorkerOK(w) ==
    /\ DOMAIN worker[w] = DOMAIN Between
    /\ Busy(w) => /\ worker[w].node \in Nodes
                  /\ worker[w].pc # "start" => worker[w].limit \in Nat /\ worker[w].limit <= entry.level
    /\ worker[w].pc = "joined" /\ ~Cancelled => BatchEnd(batch.start) <= batch.next

\* A node of this batch that has been claimed, or of one before, is in somebody's
\* hands or not above the entry; one of the batches before is not above it.
ClaimedHeld ==
    ~Cancelled => \A n \in Nodes : n < batch.next /\ n < BatchEnd(batch.start) =>
        corpus.level[n] <= entry.level \/ \E w \in DOMAIN worker : Busy(w) /\ worker[w].node = n
FinishedBelow == \A n \in Nodes : n < batch.start => corpus.level[n] <= entry.level

HnswInv ==
    /\ corpus \in Corpora /\ EntryOK /\ BatchOK
    /\ DOMAIN worker = 1 .. corpus.threads /\ \A w \in DOMAIN worker : WorkerOK(w)
    /\ ClaimedHeld /\ FinishedBelow

\* The nodes are numbered from 0, and every level is a number.
LEMMA Corpus_Facts ==
    ASSUME BuildInputs, corpus \in Corpora
    PROVE  /\ Cardinality(Nodes) \in Nat \ {0} /\ Nodes = 0 .. Cardinality(Nodes) - 1
           /\ \A n \in Nodes : corpus.level[n] \in Nat /\ n \in Nat
           /\ 1 \in 1 .. corpus.threads
<1>1. PICK n \in Nat \ {0} : CorpusOf(corpus, n)
  BY DEF BuildInputs
<1>2. Nodes = 0 .. n - 1
  BY <1>1 DEF CorpusOf, Nodes
<1>3. Cardinality(0 .. n - 1) = n
  BY FS_Interval
<1>4. Cardinality(Nodes) = n
  BY <1>2, <1>3
<1>5. \A m \in Nodes : corpus.level[m] \in Nat /\ m \in Nat
  BY <1>1, <1>2 DEF CorpusOf
<1>6. 1 \in 1 .. corpus.threads
  BY DEF BuildInputs
<1> QED BY <1>2, <1>4, <1>5, <1>6

\* A batch ends after it starts and within the corpus.
LEMMA BatchEnd_Facts ==
    ASSUME BuildInputs, corpus \in Corpora, NEW start \in Int, 1 <= start,
           start <= Cardinality(Nodes)
    PROVE  /\ BatchEnd(start) \in Int /\ start <= BatchEnd(start)
           /\ BatchEnd(start) <= Cardinality(Nodes)
<1>1. Cardinality(Nodes) \in Nat /\ Batch \in Nat
  BY Corpus_Facts DEF BuildInputs
<1> QED BY <1>1 DEF BatchEnd

\* build_parallel inserts node 0 by itself.
LEMMA HnswInit_Inv ==
    ASSUME BuildInputs, HnswInit PROVE HnswInv
<1>1. corpus \in Corpora
  BY DEF HnswInit
<1>2. 0 \in Nodes /\ \A n \in Nodes : n < 1 => n = 0
  BY <1>1, Corpus_Facts
<1>3. EntryOK
  BY <1>2 DEF HnswInit, EntryOK
<1>4. BatchOK
  BY <1>1, Corpus_Facts DEF HnswInit, BatchOK
<1>5. DOMAIN worker = 1 .. corpus.threads /\ \A w \in DOMAIN worker : worker[w] = Between
  BY DEF HnswInit
<1>6. \A w \in DOMAIN worker : WorkerOK(w)
  BY <1>5 DEF WorkerOK, Busy, Between
<1>7. corpus.level[0] <= entry.level
  BY <1>1, <1>2, Corpus_Facts DEF HnswInit
<1>8. ClaimedHeld /\ FinishedBelow
  BY <1>2, <1>7 DEF HnswInit, ClaimedHeld, FinishedBelow
<1> QED BY <1>1, <1>3, <1>4, <1>5, <1>6, <1>8 DEF HnswInv

\* A worker that goes on with the node it has claimed.
LEMMA Busy_Inv ==
    ASSUME BuildInputs, HnswInv, NEW w \in DOMAIN worker, NEW k, Busy(w), Become(w, k),
           DOMAIN k = DOMAIN Between, k.node = worker[w].node,
           k.pc \notin {"claim", "joined", "start"},
           k.limit \in Nat, k.limit <= entry.level,
           UNCHANGED <<corpus, entry, batch>>
    PROVE  HnswInv'
<1>1. /\ DOMAIN worker' = DOMAIN worker /\ worker'[w] = k
      /\ \A v \in DOMAIN worker : v # w => worker'[v] = worker[v]
  BY DEF Become
<1>2. /\ corpus' = corpus /\ entry' = entry /\ batch' = batch /\ Nodes' = Nodes
      /\ corpus'.threads = corpus.threads
  BY DEF Nodes
<1>3. ASSUME NEW v \in DOMAIN worker' PROVE WorkerOK(v)'
  <2>1. CASE v = w
    BY <1>1, <1>2, <2>1 DEF HnswInv, WorkerOK, Busy
  <2>2. CASE v # w
    BY <1>1, <1>2, <2>2 DEF HnswInv, WorkerOK, Busy, Cancelled, BatchEnd
  <2> QED BY <2>1, <2>2
<1>4. \A v \in DOMAIN worker : (Busy(v)' <=> Busy(v)) /\ worker'[v].node = worker[v].node
  BY <1>1 DEF Busy
<1>5. ClaimedHeld'
  BY <1>1, <1>2, <1>4 DEF HnswInv, ClaimedHeld, Cancelled, BatchEnd
<1>6. EntryOK' /\ BatchOK' /\ FinishedBelow'
  BY <1>2 DEF HnswInv, EntryOK, BatchOK, FinishedBelow, Cancelled
<1> QED BY <1>1, <1>2, <1>3, <1>5, <1>6 DEF HnswInv

\* insert_node between its first read and its last write.
LEMMA Insert_Inv ==
    ASSUME BuildInputs, HnswInv, NEW w \in DOMAIN worker,
           \/ Start(w) \/ Descend(w) \/ Search(w) \/ Extend(w)
           \/ Link(w) \/ BackLink(w) \/ NextLayer(w)
    PROVE  HnswInv'
<1>1. /\ DOMAIN worker[w] = DOMAIN Between /\ entry.level \in Nat
      /\ Busy(w) /\ worker[w].pc # "start" =>
           worker[w].limit \in Nat /\ worker[w].limit <= entry.level
  BY Corpus_Facts DEF HnswInv, WorkerOK, EntryOK
<1> DEFINE Fields == {"pc", "node", "limit", "ep", "layer", "seen", "frontier", "found", "pool",
                      "left", "links"}
<1>2. DOMAIN Between = Fields
  BY DEF Between
<1>3. CASE Start(w)
  <2> DEFINE k == [worker[w] EXCEPT !.ep = entry.node, !.limit = entry.level, !.layer = entry.level]
             next == IF entry.level > corpus.level[k.node] THEN [k EXCEPT !.pc = "descend"]
                     ELSE Searching(k, entry.level, {entry.node})
  <2>1. DOMAIN k = Fields /\ k.limit = entry.level /\ k.node = worker[w].node /\ k.pc = worker[w].pc
    BY <1>1, <1>2
  <2>2. Become(w, next) /\ k.pc = "start" /\ UNCHANGED <<corpus, entry, batch>>
    BY <1>3 DEF Start
  <2> HIDE DEF k
  <2>3. /\ DOMAIN next = Fields /\ next.node = worker[w].node /\ next.limit = entry.level
        /\ next.pc \in {"descend", "search"}
    BY <2>1 DEF Searching
  <2>4. Busy(w) /\ DOMAIN next = DOMAIN Between
    BY <1>2, <2>1, <2>2, <2>3 DEF Busy
  <2> HIDE DEF next, Fields
  <2>5. /\ next.pc \notin {"claim", "joined", "start"}
        /\ next.limit \in Nat /\ next.limit <= entry.level
    BY <1>1, <2>3
  <2> QED BY <2>2, <2>3, <2>4, <2>5, Busy_Inv
<1>4. ASSUME NEW next, Become(w, next), UNCHANGED <<corpus, entry, batch>>,
             worker[w].pc \notin {"claim", "joined", "start"}, DOMAIN next = Fields,
             next.node = worker[w].node, next.limit = worker[w].limit,
             next.pc \notin {"claim", "joined", "start"}
      PROVE  HnswInv'
  BY <1>1, <1>2, <1>4, Busy_Inv DEF Busy
<1>5. CASE Descend(w)
  <2>1. PICK best : /\ worker[w].pc = "descend" /\ UNCHANGED <<corpus, entry, batch>>
                    /\ Become(w, IF best # worker[w].ep THEN [worker[w] EXCEPT !.ep = best]
                                 ELSE IF worker[w].layer - 1 > corpus.level[worker[w].node]
                                 THEN [worker[w] EXCEPT !.layer = @ - 1]
                                 ELSE Searching(worker[w],
                                        Below(corpus.level[worker[w].node], worker[w].limit),
                                        {worker[w].ep}))
    BY <1>5, Zenon DEF Descend
  <2> QED BY <1>1, <1>2, <1>4, <2>1 DEF Searching
<1>6. CASE Search(w)
  <2>1. PICK over, shallow, c, met :
          /\ worker[w].pc = "search" /\ UNCHANGED <<corpus, entry, batch>>
          /\ Become(w, IF over
                       THEN [worker[w] EXCEPT !.pc = "extend", !.pool = worker[w].found,
                                              !.left = IF Extends THEN worker[w].found ELSE {}]
                       ELSE IF shallow THEN [worker[w] EXCEPT !.frontier = @ \ {c}]
                       ELSE [worker[w] EXCEPT !.seen = met.seen, !.frontier = met.frontier,
                                              !.found = met.found])
    BY <1>6, Zenon DEF Search
  <2> QED BY <1>1, <1>2, <1>4, <2>1
<1>7. CASE Extend(w)
  <2>1. PICK more, c : /\ worker[w].pc = "extend" /\ UNCHANGED <<corpus, entry, batch>>
                       /\ Become(w, [worker[w] EXCEPT !.pool = @ \cup more, !.left = @ \ {c}])
    BY <1>7, Zenon DEF Extend
  <2> QED BY <1>1, <1>2, <1>4, <2>1
<1>8. CASE Link(w)
  <2>1. PICK selected : /\ worker[w].pc = "extend" /\ UNCHANGED <<corpus, entry, batch>>
                        /\ Become(w, [worker[w] EXCEPT !.pc = "back", !.links = selected])
    BY <1>8, Zenon DEF Link
  <2> QED BY <1>1, <1>2, <1>4, <2>1
<1>9. CASE BackLink(w)
  <2>1. /\ worker[w].pc = "back" /\ UNCHANGED <<corpus, entry, batch>>
        /\ Become(w, [worker[w] EXCEPT !.links = Tail(@)])
    BY <1>9, Zenon DEF BackLink
  <2> QED BY <1>1, <1>2, <1>4, <2>1
<1>10. CASE NextLayer(w)
  <2>1. /\ worker[w].pc = "back" /\ UNCHANGED <<corpus, entry, batch>>
        /\ Become(w, IF worker[w].layer = 0 THEN [worker[w] EXCEPT !.pc = "promote"]
                     ELSE Searching(worker[w], worker[w].layer - 1, worker[w].found))
    BY <1>10, Zenon DEF NextLayer
  <2> QED BY <1>1, <1>2, <1>4, <2>1 DEF Searching
<1> QED BY <1>3, <1>5, <1>6, <1>7, <1>8, <1>9, <1>10

\* The counter: a claimed node is in the hands of the worker that claimed it.
LEMMA Claim_Inv ==
    ASSUME BuildInputs, HnswInv, NEW w \in DOMAIN worker, Claim(w) PROVE HnswInv'
<1> DEFINE k == IF batch.next < BatchEnd(batch.start)
                THEN [Between EXCEPT !.pc = "start", !.node = batch.next]
                ELSE [Between EXCEPT !.pc = "joined"]
<1>1. /\ ~Cancelled /\ ~Busy(w) /\ batch' = [batch EXCEPT !.next = @ + 1] /\ Become(w, k)
      /\ corpus' = corpus /\ entry' = entry /\ Nodes' = Nodes
  BY DEF Claim, Busy, Nodes
<1>2. /\ batch.start \in Int /\ batch.next \in Int
      /\ batch'.start = batch.start /\ batch'.next = batch.next + 1
      /\ batch' \in [start : Int, next : Int]
      /\ 1 <= batch.start /\ batch.start <= Cardinality(Nodes) /\ batch.start <= batch.next
  BY <1>1 DEF HnswInv, BatchOK
<1>3. /\ BatchEnd(batch.start) \in Int /\ BatchEnd(batch.start) <= Cardinality(Nodes)
      /\ BatchEnd(batch.start)' = BatchEnd(batch.start) /\ (Cancelled' <=> Cancelled)
      /\ Nodes = 0 .. Cardinality(Nodes) - 1 /\ Cardinality(Nodes) \in Nat
  BY <1>1, <1>2, BatchEnd_Facts, Corpus_Facts DEF HnswInv, BatchEnd, Cancelled
<1>4. /\ DOMAIN k = DOMAIN Between
      /\ batch.next < BatchEnd(batch.start) => k.pc = "start" /\ k.node = batch.next
      /\ ~(batch.next < BatchEnd(batch.start)) => k.pc = "joined"
  BY DEF Between
<1> HIDE DEF k
<1>5. /\ DOMAIN worker' = DOMAIN worker /\ worker'[w] = k
      /\ \A v \in DOMAIN worker : v # w => worker'[v] = worker[v]
  BY <1>1 DEF Become
<1>6. BatchOK' /\ EntryOK' /\ FinishedBelow'
  BY <1>1, <1>2 DEF HnswInv, BatchOK, EntryOK, FinishedBelow
<1>7. ASSUME NEW v \in DOMAIN worker' PROVE WorkerOK(v)'
  <2>1. CASE v = w
    <3>1. CASE batch.next < BatchEnd(batch.start)
      <4>1. batch.next \in Nodes
        BY <1>2, <1>3, <3>1
      <4> QED BY <1>1, <1>4, <1>5, <2>1, <3>1, <4>1 DEF WorkerOK, Busy
    <3>2. CASE ~(batch.next < BatchEnd(batch.start))
      BY <1>2, <1>3, <1>4, <1>5, <2>1, <3>2 DEF WorkerOK, Busy
    <3> QED BY <3>1, <3>2
  <2>2. CASE v # w
    <3>1. worker'[v] = worker[v] /\ WorkerOK(v)
      BY <1>5, <2>2 DEF HnswInv
    <3> QED BY <1>1, <1>2, <1>3, <3>1 DEF WorkerOK, Busy
  <2> QED BY <2>1, <2>2
<1>8. ClaimedHeld'
  <2> SUFFICES ASSUME NEW n \in Nodes, n < batch.next + 1, n < BatchEnd(batch.start)
               PROVE  corpus.level[n] <= entry.level
                      \/ \E v \in DOMAIN worker : Busy(v)' /\ worker'[v].node = n
    BY <1>1, <1>2, <1>3, <1>5 DEF ClaimedHeld
  <2>1. CASE n < batch.next
    <3>1. corpus.level[n] <= entry.level \/ \E v \in DOMAIN worker : Busy(v) /\ worker[v].node = n
      BY <1>1, <2>1 DEF HnswInv, ClaimedHeld
    <3> QED BY <1>1, <1>5, <3>1 DEF Busy
  <2>2. CASE ~(n < batch.next)
    <3>1. n = batch.next /\ batch.next < BatchEnd(batch.start)
      BY <1>2, <1>3, <2>2
    <3> QED BY <1>4, <1>5, <3>1 DEF Busy
  <2> QED BY <2>1, <2>2
<1> QED BY <1>1, <1>5, <1>6, <1>7, <1>8 DEF HnswInv

\* The level is compared with the entry's under the lock that moves the entry, so the
\* entry never sinks and the node given up is not above it.
LEMMA Promote_Inv ==
    ASSUME BuildInputs, HnswInv, NEW w \in DOMAIN worker, Promote(w) PROVE HnswInv'
<1> DEFINE node == worker[w].node
           level == corpus.level[node]
<1>1. /\ corpus' = corpus /\ batch' = batch /\ Nodes' = Nodes
      /\ DOMAIN worker' = DOMAIN worker /\ worker'[w] = Between
      /\ \A v \in DOMAIN worker : v # w => worker'[v] = worker[v]
  BY DEF Promote, Become, Nodes
<1>2. \A n \in Nodes : corpus.level[n] \in Nat /\ n \in Nat
  BY Corpus_Facts DEF HnswInv
<1>3. /\ entry.node \in Nodes /\ corpus.level[entry.node] = entry.level /\ entry.level \in Nat
      /\ node \in Nodes /\ level \in Nat
      /\ worker[w].limit \in Nat /\ worker[w].limit <= entry.level
  BY <1>2 DEF HnswInv, EntryOK, WorkerOK, Busy, Promote
<1>4. entry' = IF Higher(worker[w]) THEN [node |-> node, level |-> level] ELSE entry
  BY DEF Promote
<1>5. /\ EntryOK' /\ entry'.level \in Nat
      /\ entry.level <= entry'.level /\ level <= entry'.level
  <2>1. CASE Higher(worker[w])
    <3>1. entry'.node = node /\ entry'.level = level /\ level > entry.level
      BY <1>4, <2>1 DEF Higher
    <3> HIDE DEF node, level
    <3>2. corpus.level[node] = level
      BY DEF node, level
    <3> QED BY <1>1, <1>3, <3>1, <3>2 DEF EntryOK
  <2>2. CASE ~Higher(worker[w])
    <3>1. entry' = entry /\ (level <= worker[w].limit \/ level <= entry.level)
      BY <1>3, <1>4, <2>2 DEF Higher
    <3> HIDE DEF node, level
    <3> QED BY <1>1, <1>3, <3>1 DEF EntryOK
  <2> QED BY <2>1, <2>2
<1> HIDE DEF level
<1>6. BatchOK' /\ (Cancelled' <=> Cancelled) /\ BatchEnd(batch.start)' = BatchEnd(batch.start)
  BY <1>1 DEF HnswInv, BatchOK, Cancelled, BatchEnd
<1>7. ASSUME NEW v \in DOMAIN worker' PROVE WorkerOK(v)'
  <2>1. CASE v = w
    BY <1>1, <2>1 DEF WorkerOK, Busy, Between
  <2>2. CASE v # w
    <3>1. worker'[v] = worker[v] /\ WorkerOK(v)
      BY <1>1, <2>2 DEF HnswInv
    <3>2. Busy(v) /\ worker[v].pc # "start" => worker[v].limit <= entry'.level
      BY <1>3, <1>5, <3>1 DEF WorkerOK
    <3> QED BY <1>1, <1>6, <3>1, <3>2 DEF WorkerOK, Busy
  <2> QED BY <2>1, <2>2
<1>8. \A n \in Nodes : corpus.level[n] <= entry.level => corpus.level[n] <= entry'.level
  BY <1>2, <1>3, <1>5
<1>9. ClaimedHeld'
  <2> SUFFICES ASSUME ~Cancelled, NEW n \in Nodes, n < batch.next, n < BatchEnd(batch.start)
               PROVE  corpus.level[n] <= entry'.level
                      \/ \E v \in DOMAIN worker : Busy(v)' /\ worker'[v].node = n
    BY <1>1, <1>6 DEF ClaimedHeld
  <2>1. CASE corpus.level[n] <= entry.level
    BY <1>8, <2>1
  <2>2. CASE \E v \in DOMAIN worker : Busy(v) /\ worker[v].node = n
    <3>1. PICK v \in DOMAIN worker : Busy(v) /\ worker[v].node = n
      BY <2>2
    <3>2. CASE v = w
      BY <1>5, <3>1, <3>2 DEF level
    <3>3. CASE v # w
      BY <1>1, <3>1, <3>3 DEF Busy
    <3> QED BY <3>2, <3>3
  <2> QED BY <2>1, <2>2 DEF HnswInv, ClaimedHeld
<1>10. FinishedBelow'
  BY <1>1, <1>8 DEF HnswInv, FinishedBelow
<1> QED BY <1>1, <1>5, <1>6, <1>7, <1>9, <1>10 DEF HnswInv

\* Every worker has joined only when the counter is past the batch and nobody holds a
\* node of it: all of it is inserted.
LEMMA Join_Inv ==
    ASSUME BuildInputs, HnswInv, Join PROVE HnswInv'
<1>1. PICK start \in {-1, BatchEnd(batch.start)} : batch' = [start |-> start, next |-> start]
  BY DEF Join
<1>2. /\ ~Cancelled /\ corpus' = corpus /\ entry' = entry /\ Nodes' = Nodes
      /\ DOMAIN worker' = DOMAIN worker /\ \A w \in DOMAIN worker : worker'[w] = Between
      /\ \A w \in DOMAIN worker : worker[w].pc = "joined"
  BY DEF Join, Nodes
<1>3. /\ BatchEnd(batch.start) \in Int /\ BatchEnd(batch.start) <= Cardinality(Nodes)
      /\ 1 <= BatchEnd(batch.start) /\ Cardinality(Nodes) \in Nat
      /\ batch.next \in Int /\ \A n \in Nodes : n \in Nat
  <2>1. batch.start \in Int /\ 1 <= batch.start /\ batch.start <= Cardinality(Nodes)
        /\ batch.next \in Int
    BY <1>2 DEF HnswInv, BatchOK
  <2>2. /\ BatchEnd(batch.start) \in Int /\ batch.start <= BatchEnd(batch.start)
        /\ BatchEnd(batch.start) <= Cardinality(Nodes)
    BY <2>1, BatchEnd_Facts DEF HnswInv
  <2>3. Cardinality(Nodes) \in Nat /\ \A n \in Nodes : n \in Nat
    BY Corpus_Facts DEF HnswInv
  <2> QED BY <2>1, <2>2, <2>3
<1>4. \A n \in Nodes : n < BatchEnd(batch.start) => corpus.level[n] <= entry.level
  <2>1. BatchEnd(batch.start) <= batch.next
    <3>1. 1 \in DOMAIN worker
      BY Corpus_Facts DEF HnswInv
    <3> QED BY <1>2, <3>1 DEF HnswInv, WorkerOK
  <2>2. \A w \in DOMAIN worker : ~Busy(w)
    BY <1>2 DEF Busy
  <2> TAKE n \in Nodes
  <2> HAVE n < BatchEnd(batch.start)
  <2>3. n < batch.next
    BY <1>3, <2>1
  <2> QED BY <1>2, <2>2, <2>3 DEF HnswInv, ClaimedHeld
<1>5. /\ batch'.start = start /\ batch'.next = start /\ start \in Int
      /\ batch' \in [start : Int, next : Int]
  BY <1>1, <1>3
<1>6. BatchOK'
  BY <1>1, <1>2, <1>3, <1>5 DEF BatchOK, Cancelled
<1>7. \A n \in Nodes : n < start => corpus.level[n] <= entry.level
  BY <1>1, <1>3, <1>4
<1>8. EntryOK' /\ FinishedBelow' /\ ClaimedHeld'
  BY <1>2, <1>5, <1>7 DEF HnswInv, EntryOK, FinishedBelow, ClaimedHeld
<1>9. \A w \in DOMAIN worker' : WorkerOK(w)'
  BY <1>2 DEF WorkerOK, Busy, Between
<1> QED BY <1>2, <1>6, <1>8, <1>9 DEF HnswInv

\* Every step of the build keeps the invariant.
LEMMA HnswNext_Inv ==
    ASSUME BuildInputs, HnswInv, [HnswNext]_hnswVars PROVE HnswInv'
<1>1. CASE HnswNext
  BY <1>1, Claim_Inv, Insert_Inv, Promote_Inv, Join_Inv, Zenon DEF HnswNext
<1>2. CASE UNCHANGED hnswVars
  BY <1>2 DEF hnswVars, HnswInv, EntryOK, BatchOK, WorkerOK, Busy, ClaimedHeld, FinishedBelow,
              Cancelled, BatchEnd, Nodes
<1> QED BY <1>1, <1>2

LEMMA EntryIsHighest ==
    ASSUME BuildInputs, HnswInv PROVE EntryHighest
<1> SUFFICES ASSUME NEW n \in 0 .. (batch.start - 1)
             PROVE  corpus.level[n] <= entry.level
  BY DEF HnswInv, EntryOK, EntryHighest
<1>1. ~Cancelled /\ batch.start \in Int
  BY DEF HnswInv, BatchOK, Cancelled
<1>2. batch.start <= Cardinality(Nodes)
  BY <1>1 DEF HnswInv, BatchOK
<1>3. n \in Nodes /\ n < batch.start
  BY <1>1, <1>2, Corpus_Facts DEF HnswInv
<1> QED BY <1>3 DEF HnswInv, FinishedBelow

(***************************************************************************)
(* However many workers insert at once, the entry is a node of the level   *)
(* it is recorded with, and no node of a finished batch is above it: the   *)
(* promotion of one worker is not undone by another that began before it   *)
(* (insert_node's last write lock, build_parallel).                        *)
(***************************************************************************)
THEOREM PromotionsKept ==
    ASSUME BuildInputs PROVE HnswSpec => []EntryHighest
<1>1. HnswInit => HnswInv
  BY HnswInit_Inv
<1>2. HnswInv /\ [HnswNext]_hnswVars => HnswInv'
  BY HnswNext_Inv
<1>3. HnswInv => EntryHighest
  BY EntryIsHighest
<1> QED BY <1>1, <1>2, <1>3, PTL DEF HnswSpec
-----------------------------------------------------------------------------
(* What a selection of neighbours returns (select_from).                   *)

\* The lists are made with a number of links that is not 0, and points are numbers.
LinkInputs ==
    /\ M \in Nat \ {0} /\ EfConstruction \in Nat
    /\ \A c \in Corpora : \A n \in DOMAIN c.at : c.at[n] \in Int

SortStep(q, sorted, c) == SortIn(q, sorted, c)
SortFold == INSTANCE FoldFacts WITH Op <- SortStep
KeepStep(p, kept, c) == Keep(p[1], p[2], kept, c)
KeepFold == INSTANCE FoldFacts WITH Op <- KeepStep
TopUpStep(m, kept, c) == TopUp(m, kept, c)
TopUpFold == INSTANCE FoldFacts WITH Op <- TopUpStep

\* No member twice.
Once(s) == \A i, j \in DOMAIN s : s[i] = s[j] => i = j

\* t has the members of s, and c.
With(t, s, c) == ToSet(t) = ToSet(s) \cup {c}

LEMMA ToSet_In ==
    ASSUME NEW S, NEW s \in Seq(S)
    PROVE  ToSet(s) \subseteq S /\ s \in Seq(ToSet(s)) /\ (s # <<>> <=> ToSet(s) # {})
           /\ \A x : x \in ToSet(s) <=> \E i \in 1 .. Len(s) : s[i] = x
BY DEF ToSet

LEMMA ToSet_Append ==
    ASSUME NEW S, NEW s \in Seq(S), NEW x \in S
    PROVE  /\ ToSet(Append(s, x)) = ToSet(s) \cup {x}
           /\ Once(s) /\ x \notin ToSet(s) => Once(Append(s, x))
           /\ Once(Append(s, x)) => Once(s) /\ x \notin ToSet(s)
<1>1. /\ DOMAIN s = 1 .. Len(s) /\ Len(s) \in Nat
      /\ DOMAIN Append(s, x) = 1 .. Len(s) + 1
      /\ Append(s, x)[Len(s) + 1] = x
      /\ \A i \in 1 .. Len(s) : Append(s, x)[i] = s[i]
  OBVIOUS
<1> DEFINE t == Append(s, x)
<1> HIDE DEF t
<1>2. ToSet(t) = ToSet(s) \cup {x}
  BY <1>1 DEF ToSet, t
<1>3. Once(s) /\ x \notin ToSet(s) => Once(t)
  BY <1>1 DEF Once, ToSet, t
<1>4. Once(t) => Once(s) /\ x \notin ToSet(s)
  BY <1>1 DEF Once, ToSet, t
<1> QED BY <1>2, <1>3, <1>4 DEF t

\* A candidate is put somewhere between the others.
LEMMA SortIn_Facts ==
    ASSUME NEW S, NEW q, NEW s \in Seq(S), NEW c \in S
    PROVE  /\ SortIn(q, s, c) \in Seq(S)
           /\ With(SortIn(q, s, c), s, c)
           /\ Once(s) /\ c \notin ToSet(s) => Once(SortIn(q, s, c))
<1> DEFINE before == {i \in DOMAIN s : ~Nearer(q, c, s[i])}
           k == Cardinality(before)
           t == SortIn(q, s, c)
           n == Len(s)
<1>1. n \in Nat /\ DOMAIN s = 1 .. n /\ s \in [1 .. n -> S]
  OBVIOUS
<1>2. k \in 0 .. n
  <2>1. IsFiniteSet(1 .. n) /\ Cardinality(1 .. n) = n
    <3>1. ASSUME NEW m \in Nat PROVE IsFiniteSet(1 .. m) /\ Cardinality(1 .. m) = m
      <4>1. /\ IsFiniteSet(1 .. m)
            /\ Cardinality(1 .. m) = IF 1 > m THEN 0 ELSE m - 1 + 1
        BY FS_Interval
      <4> QED BY <4>1
    <3> HIDE DEF before, k, t, n
    <3> QED BY <1>1, <3>1
  <2>2. before \subseteq 1 .. n
    BY <1>1
  <2> HIDE DEF before
  <2>3. IsFiniteSet(before) /\ Cardinality(before) <= n
    BY <2>1, <2>2, FS_Subset
  <2>4. Cardinality(before) \in Nat
    BY <2>3, FS_CardinalityType
  <2> QED BY <1>1, <2>3, <2>4
<1>3. t = SubSeq(s, 1, k) \o <<c>> \o SubSeq(s, k + 1, n)
  <2>1. t = SubSeq(s, 1, (1 + k) - 1) \o <<c>> \o SubSeq(s, 1 + k, Len(s))
    BY DEF SortIn, InsertAt
  <2> HIDE DEF t, k
  <2>2. (1 + k) - 1 = k /\ 1 + k = k + 1
    BY <1>1, <1>2
  <2> QED BY <2>1, <2>2
<1> HIDE DEF before, k, t
<1>4. /\ t \in Seq(S) /\ Len(t) = n + 1 /\ DOMAIN t = 1 .. n + 1
      /\ \A i \in 1 .. n + 1 : t[i] = IF i <= k THEN s[i] ELSE IF i = k + 1 THEN c ELSE s[i - 1]
  <2> DEFINE u == SubSeq(s, 1, k)
             v == SubSeq(s, k + 1, n)
  <2>1. u \in Seq(S) /\ Len(u) = k /\ \A i \in 1 .. k : u[i] = s[i]
    BY <1>1, <1>2
  <2>2. v \in Seq(S) /\ Len(v) = n - k /\ \A i \in 1 .. n - k : v[i] = s[k + i]
    <3>1. /\ k + 1 \in Int /\ n \in Int /\ n - (k + 1) + 1 = n - k
          /\ (k + 1 <= n => n - (k + 1) + 1 = n - k) /\ (~(k + 1 <= n) => n - k = 0)
          /\ \A i \in 1 .. n - k : (k + 1) + i - 1 = k + i
      <4> HIDE DEF n, u, v
      <4>1. n \in Nat /\ k \in Nat /\ k <= n
        BY <1>1, <1>2
      <4> QED BY <4>1
    <3>2. \A i \in k + 1 .. n : s[i] \in S
      BY <1>1, <1>2
    <3> HIDE DEF n
    <3>3. /\ v \in Seq(S) /\ Len(v) = IF k + 1 <= n THEN n - (k + 1) + 1 ELSE 0
          /\ \A i \in 1 .. n - (k + 1) + 1 : v[i] = s[(k + 1) + i - 1]
      BY <3>1, <3>2, SubSeqProperties
    <3> HIDE DEF v
    <3> QED BY <3>1, <3>3
  <2> HIDE DEF u, v, n
  <2>3. /\ u \o <<c>> \in Seq(S) /\ Len(u \o <<c>>) = k + 1
        /\ \A i \in 1 .. k + 1 : (u \o <<c>>)[i] = IF i <= k THEN s[i] ELSE c
    BY <1>1, <1>2, <2>1
  <2> DEFINE w == u \o <<c>>
  <2> HIDE DEF w
  <2>4. /\ w \o v \in Seq(S) /\ Len(w \o v) = n + 1
        /\ \A i \in 1 .. n + 1 : (w \o v)[i] = IF i <= k + 1 THEN w[i] ELSE v[i - (k + 1)]
    <3>1. w \in Seq(S) /\ Len(w) = k + 1 /\ v \in Seq(S) /\ Len(v) = n - k
      BY <2>2, <2>3 DEF w
    <3>2. /\ w \o v \in Seq(S) /\ Len(w \o v) = Len(w) + Len(v)
          /\ \A i \in 1 .. Len(w) + Len(v) :
               (w \o v)[i] = IF i <= Len(w) THEN w[i] ELSE v[i - Len(w)]
      BY <3>1, ConcatProperties
    <3>3. (k + 1) + (n - k) = n + 1
      BY <1>1, <1>2
    <3> QED BY <3>1, <3>2, <3>3
  <2>5. t = w \o v
    BY <1>3 DEF u, v, w
  <2>6. \A i \in 1 .. n + 1 : i > k + 1 => v[i - (k + 1)] = s[i - 1]
    <3> SUFFICES ASSUME NEW i \in 1 .. n + 1, i > k + 1 PROVE v[i - (k + 1)] = s[i - 1]
      OBVIOUS
    <3>1. i - (k + 1) \in 1 .. n - k /\ k + (i - (k + 1)) = i - 1
      BY <1>1, <1>2
    <3> QED BY <2>2, <3>1
  <2>7. \A i \in 1 .. n + 1 : t[i] = IF i <= k THEN s[i] ELSE IF i = k + 1 THEN c ELSE s[i - 1]
    BY <1>1, <1>2, <2>3, <2>4, <2>5, <2>6 DEF w
  <2> QED BY <2>4, <2>5, <2>7
<1> HIDE DEF n
<1>5. ToSet(t) = ToSet(s) \cup {c}
  <2>1. ToSet(t) \subseteq ToSet(s) \cup {c}
    BY <1>1, <1>2, <1>4 DEF ToSet
  <2>2. c \in ToSet(t)
    <3>1. k + 1 \in 1 .. n + 1 /\ t[k + 1] = c
      BY <1>1, <1>2, <1>4
    <3> QED BY <1>4, <3>1 DEF ToSet
  <2>3. ASSUME NEW j \in 1 .. n PROVE s[j] \in ToSet(t)
    <3>1. CASE j <= k
      <4>1. j \in 1 .. n + 1 /\ t[j] = s[j]
        BY <1>1, <1>2, <1>4, <3>1
      <4> QED BY <1>4, <4>1 DEF ToSet
    <3>2. CASE ~(j <= k)
      <4>1. j + 1 \in 1 .. n + 1 /\ ~(j + 1 <= k) /\ j + 1 # k + 1 /\ (j + 1) - 1 = j
        BY <1>1, <1>2, <3>2
      <4>2. t[j + 1] = s[j]
        BY <1>4, <4>1
      <4> QED BY <1>4, <4>1, <4>2 DEF ToSet
    <3> QED BY <3>1, <3>2
  <2> QED BY <1>1, <2>1, <2>2, <2>3 DEF ToSet
<1>6. ASSUME Once(s), c \notin ToSet(s) PROVE Once(t)
  <2>1. \A j \in 1 .. n : s[j] # c
    BY <1>1, <1>6 DEF ToSet
  <2> DEFINE From(i) == IF i <= k THEN i ELSE i - 1
  <2>2. \A i \in 1 .. n + 1 : i # k + 1 => From(i) \in 1 .. n /\ t[i] = s[From(i)]
    BY <1>1, <1>2, <1>4
  <2>3. \A i, j \in 1 .. n + 1 : i # k + 1 /\ j # k + 1 /\ From(i) = From(j) => i = j
    BY <1>1, <1>2
  <2>4. t[k + 1] = c
    BY <1>1, <1>2, <1>4
  <2> HIDE DEF From
  <2> QED BY <1>1, <1>4, <1>6, <2>1, <2>2, <2>3, <2>4 DEF Once
<1> QED BY <1>4, <1>5, <1>6 DEF t, With

LEMMA Sorted_IsFold ==
    ASSUME NEW q, NEW s PROVE Sorted(q, s) = SortFold!Fold(q, <<>>, s)
BY DEF Sorted, FoldLeft, MapThenFoldSet, Max, SortFold!Fold, SortFold!Greatest, SortStep

\* The sorted candidates are the candidates.
LEMMA Sorted_Facts ==
    ASSUME NEW S, NEW q, NEW seq \in Seq(S)
    PROVE  /\ Sorted(q, seq) \in Seq(S) /\ ToSet(Sorted(q, seq)) = ToSet(seq)
           /\ Once(seq) => Once(Sorted(q, seq))
<1> DEFINE Good(r) == /\ Sorted(q, r) \in Seq(S) /\ ToSet(Sorted(q, r)) = ToSet(r)
                      /\ Once(r) => Once(Sorted(q, r))
           T == {r \in Seq(S) : Good(r)}
           W == Seq(S)
<1>1. <<>> \in T
  <2>1. Sorted(q, <<>>) = <<>>
    BY Sorted_IsFold, SortFold!Fold_Empty
  <2>2. <<>> \in Seq(S)
    OBVIOUS
  <2>3. Good(<<>>)
    BY <2>1, <2>2, Zenon
  <2> HIDE DEF Good
  <2> QED BY <2>2, <2>3
<1>2. <<>> \in W /\ \A a \in W, x \in S : SortStep(q, a, x) \in W
  <2>1. \A a \in Seq(S), x \in S : SortIn(q, a, x) \in Seq(S)
    BY SortIn_Facts
  <2> QED BY <2>1 DEF SortStep
<1>3. ASSUME NEW r \in Seq(S), NEW x \in S, r \in T PROVE Append(r, x) \in T
  <2>1. SortFold!Fold(q, <<>>, Append(r, x)) = SortStep(q, SortFold!Fold(q, <<>>, r), x)
    <3> HIDE DEF W
    <3> QED BY <1>2, SortFold!Fold_Append
  <2>2. Sorted(q, Append(r, x)) = SortIn(q, Sorted(q, r), x)
    BY <2>1, Sorted_IsFold DEF SortStep
  <2> DEFINE a == Sorted(q, r)
  <2>3. a \in Seq(S) /\ ToSet(a) = ToSet(r) /\ (Once(r) => Once(a))
    BY <1>3
  <2> HIDE DEF a, W, T
  <2>4. /\ SortIn(q, a, x) \in Seq(S) /\ ToSet(SortIn(q, a, x)) = ToSet(a) \cup {x}
        /\ Once(a) /\ x \notin ToSet(a) => Once(SortIn(q, a, x))
    <3>1. /\ SortIn(q, a, x) \in Seq(S) /\ With(SortIn(q, a, x), a, x)
          /\ Once(a) /\ x \notin ToSet(a) => Once(SortIn(q, a, x))
      BY <2>3, SortIn_Facts
    <3> QED BY <3>1 DEF With
  <2>5. /\ ToSet(Append(r, x)) = ToSet(r) \cup {x}
        /\ Once(Append(r, x)) => Once(r) /\ x \notin ToSet(r)
    BY ToSet_Append
  <2>6. Append(r, x) \in Seq(S) /\ Good(Append(r, x))
    BY <2>2, <2>3, <2>4, <2>5 DEF a
  <2> HIDE DEF Good
  <2> QED BY <2>6 DEF T
<1> HIDE DEF T
<1>4. seq \in T
  BY <1>1, <1>3, SortFold!SequenceInduction
<1> QED BY <1>4 DEF T

Short(S, m) == {s \in Seq(S) : Len(s) <= m}

LEMMA Keep_Short ==
    ASSUME NEW S, NEW q, NEW m \in Nat \ {0}, NEW s \in Short(S, m), NEW c \in S
    PROVE  Keep(q, m, s, c) \in Short(S, m) /\ TopUp(m, s, c) \in Short(S, m)
BY DEF Short, Keep, TopUp

LEMMA TopUp_Some ==
    ASSUME NEW S, NEW m \in Nat \ {0}, NEW s \in Seq(S), NEW c \in S
    PROVE  TopUp(m, s, c) # <<>>
<1>1. CASE s = <<>>
  <2>1. Len(s) < m /\ c \notin ToSet(s)
    BY <1>1 DEF ToSet
  <2> QED BY <2>1 DEF TopUp
<1>2. CASE s # <<>>
  BY <1>2 DEF TopUp
<1> QED BY <1>1, <1>2

Diverse(q, m, sorted) == KeepFold!Fold(<<q, m>>, <<>>, sorted)

LEMMA Select_IsFold ==
    ASSUME NEW q, NEW m, NEW s
    PROVE  select_from(q, s, m) = TopUpFold!Fold(m, Diverse(q, m, Sorted(q, s)), Sorted(q, s))
BY DEF select_from, Diverse, FoldLeft, MapThenFoldSet, Max, KeepFold!Fold, KeepFold!Greatest,
       KeepStep, TopUpFold!Fold, TopUpFold!Greatest, TopUpStep

\* What is kept is among the candidates, and none twice if they are not.
LEMMA Diverse_Facts ==
    ASSUME NEW S, NEW q, NEW m \in Nat \ {0}, NEW seq \in Seq(S)
    PROVE  /\ Diverse(q, m, seq) \in Short(S, m)
           /\ Once(seq) => Once(Diverse(q, m, seq))
<1> DEFINE W == Short(S, m)
           p == <<q, m>>
           T == {r \in Seq(S) : Once(r) => Once(Diverse(q, m, r))
                                           /\ ToSet(Diverse(q, m, r)) \subseteq ToSet(r)}
<1>1. <<>> \in W
  BY DEF Short
<1>2. \A a \in W, x \in S : KeepStep(p, a, x) \in W
  BY Keep_Short DEF KeepStep
<1> HIDE DEF W
<1>3. \A r \in Seq(S) : Diverse(q, m, r) \in W
  <2> HIDE DEF p
  <2> SUFFICES ASSUME NEW r \in Seq(S) PROVE KeepFold!Fold(p, <<>>, r) \in W
    BY DEF Diverse, p
  <2> QED BY <1>1, <1>2, KeepFold!Fold_In
<1>4. \A r \in Seq(S), x \in S : Diverse(q, m, Append(r, x)) = Keep(q, m, Diverse(q, m, r), x)
  <2> SUFFICES ASSUME NEW r \in Seq(S), NEW x \in S
               PROVE  KeepFold!Fold(p, <<>>, Append(r, x)) = KeepStep(p, KeepFold!Fold(p, <<>>, r), x)
    BY DEF Diverse, KeepStep
  <2> HIDE DEF p
  <2> QED BY <1>1, <1>2, KeepFold!Fold_Append
<1>5. <<>> \in T
  <2>1. Diverse(q, m, <<>>) = <<>>
    BY KeepFold!Fold_Empty DEF Diverse
  <2>2. Once(<<>>) /\ ToSet(<<>>) \subseteq ToSet(<<>>)
    BY DEF Once
  <2> QED BY <2>1, <2>2
<1>6. ASSUME NEW r \in Seq(S), NEW x \in S, r \in T PROVE Append(r, x) \in T
  <2> SUFFICES ASSUME Once(Append(r, x))
               PROVE  /\ Once(Diverse(q, m, Append(r, x)))
                      /\ ToSet(Diverse(q, m, Append(r, x))) \subseteq ToSet(Append(r, x))
    OBVIOUS
  <2> DEFINE a == Diverse(q, m, r)
             b == Diverse(q, m, Append(r, x))
  <2>1. a \in Seq(S) /\ b = Keep(q, m, a, x)
    BY <1>3, <1>4 DEF W, Short
  <2>2. Once(r) /\ x \notin ToSet(r) /\ With(Append(r, x), r, x)
    BY ToSet_Append DEF With
  <2>3. Once(a) /\ ToSet(a) \subseteq ToSet(r)
    BY <1>6, <2>2
  <2>4. b = a \/ b = Append(a, x)
    BY <2>1 DEF Keep
  <2> HIDE DEF a, b
  <2>5. Once(Append(a, x)) /\ With(Append(a, x), a, x)
    BY <2>1, <2>2, <2>3, ToSet_Append DEF With
  <2>6. Once(b)
    BY <2>3, <2>4, <2>5
  <2>7. ToSet(b) \subseteq ToSet(r) \cup {x}
    BY <2>3, <2>4, <2>5 DEF With
  <2> QED BY <2>2, <2>6, <2>7 DEF b, With
<1> HIDE DEF T
<1>7. seq \in T
  BY <1>5, <1>6, KeepFold!SequenceInduction
<1>8. Diverse(q, m, seq) \in W
  BY <1>3
<1>9. Once(seq) => Once(Diverse(q, m, seq))
  BY <1>7 DEF T
<1> QED BY <1>8, <1>9 DEF W

(* select_from returns candidates, no more than it may, one at least where *)
(* there is one, and none twice if none is twice among the candidates.     *)
LEMMA Select_Facts ==
    ASSUME NEW S, NEW q, NEW m \in Nat \ {0}, NEW cands \in Seq(S)
    PROVE  /\ select_from(q, cands, m) \in Seq(ToSet(cands))
           /\ Len(select_from(q, cands, m)) <= m
           /\ cands # <<>> => select_from(q, cands, m) # <<>>
           /\ Once(cands) => Once(select_from(q, cands, m))
<1> DEFINE C == ToSet(cands)
           sorted == Sorted(q, cands)
           base == Diverse(q, m, sorted)
           W == Short(C, m)
           Result == select_from(q, cands, m)
<1>1. cands \in Seq(C) /\ (cands # <<>> <=> C # {})
  BY ToSet_In
<1> HIDE DEF C
<1>2. sorted \in Seq(C) /\ ToSet(sorted) = ToSet(cands) /\ (Once(cands) => Once(sorted))
  BY <1>1, Sorted_Facts
<1> HIDE DEF sorted
<1>3. base \in W /\ (Once(sorted) => Once(base))
  BY <1>2, Diverse_Facts
<1>4. Result = TopUpFold!Fold(m, base, sorted)
  BY Select_IsFold DEF sorted
<1> HIDE DEF base, Result
<1>5. \A a \in W, x \in C : TopUpStep(m, a, x) \in W
  BY Keep_Short DEF TopUpStep
<1>6. \A a \in W : a \in Seq(C) /\ Len(a) <= m
  BY DEF Short
<1> HIDE DEF W
<1>7. Result \in W
  BY <1>2, <1>3, <1>4, <1>5, TopUpFold!Fold_In
<1>8. ASSUME cands # <<>> PROVE Result # <<>>
  <2>1. sorted # <<>>
    BY <1>1, <1>2, <1>8, ToSet_In DEF C
  <2> DEFINE n == Len(sorted)
             front == [i \in 1 .. n - 1 |-> sorted[i]]
             last == sorted[n]
  <2>2. /\ front \in Seq(C) /\ last \in C /\ n \in Nat \ {0}
        /\ sorted = Append(front, last)
    <3>1. n \in Nat \ {0} /\ \A i \in 1 .. n : sorted[i] \in C
      BY <1>2, <2>1
    <3>2. front \in Seq(C) /\ Len(front) = n - 1 /\ \A i \in 1 .. n - 1 : front[i] = sorted[i]
      <4> HIDE DEF n
      <4>1. n - 1 \in Nat /\ \A i \in 1 .. n - 1 : sorted[i] \in C
        BY <3>1
      <4> QED BY <4>1
    <3> HIDE DEF front
    <3>3. /\ Append(front, last) \in Seq(C) /\ Len(Append(front, last)) = n
          /\ \A i \in 1 .. n : Append(front, last)[i] = sorted[i]
      BY <3>1, <3>2
    <3> QED BY <1>2, <3>1, <3>2, <3>3, SeqEqual
  <2> HIDE DEF front, last, n
  <2>3. TopUpFold!Fold(m, base, front) \in W
    BY <1>3, <1>5, <2>2, TopUpFold!Fold_In
  <2>4. Result = TopUpStep(m, TopUpFold!Fold(m, base, front), last)
    BY <1>3, <1>4, <1>5, <2>2, TopUpFold!Fold_Append
  <2> DEFINE a == TopUpFold!Fold(m, base, front)
  <2>5. a \in Seq(C)
    BY <1>6, <2>3
  <2>6. Result = TopUp(m, a, last)
    BY <2>4 DEF TopUpStep
  <2> HIDE DEF a
  <2> QED BY <2>2, <2>5, <2>6, TopUp_Some
<1>9. ASSUME Once(cands) PROVE Once(Result)
  <2> DEFINE V == {a \in Seq(C) : Once(a)}
  <2>1. base \in V
    BY <1>2, <1>3, <1>6, <1>9
  <2>2. ASSUME NEW a \in V, NEW x \in C PROVE TopUpStep(m, a, x) \in V
    <3>1. CASE TopUpStep(m, a, x) = a
      BY <3>1
    <3>2. CASE TopUpStep(m, a, x) # a
      <4>1. TopUpStep(m, a, x) = Append(a, x) /\ x \notin ToSet(a)
        BY <3>2 DEF TopUpStep, TopUp
      <4>2. Once(Append(a, x)) /\ Append(a, x) \in Seq(C)
        BY <4>1, ToSet_Append
      <4> QED BY <4>1, <4>2
    <3> QED BY <3>1, <3>2
  <2> HIDE DEF V
  <2>3. Result \in V
    BY <1>2, <1>4, <2>1, <2>2, TopUpFold!Fold_In
  <2> QED BY <2>3 DEF V
<1> QED BY <1>6, <1>7, <1>8, <1>9 DEF C, Result
-----------------------------------------------------------------------------
(* What the searches keep.                                                 *)

\* The nodes of a layer.
Having(l) == {n \in Nodes : corpus.level[n] >= l}

LEMMA Dist_Type ==
    ASSUME LinkInputs, corpus \in Corpora, NEW a \in Nodes, NEW b \in Nodes
    PROVE  Dist(a, b) \in Nat
<1>1. corpus.at[a] \in Int /\ corpus.at[b] \in Int
  BY DEF LinkInputs, Nodes
<1> DEFINE d == corpus.at[a] - corpus.at[b]
<1>2. d \in Int
  BY <1>1
<1>3. Dist(a, b) = IF d < 0 THEN -d ELSE d
  BY DEF Dist
<1> HIDE DEF d
<1> QED BY <1>2, <1>3

\* Among nodes there is a nearest.
LEMMA NearestTo_In ==
    ASSUME BuildInputs, LinkInputs, corpus \in Corpora, NEW q \in Nodes, NEW S \in SUBSET Nodes, S # {}
    PROVE  NearestTo(q, S) \in S
<1> DEFINE D == {Dist(q, a) : a \in S}
<1>1. D \subseteq Nat /\ D # {}
  BY Dist_Type
<1>2. PICK d \in D : \A e \in D : d <= e
  BY <1>1, KeepFold!Least_Exists
<1> DEFINE R == {a \in S : Dist(q, a) = d}
<1>3. R \subseteq Nat /\ R # {}
  BY Corpus_Facts
<1>4. PICK a \in R : \A b \in R : a <= b
  BY <1>3, KeepFold!Least_Exists
<1>5. a \in S /\ \A b \in S \ {a} : Nearer(q, a, b)
  <2> SUFFICES ASSUME NEW b \in S \ {a} PROVE Nearer(q, a, b)
    BY <1>4
  <2>1. Dist(q, a) = d /\ d <= Dist(q, b) /\ d \in Nat /\ Dist(q, b) \in Nat
    BY <1>1, <1>2, <1>4
  <2>2. a \in Nat /\ b \in Nat
    BY <1>4, Corpus_Facts
  <2>3. Dist(q, b) = d => a <= b
    BY <1>4
  <2> HIDE DEF D, R
  <2> QED BY <2>1, <2>2, <2>3 DEF Nearer
<1> HIDE DEF D, R
<1> QED BY <1>5 DEF NearestTo

MetStep(q, s, n) == Met(q, s, n)
MetFold == INSTANCE FoldFacts WITH Op <- MetStep
BestStep(q, b, n) == IF Dist(q, n) < Dist(q, b) THEN n ELSE b
BestFold == INSTANCE FoldFacts WITH Op <- BestStep

\* A search among H has met what it has found.
Searches(H) ==
    {s \in [seen : SUBSET H, frontier : SUBSET H, found : SUBSET H] : s.found # {} /\ s.found \subseteq s.seen}

\* What is dropped for the new one is not all.
LEMMA Met_In ==
    ASSUME NEW H, NEW q, NEW s \in Searches(H), NEW n \in H
    PROVE  Met(q, s, n) \in Searches(H)
<1>1. /\ s = [seen |-> s.seen, frontier |-> s.frontier, found |-> s.found]
      /\ s.seen \subseteq H /\ s.frontier \subseteq H /\ s.found \subseteq s.seen /\ s.found # {}
  BY DEF Searches
<1>2. CASE n \in s.seen
  BY <1>2 DEF Met
<1>3. CASE n \notin s.seen
  <2> DEFINE found == s.found \cup {n}
             x == FurthestFrom(q, found)
  <2>1. PICK near, room :
          Met(q, s, n) = [seen |-> s.seen \cup {n},
                          frontier |-> IF near THEN s.frontier \cup {n} ELSE s.frontier,
                          found |-> IF ~near THEN s.found ELSE IF room THEN found ELSE found \ {x}]
    <3> DEFINE room == Cardinality(s.found) < Ef
               near == room \/ Dist(q, n) < Dist(q, FurthestFrom(q, s.found))
    <3>1. Met(q, s, n) = [s EXCEPT !.seen = @ \cup {n},
                       !.frontier = IF near THEN @ \cup {n} ELSE @,
                       !.found = IF ~near THEN @ ELSE IF room THEN found
                                 ELSE found \ {FurthestFrom(q, found)}]
      BY <1>3 DEF Met
    <3> HIDE DEF room, near
    <3>2. Met(q, s, n) = [seen |-> s.seen \cup {n},
                          frontier |-> IF near THEN s.frontier \cup {n} ELSE s.frontier,
                          found |-> IF ~near THEN s.found ELSE IF room THEN found ELSE found \ {x}]
      BY <1>1, <3>1
    <3> QED BY <3>2
  <2>2. \A y : found \ {y} # {}
    BY <1>1, <1>3
  <2> HIDE DEF x
  <2> QED BY <1>1, <2>1, <2>2 DEF Searches
<1> QED BY <1>2, <1>3

\* A round of a search stays among H when the list does.
LEMMA Round_In ==
    ASSUME NEW H, NEW q, NEW s \in Searches(H), NEW list \in Seq(H)
    PROVE  MetFold!Fold(q, s, list) \in Searches(H)
<1> DEFINE W == Searches(H)
<1>1. \A r \in W, n \in H : MetStep(q, r, n) \in W
  BY Met_In DEF MetStep
<1>2. s \in W
  OBVIOUS
<1> HIDE DEF W
<1>3. MetFold!Fold(q, s, list) \in W
  BY <1>1, <1>2, MetFold!Fold_In
<1> QED BY <1>3 DEF W

LEMMA Best_In ==
    ASSUME NEW H, NEW q, NEW ep \in H, NEW list \in Seq(H)
    PROVE  BestFold!Fold(q, ep, list) \in H
<1>1. \A b \in H, n \in H : BestStep(q, b, n) \in H
  BY DEF BestStep
<1> QED BY <1>1, BestFold!Fold_In
-----------------------------------------------------------------------------
(* The lists.  A worker meets nodes of the layer it is on; when it is the  *)
(* only one, nodes that were claimed before its own, for until it links    *)
(* its node nobody else has: so no list names a node twice.                *)

Alone == corpus.threads = 1
Claimed(n) == n < batch.next /\ n < BatchEnd(batch.start)

\* What the worker may meet on a layer, and that the lists hold nothing else.
Reach(w, l) == {n \in Having(l) : Alone => Claimed(n) /\ n # worker[w].node}
Clear(w, l) == \A n \in Having(l) : ToSet(graph[n][l]) \subseteq Reach(w, l)

ListOK(n, l) ==
    /\ graph[n][l] \in Seq(Having(l)) /\ Len(graph[n][l]) <= Degree(l)
    /\ Alone => Once(graph[n][l]) /\ n \notin ToSet(graph[n][l])
    /\ Alone /\ ~Cancelled => \A m \in ToSet(graph[n][l]) : Claimed(m)
GraphOK ==
    /\ DOMAIN graph = Nodes
    /\ \A n \in Nodes : DOMAIN graph[n] = Layers(n) /\ \A l \in Layers(n) : ListOK(n, l)

\* The locals of insert_node, at each of its reads and writes.
StartOK(w) == worker[w].pc = "start" => \A l \in Nat : Clear(w, l)
DescendOK(w) == worker[w].pc = "descend" =>
    /\ \A l \in Nat : Clear(w, l)
    /\ worker[w].layer \in Nat /\ worker[w].layer > corpus.level[worker[w].node]
    /\ worker[w].ep \in Reach(w, worker[w].layer)
FoundOK(w) == worker[w].pc \in {"search", "extend", "back"} =>
    /\ worker[w].layer \in Layers(worker[w].node)
    /\ worker[w].found \in SUBSET Reach(w, worker[w].layer) /\ worker[w].found # {}
    /\ \A l \in 0 .. (worker[w].layer - 1) : Clear(w, l)
    /\ worker[w].pc # "back" => Clear(w, worker[w].layer)
SearchOK(w) == worker[w].pc = "search" =>
    /\ worker[w].seen \in SUBSET Reach(w, worker[w].layer) /\ worker[w].found \subseteq worker[w].seen
    /\ worker[w].frontier \in SUBSET Reach(w, worker[w].layer)
ExtendOK(w) == worker[w].pc = "extend" =>
    /\ worker[w].pool \in SUBSET Reach(w, worker[w].layer) /\ worker[w].pool # {}
    /\ worker[w].left \in SUBSET Reach(w, worker[w].layer)
BackOK(w) == worker[w].pc = "back" =>
    /\ worker[w].links \in Seq(Reach(w, worker[w].layer))
    /\ Alone => /\ Once(worker[w].links)
                /\ \A n \in ToSet(worker[w].links) :
                     worker[w].node \notin ToSet(graph[n][worker[w].layer])
LinkedOK(w) ==
    worker[w].pc = "promote" \/ (worker[w].pc = "back" /\ worker[w].layer = 0) =>
        graph[worker[w].node][0] # <<>>
LocalsOK(w) ==
    /\ Busy(w) => ~Cancelled
    /\ Alone /\ Busy(w) => Claimed(worker[w].node) /\ worker[w].node # entry.node
    /\ StartOK(w) /\ DescendOK(w) /\ FoundOK(w) /\ SearchOK(w) /\ ExtendOK(w) /\ BackOK(w)
    /\ LinkedOK(w)

\* A claimed node is in somebody's hands or linked.
LinkedHeld ==
    ~Cancelled => \A n \in Nodes : 1 <= n /\ Claimed(n) =>
        graph[n][0] # <<>> \/ \E w \in DOMAIN worker : Busy(w) /\ worker[w].node = n
FinishedLinked == \A n \in Nodes : 1 <= n /\ n < batch.start => graph[n][0] # <<>>

GraphInv ==
    /\ HnswInv /\ GraphOK /\ \A w \in DOMAIN worker : LocalsOK(w)
    /\ LinkedHeld /\ FinishedLinked
    /\ Alone /\ ~Cancelled => Claimed(entry.node)

LEMMA Having_Facts ==
    ASSUME BuildInputs, corpus \in Corpora
    PROVE  /\ \A l : Having(l) \subseteq Nodes
           /\ \A l \in Nat : \A n : n \in Having(l) <=> n \in Nodes /\ l \in Layers(n)
           /\ \A l, h \in Nat : l <= h => Having(h) \subseteq Having(l)
           /\ Having(0) = Nodes
<1>1. \A n \in Nodes : corpus.level[n] \in Nat
  BY Corpus_Facts
<1> QED BY <1>1 DEF Having, Layers

\* The lists hold nodes of their layer: with others at work a worker may meet any of them.
LEMMA Clear_Many ==
    ASSUME BuildInputs, corpus \in Corpora, GraphOK, ~Alone, NEW w, NEW l \in Nat
    PROVE  Clear(w, l)
<1>1. \A n \in Having(l) : ToSet(graph[n][l]) \subseteq Having(l)
  <2> TAKE n \in Having(l)
  <2>1. n \in Nodes /\ l \in Layers(n)
    BY Having_Facts
  <2>2. graph[n][l] \in Seq(Having(l))
    BY <2>1 DEF GraphOK, ListOK
  <2> QED BY <2>2, ToSet_In
<1> QED BY <1>1 DEF Clear, Reach

LEMMA Reach_Same ==
    ASSUME NEW w, UNCHANGED <<corpus, batch>>, worker'[w].node = worker[w].node
    PROVE  /\ Nodes' = Nodes /\ (Alone' <=> Alone) /\ (Cancelled' <=> Cancelled)
           /\ \A l : Having(l)' = Having(l) /\ Reach(w, l)' = Reach(w, l)
           /\ \A n : (Claimed(n)' <=> Claimed(n)) /\ Layers(n)' = Layers(n)
<1>1. corpus' = corpus /\ batch' = batch
  OBVIOUS
<1>2. Nodes' = Nodes /\ (Alone' <=> Alone) /\ (Cancelled' <=> Cancelled)
  BY <1>1 DEF Nodes, Alone, Cancelled
<1>3. \A n : (Claimed(n)' <=> Claimed(n)) /\ Layers(n)' = Layers(n)
  BY <1>1, <1>2 DEF Claimed, BatchEnd, Layers
<1>4. \A l : Having(l)' = Having(l)
  BY <1>1, <1>2 DEF Having
<1> QED BY <1>2, <1>3, <1>4 DEF Reach

\* What another worker holds is not touched, unless there is none.
LEMMA Others_OK ==
    ASSUME BuildInputs, GraphInv, HnswInv', GraphOK', NEW w \in DOMAIN worker, NEW v \in DOMAIN worker,
           v # w, worker'[v] = worker[v], corpus' = corpus, batch'.start = batch.start,
           \A n \in Nodes : graph[n][0] # <<>> => graph'[n][0] # <<>>
    PROVE  LocalsOK(v)'
<1>1. ~Alone /\ ~Alone'
  <2>1. DOMAIN worker = 1 .. corpus.threads /\ corpus.threads \in Nat
    BY DEF GraphInv, HnswInv, BuildInputs
  <2>2. corpus.threads # 1
    BY <2>1
  <2> QED BY <2>2 DEF Alone
<1>2. Nodes' = Nodes /\ (\A n : Layers(n)' = Layers(n)) /\ (Cancelled' <=> Cancelled)
  BY DEF Nodes, Layers, Cancelled
<1>3. \A l : Having(l)' = Having(l)
  BY <1>2 DEF Having
<1>4. \A l : Reach(v, l) = Having(l) /\ Reach(v, l)' = Having(l)
  BY <1>1, <1>3 DEF Reach
<1>5. \A l \in Nat : Clear(v, l)'
  <2> TAKE l \in Nat
  <2> SUFFICES ASSUME NEW n \in Having(l) PROVE ToSet(graph'[n][l]) \subseteq Having(l)
    BY <1>3, <1>4 DEF Clear
  <2>1. n \in Nodes /\ l \in Layers(n)
    BY Having_Facts DEF GraphInv, HnswInv
  <2>2. graph'[n][l] \in Seq(Having(l))
    BY <1>2, <1>3, <2>1 DEF GraphOK, ListOK
  <2> QED BY <2>2, ToSet_In
<1>6. LocalsOK(v)
  BY DEF GraphInv
<1>7. (Busy(v)' <=> Busy(v)) /\ (Busy(v) => worker[v].node \in Nodes)
  BY DEF Busy, GraphInv, HnswInv, WorkerOK
<1>8. StartOK(v)' /\ DescendOK(v)'
  BY <1>4, <1>5, <1>6 DEF LocalsOK, StartOK, DescendOK
<1>9. FoundOK(v)'
  <2>1. worker[v].pc \in {"search", "extend", "back"} => worker[v].layer \in Nat
    BY <1>6 DEF LocalsOK, FoundOK, Layers
  <2>2. worker[v].layer \in Nat => \A l \in 0 .. (worker[v].layer - 1) : l \in Nat
    OBVIOUS
  <2> QED BY <1>2, <1>4, <1>5, <1>6, <2>1, <2>2 DEF LocalsOK, FoundOK
<1>10. SearchOK(v)' /\ ExtendOK(v)'
  BY <1>4, <1>6 DEF LocalsOK, SearchOK, ExtendOK
<1>11. BackOK(v)'
  BY <1>1, <1>4, <1>6 DEF LocalsOK, BackOK
<1>12. LinkedOK(v)'
  BY <1>6, <1>7 DEF LocalsOK, LinkedOK, Busy
<1> QED BY <1>1, <1>2, <1>6, <1>7, <1>8, <1>9, <1>10, <1>11, <1>12 DEF LocalsOK

\* A worker that goes on with the node it has claimed.
LEMMA Work_Inv ==
    ASSUME BuildInputs, GraphInv, HnswInv', NEW w \in DOMAIN worker, NEW k, Become(w, k),
           Busy(w), k.node = worker[w].node, k.pc \notin {"claim", "joined"},
           UNCHANGED <<corpus, entry, batch>>, GraphOK',
           \A n \in Nodes : graph[n][0] # <<>> => graph'[n][0] # <<>>,
           (StartOK(w) /\ DescendOK(w) /\ FoundOK(w) /\ SearchOK(w) /\ ExtendOK(w) /\ BackOK(w)
            /\ LinkedOK(w))'
    PROVE  GraphInv'
<1>1. /\ DOMAIN worker' = DOMAIN worker /\ worker'[w] = k
      /\ \A v \in DOMAIN worker : v # w => worker'[v] = worker[v]
  BY DEF Become
<1>2. /\ Nodes' = Nodes /\ (Alone' <=> Alone) /\ (Cancelled' <=> Cancelled)
      /\ \A n : Claimed(n)' <=> Claimed(n)
  BY <1>1, Reach_Same
<1>3. \A v \in DOMAIN worker : (Busy(v)' <=> Busy(v)) /\ worker'[v].node = worker[v].node
  BY <1>1 DEF Busy
<1>4. ASSUME NEW v \in DOMAIN worker PROVE LocalsOK(v)'
  <2>1. CASE v = w
    <3>1. LocalsOK(w) /\ Busy(w)'
      BY <1>3 DEF GraphInv
    <3> QED BY <1>1, <1>2, <2>1, <3>1 DEF LocalsOK
  <2>2. CASE v # w
    BY <1>1, <2>2, Others_OK
  <2> QED BY <2>1, <2>2
<1>5. LinkedHeld'
  BY <1>1, <1>2, <1>3 DEF GraphInv, LinkedHeld
<1>6. FinishedLinked'
  BY <1>2 DEF GraphInv, FinishedLinked
<1>7. Alone' /\ ~Cancelled' => Claimed(entry.node)'
  BY <1>2 DEF GraphInv
<1> QED BY <1>1, <1>4, <1>5, <1>6, <1>7 DEF GraphInv

\* The same when it writes no list.
LEMMA Read_Inv ==
    ASSUME BuildInputs, GraphInv, HnswInv', NEW w \in DOMAIN worker, NEW k, Become(w, k),
           Busy(w), k.node = worker[w].node, k.pc \notin {"claim", "joined", "start"},
           UNCHANGED <<corpus, entry, batch, graph>>,
           (DescendOK(w) /\ FoundOK(w) /\ SearchOK(w) /\ ExtendOK(w) /\ BackOK(w) /\ LinkedOK(w))'
    PROVE  GraphInv'
<1>1. worker'[w] = k
  BY DEF Become
<1>2. /\ Nodes' = Nodes /\ (Alone' <=> Alone) /\ (Cancelled' <=> Cancelled)
      /\ \A l : Having(l)' = Having(l)
      /\ \A n : (Claimed(n)' <=> Claimed(n)) /\ Layers(n)' = Layers(n)
  BY <1>1, Reach_Same
<1>3. GraphOK'
  <2>1. \A n, l : ListOK(n, l) => ListOK(n, l)'
    BY <1>2 DEF ListOK, Degree
  <2> QED BY <1>2, <2>1 DEF GraphInv, GraphOK
<1>4. StartOK(w)'
  BY <1>1 DEF StartOK
<1> QED BY <1>3, <1>4, Work_Inv

Fields == {"pc", "node", "limit", "ep", "layer", "seen", "frontier", "found", "pool", "left", "links"}

\* What is known of a worker that inserts.
LEMMA Worker_Facts ==
    ASSUME BuildInputs, GraphInv, NEW w \in DOMAIN worker, Busy(w)
    PROVE  /\ DOMAIN worker[w] = Fields /\ worker[w].node \in Nodes
           /\ corpus.level[worker[w].node] \in Nat /\ LocalsOK(w) /\ corpus \in Corpora
           /\ GraphOK /\ entry.node \in Nodes /\ entry.level \in Nat
           /\ corpus.level[entry.node] = entry.level
           /\ Alone => Claimed(entry.node) /\ Claimed(worker[w].node) /\ worker[w].node # entry.node
           /\ worker[w].pc # "start" => worker[w].limit \in Nat
<1>1. HnswInv /\ LocalsOK(w) /\ WorkerOK(w) /\ GraphOK
  BY DEF GraphInv, HnswInv
<1>2. DOMAIN Between = Fields
  BY DEF Between, Fields
<1>3. DOMAIN worker[w] = Fields /\ worker[w].node \in Nodes /\ corpus \in Corpora
  BY <1>1, <1>2 DEF HnswInv, WorkerOK
<1>4. /\ corpus.level[worker[w].node] \in Nat /\ entry.node \in Nodes /\ entry.level \in Nat
      /\ corpus.level[entry.node] = entry.level
  BY <1>1, <1>3, Corpus_Facts DEF HnswInv, EntryOK
<1>5. Alone => Claimed(entry.node) /\ Claimed(worker[w].node) /\ worker[w].node # entry.node
  BY <1>1 DEF GraphInv, LocalsOK
<1>6. worker[w].pc # "start" => worker[w].limit \in Nat
  BY <1>1 DEF WorkerOK
<1> QED BY <1>1, <1>3, <1>4, <1>5, <1>6

LEMMA Searching_Inv ==
    ASSUME BuildInputs, GraphInv, HnswInv', NEW w \in DOMAIN worker, Busy(w), NEW k, NEW l, NEW from,
           DOMAIN k = Fields, k.node = worker[w].node, l \in Layers(worker[w].node),
           from \in SUBSET Reach(w, l), from # {}, \A h \in 0 .. l : Clear(w, h),
           Become(w, Searching(k, l, from)), UNCHANGED <<corpus, entry, batch, graph>>
    PROVE  GraphInv'
<1> DEFINE next == Searching(k, l, from)
<1>1. /\ next.pc = "search" /\ next.node = worker[w].node /\ next.layer = l
      /\ next.seen = from /\ next.frontier = from /\ next.found = from
  BY DEF Searching, Fields
<1> HIDE DEF next
<1>2. worker'[w] = next
  BY DEF Become, next
<1>3. /\ \A h : Having(h)' = Having(h) /\ Reach(w, h)' = Reach(w, h)
      /\ \A n : Layers(n)' = Layers(n)
  BY <1>1, <1>2, Reach_Same
<1>4. \A h : Clear(w, h)' <=> Clear(w, h)
  BY <1>3 DEF Clear
<1>5. l \in Nat
  BY Worker_Facts DEF Layers
<1>6. FoundOK(w)'
  BY <1>1, <1>2, <1>3, <1>4, <1>5 DEF FoundOK
<1>7. (DescendOK(w) /\ SearchOK(w) /\ ExtendOK(w) /\ BackOK(w) /\ LinkedOK(w))'
  BY <1>1, <1>2, <1>3 DEF DescendOK, SearchOK, ExtendOK, BackOK, LinkedOK
<1>8. Become(w, next)
  BY DEF next
<1> QED BY <1>1, <1>6, <1>7, <1>8, Read_Inv

LEMMA Start_Inv ==
    ASSUME BuildInputs, GraphInv, HnswInv', NEW w \in DOMAIN worker, Start(w) PROVE GraphInv'
<1> DEFINE k == [worker[w] EXCEPT !.ep = entry.node, !.limit = entry.level, !.layer = entry.level]
           node == worker[w].node
<1>1. Busy(w) /\ worker[w].pc = "start" /\ UNCHANGED <<corpus, entry, batch, graph>>
  <2>1. k.pc = worker[w].pc
    OBVIOUS
  <2> QED BY <2>1 DEF Start, Busy
<1>2. /\ DOMAIN k = Fields /\ k.ep = entry.node /\ k.layer = entry.level /\ k.node = node
  BY <1>1, Worker_Facts DEF Fields
<1>3. \A l \in Nat : Clear(w, l)
  BY <1>1, Worker_Facts DEF LocalsOK, StartOK
<1>4. entry.node \in Reach(w, entry.level)
  BY <1>1, Worker_Facts DEF Reach, Having
<1>5. CASE entry.level > corpus.level[node]
  <2> DEFINE next == [k EXCEPT !.pc = "descend"]
  <2>1. Become(w, next)
    BY <1>2, <1>5 DEF Start
  <2> HIDE DEF k
  <2>2. next.pc = "descend" /\ next.node = node /\ next.ep = entry.node /\ next.layer = entry.level
    BY <1>2 DEF Fields
  <2> HIDE DEF next
  <2>3. worker'[w] = next
    BY <2>1 DEF Become
  <2>4. \A h : Having(h)' = Having(h) /\ Reach(w, h)' = Reach(w, h)
    BY <1>1, <2>2, <2>3, Reach_Same
  <2>5. \A h : Clear(w, h)' <=> Clear(w, h)
    BY <1>1, <2>4 DEF Clear
  <2>6. DescendOK(w)'
    BY <1>1, <1>3, <1>4, <1>5, <2>2, <2>3, <2>4, <2>5, Worker_Facts DEF DescendOK
  <2>7. (FoundOK(w) /\ SearchOK(w) /\ ExtendOK(w) /\ BackOK(w) /\ LinkedOK(w))'
    BY <2>2, <2>3 DEF FoundOK, SearchOK, ExtendOK, BackOK, LinkedOK
  <2> QED BY <1>1, <2>1, <2>2, <2>6, <2>7, Read_Inv
<1>6. CASE ~(entry.level > corpus.level[node])
  <2>1. Become(w, Searching(k, entry.level, {entry.node}))
    BY <1>2, <1>6 DEF Start
  <2>2. entry.level \in Layers(node) /\ \A h \in 0 .. entry.level : Clear(w, h)
    BY <1>1, <1>3, <1>6, Worker_Facts DEF Layers
  <2> HIDE DEF k
  <2> QED BY <1>1, <1>2, <1>4, <2>1, <2>2, Searching_Inv
<1> QED BY <1>5, <1>6

\* What a worker may meet on a layer: nodes of it, and those of the layers above.
LEMMA Reach_Facts ==
    ASSUME BuildInputs, corpus \in Corpora, NEW w, NEW l \in Nat
    PROVE  /\ Reach(w, l) \subseteq Nodes /\ Reach(w, l) \subseteq Having(l)
           /\ \A h \in Nat : l <= h => Reach(w, h) \subseteq Reach(w, l)
<1>1. Reach(w, l) \subseteq Nodes /\ Reach(w, l) \subseteq Having(l)
  BY Having_Facts DEF Reach
<1>2. \A h \in Nat : l <= h => Having(h) \subseteq Having(l)
  BY Having_Facts
<1> QED BY <1>1, <1>2 DEF Reach

\* A list that is free for the worker has only what it may meet.
LEMMA List_In ==
    ASSUME BuildInputs, corpus \in Corpora, GraphOK, NEW w, NEW l \in Nat, Clear(w, l),
           NEW n \in Having(l)
    PROVE  /\ graph[n][l] \in Seq(Reach(w, l)) /\ ToSet(graph[n][l]) \subseteq Reach(w, l)
<1>1. n \in Nodes /\ l \in Layers(n)
  BY Having_Facts
<1>2. graph[n][l] \in Seq(Having(l))
  BY <1>1 DEF GraphOK, ListOK
<1>3. graph[n][l] \in Seq(ToSet(graph[n][l]))
  BY <1>2, ToSet_In
<1>4. ToSet(graph[n][l]) \subseteq Reach(w, l)
  BY DEF Clear
<1> HIDE DEF Reach
<1> QED BY <1>3, <1>4

LEMMA Descend_Inv ==
    ASSUME BuildInputs, GraphInv, HnswInv', NEW w \in DOMAIN worker, Descend(w) PROVE GraphInv'
<1> DEFINE k == worker[w]
           node == k.node
           level == corpus.level[node]
           best == FoldLeft(LAMBDA b, n : IF Dist(k.node, n) < Dist(k.node, b) THEN n ELSE b,
                            k.ep, graph[k.ep][Below(k.layer, corpus.level[k.ep])])
<1>1. /\ Busy(w) /\ k.pc = "descend" /\ UNCHANGED <<corpus, entry, batch, graph>>
      /\ Become(w, IF best # k.ep THEN [k EXCEPT !.ep = best]
                   ELSE IF k.layer - 1 > level THEN [k EXCEPT !.layer = @ - 1]
                   ELSE Searching(k, Below(level, k.limit), {k.ep}))
  BY DEF Descend, Busy
<1>2. /\ DOMAIN k = Fields /\ node \in Nodes /\ level \in Nat /\ corpus \in Corpora /\ GraphOK
      /\ LocalsOK(w) /\ k.limit \in Nat
  BY <1>1, Worker_Facts
<1>3. /\ \A l \in Nat : Clear(w, l)
      /\ k.layer \in Nat /\ k.layer > level /\ k.ep \in Reach(w, k.layer)
  BY <1>1, <1>2 DEF LocalsOK, DescendOK
<1>4. best \in Reach(w, k.layer)
  <2>1. k.ep \in Having(k.layer)
    BY <1>2, <1>3, Reach_Facts
  <2>2. Below(k.layer, corpus.level[k.ep]) = k.layer
    BY <1>2, <1>3, <2>1, Corpus_Facts DEF Below, Having
  <2>3. graph[k.ep][k.layer] \in Seq(Reach(w, k.layer))
    BY <1>2, <1>3, <2>1, List_In
  <2> DEFINE list == graph[k.ep][k.layer]
  <2>4. best = BestFold!Fold(k.node, k.ep, list)
    BY <2>2 DEF FoldLeft, MapThenFoldSet, Max, BestFold!Fold, BestFold!Greatest, BestStep
  <2>5. k.ep \in Reach(w, k.layer) /\ list \in Seq(Reach(w, k.layer))
    BY <1>3, <2>3
  <2> HIDE DEF list, best, k
  <2> QED BY <2>4, <2>5, Best_In
<1> HIDE DEF best, k, node, level
<1>5. ASSUME NEW next, Become(w, next), next.pc = "descend", next.node = node,
             next.layer \in Nat, next.layer > level, next.ep \in Reach(w, next.layer)
      PROVE  GraphInv'
  <2>1. worker'[w] = next /\ worker'[w].node = worker[w].node
    BY <1>5 DEF Become, k, node
  <2>2. \A h : Having(h)' = Having(h) /\ Reach(w, h)' = Reach(w, h)
    BY <1>1, <2>1, Reach_Same
  <2>3. \A h : Clear(w, h)' <=> Clear(w, h)
    BY <1>1, <2>2 DEF Clear
  <2>4. level = corpus.level[next.node]
    BY <1>5 DEF level
  <2>5. DescendOK(w)'
    BY <1>1, <1>3, <1>5, <2>1, <2>2, <2>3, <2>4 DEF DescendOK
  <2>6. (FoundOK(w) /\ SearchOK(w) /\ ExtendOK(w) /\ BackOK(w) /\ LinkedOK(w))'
    BY <1>5, <2>1 DEF FoundOK, SearchOK, ExtendOK, BackOK, LinkedOK
  <2> QED BY <1>1, <1>5, <2>1, <2>5, <2>6, Read_Inv
<1>6. CASE best # k.ep
  <2>1. Become(w, [k EXCEPT !.ep = best])
    BY <1>1, <1>6
  <2>2. [k EXCEPT !.ep = best].pc = "descend" /\ [k EXCEPT !.ep = best].node = node
        /\ [k EXCEPT !.ep = best].layer = k.layer /\ [k EXCEPT !.ep = best].ep = best
    BY <1>1, <1>2 DEF Fields, node
  <2> QED BY <1>3, <1>4, <1>5, <2>1, <2>2
<1>7. CASE best = k.ep /\ k.layer - 1 > level
  <2>1. Become(w, [k EXCEPT !.layer = @ - 1])
    BY <1>1, <1>7
  <2>2. [k EXCEPT !.layer = @ - 1].pc = "descend" /\ [k EXCEPT !.layer = @ - 1].node = node
        /\ [k EXCEPT !.layer = @ - 1].layer = k.layer - 1 /\ [k EXCEPT !.layer = @ - 1].ep = k.ep
    BY <1>1, <1>2 DEF Fields, node
  <2>3. k.layer - 1 \in Nat /\ k.layer - 1 <= k.layer
    BY <1>2, <1>3, <1>7
  <2>4. k.ep \in Reach(w, k.layer - 1)
    BY <1>2, <1>3, <2>3, Reach_Facts
  <2> QED BY <1>5, <1>7, <2>1, <2>2, <2>3, <2>4
<1>8. CASE best = k.ep /\ ~(k.layer - 1 > level)
  <2> DEFINE l == Below(level, k.limit)
  <2>1. Become(w, Searching(k, l, {k.ep}))
    BY <1>1, <1>8
  <2>2. l \in Nat /\ l <= level /\ l <= k.layer
    BY <1>2, <1>3 DEF Below
  <2> HIDE DEF l
  <2>3. l \in Layers(node) /\ \A h \in 0 .. l : Clear(w, h)
    BY <1>2, <1>3, <2>2 DEF Layers, level
  <2>4. {k.ep} \in SUBSET Reach(w, l)
    BY <1>2, <1>3, <2>2, Reach_Facts
  <2>5. DOMAIN k = Fields /\ k.node = worker[w].node /\ node = worker[w].node
    BY <1>2 DEF k, node
  <2> QED BY <1>1, <2>1, <2>3, <2>4, <2>5, Searching_Inv
<1> QED BY <1>6, <1>7, <1>8

\* A worker that stays on its layer and has read its lists.
LEMMA Going_Inv ==
    ASSUME BuildInputs, GraphInv, HnswInv', NEW w \in DOMAIN worker,
           worker[w].pc \in {"search", "extend"}, UNCHANGED <<corpus, entry, batch, graph>>,
           NEW k, Become(w, k), k.pc \in {"search", "extend"}, k.node = worker[w].node,
           k.layer = worker[w].layer,
           k.found \in SUBSET Reach(w, worker[w].layer), k.found # {},
           k.pc = "search" => k.seen \in SUBSET Reach(w, worker[w].layer)
                              /\ k.found \subseteq k.seen
                              /\ k.frontier \in SUBSET Reach(w, worker[w].layer),
           k.pc = "extend" => k.pool \in SUBSET Reach(w, worker[w].layer) /\ k.pool # {}
                              /\ k.left \in SUBSET Reach(w, worker[w].layer)
    PROVE  GraphInv'
<1> DEFINE layer == worker[w].layer
           R == Reach(w, layer)
<1>1. Busy(w) /\ worker'[w] = k
  BY DEF Busy, Become
<1>2. /\ layer \in Layers(worker[w].node) /\ \A l \in 0 .. (layer - 1) : Clear(w, l)
      /\ Clear(w, layer)
  BY <1>1, Worker_Facts DEF LocalsOK, FoundOK
<1>3. \A h : Having(h)' = Having(h) /\ Reach(w, h)' = Reach(w, h)
  BY <1>1, Reach_Same
<1>4. \A h : (Clear(w, h)' <=> Clear(w, h)) /\ Layers(h)' = Layers(h)
  BY <1>1, <1>3, Reach_Same DEF Clear
<1>5. k.layer = layer /\ k.found \in SUBSET R
      /\ (k.pc = "search" => k.seen \in SUBSET R /\ k.frontier \in SUBSET R)
      /\ (k.pc = "extend" => k.pool \in SUBSET R /\ k.left \in SUBSET R)
  OBVIOUS
<1>6. Reach(w, k.layer)' = R
  BY <1>3, <1>5
<1> HIDE DEF R, layer
<1>7. FoundOK(w)'
  BY <1>1, <1>2, <1>4, <1>5, <1>6 DEF FoundOK
<1>8. SearchOK(w)' /\ ExtendOK(w)'
  BY <1>1, <1>5, <1>6 DEF SearchOK, ExtendOK
<1>9. (DescendOK(w) /\ BackOK(w) /\ LinkedOK(w))'
  BY <1>1 DEF DescendOK, BackOK, LinkedOK
<1> QED BY <1>1, <1>7, <1>8, <1>9, Read_Inv

\* The end of a search hands on what it found; a round of it meets a free list.
LEMMA Search_Inv ==
    ASSUME BuildInputs, LinkInputs, GraphInv, HnswInv', NEW w \in DOMAIN worker, Search(w)
    PROVE  GraphInv'
<1> DEFINE k == worker[w]
           c == NearestTo(k.node, k.frontier)
           R == Reach(w, k.layer)
           start == [seen |-> k.seen, frontier |-> k.frontier \ {c}, found |-> k.found]
           met == FoldLeft(LAMBDA s, n : Met(k.node, s, n), start, graph[c][k.layer])
<1>1. /\ Busy(w) /\ k.pc = "search" /\ UNCHANGED <<corpus, entry, batch, graph>>
  BY DEF Search, Busy
<1>2. /\ DOMAIN k = Fields /\ k.node \in Nodes /\ corpus.level[k.node] \in Nat
      /\ corpus \in Corpora /\ GraphOK /\ LocalsOK(w)
  BY <1>1, Worker_Facts
<1>3. /\ k.layer \in Layers(k.node) /\ k.layer \in Nat
      /\ k.found \in SUBSET R /\ k.found # {}
      /\ \A l \in 0 .. (k.layer - 1) : Clear(w, l)
      /\ Clear(w, k.layer)
      /\ k.seen \in SUBSET R /\ k.found \subseteq k.seen /\ k.frontier \in SUBSET R
  BY <1>1, <1>2 DEF LocalsOK, FoundOK, SearchOK, Layers
<1>4. PICK over : Become(w, IF over
                     THEN [k EXCEPT !.pc = "extend", !.pool = k.found,
                                    !.left = IF Extends THEN k.found ELSE {}]
                     ELSE IF k.layer > corpus.level[c] THEN [k EXCEPT !.frontier = @ \ {c}]
                     ELSE [k EXCEPT !.seen = met.seen, !.frontier = met.frontier,
                                    !.found = met.found])
              /\ (~over => k.frontier # {})
  <2> DEFINE over == \/ k.frontier = {}
                     \/ /\ Cardinality(k.found) >= Ef
                        /\ Dist(k.node, c) > Dist(k.node, FurthestFrom(k.node, k.found))
             popped == [k EXCEPT !.frontier = @ \ {c}]
             met1 == FoldLeft(LAMBDA s, n : Met(k.node, s, n),
                        [seen |-> k.seen, frontier |-> popped.frontier, found |-> k.found],
                        graph[c][k.layer])
  <2>1. Become(w, IF over
                     THEN [k EXCEPT !.pc = "extend", !.pool = k.found,
                                    !.left = IF Extends THEN k.found ELSE {}]
                     ELSE IF k.layer > corpus.level[c] THEN popped
                     ELSE [k EXCEPT !.seen = met1.seen, !.frontier = met1.frontier,
                                    !.found = met1.found])
    BY Zenon DEF Search
  <2>2. popped.frontier = k.frontier \ {c}
    BY <1>2 DEF Fields
  <2>3. met1 = met
    BY <2>2, Zenon
  <2> HIDE DEF met1, met
  <2>4. ~over => k.frontier # {}
    OBVIOUS
  <2> HIDE DEF over
  <2> QED BY <2>1, <2>3, <2>4
<1>5. ASSUME NEW next, Become(w, next), next.pc \in {"search", "extend"}, next.node = k.node,
             next.layer = k.layer, next.found \in SUBSET R, next.found # {},
             next.pc = "search" => next.seen \in SUBSET R /\ next.found \subseteq next.seen
                                   /\ next.frontier \in SUBSET R,
             next.pc = "extend" => next.pool \in SUBSET R /\ next.pool # {}
                                   /\ next.left \in SUBSET R
      PROVE  GraphInv'
  BY <1>1, <1>5, Going_Inv DEF k, R
<1>6. CASE over
  <2> DEFINE next == [k EXCEPT !.pc = "extend", !.pool = k.found,
                               !.left = IF Extends THEN k.found ELSE {}]
  <2>1. Become(w, next)
    BY <1>4, <1>6
  <2>2. /\ next.pc = "extend" /\ next.node = k.node /\ next.layer = k.layer
        /\ next.found = k.found /\ next.pool = k.found /\ next.left \subseteq k.found
    BY <1>2 DEF Fields
  <2> HIDE DEF next, k, R
  <2> QED BY <1>3, <1>5, <2>1, <2>2
<1>7. CASE ~over /\ k.layer > corpus.level[c]
  <2> DEFINE next == [k EXCEPT !.frontier = @ \ {c}]
  <2>1. Become(w, next)
    BY <1>4, <1>7
  <2>2. /\ next.pc = "search" /\ next.node = k.node /\ next.layer = k.layer
        /\ next.found = k.found /\ next.seen = k.seen /\ next.frontier \subseteq k.frontier
    BY <1>1, <1>2 DEF Fields
  <2> HIDE DEF next, k, R
  <2> QED BY <1>3, <1>5, <2>1, <2>2
<1>8. CASE ~over /\ ~(k.layer > corpus.level[c])
  <2> DEFINE next == [k EXCEPT !.seen = met.seen, !.frontier = met.frontier, !.found = met.found]
  <2>1. Become(w, next)
    BY <1>4, <1>8
  <2>2. c \in R /\ c \in Having(k.layer)
    <3>1. R \subseteq Nodes /\ R \subseteq Having(k.layer)
      BY <1>2, <1>3, Reach_Facts
    <3>2. c \in k.frontier
      BY <1>2, <1>3, <1>4, <1>8, <3>1, NearestTo_In
    <3> QED BY <1>3, <3>1, <3>2
  <2>3. graph[c][k.layer] \in Seq(R)
    BY <1>2, <1>3, <2>2, List_In
  <2>4. start \in Searches(R)
    BY <1>3 DEF Searches
  <2> DEFINE list == graph[c][k.layer]
  <2> HIDE DEF start, R, k, c
  <2>5. met \in Searches(R)
    <3>1. list \in Seq(R)
      BY <2>3
    <3>2. met = MetFold!Fold(k.node, start, list)
      BY DEF FoldLeft, MapThenFoldSet, Max, MetFold!Fold, MetFold!Greatest, MetStep
    <3> HIDE DEF list, met
    <3> QED BY <2>4, <3>1, <3>2, Round_In
  <2> HIDE DEF met
  <2>6. /\ met.seen \in SUBSET R /\ met.frontier \in SUBSET R /\ met.found \in SUBSET R
        /\ met.found # {} /\ met.found \subseteq met.seen
    BY <2>5 DEF Searches
  <2>7. /\ next.pc = "search" /\ next.node = k.node /\ next.layer = k.layer
        /\ next.found = met.found /\ next.seen = met.seen /\ next.frontier = met.frontier
    BY <1>1, <1>2 DEF Fields
  <2> HIDE DEF next, k
  <2> QED BY <1>5, <2>1, <2>6, <2>7
<1> QED BY <1>6, <1>7, <1>8

\* extend_candidates: what the candidates name joins them.
LEMMA Extend_Inv ==
    ASSUME BuildInputs, LinkInputs, GraphInv, HnswInv', NEW w \in DOMAIN worker, Extend(w)
    PROVE  GraphInv'
<1> DEFINE k == worker[w]
           R == Reach(w, k.layer)
           c == NearestTo(k.node, k.left)
           more == IF k.layer > corpus.level[c] THEN {} ELSE ToSet(graph[c][k.layer])
           next == [k EXCEPT !.pool = @ \cup more, !.left = @ \ {c}]
<1>1. /\ Busy(w) /\ k.pc = "extend" /\ k.left # {} /\ UNCHANGED <<corpus, entry, batch, graph>>
      /\ Become(w, next)
  BY DEF Extend, Busy
<1>2. /\ DOMAIN k = Fields /\ k.node \in Nodes /\ corpus \in Corpora /\ GraphOK /\ LocalsOK(w)
      /\ corpus.level[k.node] \in Nat
  BY <1>1, Worker_Facts
<1>3. /\ k.layer \in Nat /\ k.found \in SUBSET R /\ k.found # {} /\ Clear(w, k.layer)
      /\ k.pool \in SUBSET R /\ k.pool # {} /\ k.left \in SUBSET R
  BY <1>1, <1>2 DEF LocalsOK, FoundOK, ExtendOK, Layers
<1>4. R \subseteq Nodes /\ R \subseteq Having(k.layer)
  BY <1>2, <1>3, Reach_Facts
<1>5. c \in Having(k.layer)
  <2>1. c \in k.left
    BY <1>1, <1>2, <1>3, <1>4, NearestTo_In
  <2> QED BY <1>3, <1>4, <2>1
<1>6. ToSet(graph[c][k.layer]) \subseteq R
  BY <1>2, <1>3, <1>5, List_In
<1>7. more \subseteq R
  BY <1>6
<1>8. /\ next.pc = "extend" /\ next.node = k.node /\ next.layer = k.layer
      /\ next.found = k.found /\ next.pool = k.pool \cup more /\ next.left \subseteq k.left
  BY <1>1, <1>2 DEF Fields
<1> HIDE DEF next, more, c
<1> QED BY <1>1, <1>3, <1>7, <1>8, Going_Inv

\* On the ground the node is linked; above it, the search below starts where this one ended.
LEMMA NextLayer_Inv ==
    ASSUME BuildInputs, GraphInv, HnswInv', NEW w \in DOMAIN worker, NextLayer(w) PROVE GraphInv'
<1> DEFINE k == worker[w]
<1>1. /\ Busy(w) /\ k.pc = "back" /\ UNCHANGED <<corpus, entry, batch, graph>>
      /\ Become(w, IF k.layer = 0 THEN [k EXCEPT !.pc = "promote"]
                   ELSE Searching(k, k.layer - 1, k.found))
  BY DEF NextLayer, Busy
<1>2. /\ DOMAIN k = Fields /\ k.node \in Nodes /\ corpus \in Corpora /\ GraphOK /\ LocalsOK(w)
      /\ corpus.level[k.node] \in Nat
  BY <1>1, Worker_Facts
<1>3. /\ k.layer \in Nat /\ k.layer <= corpus.level[k.node]
      /\ k.found \in SUBSET Reach(w, k.layer) /\ k.found # {}
      /\ \A l \in 0 .. (k.layer - 1) : Clear(w, l)
  BY <1>1, <1>2 DEF LocalsOK, FoundOK, Layers
<1>4. CASE k.layer = 0
  <2> DEFINE next == [k EXCEPT !.pc = "promote"]
  <2>1. Become(w, next)
    BY <1>1, <1>4
  <2>2. next.pc = "promote" /\ next.node = k.node
    BY <1>2 DEF Fields
  <2>3. graph[k.node][0] # <<>>
    BY <1>1, <1>2, <1>4 DEF LocalsOK, LinkedOK
  <2> HIDE DEF next
  <2>4. worker'[w] = next
    BY <2>1 DEF Become
  <2>5. (DescendOK(w) /\ FoundOK(w) /\ SearchOK(w) /\ ExtendOK(w) /\ BackOK(w))'
    BY <2>2, <2>4 DEF DescendOK, FoundOK, SearchOK, ExtendOK, BackOK
  <2>6. LinkedOK(w)'
    BY <1>1, <2>2, <2>3, <2>4 DEF LinkedOK
  <2> QED BY <1>1, <2>1, <2>2, <2>5, <2>6, Read_Inv
<1>5. CASE k.layer # 0
  <2>1. Become(w, Searching(k, k.layer - 1, k.found))
    BY <1>1, <1>5
  <2>2. k.layer - 1 \in Nat /\ k.layer - 1 <= k.layer /\ k.layer - 1 \in Layers(k.node)
    BY <1>2, <1>3, <1>5 DEF Layers
  <2>3. k.found \in SUBSET Reach(w, k.layer - 1)
    BY <1>2, <1>3, <2>2, Reach_Facts
  <2> QED BY <1>1, <1>2, <1>3, <2>1, <2>2, <2>3, Searching_Inv
<1> QED BY <1>4, <1>5
-----------------------------------------------------------------------------
(* The two writes.                                                         *)

LEMMA Degree_Type ==
    ASSUME LinkInputs, NEW l \in Nat PROVE Degree(l) \in Nat \ {0}
BY DEF LinkInputs, Degree

\* All lists but one are as before.
OthersKept(n, l) == \A m, h : m # n \/ h # l => graph'[m][h] = graph[m][h]

\* One list is written.
LEMMA Write_OK ==
    ASSUME BuildInputs, corpus \in Corpora, GraphOK, corpus' = corpus, batch' = batch,
           NEW n \in Nodes, NEW l \in Layers(n), NEW list,
           graph' = [graph EXCEPT ![n][l] = list],
           list \in Seq(Having(l)), Len(list) <= Degree(l),
           Alone => Once(list) /\ n \notin ToSet(list) /\ \A m \in ToSet(list) : Claimed(m)
    PROVE  GraphOK' /\ graph'[n][l] = list /\ OthersKept(n, l)
<1>1. DOMAIN graph = Nodes /\ DOMAIN graph[n] = Layers(n)
  BY DEF GraphOK
<1>2. /\ DOMAIN graph' = Nodes /\ graph'[n][l] = list
      /\ \A m \in Nodes : DOMAIN graph'[m] = DOMAIN graph[m]
      /\ \A m, h : m # n \/ h # l => graph'[m][h] = graph[m][h]
  BY <1>1
<1>3. Nodes' = Nodes /\ (Alone' <=> Alone) /\ (Cancelled' <=> Cancelled)
      /\ \A m : Claimed(m)' <=> Claimed(m)
  BY DEF Nodes, Alone, Cancelled, Claimed, BatchEnd
<1>4. \A m : Having(m)' = Having(m) /\ Layers(m)' = Layers(m)
  BY <1>3 DEF Having, Layers
<1>5. ASSUME NEW m \in Nodes, NEW h \in Layers(m) PROVE ListOK(m, h)'
  <2>1. CASE m = n /\ h = l
    BY <1>2, <1>3, <1>4, <2>1 DEF ListOK, Degree
  <2>2. CASE m # n \/ h # l
    <3>1. ListOK(m, h) /\ graph'[m][h] = graph[m][h]
      BY <1>2, <2>2 DEF GraphOK
    <3> QED BY <1>3, <1>4, <3>1 DEF ListOK, Degree
  <2> QED BY <2>1, <2>2
<1> QED BY <1>1, <1>2, <1>3, <1>4, <1>5 DEF GraphOK, OthersKept

LEMMA SetToSeq_Once ==
    ASSUME NEW S, IsFiniteSet(S)
    PROVE  SetToSeq(S) \in Seq(S) /\ Once(SetToSeq(S)) /\ (S # {} => SetToSeq(S) # <<>>)
<1> DEFINE n == Cardinality(S)
<1>1. n \in Nat /\ ExistsBijection(1 .. n, S) /\ (S # {} => n # 0)
  BY FS_CardinalityType, FS_EmptySet
<1> HIDE DEF n
<1>2. PICK f \in Bijection(1 .. n, S) : TRUE
  BY <1>1 DEF ExistsBijection
<1>3. f \in [1 .. n -> S] /\ IsInjective(f)
  BY <1>2 DEF Bijection, Injection, IsInjective
<1>4. SetToSeq(S) \in [1 .. n -> S] /\ IsInjective(SetToSeq(S))
  BY <1>3 DEF SetToSeq, n
<1> QED BY <1>1, <1>4 DEF IsInjective, Once

LEMMA Tail_Once ==
    ASSUME NEW S, NEW s \in Seq(S), s # <<>>
    PROVE  /\ Tail(s) \in Seq(S) /\ Head(s) \in S /\ Head(s) \in ToSet(s)
           /\ ToSet(Tail(s)) \subseteq ToSet(s)
           /\ Once(s) => Once(Tail(s)) /\ Head(s) \notin ToSet(Tail(s))
<1>1. /\ Len(s) \in Nat \ {0} /\ DOMAIN s = 1 .. Len(s) /\ Head(s) = s[1]
      /\ Tail(s) \in Seq(S) /\ DOMAIN Tail(s) = 1 .. Len(s) - 1
      /\ \A i \in 1 .. Len(s) - 1 : Tail(s)[i] = s[i + 1]
  OBVIOUS
<1>2. s[1] \in S /\ 1 \in DOMAIN s /\ \A i \in 1 .. Len(s) - 1 : i + 1 \in 1 .. Len(s) /\ i + 1 # 1
  BY <1>1
<1> DEFINE t == Tail(s)
<1> HIDE DEF t
<1>3. ToSet(t) \subseteq ToSet(s) /\ Head(s) \in ToSet(s)
  BY <1>1, <1>2 DEF ToSet, t
<1>4. ASSUME Once(s) PROVE Once(t) /\ Head(s) \notin ToSet(t)
  <2>1. \A i, j \in 1 .. Len(s) - 1 : i + 1 = j + 1 => i = j
    BY <1>1
  <2> QED BY <1>1, <1>2, <1>4, <2>1 DEF Once, ToSet, t
<1> QED BY <1>1, <1>2, <1>3, <1>4 DEF t

\* A worker that has written a list of its layer.
LEMMA Wrote_Inv ==
    ASSUME BuildInputs, GraphInv, HnswInv', NEW w \in DOMAIN worker,
           worker[w].pc \in {"extend", "back"}, UNCHANGED <<corpus, entry, batch>>,
           NEW k, Become(w, k), k.pc = "back", k.node = worker[w].node,
           k.layer = worker[w].layer, k.found = worker[w].found, GraphOK',
           \A m, h : h # worker[w].layer => graph'[m][h] = graph[m][h],
           \A m \in Nodes : graph[m][0] # <<>> => graph'[m][0] # <<>>,
           worker[w].layer = 0 => graph'[worker[w].node][0] # <<>>,
           k.links \in Seq(Reach(w, worker[w].layer)),
           Alone => Once(k.links) /\ \A m \in ToSet(k.links) :
                      worker[w].node \notin ToSet(graph'[m][worker[w].layer])
    PROVE  GraphInv'
<1>1. Busy(w) /\ worker'[w] = k
  BY DEF Busy, Become
<1>2. PICK layer, R : layer = worker[w].layer /\ R = Reach(w, layer)
  OBVIOUS
<1>3. /\ layer \in Nat /\ layer \in Layers(worker[w].node)
      /\ k.found \in SUBSET R /\ k.found # {}
      /\ \A l \in 0 .. (layer - 1) : Clear(w, l)
  BY <1>1, <1>2, Worker_Facts DEF LocalsOK, FoundOK, Layers
<1>4. /\ \A h : Having(h)' = Having(h) /\ Reach(w, h)' = Reach(w, h)
      /\ \A m : Layers(m)' = Layers(m)
      /\ (Alone' <=> Alone)
  BY <1>1, Reach_Same
<1>5. \A l \in 0 .. (layer - 1) : Clear(w, l)'
  <2> TAKE l \in 0 .. (layer - 1)
  <2>1. l # layer
    BY <1>3
  <2> QED BY <1>2, <1>3, <1>4, <2>1 DEF Clear
<1>6. k.layer = layer /\ Reach(w, k.layer)' = R
  BY <1>2, <1>4
<1>7. FoundOK(w)'
  BY <1>1, <1>3, <1>4, <1>5, <1>6 DEF FoundOK
<1>8. BackOK(w)'
  BY <1>1, <1>2, <1>4, <1>6 DEF BackOK
<1>9. LinkedOK(w)'
  BY <1>1, <1>2, <1>6 DEF LinkedOK
<1>10. (StartOK(w) /\ DescendOK(w) /\ SearchOK(w) /\ ExtendOK(w))'
  BY <1>1 DEF StartOK, DescendOK, SearchOK, ExtendOK
<1> QED BY <1>1, <1>7, <1>8, <1>9, <1>10, Work_Inv

\* The node's own list: what was selected from the pool.
LEMMA Link_Inv ==
    ASSUME BuildInputs, LinkInputs, GraphInv, HnswInv', NEW w \in DOMAIN worker, Link(w)
    PROVE  GraphInv'
<1> DEFINE k == worker[w]
           node == k.node
           layer == k.layer
           R == Reach(w, layer)
           cands == SetToSeq(k.pool)
           selected == select_from(node, cands, Degree(layer))
           next == [k EXCEPT !.pc = "back", !.links = selected]
<1>1. /\ Busy(w) /\ k.pc = "extend" /\ UNCHANGED <<corpus, entry, batch>>
      /\ graph' = [graph EXCEPT ![node][layer] = selected] /\ Become(w, next)
  BY DEF Link, Busy
<1>2. /\ DOMAIN k = Fields /\ node \in Nodes /\ corpus \in Corpora /\ GraphOK /\ LocalsOK(w)
      /\ corpus.level[node] \in Nat
  BY <1>1, Worker_Facts
<1>3. /\ layer \in Nat /\ layer \in Layers(node) /\ k.found \in SUBSET R /\ k.found # {}
      /\ Clear(w, layer) /\ \A l \in 0 .. (layer - 1) : Clear(w, l)
      /\ k.pool \in SUBSET R /\ k.pool # {}
  BY <1>1, <1>2 DEF LocalsOK, FoundOK, ExtendOK, Layers
<1>4. R \subseteq Nodes /\ R \subseteq Having(layer)
  BY <1>2, <1>3, Reach_Facts
<1>5. Alone => \A n \in R : Claimed(n) /\ n # node
  BY DEF Reach
<1>6. /\ selected \in Seq(R) /\ Len(selected) <= Degree(layer) /\ selected # <<>>
      /\ Once(selected)
  <2>1. IsFiniteSet(k.pool)
    <3>1. IsFiniteSet(Nodes)
      <4>1. PICK n \in Nat : Nodes = 0 .. n - 1
        BY <1>2, Corpus_Facts
      <4>2. IsFiniteSet(0 .. n - 1)
        BY FS_Interval
      <4> QED BY <4>1, <4>2
    <3> QED BY <1>3, <1>4, <3>1, FS_Subset
  <2>2. cands \in Seq(k.pool) /\ Once(cands) /\ cands # <<>>
    BY <1>3, <2>1, SetToSeq_Once
  <2>3. Degree(layer) \in Nat \ {0}
    BY <1>3, Degree_Type
  <2> HIDE DEF cands, k, layer, node, R
  <2>4. ToSet(cands) \subseteq k.pool
    BY <2>2, ToSet_In
  <2>5. /\ selected \in Seq(ToSet(cands)) /\ Len(selected) <= Degree(layer) /\ selected # <<>>
        /\ Once(selected)
    BY <2>2, <2>3, Select_Facts
  <2>6. ToSet(cands) \subseteq R
    BY <1>3, <2>4
  <2> HIDE DEF selected
  <2> QED BY <2>5, <2>6
<1>7. next.pc = "back" /\ next.node = node /\ next.layer = layer /\ next.found = k.found
      /\ next.links = selected
  BY <1>2 DEF Fields
<1> HIDE DEF selected, cands, next
<1>8. ToSet(selected) \subseteq R
  BY <1>6, ToSet_In
<1>9. /\ GraphOK' /\ graph'[node][layer] = selected
      /\ \A m, h : m # node \/ h # layer => graph'[m][h] = graph[m][h]
  <2>1. selected \in Seq(Having(layer))
    <3> HIDE DEF R
    <3> QED BY <1>4, <1>6
  <2>2. Alone => Once(selected) /\ node \notin ToSet(selected) /\ \A m \in ToSet(selected) : Claimed(m)
    BY <1>5, <1>6, <1>8
  <2>3. corpus' = corpus /\ batch' = batch
    BY <1>1
  <2>4. graph' = [graph EXCEPT ![node][layer] = selected]
    BY <1>1
  <2>5. /\ corpus \in Corpora /\ GraphOK /\ node \in Nodes /\ layer \in Layers(node)
        /\ Len(selected) <= Degree(layer)
    BY <1>2, <1>3, <1>6
  <2> HIDE DEF R, node, layer, k
  <2>6. GraphOK' /\ graph'[node][layer] = selected /\ OthersKept(node, layer)
    BY <2>1, <2>2, <2>3, <2>4, <2>5, Write_OK
  <2> QED BY <2>6 DEF OthersKept
<1>14. (Alone => \A n \in ToSet(selected) : node \notin ToSet(graph'[n][layer]))
  <2> SUFFICES ASSUME Alone, NEW n \in ToSet(selected) PROVE node \notin ToSet(graph'[n][layer])
    OBVIOUS
  <2>1. n \in R /\ n # node
    BY <1>5, <1>8
  <2>2. graph'[n][layer] = graph[n][layer]
    BY <1>9, <2>1
  <2>3. ToSet(graph[n][layer]) \subseteq R
    BY <1>2, <1>3, <1>4, <2>1, List_In
  <2> QED BY <1>5, <2>2, <2>3
<1> HIDE DEF layer, node, R
<1>15. \A n \in Nodes : graph[n][0] # <<>> => graph'[n][0] # <<>>
  BY <1>6, <1>9
<1>16. layer = 0 => graph'[node][0] # <<>>
  BY <1>6, <1>9
<1> QED BY <1>1, <1>6, <1>7, <1>9, <1>14, <1>15, <1>16, Wrote_Inv DEF k, node, layer, R

\* What is written when a node gets one more neighbour.
LEMMA Pruned_Facts ==
    ASSUME LinkInputs, NEW S, NEW l \in Nat, NEW n, NEW list \in Seq(S), list # <<>>
    PROVE  /\ Pruned(n, l, list) \in Seq(S) /\ Len(Pruned(n, l, list)) <= Degree(l)
           /\ ToSet(Pruned(n, l, list)) \subseteq ToSet(list)
           /\ Pruned(n, l, list) # <<>> /\ (Once(list) => Once(Pruned(n, l, list)))
<1>1. Degree(l) \in Nat \ {0} /\ ToSet(list) \subseteq S
  BY Degree_Type, ToSet_In
<1>2. CASE Len(list) > Degree(l)
  <2> DEFINE r == select_from(n, list, Degree(l))
  <2>1. r \in Seq(ToSet(list)) /\ Len(r) <= Degree(l) /\ r # <<>> /\ (Once(list) => Once(r))
    BY <1>1, Select_Facts
  <2>2. Pruned(n, l, list) = r
    BY <1>2 DEF Pruned
  <2> HIDE DEF r
  <2>3. ToSet(r) \subseteq ToSet(list)
    BY <2>1, ToSet_In
  <2>4. r \in Seq(S)
    BY <1>1, <2>1
  <2> QED BY <2>1, <2>2, <2>3, <2>4
<1>3. CASE ~(Len(list) > Degree(l))
  <2>1. Pruned(n, l, list) = list /\ Len(list) <= Degree(l)
    BY <1>1, <1>3 DEF Pruned
  <2> QED BY <2>1
<1> QED BY <1>2, <1>3

\* A neighbour's list: the node joins it, and may push another out.
LEMMA BackLink_Inv ==
    ASSUME BuildInputs, LinkInputs, GraphInv, HnswInv', NEW w \in DOMAIN worker, BackLink(w)
    PROVE  GraphInv'
<1> DEFINE k == worker[w]
           node == k.node
           layer == k.layer
           n == Head(k.links)
           R == Reach(w, layer)
           old == graph[n][layer]
           list == Pruned(n, layer, Append(old, node))
           next == [k EXCEPT !.links = Tail(@)]
<1>1. /\ Busy(w) /\ k.pc = "back" /\ k.links # <<>> /\ UNCHANGED <<corpus, entry, batch>>
      /\ graph' = IF layer > corpus.level[n] THEN graph
                  ELSE [graph EXCEPT ![n][layer] = Pruned(n, layer, Append(@, node))]
      /\ Become(w, next)
  BY DEF BackLink, Busy
<1>2. /\ DOMAIN k = Fields /\ node \in Nodes /\ corpus \in Corpora /\ GraphOK /\ LocalsOK(w)
      /\ corpus.level[node] \in Nat /\ (Alone => Claimed(node))
  BY <1>1, Worker_Facts
<1>3. /\ layer \in Nat /\ layer \in Layers(node) /\ layer <= corpus.level[node]
      /\ k.found \in SUBSET R /\ k.found # {}
      /\ \A l \in 0 .. (layer - 1) : Clear(w, l)
      /\ k.links \in Seq(R)
      /\ Alone => Once(k.links) /\ \A m \in ToSet(k.links) : node \notin ToSet(graph[m][layer])
      /\ layer = 0 => graph[node][0] # <<>>
  BY <1>1, <1>2 DEF LocalsOK, FoundOK, BackOK, LinkedOK, Layers
<1>4. R \subseteq Nodes /\ R \subseteq Having(layer)
  BY <1>2, <1>3, Reach_Facts
<1>5. Alone => \A m \in R : Claimed(m) /\ m # node
  BY DEF Reach
<1>6. /\ Tail(k.links) \in Seq(R) /\ n \in R /\ n \in ToSet(k.links)
      /\ ToSet(Tail(k.links)) \subseteq ToSet(k.links)
      /\ Once(k.links) => Once(Tail(k.links)) /\ n \notin ToSet(Tail(k.links))
  <2> HIDE DEF R
  <2> QED BY <1>1, <1>3, Tail_Once
<1>7. n \in Nodes /\ layer \in Layers(n) /\ n \in Having(layer) /\ ~(layer > corpus.level[n])
      /\ node \in Having(layer)
  <2>1. n \in Nodes /\ n \in Having(layer)
    BY <1>4, <1>6
  <2> HIDE DEF n, R
  <2>2. node \in Having(layer)
    BY <1>2, <1>3 DEF Having
  <2> QED BY <1>2, <1>3, <2>1, <2>2, Corpus_Facts DEF Having, Layers
<1>8. next.pc = "back" /\ next.node = node /\ next.layer = layer /\ next.found = k.found
      /\ next.links = Tail(k.links)
  BY <1>1, <1>2 DEF Fields
<1> HIDE DEF next
<1>9. graph' = [graph EXCEPT ![n][layer] = list]
  <2>1. n \in DOMAIN graph /\ layer \in DOMAIN graph[n]
    BY <1>2, <1>7 DEF GraphOK
  <2> HIDE DEF n, layer, node
  <2>2. graph' = [graph EXCEPT ![n][layer] = Pruned(n, layer, Append(@, node))]
    BY <1>1, <1>7
  <2> QED BY <2>1, <2>2
<1>10. /\ old \in Seq(Having(layer))
       /\ Alone => Once(old) /\ n \notin ToSet(old) /\ \A m \in ToSet(old) : Claimed(m)
  <2>1. ListOK(n, layer)
    BY <1>2, <1>7 DEF GraphOK
  <2>2. ~Cancelled
    BY <1>1, <1>2 DEF LocalsOK
  <2> HIDE DEF n, layer
  <2> QED BY <2>1, <2>2 DEF ListOK
<1> HIDE DEF R, n, layer, node, old, k
<1>11. Alone => node \notin ToSet(old)
  BY <1>3, <1>6 DEF old
<1>12. /\ Append(old, node) \in Seq(Having(layer)) /\ Append(old, node) # <<>>
       /\ ToSet(Append(old, node)) = ToSet(old) \cup {node}
       /\ Alone => Once(Append(old, node))
  BY <1>7, <1>10, <1>11, ToSet_Append
<1>13. /\ list \in Seq(Having(layer)) /\ Len(list) <= Degree(layer) /\ list # <<>>
       /\ ToSet(list) \subseteq ToSet(old) \cup {node} /\ (Alone => Once(list))
  <2> DEFINE longer == Append(old, node)
  <2>1. list = Pruned(n, layer, longer)
    OBVIOUS
  <2> HIDE DEF longer, list
  <2>2. longer \in Seq(Having(layer)) /\ longer # <<>> /\ ToSet(longer) = ToSet(old) \cup {node}
        /\ (Alone => Once(longer))
    BY <1>12 DEF longer
  <2> QED BY <1>3, <2>1, <2>2, Pruned_Facts
<1> HIDE DEF list
<1>14. Alone => Once(list) /\ n \notin ToSet(list) /\ \A m \in ToSet(list) : Claimed(m)
  BY <1>2, <1>5, <1>6, <1>10, <1>13
<1>15. /\ GraphOK' /\ graph'[n][layer] = list
       /\ \A m, h : m # n \/ h # layer => graph'[m][h] = graph[m][h]
  <2>1. GraphOK' /\ graph'[n][layer] = list /\ OthersKept(n, layer)
    BY <1>1, <1>2, <1>7, <1>9, <1>13, <1>14, Write_OK
  <2> QED BY <2>1 DEF OthersKept
<1>20. Alone => Once(Tail(k.links))
             /\ \A m \in ToSet(Tail(k.links)) : node \notin ToSet(graph'[m][layer])
  <2> SUFFICES ASSUME Alone, NEW m \in ToSet(Tail(k.links))
               PROVE  Once(Tail(k.links)) /\ node \notin ToSet(graph'[m][layer])
    BY <1>3, <1>6
  <2>1. m \in ToSet(k.links) /\ m # n /\ Once(Tail(k.links))
    BY <1>3, <1>6
  <2>2. graph'[m][layer] = graph[m][layer]
    BY <1>15, <2>1
  <2> QED BY <1>3, <2>1, <2>2
<1>21. \A m \in Nodes : graph[m][0] # <<>> => graph'[m][0] # <<>>
  BY <1>13, <1>15
<1>22. layer = 0 => graph'[node][0] # <<>>
  BY <1>2, <1>3, <1>21
<1> QED BY <1>1, <1>6, <1>8, <1>15, <1>20, <1>21, <1>22, Wrote_Inv DEF k, node, layer, R
-----------------------------------------------------------------------------
(* The workers between two insertions, and the leader.                     *)

\* Nothing is asked of a worker that has no node.
LEMMA Idle_OK ==
    ASSUME NEW w, worker'[w].pc \in {"claim", "joined"} PROVE LocalsOK(w)'
BY DEF LocalsOK, Busy, StartOK, DescendOK, FoundOK, SearchOK, ExtendOK, BackOK, LinkedOK

\* The lists stay as they are while no claim is taken back.
LEMMA Kept_OK ==
    ASSUME GraphOK, UNCHANGED <<corpus, graph>>, Cancelled => Cancelled',
           ~Cancelled' => \A n \in Nodes : Claimed(n) => Claimed(n)', corpus \in Corpora, BuildInputs
    PROVE  GraphOK'
<1>1. Nodes' = Nodes /\ (Alone' <=> Alone) /\ \A n : Layers(n)' = Layers(n)
  BY DEF Nodes, Alone, Layers
<1>2. \A l : Having(l)' = Having(l)
  BY <1>1 DEF Having
<1>3. ASSUME NEW n \in Nodes, NEW l \in Layers(n) PROVE ListOK(n, l)'
  <2>1. ListOK(n, l) /\ Having(l) \subseteq Nodes
    BY Having_Facts DEF GraphOK
  <2>2. ToSet(graph[n][l]) \subseteq Nodes
    BY <2>1, ToSet_In DEF ListOK
  <2> QED BY <1>1, <1>2, <2>1, <2>2 DEF ListOK, Degree
<1> QED BY <1>1, <1>3 DEF GraphOK

LEMMA GraphInit_Inv ==
    ASSUME BuildInputs, LinkInputs, HnswInit PROVE GraphInv
<1>1. HnswInv
  BY HnswInit_Inv
<1>2. /\ DOMAIN graph = Nodes
      /\ \A n \in Nodes : DOMAIN graph[n] = Layers(n) /\ \A l \in Layers(n) : graph[n][l] = <<>>
  BY DEF HnswInit
<1>3. ASSUME NEW n \in Nodes, NEW l \in Layers(n) PROVE ListOK(n, l)
  <2>1. l \in Nat
    BY <1>1, Corpus_Facts DEF Layers, HnswInv
  <2>2. Degree(l) \in Nat
    BY <2>1, Degree_Type
  <2>3. ToSet(<<>>) = {} /\ Once(<<>>)
    BY DEF ToSet, Once
  <2>4. graph[n][l] = <<>> /\ <<>> \in Seq(Having(l)) /\ Len(<<>>) = 0
    BY <1>2
  <2> HIDE DEF Once, ToSet
  <2> QED BY <2>2, <2>3, <2>4 DEF ListOK
<1>4. \A w \in DOMAIN worker : worker[w].pc = "claim"
  BY DEF HnswInit, Between
<1>5. \A w \in DOMAIN worker : LocalsOK(w)
  BY <1>4 DEF LocalsOK, Busy, StartOK, DescendOK, FoundOK, SearchOK, ExtendOK, BackOK, LinkedOK
<1>6. LinkedHeld /\ FinishedLinked
  <2>1. \A n \in Nodes : n \in Nat
    BY <1>1, Corpus_Facts DEF HnswInv
  <2> QED BY <2>1 DEF HnswInit, LinkedHeld, FinishedLinked, Claimed
<1>7. Claimed(entry.node)
  <2>1. batch.start = 1 /\ batch.next = 1 /\ entry.node = 0
    BY DEF HnswInit
  <2>2. BatchEnd(1) \in Int /\ 1 <= BatchEnd(1)
    BY <1>1, BatchEnd_Facts, Corpus_Facts DEF HnswInv
  <2> QED BY <2>1, <2>2 DEF Claimed
<1> QED BY <1>1, <1>2, <1>3, <1>5, <1>6, <1>7 DEF GraphInv, GraphOK

\* What a worker claims is named by no list while it is the only one.
LEMMA GraphClaim_Inv ==
    ASSUME BuildInputs, GraphInv, HnswInv', NEW w \in DOMAIN worker, Claim(w) PROVE GraphInv'
<1> DEFINE k == IF batch.next < BatchEnd(batch.start)
                THEN [Between EXCEPT !.pc = "start", !.node = batch.next]
                ELSE [Between EXCEPT !.pc = "joined"]
<1>1. /\ ~Cancelled /\ ~Busy(w) /\ batch' = [batch EXCEPT !.next = @ + 1] /\ Become(w, k)
      /\ corpus' = corpus /\ entry' = entry /\ graph' = graph
  BY DEF Claim, Busy
<1>2. HnswInv /\ GraphOK /\ corpus \in Corpora
  BY DEF GraphInv, HnswInv
<1>3. /\ batch.next \in Int /\ batch'.start = batch.start /\ batch'.next = batch.next + 1
      /\ BatchEnd(batch.start) \in Int
  <2>1. /\ batch \in [start : Int, next : Int] /\ 1 <= batch.start
        /\ batch.start <= Cardinality(Nodes)
    BY <1>1, <1>2 DEF HnswInv, BatchOK
  <2> QED BY <1>1, <1>2, <2>1, BatchEnd_Facts
<1>4. /\ Nodes' = Nodes /\ (Alone' <=> Alone) /\ ~Cancelled'
      /\ BatchEnd(batch.start)' = BatchEnd(batch.start)
      /\ \A n \in Nodes : n \in Nat
  BY <1>1, <1>2, <1>3, Corpus_Facts DEF Nodes, Alone, Cancelled, BatchEnd
<1>5. /\ \A l : Having(l)' = Having(l)
      /\ \A n : Layers(n)' = Layers(n)
  BY <1>1, <1>4 DEF Having, Layers
<1>6. /\ \A n : Claimed(n) <=> n < batch.next /\ n < BatchEnd(batch.start)
      /\ \A n : Claimed(n)' <=> n < batch.next + 1 /\ n < BatchEnd(batch.start)
  BY <1>3, <1>4 DEF Claimed
<1>7. \A n \in Nodes : Claimed(n) => Claimed(n)'
  BY <1>3, <1>4, <1>6
<1>8. GraphOK'
  BY <1>1, <1>2, <1>4, <1>7, Kept_OK
<1>9. /\ batch.next < BatchEnd(batch.start) => k.pc = "start" /\ k.node = batch.next
      /\ ~(batch.next < BatchEnd(batch.start)) => k.pc = "joined"
  BY DEF Between
<1> HIDE DEF k
<1>10. /\ DOMAIN worker' = DOMAIN worker /\ worker'[w] = k
       /\ \A v \in DOMAIN worker : v # w => worker'[v] = worker[v]
  BY <1>1 DEF Become
<1>11. ASSUME NEW v \in DOMAIN worker PROVE LocalsOK(v)'
  <2>1. CASE v # w
    BY <1>1, <1>3, <1>8, <1>10, <2>1, Others_OK
  <2>2. CASE v = w /\ ~(batch.next < BatchEnd(batch.start))
    BY <1>9, <1>10, <2>2, Idle_OK
  <2>3. CASE v = w /\ batch.next < BatchEnd(batch.start)
    <3>1. PICK node : node = batch.next
      OBVIOUS
    <3>2. worker'[w].pc = "start" /\ worker'[w].node = node
      BY <1>9, <1>10, <2>3, <3>1
    <3>3. Claimed(node)' /\ ~Claimed(node)
      BY <1>3, <1>6, <2>3, <3>1
    <3>4. Alone => Claimed(worker[w].node)' /\ worker'[w].node # entry'.node
      <4>1. Alone => Claimed(entry.node)
        BY <1>1 DEF GraphInv
      <4> QED BY <1>1, <3>2, <3>3, <4>1
    <3>5. \A l \in Nat : Clear(w, l)'
      <4> SUFFICES ASSUME NEW l \in Nat, NEW n \in Having(l), NEW m \in ToSet(graph[n][l])
                   PROVE  m \in Having(l) /\ (Alone => Claimed(m)' /\ m # node)
        BY <1>1, <1>4, <1>5, <3>2 DEF Clear, Reach
      <4>1. n \in Nodes /\ l \in Layers(n)
        BY <1>2, Having_Facts
      <4>2. ListOK(n, l)
        BY <1>2, <4>1 DEF GraphOK
      <4>3. m \in Having(l) /\ m \in Nodes
        BY <1>2, <4>2, ToSet_In, Having_Facts DEF ListOK
      <4>4. Alone => Claimed(m)
        BY <1>1, <4>2 DEF ListOK
      <4> QED BY <1>7, <3>3, <4>3, <4>4
    <3>6. StartOK(w)' /\ Busy(w)'
      BY <3>2, <3>5 DEF StartOK, Busy
    <3>7. (DescendOK(w) /\ FoundOK(w) /\ SearchOK(w) /\ ExtendOK(w) /\ BackOK(w) /\ LinkedOK(w))'
      BY <3>2 DEF DescendOK, FoundOK, SearchOK, ExtendOK, BackOK, LinkedOK
    <3> QED BY <1>4, <2>3, <3>4, <3>6, <3>7 DEF LocalsOK
  <2> QED BY <2>1, <2>2, <2>3
<1>12. LinkedHeld'
  <2> SUFFICES ASSUME NEW n \in Nodes, 1 <= n, Claimed(n)'
               PROVE  graph[n][0] # <<>> \/ \E v \in DOMAIN worker : Busy(v)' /\ worker'[v].node = n
    BY <1>1, <1>4, <1>10 DEF LinkedHeld
  <2>1. CASE Claimed(n)
    <3>1. graph[n][0] # <<>> \/ \E v \in DOMAIN worker : Busy(v) /\ worker[v].node = n
      BY <1>1, <2>1 DEF GraphInv, LinkedHeld
    <3> QED BY <1>1, <1>10, <3>1 DEF Busy
  <2>2. CASE ~Claimed(n)
    <3>1. n = batch.next /\ batch.next < BatchEnd(batch.start)
      BY <1>3, <1>4, <1>6, <2>2
    <3> QED BY <1>9, <1>10, <3>1 DEF Busy
  <2> QED BY <2>1, <2>2
<1>13. FinishedLinked'
  BY <1>1, <1>3, <1>4 DEF GraphInv, FinishedLinked
<1>14. Alone' /\ ~Cancelled' => Claimed(entry.node)'
  <2>1. PICK e \in Nodes : e = entry.node /\ e = entry'.node
    BY <1>1, <1>2 DEF HnswInv, EntryOK
  <2>2. Alone => Claimed(e)'
    BY <1>1, <1>7, <2>1 DEF GraphInv
  <2> QED BY <1>4, <2>1, <2>2
<1> QED BY <1>8, <1>10, <1>11, <1>12, <1>13, <1>14 DEF GraphInv

\* The node offered as the entry is linked.
LEMMA GraphPromote_Inv ==
    ASSUME BuildInputs, GraphInv, HnswInv', NEW w \in DOMAIN worker, Promote(w) PROVE GraphInv'
<1>1. /\ Busy(w) /\ worker[w].pc = "promote"
      /\ corpus' = corpus /\ batch' = batch /\ graph' = graph
      /\ entry'.node \in {entry.node, worker[w].node}
      /\ DOMAIN worker' = DOMAIN worker /\ worker'[w] = Between
      /\ \A v \in DOMAIN worker : v # w => worker'[v] = worker[v]
  BY DEF Promote, Become, Busy
<1>2. HnswInv /\ GraphOK /\ corpus \in Corpora /\ LocalsOK(w)
  BY DEF GraphInv, HnswInv
<1>3. Nodes' = Nodes /\ (Alone' <=> Alone) /\ (Cancelled' <=> Cancelled)
      /\ \A n : Claimed(n)' <=> Claimed(n)
  BY <1>1 DEF Nodes, Alone, Cancelled, Claimed, BatchEnd
<1>4. GraphOK'
  BY <1>1, <1>2, <1>3, Kept_OK
<1>5. ASSUME NEW v \in DOMAIN worker PROVE LocalsOK(v)'
  <2>1. CASE v = w
    <3>1. worker'[w].pc = "claim"
      BY <1>1 DEF Between
    <3> QED BY <2>1, <3>1, Idle_OK
  <2>2. CASE v # w
    BY <1>1, <1>4, <2>2, Others_OK
  <2> QED BY <2>1, <2>2
<1>6. LinkedHeld'
  <2> SUFFICES ASSUME ~Cancelled, NEW n \in Nodes, 1 <= n, Claimed(n)
               PROVE  graph[n][0] # <<>> \/ \E v \in DOMAIN worker : Busy(v)' /\ worker'[v].node = n
    BY <1>1, <1>3 DEF LinkedHeld
  <2>1. graph[n][0] # <<>> \/ \E v \in DOMAIN worker : Busy(v) /\ worker[v].node = n
    BY DEF GraphInv, LinkedHeld
  <2>2. CASE \E v \in DOMAIN worker : Busy(v) /\ worker[v].node = n
    <3>1. PICK v \in DOMAIN worker : Busy(v) /\ worker[v].node = n
      BY <2>2
    <3>2. CASE v = w
      BY <1>1, <1>2, <3>1, <3>2 DEF LocalsOK, LinkedOK
    <3>3. CASE v # w
      BY <1>1, <3>1, <3>3 DEF Busy
    <3> QED BY <3>2, <3>3
  <2> QED BY <2>1, <2>2
<1>7. FinishedLinked'
  BY <1>1, <1>3 DEF GraphInv, FinishedLinked
<1>8. Alone' /\ ~Cancelled' => Claimed(entry.node)'
  <2>1. PICK e : e = entry'.node
    OBVIOUS
  <2>2. Alone /\ ~Cancelled => Claimed(e)
    BY <1>1, <1>2, <2>1 DEF GraphInv, LocalsOK
  <2> QED BY <1>3, <2>1, <2>2
<1> QED BY <1>1, <1>4, <1>5, <1>6, <1>7, <1>8 DEF GraphInv

\* All of a batch that has been joined is linked.
LEMMA GraphJoin_Inv ==
    ASSUME BuildInputs, GraphInv, HnswInv', Join PROVE GraphInv'
<1>1. PICK start \in {-1, BatchEnd(batch.start)} : batch' = [start |-> start, next |-> start]
  BY DEF Join
<1>2. /\ ~Cancelled /\ corpus' = corpus /\ entry' = entry /\ graph' = graph /\ Nodes' = Nodes
      /\ DOMAIN worker' = DOMAIN worker /\ \A w \in DOMAIN worker : worker'[w] = Between
      /\ \A w \in DOMAIN worker : worker[w].pc = "joined"
  BY DEF Join, Nodes
<1>3. HnswInv /\ GraphOK /\ corpus \in Corpora
  BY DEF GraphInv, HnswInv
<1>4. /\ batch'.start = start /\ batch'.next = start
      /\ batch.start \in Int /\ 1 <= batch.start /\ batch.start <= Cardinality(Nodes)
      /\ batch.next \in Int /\ BatchEnd(batch.start) <= batch.next
      /\ \A n \in Nodes : n \in Nat
  <2>1. 1 \in DOMAIN worker
    BY <1>3, Corpus_Facts DEF HnswInv
  <2>2. BatchEnd(batch.start) <= batch.next
    BY <1>2, <1>3, <2>1 DEF HnswInv, WorkerOK
  <2> QED BY <1>1, <1>2, <1>3, <2>2, Corpus_Facts DEF HnswInv, BatchOK
<1>5. /\ BatchEnd(batch.start) \in Int /\ batch.start <= BatchEnd(batch.start)
      /\ BatchEnd(batch.start) <= Cardinality(Nodes)
  BY <1>3, <1>4, BatchEnd_Facts
<1>6. Cancelled' <=> start = -1
  BY <1>4 DEF Cancelled
<1>7. ~Cancelled' => /\ start = BatchEnd(batch.start)
                     /\ BatchEnd(start) \in Int /\ start <= BatchEnd(start)
  <2>1. 1 <= BatchEnd(batch.start) /\ BatchEnd(batch.start) <= Cardinality(Nodes)
    BY <1>4, <1>5, <1>3, Corpus_Facts
  <2> QED BY <1>1, <1>3, <1>5, <1>6, <2>1, BatchEnd_Facts
<1>8. BatchEnd(start)' = BatchEnd(start)
  BY <1>2 DEF BatchEnd
<1>9. \A n : Claimed(n)' <=> n < start /\ n < BatchEnd(start)
  <2>1. BatchEnd(batch.start)' = BatchEnd(start)
    BY <1>2, <1>4 DEF BatchEnd
  <2> QED BY <1>4, <2>1 DEF Claimed
<1>10. ~Cancelled' => \A n \in Nodes : Claimed(n) => Claimed(n)'
  BY <1>4, <1>5, <1>7, <1>9 DEF Claimed
<1>11. GraphOK'
  BY <1>2, <1>3, <1>10, Kept_OK
<1>12. \A n \in Nodes : 1 <= n /\ n < BatchEnd(batch.start) => graph[n][0] # <<>>
  <2> TAKE n \in Nodes
  <2> HAVE 1 <= n /\ n < BatchEnd(batch.start)
  <2>1. Claimed(n)
    BY <1>4, <1>5 DEF Claimed
  <2>2. \A w \in DOMAIN worker : ~Busy(w)
    BY <1>2 DEF Busy
  <2> QED BY <1>2, <2>1, <2>2 DEF GraphInv, LinkedHeld
<1>13. \A w \in DOMAIN worker : LocalsOK(w)'
  <2>1. \A w \in DOMAIN worker : worker'[w].pc = "claim"
    BY <1>2 DEF Between
  <2> QED BY <2>1, Idle_OK
<1>14. LinkedHeld'
  <2>1. ~Cancelled' => \A n \in Nodes : 1 <= n /\ Claimed(n)' => graph[n][0] # <<>>
    BY <1>7, <1>9, <1>12
  <2> QED BY <1>2, <2>1 DEF LinkedHeld
<1>15. FinishedLinked'
  BY <1>1, <1>2, <1>4, <1>5, <1>12 DEF FinishedLinked
<1>16. Alone' /\ ~Cancelled' => Claimed(entry.node)'
  <2>1. PICK e \in Nodes : e = entry.node /\ e = entry'.node
    BY <1>2, <1>3 DEF HnswInv, EntryOK
  <2>2. Alone => Claimed(e)
    BY <1>2, <2>1 DEF GraphInv
  <2>3. Alone' <=> Alone
    BY <1>2 DEF Alone
  <2> QED BY <1>10, <2>1, <2>2, <2>3
<1> QED BY <1>2, <1>11, <1>13, <1>14, <1>15, <1>16 DEF GraphInv

LEMMA GraphNext_Inv ==
    ASSUME BuildInputs, LinkInputs, GraphInv, [HnswNext]_hnswVars PROVE GraphInv'
<1>1. HnswInv'
  BY HnswNext_Inv DEF GraphInv
<1>2. CASE HnswNext
  BY <1>1, <1>2, GraphClaim_Inv, Start_Inv, Descend_Inv, Search_Inv, Extend_Inv, Link_Inv,
     BackLink_Inv, NextLayer_Inv, GraphPromote_Inv, GraphJoin_Inv, Zenon DEF HnswNext
<1>3. CASE UNCHANGED hnswVars
  <2>1. /\ corpus' = corpus /\ graph' = graph /\ entry' = entry /\ batch' = batch
        /\ worker' = worker
    BY <1>3 DEF hnswVars
  <2>2. /\ Nodes' = Nodes /\ (Alone' <=> Alone) /\ (Cancelled' <=> Cancelled)
        /\ \A n : (Claimed(n)' <=> Claimed(n)) /\ Layers(n)' = Layers(n)
    BY <2>1 DEF Nodes, Alone, Cancelled, Claimed, BatchEnd, Layers
  <2>3. \A l : Having(l)' = Having(l)
    BY <2>1, <2>2 DEF Having
  <2>4. \A w, l : Reach(w, l)' = Reach(w, l)
    BY <2>1, <2>2, <2>3 DEF Reach
  <2>5. \A w, l : Clear(w, l)' <=> Clear(w, l)
    BY <2>1, <2>3, <2>4 DEF Clear
  <2>6. GraphOK'
    BY <2>1, <2>2, <2>3 DEF GraphInv, GraphOK, ListOK, Degree
  <2>7. ASSUME NEW w \in DOMAIN worker PROVE LocalsOK(w)'
    <3>1. LocalsOK(w)
      BY DEF GraphInv
    <3>2. (StartOK(w) /\ DescendOK(w) /\ FoundOK(w))'
      BY <2>1, <2>2, <2>4, <2>5, <3>1 DEF LocalsOK, StartOK, DescendOK, FoundOK
    <3>3. (SearchOK(w) /\ ExtendOK(w) /\ BackOK(w) /\ LinkedOK(w))'
      BY <2>1, <2>2, <2>4, <3>1 DEF LocalsOK, SearchOK, ExtendOK, BackOK, LinkedOK
    <3> QED BY <2>1, <2>2, <3>1, <3>2, <3>3 DEF LocalsOK, Busy
  <2>8. LinkedHeld' /\ FinishedLinked'
    BY <2>1, <2>2 DEF GraphInv, LinkedHeld, FinishedLinked, Busy
  <2>9. Alone' /\ ~Cancelled' => Claimed(entry.node)'
    BY <2>1, <2>2 DEF GraphInv
  <2> QED BY <1>1, <2>1, <2>6, <2>7, <2>8, <2>9 DEF GraphInv
<1> QED BY <1>2, <1>3

LEMMA GraphInv_Sound ==
    ASSUME BuildInputs, GraphInv PROVE GraphSound
<1>1. HnswInv /\ corpus \in Corpora /\ GraphOK
  BY DEF GraphInv, HnswInv
<1>2. EntryHighest
  BY <1>1, EntryIsHighest
<1>3. \A n \in Nodes : \A l \in Layers(n) : ListOK(n, l) /\ ToSet(graph[n][l]) \subseteq Having(l)
  <2> TAKE n \in Nodes
  <2> TAKE l \in Layers(n)
  <2>1. ListOK(n, l)
    BY <1>1 DEF GraphOK
  <2> QED BY <2>1, ToSet_In DEF ListOK
<1>4. LinksFit
  BY <1>3 DEF LinksFit, ListOK, Having
<1>5. NoneAlone
  <2> SUFFICES ASSUME batch.start > 1, NEW n \in 1 .. (batch.start - 1) PROVE graph[n][0] # <<>>
    BY DEF NoneAlone
  <2>1. batch.start \in Int /\ ~Cancelled
    BY <1>1 DEF HnswInv, BatchOK, Cancelled
  <2>2. batch.start <= Cardinality(Nodes)
    BY <1>1, <2>1 DEF HnswInv, BatchOK
  <2>3. n \in Nodes /\ 1 <= n /\ n < batch.start
    BY <1>1, <2>1, <2>2, Corpus_Facts
  <2> QED BY <2>3 DEF GraphInv, FinishedLinked
<1>6. from_bytes_accepts
  <2>1. \A l : Having(l) \subseteq Nodes
    BY <1>1, Having_Facts
  <2>2. /\ entry.node \in Nodes /\ corpus.level[entry.node] = entry.level
        /\ corpus.level[entry.node] \in Nat
    BY <1>1, Corpus_Facts DEF HnswInv, EntryOK
  <2>3. entry.level <= corpus.level[entry.node]
    BY <2>2
  <2> QED BY <1>3, <2>1, <2>2, <2>3 DEF from_bytes_accepts
<1>7. corpus.threads = 1 => ListsClean
  BY <1>3 DEF ListsClean, ListOK, Alone, Once, IsInjective
<1> QED BY <1>2, <1>4, <1>5, <1>6, <1>7 DEF GraphSound

(***************************************************************************)
(* However many workers insert at once, every link leads to a node that    *)
(* has the layer and no list is longer than its pages, the entry is the    *)
(* highest node of the finished batches, each node that they inserted has  *)
(* a neighbour on the ground, and from_bytes accepts the whole graph.  One *)
(* worker leaves lists that name no node twice, nor their own              *)
(* (insert_node, search_layer, select_from, build_parallel).               *)
(***************************************************************************)
THEOREM GraphsSound ==
    ASSUME BuildInputs, LinkInputs PROVE HnswSpec => []GraphSound
<1>1. HnswInit => GraphInv
  BY GraphInit_Inv
<1>2. GraphInv /\ [HnswNext]_hnswVars => GraphInv'
  BY GraphNext_Inv
<1>3. GraphInv => GraphSound
  BY GraphInv_Sound
<1> QED BY <1>1, <1>2, <1>3, PTL DEF HnswSpec
==============================================================================
