----------------------------- MODULE ColumnarProofs -----------------------------
(***************************************************************************)
(* The columnar table: its types, that a backend's buffer stays within its *)
(* budget (PendingBounded), that row numbers and stripe ids never overlap  *)
(* (ReservedDisjoint), that what the catalog names can be read             *)
(* (CommittedReadable), that a transaction holds exactly its rows          *)
(* (ExactlyKept), and that the table implements AppendTable (AppendOnly).  *)
(*                                                                         *)
(* The invariant has a part per concern.  Control ties where a transaction *)
(* is to what its session holds.  Placed says where in the file a flush    *)
(* and a published stripe have their pages.  StripesApart and HeldApart    *)
(* keep rows in one place; Fresh makes the next row of a statement new,    *)
(* and Scanned bounds what an INSERT .. SELECT from its own table copies,  *)
(* without which its row numbers would have no type.  Reserved is about    *)
(* the metapage's counters, Bounded about the buffer's bytes.              *)
(***************************************************************************)
EXTENDS ColumnarTable, FiniteSetTheorems, TLAPS

-----------------------------------------------------------------------------
(* The invariant.                                                          *)

\* A flush in progress, an INSERT in progress, an open scan and the metapage.
Flush == [step : {"chunk", "rows", "stripe", "dir", "header", "publish"}, rows : SUBSET Row,
          then : {"insert", "ready", "commit"}, first : [1 .. Columns -> Nat],
          col : 1 .. Columns, part : 1 .. ChunkPages, base : Nat, id : Nat, dir : Nat,
          header : Nat]
Insert == [id : 1 .. MaxInserts, next : Nat \ {0}, left : Nat, size : {1, Budget + 1},
           bulk : BOOLEAN, self : BOOLEAN]
Scan == [open : {TRUE}, done : BOOLEAN, todo : SUBSET Stripe, out : SUBSET Row,
         view : SUBSET Row]
Counters == [rows : Nat, stripe : Nat]

\* The types of the variables.
Types ==
    /\ pages \in Seq(Page)
    /\ meta \in Counters
    /\ stripes \in SUBSET Stripe
    /\ mine \in [Sessions -> SUBSET Stripe]
    /\ pending \in [Sessions -> SUBSET Row]
    /\ flush \in [Sessions -> Flush \cup {NoFlush}]
    /\ stmt \in [Sessions -> Insert \cup {NoStmt}]
    /\ scan \in [Sessions -> Scan \cup {NoScan}]
    /\ pc \in [Sessions -> {"idle", "ready", "insert", "select", "flush", "commit"}]
    /\ subs \in [Sessions -> Seq(SUBSET Row)]
    /\ kept \in [Sessions -> SUBSET Row]
    /\ durable \in [pages : Nat, meta : Counters]
    /\ inserts \in 0 .. MaxInserts /\ scans \in Nat /\ crashes \in Nat

\* A statement of session s is between two of its rows, or flushing before one.
InInsert(s) == pc[s] = "insert" \/ (pc[s] = "flush" /\ flush[s].then = "insert")

\* Where a transaction is agrees with what its session holds.
ControlOf(s) ==
    /\ pc[s] = "flush" <=> flush[s] # NoFlush
    /\ pc[s] \in {"flush", "commit", "idle"} => pending[s] = {}
    /\ pc[s] = "idle" => mine[s] = {} /\ kept[s] = {}
    /\ InInsert(s) => stmt[s] \in Insert /\ (stmt[s].self => scan[s].open)
    /\ pc[s] = "select" => scan[s].open
    /\ scan[s].open => pc[s] = "select" \/ (InInsert(s) /\ stmt[s].self)
    /\ Len(subs[s]) <= MaxDepth

Control == \A s \in Sessions : ControlOf(s)

-----------------------------------------------------------------------------
\* One page of the chunk of column c.
Chunk(rows, c, p) == [kind |-> "chunk", rows |-> rows, col |-> c, part |-> p]

\* No other session can extend the file between two pages of one chunk.
Undisturbed == ChunkPages = 1 \/ \A s, t \in Sessions : s = t

\* The pages of a chunk that are sure to be its own.
Sure == IF Undisturbed THEN 1 .. ChunkPages ELSE {1}

\* The block p of the chunk of column c that a directory d of the file pg names.
BlockIn(pg, d, c, p) == pg[d].first[c] + p - 1

\* The rows of the stripe st in the file pg.
DecodeIn(pg, st) == pg[pg[pg[st.header].dir].first[1]].rows

\* The stripe st is where its catalog row says, in the first n blocks of the file pg.
LaidIn(pg, st, n) ==
    /\ st.header \in 1 .. n /\ pg[st.header].kind = "header"
    /\ pg[st.header].dir \in 1 .. n /\ pg[pg[st.header].dir].kind = "dir"
    /\ \A c \in 1 .. Columns, p \in Sure :
         /\ BlockIn(pg, pg[st.header].dir, c, p) \in 1 .. n
         /\ pg[BlockIn(pg, pg[st.header].dir, c, p)] = Chunk(DecodeIn(pg, st), c, p)
    /\ Cardinality(DecodeIn(pg, st)) = st.count

\* The flush f has written page p of column c.
Done(f, c, p) == f.step # "chunk" \/ c < f.col \/ (c = f.col /\ p < f.part)

\* What the flush f has written so far is in the file pg.
WrittenIn(pg, f) ==
    /\ \A c \in 1 .. Columns, p \in Sure : Done(f, c, p) =>
         /\ f.first[c] + p - 1 \in 1 .. Len(pg)
         /\ pg[f.first[c] + p - 1] = Chunk(f.rows, c, p)
    /\ Undisturbed /\ f.step = "chunk" /\ f.part > 1 => f.first[f.col] + f.part - 1 = Len(pg) + 1
    /\ f.step \notin {"header", "publish"} => f.dir = 0
    /\ f.step \in {"header", "publish"} =>
         f.dir \in 1 .. Len(pg) /\ pg[f.dir] = [kind |-> "dir", first |-> f.first]
    /\ f.step = "publish" =>
         f.header \in 1 .. Len(pg) /\ pg[f.header] = [kind |-> "header", dir |-> f.dir]

\* Stripes lie in the file: the committed ones in what every recovery restores.
Placed ==
    /\ durable.pages <= Len(pages)
    /\ \A st \in stripes : LaidIn(pages, st, durable.pages)
    /\ \A s \in Sessions : \A st \in mine[s] : LaidIn(pages, st, Len(pages))
    /\ \A s \in Sessions : flush[s] # NoFlush => WrittenIn(pages, flush[s])

-----------------------------------------------------------------------------
\* The row numbers from b on, n of them, and from c on, m of them.
RangesApart(b, n, c, m) == b + n <= c \/ c + m <= b

\* Two stripes share no id, no row number and no row.
Apart(x, y) ==
    /\ x.id # y.id
    /\ RangesApart(x.base, x.count, y.base, y.count)
    /\ Decode(x) \cap Decode(y) = {}

\* Every two published stripes are apart, whoever published them.
StripesApart ==
    /\ \A x, y \in stripes : x # y => Apart(x, y)
    /\ \A s \in Sessions : \A x \in mine[s], y \in stripes : Apart(x, y)
    /\ \A s \in Sessions : \A x, y \in mine[s] : x # y => Apart(x, y)
    /\ \A s, t \in Sessions : s # t => \A x \in mine[s], y \in mine[t] : Apart(x, y)

\* The rows in the memory of session s.
Held(s) == pending[s] \cup flush[s].rows

\* A row in memory is in no stripe and in no other memory.
HeldApart ==
    /\ \A s \in Sessions : \A x \in Published : Held(s) \cap Decode(x) = {}
    /\ \A s, t \in Sessions : s # t => Held(s) \cap Held(t) = {}

\* The flush of s has reserved its row numbers; and its stripe id.
Ranged(s) == flush[s] # NoFlush /\ flush[s].step \notin {"chunk", "rows"}
Numbered(s) == Ranged(s) /\ flush[s].step # "stripe"
CountOf(s) == Cardinality(flush[s].rows)

\* The counters are above every number given out, and a flush's are its own.
Reserved ==
    /\ durable.meta.rows <= meta.rows /\ durable.meta.stripe <= meta.stripe
    /\ \A x \in stripes : x.base + x.count <= durable.meta.rows /\ x.id < durable.meta.stripe
    /\ \A s \in Sessions : \A x \in mine[s] :
         x.base + x.count <= meta.rows /\ x.id < meta.stripe
    /\ \A s \in Sessions : Ranged(s) =>
         /\ flush[s].base + CountOf(s) <= meta.rows
         /\ \A x \in Published : RangesApart(flush[s].base, CountOf(s), x.base, x.count)
         /\ \A t \in Sessions : t # s /\ Ranged(t) =>
              RangesApart(flush[s].base, CountOf(s), flush[t].base, CountOf(t))
    /\ \A s \in Sessions : Numbered(s) =>
         /\ flush[s].id < meta.stripe
         /\ \A x \in Published : x.id # flush[s].id
         /\ \A t \in Sessions : t # s /\ Numbered(t) => flush[t].id # flush[s].id

-----------------------------------------------------------------------------
\* A row that no statement in progress will insert again.
Spent(r) ==
    /\ r.stmt <= inserts
    /\ \A s \in Sessions : InInsert(s) /\ r.stmt = stmt[s].id =>
         r.nr < stmt[s].next /\ r.size = stmt[s].size

\* Statements in progress have ids of their own, and what is stored is spent.
Fresh ==
    /\ \A s \in Sessions : InInsert(s) => stmt[s].id <= inserts
    /\ \A s, t \in Sessions : s # t /\ InInsert(s) /\ InInsert(t) => stmt[s].id # stmt[t].id
    /\ \A x \in Published : \A r \in Decode(x) : Spent(r)
    /\ \A s \in Sessions : \A r \in Held(s) : Spent(r)

\* Rows of session s's buffer that its statement in progress has not inserted itself.
Older(s) == {r \in pending[s] : r.stmt # stmt[s].id}

\* The rows the statement has inserted or still has to.
Copied(s) == stmt[s].next - 1 + stmt[s].left

\* How many rows a statement inserts.  A self-insert copies no more than the rows it saw,
\* and those it buffered itself when it reads the buffer: twice the view in all.
Numbering(s) == InInsert(s) =>
    /\ ~stmt[s].self => Copied(s) <= MaxStmtRows
    /\ stmt[s].self => /\ Copied(s) <= MaxCopied
                       /\ 2 * Cardinality(scan[s].view) <= MaxCopied
    /\ stmt[s].self /\ ~scan[s].done =>
         Copied(s) + Cardinality(RowsOf(scan[s].todo)) + Cardinality(Older(s))
             <= Cardinality(scan[s].view)

\* An open scan of a SELECT has seen, or will see, exactly its view.
Viewed(s) ==
    /\ scan[s].open => scan[s].todo \subseteq stripes \cup mine[s]
    /\ pc[s] = "select" =>
         scan[s].view = scan[s].out \cup
             (IF scan[s].done THEN {} ELSE RowsOf(scan[s].todo) \cup pending[s])

Scanned == \A s \in Sessions : Numbering(s) /\ Viewed(s)

\* The buffer is within its budget; so is a flush, except for one oversized row.
Bounded == \A s \in Sessions :
    /\ Bytes(pending[s]) <= Budget
    /\ Bytes(flush[s].rows) <= Budget \/ Cardinality(flush[s].rows) = 1

\* The inductive invariant.
Inv == /\ Types /\ Control /\ Placed /\ StripesApart /\ HeldApart /\ Reserved /\ Fresh
       /\ Scanned /\ Bounded

-----------------------------------------------------------------------------
(* Lemmas about the operators.                                             *)

\* There are finitely many rows.
LEMMA RowFinite == IsFiniteSet(Row)
<1> DEFINE A == 1 .. MaxInserts
           B == 1 .. (MaxStmtRows + MaxCopied)
           C == {1, Budget + 1}
           f == [t \in (A \X B) \X C |-> [stmt |-> t[1][1], nr |-> t[1][2], size |-> t[2]]]
<1>1. IsFiniteSet(A) /\ IsFiniteSet(B)
  BY FS_Interval, BoundAssumption
<1>2. IsFiniteSet(C)
  <2>1. IsFiniteSet({1} \cup {Budget + 1})
    BY FS_Singleton, FS_Union
  <2>2. C = {1} \cup {Budget + 1}
    OBVIOUS
  <2> QED
    BY <2>1, <2>2
<1>3. IsFiniteSet((A \X B) \X C)
  BY <1>1, <1>2, FS_Product
<1>4. f \in Surjection((A \X B) \X C, Row)
  <2>1. f \in [(A \X B) \X C -> Row]
    BY DEF Row
  <2>2. ASSUME NEW r \in Row PROVE \E t \in (A \X B) \X C : f[t] = r
    <3>1. <<<<r.stmt, r.nr>>, r.size>> \in (A \X B) \X C
      BY DEF Row
    <3>2. f[<<<<r.stmt, r.nr>>, r.size>>] = r
      BY <3>1 DEF Row
    <3> QED
      BY <3>1, <3>2
  <2> QED
    BY <2>1, <2>2 DEF Surjection
<1> QED
  BY <1>3, <1>4, FS_Surjection

\* So every set of rows has a cardinality.
LEMMA RowsFinite ==
  ASSUME NEW R \in SUBSET Row
  PROVE  IsFiniteSet(R) /\ Cardinality(R) \in Nat
BY RowFinite, FS_Subset, FS_CardinalityType

\* The first page of a chunk is always its own.
LEMMA OneIsSure == 1 \in Sure /\ Sure \subseteq 1 .. ChunkPages
BY SizeAssumption DEF Sure

\* A stripe stays where it is as long as the blocks up to n keep their contents.
LEMMA LaidKept ==
  ASSUME NEW pg \in Seq(Page), NEW pg1 \in Seq(Page), NEW st, NEW n \in 0 .. Len(pg),
         \A b \in 1 .. n : pg1[b] = pg[b],
         LaidIn(pg, st, n)
  PROVE  LaidIn(pg1, st, n) /\ DecodeIn(pg1, st) = DecodeIn(pg, st)
<1> DEFINE h == st.header
           d == pg[h].dir
<1>1. h \in 1 .. n /\ d \in 1 .. n /\ pg1[h] = pg[h] /\ pg1[d] = pg[d] /\ pg1[h].dir = d
  BY DEF LaidIn
<1>2. ASSUME NEW c \in 1 .. Columns, NEW p \in Sure
      PROVE /\ BlockIn(pg1, d, c, p) = BlockIn(pg, d, c, p)
            /\ BlockIn(pg, d, c, p) \in 1 .. n
            /\ pg1[BlockIn(pg, d, c, p)] = Chunk(DecodeIn(pg, st), c, p)
  BY <1>1 DEF LaidIn, BlockIn
<1>3. 1 \in 1 .. Columns /\ 1 \in Sure
  BY SizeAssumption, OneIsSure
<1>4. pg[d].first[1] \in 1 .. n
  <2>1. pg[d].first[1] + 1 - 1 \in 1 .. n
    BY <1>2, <1>3 DEF BlockIn
  <2>2. pg[d].first \in [1 .. Columns -> Nat]
    <3>1. pg[d] \in Page /\ pg[d].kind = "dir"
      BY <1>1 DEF LaidIn
    <3> QED
      BY <3>1 DEF Page, Zeroed
  <2>3. pg[d].first[1] \in Nat
    BY <2>2, <1>3
  <2> QED
    BY <2>1, <2>3
<1>5. DecodeIn(pg1, st) = DecodeIn(pg, st)
  BY <1>1, <1>4 DEF DecodeIn
<1> QED
  BY <1>1, <1>2, <1>5 DEF LaidIn

\* A session that flushes has a flush of the right shape.
LEMMA FlushTyped ==
  ASSUME Types, NEW s \in Sessions, flush[s] # NoFlush
  PROVE  flush[s] \in Flush
BY DEF Types

\* The same, from the guard of a flush step.
LEMMA FlushingTyped ==
  ASSUME Types, NEW s \in Sessions, NEW step \in {"chunk", "rows", "stripe", "dir", "header", "publish"},
         Flushing(s, step)
  PROVE  flush[s] \in Flush /\ flush[s] # NoFlush /\ flush[s].step = step
BY DEF Types, Flushing, NoFlush

\* The flush that StartFlush begins, and the empty buffer it leaves.
LEMMA StartFlushTyped ==
  ASSUME Types, NEW s \in Sessions, NEW rows \in SUBSET Row,
         NEW then \in {"insert", "ready", "commit"}, StartFlush(s, rows, then)
  PROVE  /\ flush' \in [Sessions -> Flush \cup {NoFlush}]
         /\ pending' \in [Sessions -> SUBSET Row]
         /\ pc' \in [Sessions -> {"idle", "ready", "insert", "select", "flush", "commit"}]
         /\ flush' = [flush EXCEPT ![s] = flush'[s]]
         /\ flush'[s] \in Flush
         /\ flush'[s].step = "chunk" /\ flush'[s].rows = rows /\ flush'[s].then = then
         /\ flush'[s].col = 1 /\ flush'[s].part = 1 /\ flush'[s].dir = 0
         /\ pending' = [pending EXCEPT ![s] = {}]
         /\ pc' = [pc EXCEPT ![s] = "flush"]
<1> DEFINE g == [step |-> "chunk", rows |-> rows, then |-> then,
                 first |-> [c \in 1 .. Columns |-> 0], col |-> 1, part |-> 1,
                 base |-> 0, id |-> 0, dir |-> 0, header |-> 0]
<1>1. g \in Flush
  BY SizeAssumption DEF Flush
<1>2. flush' = [flush EXCEPT ![s] = g]
  BY DEF StartFlush
<1>3. g.step = "chunk" /\ g.rows = rows /\ g.then = then /\ g.col = 1 /\ g.part = 1 /\ g.dir = 0
  OBVIOUS
<1> HIDE DEF g
<1>4. flush'[s] = g
  BY <1>2 DEF Types
<1> QED
  BY <1>1, <1>2, <1>3, <1>4 DEF Types, StartFlush, Goto

\* Types, step by step: a page of a chunk ...
LEMMA TypesWriteChunk ==
  ASSUME Types, NEW s \in Sessions, WriteChunkPage(s) PROVE Types'
<1> DEFINE f == flush[s]
           last == f.part = ChunkPages
<1>1. f \in Flush
  BY FlushingTyped DEF WriteChunkPage
<1>2. Chunk(f.rows, f.col, f.part) \in Page
  BY <1>1 DEF Chunk, Page, Flush
<1>3. pages' \in Seq(Page)
  BY <1>2 DEF WriteChunkPage, AppendPage, Chunk, Types
<1>4. flush'[s] \in Flush /\ flush' = [flush EXCEPT ![s] = flush'[s]]
  <2>1. NewBlock \in Nat
    BY DEF NewBlock, Types
  <2> DEFINE g == [f EXCEPT !.first[f.col] = IF f.part = 1 THEN NewBlock ELSE @,
                            !.part = IF last THEN 1 ELSE @ + 1,
                            !.col = IF last /\ f.col < Columns THEN @ + 1 ELSE @,
                            !.step = IF last /\ f.col = Columns THEN "rows" ELSE @]
  <2>2. g \in Flush
    <3> DEFINE first1 == [f.first EXCEPT ![f.col] = IF f.part = 1 THEN NewBlock ELSE @]
               part1 == IF last THEN 1 ELSE f.part + 1
               col1 == IF last /\ f.col < Columns THEN f.col + 1 ELSE f.col
               step1 == IF last /\ f.col = Columns THEN "rows" ELSE f.step
    <3>1. first1 \in [1 .. Columns -> Nat]
      BY <1>1, <2>1 DEF Flush
    <3>2. part1 \in 1 .. ChunkPages
      BY <1>1, SizeAssumption DEF Flush
    <3>3. col1 \in 1 .. Columns
      BY <1>1, SizeAssumption DEF Flush
    <3>4. step1 \in {"chunk", "rows", "stripe", "dir", "header", "publish"}
      BY <1>1 DEF Flush
    <3>5. g = [f EXCEPT !.first = first1, !.part = part1, !.col = col1, !.step = step1]
      BY <1>1 DEF Flush
    <3> HIDE DEF first1, part1, col1, step1, g
    <3> QED
      BY <1>1, <3>1, <3>2, <3>3, <3>4, <3>5 DEF Flush
  <2>3. flush' = [flush EXCEPT ![s] = g]
    BY DEF WriteChunkPage
  <2> HIDE DEF g
  <2> QED
    BY <2>2, <2>3 DEF Types
<1> QED
  BY <1>3, <1>4 DEF Types, WriteChunkPage

\* ... the other steps of a flush ...
LEMMA TypesFlushStep ==
  ASSUME Types, Control, NEW s \in Sessions, FlushStep(s) PROVE Types'
<1>1. CASE WriteChunkPage(s)
  BY <1>1, TypesWriteChunk
<1>2. CASE ReserveRows(s)
  <2>1. flush[s] \in Flush
    BY <1>2, FlushingTyped DEF ReserveRows
  <2>2. Cardinality(flush[s].rows) \in Nat
    BY <2>1, RowsFinite DEF Flush
  <2>3. meta' \in Counters
    <3>1. meta \in Counters /\ meta' = [meta EXCEPT !.rows = @ + Cardinality(flush[s].rows)]
      BY <1>2 DEF ReserveRows, Types
    <3> QED
      BY <3>1, <2>2 DEF Counters
  <2>4. flush' \in [Sessions -> Flush \cup {NoFlush}]
    BY <1>2, <2>1 DEF ReserveRows, Types, Flush, Counters
  <2> QED
    BY <1>2, <2>3, <2>4 DEF ReserveRows, Types
<1>3. CASE ReserveStripe(s)
  <2>1. flush[s] \in Flush
    BY <1>3, FlushingTyped DEF ReserveStripe
  <2>3. meta' \in Counters
    <3>1. meta \in Counters /\ meta' = [meta EXCEPT !.stripe = @ + 1]
      BY <1>3 DEF ReserveStripe, Types
    <3> QED
      BY <3>1 DEF Counters
  <2>4. flush' \in [Sessions -> Flush \cup {NoFlush}]
    BY <1>3, <2>1 DEF ReserveStripe, Types, Flush, Counters
  <2> QED
    BY <1>3, <2>3, <2>4 DEF ReserveStripe, Types
<1>4. CASE WriteDirectory(s)
  <2>1. flush[s] \in Flush
    BY <1>4, FlushingTyped DEF WriteDirectory
  <2>2. [kind |-> "dir", first |-> flush[s].first] \in Page
    BY <2>1 DEF Flush, Page
  <2>3. pages' \in Seq(Page) /\ NewBlock \in Nat
    BY <1>4, <2>2 DEF WriteDirectory, AppendPage, Types, NewBlock
  <2>4. flush' \in [Sessions -> Flush \cup {NoFlush}]
    BY <1>4, <2>1, <2>3 DEF WriteDirectory, Types, Flush
  <2> QED
    BY <1>4, <2>3, <2>4 DEF WriteDirectory, Types
<1>5. CASE WriteHeader(s)
  <2>1. flush[s] \in Flush
    BY <1>5, FlushingTyped DEF WriteHeader
  <2>2. [kind |-> "header", dir |-> flush[s].dir] \in Page
    BY <2>1 DEF Flush, Page
  <2>3. pages' \in Seq(Page) /\ NewBlock \in Nat
    BY <1>5, <2>2 DEF WriteHeader, AppendPage, Types, NewBlock
  <2>4. flush' \in [Sessions -> Flush \cup {NoFlush}]
    BY <1>5, <2>1, <2>3 DEF WriteHeader, Types, Flush
  <2> QED
    BY <1>5, <2>3, <2>4 DEF WriteHeader, Types
<1>6. CASE Publish(s)
  <2>1. flush[s] \in Flush
    BY <1>6, FlushingTyped DEF Publish
  <2>2. Cardinality(flush[s].rows) \in Nat
    BY <2>1, RowsFinite DEF Flush
  <2>3. Len(subs[s]) \in 0 .. MaxDepth
    BY BoundAssumption DEF Types, Control, ControlOf
  <2>4. [id |-> flush[s].id, base |-> flush[s].base, count |-> Cardinality(flush[s].rows),
         header |-> flush[s].header, sub |-> Len(subs[s])] \in Stripe
    BY <2>1, <2>2, <2>3 DEF Flush, Stripe
  <2>5. mine' \in [Sessions -> SUBSET Stripe]
    BY <1>6, <2>4 DEF Publish, Types
  <2>6. flush' \in [Sessions -> Flush \cup {NoFlush}]
    BY <1>6 DEF Publish, Types
  <2>7. pc' \in [Sessions -> {"idle", "ready", "insert", "select", "flush", "commit"}]
    BY <1>6, <2>1 DEF Publish, Goto, Types, Flush
  <2> QED
    BY <1>6, <2>5, <2>6, <2>7 DEF Publish, Types
<1> QED
  BY <1>1, <1>2, <1>3, <1>4, <1>5, <1>6 DEF FlushStep

\* What lies in the first m blocks lies in the first n, for n at least m.
LEMMA LaidMore ==
  ASSUME NEW pg, NEW st, NEW m \in Nat, NEW n \in Nat, m <= n, LaidIn(pg, st, m)
  PROVE  LaidIn(pg, st, n)
<1>1. 1 .. m \subseteq 1 .. n
  OBVIOUS
<1> HIDE DEF Chunk, BlockIn, DecodeIn
<1> QED
  BY <1>1, Zenon DEF LaidIn

\* The first page of a laid stripe's first chunk holds its rows.
LEMMA LaidRows ==
  ASSUME NEW pg \in Seq(Page), NEW st, NEW n \in 0 .. Len(pg), LaidIn(pg, st, n)
  PROVE  /\ DecodeIn(pg, st) \in SUBSET Row
         /\ st.count = Cardinality(DecodeIn(pg, st)) /\ st.count \in Nat
<1>1. 1 \in 1 .. Columns /\ 1 \in Sure
  BY SizeAssumption, OneIsSure
<1> DEFINE b == BlockIn(pg, pg[st.header].dir, 1, 1)
<1>2. b \in 1 .. n /\ pg[b] = Chunk(DecodeIn(pg, st), 1, 1) /\ Cardinality(DecodeIn(pg, st)) = st.count
  BY <1>1 DEF LaidIn
<1>3. pg[b] \in Page
  BY <1>2
<1>4. pg[b].kind = "chunk" /\ pg[b].rows = DecodeIn(pg, st)
  BY <1>2 DEF Chunk
<1> HIDE DEF b
<1>5. pg[b].rows \in SUBSET Row
  BY <1>3, <1>4 DEF Page, Zeroed
<1> QED
  BY <1>2, <1>4, <1>5, RowsFinite

\* A published stripe lies in the file and holds as many rows as its catalog row says.
LEMMA PublishedLaid ==
  ASSUME Types, Placed
  PROVE  \A st \in Published :
           /\ LaidIn(pages, st, Len(pages))
           /\ Decode(st) \in SUBSET Row
           /\ st.count = Cardinality(Decode(st)) /\ st.count \in Nat
           /\ st \in Stripe
<1> SUFFICES ASSUME NEW st \in Published
             PROVE /\ LaidIn(pages, st, Len(pages))
                   /\ Decode(st) \in SUBSET Row
                   /\ st.count = Cardinality(Decode(st)) /\ st.count \in Nat
                   /\ st \in Stripe
  OBVIOUS
<1>1. pages \in Seq(Page) /\ Len(pages) \in Nat /\ durable.pages \in Nat /\ durable.pages <= Len(pages)
  BY DEF Types, Placed
<1>2. LaidIn(pages, st, Len(pages)) /\ st \in Stripe
  <2>1. CASE st \in stripes
    BY <2>1, <1>1, LaidMore DEF Placed, Types
  <2>2. CASE \E s \in Sessions : st \in mine[s]
    BY <2>2 DEF Placed, Types
  <2> QED
    BY <2>1, <2>2 DEF Published
<1>3. /\ DecodeIn(pages, st) \in SUBSET Row
      /\ st.count = Cardinality(DecodeIn(pages, st)) /\ st.count \in Nat
  BY <1>1, <1>2, LaidRows
<1> QED
  BY <1>2, <1>3 DEF Decode, DecodeIn

\* A session's memory holds rows.
LEMMA HeldTyped ==
  ASSUME Types, NEW s \in Sessions
  PROVE  /\ flush[s].rows \in SUBSET Row /\ pending[s] \in SUBSET Row
         /\ Held(s) \in SUBSET Row /\ CountOf(s) \in Nat
<1>1. flush[s].rows \in SUBSET Row
  BY DEF Types, Flush, NoFlush
<1>2. pending[s] \in SUBSET Row
  BY DEF Types
<1> QED
  BY <1>1, <1>2, RowsFinite DEF Held, CountOf

\* What a statement sees are rows.
LEMMA VisibleTyped ==
  ASSUME Types, Placed, NEW s \in Sessions
  PROVE  Visible(s) \in SUBSET Row /\ \A S \in SUBSET Published : RowsOf(S) \in SUBSET Row
<1>1. \A S \in SUBSET Published : RowsOf(S) \in SUBSET Row
  BY PublishedLaid DEF RowsOf
<1>2. RowsOf(stripes) \in SUBSET Row /\ RowsOf(mine[s]) \in SUBSET Row
  BY <1>1 DEF Published
<1> QED
  BY <1>1, <1>2, HeldTyped DEF Visible, OwnRows

\* The next row of a statement is a row: its number is in bounds.
LEMMA NextRowTyped ==
  ASSUME Types, Scanned, Control, NEW s \in Sessions, pc[s] = "insert", stmt[s].left > 0
  PROVE  NextRow(s) \in Row /\ stmt[s] \in Insert
<1>1. stmt[s] \in Insert /\ Copied(s) <= MaxStmtRows + MaxCopied
  <2>1. stmt[s] \in Insert /\ InInsert(s)
    BY DEF Control, ControlOf, InInsert
  <2>2. (~stmt[s].self => Copied(s) <= MaxStmtRows) /\ (stmt[s].self => Copied(s) <= MaxCopied)
    BY <2>1 DEF Scanned, Numbering
  <2>3. stmt[s].self \in BOOLEAN /\ Copied(s) \in Nat
    BY <2>1 DEF Insert, Copied
  <2> QED
    BY <2>1, <2>2, <2>3, BoundAssumption
<1>2. stmt[s].next \in 1 .. (MaxStmtRows + MaxCopied)
  BY <1>1, BoundAssumption DEF Copied, Insert
<1> QED
  BY <1>1, <1>2 DEF NextRow, Row, Insert

\* ... the steps of an INSERT ...
LEMMA TypesInsert ==
  ASSUME Types, Scanned, Control, NEW s \in Sessions,
         \/ \E n \in 1 .. MaxStmtRows, size \in {1, Budget + 1}, bulk \in BOOLEAN :
              StartInsert(s, n, size, bulk)
         \/ FlushFirst(s) \/ PushRow(s) \/ EndInsert(s)
  PROVE  Types'
<1>1. ASSUME NEW n \in 1 .. MaxStmtRows, NEW size \in {1, Budget + 1}, NEW bulk \in BOOLEAN,
             StartInsert(s, n, size, bulk)
      PROVE  Types'
  <2>1. inserts' \in 1 .. MaxInserts /\ n \in Nat
    BY <1>1, BoundAssumption DEF StartInsert, Types
  <2>2. [id |-> inserts + 1, next |-> 1, left |-> n, size |-> size, bulk |-> bulk,
         self |-> FALSE] \in Insert
    BY <1>1, <2>1 DEF StartInsert, Insert
  <2>3. stmt' \in [Sessions -> Insert \cup {NoStmt}]
    BY <1>1, <2>2 DEF StartInsert, Types
  <2> QED
    BY <1>1, <2>1, <2>3 DEF StartInsert, Types, Goto
<1>2. CASE FlushFirst(s)
  <2>1. StartFlush(s, pending[s], "insert") /\ pending[s] \in SUBSET Row
    BY <1>2 DEF FlushFirst, Types
  <2> QED
    BY <1>2, <2>1, StartFlushTyped DEF FlushFirst, Types
<1>3. CASE PushRow(s)
  <2> DEFINE r == NextRow(s)
             rows == pending[s] \cup {r}
  <2>1. r \in Row /\ stmt[s] \in Insert /\ stmt[s].left > 0
    BY <1>3, NextRowTyped DEF PushRow
  <2>2. rows \in SUBSET Row
    BY <2>1 DEF Types
  <2>3. /\ flush' \in [Sessions -> Flush \cup {NoFlush}]
        /\ pending' \in [Sessions -> SUBSET Row]
        /\ pc' \in [Sessions -> {"idle", "ready", "insert", "select", "flush", "commit"}]
    <3>1. CASE StartFlush(s, rows, "insert")
      BY <3>1, <2>2, StartFlushTyped
    <3>2. CASE pending' = [pending EXCEPT ![s] = rows] /\ UNCHANGED <<flush, pc>>
      <4> HIDE DEF rows
      <4> QED
        BY <3>2, <2>2 DEF Types
    <3> QED
      BY <1>3, <3>1, <3>2 DEF PushRow
  <2>4. kept' \in [Sessions -> SUBSET Row]
    BY <1>3, <2>1 DEF PushRow, Types
  <2>5. stmt' \in [Sessions -> Insert \cup {NoStmt}]
    <3>1. stmt' = [stmt EXCEPT ![s] = [stmt[s] EXCEPT !.left = @ - 1, !.next = @ + 1]]
      BY <1>3 DEF PushRow
    <3>2. [stmt[s] EXCEPT !.left = @ - 1, !.next = @ + 1] \in Insert
      <4> DEFINE left1 == stmt[s].left - 1
                 next1 == stmt[s].next + 1
      <4>1. left1 \in Nat /\ next1 \in Nat \ {0}
        BY <2>1 DEF Insert
      <4> HIDE DEF left1, next1
      <4>2. [stmt[s] EXCEPT !.left = left1, !.next = next1] \in Insert
        BY <2>1, <4>1 DEF Insert
      <4> QED
        BY <4>2 DEF left1, next1
    <3> QED
      BY <3>1, <3>2 DEF Types
  <2> QED
    BY <1>3, <2>3, <2>4, <2>5 DEF PushRow, Types
<1>4. CASE EndInsert(s)
  <2>3. /\ flush' \in [Sessions -> Flush \cup {NoFlush}]
        /\ pending' \in [Sessions -> SUBSET Row]
        /\ pc' \in [Sessions -> {"idle", "ready", "insert", "select", "flush", "commit"}]
    <3>1. CASE StartFlush(s, pending[s], "ready")
      <4>1. pending[s] \in SUBSET Row
        BY DEF Types
      <4> QED
        BY <3>1, <4>1, StartFlushTyped
    <3>2. CASE Goto(s, "ready") /\ UNCHANGED <<flush, pending>>
      BY <3>2 DEF Types, Goto
    <3> QED
      BY <1>4, <3>1, <3>2 DEF EndInsert
  <2> QED
    BY <1>4, <2>3 DEF EndInsert, Types
<1> QED
  BY <1>1, <1>2, <1>3, <1>4

\* The scan that BeginScan opens.
LEMMA BeginScanTyped ==
  ASSUME Types, Placed, NEW s \in Sessions, BeginScan(s)
  PROVE  /\ scan' \in [Sessions -> Scan \cup {NoScan}]
         /\ scan' = [scan EXCEPT ![s] = scan'[s]]
         /\ scan'[s] = [open |-> TRUE, done |-> FALSE, todo |-> stripes \cup mine[s],
                        out |-> {}, view |-> Visible(s)]
         /\ scan'[s] \in Scan
<1> DEFINE g == [open |-> TRUE, done |-> FALSE, todo |-> stripes \cup mine[s], out |-> {},
                 view |-> Visible(s)]
<1>1. stripes \cup mine[s] \in SUBSET Stripe
  BY DEF Types
<1>2. g \in Scan
  BY <1>1, VisibleTyped DEF Scan
<1>3. scan' = [scan EXCEPT ![s] = g]
  BY DEF BeginScan
<1> HIDE DEF g
<1>4. scan' \in [Sessions -> Scan \cup {NoScan}] /\ scan' = [scan EXCEPT ![s] = scan'[s]]
      /\ scan'[s] = g /\ scan'[s] \in Scan
  BY <1>2, <1>3 DEF Types
<1> QED
  BY <1>4 DEF g

\* What delivering a batch does to the scan.
LEMMA DeliverTyped ==
  ASSUME Types, Control, NEW s \in Sessions, Wanted(s), NEW rows \in SUBSET Row,
         NEW rest \in SUBSET Stripe, NEW done \in BOOLEAN, Deliver(s, rows, rest, done)
  PROVE  /\ Types' /\ scan[s] \in Scan
         /\ scan' = [scan EXCEPT ![s] = scan'[s]]
         /\ scan'[s] \in Scan
         /\ scan'[s].done = done /\ scan'[s].todo = rest
         /\ scan'[s].out = scan[s].out \cup rows /\ scan'[s].view = scan[s].view
         /\ pc[s] = "insert" => /\ stmt[s] \in Insert /\ stmt' = [stmt EXCEPT ![s] = stmt'[s]]
                                /\ stmt'[s] = [stmt[s] EXCEPT !.left = Cardinality(rows)]
<1>1. scan[s] \in Scan
  BY DEF Wanted, Types, NoScan
<1> DEFINE g == [scan[s] EXCEPT !.out = @ \cup rows, !.todo = rest, !.done = done]
<1>2. scan' = [scan EXCEPT ![s] = g]
  BY DEF Deliver
<1>3. g \in Scan
  BY <1>1 DEF Scan
<1>4. g.done = done /\ g.todo = rest /\ g.out = scan[s].out \cup rows /\ g.view = scan[s].view
  BY <1>1 DEF Scan
<1>5. /\ pc[s] = "insert" => /\ stmt[s] \in Insert /\ stmt' = [stmt EXCEPT ![s] = stmt'[s]]
                             /\ stmt'[s] = [stmt[s] EXCEPT !.left = Cardinality(rows)]
      /\ stmt' \in [Sessions -> Insert \cup {NoStmt}]
  <2>1. CASE pc[s] = "insert"
    <3>1. stmt[s] \in Insert
      BY <2>1 DEF Control, ControlOf, InInsert
    <3> DEFINE h == [stmt[s] EXCEPT !.left = Cardinality(rows)]
    <3>2. h \in Insert
      BY <3>1, RowsFinite DEF Insert
    <3>3. stmt' = [stmt EXCEPT ![s] = h]
      BY <2>1 DEF Deliver
    <3> HIDE DEF h
    <3>4. stmt'[s] = h /\ stmt' = [stmt EXCEPT ![s] = stmt'[s]] /\ stmt' \in [Sessions -> Insert \cup {NoStmt}]
      BY <3>2, <3>3 DEF Types
    <3> QED
      BY <3>1, <3>4 DEF h
  <2>2. CASE pc[s] # "insert"
    BY <2>2 DEF Deliver, Types
  <2> QED
    BY <2>1, <2>2
<1> HIDE DEF g
<1>6. scan'[s] = g /\ scan'[s] \in Scan /\ scan' = [scan EXCEPT ![s] = scan'[s]] /\ scan' \in [Sessions -> Scan \cup {NoScan}]
  BY <1>2, <1>3 DEF Types
<1>7. Types'
  BY <1>5, <1>6 DEF Deliver, Types
<1> QED
  BY <1>1, <1>4, <1>5, <1>6, <1>7

\* ... those of a scan ...
LEMMA TypesScan ==
  ASSUME Types, Placed, Scanned, Control, NEW s \in Sessions,
         StartSelect(s) \/ StartSelfInsert(s) \/ FetchStripe(s) \/ FetchPending(s) \/ EndSelect(s)
  PROVE  Types'
<1>1. CASE StartSelect(s)
  <2>1. BeginScan(s)
    BY <1>1 DEF StartSelect
  <2>2. scan' \in [Sessions -> Scan \cup {NoScan}]
    BY <2>1, BeginScanTyped
  <2>3. pc' \in [Sessions -> {"idle", "ready", "insert", "select", "flush", "commit"}]
    BY <1>1 DEF StartSelect, Goto, Types
  <2>4. scans' \in Nat
    BY <1>1 DEF StartSelect, Types
  <2> QED
    BY <1>1, <2>2, <2>3, <2>4 DEF StartSelect, Types
<1>2. CASE StartSelfInsert(s)
  <2>1. BeginScan(s)
    BY <1>2 DEF StartSelfInsert
  <2>2. inserts' \in 1 .. MaxInserts
    BY <1>2, BoundAssumption DEF StartSelfInsert, Types
  <2>3. [id |-> inserts + 1, next |-> 1, left |-> 0, size |-> 1, bulk |-> FALSE,
         self |-> TRUE] \in Insert
    BY <1>2, <2>2 DEF StartSelfInsert, Insert
  <2>4. stmt' \in [Sessions -> Insert \cup {NoStmt}]
    BY <1>2, <2>3 DEF StartSelfInsert, Types
  <2>5. scan' \in [Sessions -> Scan \cup {NoScan}]
    BY <2>1, BeginScanTyped
  <2>6. pc' \in [Sessions -> {"idle", "ready", "insert", "select", "flush", "commit"}]
    BY <1>2 DEF StartSelfInsert, Goto, Types
  <2> QED
    BY <1>2, <2>2, <2>4, <2>5, <2>6 DEF StartSelfInsert, Types
<1>3. CASE FetchStripe(s)
  <2>1. PICK st \in scan[s].todo : Deliver(s, Decode(st), scan[s].todo \ {st}, FALSE)
    BY <1>3 DEF FetchStripe
  <2>2. scan[s].open /\ scan[s] \in Scan
    BY <1>3 DEF FetchStripe, Wanted, Types, NoScan
  <2>3. scan[s].todo \in SUBSET Published /\ scan[s].todo \in SUBSET Stripe
    <3>1. scan[s].todo \subseteq stripes \cup mine[s]
      BY <2>2 DEF Scanned, Viewed
    <3> QED
      BY <2>2, <3>1 DEF Published, Scan
  <2>4. Decode(st) \in SUBSET Row
    BY <2>1, <2>3, PublishedLaid
  <2>5. scan[s].todo \ {st} \in SUBSET Stripe
    BY <2>3
  <2> QED
    BY <1>3, <2>1, <2>4, <2>5, DeliverTyped DEF FetchStripe
<1>4. CASE FetchPending(s)
  <2>1. pending[s] \in SUBSET Row
    BY DEF Types
  <2> QED
    BY <1>4, <2>1, DeliverTyped DEF FetchPending
<1>5. CASE EndSelect(s)
  BY <1>5 DEF EndSelect, Types, Goto
<1> QED
  BY <1>1, <1>2, <1>3, <1>4, <1>5

\* What Forget leaves has the right types.
LEMMA ForgetTyped ==
  ASSUME Types, NEW S \in SUBSET Sessions, Forget(S)
  PROVE  /\ mine' \in [Sessions -> SUBSET Stripe]
         /\ pending' \in [Sessions -> SUBSET Row]
         /\ flush' \in [Sessions -> Flush \cup {NoFlush}]
         /\ stmt' \in [Sessions -> Insert \cup {NoStmt}]
         /\ scan' \in [Sessions -> Scan \cup {NoScan}]
         /\ pc' \in [Sessions -> {"idle", "ready", "insert", "select", "flush", "commit"}]
         /\ subs' \in [Sessions -> Seq(SUBSET Row)]
         /\ kept' \in [Sessions -> SUBSET Row]
<1>1. <<>> \in Seq(SUBSET Row)
  OBVIOUS
<1> QED
  BY <1>1 DEF Forget, Types

\* What recovery leaves of the file and of the counters.
LEMMA CrashFile ==
  ASSUME Types, Placed, Crash
  PROVE  /\ pages' \in Seq(Page) /\ meta' \in Counters
         /\ durable.pages <= Len(pages')
         /\ \A b \in 1 .. durable.pages : pages'[b] = pages[b]
         /\ meta' = meta \/ meta' = durable.meta
         /\ durable' = [pages |-> Len(pages'), meta |-> meta']
         /\ durable' \in [pages : Nat, meta : Counters]
<1>1. /\ pages \in Seq(Page) /\ meta \in Counters /\ durable.pages \in Nat
      /\ durable.meta \in Counters /\ durable.pages <= Len(pages)
  BY DEF Types, Placed
<1>2. /\ pages' \in Seq(Page) /\ meta' \in Counters
      /\ durable.pages <= Len(pages')
      /\ \A b \in 1 .. durable.pages : pages'[b] = pages[b]
      /\ meta' = meta \/ meta' = durable.meta
  <2>1. CASE UNCHANGED <<pages, meta>>
    BY <1>1, <2>1
  <2>2. ASSUME NEW n \in {durable.pages, Len(pages)}, meta' = durable.meta,
               pages' = [b \in 1 .. n |-> IF b <= durable.pages THEN pages[b] ELSE Zeroed]
        PROVE  /\ pages' \in Seq(Page) /\ meta' \in Counters
               /\ durable.pages <= Len(pages')
               /\ \A b \in 1 .. durable.pages : pages'[b] = pages[b]
               /\ meta' = meta \/ meta' = durable.meta
    <3>1. n \in Nat /\ durable.pages <= n /\ n <= Len(pages)
      BY <1>1, <2>2
    <3>2. Zeroed \in Page
      BY DEF Page
    <3>3. pages' \in [1 .. n -> Page]
      BY <1>1, <2>2, <3>1, <3>2
    <3>4. pages' \in Seq(Page) /\ Len(pages') = n
      BY <3>1, <3>3
    <3> QED
      BY <1>1, <2>2, <3>1, <3>4
  <2> QED
    BY <2>1, <2>2 DEF Crash
<1>3. durable' = [pages |-> Len(pages'), meta |-> meta']
  BY DEF Crash, AllWritten
<1>4. Len(pages') \in Nat
  BY <1>2
<1> QED
  BY <1>2, <1>3, <1>4

\* ... and those of a transaction.
LEMMA TypesTransaction ==
  ASSUME Types, Placed, Control, NEW s \in Sessions, Transaction(s)
  PROVE  Types'
<1>1. CASE Begin(s)
  BY <1>1 DEF Begin, Types, Goto
<1>2. CASE PreCommit(s)
  <2>1. pending[s] \in SUBSET Row
    BY DEF Types
  <2>2. CASE StartFlush(s, pending[s], "commit")
    BY <1>2, <2>1, <2>2, StartFlushTyped DEF PreCommit, Types
  <2>3. CASE Goto(s, "commit") /\ UNCHANGED <<flush, pending>>
    BY <1>2, <2>3 DEF PreCommit, Goto, Types
  <2> QED
    BY <1>2, <2>2, <2>3 DEF PreCommit
<1>3. CASE Commit(s)
  <2>1. {Committed(st) : st \in mine[s]} \in SUBSET Stripe
    <3>1. ASSUME NEW st \in Stripe PROVE Committed(st) \in Stripe
      BY BoundAssumption DEF Committed, Stripe
    <3>2. mine[s] \in SUBSET Stripe
      BY DEF Types
    <3> QED
      BY <3>1, <3>2
  <2>2. stripes' \in SUBSET Stripe
    BY <1>3, <2>1 DEF Commit, Types
  <2>3. durable' \in [pages : Nat, meta : Counters]
    <3>1. Len(pages) \in Nat /\ meta \in Counters
      BY DEF Types
    <3> QED
      BY <1>3, <3>1 DEF Commit, AllWritten
  <2>4. subs' \in [Sessions -> Seq(SUBSET Row)]
    <3>1. <<>> \in Seq(SUBSET Row)
      OBVIOUS
    <3> QED
      BY <1>3, <3>1 DEF Commit, Types
  <2>5. /\ mine' \in [Sessions -> SUBSET Stripe]
        /\ kept' \in [Sessions -> SUBSET Row]
        /\ pc' \in [Sessions -> {"idle", "ready", "insert", "select", "flush", "commit"}]
    BY <1>3 DEF Commit, Types, Goto
  <2> QED
    BY <1>3, <2>2, <2>3, <2>4, <2>5 DEF Commit, Types
<1>4. CASE Abort(s)
  <2>1. Forget({s}) /\ {s} \in SUBSET Sessions
    BY <1>4 DEF Abort
  <2> QED
    BY <1>4, <2>1, ForgetTyped DEF Abort, Types
<1>5. CASE Savepoint(s)
  <2>1. subs' \in [Sessions -> Seq(SUBSET Row)]
    <3>1. subs[s] \in Seq(SUBSET Row) /\ kept[s] \in SUBSET Row
      BY DEF Types
    <3>2. Append(subs[s], kept[s]) \in Seq(SUBSET Row)
      BY <3>1
    <3> QED
      BY <1>5, <3>2 DEF Savepoint, Types
  <2> QED
    BY <1>5, <2>1 DEF Savepoint, Types
<1>6. CASE Release(s)
  <2> DEFINE depth == Len(subs[s])
  <2>1. subs[s] \in Seq(SUBSET Row) /\ depth \in 1 .. MaxDepth
    BY <1>6, BoundAssumption DEF Release, Types, Control, ControlOf
  <2>2. SubSeq(subs[s], 1, depth - 1) \in Seq(SUBSET Row)
    BY <2>1
  <2>3. subs' \in [Sessions -> Seq(SUBSET Row)]
    BY <1>6, <2>2 DEF Release, Types
  <2> DEFINE relabelled == {IF st.sub = depth THEN [st EXCEPT !.sub = depth - 1] ELSE st : st \in mine[s]}
  <2>4. relabelled \in SUBSET Stripe
    <3>1. ASSUME NEW st \in Stripe PROVE [st EXCEPT !.sub = depth - 1] \in Stripe
      <4>1. depth - 1 \in 0 .. MaxDepth
        BY <2>1, BoundAssumption
      <4> HIDE DEF depth
      <4> QED
        BY <4>1 DEF Stripe
    <3>2. mine[s] \in SUBSET Stripe
      BY DEF Types
    <3> HIDE DEF depth
    <3> QED
      BY <3>1, <3>2
  <2>5. mine' = [mine EXCEPT ![s] = relabelled]
    BY <1>6 DEF Release
  <2> HIDE DEF relabelled
  <2>6. mine' \in [Sessions -> SUBSET Stripe]
    BY <2>4, <2>5 DEF Types
  <2> QED
    BY <1>6, <2>3, <2>6 DEF Release, Types
<1>7. CASE RollbackTo(s)
  <2> DEFINE depth == Len(subs[s])
  <2>1. subs[s] \in Seq(SUBSET Row) /\ depth \in 1 .. MaxDepth
    BY <1>7, BoundAssumption DEF RollbackTo, Types, Control, ControlOf
  <2>2. subs[s][depth] \in SUBSET Row
    BY <2>1
  <2>3. kept' \in [Sessions -> SUBSET Row]
    BY <1>7, <2>2 DEF RollbackTo, Types
  <2>4. mine' \in [Sessions -> SUBSET Stripe]
    BY <1>7 DEF RollbackTo, Types
  <2> QED
    BY <1>7, <2>3, <2>4 DEF RollbackTo, Types, Goto
<1> QED
  BY <1>1, <1>2, <1>3, <1>4, <1>5, <1>6, <1>7 DEF Transaction

\* Every step keeps the types.
LEMMA TypesStep ==
  ASSUME Types, Control, Placed, Scanned, [Next]_vars
  PROVE  Types'
<1>1. CASE Crash
  <2>1. Forget(Sessions)
    BY <1>1 DEF Crash
  <2> QED
    BY <1>1, <2>1, ForgetTyped, CrashFile DEF Crash, Types
<1>2. ASSUME NEW s \in Sessions, FlushStep(s) \/ Statement(s) \/ Transaction(s)
      PROVE  Types'
  BY <1>2, TypesFlushStep, TypesInsert, TypesScan, TypesTransaction DEF Statement
<1>3. CASE UNCHANGED vars
  BY <1>3 DEF vars, Types
<1> QED
  BY <1>1, <1>2, <1>3 DEF Next

-----------------------------------------------------------------------------
(* A step of one session, seen by the others.                              *)

\* Nothing of a session other than s has changed.
Only(s) == \A t \in Sessions \ {s} :
    /\ mine'[t] = mine[t] /\ pending'[t] = pending[t] /\ flush'[t] = flush[t]
    /\ stmt'[t] = stmt[t] /\ scan'[t] = scan[t] /\ pc'[t] = pc[t]
    /\ subs'[t] = subs[t] /\ kept'[t] = kept[t]

\* A step of session s leaves the other sessions' state alone.
LEMMA StepOnly ==
  ASSUME Types, NEW s \in Sessions, FlushStep(s) \/ Statement(s) \/ Transaction(s)
  PROVE  Only(s)
<1> SUFFICES ASSUME NEW t \in Sessions, t # s
             PROVE /\ mine'[t] = mine[t] /\ pending'[t] = pending[t] /\ flush'[t] = flush[t]
                   /\ stmt'[t] = stmt[t] /\ scan'[t] = scan[t] /\ pc'[t] = pc[t]
                   /\ subs'[t] = subs[t] /\ kept'[t] = kept[t]
  BY DEF Only
<1>1. CASE FlushStep(s)
  BY <1>1 DEF FlushStep, WriteChunkPage, ReserveRows, ReserveStripe, WriteDirectory, WriteHeader,
              Publish, Types, Goto
<1>2. CASE Statement(s)
  <2>1. CASE \/ \E n \in 1 .. MaxStmtRows, size \in {1, Budget + 1}, bulk \in BOOLEAN :
                  StartInsert(s, n, size, bulk)
             \/ FlushFirst(s) \/ PushRow(s) \/ EndInsert(s)
    BY <2>1 DEF StartInsert, FlushFirst, PushRow, EndInsert, StartFlush, Types, Goto
  <2>2. CASE StartSelect(s) \/ StartSelfInsert(s) \/ EndSelect(s)
    BY <2>2 DEF StartSelect, StartSelfInsert, BeginScan, EndSelect, Types, Goto
  <2>3. CASE FetchStripe(s) \/ FetchPending(s)
    BY <2>3 DEF FetchStripe, FetchPending, Deliver, Types, Goto
  <2> QED
    BY <1>2, <2>1, <2>2, <2>3 DEF Statement
<1>3. CASE Transaction(s)
  <2>1. CASE Begin(s) \/ PreCommit(s) \/ Commit(s)
    BY <2>1 DEF Begin, PreCommit, StartFlush, Commit, Types, Goto
  <2>2. CASE Abort(s)
    BY <2>2 DEF Abort, Forget, Types
  <2>3. CASE Savepoint(s) \/ Release(s) \/ RollbackTo(s)
    BY <2>3 DEF Savepoint, Release, RollbackTo, Types, Goto
  <2> QED
    BY <1>3, <2>1, <2>2, <2>3 DEF Transaction
<1> QED
  BY <1>1, <1>2, <1>3

\* Control of the other sessions is untouched.
LEMMA ControlOthers ==
  ASSUME NEW s \in Sessions, Only(s), Control
  PROVE  \A t \in Sessions \ {s} : ControlOf(t)'
<1> SUFFICES ASSUME NEW t \in Sessions, t # s PROVE ControlOf(t)'
  OBVIOUS
<1>1. ControlOf(t)
  BY DEF Control
<1>2. /\ mine'[t] = mine[t] /\ pending'[t] = pending[t] /\ flush'[t] = flush[t]
      /\ stmt'[t] = stmt[t] /\ scan'[t] = scan[t] /\ pc'[t] = pc[t]
      /\ subs'[t] = subs[t] /\ kept'[t] = kept[t]
  BY DEF Only
<1> QED
  BY <1>1, <1>2 DEF ControlOf, InInsert

\* Control, step by step: the steps of a flush ...
LEMMA ControlFlushStep ==
  ASSUME Types, Control, NEW s \in Sessions, FlushStep(s)
  PROVE  ControlOf(s)'
<1>1. ControlOf(s)
  BY DEF Control
<1>2. flush[s] \in Flush /\ flush[s] # NoFlush /\ pc[s] = "flush"
  BY FlushingTyped DEF FlushStep, WriteChunkPage, ReserveRows, ReserveStripe, WriteDirectory,
       WriteHeader, Publish, Flushing
<1>3. CASE ~Publish(s)
  <2>1. /\ UNCHANGED <<mine, pending, stmt, scan, pc, subs, kept>>
        /\ flush'[s].then = flush[s].then /\ flush'[s] # NoFlush
    <3>1. CASE WriteChunkPage(s)
      <4>1. flush'[s].then = flush[s].then
        BY <1>2, <3>1 DEF WriteChunkPage, Types, Flush
      <4>2. flush'[s].step \in {"chunk", "rows"}
        BY <1>2, <3>1 DEF WriteChunkPage, Types, Flush, Flushing
      <4>3. flush'[s] # NoFlush
        BY <4>2 DEF NoFlush
      <4>4. UNCHANGED <<mine, pending, stmt, scan, pc, subs, kept>>
        BY <3>1 DEF WriteChunkPage
      <4> QED
        BY <4>1, <4>3, <4>4
    <3>2. CASE ReserveRows(s)
      BY <1>2, <3>2 DEF ReserveRows, Types, Flush, NoFlush
    <3>3. CASE ReserveStripe(s)
      BY <1>2, <3>3 DEF ReserveStripe, Types, Flush, NoFlush
    <3>4. CASE WriteDirectory(s)
      BY <1>2, <3>4 DEF WriteDirectory, Types, Flush, NoFlush
    <3>5. CASE WriteHeader(s)
      BY <1>2, <3>5 DEF WriteHeader, Types, Flush, NoFlush
    <3> QED
      BY <1>3, <3>1, <3>2, <3>3, <3>4, <3>5 DEF FlushStep
  <2> QED
    BY <1>1, <1>2, <2>1 DEF ControlOf, InInsert
<1>4. CASE Publish(s)
  <2>1. pc'[s] = flush[s].then /\ flush'[s] = NoFlush
    BY <1>4 DEF Publish, Goto, Types
  <2>2. UNCHANGED <<pending, stmt, scan, subs, kept>>
    BY <1>4 DEF Publish
  <2>3. flush[s].then \in {"insert", "ready", "commit"}
    BY <1>2 DEF Flush
  <2> QED
    BY <1>1, <1>2, <2>1, <2>2, <2>3 DEF ControlOf, InInsert
<1> QED
  BY <1>3, <1>4

\* ... of an INSERT ...
LEMMA ControlInsert ==
  ASSUME Types, Scanned, Control, NEW s \in Sessions,
         \/ \E n \in 1 .. MaxStmtRows, size \in {1, Budget + 1}, bulk \in BOOLEAN :
              StartInsert(s, n, size, bulk)
         \/ FlushFirst(s) \/ PushRow(s) \/ EndInsert(s)
  PROVE  ControlOf(s)'
<1>0. ControlOf(s)
  BY DEF Control
<1>1. ASSUME NEW n \in 1 .. MaxStmtRows, NEW size \in {1, Budget + 1}, NEW bulk \in BOOLEAN,
             StartInsert(s, n, size, bulk)
      PROVE  ControlOf(s)'
  <2>1. [id |-> inserts + 1, next |-> 1, left |-> n, size |-> size, bulk |-> bulk,
         self |-> FALSE] \in Insert
    BY <1>1, BoundAssumption DEF StartInsert, Insert, Types
  <2>2. stmt'[s] \in Insert /\ ~stmt'[s].self /\ pc'[s] = "insert"
    BY <1>1, <2>1 DEF StartInsert, Types, Goto
  <2> QED
    BY <1>0, <1>1, <2>2 DEF StartInsert, ControlOf, InInsert
<1>2. CASE FlushFirst(s)
  <2>1. /\ StartFlush(s, pending[s], "insert") /\ pending[s] \in SUBSET Row /\ pc[s] = "insert"
        /\ UNCHANGED <<mine, stmt, scan, subs, kept>>
    BY <1>2 DEF FlushFirst, Types
  <2>2. pc'[s] = "flush" /\ flush'[s].then = "insert" /\ flush'[s] \in Flush /\ pending'[s] = {}
    BY <2>1, StartFlushTyped DEF Types
  <2>3. flush'[s] # NoFlush
    BY <2>2 DEF Flush, NoFlush
  <2> QED
    BY <1>0, <2>1, <2>2, <2>3 DEF ControlOf, InInsert
<1>3. CASE PushRow(s)
  <2> DEFINE rows == pending[s] \cup {NextRow(s)}
  <2>1. NextRow(s) \in Row /\ stmt[s] \in Insert /\ pc[s] = "insert"
    BY <1>3, NextRowTyped DEF PushRow
  <2>2. rows \in SUBSET Row
    BY <2>1 DEF Types
  <2>3. stmt'[s] \in Insert /\ stmt'[s].self = stmt[s].self
    <3>1. stmt' = [stmt EXCEPT ![s].left = @ - 1, ![s].next = @ + 1] /\ stmt[s].left > 0
      BY <1>3 DEF PushRow
    <3>2. stmt'[s] = [stmt[s] EXCEPT !.left = @ - 1, !.next = @ + 1]
      BY <3>1 DEF Types
    <3>3. stmt[s].left - 1 \in Nat /\ stmt[s].next + 1 \in Nat \ {0}
      BY <2>1, <3>1 DEF Insert
    <3> QED
      BY <2>1, <3>2, <3>3 DEF Insert
  <2>4. UNCHANGED <<mine, scan, subs>> 
    BY <1>3 DEF PushRow
  <2>5. CASE StartFlush(s, rows, "insert")
    <3>1. pc'[s] = "flush" /\ flush'[s].then = "insert" /\ flush'[s] \in Flush /\ pending'[s] = {}
      BY <2>2, <2>5, StartFlushTyped DEF Types
    <3>2. flush'[s] # NoFlush
      BY <3>1 DEF Flush, NoFlush
    <3> QED
      BY <1>0, <2>1, <2>3, <2>4, <3>1, <3>2 DEF ControlOf, InInsert
  <2>6. CASE UNCHANGED <<flush, pc>>
    BY <1>0, <2>1, <2>3, <2>4, <2>6 DEF ControlOf, InInsert
  <2> QED
    BY <1>3, <2>5, <2>6 DEF PushRow
<1>4. CASE EndInsert(s)
  <2>1. /\ pc[s] = "insert" /\ scan'[s] = NoScan /\ UNCHANGED <<mine, subs, kept>>
    BY <1>4 DEF EndInsert, Types
  <2>2. CASE StartFlush(s, pending[s], "ready")
    <3>1. pc'[s] = "flush" /\ flush'[s].then = "ready" /\ flush'[s] \in Flush /\ pending'[s] = {}
      <4>1. pending[s] \in SUBSET Row
        BY DEF Types
      <4> QED
        BY <2>2, <4>1, StartFlushTyped DEF Types
    <3>2. flush'[s] # NoFlush
      BY <3>1 DEF Flush, NoFlush
    <3> QED
      BY <1>0, <2>1, <3>1, <3>2 DEF ControlOf, InInsert, NoScan
  <2>3. CASE Goto(s, "ready") /\ UNCHANGED <<flush, pending>>
    BY <1>0, <2>1, <2>3 DEF ControlOf, InInsert, NoScan, Goto, Types
  <2> QED
    BY <1>4, <2>2, <2>3 DEF EndInsert
<1> QED
  BY <1>1, <1>2, <1>3, <1>4

\* ... of a scan ...
LEMMA ControlScan ==
  ASSUME Types, Placed, Scanned, Control, NEW s \in Sessions,
         StartSelect(s) \/ StartSelfInsert(s) \/ FetchStripe(s) \/ FetchPending(s) \/ EndSelect(s)
  PROVE  ControlOf(s)'
<1>0. ControlOf(s)
  BY DEF Control
<1>1. CASE StartSelect(s)
  <2>1. BeginScan(s) /\ UNCHANGED <<mine, pending, flush, stmt, subs, kept>> /\ pc[s] = "ready"
    BY <1>1 DEF StartSelect
  <2>2. pc'[s] = "select"
    BY <1>1 DEF StartSelect, Goto, Types
  <2>3. scan'[s].open
    <3>1. scan'[s] \in Scan
      BY <2>1, BeginScanTyped
    <3> QED
      BY <3>1 DEF Scan
  <2> QED
    BY <1>0, <2>1, <2>2, <2>3 DEF ControlOf, InInsert
<1>2. CASE StartSelfInsert(s)
  <2>1. BeginScan(s) /\ UNCHANGED <<mine, pending, flush, subs, kept>> /\ pc[s] = "ready"
    BY <1>2 DEF StartSelfInsert
  <2>2. pc'[s] = "insert"
    BY <1>2 DEF StartSelfInsert, Goto, Types
  <2>3. scan'[s].open
    <3>1. scan'[s] \in Scan
      BY <2>1, BeginScanTyped
    <3> QED
      BY <3>1 DEF Scan
  <2>4. [id |-> inserts + 1, next |-> 1, left |-> 0, size |-> 1, bulk |-> FALSE,
         self |-> TRUE] \in Insert
    BY <1>2, BoundAssumption DEF StartSelfInsert, Insert, Types
  <2>5. stmt'[s] \in Insert /\ stmt'[s].self
    BY <1>2, <2>4 DEF StartSelfInsert, Types
  <2> QED
    BY <1>0, <2>1, <2>2, <2>3, <2>5 DEF ControlOf, InInsert
<1>3. ASSUME NEW rows \in SUBSET Row, NEW rest \in SUBSET Stripe, NEW done \in BOOLEAN,
             Deliver(s, rows, rest, done), Wanted(s), scan'[s] \in Scan,
             pc[s] = "insert" => stmt[s] \in Insert /\ stmt'[s] = [stmt[s] EXCEPT !.left = Cardinality(rows)]
      PROVE  ControlOf(s)'
  <2>1. UNCHANGED <<mine, pending, flush, pc, subs, kept>> /\ scan[s].open
    BY <1>3 DEF Deliver, Wanted
  <2>2. scan'[s].open
    BY <1>3 DEF Scan
  <2>3. CASE pc[s] = "insert"
    <3>1. stmt[s] \in Insert /\ stmt'[s] = [stmt[s] EXCEPT !.left = Cardinality(rows)]
          /\ Cardinality(rows) \in Nat
      BY <1>3, <2>3, RowsFinite
    <3>2. stmt'[s] \in Insert /\ stmt'[s].self = stmt[s].self
      BY <3>1 DEF Insert
    <3> QED
      BY <1>0, <2>1, <2>2, <2>3, <3>1, <3>2 DEF ControlOf, InInsert
  <2>4. CASE pc[s] # "insert"
    <3>1. UNCHANGED stmt
      BY <1>3, <2>4 DEF Deliver
    <3> QED
      BY <1>0, <2>1, <2>2, <3>1 DEF ControlOf, InInsert
  <2> QED
    BY <2>3, <2>4
<1>4. CASE FetchStripe(s)
  <2>1. PICK st \in scan[s].todo : Deliver(s, Decode(st), scan[s].todo \ {st}, FALSE)
    BY <1>4 DEF FetchStripe
  <2>2. scan[s].open /\ scan[s] \in Scan /\ Wanted(s)
    BY <1>4 DEF FetchStripe, Wanted, Types, NoScan
  <2>3. scan[s].todo \in SUBSET Published /\ scan[s].todo \ {st} \in SUBSET Stripe
    <3>1. scan[s].todo \subseteq stripes \cup mine[s]
      BY <2>2 DEF Scanned, Viewed
    <3> QED
      BY <2>2, <3>1 DEF Published, Scan
  <2>4. Decode(st) \in SUBSET Row
    BY <2>1, <2>3, PublishedLaid
  <2>5. /\ scan'[s] \in Scan
        /\ pc[s] = "insert" => stmt[s] \in Insert /\ stmt'[s] = [stmt[s] EXCEPT !.left = Cardinality(Decode(st))]
    BY <2>1, <2>2, <2>3, <2>4, DeliverTyped
  <2> QED
    BY <1>3, <2>1, <2>2, <2>3, <2>4, <2>5
<1>5. CASE FetchPending(s)
  <2>1. pending[s] \in SUBSET Row
    BY DEF Types
  <2>2. Deliver(s, pending[s], {}, TRUE) /\ Wanted(s)
    BY <1>5 DEF FetchPending
  <2>3. /\ scan'[s] \in Scan
        /\ pc[s] = "insert" => stmt[s] \in Insert /\ stmt'[s] = [stmt[s] EXCEPT !.left = Cardinality(pending[s])]
    BY <2>1, <2>2, DeliverTyped
  <2> QED
    BY <1>3, <2>1, <2>2, <2>3
<1>6. CASE EndSelect(s)
  BY <1>0, <1>6 DEF EndSelect, Types, Goto, ControlOf, InInsert, NoScan
<1> QED
  BY <1>1, <1>2, <1>4, <1>5, <1>6

\* ... and of a transaction.
LEMMA ControlTransaction ==
  ASSUME Types, Control, NEW s \in Sessions, Transaction(s)
  PROVE  ControlOf(s)'
<1>0. ControlOf(s)
  BY DEF Control
<1>1. CASE Begin(s)
  BY <1>0, <1>1 DEF Begin, Goto, Types, ControlOf, InInsert
<1>2. CASE PreCommit(s)
  <2>1. /\ pc[s] = "ready" /\ UNCHANGED <<mine, stmt, scan, subs, kept>>
    BY <1>2 DEF PreCommit
  <2>2. CASE StartFlush(s, pending[s], "commit")
    <3>1. pc'[s] = "flush" /\ flush'[s].then = "commit" /\ flush'[s] \in Flush /\ pending'[s] = {}
      <4>1. pending[s] \in SUBSET Row
        BY DEF Types
      <4> QED
        BY <2>2, <4>1, StartFlushTyped DEF Types
    <3>2. flush'[s] # NoFlush
      BY <3>1 DEF Flush, NoFlush
    <3> QED
      BY <1>0, <2>1, <3>1, <3>2 DEF ControlOf, InInsert
  <2>3. CASE Goto(s, "commit") /\ UNCHANGED <<flush, pending>> /\ pending[s] = {}
    BY <1>0, <2>1, <2>3 DEF ControlOf, InInsert, Goto, Types
  <2> QED
    BY <1>2, <2>2, <2>3 DEF PreCommit
<1>3. CASE Commit(s)
  <2>1. /\ pc'[s] = "idle" /\ mine'[s] = {} /\ kept'[s] = {} /\ subs'[s] = <<>>
        /\ UNCHANGED <<pending, flush, stmt, scan>> /\ pc[s] = "commit"
    BY <1>3 DEF Commit, Goto, Types
  <2> QED
    BY <1>0, <2>1, BoundAssumption DEF ControlOf, InInsert
<1>4. CASE Abort(s)
  BY <1>4, BoundAssumption DEF Abort, Forget, ControlOf, InInsert, NoScan
<1>5. CASE Savepoint(s)
  <2>1. subs[s] \in Seq(SUBSET Row) /\ kept[s] \in SUBSET Row /\ Len(subs[s]) < MaxDepth
    BY <1>5 DEF Savepoint, Types
  <2>2. subs'[s] = Append(subs[s], kept[s])
    BY <1>5 DEF Savepoint, Types
  <2>3. Len(subs'[s]) <= MaxDepth
    BY <2>1, <2>2, BoundAssumption
  <2> QED
    BY <1>0, <1>5, <2>3 DEF Savepoint, ControlOf, InInsert
<1>6. CASE Release(s)
  <2>1. subs[s] \in Seq(SUBSET Row) /\ Len(subs[s]) > 0 /\ pc[s] = "ready"
    BY <1>6 DEF Release, Types
  <2>2. subs'[s] = SubSeq(subs[s], 1, Len(subs[s]) - 1)
    BY <1>6 DEF Release, Types
  <2>3. Len(subs'[s]) <= MaxDepth
    BY <1>0, <2>1, <2>2, BoundAssumption DEF ControlOf
  <2> QED
    BY <1>0, <1>6, <2>1, <2>3 DEF Release, ControlOf, InInsert
<1>7. CASE RollbackTo(s)
  <2>1. /\ pc'[s] = "ready" /\ flush'[s] = NoFlush /\ scan'[s] = NoScan
        /\ UNCHANGED <<pending, subs>>
    BY <1>7 DEF RollbackTo, Goto, Types
  <2> QED
    BY <1>0, <2>1 DEF ControlOf, InInsert, NoScan
<1> QED
  BY <1>1, <1>2, <1>3, <1>4, <1>5, <1>6, <1>7 DEF Transaction

\* Every step keeps Control.
LEMMA ControlStep ==
  ASSUME Types, Control, Placed, Scanned, [Next]_vars
  PROVE  Control'
<1>1. CASE Crash
  BY <1>1, BoundAssumption DEF Crash, Forget, Control, ControlOf, InInsert, NoScan
<1>2. ASSUME NEW s \in Sessions, FlushStep(s) \/ Statement(s) \/ Transaction(s)
      PROVE  Control'
  <2>1. ControlOf(s)'
    BY <1>2, ControlFlushStep, ControlInsert, ControlScan, ControlTransaction DEF Statement
  <2>2. \A t \in Sessions \ {s} : ControlOf(t)'
    BY <1>2, StepOnly, ControlOthers
  <2> QED
    BY <2>1, <2>2 DEF Control
<1>3. CASE UNCHANGED vars
  BY <1>3 DEF vars, Control, ControlOf, InInsert
<1> QED
  BY <1>1, <1>2, <1>3 DEF Next

-----------------------------------------------------------------------------
(* Stripes and flushes in the file.                                        *)

\* A stripe is laid as its catalog row's block and count say; its number and its
\* savepoint do not matter.
LEMMA LaidSame ==
  ASSUME NEW pg, NEW st, NEW st1, NEW n, LaidIn(pg, st, n),
         st1.header = st.header, st1.count = st.count
  PROVE  LaidIn(pg, st1, n) /\ DecodeIn(pg, st1) = DecodeIn(pg, st)
BY DEF LaidIn, DecodeIn

\* What a flush has written stays written when others append to the file.
LEMMA WrittenKept ==
  ASSUME NEW pg \in Seq(Page), NEW pg1 \in Seq(Page), NEW f \in Flush,
         Len(pg) <= Len(pg1), \A b \in 1 .. Len(pg) : pg1[b] = pg[b],
         Undisturbed /\ f.step = "chunk" /\ f.part > 1 => Len(pg1) = Len(pg),
         WrittenIn(pg, f)
  PROVE  WrittenIn(pg1, f)
<1>1. Len(pg) \in Nat /\ Len(pg1) \in Nat /\ 1 .. Len(pg) \subseteq 1 .. Len(pg1)
  OBVIOUS
<1>2. ASSUME NEW c \in 1 .. Columns, NEW p \in Sure, Done(f, c, p)
      PROVE  f.first[c] + p - 1 \in 1 .. Len(pg1) /\ pg1[f.first[c] + p - 1] = Chunk(f.rows, c, p)
  <2> DEFINE b == f.first[c] + p - 1
  <2>1. b \in 1 .. Len(pg) /\ pg[b] = Chunk(f.rows, c, p)
    BY <1>2 DEF WrittenIn
  <2> HIDE DEF b
  <2>2. b \in 1 .. Len(pg1) /\ pg1[b] = Chunk(f.rows, c, p)
    BY <1>1, <2>1
  <2> QED
    BY <2>2 DEF b
<1>3. f.step \in {"header", "publish"} =>
         f.dir \in 1 .. Len(pg1) /\ pg1[f.dir] = [kind |-> "dir", first |-> f.first]
  BY <1>1 DEF WrittenIn
<1>4. f.step = "publish" =>
         f.header \in 1 .. Len(pg1) /\ pg1[f.header] = [kind |-> "header", dir |-> f.dir]
  BY <1>1 DEF WrittenIn
<1>5. /\ Undisturbed /\ f.step = "chunk" /\ f.part > 1 => f.first[f.col] + f.part - 1 = Len(pg1) + 1
      /\ f.step \notin {"header", "publish"} => f.dir = 0
  BY DEF WrittenIn
<1> HIDE DEF Chunk
<1> QED
  BY <1>2, <1>3, <1>4, <1>5 DEF WrittenIn

\* The fields of a flush that say where it is.
LEMMA FlushFields ==
  ASSUME NEW f \in Flush
  PROVE  f.col \in 1 .. Columns /\ f.part \in 1 .. ChunkPages /\ f.first \in [1 .. Columns -> Nat]
BY DEF Flush

\* One more page of a chunk.
LEMMA WrittenChunk ==
  ASSUME NEW pg \in Seq(Page), NEW f \in Flush, NEW f1 \in Flush,
         f.step = "chunk", WrittenIn(pg, f),
         f1.rows = f.rows, f1.dir = f.dir,
         f1.first = [f.first EXCEPT ![f.col] = IF f.part = 1 THEN Len(pg) + 1 ELSE @],
         f1.part = IF f.part = ChunkPages THEN 1 ELSE f.part + 1,
         f1.col = IF f.part = ChunkPages /\ f.col < Columns THEN f.col + 1 ELSE f.col,
         f1.step = IF f.part = ChunkPages /\ f.col = Columns THEN "rows" ELSE f.step,
         NEW pg1 \in Seq(Page), Len(pg1) = Len(pg) + 1,
         \A b \in 1 .. Len(pg) : pg1[b] = pg[b],
         pg1[Len(pg) + 1] = Chunk(f.rows, f.col, f.part)
  PROVE  WrittenIn(pg1, f1)
<1>0. /\ f.col \in 1 .. Columns /\ f.part \in 1 .. ChunkPages /\ f.first \in [1 .. Columns -> Nat]
      /\ Columns \in Nat /\ ChunkPages \in Nat /\ Len(pg) \in Nat
  <2>1. Columns \in Nat /\ ChunkPages \in Nat /\ Len(pg) \in Nat
    BY SizeAssumption
  <2> QED
    BY <2>1, FlushFields
<1>1. ASSUME NEW c \in 1 .. Columns, NEW p \in Sure, Done(f, c, p)
      PROVE  /\ f.first[c] + p - 1 \in 1 .. Len(pg) /\ pg[f.first[c] + p - 1] = Chunk(f.rows, c, p)
             /\ f1.first[c] = f.first[c]
  <2>1. f.first[c] + p - 1 \in 1 .. Len(pg) /\ pg[f.first[c] + p - 1] = Chunk(f.rows, c, p)
    BY <1>1 DEF WrittenIn
  <2>2. c < f.col \/ f.part # 1
    BY <1>0, <1>1, OneIsSure DEF Done
  <2>3. f1.first[c] = f.first[c]
    BY <1>0, <2>2
  <2> QED
    BY <2>1, <2>3
<1>2. ASSUME NEW c \in 1 .. Columns, NEW p \in Sure, Done(f1, c, p), ~Done(f, c, p)
      PROVE  c = f.col /\ p = f.part
  <2>1. p \in 1 .. ChunkPages
    BY OneIsSure
  <2>2. ~(c < f.col) /\ ~(c = f.col /\ p < f.part)
    BY <1>2 DEF Done
  <2>3. f1.step # "chunk" \/ c < f1.col \/ (c = f1.col /\ p < f1.part)
    BY <1>2 DEF Done
  <2>4. CASE f.part # ChunkPages
    <3>1. c < f.col \/ (c = f.col /\ p < f.part + 1)
      BY <2>3, <2>4
    <3> QED
      BY <1>0, <2>1, <2>2, <3>1
  <2>5. CASE f.part = ChunkPages /\ f.col < Columns
    <3>1. f1.col = f.col + 1 /\ f1.part = 1
      BY <2>5
    <3>2. f.col # Columns
      BY <1>0, <2>5
    <3>3. f1.step = "chunk"
      BY <3>2
    <3>4. c < f.col + 1 \/ (c = f.col + 1 /\ p < 1)
      BY <2>3, <3>1, <3>3
    <3> QED
      BY <1>0, <2>1, <2>2, <2>5, <3>4
  <2>6. CASE f.part = ChunkPages /\ f.col = Columns
    <3>1. c <= f.col
      BY <1>0, <2>6
    <3> QED
      BY <1>0, <2>1, <2>2, <2>6, <3>1
  <2> QED
    BY <1>0, <2>4, <2>5, <2>6
<1>3. f.part \in Sure => f1.first[f.col] + f.part - 1 = Len(pg) + 1
  <2>1. CASE f.part = 1
    <3>1. f1.first[f.col] = Len(pg) + 1
      BY <1>0, <2>1
    <3> QED
      BY <1>0, <2>1, <3>1
  <2>2. CASE f.part # 1
    <3>1. f1.first[f.col] = f.first[f.col] /\ f.part > 1
      BY <1>0, <2>2
    <3>2. f.part \in Sure => Undisturbed
      BY <2>2 DEF Sure
    <3>3. Undisturbed => f.first[f.col] + f.part - 1 = Len(pg) + 1
      BY <3>1 DEF WrittenIn
    <3> QED
      BY <3>1, <3>2, <3>3
  <2> QED
    BY <2>1, <2>2
<1>4. ASSUME NEW c \in 1 .. Columns, NEW p \in Sure, Done(f1, c, p)
      PROVE  f1.first[c] + p - 1 \in 1 .. Len(pg1) /\ pg1[f1.first[c] + p - 1] = Chunk(f1.rows, c, p)
  <2>1. CASE Done(f, c, p)
    <3> DEFINE b == f.first[c] + p - 1
    <3>1. b \in 1 .. Len(pg) /\ pg[b] = Chunk(f.rows, c, p) /\ f1.first[c] + p - 1 = b
      BY <1>1, <2>1
    <3> HIDE DEF b
    <3>2. b \in 1 .. Len(pg1) /\ pg1[b] = pg[b]
      BY <1>0, <3>1
    <3> QED
      BY <3>1, <3>2
  <2>2. CASE ~Done(f, c, p)
    <3>1. c = f.col /\ p = f.part /\ f1.first[c] + p - 1 = Len(pg) + 1
      BY <1>2, <1>3, <1>4, <2>2
    <3>2. Len(pg) + 1 \in 1 .. Len(pg1)
      BY <1>0
    <3> QED
      BY <3>1, <3>2
  <2> QED
    BY <2>1, <2>2
<1>5. Undisturbed /\ f1.step = "chunk" /\ f1.part > 1 => f1.first[f1.col] + f1.part - 1 = Len(pg1) + 1
  <2> SUFFICES ASSUME Undisturbed, f1.step = "chunk", f1.part > 1
               PROVE  f1.first[f1.col] + f1.part - 1 = Len(pg1) + 1
    OBVIOUS
  <2>1. f.part # ChunkPages /\ f1.part = f.part + 1 /\ f1.col = f.col
    BY <1>0
  <2>2. f.part \in Sure
    BY <1>0 DEF Sure
  <2>3. f1.first[f.col] \in Nat
    BY <1>0 DEF Flush
  <2> DEFINE a == f1.first[f.col]
  <2>4. a + f.part - 1 = Len(pg) + 1 /\ f1.first[f1.col] = a /\ a \in Nat
    BY <1>3, <2>1, <2>2, <2>3
  <2> HIDE DEF a
  <2>5. a + (f.part + 1) - 1 = Len(pg) + 1 + 1
    <3>1. \A x, y, z \in Int : x + y - 1 = z => x + (y + 1) - 1 = z + 1
      OBVIOUS
    <3>2. a \in Int /\ f.part \in Int /\ Len(pg) + 1 \in Int
      BY <1>0, <2>4
    <3> QED
      BY <2>4, <3>1, <3>2
  <2> QED
    <3>1. f1.first[f1.col] + f1.part - 1 = a + (f.part + 1) - 1
      BY <2>1, <2>4
    <3> QED
      BY <2>5, <3>1
<1>6. f1.dir = 0 /\ f1.step \notin {"header", "publish"}
  BY DEF WrittenIn
<1> HIDE DEF Chunk
<1> QED
  BY <1>4, <1>5, <1>6 DEF WrittenIn

\* A flush that has nothing but its catalog row to write has laid its stripe.
LEMMA PublishLaid ==
  ASSUME NEW pg \in Seq(Page), NEW f \in Flush, f.step = "publish", WrittenIn(pg, f),
         NEW st, st.header = f.header, st.count = Cardinality(f.rows)
  PROVE  LaidIn(pg, st, Len(pg)) /\ DecodeIn(pg, st) = f.rows
<1>1. /\ f.header \in 1 .. Len(pg) /\ pg[f.header] = [kind |-> "header", dir |-> f.dir]
      /\ f.dir \in 1 .. Len(pg) /\ pg[f.dir] = [kind |-> "dir", first |-> f.first]
  BY DEF WrittenIn
<1>2. /\ pg[st.header].kind = "header" /\ pg[st.header].dir = f.dir
      /\ pg[f.dir].kind = "dir" /\ pg[f.dir].first = f.first
  BY <1>1
<1>3. ASSUME NEW c \in 1 .. Columns, NEW p \in Sure
      PROVE  f.first[c] + p - 1 \in 1 .. Len(pg) /\ pg[f.first[c] + p - 1] = Chunk(f.rows, c, p)
  BY DEF WrittenIn, Done
<1>4. DecodeIn(pg, st) = f.rows
  <2>1. 1 \in 1 .. Columns /\ 1 \in Sure
    BY SizeAssumption, OneIsSure
  <2>2. f.first[1] \in Nat
    BY <2>1 DEF Flush
  <2>3. pg[f.first[1] + 1 - 1] = Chunk(f.rows, 1, 1)
    BY <1>3, <2>1
  <2>4. pg[f.first[1]].rows = f.rows
    BY <2>2, <2>3 DEF Chunk
  <2> QED
    BY <1>2, <2>4 DEF DecodeIn
<1> HIDE DEF Chunk, DecodeIn
<1> QED
  BY <1>1, <1>2, <1>3, <1>4 DEF LaidIn, BlockIn

\* The file grew by a page, or not at all.
Grown ==
    /\ pages' \in Seq(Page)
    /\ \/ Len(pages') = Len(pages)
       \/ Len(pages') = Len(pages) + 1
    /\ \A b \in 1 .. Len(pages) : pages'[b] = pages[b]

\* Appending a page keeps the pages before it.
LEMMA AppendGrows ==
  ASSUME pages \in Seq(Page), NEW page \in Page, AppendPage(page)
  PROVE  Grown /\ Len(pages') = Len(pages) + 1 /\ pages'[Len(pages) + 1] = page
BY DEF AppendPage, Grown

\* The file only grows, and only a flush extends it.
LEMMA StepGrows ==
  ASSUME Types, NEW s \in Sessions, FlushStep(s) \/ Statement(s) \/ Transaction(s)
  PROVE  Grown /\ (~FlushStep(s) => pages' = pages)
<1>0. pages \in Seq(Page)
  BY DEF Types
<1>1. CASE UNCHANGED pages
  BY <1>0, <1>1 DEF Grown
<1>2. CASE FlushStep(s)
  <2>1. CASE WriteChunkPage(s)
    <3>1. flush[s] \in Flush
      BY <2>1, FlushingTyped DEF WriteChunkPage
    <3>2. Chunk(flush[s].rows, flush[s].col, flush[s].part) \in Page
      BY <3>1 DEF Chunk, Page, Flush
    <3> QED
      BY <1>0, <1>2, <2>1, <3>2, AppendGrows DEF WriteChunkPage, Chunk
  <2>2. CASE WriteDirectory(s)
    <3>1. flush[s] \in Flush
      BY <2>2, FlushingTyped DEF WriteDirectory
    <3>2. [kind |-> "dir", first |-> flush[s].first] \in Page
      BY <3>1 DEF Flush, Page
    <3> QED
      BY <1>0, <1>2, <2>2, <3>2, AppendGrows DEF WriteDirectory
  <2>3. CASE WriteHeader(s)
    <3>1. flush[s] \in Flush
      BY <2>3, FlushingTyped DEF WriteHeader
    <3>2. [kind |-> "header", dir |-> flush[s].dir] \in Page
      BY <3>1 DEF Flush, Page
    <3> QED
      BY <1>0, <1>2, <2>3, <3>2, AppendGrows DEF WriteHeader
  <2>4. CASE ReserveRows(s) \/ ReserveStripe(s) \/ Publish(s)
    BY <1>1, <2>4 DEF ReserveRows, ReserveStripe, Publish
  <2> QED
    BY <1>2, <2>1, <2>2, <2>3, <2>4 DEF FlushStep
<1>3. CASE Statement(s)
  BY <1>1, <1>3 DEF Statement, StartInsert, FlushFirst, PushRow, EndInsert, StartSelect,
     StartSelfInsert, FetchStripe, FetchPending, Deliver, EndSelect
<1>4. CASE Transaction(s)
  BY <1>1, <1>4 DEF Transaction, Begin, PreCommit, Commit, Abort, Savepoint, Release, RollbackTo
<1> QED
  BY <1>2, <1>3, <1>4

\* The stripes that were published are where they were, with the same rows.
LEMMA PublishedKept ==
  ASSUME Types, Placed, Grown
  PROVE  /\ \A x \in Published : LaidIn(pages', x, Len(pages)) /\ LaidIn(pages', x, Len(pages'))
                                 /\ Decode(x)' = Decode(x)
         /\ \A x \in stripes : LaidIn(pages', x, durable.pages)
<1>0. /\ pages \in Seq(Page) /\ pages' \in Seq(Page) /\ durable.pages \in 0 .. Len(pages)
      /\ Len(pages) \in Nat /\ Len(pages') \in Nat /\ Len(pages) <= Len(pages')
      /\ \A b \in 1 .. Len(pages) : pages'[b] = pages[b]
  BY DEF Types, Placed, Grown
<1>1. ASSUME NEW x \in Published
      PROVE  LaidIn(pages', x, Len(pages)) /\ LaidIn(pages', x, Len(pages')) /\ Decode(x)' = Decode(x)
  <2>1. LaidIn(pages, x, Len(pages))
    BY PublishedLaid
  <2>2. LaidIn(pages', x, Len(pages)) /\ DecodeIn(pages', x) = DecodeIn(pages, x)
    BY <1>0, <2>1, LaidKept
  <2>3. LaidIn(pages', x, Len(pages'))
    BY <1>0, <2>2, LaidMore
  <2> QED
    BY <2>2, <2>3 DEF Decode, DecodeIn
<1>2. ASSUME NEW x \in stripes PROVE LaidIn(pages', x, durable.pages)
  <2>1. LaidIn(pages, x, durable.pages)
    BY DEF Placed
  <2>2. \A b \in 1 .. durable.pages : pages'[b] = pages[b]
    BY <1>0
  <2> QED
    BY <1>0, <2>1, <2>2, LaidKept
<1> QED
  BY <1>1, <1>2

\* After a crash too, those that were committed.
LEMMA CommittedKept ==
  ASSUME Types, Placed, Crash
  PROVE  \A x \in stripes : LaidIn(pages', x, Len(pages')) /\ Decode(x)' = Decode(x)
<1>0. /\ pages \in Seq(Page) /\ pages' \in Seq(Page) /\ durable.pages \in 0 .. Len(pages)
      /\ Len(pages') \in Nat /\ durable.pages <= Len(pages')
      /\ \A b \in 1 .. durable.pages : pages'[b] = pages[b]
  BY CrashFile DEF Types, Placed
<1>1. ASSUME NEW x \in stripes
      PROVE  LaidIn(pages', x, Len(pages')) /\ Decode(x)' = Decode(x)
  <2>1. LaidIn(pages, x, durable.pages)
    BY DEF Placed
  <2>2. LaidIn(pages', x, durable.pages) /\ DecodeIn(pages', x) = DecodeIn(pages, x)
    BY <1>0, <2>1, LaidKept
  <2>3. LaidIn(pages', x, Len(pages'))
    BY <1>0, <2>2, LaidMore
  <2> QED
    BY <2>2, <2>3 DEF Decode, DecodeIn
<1> QED
  BY <1>1

\* The placement after a step of session s that commits nothing.
LEMMA PlacedAfter ==
  ASSUME Types, Types', Placed, Grown, NEW s \in Sessions, Only(s), UNCHANGED <<stripes, durable>>,
         Len(pages') # Len(pages) => flush[s] # NoFlush,
         \A st \in mine'[s] : LaidIn(pages', st, Len(pages')),
         flush'[s] # NoFlush => WrittenIn(pages', flush'[s])
  PROVE  Placed'
<1>0. /\ pages \in Seq(Page) /\ pages' \in Seq(Page) /\ durable.pages \in 0 .. Len(pages)
      /\ Len(pages) \in Nat /\ Len(pages') \in Nat /\ Len(pages) <= Len(pages')
      /\ \A b \in 1 .. Len(pages) : pages'[b] = pages[b]
  BY DEF Types, Placed, Grown
<1>1. durable'.pages <= Len(pages')
  BY <1>0
<1>2. \A st \in stripes' : LaidIn(pages', st, durable'.pages)
  BY PublishedKept
<1>3. \A t \in Sessions : \A st \in mine'[t] : LaidIn(pages', st, Len(pages'))
  BY PublishedKept DEF Only, Published
<1>4. \A t \in Sessions : flush'[t] # NoFlush => WrittenIn(pages', flush'[t])
  <2> SUFFICES ASSUME NEW t \in Sessions, t # s, flush'[t] # NoFlush PROVE WrittenIn(pages', flush'[t])
    OBVIOUS
  <2>1. flush'[t] = flush[t]
    BY DEF Only
  <2>2. flush[t] \in Flush /\ WrittenIn(pages, flush[t])
    BY <2>1, FlushTyped DEF Placed
  <2>3. ~(Undisturbed /\ flush[t].part > 1)
    BY <2>2, SizeAssumption DEF Undisturbed, Flush
  <2>4. WrittenIn(pages', flush[t])
    BY <1>0, <2>2, <2>3, WrittenKept
  <2> QED
    BY <2>1, <2>4
<1> QED
  BY <1>1, <1>2, <1>3, <1>4 DEF Placed

\* Placed, step by step: a step of a flush leaves its pages where WrittenIn says ...
LEMMA PlacedFlushStep ==
  ASSUME Types, Types', Control, Placed, NEW s \in Sessions, FlushStep(s)
  PROVE  Placed'
<1> DEFINE f == flush[s]
<1>0. /\ Only(s) /\ Grown
  BY StepOnly, StepGrows
<1>1. UNCHANGED <<stripes, durable>> /\ f \in Flush /\ f # NoFlush
  BY FlushingTyped DEF FlushStep, WriteChunkPage, ReserveRows, ReserveStripe, WriteDirectory,
     WriteHeader, Publish
<1>2. /\ pages \in Seq(Page) /\ pages' \in Seq(Page) /\ Len(pages) \in Nat /\ WrittenIn(pages, f)
  BY <1>1 DEF Types, Placed
<1>3. \A st \in mine[s] : LaidIn(pages', st, Len(pages'))
  BY <1>0, PublishedKept DEF Published
<1>4. CASE WriteChunkPage(s)
  <2>1. /\ f.step = "chunk"
        /\ flush'[s].rows = f.rows /\ flush'[s].dir = f.dir
        /\ flush'[s].first = [f.first EXCEPT ![f.col] = IF f.part = 1 THEN Len(pages) + 1 ELSE @]
        /\ flush'[s].part = IF f.part = ChunkPages THEN 1 ELSE f.part + 1
        /\ flush'[s].col = IF f.part = ChunkPages /\ f.col < Columns THEN f.col + 1 ELSE f.col
        /\ flush'[s].step = IF f.part = ChunkPages /\ f.col = Columns THEN "rows" ELSE f.step
    <3>1. flush' = [flush EXCEPT
             ![s].first[f.col] = IF f.part = 1 THEN Len(pages) + 1 ELSE @,
             ![s].part = IF f.part = ChunkPages THEN 1 ELSE @ + 1,
             ![s].col = IF f.part = ChunkPages /\ f.col < Columns THEN @ + 1 ELSE @,
             ![s].step = IF f.part = ChunkPages /\ f.col = Columns THEN "rows" ELSE @]
          /\ f.step = "chunk"
      BY <1>4 DEF WriteChunkPage, NewBlock, Flushing
    <3>2. flush \in [Sessions -> Flush \cup {NoFlush}] /\ f.first \in [1 .. Columns -> Nat]
          /\ DOMAIN f = {"step", "rows", "then", "first", "col", "part", "base", "id", "dir", "header"}
      BY <1>1 DEF Types, Flush
    <3> QED
      BY <3>1, <3>2
  <2>2. /\ Len(pages') = Len(pages) + 1 /\ \A b \in 1 .. Len(pages) : pages'[b] = pages[b]
        /\ pages'[Len(pages) + 1] = Chunk(f.rows, f.col, f.part)
    BY <1>2, <1>4 DEF WriteChunkPage, AppendPage, Chunk
  <2>3. flush'[s] \in Flush
    <3>1. flush'[s] # NoFlush
      BY <2>1 DEF NoFlush
    <3> QED
      BY <3>1 DEF Types
  <2>4. WrittenIn(pages', flush'[s])
    BY <1>1, <1>2, <2>1, <2>2, <2>3, WrittenChunk
  <2>5. UNCHANGED mine
    BY <1>4 DEF WriteChunkPage
  <2> QED
    BY <1>0, <1>1, <1>3, <2>4, <2>5, PlacedAfter
<1>5. CASE ReserveRows(s) \/ ReserveStripe(s)
  <2>1. UNCHANGED <<mine, pages>>
    BY <1>5 DEF ReserveRows, ReserveStripe
  <2>2. /\ f.step \in {"rows", "stripe"} /\ flush'[s].step \in {"stripe", "dir"}
        /\ flush'[s].rows = f.rows /\ flush'[s].first = f.first /\ flush'[s].dir = f.dir
    BY <1>1, <1>5 DEF ReserveRows, ReserveStripe, Flushing, Types, Flush
  <2>3. \A c \in 1 .. Columns, p \in Sure : Done(f, c, p)
    BY <2>2 DEF Done
  <2>4. WrittenIn(pages', flush'[s])
    BY <1>2, <2>1, <2>2, <2>3 DEF WrittenIn
  <2> QED
    BY <1>0, <1>1, <1>3, <2>1, <2>4, PlacedAfter
<1>6. CASE WriteDirectory(s)
  <2>1. UNCHANGED mine
    BY <1>6 DEF WriteDirectory
  <2>2. /\ f.step = "dir" /\ flush'[s].step = "header"
        /\ flush'[s].rows = f.rows /\ flush'[s].first = f.first /\ flush'[s].dir = Len(pages) + 1
    BY <1>1, <1>6 DEF WriteDirectory, Flushing, Types, Flush, NewBlock
  <2>3. /\ Len(pages') = Len(pages) + 1 /\ \A b \in 1 .. Len(pages) : pages'[b] = pages[b]
        /\ pages'[Len(pages) + 1] = [kind |-> "dir", first |-> f.first]
    BY <1>2, <1>6 DEF WriteDirectory, AppendPage
  <2>4. WrittenIn(pages', f)
    BY <1>1, <1>2, <2>2, <2>3, WrittenKept
  <2>5. \A c \in 1 .. Columns, p \in Sure :
           f.first[c] + p - 1 \in 1 .. Len(pages') /\ pages'[f.first[c] + p - 1] = Chunk(f.rows, c, p)
    BY <2>2, <2>4 DEF WrittenIn, Done
  <2>6. Len(pages) + 1 \in 1 .. Len(pages')
    BY <1>2, <2>3
  <2>7. WrittenIn(pages', flush'[s])
    BY <2>2, <2>3, <2>5, <2>6 DEF WrittenIn
  <2> QED
    BY <1>0, <1>1, <1>3, <2>1, <2>7, PlacedAfter
<1>7. CASE WriteHeader(s)
  <2>1. UNCHANGED mine
    BY <1>7 DEF WriteHeader
  <2>2. /\ f.step = "header" /\ flush'[s].step = "publish" /\ flush'[s].header = Len(pages) + 1
        /\ flush'[s].rows = f.rows /\ flush'[s].first = f.first /\ flush'[s].dir = f.dir
    BY <1>1, <1>7 DEF WriteHeader, Flushing, Types, Flush, NewBlock
  <2>3. /\ Len(pages') = Len(pages) + 1 /\ \A b \in 1 .. Len(pages) : pages'[b] = pages[b]
        /\ pages'[Len(pages) + 1] = [kind |-> "header", dir |-> f.dir]
    BY <1>2, <1>7 DEF WriteHeader, AppendPage
  <2>4. WrittenIn(pages', f)
    BY <1>1, <1>2, <2>2, <2>3, WrittenKept
  <2>5. \A c \in 1 .. Columns, p \in Sure :
           f.first[c] + p - 1 \in 1 .. Len(pages') /\ pages'[f.first[c] + p - 1] = Chunk(f.rows, c, p)
    BY <2>2, <2>4 DEF WrittenIn, Done
  <2>6. Len(pages) + 1 \in 1 .. Len(pages')
    BY <1>2, <2>3
  <2>7. f.dir \in 1 .. Len(pages') /\ pages'[f.dir] = [kind |-> "dir", first |-> f.first]
    BY <2>2, <2>4 DEF WrittenIn
  <2>8. WrittenIn(pages', flush'[s])
    BY <2>2, <2>3, <2>5, <2>6, <2>7 DEF WrittenIn
  <2> QED
    BY <1>0, <1>1, <1>3, <2>1, <2>8, PlacedAfter
<1>8. CASE Publish(s)
  <2> DEFINE new == [id |-> f.id, base |-> f.base, count |-> Cardinality(f.rows),
                     header |-> f.header, sub |-> Len(subs[s])]
  <2>1. UNCHANGED pages /\ flush'[s] = NoFlush /\ mine'[s] = mine[s] \cup {new} /\ f.step = "publish"
    BY <1>8 DEF Publish, Types, Flushing
  <2>2. new.header = f.header /\ new.count = Cardinality(f.rows)
    OBVIOUS
  <2> HIDE DEF new
  <2>3. LaidIn(pages, new, Len(pages))
    BY <1>1, <1>2, <2>1, <2>2, PublishLaid
  <2>4. \A st \in mine'[s] : LaidIn(pages', st, Len(pages'))
    BY <1>3, <2>1, <2>3
  <2> QED
    BY <1>0, <1>1, <2>1, <2>4, PlacedAfter
<1> QED
  BY <1>4, <1>5, <1>6, <1>7, <1>8 DEF FlushStep

\* A flush that has just started has written nothing.
LEMMA StartWritten ==
  ASSUME NEW pg, NEW f \in Flush, f.step = "chunk", f.col = 1, f.part = 1, f.dir = 0
  PROVE  WrittenIn(pg, f)
<1>1. \A c \in 1 .. Columns, p \in Sure : ~Done(f, c, p)
  BY OneIsSure DEF Done
<1> QED
  BY <1>1 DEF WrittenIn

\* What a step that is not one of a flush does to the buffer and the flush of its session:
\* nothing, start a flush of some of the session's rows, or drop them.
LEMMA FlushAfter ==
  ASSUME Types, Types', Control, Scanned, NEW s \in Sessions, Statement(s) \/ Transaction(s)
  PROVE  \/ flush'[s] = flush[s]
         \/ flush'[s] = NoFlush
         \/ /\ flush[s] = NoFlush /\ flush'[s] \in Flush
            /\ flush'[s].step = "chunk" /\ flush'[s].col = 1 /\ flush'[s].part = 1
            /\ flush'[s].dir = 0 /\ pending'[s] = {}
            /\ \/ flush'[s].rows = pending[s]
               \/ PushRow(s) /\ flush'[s].rows = pending[s] \cup {NextRow(s)}
<1>1. ASSUME NEW rows \in SUBSET Row, NEW then \in {"insert", "ready", "commit"},
             StartFlush(s, rows, then), pc[s] # "flush"
      PROVE  /\ flush[s] = NoFlush /\ flush'[s] \in Flush
             /\ flush'[s].step = "chunk" /\ flush'[s].col = 1 /\ flush'[s].part = 1
             /\ flush'[s].dir = 0 /\ pending'[s] = {} /\ flush'[s].rows = rows
  <2>1. /\ flush'[s] \in Flush
        /\ flush'[s].step = "chunk" /\ flush'[s].col = 1 /\ flush'[s].part = 1
        /\ flush'[s].dir = 0 /\ flush'[s].rows = rows
        /\ pending' = [pending EXCEPT ![s] = {}]
    BY <1>1, StartFlushTyped
  <2> QED
    BY <1>1, <2>1 DEF Types, Control, ControlOf
<1>2. pending[s] \in SUBSET Row
  BY DEF Types
<1>3. CASE FlushFirst(s)
  BY <1>1, <1>2, <1>3 DEF FlushFirst
<1>4. CASE PushRow(s)
  <2>1. NextRow(s) \in Row /\ pc[s] = "insert"
    BY <1>4, NextRowTyped DEF PushRow
  <2>2. pending[s] \cup {NextRow(s)} \in SUBSET Row
    BY <1>2, <2>1
  <2>3. StartFlush(s, pending[s] \cup {NextRow(s)}, "insert") \/ UNCHANGED flush
    BY <1>4 DEF PushRow
  <2> QED
    BY <1>1, <1>4, <2>1, <2>2, <2>3
<1>5. CASE EndInsert(s)
  <2>1. pc[s] = "insert" /\ (StartFlush(s, pending[s], "ready") \/ UNCHANGED flush)
    BY <1>5 DEF EndInsert
  <2> QED
    BY <1>1, <1>2, <2>1
<1>6. CASE PreCommit(s)
  <2>1. pc[s] = "ready" /\ (StartFlush(s, pending[s], "commit") \/ UNCHANGED flush)
    BY <1>6 DEF PreCommit
  <2> QED
    BY <1>1, <1>2, <2>1
<1>7. CASE Statement(s) /\ ~FlushFirst(s) /\ ~PushRow(s) /\ ~EndInsert(s)
  <2>1. UNCHANGED flush
    BY <1>7 DEF Statement, StartInsert, StartSelect, StartSelfInsert, FetchStripe, FetchPending,
       Deliver, EndSelect
  <2> QED
    BY <2>1
<1>8. CASE Transaction(s) /\ ~PreCommit(s)
  <2>1. flush'[s] = flush[s] \/ flush'[s] = NoFlush
    BY <1>8 DEF Transaction, Begin, Commit, Abort, Forget, Savepoint, Release, RollbackTo, Types
  <2> QED
    BY <2>1
<1> QED
  BY <1>3, <1>4, <1>5, <1>6, <1>7, <1>8

\* What such a step does to the catalog rows of its transaction, unless it commits them.
LEMMA MineAfter ==
  ASSUME Types, NEW s \in Sessions, Statement(s) \/ (Transaction(s) /\ ~Commit(s))
  PROVE  /\ UNCHANGED <<stripes, durable, meta>>
         /\ \A x \in mine'[s] : \E y \in mine[s] :
              /\ x.id = y.id /\ x.base = y.base /\ x.count = y.count /\ x.header = y.header
              /\ x = IF Release(s) /\ y.sub = Len(subs[s]) THEN [y EXCEPT !.sub = Len(subs[s]) - 1]
                     ELSE y
<1>1. UNCHANGED <<stripes, durable, meta>>
  BY DEF Statement, Transaction, StartInsert, FlushFirst, PushRow, EndInsert, StartSelect,
     StartSelfInsert, FetchStripe, FetchPending, Deliver, EndSelect, Begin, PreCommit, Abort,
     Savepoint, Release, RollbackTo
<1>2. CASE ~Release(s)
  <2>1. mine'[s] \subseteq mine[s]
    <3>1. CASE Statement(s)
      BY <3>1 DEF Statement, StartInsert, FlushFirst, PushRow, EndInsert, StartSelect,
         StartSelfInsert, FetchStripe, FetchPending, Deliver, EndSelect
    <3>2. CASE Begin(s) \/ PreCommit(s) \/ Savepoint(s)
      BY <3>2 DEF Begin, PreCommit, Savepoint
    <3>3. CASE Abort(s)
      BY <3>3 DEF Abort, Forget
    <3>4. CASE RollbackTo(s)
      BY <3>4 DEF RollbackTo, Types
    <3> QED
      BY <1>2, <3>1, <3>2, <3>3, <3>4 DEF Transaction
  <2> QED
    BY <1>1, <1>2, <2>1
<1>3. CASE Release(s)
  <2> DEFINE depth == Len(subs[s])
  <2>1. mine'[s] = {IF st.sub = depth THEN [st EXCEPT !.sub = depth - 1] ELSE st : st \in mine[s]}
    BY <1>3 DEF Release, Types
  <2>2. ASSUME NEW y \in mine[s]
        PROVE  LET x == IF y.sub = depth THEN [y EXCEPT !.sub = depth - 1] ELSE y
               IN x.id = y.id /\ x.base = y.base /\ x.count = y.count /\ x.header = y.header
    <3>1. y \in Stripe
      BY DEF Types
    <3> HIDE DEF depth
    <3> QED
      BY <3>1 DEF Stripe
  <2> HIDE DEF depth
  <2>3. ASSUME NEW x \in mine'[s]
        PROVE  \E y \in mine[s] :
              /\ x.id = y.id /\ x.base = y.base /\ x.count = y.count /\ x.header = y.header
              /\ x = IF y.sub = depth THEN [y EXCEPT !.sub = depth - 1] ELSE y
    <3>1. PICK y \in mine[s] : x = IF y.sub = depth THEN [y EXCEPT !.sub = depth - 1] ELSE y
      BY <2>1
    <3> QED
      BY <2>2, <3>1
  <2> QED
    BY <1>1, <1>3, <2>3 DEF depth
<1> QED
  BY <1>2, <1>3

\* ... a statement or a rollback keeps the stripes where they are ...
LEMMA PlacedOtherStep ==
  ASSUME Types, Types', Control, Scanned, Placed, NEW s \in Sessions,
         Statement(s) \/ (Transaction(s) /\ ~Commit(s))
  PROVE  Placed'
<1>0. /\ Only(s) /\ Grown
      /\ pages' = pages
  <2>1. CASE FlushStep(s)
    <3>1. pc[s] = "flush" /\ flush[s] # NoFlush
      BY <2>1, FlushingTyped DEF FlushStep, WriteChunkPage, ReserveRows, ReserveStripe,
         WriteDirectory, WriteHeader, Publish, Flushing
    <3>2. UNCHANGED pages
      BY DEF Statement, Transaction, StartInsert, FlushFirst, PushRow, EndInsert, StartSelect,
         StartSelfInsert, FetchStripe, FetchPending, Deliver, EndSelect, Begin, PreCommit, Abort,
         Savepoint, Release, RollbackTo
    <3> QED
      BY <3>2, StepOnly, StepGrows
  <2>2. CASE ~FlushStep(s)
    BY <2>2, StepOnly, StepGrows
  <2> QED
    BY <2>1, <2>2
<1>1. UNCHANGED <<stripes, durable>>
  BY MineAfter
<1>2. ASSUME NEW x \in mine'[s] PROVE LaidIn(pages', x, Len(pages'))
  <2>1. PICK y \in mine[s] : x.count = y.count /\ x.header = y.header
    BY MineAfter
  <2>2. LaidIn(pages, y, Len(pages))
    BY DEF Placed
  <2> QED
    BY <1>0, <2>1, <2>2, LaidSame
<1>3. flush'[s] # NoFlush => WrittenIn(pages', flush'[s])
  <2>1. CASE flush'[s] = flush[s]
    BY <1>0, <2>1 DEF Placed
  <2>2. CASE /\ flush'[s] \in Flush
             /\ flush'[s].step = "chunk" /\ flush'[s].col = 1 /\ flush'[s].part = 1
             /\ flush'[s].dir = 0
    BY <2>2, StartWritten
  <2> QED
    BY <2>1, <2>2, FlushAfter
<1> QED
  BY <1>0, <1>1, <1>2, <1>3, PlacedAfter

\* ... a commit makes the pages of its stripes durable ...
LEMMA PlacedCommit ==
  ASSUME Types, Types', Control, Placed, NEW s \in Sessions, Commit(s)
  PROVE  Placed'
<1>1. /\ UNCHANGED <<pages, flush>> /\ durable'.pages = Len(pages)
      /\ stripes' = stripes \cup {Committed(st) : st \in mine[s]}
      /\ mine' = [mine EXCEPT ![s] = {}]
  BY DEF Commit, AllWritten
<1>2. ASSUME NEW st \in Published PROVE LaidIn(pages, st, Len(pages))
  BY PublishedLaid
<1>3. ASSUME NEW st \in mine[s] PROVE LaidIn(pages, Committed(st), Len(pages))
  <2>1. LaidIn(pages, st, Len(pages))
    BY DEF Placed
  <2>2. Committed(st).header = st.header /\ Committed(st).count = st.count
    BY DEF Committed
  <2> QED
    BY <2>1, <2>2, LaidSame
<1>4. \A st \in stripes' : LaidIn(pages, st, Len(pages))
  BY <1>1, <1>2, <1>3 DEF Published
<1>5. \A t \in Sessions : \A st \in mine'[t] : LaidIn(pages, st, Len(pages))
  BY <1>1 DEF Placed, Types
<1>6. Len(pages) \in Nat
  BY DEF Types
<1> QED
  BY <1>1, <1>4, <1>5, <1>6 DEF Placed

\* ... so that recovery finds them.
LEMMA PlacedCrash ==
  ASSUME Types, Types', Placed, Crash
  PROVE  Placed'
<1>1. /\ stripes' = stripes /\ durable'.pages = Len(pages')
      /\ \A s \in Sessions : mine'[s] = {} /\ flush'[s] = NoFlush
  BY CrashFile DEF Crash, Forget
<1>2. Len(pages') \in Nat
  BY DEF Types
<1> QED
  BY <1>1, <1>2, CommittedKept DEF Placed

\* Every step keeps Placed.
LEMMA PlacedStep ==
  ASSUME Types, Types', Control, Scanned, Placed, [Next]_vars
  PROVE  Placed'
<1>1. CASE Crash
  BY <1>1, PlacedCrash
<1>2. ASSUME NEW s \in Sessions, FlushStep(s) \/ Statement(s) \/ Transaction(s)
      PROVE  Placed'
  BY <1>2, PlacedFlushStep, PlacedOtherStep, PlacedCommit
<1>3. CASE UNCHANGED vars
  BY <1>3 DEF vars, Placed
<1> QED
  BY <1>1, <1>2, <1>3 DEF Next

-----------------------------------------------------------------------------
(* What a step does to the rows and the numbers of a session.              *)

\* The steps that move no row into the table's reach or out of it.
Writing(s) ==
    \/ WriteChunkPage(s) \/ ReserveRows(s) \/ ReserveStripe(s)
    \/ WriteDirectory(s) \/ WriteHeader(s)
Starting(s) ==
    \/ \E n \in 1 .. MaxStmtRows, size \in {1, Budget + 1}, bulk \in BOOLEAN :
         StartInsert(s, n, size, bulk)
    \/ StartSelect(s) \/ StartSelfInsert(s)
Buffering(s) == FlushFirst(s) \/ EndInsert(s) \/ PreCommit(s)
Reading(s) == FetchStripe(s) \/ FetchPending(s) \/ EndSelect(s)
Marking(s) == Begin(s) \/ Savepoint(s) \/ Release(s)

Quiet(s) == Writing(s) \/ Starting(s) \/ Buffering(s) \/ Reading(s) \/ Marking(s)

\* Every step of a session is of one of these kinds.
LEMMA StepKinds ==
  ASSUME NEW s \in Sessions, FlushStep(s) \/ Statement(s) \/ Transaction(s)
  PROVE  \/ Quiet(s) \/ Publish(s) \/ PushRow(s) \/ Commit(s) \/ Abort(s) \/ RollbackTo(s)
BY Zenon DEF FlushStep, Statement, Transaction, Quiet, Writing, Starting, Buffering, Reading, Marking

\* And each kind is a step of a session.
LEMMA KindSteps ==
  ASSUME NEW s \in Sessions
  PROVE  /\ Writing(s) => FlushStep(s)
         /\ Publish(s) => FlushStep(s)
         /\ Starting(s) \/ Buffering(s) \/ Reading(s) \/ PushRow(s) => Statement(s) \/ Transaction(s)
         /\ Marking(s) \/ Commit(s) \/ Abort(s) \/ RollbackTo(s) => Transaction(s)
         /\ Quiet(s) => FlushStep(s) \/ Statement(s) \/ Transaction(s)
BY Zenon DEF FlushStep, Statement, Transaction, Quiet, Writing, Starting, Buffering, Reading, Marking

\* A session that does not flush has no rows in flight.
LEMMA NoFlushRows == NoFlush.rows = {}
BY DEF NoFlush

\* What a step does to the memory of its session: publishing empties the flush ...
LEMMA HeldPublish ==
  ASSUME Types, Control, NEW s \in Sessions, Publish(s)
  PROVE  Held(s) = flush[s].rows /\ Held(s)' = {}
<1>1. pc[s] = "flush" /\ pending[s] = {} /\ pending' = pending /\ flush'[s] = NoFlush
  BY DEF Publish, Flushing, Control, ControlOf, Types
<1> QED
  BY <1>1, NoFlushRows DEF Held

\* ... an INSERT adds the row ...
LEMMA HeldPush ==
  ASSUME Types, Types', Control, Scanned, NEW s \in Sessions, PushRow(s)
  PROVE  Held(s)' = Held(s) \cup {NextRow(s)}
<1> DEFINE rows == pending[s] \cup {NextRow(s)}
<1>1. NextRow(s) \in Row /\ pc[s] = "insert"
  BY NextRowTyped DEF PushRow
<1>2. flush[s] = NoFlush /\ rows \in SUBSET Row
  BY <1>1 DEF Control, ControlOf, Types
<1>3. CASE StartFlush(s, rows, "insert")
  <2>1. flush'[s].rows = rows /\ pending' = [pending EXCEPT ![s] = {}]
    BY <1>2, <1>3, StartFlushTyped
  <2>2. pending'[s] = {}
    BY <2>1 DEF Types
  <2> QED
    BY <1>2, <2>1, <2>2, NoFlushRows DEF Held
<1>4. CASE pending' = [pending EXCEPT ![s] = rows] /\ UNCHANGED <<flush, pc>>
  <2>1. pending'[s] = rows /\ flush'[s] = flush[s]
    BY <1>4 DEF Types
  <2> QED
    BY <1>2, <2>1, NoFlushRows DEF Held
<1> QED
  BY <1>3, <1>4 DEF PushRow

\* ... an abort forgets all ...
LEMMA HeldAbort ==
  ASSUME Types, NEW s \in Sessions, Abort(s) PROVE Held(s)' = {}
<1>1. pending'[s] = {} /\ flush'[s] = NoFlush
  BY DEF Abort, Forget
<1> QED
  BY <1>1, NoFlushRows DEF Held

\* ... ROLLBACK TO keeps the buffer only ...
LEMMA HeldRollback ==
  ASSUME Types, NEW s \in Sessions, RollbackTo(s) PROVE Held(s)' = pending[s]
<1>1. pending'[s] = pending[s] /\ flush'[s] = NoFlush
  BY DEF RollbackTo, Types
<1> QED
  BY <1>1, NoFlushRows DEF Held

\* ... a commit finds nothing and leaves nothing ...
LEMMA HeldCommit ==
  ASSUME Types, Control, NEW s \in Sessions, Commit(s) PROVE Held(s) = {} /\ Held(s)' = {}
<1>1. pending'[s] = {} /\ pending[s] = {} /\ flush'[s] = NoFlush /\ flush[s] = NoFlush
  BY DEF Commit, Control, ControlOf, Types
<1> QED
  BY <1>1, NoFlushRows DEF Held

\* ... and the others keep what is held.
LEMMA HeldQuiet ==
  ASSUME Types, Control, NEW s \in Sessions, Quiet(s) PROVE Held(s)' = Held(s)
<1>1. CASE Writing(s)
  <2>1. UNCHANGED pending
    BY <1>1 DEF Writing, WriteChunkPage, ReserveRows, ReserveStripe, WriteDirectory, WriteHeader
  <2>2. flush[s] \in Flush
    BY <1>1, FlushingTyped DEF Writing, WriteChunkPage, ReserveRows, ReserveStripe, WriteDirectory,
       WriteHeader
  <2>3. flush'[s].rows = flush[s].rows
    <3>1. CASE WriteChunkPage(s)
      BY <2>2, <3>1 DEF WriteChunkPage, Types, Flush
    <3>2. CASE ReserveRows(s) \/ ReserveStripe(s)
      BY <2>2, <3>2 DEF ReserveRows, ReserveStripe, Types, Flush
    <3>3. CASE WriteDirectory(s) \/ WriteHeader(s)
      BY <2>2, <3>3 DEF WriteDirectory, WriteHeader, Types, Flush
    <3> QED
      BY <1>1, <3>1, <3>2, <3>3 DEF Writing
  <2> QED
    BY <2>1, <2>3 DEF Held
<1>2. ASSUME NEW then \in {"insert", "ready", "commit"}, StartFlush(s, pending[s], then),
             pc[s] # "flush"
      PROVE  Held(s)' = Held(s)
  <2>1. pending[s] \in SUBSET Row
    BY DEF Types
  <2>2. flush'[s].rows = pending[s] /\ pending' = [pending EXCEPT ![s] = {}]
    BY <1>2, <2>1, StartFlushTyped
  <2>3. pending'[s] = {} /\ flush[s] = NoFlush
    BY <1>2, <2>2 DEF Types, Control, ControlOf
  <2> QED
    BY <2>2, <2>3, NoFlushRows DEF Held
<1>3. CASE UNCHANGED <<pending, flush>>
  BY <1>3 DEF Held
<1>4. CASE Buffering(s)
  <2>1. CASE FlushFirst(s)
    BY <1>2, <2>1 DEF FlushFirst
  <2>2. CASE EndInsert(s)
    BY <1>2, <1>3, <2>2 DEF EndInsert
  <2>3. CASE PreCommit(s)
    BY <1>2, <1>3, <2>3 DEF PreCommit
  <2> QED
    BY <1>4, <2>1, <2>2, <2>3 DEF Buffering
<1>5. CASE Starting(s) \/ Reading(s) \/ Marking(s)
  BY <1>3, <1>5 DEF Starting, Reading, Marking, StartInsert, StartSelect, StartSelfInsert, FetchStripe,
     FetchPending, Deliver, EndSelect, Begin, Savepoint, Release
<1> QED
  BY <1>1, <1>4, <1>5 DEF Quiet

\* The sessions that do not move hold what they held.
LEMMA HeldOthers ==
  ASSUME NEW s \in Sessions, Only(s), NEW t \in Sessions, t # s
  PROVE  Held(t)' = Held(t)
BY DEF Only, Held

\* A stripe of the next state is one of this state, perhaps with another savepoint.
Shadow(x, y) == x.id = y.id /\ x.base = y.base /\ x.count = y.count /\ x.header = y.header

CarriedOne(x, y) == Shadow(x, y) /\ Decode(x)' = Decode(y)

\* Every stripe of the next state is one of this state, and distinct ones were distinct.
Carried ==
    /\ stripes' = stripes
    /\ \A x \in stripes : CarriedOne(x, x)
    /\ \A t \in Sessions : \A x \in mine'[t] : \E y \in mine[t] : CarriedOne(x, y)
    /\ \A t \in Sessions : \A x, y \in mine'[t] : x # y =>
         \E x0, y0 \in mine[t] : x0 # y0 /\ CarriedOne(x, x0) /\ CarriedOne(y, y0)

\* Two catalog rows with the same header decode alike.
LEMMA ShadowDecode ==
  ASSUME NEW pg, NEW x, NEW y, Shadow(x, y) PROVE DecodeIn(pg, x) = DecodeIn(pg, y)
BY DEF Shadow, DecodeIn

\* Most steps carry the published stripes over, some to none.
LEMMA CarriedStep ==
  ASSUME Types, Types', Placed, Control, NEW s \in Sessions,
         Quiet(s) \/ PushRow(s) \/ Abort(s) \/ RollbackTo(s)
  PROVE  Carried /\ (mine' = mine \/ Release(s) \/ Abort(s) \/ RollbackTo(s))
<1>0. Only(s) /\ Grown
  BY KindSteps, StepOnly, StepGrows
<1>1. \A x \in Published : Decode(x)' = Decode(x)
  BY <1>0, PublishedKept
<1>2. ASSUME NEW x, NEW y \in Published, Shadow(x, y)
      PROVE  CarriedOne(x, y)
  <2>1. DecodeIn(pages', x) = DecodeIn(pages', y)
    BY <1>2, ShadowDecode
  <2>2. Decode(x)' = Decode(y)'
    BY <2>1 DEF Decode, DecodeIn
  <2> QED
    BY <1>1, <1>2, <2>2 DEF CarriedOne
<1>3. \A x : Shadow(x, x)
  BY DEF Shadow
<1>4. \A x \in stripes : CarriedOne(x, x)
  BY <1>2, <1>3 DEF Published
<1>5. \A t \in Sessions : \A x \in mine[t] : CarriedOne(x, x)
  BY <1>2, <1>3 DEF Published
<1>6. stripes' = stripes
  BY DEF Quiet, Writing, Starting, Buffering, Reading, Marking, WriteChunkPage, ReserveRows,
     ReserveStripe, WriteDirectory, WriteHeader, StartInsert, FlushFirst, PushRow, EndInsert,
     StartSelect, StartSelfInsert, FetchStripe, FetchPending, Deliver, EndSelect, Begin, PreCommit,
     Abort, Savepoint, Release, RollbackTo
<1>7. CASE ~Release(s)
  <2>1. mine'[s] \subseteq mine[s] /\ (mine' = mine \/ Abort(s) \/ RollbackTo(s))
    <3>1. CASE Abort(s)
      BY <3>1 DEF Abort, Forget
    <3>2. CASE RollbackTo(s)
      BY <3>2 DEF RollbackTo, Types
    <3>3. CASE Quiet(s) \/ PushRow(s)
      BY <1>7, <3>3 DEF Quiet, Writing, Starting, Buffering, Reading, Marking, WriteChunkPage,
         ReserveRows, ReserveStripe, WriteDirectory, WriteHeader, StartInsert, FlushFirst, PushRow,
         EndInsert, StartSelect, StartSelfInsert, FetchStripe, FetchPending, Deliver, EndSelect,
         Begin, PreCommit, Savepoint
    <3> QED
      BY <3>1, <3>2, <3>3
  <2>2. \A t \in Sessions : mine'[t] \subseteq mine[t]
    BY <1>0, <2>1 DEF Only
  <2> QED
    BY <1>4, <1>5, <1>6, <2>1, <2>2 DEF Carried
<1>8. CASE Release(s)
  <2> DEFINE depth == Len(subs[s])
  <2>1. mine'[s] = {IF y.sub = depth THEN [y EXCEPT !.sub = depth - 1] ELSE y : y \in mine[s]}
    BY <1>8 DEF Release, Types
  <2> HIDE DEF depth
  <2>2. ASSUME NEW y \in mine[s], NEW x, x = IF y.sub = depth THEN [y EXCEPT !.sub = depth - 1] ELSE y
        PROVE  CarriedOne(x, y)
    <3>1. y \in Stripe /\ y \in Published
      BY DEF Types, Published
    <3>2. Shadow(x, y)
      BY <2>2, <3>1 DEF Stripe, Shadow
    <3> QED
      BY <1>2, <3>1, <3>2
  <2>3. \A x \in mine'[s] : \E y \in mine[s] :
           x = IF y.sub = depth THEN [y EXCEPT !.sub = depth - 1] ELSE y
    BY <2>1
  <2>4. \A x \in mine'[s] : \E y \in mine[s] : CarriedOne(x, y)
    BY <2>2, <2>3
  <2>5. ASSUME NEW x \in mine'[s], NEW y \in mine'[s], x # y
        PROVE  \E x0, y0 \in mine[s] : x0 # y0 /\ CarriedOne(x, x0) /\ CarriedOne(y, y0)
    <3>1. PICK x0 \in mine[s] : x = IF x0.sub = depth THEN [x0 EXCEPT !.sub = depth - 1] ELSE x0
      BY <2>3
    <3>2. PICK y0 \in mine[s] : y = IF y0.sub = depth THEN [y0 EXCEPT !.sub = depth - 1] ELSE y0
      BY <2>3
    <3>3. x0 # y0
      BY <2>5, <3>1, <3>2
    <3>4. CarriedOne(x, x0) /\ CarriedOne(y, y0)
      BY <2>2, <3>1, <3>2
    <3> QED
      BY <3>3, <3>4
  <2>6. \A t \in Sessions : t # s => mine'[t] = mine[t]
    BY <1>0 DEF Only
  <2>7. \A t \in Sessions : \A x \in mine'[t] : \E y \in mine[t] : CarriedOne(x, y)
    BY <1>5, <2>4, <2>6
  <2>8. \A t \in Sessions : \A x, y \in mine'[t] : x # y =>
         \E x0, y0 \in mine[t] : x0 # y0 /\ CarriedOne(x, x0) /\ CarriedOne(y, y0)
    <3> SUFFICES ASSUME NEW t \in Sessions, NEW x \in mine'[t], NEW y \in mine'[t], x # y
                 PROVE \E x0, y0 \in mine[t] : x0 # y0 /\ CarriedOne(x, x0) /\ CarriedOne(y, y0)
      OBVIOUS
    <3>1. CASE t = s
      BY <2>5, <3>1
    <3>2. CASE t # s
      BY <1>5, <2>6, <3>2
    <3> QED
      BY <3>1, <3>2
  <2> QED
    BY <1>4, <1>6, <1>8, <2>7, <2>8 DEF Carried
<1> QED
  BY <1>7, <1>8

\* So does a crash.
LEMMA CarriedCrash ==
  ASSUME Types, Placed, Crash
  PROVE  Carried
<1>1. stripes' = stripes /\ \A t \in Sessions : mine'[t] = {}
  BY DEF Crash, Forget
<1>2. \A x \in stripes : CarriedOne(x, x)
  BY CommittedKept DEF CarriedOne, Shadow
<1> QED
  BY <1>1, <1>2 DEF Carried

-----------------------------------------------------------------------------
(* Published stripes stay apart.                                           *)

\* Stripes that were apart are apart when carried over.
LEMMA ApartCarried ==
  ASSUME NEW x, NEW y, NEW x0, NEW y0, CarriedOne(x, x0), CarriedOne(y, y0), Apart(x0, y0)
  PROVE  Apart(x, y)'
<1>1. /\ x.id = x0.id /\ x.base = x0.base /\ x.count = x0.count /\ Decode(x)' = Decode(x0)
      /\ y.id = y0.id /\ y.base = y0.base /\ y.count = y0.count /\ Decode(y)' = Decode(y0)
  BY DEF CarriedOne, Shadow
<1> HIDE DEF Decode, RangesApart
<1> QED
  BY <1>1 DEF Apart

\* Being apart is symmetric.
LEMMA ApartSym ==
  ASSUME NEW x, NEW y, Apart(x, y) PROVE Apart(y, x)
<1> HIDE DEF Decode
<1> QED
  BY DEF Apart, RangesApart

\* So a step that carries the stripes over keeps StripesApart.
LEMMA StripesApartCarried ==
  ASSUME StripesApart, Carried
  PROVE  StripesApart'
<1>1. \A x, y \in stripes' : x # y => Apart(x, y)'
  BY ApartCarried DEF Carried, StripesApart
<1>2. ASSUME NEW t \in Sessions, NEW x \in mine'[t], NEW y \in stripes'
      PROVE  Apart(x, y)'
  <2>1. PICK x0 \in mine[t] : CarriedOne(x, x0)
    BY DEF Carried
  <2>2. Apart(x0, y) /\ CarriedOne(y, y)
    BY DEF StripesApart, Carried
  <2> QED
    BY <2>1, <2>2, ApartCarried
<1>3. ASSUME NEW t \in Sessions, NEW x \in mine'[t], NEW y \in mine'[t], x # y
      PROVE  Apart(x, y)'
  <2>1. PICK x0 \in mine[t] : \E y0 \in mine[t] : x0 # y0 /\ CarriedOne(x, x0) /\ CarriedOne(y, y0)
    BY <1>3 DEF Carried
  <2>2. PICK y0 \in mine[t] : x0 # y0 /\ CarriedOne(x, x0) /\ CarriedOne(y, y0)
    BY <2>1
  <2>3. Apart(x0, y0)
    BY <2>2 DEF StripesApart
  <2> QED
    BY <2>2, <2>3, ApartCarried
<1>4. ASSUME NEW s \in Sessions, NEW t \in Sessions, s # t, NEW x \in mine'[s], NEW y \in mine'[t]
      PROVE  Apart(x, y)'
  <2>1. PICK x0 \in mine[s] : CarriedOne(x, x0)
    BY DEF Carried
  <2>2. PICK y0 \in mine[t] : CarriedOne(y, y0)
    BY DEF Carried
  <2>3. Apart(x0, y0)
    BY <1>4 DEF StripesApart
  <2> QED
    BY <2>1, <2>2, <2>3, ApartCarried
<1> QED
  BY <1>1, <1>2, <1>3, <1>4 DEF StripesApart

\* What a commit does: the stripes of s keep what they are under another name.
LEMMA CommitFacts ==
  ASSUME Types, NEW s \in Sessions, Commit(s)
  PROVE  /\ stripes' = stripes \cup {Committed(st) : st \in mine[s]}
         /\ mine'[s] = {} /\ \A t \in Sessions : t # s => mine'[t] = mine[t]
         /\ \A x : CarriedOne(x, x) /\ CarriedOne(Committed(x), x)
         /\ UNCHANGED <<pages, meta, pending, flush, stmt, scan, inserts>>
         /\ durable' = [pages |-> Len(pages), meta |-> meta]
<1>1. UNCHANGED <<pages, meta, pending, flush, stmt, scan, inserts>>
  BY DEF Commit
<1>2. \A x : Decode(x)' = Decode(x)
  BY <1>1 DEF Decode
<1>3. \A x : Shadow(x, x) /\ Shadow(Committed(x), x)
  BY DEF Shadow, Committed
<1>4. \A x : CarriedOne(x, x)
  BY <1>2, <1>3 DEF CarriedOne
<1>5. ASSUME NEW x PROVE CarriedOne(Committed(x), x)
  <2>1. DecodeIn(pages', Committed(x)) = DecodeIn(pages', x)
    BY <1>3, ShadowDecode
  <2>2. Decode(Committed(x))' = Decode(x)'
    BY <2>1 DEF Decode, DecodeIn
  <2> QED
    BY <1>2, <1>3, <2>2 DEF CarriedOne
<1> QED
  BY <1>1, <1>4, <1>5 DEF Commit, Types, AllWritten

\* A commit keeps StripesApart: its stripes were apart from all others.
LEMMA StripesApartCommit ==
  ASSUME Types, StripesApart, NEW s \in Sessions, Commit(s)
  PROVE  StripesApart'
<1> DEFINE New == {Committed(st) : st \in mine[s]}
<1>0. /\ stripes' = stripes \cup New
      /\ mine'[s] = {} /\ \A t \in Sessions : t # s => mine'[t] = mine[t]
      /\ \A x : CarriedOne(x, x) /\ CarriedOne(Committed(x), x)
  BY CommitFacts
<1>1. ASSUME NEW x \in New, NEW y \in stripes PROVE Apart(x, y)' /\ Apart(y, x)'
  <2>1. PICK x0 \in mine[s] : x = Committed(x0)
    OBVIOUS
  <2>2. Apart(x0, y) /\ Apart(y, x0)
    BY ApartSym DEF StripesApart
  <2>3. CarriedOne(x, x0) /\ CarriedOne(y, y)
    BY <1>0, <2>1
  <2> QED
    BY <2>2, <2>3, ApartCarried
<1>2. ASSUME NEW x \in New, NEW y \in New, x # y PROVE Apart(x, y)'
  <2>1. PICK x0 \in mine[s] : x = Committed(x0)
    OBVIOUS
  <2>2. PICK y0 \in mine[s] : y = Committed(y0)
    OBVIOUS
  <2>3. Apart(x0, y0)
    BY <1>2, <2>1, <2>2 DEF StripesApart
  <2>4. CarriedOne(x, x0) /\ CarriedOne(y, y0)
    BY <1>0, <2>1, <2>2
  <2> QED
    BY <2>3, <2>4, ApartCarried
<1>3. ASSUME NEW x \in stripes, NEW y \in stripes, x # y PROVE Apart(x, y)'
  BY <1>0, <1>3, ApartCarried DEF StripesApart
<1>4. ASSUME NEW t \in Sessions, NEW x \in mine'[t], NEW y \in stripes' PROVE Apart(x, y)'
  <2>1. t # s /\ x \in mine[t] /\ CarriedOne(x, x)
    BY <1>0
  <2>2. CASE y \in stripes
    BY <1>0, <2>1, <2>2, ApartCarried DEF StripesApart
  <2>3. CASE y \in New
    <3>1. PICK y0 \in mine[s] : y = Committed(y0)
      BY <2>3
    <3>2. Apart(x, y0) /\ CarriedOne(y, y0)
      BY <1>0, <2>1, <3>1 DEF StripesApart
    <3> QED
      BY <2>1, <3>2, ApartCarried
  <2> QED
    BY <1>0, <2>2, <2>3
<1>5. ASSUME NEW t \in Sessions, NEW x \in mine'[t], NEW y \in mine'[t], x # y PROVE Apart(x, y)'
  BY <1>0, <1>5, ApartCarried DEF StripesApart
<1>6. ASSUME NEW t \in Sessions, NEW u \in Sessions, t # u, NEW x \in mine'[t], NEW y \in mine'[u]
      PROVE  Apart(x, y)'
  BY <1>0, <1>6, ApartCarried DEF StripesApart
<1> HIDE DEF New
<1> QED
  BY <1>0, <1>1, <1>2, <1>3, <1>4, <1>5, <1>6 DEF StripesApart

\* The stripe that Publish(s) adds.
NewStripe(s) ==
    [id |-> flush[s].id, base |-> flush[s].base, count |-> Cardinality(flush[s].rows),
     header |-> flush[s].header, sub |-> Len(subs[s])]

\* What publishing adds: one stripe, with the rows of the flush.
LEMMA PublishFacts ==
  ASSUME Types, Placed, NEW s \in Sessions, Publish(s)
  PROVE  /\ mine'[s] = mine[s] \cup {NewStripe(s)} /\ \A t \in Sessions : t # s => mine'[t] = mine[t]
         /\ Published' = Published \cup {NewStripe(s)}
         /\ \A x : CarriedOne(x, x)
         /\ \A x : x = NewStripe(s) => Decode(x)' = flush[s].rows
         /\ UNCHANGED <<pages, meta, pending, stmt, scan, inserts, stripes, durable, kept>>
         /\ flush'[s] = NoFlush /\ flush[s] \in Flush /\ flush[s].step = "publish" /\ pc[s] = "flush"
<1>1. /\ UNCHANGED <<pages, meta, pending, stmt, scan, inserts, stripes, durable, kept>>
      /\ flush'[s] = NoFlush /\ flush[s] \in Flush /\ flush[s].step = "publish" /\ pc[s] = "flush"
      /\ flush[s] # NoFlush
  BY FlushingTyped DEF Publish, Types, Flushing
<1>2. \A x : CarriedOne(x, x)
  BY <1>1 DEF CarriedOne, Shadow, Decode
<1>3. mine' = [mine EXCEPT ![s] = @ \cup {NewStripe(s)}]
  BY DEF Publish, NewStripe
<1>4. mine'[s] = mine[s] \cup {NewStripe(s)} /\ \A t \in Sessions : t # s => mine'[t] = mine[t]
  BY <1>3 DEF Types
<1>5. Published' = Published \cup {NewStripe(s)}
  BY <1>1, <1>4 DEF Published
<1>6. DecodeIn(pages, NewStripe(s)) = flush[s].rows
  <2>1. NewStripe(s).header = flush[s].header /\ NewStripe(s).count = Cardinality(flush[s].rows)
    BY DEF NewStripe
  <2>2. WrittenIn(pages, flush[s]) /\ pages \in Seq(Page)
    BY <1>1 DEF Placed, Types
  <2> QED
    BY <1>1, <2>1, <2>2, PublishLaid
<1>7. \A x : Decode(x)' = DecodeIn(pages, x)
  BY <1>1 DEF Decode, DecodeIn
<1> QED
  BY <1>1, <1>2, <1>4, <1>5, <1>6, <1>7

\* A new stripe is apart from the others: its numbers and its rows are its own.
LEMMA StripesApartPublish ==
  ASSUME Types, Control, Placed, StripesApart, HeldApart, Reserved, NEW s \in Sessions, Publish(s)
  PROVE  StripesApart'
<1>a. PICK new : new = NewStripe(s)
  OBVIOUS
<1>0. /\ mine'[s] = mine[s] \cup {new} /\ \A t \in Sessions : t # s => mine'[t] = mine[t]
      /\ \A x : CarriedOne(x, x)
      /\ Decode(new)' = flush[s].rows /\ stripes' = stripes
      /\ flush[s] \in Flush /\ flush[s].step = "publish" /\ flush[s] # NoFlush
  BY <1>a, PublishFacts DEF NoFlush
<1>1. ASSUME NEW x \in Published PROVE Apart(new, x)' /\ Apart(x, new)'
  <2>1. new.id = flush[s].id /\ new.base = flush[s].base /\ new.count = CountOf(s)
    BY <1>a DEF NewStripe, CountOf
  <2>2. Ranged(s) /\ Numbered(s)
    BY <1>0 DEF Ranged, Numbered
  <2>3. x.id # new.id /\ RangesApart(new.base, new.count, x.base, x.count)
    BY <2>1, <2>2 DEF Reserved
  <2>4. flush[s].rows \cap Decode(x) = {} /\ Decode(x)' = Decode(x)
    BY <1>0 DEF HeldApart, Held, CarriedOne
  <2>5. Decode(new)' \cap Decode(x)' = {} /\ Decode(x)' \cap Decode(new)' = {}
    BY <1>0, <2>4
  <2>6. RangesApart(x.base, x.count, new.base, new.count)
    BY <2>3 DEF RangesApart
  <2> QED
    BY <2>3, <2>5, <2>6 DEF Apart
<1>2. \A x, y : Apart(x, y) => Apart(x, y)'
  BY <1>0, ApartCarried
<1>3. /\ stripes \subseteq Published /\ \A t \in Sessions : mine[t] \subseteq Published
  BY DEF Published
<1>4. \A x, y \in stripes' : x # y => Apart(x, y)'
  BY <1>0, <1>2 DEF StripesApart
<1>5. ASSUME NEW t \in Sessions, NEW x \in mine'[t], NEW y \in stripes' PROVE Apart(x, y)'
  BY <1>0, <1>1, <1>2, <1>3 DEF StripesApart
<1>6. ASSUME NEW t \in Sessions, NEW x \in mine'[t], NEW y \in mine'[t], x # y PROVE Apart(x, y)'
  <2>1. CASE x \in mine[t] /\ y \in mine[t]
    BY <1>2, <1>6, <2>1 DEF StripesApart
  <2>2. CASE t = s /\ (x = new \/ y = new)
    BY <1>0, <1>1, <1>3, <1>6, <2>2
  <2> QED
    BY <1>0, <2>1, <2>2
<1>7. ASSUME NEW t \in Sessions, NEW u \in Sessions, t # u, NEW x \in mine'[t], NEW y \in mine'[u]
      PROVE  Apart(x, y)'
  <2>1. CASE x \in mine[t] /\ y \in mine[u]
    BY <1>2, <1>7, <2>1 DEF StripesApart
  <2>2. CASE t = s /\ x = new
    BY <1>0, <1>1, <1>3, <1>7, <2>2
  <2>3. CASE u = s /\ y = new
    BY <1>0, <1>1, <1>3, <1>7, <2>3
  <2> QED
    BY <1>0, <2>1, <2>2, <2>3
<1> QED
  BY <1>4, <1>5, <1>6, <1>7 DEF StripesApart

\* Every step keeps StripesApart.
LEMMA StripesApartStep ==
  ASSUME Types, Types', Control, Placed, StripesApart, HeldApart, Reserved, [Next]_vars
  PROVE  StripesApart'
<1>1. CASE Crash
  BY <1>1, CarriedCrash, StripesApartCarried
<1>2. ASSUME NEW s \in Sessions, FlushStep(s) \/ Statement(s) \/ Transaction(s)
      PROVE  StripesApart'
  BY <1>2, StepKinds, CarriedStep, StripesApartCarried, StripesApartCommit, StripesApartPublish
<1>3. CASE UNCHANGED vars
  <2>1. stripes' = stripes /\ mine' = mine /\ pages' = pages
    BY <1>3 DEF vars
  <2>2. \A x : CarriedOne(x, x)
    BY <2>1 DEF CarriedOne, Shadow, Decode
  <2>3. Carried
    BY <2>1, <2>2 DEF Carried
  <2> QED
    BY <2>3, StripesApartCarried
<1> QED
  BY <1>1, <1>2, <1>3 DEF Next

-----------------------------------------------------------------------------
(* Statements number their rows afresh.                                    *)

\* A stripe published after a commit was published before it, perhaps as uncommitted.
LEMMA CommitCarries ==
  ASSUME Types, NEW s \in Sessions, Commit(s)
  PROVE  \A x \in Published' : \E y \in Published : CarriedOne(x, y)
<1>0. /\ stripes' = stripes \cup {Committed(st) : st \in mine[s]}
      /\ mine'[s] = {} /\ \A t \in Sessions : t # s => mine'[t] = mine[t]
      /\ \A x : CarriedOne(x, x) /\ CarriedOne(Committed(x), x)
  BY CommitFacts
<1>1. ASSUME NEW x \in stripes' PROVE \E y \in Published : CarriedOne(x, y)
  <2>1. CASE x \in stripes
    BY <1>0, <2>1 DEF Published
  <2>2. CASE x \in {Committed(st) : st \in mine[s]}
    <3>1. PICK y \in mine[s] : x = Committed(y)
      BY <2>2
    <3> QED
      BY <1>0, <3>1 DEF Published
  <2> QED
    BY <1>0, <2>1, <2>2
<1>2. ASSUME NEW t \in Sessions, NEW x \in mine'[t] PROVE \E y \in Published : CarriedOne(x, y)
  BY <1>0 DEF Published
<1> QED
  BY <1>1, <1>2 DEF Published

\* The same for a step that carries the stripes over.
LEMMA CarriedPublished ==
  ASSUME Carried
  PROVE  \A x \in Published' : \E y \in Published : CarriedOne(x, y)
<1>1. ASSUME NEW x \in stripes' PROVE \E y \in Published : CarriedOne(x, y)
  BY DEF Carried, Published
<1>2. ASSUME NEW t \in Sessions, NEW x \in mine'[t] PROVE \E y \in Published : CarriedOne(x, y)
  BY DEF Carried, Published
<1> QED
  BY <1>1, <1>2 DEF Published

\* A statement in progress goes on with its number, or is a new one with a new number.
LEMMA InsertAfter ==
  ASSUME Types, Control, Scanned, NEW s \in Sessions,
         FlushStep(s) \/ Statement(s) \/ Transaction(s)
  PROVE  /\ inserts' \in {inserts, inserts + 1}
         /\ InInsert(s)' =>
              \/ /\ InInsert(s) /\ stmt'[s].id = stmt[s].id /\ stmt'[s].size = stmt[s].size
                 /\ inserts' = inserts
                 /\ stmt'[s].next = IF PushRow(s) THEN stmt[s].next + 1 ELSE stmt[s].next
              \/ /\ ~InInsert(s) /\ inserts' = inserts + 1 /\ stmt'[s].id = inserts + 1
                 /\ ~PushRow(s)
<1>0. ControlOf(s)
  BY DEF Control
<1>1. CASE FlushStep(s)
  <2>1. /\ inserts' = inserts /\ stmt' = stmt /\ pc[s] = "flush" /\ flush[s] # NoFlush
        /\ flush[s] \in Flush
    BY <1>1, FlushingTyped DEF FlushStep, WriteChunkPage, ReserveRows, ReserveStripe,
       WriteDirectory, WriteHeader, Publish, Flushing
  <2>2. InInsert(s)' => InInsert(s)
    <3>1. CASE WriteChunkPage(s)
      BY <2>1, <3>1 DEF WriteChunkPage, InInsert, Types, Flush
    <3>2. CASE ReserveRows(s) \/ ReserveStripe(s)
      BY <2>1, <3>2 DEF ReserveRows, ReserveStripe, InInsert, Types, Flush
    <3>3. CASE WriteDirectory(s) \/ WriteHeader(s)
      BY <2>1, <3>3 DEF WriteDirectory, WriteHeader, InInsert, Types, Flush
    <3>4. CASE Publish(s)
      BY <2>1, <3>4 DEF Publish, InInsert, Types, Flush, Goto, NoFlush
    <3> QED
      BY <1>1, <3>1, <3>2, <3>3, <3>4 DEF FlushStep
  <2>3. ~PushRow(s)
    BY <2>1 DEF PushRow
  <2> QED
    BY <2>1, <2>2, <2>3
<1>2. CASE \E n \in 1 .. MaxStmtRows, size \in {1, Budget + 1}, bulk \in BOOLEAN :
             StartInsert(s, n, size, bulk)
  <2>1. /\ inserts' = inserts + 1 /\ stmt'[s].id = inserts + 1 /\ pc[s] = "ready"
    BY <1>2 DEF StartInsert, Types
  <2> QED
    BY <1>0, <2>1 DEF ControlOf, InInsert, PushRow
<1>3. CASE StartSelfInsert(s)
  <2>1. /\ inserts' = inserts + 1 /\ stmt'[s].id = inserts + 1 /\ pc[s] = "ready"
    BY <1>3 DEF StartSelfInsert, Types
  <2> QED
    BY <1>0, <2>1 DEF ControlOf, InInsert, PushRow
<1>4. CASE PushRow(s)
  <2>1. stmt[s] \in Insert /\ InInsert(s) /\ inserts' = inserts
    BY <1>0, <1>4 DEF ControlOf, InInsert, PushRow
  <2>2. stmt'[s].id = stmt[s].id /\ stmt'[s].size = stmt[s].size /\ stmt'[s].next = stmt[s].next + 1
    BY <1>4, <2>1 DEF PushRow, Types, Insert
  <2> QED
    BY <1>4, <2>1, <2>2
<1>5. CASE FlushFirst(s)
  <2>1. InInsert(s) /\ UNCHANGED <<stmt, inserts>>
    BY <1>5 DEF FlushFirst, InInsert
  <2>2. ~PushRow(s)
    BY <1>5 DEF FlushFirst, PushRow
  <2> QED
    BY <2>1, <2>2
<1>6. CASE FetchStripe(s) \/ FetchPending(s)
  <2>1. inserts' = inserts /\ pc' = pc /\ flush' = flush
    BY <1>6 DEF FetchStripe, FetchPending, Deliver
  <2>2. InInsert(s)' => InInsert(s)
    BY <2>1 DEF InInsert
  <2>3. InInsert(s) => /\ stmt'[s].id = stmt[s].id /\ stmt'[s].size = stmt[s].size
                       /\ stmt'[s].next = stmt[s].next
    <3>1. CASE UNCHANGED stmt
      BY <3>1
    <3>2. ASSUME NEW n, stmt' = [stmt EXCEPT ![s].left = n], InInsert(s)
          PROVE  /\ stmt'[s].id = stmt[s].id /\ stmt'[s].size = stmt[s].size
                 /\ stmt'[s].next = stmt[s].next
      <4>1. stmt[s] \in Insert
        BY <1>0, <3>2 DEF ControlOf
      <4> QED
        BY <3>2, <4>1 DEF Types, Insert
    <3> QED
      BY <1>6, <3>1, <3>2 DEF FetchStripe, FetchPending, Deliver
  <2>4. ~PushRow(s)
    <3>2. PushRow(s) => pc[s] = "insert" /\ stmt[s].left > 0
      BY DEF PushRow
    <3>3. pc[s] = "insert" => stmt[s].left = 0
      BY <1>6 DEF FetchStripe, FetchPending, Wanted
    <3> QED
      BY <3>2, <3>3
  <2> QED
    BY <2>1, <2>2, <2>3, <2>4
<1>7. CASE EndInsert(s) \/ StartSelect(s) \/ EndSelect(s) \/ Transaction(s)
  <2>1. inserts' = inserts
    BY <1>7 DEF EndInsert, StartSelect, EndSelect, Transaction, Begin, PreCommit, Commit, Abort,
       Savepoint, Release, RollbackTo
  <2>2. ~InInsert(s)'
    <3>1. CASE EndInsert(s)
      <4>1. CASE StartFlush(s, pending[s], "ready")
        <5>1. pending[s] \in SUBSET Row
          BY DEF Types
        <5>2. flush'[s].then = "ready" /\ pc'[s] = "flush"
          BY <4>1, <5>1, StartFlushTyped DEF Types
        <5> QED
          BY <5>2 DEF InInsert
      <4>2. CASE Goto(s, "ready")
        BY <4>2 DEF Goto, InInsert, Types
      <4> QED
        BY <3>1, <4>1, <4>2 DEF EndInsert
    <3>2. CASE StartSelect(s) \/ EndSelect(s)
      BY <3>2 DEF StartSelect, EndSelect, Goto, InInsert, Types
    <3>3. CASE PreCommit(s)
      <4>1. CASE StartFlush(s, pending[s], "commit")
        <5>1. pending[s] \in SUBSET Row
          BY DEF Types
        <5>2. flush'[s].then = "commit" /\ pc'[s] = "flush"
          BY <4>1, <5>1, StartFlushTyped DEF Types
        <5> QED
          BY <5>2 DEF InInsert
      <4>2. CASE Goto(s, "commit")
        BY <4>2 DEF Goto, InInsert, Types
      <4> QED
        BY <3>3, <4>1, <4>2 DEF PreCommit
    <3>4. CASE Begin(s) \/ Commit(s) \/ Savepoint(s) \/ Release(s) \/ RollbackTo(s)
      BY <3>4 DEF Begin, Commit, Savepoint, Release, RollbackTo, Goto, InInsert, Types
    <3>5. CASE Abort(s)
      BY <3>5 DEF Abort, Forget, InInsert
    <3> QED
      BY <1>7, <3>1, <3>2, <3>3, <3>4, <3>5 DEF Transaction
  <2> QED
    BY <2>1, <2>2
<1> QED
  BY <1>1, <1>2, <1>3, <1>4, <1>5, <1>6, <1>7 DEF Statement

\* A stuttering step leaves what is derived from the variables.
LEMMA Stutters ==
  ASSUME UNCHANGED vars
  PROVE  /\ Published' = Published /\ \A st : Decode(st)' = Decode(st)
         /\ \A s : Held(s)' = Held(s)
         /\ \A s : OwnRows(s)' = OwnRows(s)
<1>1. UNCHANGED <<pages, stripes, mine, pending, flush>>
  BY DEF vars
<1>2. Published' = Published /\ \A s : Held(s)' = Held(s)
  BY <1>1 DEF Published, Held
<1>3. \A st : Decode(st)' = Decode(st)
  BY <1>1 DEF Decode
<1>4. \A S : RowsOf(S)' = RowsOf(S)
  BY <1>3 DEF RowsOf
<1>5. \A s : OwnRows(s)' = OwnRows(s)
  BY <1>1, <1>4 DEF OwnRows
<1> QED
  BY <1>2, <1>3, <1>5

\* The row that PushRow inserts has not been inserted before.
LEMMA NextRowNew ==
  ASSUME Types, Control, Scanned, NEW s \in Sessions, PushRow(s)
  PROVE  /\ NextRow(s) \in Row /\ ~Spent(NextRow(s)) /\ InInsert(s) /\ stmt[s] \in Insert
         /\ NextRow(s).stmt = stmt[s].id /\ NextRow(s).nr = stmt[s].next
         /\ NextRow(s).size = stmt[s].size
<1>1. NextRow(s) \in Row /\ stmt[s] \in Insert /\ InInsert(s)
  BY NextRowTyped DEF PushRow, InInsert
<1>2. /\ NextRow(s).stmt = stmt[s].id /\ NextRow(s).nr = stmt[s].next
      /\ NextRow(s).size = stmt[s].size
  BY DEF NextRow
<1>3. ~(stmt[s].next < stmt[s].next)
  BY <1>1 DEF Insert
<1> HIDE DEF NextRow
<1> QED
  BY <1>1, <1>2, <1>3 DEF Spent

\* Where the rows of the next state come from.
LEMMA RowsAfter ==
  ASSUME Types, Types', Control, Scanned, Placed, NEW s \in Sessions,
         FlushStep(s) \/ Statement(s) \/ Transaction(s)
  PROVE  /\ \A x \in Published' : \/ \E y \in Published : Decode(x)' = Decode(y)
                                  \/ Decode(x)' = Held(s) /\ Held(s)' = {}
         /\ \A t \in Sessions : t # s => Held(t)' = Held(t)
         /\ \/ Held(s)' \subseteq Held(s)
            \/ PushRow(s) /\ Held(s)' = Held(s) \cup {NextRow(s)}
                          /\ \A x \in Published' : \E y \in Published : Decode(x)' = Decode(y)
<1>0. \A t \in Sessions : t # s => Held(t)' = Held(t)
  BY StepOnly, HeldOthers
<1>1. CASE Publish(s)
  <2>1. Held(s) = flush[s].rows /\ Held(s)' = {}
    BY <1>1, HeldPublish
  <2>2. /\ Published' = Published \cup {NewStripe(s)}
        /\ \A x : CarriedOne(x, x)
        /\ \A x : x = NewStripe(s) => Decode(x)' = flush[s].rows
    BY <1>1, PublishFacts
  <2>3. \A x : Decode(x)' = Decode(x)
    BY <2>2 DEF CarriedOne
  <2> QED
    BY <1>0, <2>1, <2>2, <2>3
<1>2. CASE ~Publish(s)
  <2>1. \A x \in Published' : \E y \in Published : CarriedOne(x, y)
    BY <1>2, StepKinds, CarriedStep, CarriedPublished, CommitCarries
  <2>2. \A x \in Published' : \E y \in Published : Decode(x)' = Decode(y)
    BY <2>1 DEF CarriedOne
  <2>3. pending[s] \subseteq Held(s)
    BY DEF Held
  <2>4. \/ Held(s)' \subseteq Held(s)
        \/ PushRow(s) /\ Held(s)' = Held(s) \cup {NextRow(s)}
    BY <1>2, <2>3, StepKinds, HeldQuiet, HeldPush, HeldCommit, HeldAbort, HeldRollback
  <2> QED
    BY <1>0, <2>2, <2>4
<1> QED
  BY <1>1, <1>2

\* A crash keeps committed stripes and clears the sessions.
LEMMA CrashClears ==
  ASSUME Types, Placed, Crash
  PROVE  /\ \A x \in Published' : x \in Published /\ Decode(x)' = Decode(x)
         /\ \A t \in Sessions : /\ Held(t)' = {} /\ ~InInsert(t)' /\ flush'[t] = NoFlush
                                /\ mine'[t] = {} /\ pc'[t] = "idle"
         /\ inserts' = inserts /\ stripes' = stripes
<1>1. /\ stripes' = stripes /\ inserts' = inserts
      /\ \A t \in Sessions : /\ mine'[t] = {} /\ pending'[t] = {} /\ flush'[t] = NoFlush
                             /\ pc'[t] = "idle"
  BY DEF Crash, Forget
<1>2. Published' = stripes
  BY <1>1 DEF Published
<1>3. \A x \in Published' : x \in Published /\ Decode(x)' = Decode(x)
  BY <1>2, CommittedKept DEF Published
<1>4. \A t \in Sessions : Held(t)' = {} /\ ~InInsert(t)'
  BY <1>1, NoFlushRows DEF Held, InInsert
<1> QED
  BY <1>1, <1>3, <1>4

\* A row that will not be inserted again stays so.
LEMMA SpentAfter ==
  ASSUME Types, Control, Scanned, NEW s \in Sessions,
         FlushStep(s) \/ Statement(s) \/ Transaction(s),
         NEW r \in Row, Spent(r)
  PROVE  Spent(r)'
<1>0. /\ r.stmt \in Nat /\ r.nr \in Nat /\ inserts \in Nat
  BY BoundAssumption DEF Row, Types
<1>1. inserts' \in {inserts, inserts + 1}
  BY InsertAfter
<1>2. r.stmt <= inserts'
  BY <1>0, <1>1 DEF Spent
<1>3. ASSUME NEW t \in Sessions, InInsert(t)', r.stmt = stmt'[t].id
      PROVE  r.nr < stmt'[t].next /\ r.size = stmt'[t].size
  <2>1. CASE t # s
    <3>1. stmt'[t] = stmt[t] /\ (InInsert(t)' => InInsert(t))
      BY <2>1, StepOnly DEF Only, InInsert
    <3> QED
      BY <1>3, <3>1 DEF Spent
  <2>2. CASE t = s
    <3>1. CASE /\ InInsert(s) /\ stmt'[s].id = stmt[s].id /\ stmt'[s].size = stmt[s].size
               /\ stmt'[s].next = IF PushRow(s) THEN stmt[s].next + 1 ELSE stmt[s].next
      <4>1. stmt[s] \in Insert
        BY <3>1 DEF Control, ControlOf
      <4>2. r.nr < stmt[s].next /\ r.size = stmt[s].size /\ stmt[s].next \in Nat
        BY <1>3, <2>2, <3>1, <4>1 DEF Spent, Insert
      <4> QED
        BY <1>0, <2>2, <3>1, <4>2
    <3>2. CASE stmt'[s].id = inserts + 1
      BY <1>0, <1>3, <2>2, <3>2 DEF Spent
    <3> QED
      BY <1>3, <2>2, <3>1, <3>2, InsertAfter
  <2> QED
    BY <2>1, <2>2
<1> QED
  BY <1>2, <1>3 DEF Spent

\* Every step keeps Fresh.
LEMMA FreshStep ==
  ASSUME Types, Types', Control, Scanned, Placed, Placed', Fresh, [Next]_vars
  PROVE  Fresh'
<1>0. inserts \in Nat
  BY BoundAssumption DEF Types
<1>1. CASE Crash
  <2>1. \A t \in Sessions : ~InInsert(t)' /\ Held(t)' = {}
    BY <1>1, CrashClears
  <2>2. \A r : Spent(r) => Spent(r)'
    BY <1>1, <2>1, CrashClears DEF Spent
  <2>3. \A x \in Published' : x \in Published /\ Decode(x)' = Decode(x)
    BY <1>1, CrashClears
  <2>4. \A x \in Published' : \A r \in Decode(x)' : Spent(r)'
    BY <2>2, <2>3 DEF Fresh
  <2> QED
    BY <2>1, <2>4 DEF Fresh
<1>2. ASSUME NEW s \in Sessions, FlushStep(s) \/ Statement(s) \/ Transaction(s)
      PROVE  Fresh'
  <2>0. \A t \in Sessions : t # s => stmt'[t] = stmt[t] /\ (InInsert(t)' => InInsert(t))
    BY <1>2, StepOnly DEF Only, InInsert
  <2>1. \A t \in Sessions : InInsert(t)' => stmt'[t].id <= inserts'
    <3> SUFFICES ASSUME NEW t \in Sessions, InInsert(t)' PROVE stmt'[t].id <= inserts'
      OBVIOUS
    <3>1. CASE t # s
      <4>1. stmt[t].id <= inserts /\ stmt'[t] = stmt[t] /\ stmt[t] \in Insert
        BY <2>0, <3>1 DEF Fresh, Control, ControlOf
      <4>2. inserts' \in {inserts, inserts + 1} /\ stmt[t].id \in Nat
        BY <1>2, <4>1, InsertAfter, BoundAssumption DEF Insert
      <4> QED
        BY <1>0, <4>1, <4>2
    <3>2. CASE t = s
      <4>1. CASE InInsert(s) /\ stmt'[s].id = stmt[s].id /\ inserts' = inserts
        BY <3>2, <4>1 DEF Fresh
      <4>2. CASE inserts' = inserts + 1 /\ stmt'[s].id = inserts + 1
        BY <1>0, <3>2, <4>2
      <4> QED
        BY <1>2, <3>2, <4>1, <4>2, InsertAfter
    <3> QED
      BY <3>1, <3>2
  <2>2. ASSUME NEW t \in Sessions, t # s, InInsert(t)', InInsert(s)' PROVE stmt'[t].id # stmt'[s].id
    <3>1. InInsert(t) /\ stmt'[t] = stmt[t] /\ stmt[t].id <= inserts /\ stmt[t].id \in Nat
      BY <2>0, <2>2, BoundAssumption DEF Fresh, Control, ControlOf, Insert
    <3>2. CASE InInsert(s) /\ stmt'[s].id = stmt[s].id
      BY <2>2, <3>1, <3>2 DEF Fresh
    <3>3. CASE stmt'[s].id = inserts + 1
      BY <1>0, <3>1, <3>3
    <3> QED
      BY <1>2, <2>2, <3>2, <3>3, InsertAfter
  <2>3. \A t, u \in Sessions : t # u /\ InInsert(t)' /\ InInsert(u)' => stmt'[t].id # stmt'[u].id
    <3> SUFFICES ASSUME NEW t \in Sessions, NEW u \in Sessions, t # u, InInsert(t)', InInsert(u)'
                 PROVE  stmt'[t].id # stmt'[u].id
      OBVIOUS
    <3>1. CASE t # s /\ u # s
      BY <2>0, <3>1 DEF Fresh
    <3>2. CASE t = s
      BY <2>2, <3>2
    <3>3. CASE u = s
      BY <2>2, <3>3
    <3> QED
      BY <3>1, <3>2, <3>3
  <2>4. \A r \in Row : Spent(r) => Spent(r)'
    BY <1>2, SpentAfter
  <2>5. \A y \in Published : Decode(y) \in SUBSET Row
    BY PublishedLaid
  <2>6. \A t \in Sessions : Held(t) \in SUBSET Row
    BY HeldTyped
  <2>7. \A x \in Published' : \A r \in Decode(x)' : Spent(r)'
    BY <1>2, <2>4, <2>5, <2>6, RowsAfter DEF Fresh
  <2>8. ASSUME NEW t \in Sessions, NEW r \in Held(t)' PROVE Spent(r)'
    <3>1. CASE r \in Held(t)
      BY <2>4, <2>6, <3>1 DEF Fresh
    <3>2. CASE r = NextRow(s) /\ PushRow(s)
      <4>1. /\ r \in Row /\ r.stmt = stmt[s].id /\ r.nr = stmt[s].next /\ r.size = stmt[s].size
            /\ InInsert(s) /\ stmt[s] \in Insert
        BY <3>2, NextRowNew
      <4>2. inserts' = inserts
        BY <3>2 DEF PushRow
      <4>3. r.stmt <= inserts'
        BY <4>1, <4>2 DEF Fresh
      <4>4. ASSUME NEW u \in Sessions, InInsert(u)', r.stmt = stmt'[u].id
            PROVE  r.nr < stmt'[u].next /\ r.size = stmt'[u].size
        <5>1. CASE u = s
          <6>1. stmt'[s].size = stmt[s].size /\ stmt'[s].next = stmt[s].next + 1
            BY <1>2, <3>2, <4>4, <5>1, InsertAfter
          <6>2. stmt[s].next \in Nat
            BY <4>1 DEF Insert
          <6> QED
            BY <4>1, <5>1, <6>1, <6>2
        <5>2. CASE u # s
          <6>1. InInsert(u) /\ stmt'[u] = stmt[u]
            BY <2>0, <4>4, <5>2
          <6> QED
            BY <4>1, <4>4, <5>2, <6>1 DEF Fresh
        <5> QED
          BY <5>1, <5>2
      <4> QED
        BY <4>3, <4>4 DEF Spent
    <3> QED
      BY <1>2, <3>1, <3>2, RowsAfter
  <2> QED
    BY <2>1, <2>3, <2>7, <2>8 DEF Fresh
<1>3. CASE UNCHANGED vars
  <2>1. \A r : Spent(r)' = Spent(r)
    BY <1>3 DEF vars, Spent, InInsert
  <2>2. UNCHANGED <<inserts, pc, flush, stmt>>
    BY <1>3 DEF vars
  <2> QED
    BY <1>3, <2>1, <2>2, Stutters DEF Fresh, InInsert
<1> QED
  BY <1>1, <1>2, <1>3 DEF Next

\* Every step keeps HeldApart.
LEMMA HeldApartStep ==
  ASSUME Types, Types', Control, Scanned, Placed, Fresh, HeldApart, [Next]_vars
  PROVE  HeldApart'
<1>1. CASE Crash
  <2>1. \A t \in Sessions : Held(t)' = {}
    BY <1>1, CrashClears
  <2> QED
    BY <2>1 DEF HeldApart
<1>2. ASSUME NEW s \in Sessions, FlushStep(s) \/ Statement(s) \/ Transaction(s)
      PROVE  HeldApart'
  <2>1. /\ \A x \in Published' : \/ \E y \in Published : Decode(x)' = Decode(y)
                                 \/ Decode(x)' = Held(s) /\ Held(s)' = {}
        /\ \A t \in Sessions : t # s => Held(t)' = Held(t)
        /\ \/ Held(s)' \subseteq Held(s)
           \/ PushRow(s) /\ Held(s)' = Held(s) \cup {NextRow(s)}
                         /\ \A x \in Published' : \E y \in Published : Decode(x)' = Decode(y)
    BY <1>2, RowsAfter
  <2>2. PushRow(s) => /\ \A y \in Published : NextRow(s) \notin Decode(y)
                      /\ \A t \in Sessions : NextRow(s) \notin Held(t)
    BY NextRowNew DEF Fresh
  <2>3. CASE Held(s)' \subseteq Held(s)
    <3>1. \A t \in Sessions : Held(t)' \subseteq Held(t)
      BY <2>1, <2>3
    <3>2. \A t, u \in Sessions : t # u => Held(t)' \cap Held(u)' = {}
      BY <3>1 DEF HeldApart
    <3>3. ASSUME NEW t \in Sessions, NEW x \in Published' PROVE Held(t)' \cap Decode(x)' = {}
      <4>1. CASE \E y \in Published : Decode(x)' = Decode(y)
        BY <3>1, <4>1 DEF HeldApart
      <4>2. CASE Decode(x)' = Held(s) /\ Held(s)' = {}
        BY <3>1, <4>2 DEF HeldApart
      <4> QED
        BY <2>1, <4>1, <4>2
    <3> QED
      BY <3>2, <3>3 DEF HeldApart
  <2>4. CASE /\ PushRow(s) /\ Held(s)' = Held(s) \cup {NextRow(s)}
             /\ \A x \in Published' : \E y \in Published : Decode(x)' = Decode(y)
    <3>2. \A t, u \in Sessions : t # u => Held(t)' \cap Held(u)' = {}
      <4> SUFFICES ASSUME NEW t \in Sessions, NEW u \in Sessions, t # u
                   PROVE  Held(t)' \cap Held(u)' = {}
        OBVIOUS
      <4>1. Held(t) \cap Held(u) = {}
        BY DEF HeldApart
      <4>2. NextRow(s) \notin Held(t) /\ NextRow(s) \notin Held(u)
        BY <2>2, <2>4
      <4>3. (t # s => Held(t)' = Held(t)) /\ (u # s => Held(u)' = Held(u))
        BY <2>1
      <4> QED
        BY <2>4, <4>1, <4>2, <4>3
    <3>3. ASSUME NEW t \in Sessions, NEW x \in Published' PROVE Held(t)' \cap Decode(x)' = {}
      <4>1. PICK y \in Published : Decode(x)' = Decode(y)
        BY <2>4
      <4>2. Held(t) \cap Decode(y) = {} /\ NextRow(s) \notin Decode(y)
        BY <2>2, <2>4 DEF HeldApart
      <4>3. t # s => Held(t)' = Held(t)
        BY <2>1
      <4> QED
        BY <2>4, <4>1, <4>2, <4>3
    <3> QED
      BY <3>2, <3>3 DEF HeldApart
  <2> QED
    BY <2>1, <2>3, <2>4
<1>3. CASE UNCHANGED vars
  BY <1>3, Stutters DEF HeldApart
<1> QED
  BY <1>1, <1>2, <1>3 DEF Next

-----------------------------------------------------------------------------
(* What was reserved stays reserved.                                       *)

\* The numbers of a published stripe are below the counters.
LEMMA PublishedNumbers ==
  ASSUME Types, Reserved, NEW x \in Published
  PROVE  /\ x.base \in Nat /\ x.count \in Nat /\ x.id \in Nat
         /\ x.base + x.count <= meta.rows /\ x.id < meta.stripe
<1>1. x \in Stripe
  BY DEF Published, Types
<1>2. x.base \in Nat /\ x.count \in Nat /\ x.id \in Nat
  BY <1>1 DEF Stripe
<1>3. /\ meta.rows \in Nat /\ meta.stripe \in Nat
      /\ durable.meta.rows \in Nat /\ durable.meta.stripe \in Nat
  BY DEF Types, Counters
<1>4. CASE x \in stripes
  BY <1>2, <1>3, <1>4 DEF Reserved
<1>5. CASE \E s \in Sessions : x \in mine[s]
  BY <1>2, <1>5 DEF Reserved
<1> QED
  BY <1>4, <1>5 DEF Published

\* The numbers a flush has reserved are numbers.
LEMMA FlushNumbers ==
  ASSUME Types, NEW s \in Sessions, Ranged(s)
  PROVE  /\ flush[s].base \in Nat /\ CountOf(s) \in Nat /\ flush[s].id \in Nat
<1>1. flush[s] \in Flush
  BY FlushTyped DEF Ranged
<1> QED
  BY <1>1, RowsFinite DEF Flush, CountOf

\* What a page of a chunk leaves of its flush.
LEMMA ChunkAfter ==
  ASSUME Types, NEW s \in Sessions, WriteChunkPage(s)
  PROVE  /\ flush'[s].step \in {"chunk", "rows"}
         /\ flush'[s].rows = flush[s].rows /\ flush'[s].then = flush[s].then
<1> DEFINE f == flush[s]
<1>1. f \in Flush /\ f # NoFlush /\ f.step = "chunk"
  BY FlushingTyped DEF WriteChunkPage
<1>2. flush' = [flush EXCEPT
             ![s].first[f.col] = IF f.part = 1 THEN Len(pages) + 1 ELSE @,
             ![s].part = IF f.part = ChunkPages THEN 1 ELSE @ + 1,
             ![s].col = IF f.part = ChunkPages /\ f.col < Columns THEN @ + 1 ELSE @,
             ![s].step = IF f.part = ChunkPages /\ f.col = Columns THEN "rows" ELSE @]
  BY DEF WriteChunkPage, NewBlock
<1>3. /\ flush'[s].rows = f.rows /\ flush'[s].dir = f.dir
      /\ flush'[s].first = [f.first EXCEPT ![f.col] = IF f.part = 1 THEN Len(pages) + 1 ELSE @]
      /\ flush'[s].part = IF f.part = ChunkPages THEN 1 ELSE f.part + 1
      /\ flush'[s].col = IF f.part = ChunkPages /\ f.col < Columns THEN f.col + 1 ELSE f.col
      /\ flush'[s].step = IF f.part = ChunkPages /\ f.col = Columns THEN "rows" ELSE f.step
  BY <1>1, <1>2 DEF Types, Flush
<1>4. flush'[s].then = f.then
  BY <1>1, <1>2 DEF Types, Flush
<1> QED
  BY <1>1, <1>3, <1>4

\* The numbers of the flushes in progress change only where they are reserved.
LEMMA NumbersAfter ==
  ASSUME Types, Types', Control, Scanned, NEW s \in Sessions,
         FlushStep(s) \/ Statement(s) \/ Transaction(s), NEW t \in Sessions
  PROVE  /\ Ranged(t)' /\ ~(t = s /\ ReserveRows(s)) =>
              Ranged(t) /\ flush'[t].base = flush[t].base /\ CountOf(t)' = CountOf(t)
         /\ Numbered(t)' /\ ~(t = s /\ ReserveStripe(s)) =>
              Numbered(t) /\ flush'[t].id = flush[t].id
<1>1. CASE flush'[t] = flush[t]
  BY <1>1 DEF Ranged, Numbered, CountOf
<1>2. CASE flush'[t] = NoFlush
  BY <1>2 DEF Ranged, Numbered
<1>3. CASE t # s
  <2>1. flush'[t] = flush[t]
    BY <1>3, StepOnly DEF Only
  <2> QED
    BY <1>1, <2>1
<1>4. CASE t = s /\ (Statement(s) \/ Transaction(s))
  <2>1. \/ flush'[t] = flush[t]
        \/ flush'[t] = NoFlush
        \/ flush'[t].step = "chunk"
    BY <1>4, FlushAfter
  <2>2. CASE flush'[t].step = "chunk"
    BY <2>2 DEF Ranged, Numbered
  <2> QED
    BY <1>1, <1>2, <2>1, <2>2
<1>5. CASE t = s /\ FlushStep(s)
  <2>1. CASE WriteChunkPage(s)
    <3>2. flush'[s].step \in {"chunk", "rows"}
      BY <2>1, ChunkAfter
    <3> QED
      BY <1>5, <3>2 DEF Ranged, Numbered
  <2>2. CASE ReserveRows(s)
    <3>1. flush[s] \in Flush /\ flush[s].step = "rows"
      BY <2>2, FlushingTyped DEF ReserveRows
    <3>2. flush'[s].step = "stripe"
      BY <2>2, <3>1 DEF ReserveRows, Types, Flush
    <3> QED
      BY <1>5, <2>2, <3>2 DEF Ranged, Numbered
  <2>3. CASE ReserveStripe(s)
    <3>1. flush[s] \in Flush /\ flush[s].step = "stripe" /\ flush[s] # NoFlush
      BY <2>3, FlushingTyped DEF ReserveStripe
    <3>2. flush'[s].base = flush[s].base /\ flush'[s].rows = flush[s].rows
      BY <2>3, <3>1 DEF ReserveStripe, Types, Flush
    <3>3. Ranged(s) /\ ~ReserveRows(s)
      BY <2>3, <3>1 DEF ReserveRows, Flushing, Ranged
    <3> QED
      BY <1>5, <2>3, <3>2, <3>3 DEF CountOf
  <2>4. CASE WriteDirectory(s)
    <3>1. flush[s] \in Flush /\ flush[s].step = "dir" /\ flush[s] # NoFlush
      BY <2>4, FlushingTyped DEF WriteDirectory
    <3>2. flush'[s].base = flush[s].base /\ flush'[s].rows = flush[s].rows /\ flush'[s].id = flush[s].id
      BY <2>4, <3>1 DEF WriteDirectory, Types, Flush
    <3>3. Ranged(s) /\ Numbered(s)
      BY <3>1 DEF Ranged, Numbered
    <3> QED
      BY <1>5, <3>2, <3>3 DEF CountOf
  <2>5. CASE WriteHeader(s)
    <3>1. flush[s] \in Flush /\ flush[s].step = "header" /\ flush[s] # NoFlush
      BY <2>5, FlushingTyped DEF WriteHeader
    <3>2. flush'[s].base = flush[s].base /\ flush'[s].rows = flush[s].rows /\ flush'[s].id = flush[s].id
      BY <2>5, <3>1 DEF WriteHeader, Types, Flush
    <3>3. Ranged(s) /\ Numbered(s)
      BY <3>1 DEF Ranged, Numbered
    <3> QED
      BY <1>5, <3>2, <3>3 DEF CountOf
  <2>6. CASE Publish(s)
    <3>1. flush'[s] = NoFlush
      BY <2>6 DEF Publish, Types
    <3> QED
      BY <1>2, <1>5, <3>1
  <2> QED
    BY <1>5, <2>1, <2>2, <2>3, <2>4, <2>5, <2>6 DEF FlushStep
<1> QED
  BY <1>3, <1>4, <1>5

\* The counters only grow while the server runs.
LEMMA MetaAfter ==
  ASSUME Types, NEW s \in Sessions, FlushStep(s) \/ Statement(s) \/ Transaction(s)
  PROVE  /\ meta.rows <= meta'.rows /\ meta.stripe <= meta'.stripe
         /\ meta'.rows \in Nat /\ meta'.stripe \in Nat
         /\ Commit(s) \/ UNCHANGED <<stripes, durable>>
<1>1. meta.rows \in Nat /\ meta.stripe \in Nat
  BY DEF Types, Counters
<1>2. CASE UNCHANGED <<meta, stripes, durable>>
  BY <1>1, <1>2
<1>3. CASE FlushStep(s)
  <2>1. CASE ReserveRows(s)
    <3>1. flush[s] \in Flush
      BY <2>1, FlushingTyped DEF ReserveRows
    <3>2. Cardinality(flush[s].rows) \in Nat
      BY <3>1, RowsFinite DEF Flush
    <3>3. meta'.rows = meta.rows + Cardinality(flush[s].rows) /\ meta'.stripe = meta.stripe
      BY <2>1 DEF ReserveRows, Types, Counters
    <3> QED
      BY <1>1, <2>1, <3>2, <3>3 DEF ReserveRows
  <2>2. CASE ReserveStripe(s)
    <3>1. meta'.stripe = meta.stripe + 1 /\ meta'.rows = meta.rows
      BY <2>2 DEF ReserveStripe, Types, Counters
    <3> QED
      BY <1>1, <2>2, <3>1 DEF ReserveStripe
  <2> QED
    BY <1>2, <1>3, <2>1, <2>2 DEF FlushStep, WriteChunkPage, WriteDirectory, WriteHeader, Publish
<1>4. CASE Commit(s)
  BY <1>1, <1>4 DEF Commit
<1>5. CASE Statement(s) \/ (Transaction(s) /\ ~Commit(s))
  BY <1>2, <1>5, MineAfter
<1> QED
  BY <1>3, <1>4, <1>5

\* The part of Reserved about the stripes, in the next state.
LEMMA BelowAfter ==
  ASSUME Types, Types', Control, Scanned, Placed, Reserved, NEW s \in Sessions,
         FlushStep(s) \/ Statement(s) \/ Transaction(s)
  PROVE  /\ durable'.meta.rows <= meta'.rows /\ durable'.meta.stripe <= meta'.stripe
         /\ \A x \in stripes' :
              x.base + x.count <= durable'.meta.rows /\ x.id < durable'.meta.stripe
         /\ \A t \in Sessions : \A x \in mine'[t] :
              x.base + x.count <= meta'.rows /\ x.id < meta'.stripe
<1>0. /\ meta.rows <= meta'.rows /\ meta.stripe <= meta'.stripe
      /\ meta'.rows \in Nat /\ meta'.stripe \in Nat
      /\ Commit(s) \/ UNCHANGED <<stripes, durable>>
  BY MetaAfter
<1>1. /\ meta.rows \in Nat /\ meta.stripe \in Nat
      /\ durable.meta.rows \in Nat /\ durable.meta.stripe \in Nat
  BY DEF Types, Counters
<1>2. ASSUME NEW x, NEW y \in Published, Shadow(x, y)
      PROVE  /\ x.base + x.count <= meta.rows /\ x.id < meta.stripe
             /\ x.base + x.count <= meta'.rows /\ x.id < meta'.stripe
  BY <1>0, <1>1, <1>2, PublishedNumbers DEF Shadow
<1>3. /\ stripes \subseteq Published /\ \A t \in Sessions : mine[t] \subseteq Published
  BY DEF Published
<1>4. \A x : Shadow(x, x)
  BY DEF Shadow
<1>5. CASE Commit(s)
  <2>1. /\ stripes' = stripes \cup {Committed(st) : st \in mine[s]}
        /\ mine'[s] = {} /\ \A t \in Sessions : t # s => mine'[t] = mine[t]
        /\ \A x : Shadow(x, x) /\ Shadow(Committed(x), x)
        /\ durable'.meta = meta /\ meta' = meta
    BY <1>5, CommitFacts DEF CarriedOne
  <2>2. \A x \in stripes' : \E y \in Published : Shadow(x, y)
    <3> SUFFICES ASSUME NEW x \in stripes' PROVE \E y \in Published : Shadow(x, y)
      OBVIOUS
    <3>1. CASE x \in stripes
      BY <1>3, <2>1, <3>1
    <3>2. CASE x \in {Committed(st) : st \in mine[s]}
      <4>1. PICK y \in mine[s] : x = Committed(y)
        BY <3>2
      <4> QED
        BY <1>3, <2>1, <4>1
    <3> QED
      BY <2>1, <3>1, <3>2
  <2>3. \A t \in Sessions : \A x \in mine'[t] : x \in Published /\ Shadow(x, x)
    BY <1>3, <2>1
  <2> QED
    BY <1>0, <1>2, <2>1, <2>2, <2>3
<1>6. CASE ~Commit(s)
  <2>1. UNCHANGED <<stripes, durable>>
    BY <1>0, <1>6
  <2>2. durable'.meta.rows <= meta'.rows /\ durable'.meta.stripe <= meta'.stripe
    BY <1>0, <1>1, <2>1 DEF Reserved
  <2>3. \A x \in stripes' :
           x.base + x.count <= durable'.meta.rows /\ x.id < durable'.meta.stripe
    BY <2>1 DEF Reserved
  <2>4. CASE Publish(s)
    <3>0. PICK new : new = NewStripe(s)
      OBVIOUS
    <3>1. /\ mine'[s] = mine[s] \cup {new} /\ \A t \in Sessions : t # s => mine'[t] = mine[t]
          /\ flush[s] \in Flush /\ flush[s].step = "publish"
      BY <2>4, <3>0, PublishFacts
    <3>2. new.base = flush[s].base /\ new.count = CountOf(s) /\ new.id = flush[s].id
      BY <3>0 DEF NewStripe, CountOf
    <3>3. Ranged(s) /\ Numbered(s)
      BY <3>1 DEF Ranged, Numbered, NoFlush
    <3>4. new.base + new.count <= meta.rows /\ new.id < meta.stripe
      BY <3>2, <3>3 DEF Reserved
    <3>5. meta' = meta
      BY <2>4 DEF Publish
    <3>6. ASSUME NEW t \in Sessions, NEW x \in mine'[t]
          PROVE x.base + x.count <= meta'.rows /\ x.id < meta'.stripe
      <4>1. CASE x \in mine[t]
        BY <1>2, <1>3, <1>4, <4>1
      <4>2. CASE x = new
        BY <3>4, <3>5, <4>2
      <4> QED
        BY <3>1, <4>1, <4>2
    <3> QED
      BY <2>2, <2>3, <3>6
  <2>5. CASE ~Publish(s)
    <3>1. Carried
      BY <1>6, <2>5, StepKinds, CarriedStep
    <3>2. \A t \in Sessions : \A x \in mine'[t] : \E y \in Published : Shadow(x, y)
      BY <1>3, <3>1 DEF Carried, CarriedOne
    <3> QED
      BY <1>2, <2>2, <2>3, <3>2
  <2> QED
    BY <2>4, <2>5
<1> QED
  BY <1>5, <1>6

\* The row numbers of a flush in progress are nobody else's.
LEMMA RangesAfter ==
  ASSUME Types, Types', Control, Scanned, Placed, Reserved, NEW s \in Sessions,
         FlushStep(s) \/ Statement(s) \/ Transaction(s), NEW t \in Sessions, Ranged(t)'
  PROVE  /\ flush'[t].base + CountOf(t)' <= meta'.rows
         /\ \A x \in Published' : RangesApart(flush'[t].base, CountOf(t)', x.base, x.count)
         /\ \A u \in Sessions : u # t /\ Ranged(u)' =>
              RangesApart(flush'[t].base, CountOf(t)', flush'[u].base, CountOf(u)')
<1>0. /\ meta.rows <= meta'.rows /\ meta'.rows \in Nat /\ meta.rows \in Nat
  BY MetaAfter DEF Types, Counters
<1>1. \A u \in Sessions : Ranged(u)' /\ ~(u = s /\ ReserveRows(s)) =>
         /\ Ranged(u) /\ flush'[u].base = flush[u].base /\ CountOf(u)' = CountOf(u)
         /\ flush[u].base + CountOf(u) <= meta.rows
         /\ flush[u].base \in Nat /\ CountOf(u) \in Nat
  BY NumbersAfter, FlushNumbers DEF Reserved
<1>2. \A a, b, c, d : RangesApart(a, b, c, d) => RangesApart(c, d, a, b)
  BY DEF RangesApart
<1>3. ReserveRows(s) => /\ flush'[s].base = meta.rows
                        /\ meta'.rows = meta.rows + CountOf(s) /\ CountOf(s)' = CountOf(s)
                        /\ CountOf(s) \in Nat
                        /\ Published' = Published
  <2> SUFFICES ASSUME ReserveRows(s)
               PROVE  /\ flush'[s].base = meta.rows
                      /\ meta'.rows = meta.rows + CountOf(s) /\ CountOf(s)' = CountOf(s)
                      /\ CountOf(s) \in Nat
                      /\ Published' = Published
    OBVIOUS
  <2>1. flush[s] \in Flush
    BY FlushingTyped DEF ReserveRows
  <2>2. flush'[s].base = meta.rows /\ flush'[s].rows = flush[s].rows
    BY <2>1 DEF ReserveRows, Types, Flush
  <2>3. meta'.rows = meta.rows + CountOf(s)
    BY DEF ReserveRows, Types, Counters, CountOf
  <2>4. CountOf(s)' = CountOf(s) /\ CountOf(s) \in Nat
    BY <2>1, <2>2, RowsFinite DEF CountOf, Flush
  <2>5. Published' = Published
    BY DEF ReserveRows, Published
  <2> QED
    BY <2>2, <2>3, <2>4, <2>5
<1>4. flush'[t].base + CountOf(t)' <= meta'.rows
  <2>1. CASE t = s /\ ReserveRows(s)
    BY <1>0, <1>3, <2>1
  <2>2. CASE ~(t = s /\ ReserveRows(s))
    BY <1>0, <1>1, <2>2
  <2> QED
    BY <2>1, <2>2
<1>5. ASSUME NEW x \in Published'
      PROVE  RangesApart(flush'[t].base, CountOf(t)', x.base, x.count)
  <2>1. CASE t = s /\ ReserveRows(s)
    <3>1. x \in Published
      BY <1>3, <2>1
    <3>2. x.base + x.count <= meta.rows
      BY <3>1, PublishedNumbers
    <3> QED
      BY <1>3, <2>1, <3>2 DEF RangesApart
  <2>2. CASE ~(t = s /\ ReserveRows(s))
    <3>1. Ranged(t) /\ flush'[t].base = flush[t].base /\ CountOf(t)' = CountOf(t)
      BY <1>1, <2>2
    <3>2. CASE \E y \in Published : Shadow(x, y)
      BY <3>1, <3>2 DEF Reserved, Shadow
    <3>3. CASE Publish(s) /\ x = NewStripe(s)
      <4>0. PICK new : new = NewStripe(s)
        OBVIOUS
      <4>1. flush'[s] = NoFlush /\ flush[s] \in Flush /\ flush[s].step = "publish"
        BY <3>3, PublishFacts
      <4>2. t # s /\ Ranged(s)
        BY <4>1 DEF Ranged, NoFlush
      <4>3. new.base = flush[s].base /\ new.count = CountOf(s)
        BY <4>0 DEF NewStripe, CountOf
      <4>4. RangesApart(flush[t].base, CountOf(t), flush[s].base, CountOf(s))
        BY <3>1, <4>2 DEF Reserved
      <4> QED
        BY <3>1, <3>3, <4>0, <4>3, <4>4
    <3>4. Publish(s) => x \in Published \/ x = NewStripe(s)
      BY PublishFacts
    <3>5. ~Publish(s) => \E y \in Published : Shadow(x, y)
      BY StepKinds, CarriedStep, CarriedPublished, CommitCarries DEF CarriedOne
    <3>6. Shadow(x, x)
      BY DEF Shadow
    <3> QED
      BY <3>2, <3>3, <3>4, <3>5, <3>6
  <2> QED
    BY <2>1, <2>2
<1>6. ASSUME NEW u \in Sessions, u # t, Ranged(u)'
      PROVE  RangesApart(flush'[t].base, CountOf(t)', flush'[u].base, CountOf(u)')
  <2>1. CASE t = s /\ ReserveRows(s)
    <3>1. flush'[u].base + CountOf(u)' <= meta.rows
      BY <1>1, <1>6, <2>1
    <3> QED
      BY <1>3, <2>1, <3>1 DEF RangesApart
  <2>2. CASE u = s /\ ReserveRows(s)
    <3>1. flush'[t].base + CountOf(t)' <= meta.rows
      BY <1>1, <1>6, <2>2
    <3> QED
      BY <1>3, <2>2, <3>1 DEF RangesApart
  <2>3. CASE ~(t = s /\ ReserveRows(s)) /\ ~(u = s /\ ReserveRows(s))
    BY <1>1, <1>6, <2>3 DEF Reserved
  <2> QED
    BY <2>1, <2>2, <2>3
<1> QED
  BY <1>4, <1>5, <1>6

\* So is its stripe id.
LEMMA IdsAfter ==
  ASSUME Types, Types', Control, Scanned, Placed, Reserved, NEW s \in Sessions,
         FlushStep(s) \/ Statement(s) \/ Transaction(s), NEW t \in Sessions, Numbered(t)'
  PROVE  /\ flush'[t].id < meta'.stripe
         /\ \A x \in Published' : x.id # flush'[t].id
         /\ \A u \in Sessions : u # t /\ Numbered(u)' => flush'[u].id # flush'[t].id
<1>0. /\ meta.stripe <= meta'.stripe /\ meta'.stripe \in Nat /\ meta.stripe \in Nat
  BY MetaAfter DEF Types, Counters
<1>1. \A u \in Sessions : Numbered(u)' /\ ~(u = s /\ ReserveStripe(s)) =>
         /\ Numbered(u) /\ flush'[u].id = flush[u].id /\ flush[u].id < meta.stripe
         /\ flush[u].id \in Nat
  BY NumbersAfter, FlushNumbers DEF Reserved, Numbered
<1>3. ReserveStripe(s) => /\ flush'[s].id = meta.stripe /\ meta'.stripe = meta.stripe + 1
                          /\ Published' = Published
  <2> SUFFICES ASSUME ReserveStripe(s)
               PROVE  /\ flush'[s].id = meta.stripe /\ meta'.stripe = meta.stripe + 1
                      /\ Published' = Published
    OBVIOUS
  <2>1. flush[s] \in Flush
    BY FlushingTyped DEF ReserveStripe
  <2>2. flush'[s].id = meta.stripe
    BY <2>1 DEF ReserveStripe, Types, Flush
  <2>3. meta'.stripe = meta.stripe + 1
    BY DEF ReserveStripe, Types, Counters
  <2>5. Published' = Published
    BY DEF ReserveStripe, Published
  <2> QED
    BY <2>2, <2>3, <2>5
<1>4. flush'[t].id < meta'.stripe
  <2>1. CASE t = s /\ ReserveStripe(s)
    BY <1>0, <1>3, <2>1
  <2>2. CASE ~(t = s /\ ReserveStripe(s))
    BY <1>0, <1>1, <2>2
  <2> QED
    BY <2>1, <2>2
<1>5. ASSUME NEW x \in Published' PROVE x.id # flush'[t].id
  <2>1. CASE t = s /\ ReserveStripe(s)
    <3>1. x \in Published
      BY <1>3, <2>1
    <3>2. x.id < meta.stripe /\ x.id \in Nat
      BY <3>1, PublishedNumbers
    <3> QED
      BY <1>0, <1>3, <2>1, <3>2
  <2>2. CASE ~(t = s /\ ReserveStripe(s))
    <3>1. Numbered(t) /\ flush'[t].id = flush[t].id
      BY <1>1, <2>2
    <3>2. CASE \E y \in Published : Shadow(x, y)
      BY <3>1, <3>2 DEF Reserved, Shadow
    <3>3. CASE Publish(s) /\ x = NewStripe(s)
      <4>0. PICK new : new = NewStripe(s)
        OBVIOUS
      <4>1. flush'[s] = NoFlush /\ flush[s] \in Flush /\ flush[s].step = "publish"
        BY <3>3, PublishFacts
      <4>2. t # s /\ Numbered(s)
        BY <4>1 DEF Ranged, Numbered, NoFlush
      <4>3. new.id = flush[s].id
        BY <4>0 DEF NewStripe
      <4>4. flush[s].id # flush[t].id
        BY <3>1, <4>2 DEF Reserved
      <4> QED
        BY <3>1, <3>3, <4>0, <4>3, <4>4
    <3>4. Publish(s) => x \in Published \/ x = NewStripe(s)
      BY PublishFacts
    <3>5. ~Publish(s) => \E y \in Published : Shadow(x, y)
      BY StepKinds, CarriedStep, CarriedPublished, CommitCarries DEF CarriedOne
    <3>6. Shadow(x, x)
      BY DEF Shadow
    <3> QED
      BY <3>2, <3>3, <3>4, <3>5, <3>6
  <2> QED
    BY <2>1, <2>2
<1>6. ASSUME NEW u \in Sessions, u # t, Numbered(u)' PROVE flush'[u].id # flush'[t].id
  <2>1. CASE t = s /\ ReserveStripe(s)
    BY <1>0, <1>1, <1>3, <1>6, <2>1
  <2>2. CASE u = s /\ ReserveStripe(s)
    BY <1>0, <1>1, <1>3, <1>6, <2>2
  <2>3. CASE ~(t = s /\ ReserveStripe(s)) /\ ~(u = s /\ ReserveStripe(s))
    BY <1>1, <1>6, <2>3 DEF Reserved
  <2> QED
    BY <2>1, <2>2, <2>3
<1> QED
  BY <1>4, <1>5, <1>6

\* Every step keeps Reserved.
LEMMA ReservedStep ==
  ASSUME Types, Types', Control, Scanned, Placed, Reserved, [Next]_vars
  PROVE  Reserved'
<1>1. CASE Crash
  <2>1. \A t \in Sessions : flush'[t] = NoFlush /\ mine'[t] = {}
    BY <1>1, CrashClears
  <2>2. stripes' = stripes /\ durable'.meta = meta' /\ (meta' = meta \/ meta' = durable.meta)
    BY <1>1, CrashClears, CrashFile
  <2>3. /\ meta'.rows \in Nat /\ meta'.stripe \in Nat
    BY DEF Types, Counters
  <2>4. \A x \in stripes : /\ x.base + x.count <= meta.rows /\ x.id < meta.stripe
                           /\ x.base + x.count <= durable.meta.rows /\ x.id < durable.meta.stripe
    BY PublishedNumbers DEF Reserved, Published
  <2>5. \A t \in Sessions : ~Ranged(t)' /\ ~Numbered(t)'
    BY <2>1 DEF Ranged, Numbered
  <2>6. durable'.meta.rows <= meta'.rows /\ durable'.meta.stripe <= meta'.stripe
    BY <2>2, <2>3
  <2>7. \A x \in stripes' : x.base + x.count <= durable'.meta.rows /\ x.id < durable'.meta.stripe
    BY <2>2, <2>4
  <2> QED
    BY <2>1, <2>5, <2>6, <2>7 DEF Reserved
<1>2. ASSUME NEW s \in Sessions, FlushStep(s) \/ Statement(s) \/ Transaction(s)
      PROVE  Reserved'
  BY <1>2, BelowAfter, RangesAfter, IdsAfter DEF Reserved
<1>3. CASE UNCHANGED vars
  BY <1>3 DEF vars, Reserved, Published, Ranged, Numbered, CountOf
<1> QED
  BY <1>1, <1>2, <1>3 DEF Next

-----------------------------------------------------------------------------
(* A scan delivers what it owes, and a self-insert copies no more rows than it saw twice. *)

\* Counting the rows of two sets.
LEMMA RowsUnion ==
  ASSUME NEW A \in SUBSET Row, NEW B \in SUBSET Row
  PROVE  /\ Cardinality(A) \in Nat /\ Cardinality(B) \in Nat /\ Cardinality(A \cup B) \in Nat
         /\ Cardinality(A \cup B) <= Cardinality(A) + Cardinality(B)
         /\ A \cap B = {} => Cardinality(A \cup B) = Cardinality(A) + Cardinality(B)
         /\ A \subseteq B => Cardinality(A) <= Cardinality(B)
<1>1. /\ IsFiniteSet(A) /\ IsFiniteSet(B)
      /\ Cardinality(A) \in Nat /\ Cardinality(B) \in Nat
      /\ Cardinality(A \cup B) \in Nat /\ Cardinality(A \cap B) \in Nat
  <2>1. A \cup B \in SUBSET Row /\ A \cap B \in SUBSET Row
    OBVIOUS
  <2> QED
    BY <2>1, RowsFinite
<1>2. Cardinality(A \cup B) = Cardinality(A) + Cardinality(B) - Cardinality(A \cap B)
  BY <1>1, FS_Union
<1>3. A \cap B = {} => Cardinality(A \cap B) = 0
  BY FS_EmptySet
<1>4. A \subseteq B => Cardinality(A) <= Cardinality(B)
  BY <1>1, FS_Subset
<1> QED
  BY <1>1, <1>2, <1>3, <1>4

\* A statement has inserted one row fewer than the number of its next one.
LEMMA OwnCounted ==
  ASSUME NEW R \in SUBSET Row, NEW n \in Nat \ {0}, NEW id, NEW size,
         \A r \in R : r.stmt = id /\ r.nr < n /\ r.size = size
  PROVE  Cardinality(R) <= n - 1
<1> DEFINE f == [r \in R |-> r.nr]
<1>1. f \in Injection(R, 1 .. (n - 1))
  <2>1. \A r \in R : r.nr \in 1 .. (n - 1)
    BY BoundAssumption DEF Row
  <2>2. ASSUME NEW r \in R, NEW q \in R, r.nr = q.nr PROVE r = q
    <3>1. r \in Row /\ q \in Row /\ r.stmt = q.stmt /\ r.size = q.size
      OBVIOUS
    <3> QED
      BY <2>2, <3>1 DEF Row
  <2> QED
    BY <2>1, <2>2 DEF Injection, IsInjective
<1>2. IsFiniteSet(1 .. (n - 1)) /\ Cardinality(1 .. (n - 1)) = n - 1
  BY FS_Interval
<1> HIDE DEF f
<1> QED
  BY <1>1, <1>2, FS_Injection

\* The stripes a session sees share no row.
LEMMA ApartRows ==
  ASSUME StripesApart, NEW s \in Sessions, NEW x \in stripes \cup mine[s],
         NEW y \in stripes \cup mine[s], x # y
  PROVE  Decode(x) \cap Decode(y) = {}
BY ApartSym DEF StripesApart, Apart

\* The stripes a scan still has to read.
LEMMA TodoRows ==
  ASSUME Types, Placed, NEW s \in Sessions, scan[s].open, Viewed(s)
  PROVE  /\ scan[s].todo \subseteq Published
         /\ \A S \in SUBSET scan[s].todo : RowsOf(S) \in SUBSET Row
         /\ scan[s] \in Scan
<1>1. scan[s].todo \subseteq Published
  BY DEF Viewed, Published
<1>2. scan[s] \in Scan
  BY DEF Types, NoScan
<1> QED
  BY <1>1, <1>2, VisibleTyped

\* Rows of stripes that decode as before.
LEMMA RowsOfSame ==
  ASSUME NEW T, \A x \in T : Decode(x)' = Decode(x)
  PROVE  RowsOf(T)' = RowsOf(T)
BY DEF RowsOf

\* Steps that leave the scan of session t alone, and what its statement has still to copy.
LEMMA ScannedKept ==
  ASSUME Types, Types', Control, Placed, Grown, NEW t \in Sessions, Numbering(t), Viewed(t),
         scan'[t] = scan[t],
         InInsert(t)' => /\ InInsert(t) /\ stmt'[t].self = stmt[t].self
                         /\ Copied(t)' = Copied(t) /\ Older(t)' \subseteq Older(t),
         pc'[t] = "select" => pc[t] = "select" /\ pending'[t] = pending[t],
         stripes \subseteq stripes', mine[t] \subseteq mine'[t]
  PROVE  Numbering(t)' /\ Viewed(t)'
<1>1. PICK T : T = scan[t].todo
  OBVIOUS
<1>2. scan'[t].todo = T /\ RowsOf(scan[t].todo)' = RowsOf(T)'
  BY <1>1 DEF RowsOf
<1>3. scan[t].open => RowsOf(T)' = RowsOf(T)
  BY <1>1, TodoRows, PublishedKept, RowsOfSame
<1>4. Viewed(t)'
  <2>1. scan'[t].open => scan'[t].todo \subseteq stripes' \cup mine'[t]
    BY DEF Viewed
  <2>2. pc'[t] = "select" => scan[t].open
    BY DEF Control, ControlOf
  <2> QED
    BY <1>1, <1>2, <1>3, <2>1, <2>2 DEF Viewed
<1>7. ASSUME InInsert(t)', stmt'[t].self, ~scan'[t].done
      PROVE  Copied(t)' + Cardinality(RowsOf(scan[t].todo)') + Cardinality(Older(t)')
               <= Cardinality(scan'[t].view)
  <2>1. stmt[t] \in Insert /\ scan[t].open /\ InInsert(t)
    BY <1>7 DEF Control, ControlOf
  <2>2. Copied(t) + Cardinality(RowsOf(T)) + Cardinality(Older(t)) <= Cardinality(scan[t].view)
    BY <1>1, <1>7, <2>1 DEF Numbering
  <2>3. Older(t) \in SUBSET Row /\ Older(t)' \in SUBSET Row
    BY <1>7 DEF Older, Types
  <2>4. Cardinality(Older(t)') <= Cardinality(Older(t))
    BY <1>7, <2>3, RowsUnion
  <2>5. RowsOf(T) \in SUBSET Row /\ scan[t].view \in SUBSET Row
    BY <1>1, <2>1, TodoRows DEF Scan
  <2>6. /\ Cardinality(RowsOf(T)) \in Nat /\ Cardinality(Older(t)') \in Nat
        /\ Cardinality(Older(t)) \in Nat /\ Cardinality(scan[t].view) \in Nat
    BY <2>3, <2>5, RowsFinite
  <2>7. Copied(t) \in Nat
    BY <2>1 DEF Copied, Insert
  <2>8. RowsOf(scan[t].todo)' = RowsOf(T)
    BY <1>2, <1>3, <2>1
  <2>9. \A a, b, c, d, v \in Nat : a + b + c <= v /\ d <= c => a + b + d <= v
    OBVIOUS
  <2> QED
    BY <1>7, <2>2, <2>4, <2>6, <2>7, <2>8, <2>9
<1> QED
  BY <1>4, <1>7 DEF Numbering

\* A session that neither inserts nor selects owes nothing to a scan.
LEMMA ScannedIdle ==
  ASSUME Control', NEW t \in Sessions, ~InInsert(t)', pc'[t] # "select"
  PROVE  Numbering(t)' /\ Viewed(t)'
BY DEF Control, ControlOf, Numbering, Viewed

\* The steps that end a statement, and those between statements.
LEMMA NoStatementAfter ==
  ASSUME Types, Control, NEW s \in Sessions, EndInsert(s) \/ EndSelect(s) \/ Transaction(s)
  PROVE  ~InInsert(s)' /\ pc'[s] # "select"
<1>1. CASE EndInsert(s)
  <2>1. CASE StartFlush(s, pending[s], "ready")
    <3>1. pending[s] \in SUBSET Row
      BY DEF Types
    <3>2. flush'[s].then = "ready" /\ pc'[s] = "flush"
      BY <2>1, <3>1, StartFlushTyped DEF Types
    <3> QED
      BY <3>2 DEF InInsert
  <2>2. CASE Goto(s, "ready")
    BY <2>2 DEF Goto, InInsert, Types
  <2> QED
    BY <1>1, <2>1, <2>2 DEF EndInsert
<1>2. CASE EndSelect(s)
  BY <1>2 DEF EndSelect, Goto, InInsert, Types
<1>3. CASE PreCommit(s)
  <2>1. CASE StartFlush(s, pending[s], "commit")
    <3>1. pending[s] \in SUBSET Row
      BY DEF Types
    <3>2. flush'[s].then = "commit" /\ pc'[s] = "flush"
      BY <2>1, <3>1, StartFlushTyped DEF Types
    <3> QED
      BY <3>2 DEF InInsert
  <2>2. CASE Goto(s, "commit")
    BY <2>2 DEF Goto, InInsert, Types
  <2> QED
    BY <1>3, <2>1, <2>2 DEF PreCommit
<1>4. CASE Begin(s) \/ Commit(s) \/ Savepoint(s) \/ Release(s) \/ RollbackTo(s)
  BY <1>4 DEF Begin, Commit, Savepoint, Release, RollbackTo, Goto, InInsert, Types
<1>5. CASE Abort(s)
  BY <1>5 DEF Abort, Forget, InInsert
<1> QED
  BY <1>1, <1>2, <1>3, <1>4, <1>5 DEF Transaction

\* Scanned for the session that steps: inserting a row ...
LEMMA ScannedPush ==
  ASSUME Types, Types', Control, Control', Placed, Scanned, NEW s \in Sessions, PushRow(s)
  PROVE  Numbering(s)' /\ Viewed(s)'
<1>1. /\ stmt[s] \in Insert /\ InInsert(s) /\ NextRow(s).stmt = stmt[s].id /\ stmt[s].left > 0
      /\ pc[s] = "insert"
  BY NextRowNew DEF PushRow
<1>2. stmt' = [stmt EXCEPT ![s].left = @ - 1, ![s].next = @ + 1]
  BY DEF PushRow
<1>3. /\ stmt'[s].id = stmt[s].id /\ stmt'[s].self = stmt[s].self
      /\ stmt'[s].left = stmt[s].left - 1 /\ stmt'[s].next = stmt[s].next + 1
  BY <1>1, <1>2 DEF Types, Insert
<1>4. Copied(s)' = Copied(s)
  BY <1>1, <1>3 DEF Copied, Insert
<1>5. Held(s)' = Held(s) \cup {NextRow(s)} /\ Held(s) = pending[s]
  BY <1>1, HeldPush, NoFlushRows DEF Held, Control, ControlOf
<1>6. pending'[s] \subseteq pending[s] \cup {NextRow(s)}
  BY <1>5 DEF Held
<1>7. Older(s)' \subseteq Older(s)
  BY <1>1, <1>3, <1>6 DEF Older
<1>8. /\ scan'[s] = scan[s] /\ stripes \subseteq stripes' /\ mine[s] \subseteq mine'[s] /\ Grown
  BY StepGrows DEF PushRow, Statement
<1>9. pc'[s] # "select"
  <2>1. pc'[s] \in {"flush", "insert"}
    BY <1>1 DEF PushRow, StartFlush, Goto, Types
  <2> QED
    BY <2>1
<1> QED
  BY <1>1, <1>3, <1>4, <1>7, <1>8, <1>9, ScannedKept DEF Scanned

\* The steps that write a stripe touch the file and the counters only.
LEMMA WritingFrame ==
  ASSUME NEW s \in Sessions, Writing(s)
  PROVE  /\ UNCHANGED <<stripes, mine, pending, stmt, scan, pc, subs, kept, durable>>
         /\ UNCHANGED <<inserts, scans, crashes>> /\ pc[s] = "flush"
<1>1. CASE WriteChunkPage(s)
  BY <1>1, Zenon DEF WriteChunkPage, Flushing
<1>2. CASE ReserveRows(s)
  BY <1>2, Zenon DEF ReserveRows, Flushing
<1>3. CASE ReserveStripe(s)
  BY <1>3, Zenon DEF ReserveStripe, Flushing
<1>4. CASE WriteDirectory(s)
  BY <1>4, Zenon DEF WriteDirectory, Flushing
<1>5. CASE WriteHeader(s)
  BY <1>5, Zenon DEF WriteHeader, Flushing
<1> QED
  BY <1>1, <1>2, <1>3, <1>4, <1>5 DEF Writing

\* ... flushing ...
LEMMA ScannedFlush ==
  ASSUME Types, Types', Control, Control', Placed, Scanned, NEW s \in Sessions,
         FlushStep(s) \/ FlushFirst(s)
  PROVE  Numbering(s)' /\ Viewed(s)'
<1>0. Writing(s) \/ Publish(s) \/ FlushFirst(s)
  BY Zenon DEF FlushStep, Writing
<1>1. /\ UNCHANGED <<stmt, scan, stripes, inserts>> /\ inserts \in Nat /\ Grown
  <2>1. inserts \in Nat
    BY BoundAssumption DEF Types
  <2>2. Grown
    BY StepGrows DEF Statement
  <2>3. CASE Writing(s)
    BY <2>1, <2>2, <2>3, WritingFrame
  <2>4. CASE Publish(s)
    BY <2>1, <2>2, <2>4, PublishFacts
  <2>5. CASE FlushFirst(s)
    BY <2>1, <2>2, <2>5 DEF FlushFirst
  <2> QED
    BY <1>0, <2>3, <2>4, <2>5
<1>2. InInsert(s)' => InInsert(s)
  <2>1. FlushStep(s) \/ Statement(s)
    BY DEF Statement
  <2>2. inserts' # inserts + 1
    BY <1>1
  <2> QED
    BY <2>1, <2>2, InsertAfter
<1>3. mine[s] \subseteq mine'[s]
  <2>1. CASE Publish(s)
    BY <2>1, PublishFacts
  <2>2. CASE Writing(s)
    BY <2>2, WritingFrame
  <2>3. CASE FlushFirst(s)
    BY <2>3 DEF FlushFirst
  <2> QED
    BY <1>0, <2>1, <2>2, <2>3
<1>4. pc'[s] # "select"
  <2>1. CASE Publish(s)
    <3>1. flush[s].then # "select"
      BY <2>1, PublishFacts DEF Flush
    <3> QED
      BY <2>1, <3>1 DEF Publish, Goto, Types
  <2>2. CASE FlushFirst(s)
    BY <2>2 DEF FlushFirst, StartFlush, Goto, Types
  <2>3. CASE Writing(s)
    BY <2>3, WritingFrame
  <2> QED
    BY <1>0, <2>1, <2>2, <2>3
<1>5. pending'[s] \subseteq pending[s]
  <2>1. CASE FlushFirst(s)
    BY <2>1 DEF FlushFirst, StartFlush, Types
  <2>2. CASE Writing(s)
    BY <2>2, WritingFrame
  <2>3. CASE Publish(s)
    BY <2>3, PublishFacts
  <2> QED
    BY <1>0, <2>1, <2>2, <2>3
<1>6. Copied(s)' = Copied(s) /\ Older(s)' \subseteq Older(s)
  BY <1>1, <1>5 DEF Copied, Older
<1> QED
  BY <1>1, <1>2, <1>3, <1>4, <1>6, ScannedKept DEF Scanned

\* ... starting a statement ...
LEMMA ScannedStart ==
  ASSUME Types, Types', Control, Control', Placed, StripesApart, HeldApart, NEW s \in Sessions,
         Starting(s)
  PROVE  Numbering(s)' /\ Viewed(s)'
<1>1. CASE \E n \in 1 .. MaxStmtRows, size \in {1, Budget + 1}, bulk \in BOOLEAN :
             StartInsert(s, n, size, bulk)
  <2>1. PICK n \in 1 .. MaxStmtRows, size \in {1, Budget + 1}, bulk \in BOOLEAN :
          StartInsert(s, n, size, bulk)
    BY <1>1
  <2>2. stmt'[s] = [id |-> inserts + 1, next |-> 1, left |-> n, size |-> size, bulk |-> bulk,
                    self |-> FALSE]
    BY <2>1 DEF StartInsert, Types
  <2>3. ~stmt'[s].self /\ Copied(s)' = n /\ n \in Nat
    BY <2>2, BoundAssumption DEF Copied
  <2>4. scan'[s] = scan[s] /\ ~scan[s].open /\ pc'[s] = "insert"
    BY <2>1 DEF StartInsert, Goto, Types
  <2> QED
    BY <2>3, <2>4 DEF Numbering, Viewed
<1>2. CASE StartSelect(s) \/ StartSelfInsert(s)
  <2>1. /\ BeginScan(s) /\ UNCHANGED <<pages, stripes, mine, pending, flush>> /\ pc[s] = "ready"
    BY <1>2 DEF StartSelect, StartSelfInsert
  <2>2. /\ scan'[s].todo = stripes \cup mine[s] /\ scan'[s].out = {} /\ scan'[s].view = Visible(s)
        /\ ~scan'[s].done
    <3>1. scan'[s] = [open |-> TRUE, done |-> FALSE, todo |-> stripes \cup mine[s],
                      out |-> {}, view |-> Visible(s)]
      BY <2>1, BeginScanTyped
    <3> QED
      BY <3>1
  <2>3. PICK T : T = stripes \cup mine[s]
    OBVIOUS
  <2>4. RowsOf(scan[s].todo)' = RowsOf(T)
    <3>1. RowsOf(T)' = RowsOf(T)
      BY <2>1 DEF RowsOf, Decode
    <3> QED
      BY <2>2, <2>3, <3>1 DEF RowsOf
  <2>5. Visible(s) = RowsOf(T) \cup pending[s]
    <3>1. flush[s].rows = {}
      BY <2>1, NoFlushRows DEF Control, ControlOf
    <3> QED
      BY <2>3, <3>1 DEF Visible, OwnRows, RowsOf
  <2>6. scan'[s].todo \subseteq stripes' \cup mine'[s]
    BY <2>1, <2>2
  <2>7. pending'[s] = pending[s]
    BY <2>1
  <2>8. Viewed(s)'
    BY <2>2, <2>4, <2>5, <2>6, <2>7 DEF Viewed
  <2>9. CASE StartSelect(s)
    <3>1. ~InInsert(s)'
      BY <2>9 DEF StartSelect, Goto, InInsert, Types
    <3> QED
      BY <2>8, <3>1 DEF Numbering
  <2>10. CASE StartSelfInsert(s)
    <3>1. stmt'[s] = [id |-> inserts + 1, next |-> 1, left |-> 0, size |-> 1, bulk |-> FALSE,
                      self |-> TRUE]
      BY <2>10 DEF StartSelfInsert, Types
    <3>2. stmt'[s].self /\ Copied(s)' = 0
      BY <3>1 DEF Copied
    <3>3. 2 * Cardinality(scan'[s].view) <= MaxCopied
      BY <2>2, <2>10 DEF StartSelfInsert
    <3>4. RowsOf(T) \cap pending[s] = {}
      <4>1. T \subseteq Published
        BY <2>3 DEF Published
      <4> QED
        BY <4>1 DEF HeldApart, Held, RowsOf
    <3>5. Older(s)' \subseteq pending[s] /\ pending[s] \in SUBSET Row
      BY <2>7 DEF Older, Types
    <3>6. RowsOf(T) \in SUBSET Row
      BY <2>3, VisibleTyped DEF Published
    <3>7. Cardinality(RowsOf(T)) + Cardinality(Older(s)') <= Cardinality(Visible(s))
      <4>1. Older(s)' \in SUBSET Row
        BY <3>5
      <4>2. Cardinality(Older(s)') <= Cardinality(pending[s])
        BY <3>5, <4>1, RowsUnion
      <4>3. Cardinality(Visible(s)) = Cardinality(RowsOf(T)) + Cardinality(pending[s])
        BY <2>5, <3>4, <3>5, <3>6, RowsUnion
      <4> QED
        BY <3>5, <3>6, <4>1, <4>2, <4>3, RowsFinite
    <3>8. Cardinality(RowsOf(T)) \in Nat /\ Cardinality(Older(s)') \in Nat
      BY <3>5, <3>6, RowsFinite
    <3>9. Copied(s)' + Cardinality(RowsOf(scan[s].todo)') + Cardinality(Older(s)')
            <= Cardinality(scan'[s].view)
      BY <2>2, <2>4, <3>2, <3>7, <3>8
    <3>10. Copied(s)' <= MaxCopied
      BY <3>2, BoundAssumption
    <3> QED
      BY <2>8, <3>2, <3>3, <3>9, <3>10 DEF Numbering
  <2> QED
    BY <1>2, <2>9, <2>10
<1> QED
  BY <1>1, <1>2 DEF Starting

\* ... reading a stripe, which moves its rows from the list to the answer ...
LEMMA FetchStripeScanned ==
  ASSUME Types, Types', Control, Placed, Scanned, StripesApart, NEW s \in Sessions, FetchStripe(s)
  PROVE  Numbering(s)' /\ Viewed(s)'
<1>0. PICK st \in scan[s].todo : Deliver(s, Decode(st), scan[s].todo \ {st}, FALSE)
  BY DEF FetchStripe
<1>1. /\ Wanted(s) /\ scan[s].open /\ ~scan[s].done /\ UNCHANGED <<pages, stripes, mine, pending, pc, flush>>
  BY <1>0 DEF FetchStripe, Wanted, Deliver
<1>2. /\ scan[s].todo \subseteq Published /\ scan[s] \in Scan
      /\ \A S \in SUBSET scan[s].todo : RowsOf(S) \in SUBSET Row
      /\ scan[s].todo \subseteq stripes \cup mine[s]
  BY <1>1, TodoRows DEF Scanned, Viewed
<1> DEFINE D == Decode(st)
           rest == scan[s].todo \ {st}
<1>3. D \in SUBSET Row /\ rest \in SUBSET Stripe
  BY <1>2, PublishedLaid DEF Scan
<1>a. ~scan'[s].done
  BY <1>0, <1>2 DEF Deliver, Types, Scan
<1>4. /\ scan[s] \in Scan /\ ~scan'[s].done /\ scan'[s].todo = rest
      /\ scan'[s].out = scan[s].out \cup D /\ scan'[s].view = scan[s].view
      /\ pc[s] = "insert" => /\ stmt[s] \in Insert
                             /\ stmt'[s] = [stmt[s] EXCEPT !.left = Cardinality(D)]
  <2>1. /\ scan'[s].todo = rest /\ scan'[s].out = scan[s].out \cup D
        /\ scan'[s].view = scan[s].view
    BY <1>0, <1>2 DEF Deliver, Types, Scan
  <2>2. pc[s] = "insert" => /\ stmt[s] \in Insert
                            /\ stmt'[s] = [stmt[s] EXCEPT !.left = Cardinality(D)]
    <3> HIDE DEF D, rest
    <3>1. Deliver(s, D, rest, FALSE)
      BY <1>0 DEF D, rest
    <3> QED
      BY <1>1, <1>3, <3>1, DeliverTyped
  <2> QED
    BY <1>2, <1>a, <2>1, <2>2
<1>5. RowsOf(scan[s].todo) = D \cup RowsOf(rest)
  BY DEF RowsOf
<1>6. RowsOf(scan[s].todo)' = RowsOf(rest)
  BY <1>1, <1>4 DEF RowsOf, Decode
<1>7. RowsOf(rest) \in SUBSET Row
  BY <1>2
<1>8. D \cap RowsOf(rest) = {}
  BY <1>2, ApartRows DEF RowsOf
<1> HIDE DEF D, rest
<1>9. Viewed(s)'
  <2>1. scan'[s].todo \subseteq stripes' \cup mine'[s]
    BY <1>1, <1>2, <1>4 DEF rest
  <2>2. pc'[s] = "select" => scan[s].view = scan[s].out \cup (RowsOf(scan[s].todo) \cup pending[s])
    BY <1>1 DEF Scanned, Viewed
  <2>3. pending'[s] = pending[s]
    BY <1>1
  <2>4. pc'[s] = "select" => scan'[s].view = scan'[s].out \cup (RowsOf(scan[s].todo)' \cup pending'[s])
    BY <1>4, <1>5, <1>6, <2>2, <2>3
  <2> QED
    BY <1>4, <2>1, <2>4 DEF Viewed
<1>10. Numbering(s)'
  <2> SUFFICES ASSUME InInsert(s)' PROVE Numbering(s)'
    BY DEF Numbering
  <2>1. pc[s] = "insert" /\ InInsert(s) /\ stmt[s].self /\ stmt[s].left = 0
    <3>1. pc[s] = "select" \/ (pc[s] = "insert" /\ stmt[s].self /\ stmt[s].left = 0)
      BY <1>1 DEF Wanted
    <3>2. pc'[s] = pc[s]
      BY <1>1
    <3> QED
      BY <3>1, <3>2 DEF InInsert
  <2>2. /\ stmt[s] \in Insert /\ stmt'[s].self = stmt[s].self /\ stmt'[s].left = Cardinality(D)
        /\ stmt'[s].next = stmt[s].next /\ stmt'[s].id = stmt[s].id
    BY <1>4, <2>1 DEF Insert
  <2>3. Older(s)' = Older(s) /\ Older(s) \in SUBSET Row
    BY <1>1, <2>2 DEF Older, Types
  <2>4. stmt[s].next - 1 \in Nat /\ Copied(s) = stmt[s].next - 1
    BY <2>1, <2>2 DEF Copied, Insert
  <2>5. /\ Copied(s) + Cardinality(RowsOf(scan[s].todo)) + Cardinality(Older(s))
             <= Cardinality(scan[s].view)
        /\ 2 * Cardinality(scan[s].view) <= MaxCopied
    BY <1>1, <2>1 DEF Scanned, Numbering
  <2>6. Cardinality(RowsOf(scan[s].todo)) = Cardinality(D) + Cardinality(RowsOf(rest))
    BY <1>3, <1>5, <1>7, <1>8, RowsUnion
  <2>7. /\ Cardinality(D) \in Nat /\ Cardinality(RowsOf(rest)) \in Nat /\ Cardinality(Older(s)) \in Nat
        /\ Cardinality(scan[s].view) \in Nat
    BY <1>3, <1>7, <2>3, <1>4, RowsFinite DEF Scan
  <2>8. Copied(s)' = Copied(s) + Cardinality(D)
    BY <2>2, <2>4, <2>7 DEF Copied
  <2>9. \A n, d, r, o, v, m \in Nat : n + (d + r) + o <= v /\ 2 * v <= m =>
           n + d + r + o <= v /\ n + d <= m
    OBVIOUS
  <2>10. /\ Copied(s)' + Cardinality(RowsOf(rest)) + Cardinality(Older(s)) <= Cardinality(scan[s].view)
         /\ Copied(s)' <= MaxCopied
    BY <2>4, <2>5, <2>6, <2>7, <2>8, <2>9, BoundAssumption
  <2> QED
    BY <1>4, <1>6, <2>1, <2>2, <2>3, <2>5, <2>10 DEF Numbering
<1> QED
  BY <1>9, <1>10

\* ... and reading the buffer.
LEMMA FetchPendingScanned ==
  ASSUME Types, Types', Control, Placed, Scanned, Fresh, NEW s \in Sessions, FetchPending(s)
  PROVE  Numbering(s)' /\ Viewed(s)'
<1>1. /\ Wanted(s) /\ scan[s].open /\ ~scan[s].done /\ scan[s].todo = {}
      /\ UNCHANGED <<pages, stripes, mine, pending, pc, flush>>
      /\ Deliver(s, pending[s], {}, TRUE)
  BY DEF FetchPending, Wanted, Deliver
<1>2. pending[s] \in SUBSET Row /\ {} \in SUBSET Stripe
  BY DEF Types
<1>a. scan[s] \in Scan
  BY <1>1 DEF Types, NoScan
<1>b. scan'[s].done
  BY <1>1, <1>a DEF Deliver, Types, Scan
<1>3. /\ scan[s] \in Scan /\ scan'[s].done /\ scan'[s].todo = {}
      /\ scan'[s].out = scan[s].out \cup pending[s] /\ scan'[s].view = scan[s].view
      /\ pc[s] = "insert" => /\ stmt[s] \in Insert
                             /\ stmt'[s] = [stmt[s] EXCEPT !.left = Cardinality(pending[s])]
  <2>1. /\ scan'[s].todo = {} /\ scan'[s].out = scan[s].out \cup pending[s]
        /\ scan'[s].view = scan[s].view
    BY <1>1, <1>a DEF Deliver, Types, Scan
  <2>2. pc[s] = "insert" => /\ stmt[s] \in Insert
                            /\ stmt'[s] = [stmt[s] EXCEPT !.left = Cardinality(pending[s])]
    BY <1>1, <1>2, DeliverTyped
  <2> QED
    BY <1>a, <1>b, <2>1, <2>2
<1>4. RowsOf(scan[s].todo) = {}
  BY <1>1 DEF RowsOf
<1>5. Viewed(s)'
  <2>1. pc'[s] = "select" => scan[s].view = scan[s].out \cup (RowsOf(scan[s].todo) \cup pending[s])
    BY <1>1 DEF Scanned, Viewed
  <2>2. pc'[s] = "select" => scan'[s].view = scan'[s].out \cup {}
    BY <1>3, <1>4, <2>1
  <2> QED
    BY <1>3, <2>2 DEF Viewed
<1>6. Numbering(s)'
  <2> SUFFICES ASSUME InInsert(s)' PROVE Numbering(s)'
    BY DEF Numbering
  <2>1. pc[s] = "insert" /\ InInsert(s) /\ stmt[s].self /\ stmt[s].left = 0
    <3>1. pc[s] = "select" \/ (pc[s] = "insert" /\ stmt[s].self /\ stmt[s].left = 0)
      BY <1>1 DEF Wanted
    <3>2. pc'[s] = pc[s]
      BY <1>1
    <3> QED
      BY <3>1, <3>2 DEF InInsert
  <2>2. /\ stmt[s] \in Insert /\ stmt'[s].self = stmt[s].self
        /\ stmt'[s].left = Cardinality(pending[s]) /\ stmt'[s].next = stmt[s].next
    BY <1>3, <2>1 DEF Insert
  <2>3. stmt[s].next - 1 \in Nat /\ Copied(s) = stmt[s].next - 1
    BY <2>1, <2>2 DEF Copied, Insert
  <2>4. /\ Copied(s) + Cardinality(RowsOf(scan[s].todo)) + Cardinality(Older(s))
             <= Cardinality(scan[s].view)
        /\ 2 * Cardinality(scan[s].view) <= MaxCopied
    BY <1>1, <2>1 DEF Scanned, Numbering
  <2> DEFINE Own == {r \in pending[s] : r.stmt = stmt[s].id}
  <2>5. Cardinality(Own) <= stmt[s].next - 1
    <3>1. Own \in SUBSET Row /\ stmt[s].next \in Nat \ {0}
      BY <1>2, <2>2 DEF Insert
    <3>2. \A r \in Own : r.stmt = stmt[s].id /\ r.nr < stmt[s].next /\ r.size = stmt[s].size
      BY <2>1 DEF Fresh, Held, Spent
    <3> HIDE DEF Own
    <3> QED
      BY <3>1, <3>2, OwnCounted
  <2>6. pending[s] = Own \cup Older(s) /\ Own \in SUBSET Row /\ Older(s) \in SUBSET Row
    BY <1>2 DEF Older
  <2> HIDE DEF Own
  <2>7. Cardinality(pending[s]) <= Cardinality(Own) + Cardinality(Older(s))
    BY <2>6, RowsUnion
  <2>8. /\ Cardinality(Own) \in Nat /\ Cardinality(Older(s)) \in Nat /\ Cardinality(pending[s]) \in Nat
        /\ Cardinality(scan[s].view) \in Nat /\ Cardinality(RowsOf(scan[s].todo)) = 0
    BY <1>2, <1>3, <1>4, <2>6, RowsFinite, FS_EmptySet DEF Scan
  <2>9. Copied(s)' = Copied(s) + Cardinality(pending[s])
    BY <2>2, <2>3, <2>8 DEF Copied
  <2>10. \A n, w, o, p, v, m \in Nat :
           n + 0 + o <= v /\ 2 * v <= m /\ p <= w + o /\ w <= n => n + p <= m
    OBVIOUS
  <2>11. Copied(s)' <= MaxCopied
    BY <2>3, <2>4, <2>5, <2>7, <2>8, <2>9, <2>10, BoundAssumption
  <2> QED
    BY <1>3, <2>1, <2>2, <2>4, <2>11 DEF Numbering
<1> QED
  BY <1>5, <1>6

\* Every step keeps Scanned.
LEMMA ScannedStep ==
  ASSUME Types, Types', Control, Control', Placed, StripesApart, HeldApart, Fresh, Scanned, [Next]_vars
  PROVE  Scanned'
<1>1. CASE Crash
  <2>1. \A t \in Sessions : ~InInsert(t)' /\ pc'[t] # "select"
    BY <1>1, CrashClears
  <2> QED
    BY <2>1, ScannedIdle DEF Scanned
<1>2. ASSUME NEW s \in Sessions, FlushStep(s) \/ Statement(s) \/ Transaction(s)
      PROVE  Scanned'
  <2>1. Numbering(s)' /\ Viewed(s)'
    <3>1. CASE FlushStep(s) \/ FlushFirst(s)
      BY <3>1, ScannedFlush
    <3>2. CASE PushRow(s)
      BY <3>2, ScannedPush
    <3>3. CASE Starting(s)
      BY <3>3, ScannedStart
    <3>4. CASE FetchStripe(s)
      BY <3>4, FetchStripeScanned
    <3>5. CASE FetchPending(s)
      BY <3>5, FetchPendingScanned
    <3>6. CASE EndInsert(s) \/ EndSelect(s) \/ Transaction(s)
      BY <3>6, NoStatementAfter, ScannedIdle
    <3> QED
      BY <1>2, <3>1, <3>2, <3>3, <3>4, <3>5, <3>6, Zenon DEF Statement, Starting
  <2>2. ASSUME NEW t \in Sessions, t # s PROVE Numbering(t)' /\ Viewed(t)'
    <3>1. /\ scan'[t] = scan[t] /\ stmt'[t] = stmt[t] /\ pending'[t] = pending[t] /\ pc'[t] = pc[t]
          /\ flush'[t] = flush[t] /\ mine'[t] = mine[t]
      BY <1>2, <2>2, StepOnly DEF Only
    <3>2. Grown
      BY <1>2, StepGrows
    <3>3. stripes \subseteq stripes'
      BY <1>2, MetaAfter, CommitFacts
    <3>4. InInsert(t)' => /\ InInsert(t) /\ stmt'[t].self = stmt[t].self
                          /\ Copied(t)' = Copied(t) /\ Older(t)' \subseteq Older(t)
      BY <3>1 DEF InInsert, Copied, Older
    <3> QED
      BY <3>1, <3>2, <3>3, <3>4, ScannedKept DEF Scanned
  <2> QED
    BY <2>1, <2>2 DEF Scanned
<1>3. CASE UNCHANGED vars
  <2>1. \A t \in Sessions : RowsOf(scan[t].todo)' = RowsOf(scan[t].todo)
    BY <1>3 DEF vars, RowsOf, Decode
  <2> QED
    BY <1>3, <2>1 DEF vars, Scanned, Numbering, Viewed, InInsert, Copied, Older
<1> QED
  BY <1>1, <1>2, <1>3 DEF Next

-----------------------------------------------------------------------------
(* The buffer stays within the budget.                                     *)

\* The bytes of a set of rows.
LEMMA BytesTyped ==
  ASSUME NEW R \in SUBSET Row
  PROVE  Bytes(R) \in Nat /\ Bytes({}) = 0
<1> DEFINE A == {r \in R : r.size = 1}
           C == {r \in R : r.size # 1}
<1>1. Cardinality(A) \in Nat /\ Cardinality(C) \in Nat
  <2>1. A \in SUBSET Row /\ C \in SUBSET Row
    OBVIOUS
  <2> HIDE DEF A, C
  <2> QED
    BY <2>1, RowsFinite
<1>2. Bytes(R) = Cardinality(A) + (Budget + 1) * Cardinality(C)
  BY DEF Bytes
<1>3. {r \in {} : r.size = 1} = {} /\ {r \in {} : r.size # 1} = {}
  OBVIOUS
<1>4. Bytes({}) = 0
  BY <1>3, FS_EmptySet, SizeAssumption DEF Bytes
<1> HIDE DEF A, C
<1>5. \A k, a, c \in Nat : a + k * c \in Nat
  OBVIOUS
<1>6. Budget + 1 \in Nat
  BY SizeAssumption
<1> QED
  BY <1>1, <1>2, <1>4, <1>5, <1>6

\* A row adds at most its size.
LEMMA BytesAdd ==
  ASSUME NEW R \in SUBSET Row, NEW r \in Row
  PROVE  Bytes(R \cup {r}) <= Bytes(R) + r.size
<1> DEFINE A == {q \in R : q.size = 1}
           C == {q \in R : q.size # 1}
           A1 == {q \in R \cup {r} : q.size = 1}
           C1 == {q \in R \cup {r} : q.size # 1}
<1>1. Bytes(R) = Cardinality(A) + (Budget + 1) * Cardinality(C)
  BY DEF Bytes
<1>2. Bytes(R \cup {r}) = Cardinality(A1) + (Budget + 1) * Cardinality(C1)
  BY DEF Bytes
<1>3. A \in SUBSET Row /\ C \in SUBSET Row /\ {r} \in SUBSET Row
  OBVIOUS
<1>4. r.size = 1 \/ r.size = Budget + 1
  BY DEF Row
<1>5. r.size = 1 => A1 = A \cup {r} /\ C1 = C
  OBVIOUS
<1>6. r.size # 1 => C1 = C \cup {r} /\ A1 = A
  OBVIOUS
<1> HIDE DEF A, C, A1, C1
<1>7. Cardinality(A) \in Nat /\ Cardinality(C) \in Nat /\ Budget + 1 \in Nat /\ Budget + 1 # 1
  BY <1>3, RowsFinite, SizeAssumption
<1>8. /\ IsFiniteSet(A) => Cardinality(A \cup {r}) = IF r \in A THEN Cardinality(A) ELSE Cardinality(A) + 1
      /\ IsFiniteSet(C) => Cardinality(C \cup {r}) = IF r \in C THEN Cardinality(C) ELSE Cardinality(C) + 1
  BY FS_AddElement
<1>9. Cardinality(A \cup {r}) <= Cardinality(A) + 1 /\ Cardinality(A \cup {r}) \in Nat
  BY <1>3, <1>7, <1>8, RowsFinite
<1>10. Cardinality(C \cup {r}) = Cardinality(C) \/ Cardinality(C \cup {r}) = Cardinality(C) + 1
  BY <1>3, <1>8, RowsFinite
<1>11. \A k, c \in Nat : k * (c + 1) = k * c + k /\ k * c \in Nat
  OBVIOUS
<1>12. CASE r.size = 1
  <2>1. (Budget + 1) * Cardinality(C) \in Nat
    BY <1>7, <1>11
  <2>2. \A a, b, x \in Nat : b <= a + 1 => b + x <= a + x + 1
    OBVIOUS
  <2> QED
    BY <1>1, <1>2, <1>5, <1>7, <1>9, <1>12, <2>1, <2>2
<1>13. CASE r.size = Budget + 1
  <2>1. /\ (Budget + 1) * Cardinality(C) \in Nat
        /\ (Budget + 1) * (Cardinality(C) + 1) = (Budget + 1) * Cardinality(C) + (Budget + 1)
    BY <1>7, <1>11
  <2>2. (Budget + 1) * Cardinality(C1) <= (Budget + 1) * Cardinality(C) + (Budget + 1)
    <3>1. C1 = C \cup {r}
      BY <1>6, <1>7, <1>13
    <3>2. CASE Cardinality(C1) = Cardinality(C)
      BY <1>7, <2>1, <3>2
    <3>3. CASE Cardinality(C1) = Cardinality(C) + 1
      <4>1. (Budget + 1) * Cardinality(C1) = (Budget + 1) * Cardinality(C) + (Budget + 1)
        BY <2>1, <3>3
      <4> QED
        BY <1>7, <2>1, <4>1
    <3> QED
      BY <1>10, <3>1, <3>2, <3>3
  <2>3. (Budget + 1) * Cardinality(C1) \in Nat
    <3>1. Cardinality(C1) \in Nat
      BY <1>6, <1>7, <1>10, <1>13
    <3> QED
      BY <1>7, <1>11, <3>1
  <2>4. \A a, x, y, k \in Nat : x <= y + k => a + x <= a + y + k
    OBVIOUS
  <2> QED
    BY <1>1, <1>2, <1>6, <1>7, <1>13, <2>1, <2>2, <2>3, <2>4
<1> QED
  BY <1>4, <1>12, <1>13

\* PushRow leaves a buffer within the budget, or flushes a row that exceeds it by itself.
LEMMA PushBounded ==
  ASSUME Types, Control, Scanned, Bounded, NEW s \in Sessions, PushRow(s)
  PROVE  /\ Bytes(pending'[s]) <= Budget
         /\ flush'[s] # NoFlush => Cardinality(flush'[s].rows) = 1
<1> DEFINE r == NextRow(s)
           rows == pending[s] \cup {r}
<1>1. r \in Row /\ pending[s] \in SUBSET Row /\ pc[s] = "insert" /\ flush[s] = NoFlush
  BY NextRowTyped DEF PushRow, Types, Control, ControlOf
<1>2. rows \in SUBSET Row
  BY <1>1
<1>3. ~Overflows(s, r)
  BY DEF PushRow
<1> HIDE DEF r
<1>4. Bytes(rows) \in Nat /\ Bytes(pending[s]) \in Nat /\ Bytes({}) = 0 /\ Budget \in Nat
  BY <1>1, <1>2, BytesTyped, SizeAssumption
<1>5. CASE Bytes(rows) > Budget /\ StartFlush(s, rows, "insert")
  <2>1. pending[s] = {}
    <3>1. r.size \in Nat
      BY <1>1, SizeAssumption DEF Row
    <3>2. pending[s] # {} => Bytes(pending[s]) + r.size <= Budget
      BY <1>3, <1>4, <3>1 DEF Overflows
    <3>3. Bytes(rows) <= Bytes(pending[s]) + r.size
      BY <1>1, BytesAdd
    <3> QED
      BY <1>4, <1>5, <3>1, <3>2, <3>3
  <2>2. rows = {r}
    BY <2>1
  <2>3. Cardinality({r}) = 1
    BY FS_Singleton
  <2>4. flush'[s].rows = rows /\ pending' = [pending EXCEPT ![s] = {}]
    BY <1>2, <1>5, StartFlushTyped
  <2>5. pending'[s] = {}
    BY <2>4 DEF Types
  <2> QED
    BY <1>4, <2>2, <2>3, <2>4, <2>5
<1>6. CASE Bytes(rows) <= Budget /\ pending' = [pending EXCEPT ![s] = rows] /\ UNCHANGED flush
  BY <1>1, <1>6 DEF Types
<1> QED
  BY <1>5, <1>6 DEF PushRow, r

\* No other step adds to the buffer.
LEMMA PendingAfter ==
  ASSUME Types, NEW s \in Sessions, FlushStep(s) \/ Statement(s) \/ Transaction(s), ~PushRow(s)
  PROVE  pending'[s] = pending[s] \/ pending'[s] = {}
<1>1. CASE Writing(s)
  BY <1>1, WritingFrame
<1>2. CASE FlushFirst(s) \/ EndInsert(s) \/ PreCommit(s)
  BY <1>2 DEF FlushFirst, EndInsert, PreCommit, StartFlush, Types
<1>3. CASE Abort(s)
  BY <1>3 DEF Abort, Forget
<1>4. CASE Starting(s) \/ Reading(s) \/ Marking(s)
  <2>1. CASE Starting(s)
    BY <2>1 DEF Starting, StartInsert, StartSelect, StartSelfInsert
  <2>2. CASE Reading(s)
    BY <2>2, Zenon DEF Reading, FetchStripe, FetchPending, Deliver, EndSelect
  <2>3. CASE Marking(s)
    BY <2>3 DEF Marking, Begin, Savepoint, Release
  <2> QED
    BY <1>4, <2>1, <2>2, <2>3
<1>5. CASE Publish(s) \/ Commit(s) \/ RollbackTo(s)
  BY <1>5 DEF Publish, Commit, RollbackTo
<1> QED
  BY <1>1, <1>2, <1>3, <1>4, <1>5, StepKinds, Zenon DEF Quiet, Buffering

\* Every step keeps Bounded.
LEMMA BoundedStep ==
  ASSUME Types, Types', Control, Control', Scanned, Placed, Bounded, [Next]_vars
  PROVE  Bounded'
<1>0. Bytes({}) = 0 /\ Budget \in Nat
  BY BytesTyped, SizeAssumption
<1>1. CASE Crash
  <2>1. \A t \in Sessions : pending'[t] = {} /\ flush'[t] = NoFlush
    BY <1>1 DEF Crash, Forget
  <2>2. \A t \in Sessions : Bytes(pending'[t]) = 0 /\ Bytes(flush'[t].rows) = 0
    BY <1>0, <2>1, NoFlushRows
  <2> QED
    BY <1>0, <2>2 DEF Bounded
<1>2. ASSUME NEW s \in Sessions, FlushStep(s) \/ Statement(s) \/ Transaction(s)
      PROVE  Bounded'
  <2>1. Bytes(pending'[s]) <= Budget
    <3>1. CASE PushRow(s)
      BY <3>1, PushBounded
    <3>2. CASE pending'[s] = pending[s]
      BY <3>2 DEF Bounded
    <3>3. CASE pending'[s] = {}
      <4>1. Bytes(pending'[s]) = 0
        BY <1>0, <3>3
      <4> QED
        BY <1>0, <4>1
    <3> QED
      BY <1>2, <3>1, <3>2, <3>3, PendingAfter
  <2>2. Bytes(flush'[s].rows) <= Budget \/ Cardinality(flush'[s].rows) = 1
    <3>1. CASE flush'[s] = NoFlush
      BY <1>0, <3>1, NoFlushRows
    <3>2. CASE flush'[s] # NoFlush /\ PushRow(s)
      BY <3>2, PushBounded
    <3>3. CASE flush'[s] # NoFlush /\ Quiet(s)
      <4>1. pending'[s] = {}
        BY <3>3 DEF Control, ControlOf
      <4>2. flush'[s].rows = Held(s)
        BY <3>3, <4>1, HeldQuiet DEF Held
      <4>3. CASE flush[s] = NoFlush
        <5>1. flush'[s].rows = pending[s]
          BY <4>2, <4>3, NoFlushRows DEF Held
        <5> QED
          BY <5>1 DEF Bounded
      <4>4. CASE flush[s] # NoFlush
        <5>1. flush'[s].rows = flush[s].rows
          BY <4>2, <4>4 DEF Held, Control, ControlOf
        <5> QED
          BY <5>1 DEF Bounded
      <4> QED
        BY <4>3, <4>4
    <3>4. Publish(s) \/ Abort(s) \/ RollbackTo(s) => flush'[s] = NoFlush
      BY DEF Publish, Abort, Forget, RollbackTo, Types
    <3>5. Commit(s) => flush'[s] = flush[s]
      BY DEF Commit
    <3> QED
      BY <1>2, <3>1, <3>2, <3>3, <3>4, <3>5, StepKinds DEF Bounded
  <2>3. \A t \in Sessions : t # s => pending'[t] = pending[t] /\ flush'[t] = flush[t]
    BY <1>2, StepOnly DEF Only
  <2> QED
    BY <2>1, <2>2, <2>3 DEF Bounded
<1>3. CASE UNCHANGED vars
  BY <1>3 DEF vars, Bounded
<1> QED
  BY <1>1, <1>2, <1>3 DEF Next

-----------------------------------------------------------------------------
(* The invariant.                                                          *)

\* The invariant holds initially ...
LEMMA Initially == Init => Inv
<1> SUFFICES ASSUME Init PROVE Inv
  OBVIOUS
<1>1. Types
  <2>1. meta \in Counters /\ meta.rows = 0 /\ meta.stripe = 0
    BY DEF Init, Counters
  <2>2. Len(pages) = 0 /\ pages \in Seq(Page)
    BY DEF Init
  <2>3. durable \in [pages : Nat, meta : Counters]
    BY <2>1, <2>2 DEF Init, AllWritten
  <2> QED
    BY <2>1, <2>2, <2>3, BoundAssumption DEF Init, Types
<1>2. /\ durable.pages = 0 /\ Len(pages) = 0 /\ durable.meta = meta
      /\ meta.rows = 0 /\ meta.stripe = 0 /\ stripes = {} /\ inserts = 0
  BY DEF Init, AllWritten
<1>3. \A s \in Sessions : /\ mine[s] = {} /\ pending[s] = {} /\ flush[s] = NoFlush
                          /\ stmt[s] = NoStmt /\ scan[s] = NoScan /\ pc[s] = "idle"
                          /\ subs[s] = <<>> /\ kept[s] = {}
  BY DEF Init
<1>4. Published = {} /\ \A s \in Sessions : Held(s) = {}
  BY <1>2, <1>3, NoFlushRows DEF Published, Held
<1>5. Control
  BY <1>3, BoundAssumption DEF Control, ControlOf, InInsert, NoScan
<1>6. Placed
  BY <1>2, <1>3 DEF Placed
<1>7. StripesApart /\ HeldApart
  BY <1>2, <1>3, <1>4 DEF StripesApart, HeldApart
<1>8. Reserved
  BY <1>2, <1>3 DEF Reserved, Ranged, Numbered
<1>9. Fresh
  BY <1>3, <1>4 DEF Fresh, InInsert
<1>10. Scanned
  BY <1>3 DEF Scanned, Numbering, Viewed, InInsert, NoScan
<1>11. Bounded
  <2>1. Bytes({}) = 0 /\ Budget \in Nat
    BY BytesTyped, SizeAssumption
  <2>2. \A s \in Sessions : Bytes(pending[s]) = 0 /\ Bytes(flush[s].rows) = 0
    BY <1>3, <2>1, NoFlushRows
  <2> QED
    BY <2>1, <2>2 DEF Bounded
<1> QED
  BY <1>1, <1>5, <1>6, <1>7, <1>8, <1>9, <1>10, <1>11 DEF Inv

\* ... every step keeps it ...
LEMMA Inductive == Inv /\ [Next]_vars => Inv'
<1> SUFFICES ASSUME Inv, [Next]_vars PROVE Inv'
  OBVIOUS
<1>0. /\ Types /\ Control /\ Placed /\ StripesApart /\ HeldApart /\ Reserved /\ Fresh /\ Scanned
      /\ Bounded
  BY DEF Inv
<1>1. Types'
  BY <1>0, TypesStep
<1>2. Control'
  BY <1>0, ControlStep
<1>3. Placed'
  BY <1>0, <1>1, PlacedStep
<1>4. StripesApart'
  BY <1>0, <1>1, StripesApartStep
<1>5. HeldApart'
  BY <1>0, <1>1, HeldApartStep
<1>6. Reserved'
  BY <1>0, <1>1, ReservedStep
<1>7. Fresh'
  BY <1>0, <1>1, <1>3, FreshStep
<1>8. Scanned'
  BY <1>0, <1>1, <1>2, ScannedStep
<1>9. Bounded'
  BY <1>0, <1>1, <1>2, BoundedStep
<1> QED
  BY <1>1, <1>2, <1>3, <1>4, <1>5, <1>6, <1>7, <1>8, <1>9 DEF Inv

\* ... so it always holds.
LEMMA Invariance == Spec => []Inv
<1>1. Init => Inv
  BY Initially
<1>2. Inv /\ [Next]_vars => Inv'
  BY Inductive
<1> QED
  BY <1>1, <1>2, PTL DEF Spec

-----------------------------------------------------------------------------
(* The theorems.                                                           *)

\* Every state is well typed: in particular a session buffers rows and flushes only inside
\* a transaction, and a flush names blocks that exist (TypeOK).
THEOREM TypeCorrect == Spec => []TypeOK
<1>1. Inv => TypeOK
  <2> SUFFICES ASSUME Inv PROVE TypeOK
    OBVIOUS
  <2>0. Types /\ Control /\ Placed
    BY DEF Inv
  <2>1. /\ pages \in Seq(Page) /\ meta \in [rows : Nat, stripe : Nat] /\ stripes \subseteq Stripe
        /\ mine \in [Sessions -> SUBSET Stripe] /\ pending \in [Sessions -> SUBSET Row]
        /\ kept \in [Sessions -> SUBSET Row]
        /\ pc \in [Sessions -> {"idle", "ready", "insert", "select", "flush", "commit"}]
    BY <2>0 DEF Types, Counters
  <2>2. ASSUME NEW s \in Sessions
        PROVE  /\ flush[s] # NoFlush <=> pc[s] = "flush"
               /\ flush[s] # NoFlush => flush[s].dir \in Blocks \cup {0}
               /\ Len(subs[s]) <= MaxDepth
               /\ pc[s] = "idle" => /\ pending[s] = {} /\ mine[s] = {} /\ ~scan[s].open
    <3>1. ControlOf(s)
      BY <2>0 DEF Control
    <3>2. flush[s] # NoFlush => flush[s].dir \in Blocks \cup {0}
      <4> SUFFICES ASSUME flush[s] # NoFlush PROVE flush[s].dir \in Blocks \cup {0}
        OBVIOUS
      <4>1. WrittenIn(pages, flush[s])
        BY <2>0 DEF Placed
      <4> QED
        BY <4>1 DEF WrittenIn, Blocks
    <3> QED
      BY <3>1, <3>2 DEF ControlOf, InInsert
  <2> QED
    BY <2>0, <2>1, <2>2 DEF TypeOK, Placed
<1> QED
  BY <1>1, Invariance, PTL

\* A backend holds at most maintenance_work_mem of rows, except for one row that is larger
\* by itself (PendingBounded), for every budget: accumulate_row flushes before it pushes.
THEOREM MemoryBounded == Spec => []PendingBounded
<1>1. Inv => PendingBounded
  <2> SUFFICES ASSUME Inv PROVE PendingBounded
    OBVIOUS
  <2>0. Bounded /\ Control
    BY DEF Inv
  <2>1. ASSUME NEW s \in Sessions
        PROVE  \/ Bytes(pending[s] \cup flush[s].rows) <= Budget
               \/ Cardinality(pending[s] \cup flush[s].rows) = 1
    <3>1. CASE flush[s] = NoFlush
      <4>1. pending[s] \cup flush[s].rows = pending[s]
        BY <3>1, NoFlushRows
      <4> QED
        BY <2>0, <4>1 DEF Bounded
    <3>2. CASE flush[s] # NoFlush
      <4>1. pending[s] \cup flush[s].rows = flush[s].rows
        BY <2>0, <3>2 DEF Control, ControlOf
      <4> QED
        BY <2>0, <4>1 DEF Bounded
    <3> QED
      BY <3>1, <3>2
  <2> QED
    BY <2>1 DEF PendingBounded
<1> QED
  BY <1>1, Invariance, PTL

\* Any two published stripes are apart.
LEMMA PublishedApart ==
  ASSUME StripesApart, NEW x \in Published, NEW y \in Published, x # y
  PROVE  Apart(x, y)
<1>1. CASE x \in stripes /\ y \in stripes
  BY <1>1 DEF StripesApart
<1>2. ASSUME NEW s \in Sessions, x \in mine[s], y \in stripes PROVE Apart(x, y)
  BY <1>2 DEF StripesApart
<1>3. ASSUME NEW s \in Sessions, y \in mine[s], x \in stripes PROVE Apart(x, y)
  BY <1>3, ApartSym DEF StripesApart
<1>4. ASSUME NEW s \in Sessions, NEW t \in Sessions, x \in mine[s], y \in mine[t] PROVE Apart(x, y)
  BY <1>4 DEF StripesApart
<1> QED
  BY <1>1, <1>2, <1>3, <1>4 DEF Published

\* Row numbers and stripe ids are never shared, whoever reserved them and whatever aborted
\* or crashed in between (ReservedDisjoint): the counters never fall below what a published
\* stripe or a flush in progress has been given.
THEOREM NumbersReserved == Spec => []ReservedDisjoint
<1>1. Inv => ReservedDisjoint
  BY PublishedApart DEF Inv, Apart, RangesApart, ReservedDisjoint
<1> QED
  BY <1>1, Invariance, PTL

\* If no two sessions can interleave the pages of a chunk, every stripe the catalog names
\* decodes to the rows it says, and no row is in two (CommittedReadable).  The hypothesis
\* is needed: write_chunk takes the relation-extension lock page by page (ColInterleave).
THEOREM StripesReadable ==
  ASSUME Undisturbed PROVE Spec => []CommittedReadable
<1>1. Inv => CommittedReadable
  <2> SUFFICES ASSUME Inv PROVE CommittedReadable
    OBVIOUS
  <2>0. Types /\ Placed /\ StripesApart
    BY DEF Inv
  <2>1. ASSUME NEW st \in Published PROVE Decodes(st) /\ Cardinality(Decode(st)) = st.count
    <3>1. LaidIn(pages, st, Len(pages)) /\ st.count = Cardinality(Decode(st))
      BY <2>0, PublishedLaid
    <3>a. PICK d : d = pages[st.header].dir
      OBVIOUS
    <3>b. PICK first : first = pages[d].first
      OBVIOUS
    <3>c. Decode(st) = pages[first[1]].rows /\ DecodeIn(pages, st) = Decode(st)
      BY <3>a, <3>b DEF Decode, DecodeIn
    <3>2. /\ st.header \in Blocks /\ pages[st.header].kind = "header"
          /\ d \in Blocks /\ pages[d].kind = "dir"
      BY <3>1, <3>a DEF LaidIn, Blocks
    <3>3. first \in [1 .. Columns -> Nat]
      <4>1. pages[d] \in Page
        BY <2>0, <3>2 DEF Types, Blocks
      <4> QED
        BY <3>2, <3>b, <4>1 DEF Page, Zeroed
    <3>4. \A c \in 1 .. Columns, p \in 1 .. ChunkPages :
             /\ first[c] + p - 1 \in Blocks
             /\ pages[first[c] + p - 1] = Chunk(Decode(st), c, p)
      <4>1. Sure = 1 .. ChunkPages
        BY DEF Sure
      <4>2. \A c \in 1 .. Columns, p \in Sure :
               /\ BlockIn(pages, d, c, p) \in Blocks
               /\ pages[BlockIn(pages, d, c, p)] = Chunk(Decode(st), c, p)
        BY <3>1, <3>a, <3>c DEF LaidIn, Blocks
      <4>3. \A c, p : BlockIn(pages, d, c, p) = first[c] + p - 1
        BY <3>b DEF BlockIn
      <4> QED
        BY <4>1, <4>2, <4>3
    <3>5. ASSUME NEW c \in 1 .. Columns
          PROVE  ReadsAsChunk(first[c], c) /\ pages[first[c]].rows = Decode(st)
      <4>1. 1 \in 1 .. ChunkPages
        BY SizeAssumption
      <4>2. pages[first[c]].rows = Decode(st)
        <5>1. first[c] + 1 - 1 = first[c]
          BY <3>3
        <5>2. pages[first[c]] = Chunk(Decode(st), c, 1)
          BY <3>4, <4>1, <5>1
        <5> QED
          BY <5>2 DEF Chunk
      <4>3. \A p \in 1 .. ChunkPages :
               /\ first[c] + p - 1 \in Blocks /\ pages[first[c] + p - 1].kind = "chunk"
               /\ pages[first[c] + p - 1].col = c /\ pages[first[c] + p - 1].part = p
               /\ pages[first[c] + p - 1].rows = Decode(st)
        <5> SUFFICES ASSUME NEW p \in 1 .. ChunkPages
                     PROVE  /\ first[c] + p - 1 \in Blocks
                            /\ pages[first[c] + p - 1].kind = "chunk"
                            /\ pages[first[c] + p - 1].col = c /\ pages[first[c] + p - 1].part = p
                            /\ pages[first[c] + p - 1].rows = Decode(st)
          OBVIOUS
        <5>1. first[c] + p - 1 \in Blocks /\ pages[first[c] + p - 1] = Chunk(Decode(st), c, p)
          BY <3>4
        <5>2. \A R : /\ Chunk(R, c, p).kind = "chunk" /\ Chunk(R, c, p).col = c
                     /\ Chunk(R, c, p).part = p /\ Chunk(R, c, p).rows = R
          BY DEF Chunk
        <5> QED
          BY <5>1, <5>2
      <4> QED
        BY <4>2, <4>3 DEF ReadsAsChunk
    <3>6. \A c \in 1 .. Columns : /\ ReadsAsChunk(pages[d].first[c], c)
                                  /\ pages[pages[d].first[c]].rows = pages[pages[d].first[1]].rows
      BY <3>5, <3>b, <3>c
    <3> QED
      BY <3>1, <3>2, <3>6, <3>a DEF Decodes
  <2>2. \A s, t \in Published : s # t => Decode(s) \cap Decode(t) = {}
    BY <2>0, PublishedApart DEF Apart
  <2> QED
    BY <2>1, <2>2 DEF CommittedReadable
<1> QED
  BY <1>1, Invariance, PTL

-----------------------------------------------------------------------------
(* What a step does to the rows of the table and of a transaction.         *)

\* A row of a set of stripes is a row of one of them, before a step and after it.
LEMMA RowsOfMember ==
  ASSUME NEW r
  PROVE  /\ \A T : r \in RowsOf(T) <=> \E x \in T : r \in Decode(x)
         /\ \A t \in Sessions : r \in RowsOf(mine[t])' <=> \E x \in mine'[t] : r \in Decode(x)'
         /\ r \in RowsOf(stripes)' <=> \E x \in stripes' : r \in Decode(x)'
<1>1. \A T : r \in RowsOf(T) <=> \E x \in T : r \in Decode(x)
  BY DEF RowsOf
<1>2. \A t \in Sessions : r \in RowsOf(mine[t])' <=> \E x \in mine'[t] : r \in Decode(x)'
  BY DEF RowsOf
<1>3. r \in RowsOf(stripes)' <=> \E x \in stripes' : r \in Decode(x)'
  BY DEF RowsOf
<1> QED
  BY <1>1, <1>2, <1>3

\* The steps that insert, publish and roll back nothing leave the catalog and the debt alone.
LEMMA QuietFrame ==
  ASSUME NEW s \in Sessions, Quiet(s) \/ PushRow(s)
  PROVE  /\ stripes' = stripes /\ (mine' = mine \/ Release(s))
         /\ Quiet(s) => kept' = kept
<1>1. CASE Writing(s)
  BY <1>1, WritingFrame
<1>2. CASE Starting(s)
  BY <1>2, Zenon DEF Starting, StartInsert, StartSelect, StartSelfInsert
<1>3. CASE Reading(s)
  BY <1>3, Zenon DEF Reading, FetchStripe, FetchPending, Deliver, EndSelect
<1>4. CASE Buffering(s)
  BY <1>4, Zenon DEF Buffering, FlushFirst, EndInsert, PreCommit
<1>5. CASE Marking(s)
  BY <1>5, Zenon DEF Marking, Begin, Savepoint, Release
<1>6. CASE PushRow(s) /\ ~Quiet(s)
  BY <1>6, Zenon DEF PushRow
<1> QED
  BY <1>1, <1>2, <1>3, <1>4, <1>5, <1>6, Zenon DEF Quiet

\* Such steps keep the rows of a transaction's stripes.
LEMMA MineRows ==
  ASSUME Types, Types', Placed, Control, NEW s \in Sessions, Quiet(s) \/ PushRow(s)
  PROVE  RowsOf(mine[s])' = RowsOf(mine[s])
<1>0. \A x \in mine[s] : Decode(x)' = Decode(x)
  <2>1. Grown
    BY KindSteps, StepGrows
  <2> QED
    BY <2>1, PublishedKept DEF Published
<1>1. Carried /\ (mine' = mine \/ Release(s))
  BY CarriedStep, QuietFrame
<1>2. ASSUME NEW r, r \in RowsOf(mine[s])' PROVE r \in RowsOf(mine[s])
  <2>1. PICK x \in mine'[s] : r \in Decode(x)'
    BY <1>2, RowsOfMember
  <2>2. PICK y \in mine[s] : CarriedOne(x, y)
    BY <1>1 DEF Carried
  <2>3. r \in Decode(y)
    BY <2>1, <2>2 DEF CarriedOne
  <2> QED
    BY <2>3, RowsOfMember
<1>3. ASSUME NEW r, r \in RowsOf(mine[s]) PROVE r \in RowsOf(mine[s])'
  <2>1. PICK y \in mine[s] : r \in Decode(y)
    BY <1>3, RowsOfMember
  <2>2. r \in Decode(y)'
    BY <1>0, <2>1
  <2>3. CASE mine' = mine
    BY <2>1, <2>2, <2>3, RowsOfMember
  <2>4. CASE Release(s)
    <3> DEFINE depth == Len(subs[s])
               one(st) == IF st.sub = depth THEN [st EXCEPT !.sub = depth - 1] ELSE st
    <3>1. mine' = [mine EXCEPT ![s] = {one(st) : st \in @}]
      BY <2>4 DEF Release
    <3>2. mine'[s] = {one(st) : st \in mine[s]}
      BY <3>1 DEF Types
    <3>3. one(y) \in mine'[s]
      BY <2>1, <3>2
    <3>4. y \in Stripe
      BY <2>1 DEF Types
    <3>5. one(y).header = y.header
      BY <3>4 DEF Stripe
    <3> HIDE DEF one
    <3>6. PICK z : z = one(y)
      OBVIOUS
    <3>7. Decode(z)' = Decode(y)'
      BY <3>5, <3>6 DEF Decode
    <3> QED
      BY <2>2, <3>3, <3>6, <3>7, RowsOfMember
  <2> QED
    BY <1>1, <2>3, <2>4
<1> QED
  BY <1>2, <1>3

\* The stripes of a session that publishes gain the rows it flushed.
LEMMA PublishRows ==
  ASSUME Types, Placed, NEW s \in Sessions, Publish(s)
  PROVE  RowsOf(mine[s])' = RowsOf(mine[s]) \cup flush[s].rows
<1>a. PICK new : new = NewStripe(s)
  OBVIOUS
<1>0. /\ mine'[s] = mine[s] \cup {new} /\ \A x : Decode(x)' = Decode(x)
      /\ Decode(new)' = flush[s].rows
  BY <1>a, PublishFacts DEF CarriedOne
<1>1. ASSUME NEW r, r \in RowsOf(mine[s])' PROVE r \in RowsOf(mine[s]) \cup flush[s].rows
  <2>1. PICK x \in mine'[s] : r \in Decode(x)'
    BY <1>1, RowsOfMember
  <2>2. CASE x \in mine[s]
    <3>1. r \in Decode(x)
      BY <1>0, <2>1
    <3> QED
      BY <2>2, <3>1, RowsOfMember
  <2>3. CASE x = new
    BY <1>0, <2>1, <2>3
  <2> QED
    BY <1>0, <2>2, <2>3
<1>2. ASSUME NEW r, r \in RowsOf(mine[s]) PROVE r \in RowsOf(mine[s])'
  <2>1. PICK x \in mine[s] : r \in Decode(x)
    BY <1>2, RowsOfMember
  <2> QED
    BY <1>0, <2>1, RowsOfMember
<1>3. ASSUME NEW r, r \in flush[s].rows PROVE r \in RowsOf(mine[s])'
  <2>1. new \in mine'[s] /\ r \in Decode(new)'
    BY <1>0, <1>3
  <2> QED
    BY <2>1, RowsOfMember
<1> QED
  BY <1>1, <1>2, <1>3

\* A commit moves the rows of its transaction to the table.
LEMMA CommitRows ==
  ASSUME Types, Control, NEW s \in Sessions, Commit(s)
  PROVE  /\ RowsOf(stripes)' = RowsOf(stripes) \cup OwnRows(s)
         /\ OwnRows(s)' = {}
<1>0. /\ stripes' = stripes \cup {Committed(st) : st \in mine[s]}
      /\ mine'[s] = {}
      /\ \A x : CarriedOne(x, x) /\ CarriedOne(Committed(x), x)
  BY CommitFacts
<1>a. (\A x : Decode(x)' = Decode(x)) /\ (\A x : Decode(Committed(x))' = Decode(x))
  BY <1>0 DEF CarriedOne
<1>1. Held(s) = {} /\ Held(s)' = {}
  BY HeldCommit
<1>2. OwnRows(s) = RowsOf(mine[s])
  BY <1>1 DEF OwnRows, Held
<1>3. OwnRows(s)' = {}
  <2>1. RowsOf(mine[s])' = {}
    BY <1>0 DEF RowsOf
  <2> QED
    BY <1>1, <2>1 DEF OwnRows, Held
<1>4. ASSUME NEW r, r \in RowsOf(stripes)' PROVE r \in RowsOf(stripes) \cup RowsOf(mine[s])
  <2>1. PICK x \in stripes' : r \in Decode(x)'
    BY <1>4, RowsOfMember
  <2>2. CASE x \in stripes
    BY <1>a, <2>1, <2>2, RowsOfMember
  <2>3. CASE x \in {Committed(st) : st \in mine[s]}
    <3>1. PICK y \in mine[s] : x = Committed(y)
      BY <2>3
    <3>2. r \in Decode(y)
      <4>1. \A z : z = Committed(y) => Decode(z)' = Decode(y)
        <5>1. DecodeIn(pages', Committed(y)) = DecodeIn(pages', y)
          BY DEF DecodeIn, Committed
        <5>2. \A z : z = Committed(y) => DecodeIn(pages', z) = DecodeIn(pages', y)
          BY <5>1
        <5> QED
          BY <1>a, <5>2 DEF Decode, DecodeIn
      <4> QED
        BY <2>1, <3>1, <4>1
    <3> QED
      BY <3>2, RowsOfMember
  <2> QED
    BY <1>0, <2>2, <2>3
<1>5. ASSUME NEW r, r \in RowsOf(stripes) PROVE r \in RowsOf(stripes)'
  <2>1. PICK x \in stripes : r \in Decode(x)
    BY <1>5, RowsOfMember
  <2> QED
    BY <1>0, <1>a, <2>1, RowsOfMember
<1>6. ASSUME NEW r, r \in RowsOf(mine[s]) PROVE r \in RowsOf(stripes)'
  <2>1. PICK y \in mine[s] : r \in Decode(y)
    BY <1>6, RowsOfMember
  <2>2. PICK x : x = Committed(y)
    OBVIOUS
  <2>3. r \in Decode(x)'
    <3>1. x.header = y.header
      BY <2>2 DEF Committed
    <3>2. Decode(x)' = Decode(y)'
      BY <3>1 DEF Decode
    <3> QED
      BY <1>a, <2>1, <3>2
  <2>4. x \in stripes'
    BY <1>0, <2>1, <2>2
  <2> QED
    BY <2>3, <2>4, RowsOfMember
<1> QED
  BY <1>2, <1>3, <1>4, <1>5, <1>6

\* A step of session s leaves the other sessions' rows alone.
LEMMA OwnOthers ==
  ASSUME Types, Placed, NEW s \in Sessions, FlushStep(s) \/ Statement(s) \/ Transaction(s),
         NEW t \in Sessions, t # s
  PROVE  OwnRows(t)' = OwnRows(t)
<1>1. mine'[t] = mine[t] /\ pending'[t] = pending[t] /\ flush'[t] = flush[t]
  BY StepOnly DEF Only
<1>2. \A x \in mine[t] : Decode(x)' = Decode(x)
  BY StepGrows, PublishedKept DEF Published
<1>3. RowsOf(mine[t])' = RowsOf(mine[t])
  BY <1>1, <1>2 DEF RowsOf
<1> QED
  BY <1>1, <1>3 DEF OwnRows

\* Only a commit changes the committed rows.
LEMMA TableAfter ==
  ASSUME Types, Types', Control, Placed, NEW s \in Sessions,
         FlushStep(s) \/ Statement(s) \/ Transaction(s), ~Commit(s)
  PROVE  RowsOf(stripes)' = RowsOf(stripes)
<1>1. stripes' = stripes
  BY MetaAfter
<1>2. \A x \in stripes : Decode(x)' = Decode(x)
  BY StepGrows, PublishedKept DEF Published
<1> QED
  BY <1>1, <1>2 DEF RowsOf

\* A session's rows are those in its memory and those in its stripes.
LEMMA OwnHeld == \A s \in Sessions : OwnRows(s) = Held(s) \cup RowsOf(mine[s])
BY DEF OwnRows, Held

\* What each kind of step does to its session's rows.
LEMMA OwnAfter ==
  ASSUME Types, Types', Control, Scanned, Placed, NEW s \in Sessions,
         FlushStep(s) \/ Statement(s) \/ Transaction(s)
  PROVE  /\ Quiet(s) \/ Publish(s) => OwnRows(s)' = OwnRows(s)
         /\ PushRow(s) => OwnRows(s)' = OwnRows(s) \cup {NextRow(s)}
         /\ Abort(s) => OwnRows(s)' = {}
         /\ RollbackTo(s) => OwnRows(s)' \subseteq OwnRows(s)
<1>0. /\ OwnRows(s) = Held(s) \cup RowsOf(mine[s])
      /\ OwnRows(s)' = Held(s)' \cup RowsOf(mine[s])'
  BY DEF OwnRows, Held
<1>1. Quiet(s) => OwnRows(s)' = OwnRows(s)
  <2> SUFFICES ASSUME Quiet(s) PROVE OwnRows(s)' = OwnRows(s)
    OBVIOUS
  <2>1. Held(s)' = Held(s) /\ RowsOf(mine[s])' = RowsOf(mine[s])
    BY HeldQuiet, MineRows
  <2> QED
    BY <1>0, <2>1
<1>2. Publish(s) => OwnRows(s)' = OwnRows(s)
  <2> SUFFICES ASSUME Publish(s) PROVE OwnRows(s)' = OwnRows(s)
    OBVIOUS
  <2>1. Held(s) = flush[s].rows /\ Held(s)' = {}
    BY HeldPublish
  <2>2. RowsOf(mine[s])' = RowsOf(mine[s]) \cup flush[s].rows
    BY PublishRows
  <2> QED
    BY <1>0, <2>1, <2>2
<1>3. PushRow(s) => OwnRows(s)' = OwnRows(s) \cup {NextRow(s)}
  <2> SUFFICES ASSUME PushRow(s) PROVE OwnRows(s)' = OwnRows(s) \cup {NextRow(s)}
    OBVIOUS
  <2>1. Held(s)' = Held(s) \cup {NextRow(s)} /\ RowsOf(mine[s])' = RowsOf(mine[s])
    BY HeldPush, MineRows
  <2> QED
    BY <1>0, <2>1
<1>4. Abort(s) => OwnRows(s)' = {}
  <2> SUFFICES ASSUME Abort(s) PROVE OwnRows(s)' = {}
    OBVIOUS
  <2>1. Held(s)' = {} /\ mine'[s] = {}
    BY HeldAbort DEF Abort, Forget
  <2>2. RowsOf(mine[s])' = {}
    BY <2>1 DEF RowsOf
  <2> QED
    BY <1>0, <2>1, <2>2
<1>5. RollbackTo(s) => OwnRows(s)' \subseteq OwnRows(s)
  <2> SUFFICES ASSUME RollbackTo(s) PROVE OwnRows(s)' \subseteq OwnRows(s)
    OBVIOUS
  <2>1. Held(s)' \subseteq Held(s)
    BY HeldRollback DEF Held
  <2>2. mine'[s] \subseteq mine[s]
    BY DEF RollbackTo, Types
  <2>3. \A x \in mine[s] : Decode(x)' = Decode(x)
    BY StepGrows, PublishedKept DEF Published
  <2>4. RowsOf(mine[s])' \subseteq RowsOf(mine[s])
    BY <2>2, <2>3 DEF RowsOf
  <2> QED
    BY <1>0, <2>1, <2>4
<1> QED
  BY <1>1, <1>2, <1>3, <1>4, <1>5

\* A crash keeps the committed rows and takes back all the others.
LEMMA CrashRows ==
  ASSUME Types, Placed, Crash
  PROVE  RowsOf(stripes)' = RowsOf(stripes) /\ \A t \in Sessions : OwnRows(t)' = {}
<1>1. stripes' = stripes /\ \A t \in Sessions : Held(t)' = {} /\ mine'[t] = {}
  BY CrashClears
<1>2. \A x \in stripes : Decode(x)' = Decode(x)
  BY CommittedKept
<1>3. RowsOf(stripes)' = RowsOf(stripes)
  BY <1>1, <1>2 DEF RowsOf
<1>4. ASSUME NEW t \in Sessions PROVE OwnRows(t)' = {}
  <2>1. RowsOf(mine[t])' = {}
    BY <1>1 DEF RowsOf
  <2>2. OwnRows(t)' = Held(t)' \cup RowsOf(mine[t])'
    BY DEF OwnRows, Held
  <2> QED
    BY <1>1, <2>1, <2>2
<1> QED
  BY <1>3, <1>4

-----------------------------------------------------------------------------
(* Without savepoints a transaction holds exactly what it inserted.        *)

\* Without savepoints, every step keeps ExactlyKept.
LEMMA KeptStep ==
  ASSUME MaxDepth = 0, Inv, Inv', ExactlyKept, [Next]_vars
  PROVE  ExactlyKept'
<1>0. Types /\ Types' /\ Control /\ Scanned /\ Placed
  BY DEF Inv
<1>1. CASE Crash
  <2>1. \A t \in Sessions : kept'[t] = {}
    BY <1>1 DEF Crash, Forget
  <2> QED
    BY <1>0, <1>1, <2>1, CrashRows DEF ExactlyKept
<1>2. ASSUME NEW s \in Sessions, FlushStep(s) \/ Statement(s) \/ Transaction(s)
      PROVE  ExactlyKept'
  <2>1. ASSUME NEW t \in Sessions, t # s PROVE OwnRows(t)' = kept'[t]
    <3>1. kept'[t] = kept[t]
      BY <1>0, <1>2, <2>1, StepOnly DEF Only
    <3> QED
      BY <1>0, <1>2, <2>1, <3>1, OwnOthers DEF ExactlyKept
  <2>2. OwnRows(s)' = kept'[s]
    <3>0. /\ Quiet(s) \/ Publish(s) => OwnRows(s)' = OwnRows(s)
          /\ PushRow(s) => OwnRows(s)' = OwnRows(s) \cup {NextRow(s)}
          /\ Abort(s) => OwnRows(s)' = {}
      BY <1>0, <1>2, OwnAfter
    <3>1. CASE Quiet(s)
      BY <3>0, <3>1, QuietFrame DEF ExactlyKept
    <3>2. CASE Publish(s)
      BY <1>0, <3>0, <3>2, PublishFacts DEF ExactlyKept
    <3>3. CASE PushRow(s)
      <4>1. kept'[s] = kept[s] \cup {NextRow(s)}
        BY <1>0, <3>3 DEF PushRow, Types
      <4> QED
        BY <3>0, <3>3, <4>1 DEF ExactlyKept
    <3>4. CASE Commit(s)
      <4>1. kept'[s] = {}
        BY <1>0, <3>4 DEF Commit, Types
      <4> QED
        BY <1>0, <3>4, <4>1, CommitRows
    <3>5. CASE Abort(s)
      <4>1. kept'[s] = {}
        BY <3>5 DEF Abort, Forget
      <4> QED
        BY <3>0, <3>5, <4>1
    <3>6. ~RollbackTo(s)
      <4>1. Len(subs[s]) <= 0
        BY <1>0 DEF Control, ControlOf
      <4>2. Len(subs[s]) \in Nat
        BY <1>0 DEF Types
      <4> QED
        BY <4>1, <4>2 DEF RollbackTo
    <3> QED
      BY <1>2, <3>1, <3>2, <3>3, <3>4, <3>5, <3>6, StepKinds
  <2> QED
    BY <2>1, <2>2 DEF ExactlyKept
<1>3. CASE UNCHANGED vars
  <2>1. UNCHANGED kept
    BY <1>3 DEF vars
  <2> QED
    BY <1>3, <2>1, Stutters DEF ExactlyKept
<1> QED
  BY <1>1, <1>2, <1>3 DEF Next

\* A transaction without savepoints holds exactly the rows it inserted, in its buffer, in a
\* flush or in its stripes (ExactlyKept): no flush loses or doubles one, no rollback leaves
\* one behind.  The hypothesis is needed: the buffer outlives a ROLLBACK TO (ColSavepoint).
THEOREM RowsKept ==
  ASSUME MaxDepth = 0 PROVE Spec => []ExactlyKept
<1>1. Init => ExactlyKept
  <2> SUFFICES ASSUME Init, NEW s \in Sessions PROVE OwnRows(s) = kept[s]
    BY DEF ExactlyKept
  <2>1. mine[s] = {} /\ pending[s] = {} /\ flush[s] = NoFlush /\ kept[s] = {}
    BY DEF Init
  <2> QED
    BY <2>1, NoFlushRows DEF OwnRows, RowsOf
<1>2. Inv /\ Inv' /\ ExactlyKept /\ [Next]_vars => ExactlyKept'
  BY KeptStep
<1> QED
  BY <1>1, <1>2, Invariance, PTL DEF Spec

-----------------------------------------------------------------------------
(* The table implements an append-only transactional table.                *)

Own == [s \in Sessions |-> OwnRows(s)]

Closed == [open |-> FALSE]

Cursor(s) ==
    IF scan[s].open /\ pc[s] = "select"
    THEN [open |-> TRUE, view |-> scan[s].view, answered |-> scan[s].done,
          answer |-> IF scan[s].done THEN scan[s].out ELSE {}]
    ELSE [open |-> FALSE]

Cursors == [s \in Sessions |-> Cursor(s)]

\* Only the steps of a SELECT, and those that end one, move the cursor of their session.
LEMMA NotSelecting ==
  ASSUME Types, Control, NEW s \in Sessions,
         \/ Writing(s) \/ Publish(s) \/ Buffering(s) \/ Marking(s) \/ PushRow(s) \/ Commit(s)
         \/ StartSelfInsert(s)
         \/ \E n \in 1 .. MaxStmtRows, size \in {1, Budget + 1}, bulk \in BOOLEAN :
              StartInsert(s, n, size, bulk)
  PROVE  pc[s] # "select" /\ pc'[s] # "select"
<1>1. CASE Writing(s)
  BY <1>1, WritingFrame
<1>2. CASE Publish(s)
  <2>1. pc[s] = "flush" /\ flush[s] \in Flush
    BY <1>2, FlushingTyped DEF Publish, Flushing
  <2>2. flush[s].then # "select"
    BY <2>1 DEF Flush
  <2> QED
    BY <1>2, <2>1, <2>2 DEF Publish, Goto, Types
<1>3. CASE Buffering(s)
  BY <1>3 DEF Buffering, FlushFirst, EndInsert, PreCommit, StartFlush, Goto, Types
<1>4. CASE Marking(s)
  BY <1>4 DEF Marking, Begin, Savepoint, Release, Goto, Types
<1>5. CASE PushRow(s)
  BY <1>5 DEF PushRow, StartFlush, Goto, Types
<1>6. CASE Commit(s)
  BY <1>6 DEF Commit, Goto, Types
<1>7. CASE \/ StartSelfInsert(s)
           \/ \E n \in 1 .. MaxStmtRows, size \in {1, Budget + 1}, bulk \in BOOLEAN :
                StartInsert(s, n, size, bulk)
  BY <1>7 DEF StartSelfInsert, StartInsert, Goto, Types
<1> QED
  BY <1>1, <1>2, <1>3, <1>4, <1>5, <1>6, <1>7

\* A step of session s leaves the other sessions' cursors alone.
LEMMA CursorOthers ==
  ASSUME Types, NEW s \in Sessions, FlushStep(s) \/ Statement(s) \/ Transaction(s),
         NEW t \in Sessions, t # s
  PROVE  Cursor(t)' = Cursor(t)
<1>1. scan'[t] = scan[t] /\ pc'[t] = pc[t]
  BY StepOnly DEF Only
<1> QED
  BY <1>1 DEF Cursor

\* A SELECT opens a cursor on what its session sees ...
LEMMA CursorSelect ==
  ASSUME Types, Placed, NEW s \in Sessions, StartSelect(s)
  PROVE  /\ Cursor(s) = Closed
         /\ Cursor(s)' = [open |-> TRUE, view |-> RowsOf(stripes) \cup OwnRows(s),
                          answered |-> FALSE, answer |-> {}]
<1>1. BeginScan(s) /\ pc'[s] = "select" /\ pc[s] = "ready"
  BY DEF StartSelect, Goto, Types
<1>2. scan'[s].open /\ ~scan'[s].done /\ scan'[s].view = RowsOf(stripes) \cup OwnRows(s)
      /\ scan'[s].done = FALSE
  <2>1. scan'[s] = [open |-> TRUE, done |-> FALSE, todo |-> stripes \cup mine[s],
                    out |-> {}, view |-> Visible(s)]
    BY <1>1, BeginScanTyped
  <2> QED
    BY <2>1 DEF Visible
<1>3. Cursor(s) = Closed
  BY <1>1 DEF Cursor, Closed
<1>4. Cursor(s)' = [open |-> TRUE, view |-> scan'[s].view, answered |-> scan'[s].done, answer |-> {}]
  BY <1>1, <1>2 DEF Cursor
<1> QED
  BY <1>2, <1>3, <1>4

\* ... a batch from a stripe does not show yet ...
LEMMA CursorFetchStripe ==
  ASSUME Types, Control, Scanned, NEW s \in Sessions, FetchStripe(s)
  PROVE  Cursor(s)' = Cursor(s)
<1>1. PICK st \in scan[s].todo : Deliver(s, Decode(st), scan[s].todo \ {st}, FALSE)
  BY DEF FetchStripe
<1>2. scan[s].open /\ ~scan[s].done /\ pc' = pc
  BY <1>1 DEF FetchStripe, Wanted, Deliver
<1>3. scan[s] \in Scan
  BY <1>2 DEF Types, NoScan
<1>4. scan'[s].open = scan[s].open /\ scan'[s].view = scan[s].view /\ scan'[s].done = FALSE
  BY <1>1, <1>3 DEF Deliver, Types, Scan
<1>5. scan[s].done = FALSE
  BY <1>2, <1>3 DEF Scan
<1> QED
  BY <1>2, <1>4, <1>5 DEF Cursor

\* ... the last batch completes the answer, which is the view ...
LEMMA CursorFetchPending ==
  ASSUME Types, Control, Scanned, Scanned', NEW s \in Sessions, FetchPending(s)
  PROVE  \/ Cursor(s)' = Cursor(s)
         \/ \E v : /\ Cursor(s) = [open |-> TRUE, view |-> v, answered |-> FALSE, answer |-> {}]
                   /\ Cursor(s)' = [open |-> TRUE, view |-> v, answered |-> TRUE, answer |-> v]
<1>1. Deliver(s, pending[s], {}, TRUE) /\ scan[s].open /\ ~scan[s].done /\ pc' = pc
  BY DEF FetchPending, Wanted, Deliver
<1>2. scan[s] \in Scan
  BY <1>1 DEF Types, NoScan
<1>3. scan'[s].open = scan[s].open /\ scan'[s].view = scan[s].view /\ scan'[s].done = TRUE
  BY <1>1, <1>2 DEF Deliver, Types, Scan
<1>4. CASE pc[s] # "select"
  BY <1>1, <1>4 DEF Cursor
<1>5. CASE pc[s] = "select"
  <2>1. scan'[s].view = scan'[s].out
    BY <1>1, <1>3, <1>5 DEF Scanned, Viewed
  <2>2. scan[s].done = FALSE
    BY <1>1, <1>2 DEF Scan
  <2>3. Cursor(s) = [open |-> TRUE, view |-> scan[s].view, answered |-> FALSE, answer |-> {}]
    BY <1>1, <1>5, <2>2 DEF Cursor
  <2>4. Cursor(s)' = [open |-> TRUE, view |-> scan[s].view, answered |-> TRUE, answer |-> scan[s].view]
    BY <1>1, <1>3, <1>5, <2>1 DEF Cursor
  <2> QED
    BY <2>3, <2>4
<1> QED
  BY <1>4, <1>5

\* ... and the end of the SELECT closes it, as a rollback does.
LEMMA CursorEnds ==
  ASSUME Types, Control, NEW s \in Sessions, EndSelect(s) \/ Abort(s) \/ RollbackTo(s)
  PROVE  Cursor(s)' = Closed /\ (EndSelect(s) => Cursor(s).open)
<1>1. pc'[s] # "select"
  BY DEF EndSelect, Abort, Forget, RollbackTo, Goto, Types
<1>2. EndSelect(s) => scan[s].open /\ pc[s] = "select"
  BY DEF EndSelect, Control, ControlOf
<1> QED
  BY <1>1, <1>2 DEF Cursor, Closed

\* A session that does not select has a closed cursor.
LEMMA CursorStill ==
  ASSUME NEW s \in Sessions, pc[s] # "select", pc'[s] # "select"
  PROVE  Cursor(s) = Closed /\ Cursor(s)' = Closed
BY DEF Cursor, Closed

\* The row a statement inserts is new to everybody.
LEMMA NextRowUnseen ==
  ASSUME Inv, NEW s \in Sessions, PushRow(s)
  PROVE  /\ NextRow(s) \in Row /\ NextRow(s) \notin RowsOf(stripes)
         /\ \A t \in Sessions : NextRow(s) \notin OwnRows(t)
<1>0. Types /\ Control /\ Scanned /\ Fresh
  BY DEF Inv
<1> DEFINE r == NextRow(s)
<1>1. r \in Row /\ ~Spent(r)
  BY <1>0, NextRowNew
<1>2. (\A x \in Published : r \notin Decode(x)) /\ (\A t \in Sessions : r \notin Held(t))
  BY <1>0, <1>1 DEF Fresh
<1> HIDE DEF r
<1>3. r \notin RowsOf(stripes)
  BY <1>2 DEF RowsOf, Published
<1>5. \A t \in Sessions : r \notin RowsOf(mine[t])
  BY <1>2 DEF RowsOf, Published
<1>4. \A t \in Sessions : r \notin OwnRows(t)
  BY <1>2, <1>5, OwnHeld
<1> QED
  BY <1>1, <1>3, <1>4 DEF r

\* The cursor that has answered, written out.
LEMMA AnswerRecorded ==
  ASSUME NEW C, NEW s \in Sessions, NEW v, C = [t \in Sessions |-> C[t]],
         C[s] = [open |-> TRUE, view |-> v, answered |-> FALSE, answer |-> {}]
  PROVE  [C EXCEPT ![s].answered = TRUE, ![s].answer = C[s].view] =
           [C EXCEPT ![s] = [open |-> TRUE, view |-> v, answered |-> TRUE, answer |-> v]]
<1> DEFINE none == [open |-> TRUE, view |-> v, answered |-> FALSE, answer |-> {}]
           half == [open |-> TRUE, view |-> v, answered |-> TRUE, answer |-> {}]
           full == [open |-> TRUE, view |-> v, answered |-> TRUE, answer |-> v]
           Any == [open : {TRUE}, view : {v}, answered : BOOLEAN, answer : {{}, v}]
           D == [C EXCEPT ![s] = half]
<1>0. none \in Any /\ half \in Any /\ full \in Any
  OBVIOUS
<1>a. /\ none.open = TRUE /\ none.view = v /\ none.answer = {}
      /\ half.open = TRUE /\ half.view = v /\ half.answer = {} /\ half.answered = TRUE
      /\ full.open = TRUE /\ full.view = v /\ full.answer = v /\ full.answered = TRUE
  OBVIOUS
<1>b. C[s] = none
  OBVIOUS
<1> HIDE DEF none, half, full
<1>c. [none EXCEPT !.answered = TRUE] \in Any
  BY <1>0
<1>1. [C[s] EXCEPT !.answered = TRUE] = half
  BY <1>0, <1>a, <1>b, <1>c
<1>d. [half EXCEPT !.answer = v] \in Any
  BY <1>0
<1>e. C[s].view = v
  BY <1>a, <1>b
<1>f. /\ [half EXCEPT !.answer = v].open = TRUE /\ [half EXCEPT !.answer = v].view = v
      /\ [half EXCEPT !.answer = v].answered = TRUE /\ [half EXCEPT !.answer = v].answer = v
  BY <1>0, <1>a
<1>2. [half EXCEPT !.answer = v] = full /\ C[s].view = v
  BY <1>0, <1>a, <1>d, <1>e, <1>f
<1>3. [C EXCEPT ![s].answered = TRUE] = D
  BY <1>1, Zenon
<1>4. D[s] = half
  OBVIOUS
<1>5. [D EXCEPT ![s].answer = v] = [D EXCEPT ![s] = full]
  BY <1>2, <1>4
<1>6. [D EXCEPT ![s] = full] = [C EXCEPT ![s] = full]
  OBVIOUS
<1> HIDE DEF D
<1> QED
  BY <1>2, <1>3, <1>5, <1>6 DEF full

\* The steps of the promise, over Own and Cursors.
LEMMA PromiseSteps ==
  ASSUME NEW s \in Sessions
  PROVE  /\ \A r : (/\ r \notin RowsOf(stripes) /\ \A t \in Sessions : r \notin Own[t]
                    /\ Own' = [Own EXCEPT ![s] = @ \cup {r}]
                    /\ UNCHANGED <<RowsOf(stripes), Cursors>>) => Promise!Insert(s, r)
         /\ (/\ Cursors[s] = Closed
             /\ Cursors' = [Cursors EXCEPT ![s] =
                              [open |-> TRUE, view |-> RowsOf(stripes) \cup Own[s],
                               answered |-> FALSE, answer |-> {}]]
             /\ UNCHANGED <<RowsOf(stripes), Own>>) => Promise!Open(s)
         /\ (/\ Cursors[s].open
             /\ Cursors' = [Cursors EXCEPT ![s] = Closed]
             /\ UNCHANGED <<RowsOf(stripes), Own>>) => Promise!Close(s)
         /\ (/\ Cursors[s] = Closed
             /\ RowsOf(stripes)' = RowsOf(stripes) \cup Own[s]
             /\ Own' = [Own EXCEPT ![s] = {}]
             /\ UNCHANGED Cursors) => Promise!Commit(s)
         /\ (/\ \E R \in SUBSET Own[s] : Own' = [Own EXCEPT ![s] = R]
             /\ Cursors' = [Cursors EXCEPT ![s] = Closed]
             /\ UNCHANGED RowsOf(stripes)) => Promise!Undo(s)
         /\ (/\ Own' = [Own EXCEPT ![s] = {}]
             /\ Cursors' = [Cursors EXCEPT ![s] = Closed]
             /\ UNCHANGED RowsOf(stripes)) => Promise!Abort(s)
<1>1. \A r : (/\ r \notin RowsOf(stripes) /\ \A t \in Sessions : r \notin Own[t]
              /\ Own' = [Own EXCEPT ![s] = @ \cup {r}]
              /\ UNCHANGED <<RowsOf(stripes), Cursors>>) => Promise!Insert(s, r)
  BY DEF Own, Cursors, Cursor, Promise!Insert
<1>2. (/\ Cursors[s] = Closed
       /\ Cursors' = [Cursors EXCEPT ![s] =
                        [open |-> TRUE, view |-> RowsOf(stripes) \cup Own[s],
                         answered |-> FALSE, answer |-> {}]]
       /\ UNCHANGED <<RowsOf(stripes), Own>>) => Promise!Open(s)
  BY DEF Own, Cursors, Cursor, Closed, Promise!Open, Promise!Closed, Promise!Opened
<1>4. (/\ Cursors[s].open
       /\ Cursors' = [Cursors EXCEPT ![s] = Closed]
       /\ UNCHANGED <<RowsOf(stripes), Own>>) => Promise!Close(s)
  BY DEF Own, Cursors, Cursor, Closed, Promise!Close, Promise!Closed
<1>5. (/\ Cursors[s] = Closed
       /\ RowsOf(stripes)' = RowsOf(stripes) \cup Own[s]
       /\ Own' = [Own EXCEPT ![s] = {}]
       /\ UNCHANGED Cursors) => Promise!Commit(s)
  BY DEF Own, Cursors, Cursor, Closed, Promise!Commit, Promise!Closed
<1>6. (/\ \E R \in SUBSET Own[s] : Own' = [Own EXCEPT ![s] = R]
       /\ Cursors' = [Cursors EXCEPT ![s] = Closed]
       /\ UNCHANGED RowsOf(stripes)) => Promise!Undo(s)
  BY DEF Own, Cursors, Cursor, Closed, Promise!Undo, Promise!Closed
<1>7. (/\ Own' = [Own EXCEPT ![s] = {}]
       /\ Cursors' = [Cursors EXCEPT ![s] = Closed]
       /\ UNCHANGED RowsOf(stripes)) => Promise!Abort(s)
  BY DEF Own, Cursors, Cursor, Closed, Promise!Abort, Promise!Closed
<1> QED
  BY <1>1, <1>2, <1>4, <1>5, <1>6, <1>7

\* And Answer among them.
LEMMA PromiseAnswer ==
  ASSUME NEW s \in Sessions, Cursors[s].open, ~Cursors[s].answered,
         Cursors' = [Cursors EXCEPT ![s].answered = TRUE, ![s].answer = Cursors[s].view],
         UNCHANGED <<RowsOf(stripes), Own>>
  PROVE  Promise!Answer(s)
BY DEF Own, Cursors, Cursor, Promise!Answer

\* A step of session s moves the own rows and the cursor of s at most.
LEMMA OwnAt ==
  ASSUME Types, Placed, NEW s \in Sessions, FlushStep(s) \/ Statement(s) \/ Transaction(s)
  PROVE  /\ \A R : OwnRows(s)' = R => Own' = [Own EXCEPT ![s] = R]
         /\ OwnRows(s)' = OwnRows(s) => UNCHANGED Own
<1>1. \A t \in Sessions : t # s => OwnRows(t)' = OwnRows(t)
  BY OwnOthers
<1>2. \A R : OwnRows(s)' = R => Own' = [Own EXCEPT ![s] = R]
  BY <1>1 DEF Own
<1>3. OwnRows(s)' = OwnRows(s) => UNCHANGED Own
  BY <1>1 DEF Own
<1> QED
  BY <1>2, <1>3

\* The same for the cursor.
LEMMA CursorAt ==
  ASSUME Types, NEW s \in Sessions, FlushStep(s) \/ Statement(s) \/ Transaction(s)
  PROVE  /\ \A c : Cursor(s)' = c => Cursors' = [Cursors EXCEPT ![s] = c]
         /\ Cursor(s)' = Cursor(s) => UNCHANGED Cursors
<1>1. \A t \in Sessions : t # s => Cursor(t)' = Cursor(t)
  BY CursorOthers
<1>2. \A c : Cursor(s)' = c => Cursors' = [Cursors EXCEPT ![s] = c]
  BY <1>1 DEF Cursors
<1>3. Cursor(s)' = Cursor(s) => UNCHANGED Cursors
  BY <1>1 DEF Cursors
<1> QED
  BY <1>2, <1>3

\* Every step of a session is one of the promise's, or changes nothing that it speaks of.
LEMMA StepImplements ==
  ASSUME Inv, Inv', NEW s \in Sessions, FlushStep(s) \/ Statement(s) \/ Transaction(s)
  PROVE  \/ \E r \in Row : Promise!Insert(s, r)
         \/ Promise!Open(s) \/ Promise!Answer(s) \/ Promise!Close(s) \/ Promise!Commit(s)
         \/ Promise!Undo(s) \/ Promise!Abort(s)
         \/ UNCHANGED <<RowsOf(stripes), Own, Cursors>>
<1>0. Types /\ Types' /\ Control /\ Placed /\ Scanned /\ Scanned'
  BY DEF Inv
<1>a. ~Commit(s) => UNCHANGED RowsOf(stripes)
  BY <1>0, TableAfter
<1>b. Own[s] = OwnRows(s) /\ Cursors[s] = Cursor(s)
  BY DEF Own, Cursors
<1>c. ASSUME Cursor(s)' = Cursor(s), OwnRows(s)' = OwnRows(s), ~Commit(s)
      PROVE  UNCHANGED <<RowsOf(stripes), Own, Cursors>>
  BY <1>0, <1>a, <1>c, OwnAt, CursorAt
<1>d. Quiet(s) \/ Publish(s) => OwnRows(s)' = OwnRows(s)
  BY <1>0, OwnAfter
<1>e. ASSUME NEW c, Cursor(s)' = c PROVE Cursors' = [Cursors EXCEPT ![s] = c]
  BY <1>0, <1>e, CursorAt
<1>f. ASSUME NEW R, OwnRows(s)' = R PROVE Own' = [Own EXCEPT ![s] = R]
  BY <1>0, <1>f, OwnAt
<1>1. CASE PushRow(s)
  <2>1. PICK r : r = NextRow(s)
    OBVIOUS
  <2>2. r \in Row /\ r \notin RowsOf(stripes) /\ \A t \in Sessions : r \notin Own[t]
    BY <1>1, <2>1, NextRowUnseen DEF Own
  <2>3. ~Commit(s)
    BY <1>1 DEF PushRow, Commit
  <2>4. PICK R : R = OwnRows(s) \cup {r}
    OBVIOUS
  <2>5. OwnRows(s)' = R
    BY <1>0, <1>1, <2>1, <2>4, OwnAfter
  <2>6. Own' = [Own EXCEPT ![s] = Own[s] \cup {r}]
    BY <1>b, <1>f, <2>4, <2>5
  <2>7. UNCHANGED Cursors
    BY <1>0, <1>1, NotSelecting, CursorStill, CursorAt
  <2> QED
    BY <1>a, <2>2, <2>3, <2>6, <2>7, PromiseSteps
<1>2. CASE Commit(s)
  <2>1. RowsOf(stripes)' = RowsOf(stripes) \cup Own[s] /\ OwnRows(s)' = {}
    BY <1>0, <1>2, <1>b, CommitRows
  <2>2. Own' = [Own EXCEPT ![s] = {}]
    BY <1>f, <2>1
  <2>3. Cursor(s) = Closed /\ Cursor(s)' = Closed
    BY <1>0, <1>2, NotSelecting, CursorStill
  <2>4. UNCHANGED Cursors /\ Cursors[s] = Closed
    BY <1>0, <1>b, <2>3, CursorAt
  <2> QED
    BY <2>1, <2>2, <2>4, PromiseSteps
<1>3. CASE Abort(s)
  <2>1. (OwnRows(s)' = {} /\ ~Commit(s)) \/ Commit(s)
    BY <1>0, <1>3, OwnAfter
  <2>2. CASE Commit(s)
    BY <1>2, <2>2
  <2>3. CASE ~Commit(s)
    <3>1. Own' = [Own EXCEPT ![s] = {}]
      BY <1>f, <2>1, <2>3
    <3>2. Cursors' = [Cursors EXCEPT ![s] = Closed]
      BY <1>0, <1>3, <1>e, CursorEnds
    <3> QED
      BY <1>a, <2>3, <3>1, <3>2, PromiseSteps
  <2> QED
    BY <2>2, <2>3
<1>4. CASE RollbackTo(s)
  <2>1. ~Commit(s)
    BY <1>4 DEF RollbackTo, Commit
  <2>2. PICK R : R = OwnRows(s)'
    OBVIOUS
  <2>3. R \in SUBSET Own[s]
    BY <1>0, <1>4, <1>b, <2>2, OwnAfter
  <2>4. Own' = [Own EXCEPT ![s] = R]
    BY <1>f, <2>2
  <2>5. Cursors' = [Cursors EXCEPT ![s] = Closed]
    BY <1>0, <1>4, <1>e, CursorEnds
  <2> QED
    BY <1>a, <2>1, <2>3, <2>4, <2>5, PromiseSteps
<1>5. CASE StartSelect(s)
  <2>1. ~Commit(s)
    BY <1>5 DEF StartSelect, Commit
  <2>2. Quiet(s)
    BY <1>5 DEF Quiet, Starting
  <2>3. UNCHANGED Own
    BY <1>0, <1>d, <2>2, OwnAt
  <2>4. PICK V : V = RowsOf(stripes) \cup OwnRows(s)
    OBVIOUS
  <2>5. Cursor(s) = Closed
    BY <1>0, <1>5, CursorSelect
  <2>6. Cursor(s)' = [open |-> TRUE, view |-> V, answered |-> FALSE, answer |-> {}]
    BY <1>0, <1>5, <2>4, CursorSelect
  <2>7. Cursors' = [Cursors EXCEPT ![s] = [open |-> TRUE, view |-> V, answered |-> FALSE,
                                           answer |-> {}]]
    BY <1>e, <2>6
  <2> QED
    BY <1>a, <1>b, <2>1, <2>3, <2>4, <2>5, <2>7, PromiseSteps
<1>6. CASE Reading(s)
  <2>1. ~Commit(s)
    BY <1>6 DEF Reading, FetchStripe, FetchPending, Wanted, EndSelect, Commit
  <2>2. UNCHANGED Own
    BY <1>0, <1>6, <1>d, OwnAt DEF Quiet
  <2>3. CASE FetchStripe(s)
    BY <1>0, <1>6, <1>c, <1>d, <2>1, <2>3, CursorFetchStripe DEF Quiet
  <2>4. CASE FetchPending(s)
    <3>1. CASE Cursor(s)' = Cursor(s)
      BY <1>6, <1>c, <1>d, <2>1, <3>1 DEF Quiet
    <3>2. ASSUME NEW v,
                 Cursor(s) = [open |-> TRUE, view |-> v, answered |-> FALSE, answer |-> {}],
                 Cursor(s)' = [open |-> TRUE, view |-> v, answered |-> TRUE, answer |-> v]
          PROVE  Promise!Answer(s)
      <4>1. Cursors' = [Cursors EXCEPT ![s] =
                          [open |-> TRUE, view |-> v, answered |-> TRUE, answer |-> v]]
        BY <1>e, <3>2
      <4>4. Cursors = [t \in Sessions |-> Cursors[t]]
        BY DEF Cursors
      <4>2. Cursors[s] = [open |-> TRUE, view |-> v, answered |-> FALSE, answer |-> {}]
        BY <1>b, <3>2
      <4>3. Cursors' = [Cursors EXCEPT ![s].answered = TRUE, ![s].answer = Cursors[s].view]
        BY <4>1, <4>2, <4>4, AnswerRecorded
      <4>5. Cursors[s].open /\ ~Cursors[s].answered
        BY <4>2
      <4> HIDE DEF Cursors, Own
      <4>6. UNCHANGED <<RowsOf(stripes), Own>>
        BY <1>a, <2>1, <2>2
      <4> QED
        BY <4>3, <4>5, <4>6, PromiseAnswer
    <3> QED
      BY <1>0, <2>4, <3>1, <3>2, CursorFetchPending
  <2>5. CASE EndSelect(s)
    <3>1. Cursors' = [Cursors EXCEPT ![s] = Closed] /\ Cursors[s].open
      BY <1>0, <1>b, <1>e, <2>5, CursorEnds
    <3> QED
      BY <1>a, <2>1, <2>2, <3>1, PromiseSteps
  <2> QED
    BY <1>6, <2>3, <2>4, <2>5 DEF Reading
<1>7. CASE /\ Writing(s) \/ Publish(s) \/ Buffering(s) \/ Marking(s) \/ StartSelfInsert(s)
              \/ \E n \in 1 .. MaxStmtRows, size \in {1, Budget + 1}, bulk \in BOOLEAN :
                   StartInsert(s, n, size, bulk)
           /\ ~Commit(s)
  <2>1. Cursor(s)' = Cursor(s)
    BY <1>0, <1>7, NotSelecting, CursorStill
  <2>2. Quiet(s) \/ Publish(s)
    BY <1>7 DEF Quiet, Starting
  <2> QED
    BY <1>7, <1>c, <1>d, <2>1, <2>2
<1> QED
  BY <1>1, <1>2, <1>3, <1>4, <1>5, <1>6, <1>7, StepKinds DEF Quiet, Starting

\* Buffering, flushing, publishing, aborting and recovering implement an append-only
\* transactional table, whatever is interleaved (AppendOnly): a commit adds exactly the
\* rows of its transaction, a rollback or a crash takes back those and no other, and a
\* SELECT answers with the rows it found when it was opened.
THEOREM Implements == Spec => AppendOnly
<1>1. Init => Promise!Init
  <2> SUFFICES ASSUME Init PROVE Promise!Init
    OBVIOUS
  <2>1. RowsOf(stripes) = {}
    BY DEF Init, RowsOf
  <2>2. ASSUME NEW s \in Sessions PROVE OwnRows(s) = {} /\ pc[s] # "select"
    <3>1. mine[s] = {} /\ pending[s] = {} /\ flush[s] = NoFlush
      BY DEF Init
    <3>2. pc[s] # "select"
      BY DEF Init
    <3> QED
      BY <3>1, <3>2, NoFlushRows DEF OwnRows, RowsOf
  <2> QED
    BY <2>1, <2>2 DEF Promise!Init, Promise!Closed
<1>2. Inv /\ Inv' /\ [Next]_vars => [Promise!Next]_(Promise!vars)
  <2> SUFFICES ASSUME Inv, Inv', [Next]_vars PROVE [Promise!Next]_(Promise!vars)
    OBVIOUS
  <2>0. UNCHANGED <<RowsOf(stripes), Own, Cursors>> => UNCHANGED Promise!vars
    BY DEF Own, Cursors, Cursor, Promise!vars
  <2>1. ASSUME NEW s \in Sessions, FlushStep(s) \/ Statement(s) \/ Transaction(s)
        PROVE  [Promise!Next]_(Promise!vars)
    <3>1. \/ \E r \in Row : Promise!Insert(s, r)
          \/ Promise!Open(s) \/ Promise!Answer(s) \/ Promise!Close(s) \/ Promise!Commit(s)
          \/ Promise!Undo(s) \/ Promise!Abort(s)
          \/ UNCHANGED <<RowsOf(stripes), Own, Cursors>>
      BY <2>1, StepImplements
    <3> QED
      BY <2>0, <3>1, Zenon DEF Promise!Next
  <2>2. CASE Crash
    <3>1. UNCHANGED RowsOf(stripes) /\ \A t \in Sessions : OwnRows(t)' = {}
      BY <2>2, CrashRows DEF Inv
    <3>2. \A t \in Sessions : pc'[t] # "select"
      BY <2>2 DEF Crash, Forget
    <3>3. Promise!Crash
      BY <3>1, <3>2 DEF Promise!Crash, Promise!Closed
    <3> QED
      BY <3>3 DEF Promise!Next
  <2>3. CASE UNCHANGED vars
    <3>1. UNCHANGED <<RowsOf(stripes), Own, Cursors>>
      BY <2>3 DEF vars, Own, Cursors, Cursor, OwnRows, RowsOf, Decode
    <3> QED
      BY <2>0, <3>1
  <2> QED
    BY <2>1, <2>2, <2>3 DEF Next
<1> QED
  BY <1>1, <1>2, Invariance, PTL DEF Spec, AppendOnly, Promise!Spec
================================================================================
