----------------------------- MODULE ColumnarTable -----------------------------
(***************************************************************************)
(* The theodb_columnar table access method (theodb_rs/src/am/columnar.rs)  *)
(* for one table: rows are buffered per backend, flushed to immutable      *)
(* stripes of the relation's file, and become visible through rows of the  *)
(* heap catalog columnar.stripe, whose MVCC is PostgreSQL's.               *)
(*                                                                         *)
(* A flush is one action per buffer-locked step (a page appended, a        *)
(* counter bumped, the catalog row inserted), since other backends run     *)
(* between them.  The buffer is thread-local, so taking it or adding to it *)
(* is part of the step that causes it.                                     *)
(*                                                                         *)
(* Abstractions.  The bytes of a row are its size in units of the budget.  *)
(* A page is a record of what was written to it; a chunk read through      *)
(* pages that are not its own fails to decompress.  Row order, projection  *)
(* and chunk skipping are left out.  Statements see the latest commit      *)
(* (READ COMMITTED); savepoints stand for every subtransaction.            *)
(***************************************************************************)
EXTENDS Integers, FiniteSets, Sequences

CONSTANTS
    Sessions,      \* backends
    Budget,        \* maintenance_work_mem, in the bytes of a narrow row
    Columns,       \* number of column chunks in a stripe (natts, times chunk groups)
    ChunkPages,    \* pages a compressed chunk takes
    MaxStmtRows,   \* bound: rows of an INSERT .. VALUES or a COPY
    MaxCopied,     \* bound: rows of an INSERT INTO t SELECT * FROM t; 0 for none
    MaxInserts,    \* bound: INSERT statements
    MaxScans,      \* bound: SELECT statements
    MaxDepth,      \* bound: savepoints open in a session
    MaxCrashes     \* bound: crashes

ASSUME SizeAssumption ==
    /\ Budget \in Nat \ {0} /\ Columns \in Nat \ {0} /\ ChunkPages \in Nat \ {0}
ASSUME BoundAssumption ==
    /\ MaxStmtRows \in Nat \ {0} /\ MaxCopied \in Nat /\ MaxInserts \in Nat /\ MaxScans \in Nat
    /\ MaxDepth \in Nat /\ MaxCrashes \in Nat

\* Rows are told apart by the statement that inserted them and their place in it.
Row == [stmt : 1 .. MaxInserts, nr : 1 .. (MaxStmtRows + MaxCopied),
        size : {1, Budget + 1}]

VARIABLES
    pages,    \* the relation's file after its metapage: block -> what was written
    meta,     \* the metapage's reservation counters
    stripes,  \* committed rows of columnar.stripe
    mine,     \* session -> rows of columnar.stripe its open transaction inserted
    pending,  \* session -> WRITE_STATES, the buffered rows
    flush,    \* session -> flush_pending in progress
    stmt,     \* session -> INSERT in progress
    scan,     \* session -> ColumnarScanState
    pc,       \* session -> where its transaction is
    subs,     \* session -> stack of open savepoints
    kept,     \* session -> rows inserted and not rolled back (what the user is owed)
    durable,  \* the file and the counters as of the last commit record (or recovery)
    inserts, scans, crashes \* budgets

vars == <<pages, meta, stripes, mine, pending, flush, stmt, scan, pc, subs, kept,
          durable, inserts, scans, crashes>>

NoFlush == [step |-> "none", rows |-> {}]
NoStmt == [left |-> 0]
NoScan == [open |-> FALSE]

Blocks == 1 .. Len(pages)

\* What PostgreSQL leaves of a page that was extended but whose WAL record was lost.
Zeroed == [kind |-> "zero"]

-----------------------------------------------------------------------------
(* Reading a stripe.                                                       *)

\* read_chunked: the ChunkPages blocks from `first` on, which must be those of one
\* chunk of column c, in order, for the chunk to decompress.
ReadsAsChunk(first, c) ==
    \A p \in 1 .. ChunkPages :
        LET b == first + p - 1 IN
        /\ b \in Blocks
        /\ pages[b].kind = "chunk"
        /\ pages[b].col = c /\ pages[b].part = p
        /\ pages[b].rows = pages[first].rows

\* decode_stripe succeeds: header, directory, then every column chunk.
Decodes(st) ==
    /\ st.header \in Blocks /\ pages[st.header].kind = "header"
    /\ LET d == pages[st.header].dir IN
       /\ d \in Blocks /\ pages[d].kind = "dir"
       /\ \A c \in 1 .. Columns :
            /\ ReadsAsChunk(pages[d].first[c], c)
            /\ pages[pages[d].first[c]].rows = pages[pages[d].first[1]].rows

\* The rows decode_stripe returns.
Decode(st) == pages[pages[pages[st.header].dir].first[1]].rows

RowsOf(S) == UNION {Decode(st) : st \in S}

-----------------------------------------------------------------------------
(* The write buffer and its flush.                                         *)

Bytes(R) == Cardinality({r \in R : r.size = 1})
            + (Budget + 1) * Cardinality({r \in R : r.size # 1})

Goto(s, where) == pc' = [pc EXCEPT ![s] = where]

\* flush_pending removes the buffered rows before it writes anything; `then` is where
\* its caller goes on.
StartFlush(s, rows, then) ==
    /\ flush' = [flush EXCEPT ![s] =
                    [step |-> "chunk", rows |-> rows, then |-> then,
                     first |-> [c \in 1 .. Columns |-> 0], col |-> 1, part |-> 1,
                     base |-> 0, id |-> 0, dir |-> 0, header |-> 0]]
    /\ pending' = [pending EXCEPT ![s] = {}]
    /\ Goto(s, "flush")

Flushing(s, step) == pc[s] = "flush" /\ flush[s].step = step

\* extend_page_with_item: the relation-extension lock is held for this page only.
AppendPage(page) == pages' = Append(pages, page)
NewBlock == Len(pages) + 1

\* write_chunk, one page: it records the block of its first page and counts the rest.
WriteChunkPage(s) ==
    LET f == flush[s]
        last == f.part = ChunkPages
    IN /\ Flushing(s, "chunk")
       /\ AppendPage([kind |-> "chunk", rows |-> f.rows, col |-> f.col, part |-> f.part])
       /\ flush' = [flush EXCEPT
             ![s].first[f.col] = IF f.part = 1 THEN NewBlock ELSE @,
             ![s].part = IF last THEN 1 ELSE @ + 1,
             ![s].col = IF last /\ f.col < Columns THEN @ + 1 ELSE @,
             ![s].step = IF last /\ f.col = Columns THEN "rows" ELSE @]
       /\ UNCHANGED <<meta, stripes, mine, pending, stmt, scan, pc, subs, kept,
                      durable, inserts, scans, crashes>>

\* reserve(RowNumber, row_count): a read-modify-write under the metapage's lock
ReserveRows(s) ==
    /\ Flushing(s, "rows")
    /\ meta' = [meta EXCEPT !.rows = @ + Cardinality(flush[s].rows)]
    /\ flush' = [flush EXCEPT ![s].base = meta.rows, ![s].step = "stripe"]
    /\ UNCHANGED <<pages, stripes, mine, pending, stmt, scan, pc, subs, kept,
                   durable, inserts, scans, crashes>>

\* A fault: the id is taken from the catalog rows the backend sees.
ReserveStripeFromCatalog(s) ==
    /\ Flushing(s, "stripe")
    /\ flush' = [flush EXCEPT ![s].id = Cardinality(stripes \cup mine[s]), ![s].step = "dir"]
    /\ UNCHANGED <<pages, meta, stripes, mine, pending, stmt, scan, pc, subs, kept,
                   durable, inserts, scans, crashes>>

\* reserve(StripeId, 1)
ReserveStripe(s) ==
    /\ Flushing(s, "stripe")
    /\ meta' = [meta EXCEPT !.stripe = @ + 1]
    /\ flush' = [flush EXCEPT ![s].id = meta.stripe, ![s].step = "dir"]
    /\ UNCHANGED <<pages, stripes, mine, pending, stmt, scan, pc, subs, kept,
                   durable, inserts, scans, crashes>>

\* The directory of the stripe's chunks (one page) ...
WriteDirectory(s) ==
    /\ Flushing(s, "dir")
    /\ AppendPage([kind |-> "dir", first |-> flush[s].first])
    /\ flush' = [flush EXCEPT ![s].dir = NewBlock, ![s].step = "header"]
    /\ UNCHANGED <<meta, stripes, mine, pending, stmt, scan, pc, subs, kept,
                   durable, inserts, scans, crashes>>

\* ... its header ...
WriteHeader(s) ==
    /\ Flushing(s, "header")
    /\ AppendPage([kind |-> "header", dir |-> flush[s].dir])
    /\ flush' = [flush EXCEPT ![s].header = NewBlock, ![s].step = "publish"]
    /\ UNCHANGED <<meta, stripes, mine, pending, stmt, scan, pc, subs, kept,
                   durable, inserts, scans, crashes>>

\* A fault: the header is taken to be the last block of the file.
PublishLastBlock(s) ==
    LET f == flush[s] IN
    /\ Flushing(s, "publish")
    /\ mine' = [mine EXCEPT ![s] = @ \cup
                  {[id |-> f.id, base |-> f.base, count |-> Cardinality(f.rows),
                    header |-> Len(pages), sub |-> Len(subs[s])]}]
    /\ flush' = [flush EXCEPT ![s] = NoFlush]
    /\ Goto(s, f.then)
    /\ UNCHANGED <<pages, meta, stripes, pending, stmt, scan, subs, kept,
                   durable, inserts, scans, crashes>>

\* ... and last its catalog row, with the xmin of the current (sub)transaction.
Publish(s) ==
    LET f == flush[s] IN
    /\ Flushing(s, "publish")
    /\ mine' = [mine EXCEPT ![s] = @ \cup
                  {[id |-> f.id, base |-> f.base, count |-> Cardinality(f.rows),
                    header |-> f.header, sub |-> Len(subs[s])]}]
    /\ flush' = [flush EXCEPT ![s] = NoFlush]
    /\ Goto(s, f.then)
    /\ UNCHANGED <<pages, meta, stripes, pending, stmt, scan, subs, kept,
                   durable, inserts, scans, crashes>>

-----------------------------------------------------------------------------
(* INSERT.                                                                 *)

\* A statement of n rows of one size; a bulk one (COPY) ends in finish_bulk_insert.
StartInsert(s, n, size, bulk) ==
    /\ pc[s] = "ready" /\ ~scan[s].open
    /\ inserts < MaxInserts
    /\ inserts' = inserts + 1
    /\ stmt' = [stmt EXCEPT ![s] = [id |-> inserts + 1, next |-> 1, left |-> n,
                                    size |-> size, bulk |-> bulk, self |-> FALSE]]
    /\ Goto(s, "insert")
    /\ UNCHANGED <<pages, meta, stripes, mine, pending, flush, scan, subs, kept,
                   durable, scans, crashes>>

\* The row accumulate_row is called with.
NextRow(s) == [stmt |-> stmt[s].id, nr |-> stmt[s].next, size |-> stmt[s].size]

\* A fault: the budget is checked without the row about to be pushed.
OverflowsLate(s, r) == Bytes(pending[s]) > Budget

Overflows(s, r) == pending[s] # {} /\ Bytes(pending[s]) + r.size > Budget

\* accumulate_row: flush first when the row would exceed the budget ...
FlushFirst(s) ==
    /\ pc[s] = "insert" /\ stmt[s].left > 0
    /\ Overflows(s, NextRow(s))
    /\ StartFlush(s, pending[s], "insert")
    /\ UNCHANGED <<pages, meta, stripes, mine, stmt, scan, subs, kept,
                   durable, inserts, scans, crashes>>

\* ... then push it, and flush at once a row that exceeds the budget by itself.
PushRow(s) ==
    LET r == NextRow(s)
        rows == pending[s] \cup {r}
    IN /\ pc[s] = "insert" /\ stmt[s].left > 0
       /\ ~Overflows(s, r)
       /\ \/ /\ Bytes(rows) > Budget
             /\ StartFlush(s, rows, "insert")
          \/ /\ Bytes(rows) <= Budget
             /\ pending' = [pending EXCEPT ![s] = rows]
             /\ UNCHANGED <<flush, pc>>
       /\ kept' = [kept EXCEPT ![s] = @ \cup {r}]
       /\ stmt' = [stmt EXCEPT ![s].left = @ - 1, ![s].next = @ + 1]
       /\ UNCHANGED <<pages, meta, stripes, mine, scan, subs, durable,
                      inserts, scans, crashes>>

\* The end of the statement: of its source scan too when it reads its own table.
EndInsert(s) ==
    /\ pc[s] = "insert" /\ stmt[s].left = 0
    /\ stmt[s].self => scan[s].done
    /\ \/ /\ stmt[s].bulk /\ pending[s] # {}
          /\ StartFlush(s, pending[s], "ready")
       \/ /\ ~(stmt[s].bulk /\ pending[s] # {})
          /\ Goto(s, "ready")
          /\ UNCHANGED <<flush, pending>>
    /\ stmt' = [stmt EXCEPT ![s] = NoStmt]
    /\ scan' = [scan EXCEPT ![s] = NoScan]
    /\ UNCHANGED <<pages, meta, stripes, mine, subs, kept, durable, inserts, scans, crashes>>

-----------------------------------------------------------------------------
(* Scans.                                                                  *)

\* The rows the session has inserted and holds, wherever they are.
OwnRows(s) == pending[s] \cup flush[s].rows \cup RowsOf(mine[s])

\* What a statement that starts now has to see.
Visible(s) == RowsOf(stripes) \cup OwnRows(s)

\* columnar_scan_begin: the stripes the snapshot sees are resolved once.  `view` records
\* what the scan owes its statement.
BeginScan(s) ==
    scan' = [scan EXCEPT ![s] =
                [open |-> TRUE, done |-> FALSE, todo |-> stripes \cup mine[s], out |-> {},
                 view |-> Visible(s)]]

StartSelect(s) ==
    /\ pc[s] = "ready" /\ ~scan[s].open
    /\ scans < MaxScans
    /\ scans' = scans + 1
    /\ BeginScan(s)
    /\ Goto(s, "select")
    /\ UNCHANGED <<pages, meta, stripes, mine, pending, flush, stmt, subs, kept,
                   durable, inserts, crashes>>

StartSelfInsert(s) ==
    /\ 2 * Cardinality(Visible(s)) <= MaxCopied
    /\ pc[s] = "ready" /\ ~scan[s].open
    /\ inserts < MaxInserts
    /\ inserts' = inserts + 1
    /\ stmt' = [stmt EXCEPT ![s] = [id |-> inserts + 1, next |-> 1, left |-> 0,
                                    size |-> 1, bulk |-> FALSE, self |-> TRUE]]
    /\ BeginScan(s)
    /\ Goto(s, "insert")
    /\ UNCHANGED <<pages, meta, stripes, mine, pending, flush, subs, kept,
                   durable, scans, crashes>>

\* A scan advances when its statement asks for a row: a self-insert does when it has
\* inserted every row of the last batch.
Wanted(s) ==
    /\ scan[s].open /\ ~scan[s].done
    /\ pc[s] = "select" \/ (pc[s] = "insert" /\ stmt[s].self /\ stmt[s].left = 0)

\* The batch `rows` reaches the statement, which inserts a copy of each if it is an INSERT.
Deliver(s, rows, rest, done) ==
    /\ scan' = [scan EXCEPT ![s].out = @ \cup rows, ![s].todo = rest, ![s].done = done]
    /\ stmt' = IF pc[s] = "insert" THEN [stmt EXCEPT ![s].left = Cardinality(rows)] ELSE stmt
    /\ UNCHANGED <<pages, meta, stripes, mine, pending, flush, pc, subs, kept,
                   durable, inserts, scans, crashes>>

\* load_next_batch: the next stripe in row-number order (one that does not decode raises
\* an error, so the session can only abort) ...
FetchStripe(s) ==
    /\ Wanted(s)
    /\ \E st \in scan[s].todo :
         /\ \A t \in scan[s].todo : st.base <= t.base
         /\ Decodes(st)
         /\ Deliver(s, Decode(st), scan[s].todo \ {st}, FALSE)

\* A fault: a scan that forgets the session's unflushed rows.
FetchPendingNothing(s) ==
    /\ Wanted(s) /\ scan[s].todo = {}
    /\ Deliver(s, {}, {}, TRUE)

\* ... and after the last stripe the rows then in the backend's buffer.
FetchPending(s) ==
    /\ Wanted(s) /\ scan[s].todo = {}
    /\ Deliver(s, pending[s], {}, TRUE)

EndSelect(s) ==
    /\ pc[s] = "select" /\ scan[s].done
    /\ scan' = [scan EXCEPT ![s] = NoScan]
    /\ Goto(s, "ready")
    /\ UNCHANGED <<pages, meta, stripes, mine, pending, flush, stmt, subs, kept,
                   durable, inserts, scans, crashes>>

-----------------------------------------------------------------------------
(* Transactions, subtransactions and crashes.                              *)

Begin(s) ==
    /\ pc[s] = "idle"
    /\ Goto(s, "ready")
    /\ UNCHANGED <<pages, meta, stripes, mine, pending, flush, stmt, scan, subs, kept,
                   durable, inserts, scans, crashes>>

\* A fault: no XactCallback, so nothing is flushed at commit.
PreCommitNoFlush(s) ==
    /\ pc[s] = "ready"
    /\ Goto(s, "commit")
    /\ UNCHANGED <<flush, pending, pages, meta, stripes, mine, stmt, scan, subs, kept,
                   durable, inserts, scans, crashes>>

\* columnar_xact_flush at PRE_COMMIT
PreCommit(s) ==
    /\ pc[s] = "ready"
    /\ \/ /\ pending[s] # {}
          /\ StartFlush(s, pending[s], "commit")
       \/ /\ pending[s] = {}
          /\ Goto(s, "commit")
          /\ UNCHANGED <<flush, pending>>
    /\ UNCHANGED <<pages, meta, stripes, mine, stmt, scan, subs, kept,
                   durable, inserts, scans, crashes>>

Committed(st) == [id |-> st.id, base |-> st.base, count |-> st.count,
                  header |-> st.header, sub |-> 0]

AllWritten == [pages |-> Len(pages), meta |-> meta]

\* The commit record, flushed together with all the WAL before it.
Commit(s) ==
    /\ pc[s] = "commit"
    /\ stripes' = stripes \cup {Committed(st) : st \in mine[s]}
    /\ mine' = [mine EXCEPT ![s] = {}]
    /\ kept' = [kept EXCEPT ![s] = {}]
    /\ subs' = [subs EXCEPT ![s] = <<>>]
    /\ durable' = AllWritten
    /\ Goto(s, "idle")
    /\ UNCHANGED <<pages, meta, pending, flush, stmt, scan, inserts, scans, crashes>>

\* A fault: WRITE_STATES is not cleared at XACT_EVENT_ABORT.
ForgetKeepsBuffer(S) ==
    /\ mine' = [s \in Sessions |-> IF s \in S THEN {} ELSE mine[s]]
    /\ flush' = [s \in Sessions |-> IF s \in S THEN NoFlush ELSE flush[s]]
    /\ stmt' = [s \in Sessions |-> IF s \in S THEN NoStmt ELSE stmt[s]]
    /\ scan' = [s \in Sessions |-> IF s \in S THEN NoScan ELSE scan[s]]
    /\ pc' = [s \in Sessions |-> IF s \in S THEN "idle" ELSE pc[s]]
    /\ subs' = [s \in Sessions |-> IF s \in S THEN <<>> ELSE subs[s]]
    /\ kept' = [s \in Sessions |-> IF s \in S THEN {} ELSE kept[s]]
    /\ UNCHANGED pending

\* What an abort clears in the sessions of S: WRITE_STATES, and what PostgreSQL unwinds.
Forget(S) ==
    /\ mine' = [s \in Sessions |-> IF s \in S THEN {} ELSE mine[s]]
    /\ pending' = [s \in Sessions |-> IF s \in S THEN {} ELSE pending[s]]
    /\ flush' = [s \in Sessions |-> IF s \in S THEN NoFlush ELSE flush[s]]
    /\ stmt' = [s \in Sessions |-> IF s \in S THEN NoStmt ELSE stmt[s]]
    /\ scan' = [s \in Sessions |-> IF s \in S THEN NoScan ELSE scan[s]]
    /\ pc' = [s \in Sessions |-> IF s \in S THEN "idle" ELSE pc[s]]
    /\ subs' = [s \in Sessions |-> IF s \in S THEN <<>> ELSE subs[s]]
    /\ kept' = [s \in Sessions |-> IF s \in S THEN {} ELSE kept[s]]

\* ROLLBACK, or an error at any step, those of a flush included
Abort(s) ==
    /\ pc[s] # "idle"
    /\ Forget({s})
    /\ UNCHANGED <<pages, meta, stripes, durable, inserts, scans, crashes>>

\* Recovery replays the flushed WAL: all that was written, or only what the last commit
\* record covers, and then the pages extended since are gone or remain, zeroed.  (To
\* lose the end of what was written is to crash before writing it.)
Crash ==
    /\ crashes < MaxCrashes
    /\ crashes' = crashes + 1
    /\ \/ UNCHANGED <<pages, meta>>
       \/ /\ \E n \in {durable.pages, Len(pages)} :
               pages' = [b \in 1 .. n |-> IF b <= durable.pages THEN pages[b] ELSE Zeroed]
          /\ meta' = durable.meta
    /\ durable' = AllWritten'
    /\ Forget(Sessions)
    /\ UNCHANGED <<stripes, inserts, scans>>

Savepoint(s) ==
    /\ pc[s] = "ready" /\ Len(subs[s]) < MaxDepth
    /\ subs' = [subs EXCEPT ![s] = Append(@, kept[s])]
    /\ UNCHANGED <<pages, meta, stripes, mine, pending, flush, stmt, scan, pc, kept,
                   durable, inserts, scans, crashes>>

Release(s) ==
    LET depth == Len(subs[s]) IN
    /\ pc[s] = "ready" /\ depth > 0
    /\ subs' = [subs EXCEPT ![s] = SubSeq(@, 1, depth - 1)]
    /\ mine' = [mine EXCEPT ![s] =
                 {IF st.sub = depth THEN [st EXCEPT !.sub = depth - 1] ELSE st : st \in @}]
    /\ UNCHANGED <<pages, meta, stripes, pending, flush, stmt, scan, pc, kept,
                   durable, inserts, scans, crashes>>

\* ROLLBACK TO SAVEPOINT, on its own or after an error of the current statement: the
\* catalog rows go, the buffer stays as it is (no SubXactCallback looks at WRITE_STATES).
RollbackTo(s) ==
    LET depth == Len(subs[s]) IN
    /\ depth > 0
    /\ pc[s] \in {"ready", "insert", "select"} \/ (pc[s] = "flush" /\ flush[s].then # "commit")
    /\ mine' = [mine EXCEPT ![s] = {st \in @ : st.sub < depth}]
    /\ kept' = [kept EXCEPT ![s] = subs[s][depth]]
    /\ flush' = [flush EXCEPT ![s] = NoFlush]
    /\ stmt' = [stmt EXCEPT ![s] = NoStmt]
    /\ scan' = [scan EXCEPT ![s] = NoScan]
    /\ Goto(s, "ready")
    /\ UNCHANGED <<pages, meta, stripes, pending, subs, durable, inserts, scans, crashes>>

-----------------------------------------------------------------------------
Init ==
    /\ pages = <<>>
    /\ meta = [rows |-> 0, stripe |-> 0]
    /\ stripes = {}
    /\ mine = [s \in Sessions |-> {}]
    /\ pending = [s \in Sessions |-> {}]
    /\ flush = [s \in Sessions |-> NoFlush]
    /\ stmt = [s \in Sessions |-> NoStmt]
    /\ scan = [s \in Sessions |-> NoScan]
    /\ pc = [s \in Sessions |-> "idle"]
    /\ subs = [s \in Sessions |-> <<>>]
    /\ kept = [s \in Sessions |-> {}]
    /\ durable = AllWritten
    /\ inserts = 0 /\ scans = 0 /\ crashes = 0

FlushStep(s) ==
    \/ WriteChunkPage(s) \/ ReserveRows(s) \/ ReserveStripe(s)
    \/ WriteDirectory(s) \/ WriteHeader(s) \/ Publish(s)

Statement(s) ==
    \/ \E n \in 1 .. MaxStmtRows, size \in {1, Budget + 1}, bulk \in BOOLEAN :
         StartInsert(s, n, size, bulk)
    \/ FlushFirst(s) \/ PushRow(s) \/ EndInsert(s)
    \/ StartSelect(s) \/ StartSelfInsert(s)
    \/ FetchStripe(s) \/ FetchPending(s) \/ EndSelect(s)

Transaction(s) ==
    \/ Begin(s) \/ PreCommit(s) \/ Commit(s) \/ Abort(s)
    \/ Savepoint(s) \/ Release(s) \/ RollbackTo(s)

Next ==
    \/ \E s \in Sessions : FlushStep(s) \/ Statement(s) \/ Transaction(s)
    \/ Crash

Spec == Init /\ [][Next]_vars

-----------------------------------------------------------------------------
(* Properties.                                                             *)

Stripe == [id : Nat, base : Nat, count : Nat, header : Nat, sub : 0 .. MaxDepth]

Page == [kind : {"chunk"}, rows : SUBSET Row, col : 1 .. Columns, part : 1 .. ChunkPages]
        \cup [kind : {"dir"}, first : [1 .. Columns -> Nat]]
        \cup [kind : {"header"}, dir : Nat] \cup {Zeroed}

\* The type invariant: in particular a session buffers rows and flushes only inside a
\* transaction, and a flush names blocks that exist.
TypeOK ==
    /\ pages \in Seq(Page)
    /\ meta \in [rows : Nat, stripe : Nat]
    /\ stripes \subseteq Stripe
    /\ mine \in [Sessions -> SUBSET Stripe]
    /\ pending \in [Sessions -> SUBSET Row]
    /\ kept \in [Sessions -> SUBSET Row]
    /\ pc \in [Sessions -> {"idle", "ready", "insert", "select", "flush", "commit"}]
    /\ \A s \in Sessions :
         /\ flush[s] # NoFlush <=> pc[s] = "flush"
         /\ flush[s] # NoFlush => flush[s].dir \in Blocks \cup {0}
         /\ Len(subs[s]) <= MaxDepth
         /\ pc[s] = "idle" => /\ pending[s] = {} /\ mine[s] = {} /\ ~scan[s].open
    /\ durable.pages <= Len(pages)

Published == stripes \cup UNION {mine[s] : s \in Sessions}

\* Every stripe the catalog names decodes to as many rows as it says, and no row is in
\* two of them: the pages are written before the catalog row, survive every crash that
\* the catalog row survives, and are never those of another stripe.
CommittedReadable ==
    /\ \A st \in Published : Decodes(st) /\ Cardinality(Decode(st)) = st.count
    /\ \A s, t \in Published : s # t => Decode(s) \cap Decode(t) = {}

\* The row numbers and ids of published stripes never overlap, whoever flushed them and
\* whatever aborted or crashed in between (reserve's read-modify-write): the catalog's
\* primary key and the scan order rest on it.
ReservedDisjoint ==
    \A s, t \in Published :
        s # t => /\ s.id # t.id
                 /\ s.base + s.count <= t.base \/ t.base + t.count <= s.base

\* A backend never holds more than maintenance_work_mem of rows in memory, buffered or
\* being flushed, except for one row that is larger by itself.
PendingBounded ==
    \A s \in Sessions :
        LET held == pending[s] \cup flush[s].rows
        IN Bytes(held) <= Budget \/ Cardinality(held) = 1

\* A session's transaction holds exactly the rows it inserted and did not roll back: a
\* rollback discards the buffered rows and no flush loses any.
ExactlyKept == \A s \in Sessions : OwnRows(s) = kept[s]

\* What the table promises to SELECTs and transactions.  It says nothing of the source scan
\* of a self-insert, which may deliver rows the statement has itself buffered, nor of how
\* much a ROLLBACK TO undoes, which is ExactlyKept.
Promise == INSTANCE AppendTable WITH
    Rows <- Row,
    table <- RowsOf(stripes),
    own <- [s \in Sessions |-> OwnRows(s)],
    cursor <- [s \in Sessions |->
                 IF scan[s].open /\ pc[s] = "select"
                 THEN [open |-> TRUE, view |-> scan[s].view, answered |-> scan[s].done,
                       answer |-> IF scan[s].done THEN scan[s].out ELSE {}]
                 ELSE [open |-> FALSE]]

\* Buffering, flushing, publishing and recovery implement an append-only transactional
\* table: commits and aborts are atomic, and a SELECT answers with its snapshot.
AppendOnly == Promise!Spec
================================================================================
