------------------------------ MODULE VectorIndex ------------------------------
(***************************************************************************)
(* One theodb_hnsw or theodb_ivfflat index on its heap table: the pages of *)
(* the live generation, the pending region that INSERTs append to, and     *)
(* VACUUM, which tombstones dead entries in place or folds everything into *)
(* a new generation (theodb_rs/src/am/build.rs, fold.rs, page/mod.rs).     *)
(*                                                                         *)
(* Each page written by a fold is an action, since a crash or a cancel may *)
(* fall between any two; INSERTs and scans are kept out by the advisory    *)
(* lock of lock.rs.  A scan reads the index in one go, under the lock, and *)
(* is the operator Stored rather than an action.                           *)
(*                                                                         *)
(* Abstractions.  A vector is a model value; rows with a NULL vector, which *)
(* are not indexed, are left out.  The graph's links, or the directory,    *)
(* centroids and codebooks of an IVF, are one page of the generation, and  *)
(* every entry is reachable while that page is in its place.  A page that  *)
(* is not of pending items is one that read_pending refuses.  A DELETE     *)
(* commits at once and no snapshot delays VACUUM.  Losing the end of the   *)
(* WAL is crashing earlier.                                                *)
(***************************************************************************)
EXTENDS Integers, FiniteSets, Sequences

CONSTANTS
    Tids,        \* heap tuple ids
    Vectors,
    Sessions,    \* backends that insert
    Layouts,     \* kinds of index: "hnsw", "ivf" (v2/v3), "aq" (IVF v4 to v8)
    PerPage,     \* entries that fit a page
    SlotReuse,   \* the GUC theodb.hnsw_slot_reuse
    CompactPct,  \* the GUC theodb.hnsw_tombstone_compact_pct
    Threshold,   \* the GUC theodb.vacuum_pending_threshold
    FoldCap,     \* the GUC theodb.vacuum_fold_max_mb, in pages; 0 for none
    MaxBlocks,   \* bound: pages of the index
    MaxInserts,  \* bound: rows inserted
    MaxVacuums,  \* bound: VACUUMs started
    MaxCuts      \* bound: crashes and cancels

ASSUME LayoutAssumption == Layouts \subseteq {"hnsw", "ivf", "aq"}
ASSUME GucAssumption ==
    /\ SlotReuse \in BOOLEAN /\ CompactPct \in 0 .. 100 /\ FoldCap \in Nat
    /\ PerPage \in Nat \ {0} /\ Threshold \in Nat \ {0}
ASSUME BoundAssumption ==
    /\ MaxBlocks \in Nat /\ MaxInserts \in Nat /\ MaxVacuums \in Nat /\ MaxCuts \in Nat
ASSUME TidAssumption == IsFiniteSet(Tids)

\* What an entry says: this heap tuple has this vector.
Pair == [tid : Tids, vec : Vectors]

\* An element of a generation: `churned` is "its version is not 0".
Element == [tid : Tids, vec : Vectors, deleted : BOOLEAN, churned : BOOLEAN]

VARIABLES
    layout,   \* the kind of this index
    heap,     \* tid -> the heap tuple
    txn,      \* session -> its open transaction: share lock held, tuples inserted
    meta,     \* block 0: the first block and the number of blocks of the live generation
    pages,    \* block 1 on
    vac,      \* the VACUUM in progress
    inserts, vacuums, cuts \* budgets

index == <<meta, pages>>
budgets == <<inserts, vacuums, cuts>>
vars == <<layout, heap, txn, meta, pages, vac, inserts, vacuums, cuts>>

Free == [state |-> "free"]
Tuple(state, v) == [state |-> state, vec |-> v]
NoTxn == [shared |-> FALSE, rows |-> {}]
NoVacuum == [pc |-> "idle", dead |-> {}, exclusive |-> FALSE]

\* A page of pending items and the pages of a generation: elements, and the directory
\* (ivf) or the links (hnsw).  An emptied page reads as pending.
PendingPage(items) == [kind |-> "pending", items |-> items]
BodyPage(elements) == [kind |-> "body", items |-> elements]
Directory == [kind |-> "directory", items |-> {}]
Empty == PendingPage({})

-----------------------------------------------------------------------------
(* Reading the index.                                                      *)

GenEnd == meta.first + meta.npages
Generation == meta.first .. (GenEnd - 1)

\* [pending_start, nblocks)
PendingBlocks == GenEnd .. Len(pages)

\* read_pending accepts every page; otherwise scans and folds raise "REINDEX".
Readable == \A b \in PendingBlocks : pages[b].kind = "pending"

Pairs(items) == {[tid |-> i.tid, vec |-> i.vec] : i \in items}
Elements == UNION {pages[b].items : b \in Generation}

\* The directory comes first in an ivf, the links last in an hnsw.
DirectoryBlock == IF layout = "hnsw" THEN GenEnd - 1 ELSE meta.first

\* The entries a scan or a fold finds in the generation (tombstones are skipped) and the
\* well-formed pending items
Enumerated ==
    IF meta.npages > 0 /\ pages[DirectoryBlock].kind = "directory"
    THEN Pairs({e \in Elements : ~e.deleted}) ELSE {}
Pending == UNION {pages[b].items : b \in {c \in PendingBlocks : pages[c].kind = "pending"}}

\* What a scan that does not raise gathers.
Stored == Enumerated \cup Pending

-----------------------------------------------------------------------------
(* Sessions.                                                               *)

NobodyShares == \A s \in Sessions : ~txn[s].shared

\* insert_inplace: a tombstoned slot of the generation becomes the new element.  Which
\* ones have the right level and are not the entry's is left open.
Revive(t, v) ==
    \E b \in Generation : \E e \in {e \in pages[b].items : e.deleted} :
        pages' = [pages EXCEPT ![b].items =
                    (@ \ {e}) \cup {[tid |-> t, vec |-> v, deleted |-> FALSE, churned |-> TRUE]}]

\* append_pending: into the last page if it lies in the pending region and has room
\* (whatever it holds), else into a new page.
AppendPending(t, v) ==
    LET last == Len(pages)
        item == [tid |-> t, vec |-> v]
    IN IF last \in PendingBlocks /\ Cardinality(pages[last].items) < PerPage
       THEN pages' = [pages EXCEPT ![last].items = @ \cup {item}]
       ELSE /\ last < MaxBlocks
            /\ pages' = Append(pages, PendingPage({item}))

\* INSERT of a row into the free tuple t: aminsert, under the share lock until the
\* transaction ends.
Insert(s, t, v) ==
    /\ ~vac.exclusive
    /\ inserts < MaxInserts
    /\ heap[t] = Free
    /\ inserts' = inserts + 1
    /\ heap' = [heap EXCEPT ![t] = Tuple("open", v)]
    /\ txn' = [txn EXCEPT ![s] = [shared |-> TRUE, rows |-> @.rows \cup {t}]]
    /\ \/ SlotReuse /\ layout = "hnsw" /\ Revive(t, v)
       \/ AppendPending(t, v)
    /\ UNCHANGED <<layout, meta, vac, vacuums, cuts>>

\* A query through the index takes the share lock too, and keeps it.
Scan(s) ==
    /\ ~vac.exclusive /\ ~txn[s].shared
    /\ txn' = [txn EXCEPT ![s].shared = TRUE]
    /\ UNCHANGED <<layout, heap, index, vac, budgets>>

\* COMMIT or ROLLBACK
End(s, outcome) ==
    /\ txn[s].shared
    /\ heap' = [t \in Tids |-> IF t \in txn[s].rows THEN [heap[t] EXCEPT !.state = outcome]
                               ELSE heap[t]]
    /\ txn' = [txn EXCEPT ![s] = NoTxn]
    /\ UNCHANGED <<layout, index, vac, budgets>>

\* DELETE (an UPDATE is a DELETE and an INSERT).  The index is not told.
Delete(t) ==
    /\ heap[t].state = "live"
    /\ heap' = [heap EXCEPT ![t].state = "dead"]
    /\ UNCHANGED <<layout, txn, index, vac, budgets>>

-----------------------------------------------------------------------------
(* VACUUM.                                                                 *)

DeadTids == {t \in Tids : heap[t].state = "dead"}

\* With dead tuples ambulkdelete runs, without any only amvacuumcleanup does.
StartVacuum ==
    /\ vac.pc = "idle"
    /\ vacuums < MaxVacuums
    /\ vacuums' = vacuums + 1
    /\ vac' = [pc |-> IF DeadTids = {} THEN "cleanup"
                      ELSE IF layout = "hnsw" THEN "sweep" ELSE "lock",
               dead |-> DeadTids, exclusive |-> FALSE, next |-> meta.first]
    /\ UNCHANGED <<layout, heap, txn, index, inserts, cuts>>

\* tombstone_sweep, one page: the dead elements of the generation, in place.  No lock:
\* sessions go on.
Sweep ==
    /\ vac.pc = "sweep" /\ vac.next \in Generation
    /\ pages' = [pages EXCEPT ![vac.next].items =
                   {IF e.tid \in vac.dead /\ ~e.deleted
                    THEN [e EXCEPT !.deleted = TRUE, !.churned = TRUE] ELSE e : e \in @}]
    /\ vac' = [vac EXCEPT !.next = @ + 1]
    /\ UNCHANGED <<layout, heap, txn, meta, budgets>>

\* The share of the generation that a tombstone or a revival has touched.
TooChurned ==
    LET churned == Cardinality({e \in Elements : e.churned}) IN
    CompactPct > 0 /\ churned * 100 > Cardinality(Elements) * CompactPct

EndSweep ==
    /\ vac.pc = "sweep" /\ vac.next \notin Generation
    /\ vac' = [vac EXCEPT !.pc = IF TooChurned THEN "lock" ELSE "reap"]
    /\ UNCHANGED <<layout, heap, txn, index, budgets>>

\* amvacuumcleanup: fold a pending region that has grown too long.
Cleanup ==
    /\ vac.pc = "cleanup"
    /\ vac' = [vac EXCEPT !.pc = IF Cardinality(PendingBlocks) > Threshold THEN "lock" ELSE "reap"]
    /\ UNCHANGED <<layout, heap, txn, index, budgets>>

\* The fold has no path for the AQ layouts, nor for an index over the memory cap.
CanFold == layout # "aq" /\ (FoldCap = 0 \/ Len(pages) < FoldCap)

\* A fault: the dead of the pending region are folded like the rest.
SurvivorsPendingToo == {p \in Enumerated : p.tid \notin vac.dead} \cup Pending

\* A fault: the new generation is built over the old one alone.
SurvivorsEnumerated == {p \in Enumerated : p.tid \notin vac.dead}

\* The entries the new generation is built over.
Survivors == {p \in Stored : p.tid \notin vac.dead}

\* The pages of a generation of the pairs P, filled in some order (an empty graph has none).
Body(P) ==
    LET n == Cardinality(P)
        order == CHOOSE f \in [1 .. n -> P] : \A i, j \in 1 .. n : f[i] = f[j] => i = j
        element(i) == [tid |-> order[i].tid, vec |-> order[i].vec,
                       deleted |-> FALSE, churned |-> FALSE]
        full == [p \in 1 .. (n + PerPage - 1) \div PerPage |->
                   BodyPage({element(i) : i \in {k \in 1 .. n : (k - 1) \div PerPage = p - 1}})]
    IN IF layout # "hnsw" THEN <<Directory>> \o full
       ELSE IF n = 0 THEN <<>> ELSE Append(full, Directory)

\* free_region: the dead blocks below the live generation if `need` pages fit, else the
\* end of the file.
FreeRegion(start, need) == IF start > 1 /\ start - 1 >= need THEN 1 ELSE Len(pages) + 1

\* vacuum_rebuild, from the exclusive lock to the packed generation; a pending region
\* that does not read raises.
BeginFold ==
    /\ vac.pc = "lock"
    /\ NobodyShares
    /\ \/ /\ ~CanFold
          /\ vac' = [vac EXCEPT !.pc = "reap", !.exclusive = TRUE]
       \/ /\ CanFold /\ Readable
          /\ LET body == Body(Survivors)
                 base == FreeRegion(meta.first, Len(body))
             IN /\ base + Len(body) - 1 <= MaxBlocks
                /\ vac' = [pc |-> "write", dead |-> vac.dead, exclusive |-> TRUE,
                           body |-> body, base |-> base, next |-> 1]
       \/ /\ CanFold /\ ~Readable
          /\ vac' = NoVacuum
    /\ UNCHANGED <<layout, heap, txn, index, budgets>>

\* A body page of the new generation, in place or at the end.
WritePage ==
    LET b == vac.base + vac.next - 1 IN
    /\ vac.pc = "write" /\ vac.next <= Len(vac.body)
    /\ pages' = IF b <= Len(pages) THEN [pages EXCEPT ![b] = vac.body[vac.next]]
                ELSE Append(pages, vac.body[vac.next])
    /\ vac' = [vac EXCEPT !.next = @ + 1]
    /\ UNCHANGED <<layout, heap, txn, meta, budgets>>

\* A fault: the meta page is counted as a page of the generation.
PivotCountsMeta ==
    /\ vac.pc = "write" /\ vac.next > Len(vac.body)
    /\ meta' = [first |-> vac.base, npages |-> Len(vac.body) + 1]
    /\ vac' = [vac EXCEPT !.pc = "reclaim", !.next = vac.base + Len(vac.body)]
    /\ UNCHANGED <<layout, heap, txn, pages, budgets>>

\* A fault: the directory, or the page of links, is not counted.
PivotCountsElements ==
    /\ vac.pc = "write" /\ vac.next > Len(vac.body)
    /\ meta' = [first |-> vac.base, npages |-> Len(vac.body) - 1]
    /\ vac' = [vac EXCEPT !.pc = "reclaim", !.next = vac.base + Len(vac.body)]
    /\ UNCHANGED <<layout, heap, txn, pages, budgets>>

\* pivot_meta_page, last
Pivot ==
    /\ vac.pc = "write" /\ vac.next > Len(vac.body)
    /\ meta' = [first |-> vac.base, npages |-> Len(vac.body)]
    /\ vac' = [vac EXCEPT !.pc = "reclaim", !.next = vac.base + Len(vac.body)]
    /\ UNCHANGED <<layout, heap, txn, pages, budgets>>

\* The pages after the new generation are emptied.
Reclaim ==
    /\ vac.pc = "reclaim" /\ vac.next <= Len(pages)
    /\ pages' = [pages EXCEPT ![vac.next] = Empty]
    /\ vac' = [vac EXCEPT !.next = @ + 1]
    /\ UNCHANGED <<layout, heap, txn, meta, budgets>>

EndReclaim ==
    /\ vac.pc = "reclaim" /\ vac.next > Len(pages)
    /\ vac' = [vac EXCEPT !.pc = "reap"]
    /\ UNCHANGED <<layout, heap, txn, index, budgets>>

\* The second heap pass frees the dead tuples for reuse, since every index was told of
\* them; the transaction ends and the lock with it.
Reap ==
    /\ vac.pc = "reap"
    /\ heap' = [t \in Tids |-> IF t \in vac.dead THEN Free ELSE heap[t]]
    /\ vac' = NoVacuum
    /\ UNCHANGED <<layout, txn, index, budgets>>

\* pg_cancel_backend, seen at vacuum_delay_point or while waiting
CancelVacuum ==
    /\ vac.pc # "idle"
    /\ cuts < MaxCuts
    /\ cuts' = cuts + 1
    /\ vac' = NoVacuum
    /\ UNCHANGED <<layout, heap, txn, index, inserts, vacuums>>

\* The server goes down: open transactions abort, every page written so far stays.
Crash ==
    /\ cuts < MaxCuts
    /\ cuts' = cuts + 1
    /\ vac' = NoVacuum
    /\ txn' = [s \in Sessions |-> NoTxn]
    /\ heap' = [t \in Tids |-> IF heap[t].state = "open" THEN [heap[t] EXCEPT !.state = "dead"]
                               ELSE heap[t]]
    /\ UNCHANGED <<layout, index, inserts, vacuums>>

\* REINDEX: ambuild over the rows of the heap, into a new file.
Reindex ==
    LET body == Body({[tid |-> t, vec |-> heap[t].vec] : t \in {u \in Tids : heap[u].state = "live"}})
    IN /\ vac.pc = "idle" /\ NobodyShares
       /\ Len(body) <= MaxBlocks
       /\ meta' = [first |-> 1, npages |-> Len(body)]
       /\ pages' = body
       /\ UNCHANGED <<layout, heap, txn, vac, budgets>>

-----------------------------------------------------------------------------
\* CREATE INDEX on an empty table
Init ==
    /\ layout \in Layouts
    /\ heap = [t \in Tids |-> Free]
    /\ txn = [s \in Sessions |-> NoTxn]
    /\ pages = Body({})
    /\ meta = [first |-> 1, npages |-> Len(pages)]
    /\ vac = NoVacuum
    /\ inserts = 0 /\ vacuums = 0 /\ cuts = 0

Vacuum ==
    \/ StartVacuum \/ Sweep \/ EndSweep \/ Cleanup \/ BeginFold \/ WritePage \/ Pivot
    \/ Reclaim \/ EndReclaim \/ Reap \/ CancelVacuum

Next ==
    \/ \E s \in Sessions :
         \/ \E t \in Tids, v \in Vectors : Insert(s, t, v)
         \/ Scan(s)
         \/ \E outcome \in {"live", "dead"} : End(s, outcome)
    \/ \E t \in Tids : Delete(t)
    \/ Vacuum \/ Crash \/ Reindex

Spec == Init /\ [][Next]_vars

-----------------------------------------------------------------------------
(* Properties.                                                             *)

Page == [kind : {"pending"}, items : SUBSET Pair]
        \cup [kind : {"body", "directory"}, items : SUBSET (Pair \cup Element)]

\* The type invariant; in particular the live generation lies in the file, is made of
\* elements, and the exclusive lock is VACUUM's alone.
TypeOK ==
    /\ layout \in Layouts
    /\ heap \in [Tids -> [state : {"open", "live", "dead"}, vec : Vectors] \cup {Free}]
    /\ txn \in [Sessions -> [shared : BOOLEAN, rows : SUBSET Tids]]
    /\ meta \in [first : Nat \ {0}, npages : Nat]
    /\ pages \in Seq(Page)
    /\ GenEnd - 1 <= Len(pages)
    /\ \A b \in Generation : pages[b].kind # "pending" /\ pages[b].items \subseteq Element
    /\ vac.pc \in {"idle", "sweep", "cleanup", "lock", "write", "reclaim", "reap"}
    /\ vac.dead \subseteq Tids
    /\ vac.exclusive => NobodyShares /\ vac.pc \in {"write", "reclaim", "reap"}

RowOf(t) == [tid |-> t, vec |-> heap[t].vec]

\* Every row is in the index as long as the index reads at all, whatever VACUUM was doing
\* when it was cut: the fold writes only blocks the live generation does not use, and
\* pivots last ("consistent or fail-loud, never silently wrong").
NothingLost ==
    Readable => \A t \in Tids : heap[t].state \in {"open", "live"} => RowOf(t) \in Stored

\* The index fails loud only after a fold was cut short: a fold that ends leaves nothing
\* behind that read_pending refuses.
LoudOnlyAfterCut == cuts = 0 /\ ~vac.exclusive => Readable

\* A row is ranked by its own vector: no entry of an earlier tuple with the same tid has
\* survived the VACUUM that freed it.  (The scan answers with the stored vectors and
\* asks the executor for no recheck of the order.)
StoredVectorsAreHeap ==
    Readable => \A t \in Tids : heap[t].state = "live" =>
        \A p \in Stored : p.tid = t => p = RowOf(t)

\* ... which the rebuild that every VACUUM of an ivf index with dead rows does ensures.
IvfStoredVectorsAreHeap == layout = "ivf" => StoredVectorsAreHeap
================================================================================
