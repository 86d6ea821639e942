# TheoDB in TLA+

Specifications of the parts of TheoDB (`src/theodb_rs`, a PostgreSQL extension
in Rust) whose correctness depends on the order in which sessions, the
background worker, VACUUM and crashes act, or on two pieces of code that must
agree without sharing any: TLC configurations that check them on small
instances, and TLAPS proofs of what holds for every value of the constants.

Paths below are relative to `theodb_rs/src/` unless they start with `wiki/`.

## 1. The system and its parts

TheoDB adds vector search, columnar storage, full-text search, graph queries
and calls to language models to PostgreSQL. Its processes are PostgreSQL
backends, VACUUM and one background worker. They share the heap, the index
and columnar files, and ordinary catalog tables; MVCC, WAL and locks are
PostgreSQL's, and each part decides how much of them it uses. That is where
the hard behaviour is: a part that keeps state outside MVCC (pages, thread-local
buffers, a metapage, a cache) has to keep it in step with state that is inside.

| Part | State | Operations | Hard behaviour | What makes it correct |
|---|---|---|---|---|
| **Vectorizer** (`vectorizer.rs`) | the source table, `theodb.vectorizer_queue`, the embeddings, a worker's locals between its transactions | trigger on INSERT/UPDATE/DELETE; reap, claim, embed (HTTP), write, mark done or failed | workers that die or stall between transactions, expired leases, content that changes while it is embedded, coalesced jobs, poisoned batches | no change forgotten, at most one pending job a row, only the owner completes a job, the queue drains |
| **Columnar table** (`am/columnar.rs`, `am/page/mod.rs`) | a buffer per backend, the pages of the file, the metapage's counters, the catalog `columnar.stripe` | INSERT/COPY, overflow and pre-commit flush, scan, abort, savepoints | pages written outside MVCC under per-page locks, counters that survive aborts, flushes interleaved by several backends, crash between pages and catalog row | every published stripe decodes, reservations are disjoint, commits are all or nothing, scans see their snapshot |
| **Arrow cache** (`am/arrow_cache.rs`) | a batch per heap table and its generation in each backend; `columnar.cache_state` | get or build, bump by trigger, evict | generations of rolled-back transactions, snapshots | a batch served as current is the table as its snapshot shows it |
| **Columnar execution** (`am/columnar_agg.rs`, `columnar_project.rs`, `customscan.rs`, `df_executor.rs`, `columnar_codec.rs`, `zonemap.rs`) | slots, a stash and a registry of plans in each backend; directories of chunks | planner hooks, plan swap, aggregation, projection, filtered scans | planner runs and pulls that nest, errors in the middle of either, NULL and NaN, buffered rows | the answer is SQL's; a scan reads its own columns, predicates and filter |
| **Vector index maintenance** (`am/build.rs`, `fold.rs`, `lock.rs`, `mod.rs`, `page/`, `hnsw_page/store.rs`) | meta page, pages of the live generation, pending region, heap tuples, an advisory lock | aminsert, slot reuse, sweep, fold (shadow write, pivot, reclaim), idle cleanup, REINDEX | a crash or cancel between any two pages, dead regions reused, VACUUM without the lock, tuple ids that the heap reuses | no row lost, fail-loud only after a cut, stored vectors are the heap's |
| **ANN search** (`am/scan.rs`, `ann/`, `hnsw_page/`, `page/ivf.rs`) | a scan's beam and its visited set; the pages of an index | build (parallel), rescan, getnext | beams that tombstones fill, resumed scans, labels, layouts that a reader recomputes | a row the index holds is returned before the end, or was never reached; pages read back as written |
| **Lexical search** (`lexical/`, `lexical_core`) | Tantivy segments in `theodb.lexical_files`, a cached reader per backend and generation | build, search | a cached reader, a rolled-back build | a reader that is up to date answers from the committed index, whole |
| **Graph and GraphRAG** (`graph*.rs`) | edges, a persisted adjacency and its cache; entities and relations | build, drop, traverse; extract, upsert | rebuilds in two sessions, counts that accumulate | traversals agree with the edges, counts add up |
| **Hybrid search** (`hybrid.rs`) | none beyond a call | run_rrf | ties, limits, an empty leg, a filter of a wrong shape | the fused order, no row outside the filter |
| **Calls to models** (`http.rs`, `egress.rs`, `embed.rs`, `rerank.rs`, `chat.rs`, `ai_op.rs`) | per backend and endpoint: closed, open, half-open and a failure count | allow, send, retry with backoff, match answers with inputs | an error raised while a probe is out, answers in another order | an answer is that of its input, a dead endpoint is left alone |

How they interact. The vectorizer's trigger runs in user transactions and its
worker writes to user tables, which may be indexed by the vector index, so one
embedding is one `aminsert`, and a delete followed by VACUUM is what the fold
handles. The worker's calls go through `http.rs`, and so do those of reranking,
chat and graph extraction. A columnar table is reached through the table access
method; its stripes are read again by columnar execution, which the planner
hook puts in place of PostgreSQL's nodes. Index scans and INSERTs meet VACUUM at
the advisory lock of `lock.rs`; a filtered scan feeds its set of tuple ids to
the index scan below it. Hybrid search is SQL over a vector index and a text
index. Most interfaces are PostgreSQL statements, so the modules model the parts
one at a time.

The components with their status, and every hazard at its line, are listed in
`PROJECT.json`.

## 2. Modules

| Module | What it is |
|---|---|
| `Vectorizer` | the trigger, queue, worker and reaper of one vectorizer |
| `VectorizerProofs` | its theorems: types, the unique pending job, the fenced completion, no stale embedding without a job, the bound on dead letters |
| `AppendTable` | abstract: an append-only transactional table with snapshot scans |
| `ColumnarTable` | the columnar table access method; `Promise` is the refinement mapping to `AppendTable` |
| `ColumnarProofs` | its theorems, the refinement included |
| `ArrowCache` | the cached batches of heap tables, their generations and snapshots |
| `LexicalIndex` | builds and searches of one BM25 index by several backends |
| `GraphCsr` | the persisted adjacency and its cache |
| `CacheProofs` | the theorems of these three |
| `GraphExtract` | entities and relations of a text, and their concurrent upsert |
| `GraphProofs` | its theorem |
| `VectorIndex` | one vector index and its heap under INSERT, DELETE, VACUUM, crash and cancel |
| `VectorIndexProofs` | its theorems, and those of `HnswBuild` |
| `AnnScan` | one scan of a vector index, from rescan to its end |
| `IvfLayout`, `HnswLayout` | the pages of an IVF and of an HNSW index: writers and readers |
| `HnswBuild` | the parallel build of an HNSW graph |
| `VecFilter` | the filtered vector scan and its slot |
| `ProjectScan` | the projecting columnar scan and its two slots |
| `PlanSwap` | the planner hook, its stash and the swap of plan nodes |
| `ColumnarQuery` | queries over stripes, directories and buffer, against SQL |
| `ScanProofs` | the theorems of `AnnScan` and `ColumnarQuery` |
| `GraphTraversal` | neighbours, paths, levels and communities, against the edges |
| `HybridSearch` | the two legs of a hybrid search and their fusion |
| `RemoteCalls` | the circuit breaker, retries, and the answers of a batch |
| `BackendProofs` | the theorems of `VecFilter`, `ProjectScan`, `RemoteCalls` and `PlanSwap` |
| `FoldFacts` | facts about `FoldLeft` and induction, for the proofs |
| `MCVectorizer`, `MCColumnar`, `MCVectorIndex`, `MCPlanSwap`, `MCColumnarQuery`, `MCAnnScan` | the sets TLC uses for one module |
| `MCVecLive`, `MCStorage`, `MCSearch` | several instances, one at a time (section 3) |
| `MCHnswBuild` | one order of the steps of `HnswBuild` (section 3) |

Some modules hold definitions marked *A fault*: a variant of the definition
that follows, as a plausible mistake would write it. They are not part of a
specification. With the fault in place of the original the property named in
`PROJECT.json` fails, which shows that the property depends on that code.

### Vectorizer

An action is one transaction of the code, or the HTTP call between two of them.
State and code:

| Variable | Code |
|---|---|
| `source`, `emb`, `chunks` | the source table's content column, the target column, the `{target}_chunks` table |
| `jobs`, `ahead` | `theodb.vectorizer_queue` and its `ORDER BY enqueued_at` |
| `pc` | where the worker's loop is |
| `claims`, `group`, `cur`, `snap`, `outcome` | the Rust locals that outlive a transaction: claimed tuples, the batch, the job in hand, the contents read, the result of the subtransaction |

| Action | Code |
|---|---|
| `Insert`, `Update`, `Delete` | a user statement and the AFTER-row trigger |
| `ReapAndPurge`, `ClaimBatch` | the start of a worker cycle |
| `ProcessDelete` | `process_delete` and its mark |
| `ReadBatch`, `RenewGroup`, `Embed`, `WriteBatch` | `process_group`, phases A, B and C |
| `TxnRead`, `TxnCommit` | the same when `theodb.vectorizer_single_txn` is on |
| `RenewOne`, `ReadOne`, `UpsertOne`, `MarkDone`, `MarkFailed`, `MarkRaises` | `process_one`, the per-job fallback |
| `Expire` | time passing for one lease or backoff |
| `Crash` | the worker process dies; its transaction rolls back, its claims stay |

An embedding is named by the text it was made from, so "fresh" is equality with
the row's text. The worker is one process in the shipped extension; the model
takes a set, as nothing in the code relies on there being one.

### ColumnarTable

A flush is one action per buffer-locked step, because other backends run
between them: every page of a chunk, the two reservations, directory, header,
catalog row.

| Variable | Code |
|---|---|
| `pending` | `WRITE_STATES`, thread-local |
| `flush` | the locals of `flush_pending` |
| `pages`, `meta` | the file after block 0, and block 0's counters |
| `stripes`, `mine` | rows of `columnar.stripe`, committed or not |
| `stmt`, `scan` | INSERT and scan in progress |
| `subs` | open savepoints |
| `kept` | a history variable: what the user inserted and did not roll back |
| `durable` | pages and counters at the last commit record, from which a crash recovers at least |

`StartInsert`, `NextRow` (with `Overflows`, `FlushFirst`, `PushRow`),
`EndInsert` are the insert callbacks; `WriteChunkPage` ... `Publish` are
`flush_pending`; `FetchStripe`, `FetchPending`, `Deliver` are
`load_next_batch` and `getnextslot`; `PreCommit`, `Commit`, `Abort` are
`columnar_xact_flush` and PostgreSQL's part around it. After a crash, pages that
were extended but whose WAL was lost read as zeroed, or not at all.

### VectorIndex

| Variable | Code |
|---|---|
| `meta` | block 0: first block and number of blocks of the live generation |
| `pages` | block 1 on; a page is pending, body (elements) or directory |
| `heap`, `txn` | heap tuples and their state; open transactions and the share locks they hold |
| `vac` | VACUUM's locals: dead tuple ids, packed body, base, next page, exclusive lock |

| Action | Code |
|---|---|
| `Insert` | `aminsert`: slot reuse (`Revive`) or `append_pending`, under `index_shared` |
| `Scan` | an index scan's share lock; what it gathers is the operator `Stored` |
| `StartVacuum`, `Sweep`, `EndSweep`, `Cleanup` | `ambulkdelete`, `vacuum_delete_inplace`, `amvacuumcleanup` |
| `BeginFold` | `vacuum_rebuild` from the lock to the packed body, with its two skips and its error |
| `WritePage`, `Pivot`, `Reclaim`, `EndReclaim` | `fold::fold` |
| `Reap` | the heap frees the dead tuple ids; the transaction and its lock end |
| `CancelVacuum`, `Crash`, `Reindex` | a cancel, a crash, and the repair the errors ask for |

### The smaller storage modules

| Module | State and code | Actions and code |
|---|---|---|
| `ArrowCache` | `log`: the sequence of committed states; `txn`: an open transaction, its snapshot and savepoint; `cache`: the backend's batches; `blind`: tables whose writer did not see the generation row | `Write`, `WriteFails`: a user statement with its trigger; `RunCacheAggs`, `CacheRefresh`: `get_or_build`; `Columnarize`; the rest is PostgreSQL |
| `LexicalIndex` | `files`, `number`: committed `lexical_files` and `lexical_index_meta`; `work`: a build between its statements; `open`: the backend's reader | `BuildIndex`, `ClearOld`, `FlushFile`, `EndBuild`: `bm25_build`, statement by statement; `Search`: `bm25_search`; `Deadlock`: PostgreSQL ends one of two builders that wait for each other |
| `GraphCsr` | `edges`, `csrRow`: the edge relation and its row in `theodb.graph_csr`; `csrCache`: the backend's copy under its epoch | `ScanEdges`, `PersistCsr`: `graph_build`; `ResolveCsr`, `LoadCsr`: the two statements of a traversal; `DropAndRecreate`: an oid that is used again |
| `GraphExtract` | `graphRows`: entities and relations; `upserts`: what a session has still to write | `StartUpsert`: extraction, by heuristic or from a model's reply; `UpsertRow`: one `INSERT ... ON CONFLICT` and its row lock |

### The search modules

| Module | State and code | Actions and code |
|---|---|---|
| `AnnScan` | `annIndex`, the index; `ann`, the fields of `ScanState`; `annReturned`, a history of the rows given to the executor and whether they were to be rechecked | `amrescan`; `PopCandidate`, `GrowResumed`, `GrowHnsw`, `GrowIvf`, `StopAtCap`: the branches of `amgettuple`; `InsertPending`: another session |
| `HnswBuild` | `graph`, `entry`, `batch`; `worker`: the locals of a thread | each action is what a thread does under one lock: `Claim` ... `Promote`; `Join`: the end of a batch |
| `VecFilter` | `registry`: NODE_MEMBERSHIPS; `active`: SCAN_MEMBERSHIP; `pulls`, `subs`: the call stack | begin, rescan, pull and end of a node; `CatchError`, `EndXact`: the abort callbacks |
| `ProjectScan` | `wanted`, `pushed`, `scanSlots`, as above with two slots | the same, and `PlainScanStep`: a scan that is no node's |
| `PlanSwap` | `stash`: ADMIT_STASH; `planning`: planner runs under way | `PlannerEnter`, `UpperPaths`, `PlannerReturns` (the walk), `PlannerFails` |
| `ColumnarQuery` | `stripes`, `unflushed`, `inserted` | `Ask`: `begin_custom_scan` and the executor, on each of its routes |
| `RemoteCalls` | `breaker`, `call`, `now`; `streak`, `failedAt`: history | `StartIndexed`, `StartBatch`; `Fail`, `Retry`; `CancelledAtRetry`, a cancel that the warning of a retry lets in; `Unparseable`, `ReceiveIndexed`, `ReceiveChunk` |

`GraphTraversal`, `HybridSearch`, `IvfLayout` and `HnswLayout` are functions of
their input and have no actions: a property quantifies over what the operator
returns. Where SQL leaves a choice (a LIMIT among equals) `HybridSearch` returns
the set of answers.

## 3. What the runs check

Each passing run ends within five minutes on two cores.

`MCVecLive`, `MCStorage` and `MCSearch` hold several instances and check them
one at a time: the variable `part` names the one that runs and never changes,
the others keep a constant value. A behaviour of such a run is a behaviour of
one instance. A property of a module that the run extends (`Vectorizer`;
`ColumnarTable`, `ArrowCache`, `LexicalIndex`, `GraphCsr`, `GraphExtract`;
`VectorIndex`, `AnnScan`, `VecFilter`, `ProjectScan`, `PlanSwap`, `ColumnarQuery`,
`RemoteCalls`, `HnswBuild`) is checked under its own name, and holds of the constant value while
another part runs; the others say of which part they are.
The parts do not interact in the model (section 1 says how they do in the
system), so nothing is lost by it, and the state space is the sum of the parts
and not their product.

| Run | Instances | Properties |
|---|---|---|
| `VecSafety` | 2 workers, 1 row, 1 crash, sibling mode, `vectorizer_single_txn` on or off at each batch, no dead letters kept | `TypeOK`; `PendingUnique`; `DeadLetterBound`; `FencedCompletion`: a job is completed by the worker that owns it, whoever else still holds it |
| `VecLive` | *chunk*, *inplace*: 1 worker, 1 row, 2 texts, 1 crash, fair; *chunk* has a store of its own | `NoOrphanVector`: no vector of a text that is gone is left without a job; `ChunkedDrained`: the queue empties whatever the endpoint answers; `InPlaceCoverage`: a stale embedding always has a job or a dead letter; `InPlaceConverges`: every row ends fresh or dead-lettered |
| `Storage` | *concurrent*: 2 backends, one-page chunks, a scan or a crash | `TypeOK`, `PendingBounded`, `CommittedReadable`, `ReservedDisjoint`, `ExactlyKept`, `AppendOnly`: the implementation refines `AppendTable` |
| | *session*: 1 backend with a table of its own (`Alone`), 2 columns of 2 pages, wide rows, a savepoint, a crash | `SessionAppendOnly`, the same refinement |
| | *cache*, *evict*: 2 backends of one table, 1 backend of two tables and room for one batch | `CacheExact`: a clean batch is what its snapshot shows, and a backend keeps no more batches than `theodb.arrow_cache_max_entries` |
| | *lexical*: 2 backends, 3 builds | `WholeIndexCommitted`, `CleanSearchExact` |
| | *csr*: 2 sessions, 1 edge, 2 builds, a dropped relation | `TraversalReadsPersisted` |
| | *extract*: 2 ingesters, 2 texts, 2 replies of a model | `GraphAddsUp` |
| `Search` | *index*: hnsw, ivf and AQ index, 2 tuple ids, 3 INSERTs, 2 vectors, 2 VACUUMs, 1 crash or cancel | `TypeOK`, `NothingLost`, `LoudOnlyAfterCut`, `IvfStoredVectorsAreHeap`: in an IVF the stored vectors are the heap's |
| | *ann*: 3 stored rows and 1 pending in every graph of up to 2 neighbours, every assignment to 3 lists, every set of tombstones, 3 filters, one row with more labels than a record keeps | `ExhaustedMeansReturned`, `FirstBatchFills` |
| | *layout*, *pages*: the seven writers of lists, up to 3 lists of 3 rows; the three of graphs, up to 3 nodes with levels 0, 1, 2 and one too high for a page | `IndexReadsBack` |
| | *build*: 1 node, or 4 in 3 arrangements with every level up to 2, 1 or 2 threads | `GraphSound` |
| | *filter*, *project*: 2 nodes, nested pulls, subtransactions, errors | `MatchesAdmitted`, `LiveNodesRegistered`; `OwnColumnsAndPredicates` |
| | *plan*: 6 query blocks, 2 to a plan, 2 nested planner runs | `DistinctShapesSwapOwn`, `SwapFromOwnRun` |
| | *query*: 3 rows of a nullable key and value, chunks of 2 rows | `AnswerExact`, `SkipProvesNoMatch` |
| | *traversal*: every graph of up to 3 edges on 3 nodes, 3 seeds | `TraversalsExact` |
| | *hybrid*: 3 rows, every distance, filters and limits of every shape | `FusionSound` |
| | *remote*: 2 endpoints, up to 3 inputs in chunks of 2 | `AnswersAligned`, `DeadEndpointLeftAlone` |
| `VecLateDelete` | sibling mode, 1 crash | *violated* `Coverage` |
| `VecSelfTrigger` | in-place mode, fair | *violated* `Drained` |
| `ColInterleave` | 2 backends, chunks of 2 pages | *violated* `CommittedReadable` |
| `ColSavepoint` | a savepoint and a rollback to it | *violated* `ExactlyKept` |
| `IdxTidReuse` | hnsw index, 1 VACUUM, no crash | *violated* `StoredVectorsAreHeap` |
| `MisSwap` | 2 aggregates of one shape, one of which is not admitted | *violated* `SwapAnswersBlock` |
| `SkipLosesNaN` | a float column with a NaN | *violated* `SkipProvesNoMatch` |
| `ResumeLoses` | 3 rows, `ef` 1, a resumed beam | *violated* `FrontierEmptyMeansEmitted` |

### What the violated runs show

Each checks a sentence of the code, its tests or its documentation that the
code does not keep; `PROJECT.json` quotes the sentence.

* **VecLateDelete.** A delete job whose worker died is replayed after its lease
  has run out. By then the row may have been inserted again and embedded; the
  replay erases the embedding and no job is left.
* **VecSelfTrigger.** In place, the worker's UPDATE of the embedding fires the
  trigger, which queues the row again. (`VecLive` shows that the row is embedded
  all the same.)
* **ColInterleave.** The extension lock covers one page. Two flushes with
  chunks of two pages interleave, the directory records only a first block and
  a count, and both stripes commit unreadable.
* **ColSavepoint.** There is no subtransaction callback: rows buffered after a
  savepoint survive the rollback to it.
* **IdxTidReuse.** VACUUM tombstones dead elements of the graph but leaves dead
  entries of the pending region. When the heap reuses the tuple id the scan
  ranks the new row by the old vector, without asking for a recheck.
* **MisSwap.** The walk over a finished plan finds a node's admission by table,
  number of keys and arity. A block that was not admitted takes the admission of
  another block of that shape, and answers under its WHERE.
* **SkipLosesNaN.** The bounds of a chunk leave NaN out; PostgreSQL orders it
  above every number, so a chunk may be skipped that holds a match.
* **ResumeLoses.** A node that a batch expands and then evicts from its result
  is visited and no longer in the frontier: no later batch returns it.

### Deviations that no run shows

Met while modelling; each is stated here and not as a finding because no run
isolates it.

* A scan takes its backend's buffer when it has finished the stripes
  (`columnar.rs:1805`): `INSERT INTO t SELECT FROM t` reads copies it has made.
  `Numbering` in `ColumnarProofs` says how many: no more than it saw at its start.
* The Arrow cache compares generations only. A number that a rolled-back
  transaction produced is produced again by the next writer; a writer under
  REPEATABLE READ whose snapshot precedes the registration bumps nothing; either
  serves a stale batch. `CacheExact` holds with these two left out.
* An AQ codebook of an index of fewer than 16 rows is shorter than its reader
  demands (`vec/aq.rs:78`, `202`); the number of subspaces is kept in one byte
  (`hnsw_page/pack.rs:78`); and an AQ index over an empty table is refused for
  want of an entry point (`hnsw_page/pack.rs:203`), although the comment at line
  115 speaks of an empty-corpus fallback. `HnswLayout` has all three.
* A sorted aggregate is swapped without a look at the order of its keys
  (`columnar_agg.rs:2036`).
* A label key that names no label is no filter (`scan.rs:248`): an index scan under
  `labels && '{}'`, or `labels && NULL`, which no row satisfies, returns rows
  and does not ask for a recheck, although `scan.rs:155` says that while a label predicate
  is active `amgettuple` MUST. In `AnnScan` it is a filter with `labelled` and no
  `labels`; `tlc -config EmptyKey.cfg MCAnnScan` shows it (`UnmatchedAreRechecked`). For
  every other filter the claim is the one assignment of `filtering`, so it is a
  demonstration beside the runs of `PROJECT.json` and no property of theirs.
* Two workers that hold jobs of one row, an older and a newer one, write in any order: the
  older text's vector stays and no job is left. The completion is fenced by the owner, the
  write before it is not, although the claim says that several workers take "disjoint rows"
  (`vectorizer.rs:195`). Only one worker is registered (`vectorizer.rs:682`), and with one
  it cannot happen: `OneWorker` is a hypothesis of `NoOrphan` and `AlwaysCovered`.
  `tlc -config VecTwoWorkers.cfg MCVectorizer` shows it for two (`Coverage`), again beside
  the runs.
* A plain vector scan inside the pull of a filtered one reads the filter of that
  (`scan.rs:244`).
* Two threads of a parallel build can overwrite each other's back-links, so that
  a node is unreachable on layer 0, and can leave self-links and duplicates
  (`hnsw_parallel.rs:165`); the code says so. With one thread this cannot happen
  (`ListsClean`).
* The entry node of a parallel build can end without a neighbour on layer 0, so that a
  search which starts there finds it alone. `hnsw_parallel.rs:125` says "A slightly-stale
  entry still finds neighbors (connected graph)", and the test at `hnsw.rs:602` calls
  the graph "valid + connected + searchable". Nobody inserts node 0: its lists are
  only the back-links of others. A search keeps the `ef` nearest and carries them down
  (`hnsw_parallel.rs:199`), so a worker that waits on an upper layer while others insert
  nodes nearer to its own comes to the ground with none of them node 0. It needs a node 0 of
  level 2 or more, and as many insertions during the wait as a search keeps candidates.
  `tlc -config SeedAlone.cfg MCHnswBuild` shows it for 7 nodes and 4 threads
  (`EntryFindsNeighbours`); `MCHnswBuild` is the order of the steps, every one of them a step
  of `HnswBuild`. It is a demonstration beside the runs of `PROJECT.json`.
* `filter_sql`, weights and `query_vector` of a wrong JSON type are taken as
  absent (`hybrid.rs:357`, `376`), and limits are cut to 32 bits (`371`).
* The 16-bit sums of `vec/ah.rs:222` overflow from 259 subspaces on.
* The file grows at every second fold (`fold.rs:32`); TRUNCATE leaves the rows of
  the old stripes (`columnar.rs:2193`); VACUUM holds the lock of a first index
  while it waits for that of a second (`lock.rs:16`).

### Bounds and why they are enough

* Vectorizer: one row suffices for every property except interference between
  rows of a batch, because jobs of different rows meet only in the batch and
  its fallback; one row with several jobs (retry next to a newer job) is the hard
  case, and `MaxJobs` 3 or 4 leaves room for an old, a running and a new job at
  a time. `MaxDml` 3 lets a row be inserted, deleted and inserted again, the
  shortest history in which a stale job meets newer content. `MaxAttempts` 2 is
  the least with both a retry and an exhausted job. `Batch` 1 or 2. Ids are
  reused once neither the queue nor a worker mentions them.
* ColumnarTable: two backends with one flush each interleave in every order;
  `Budget` 1 makes a second row overflow the buffer, and a row of `Budget + 1`
  is wider than the buffer by itself. One crash at any step; in *concurrent*
  a behaviour has a scan or a crash, not both (`OneOf`). Two columns of two
  pages each exercise the directory.
* Arrow cache, lexical index, graph: two backends that overlap in every order.
  Two commits are a registration and a write, with a transaction of an older
  snapshot still open; three builds are an old index and two that overlap. One
  edge and one relation oid suffice for a stale adjacency. The texts name
  entities in opposite orders, with a stopword and with a relation to an entity
  that a cap leaves out.
* VectorIndex: `PerPage` 1 makes every entry a page, so that a generation of two
  rows has three pages, and page boundaries fall everywhere. Two tuple ids and
  three INSERTs, one of which must reuse a tuple id, with two VACUUMs allow a fold
  to the end, then one that would not fit the low region, or one that does.
  `CompactPct` 40 lets one of two tombstones trigger the compaction. One crash or
  cancel at any step, then REINDEX. `MaxBlocks` 9 is above what two folds can reach.
* AnnScan: with `ef` 1 the beam fills at the first row, so eviction, resumption,
  doubling and tombstones all happen with three rows. One row arrives while the
  scan runs. Records keep two labels; the label asked for is the last kept one of a row,
  one past it of another, and of the others none.
* Layouts: a chunk of 5 words and a page of 20 put page and chunk boundaries
  inside every kind of record; sizes are scaled, the arithmetic is the code's.
  A byte has 4 values in *pages*, so that a count of subspaces overflows it.
* HnswBuild: degree 1 (2 on the ground layer) forces the pruning of lists at
  the third node; two threads in batches of two meet in every pair of steps.
* VecFilter, ProjectScan, PlanSwap: nesting of two is the least with an inner
  and an outer; addresses are reused. Two blocks are the least that can be mixed
  up.
* ColumnarQuery: three rows are a full chunk group, a second one and the buffer.
* GraphTraversal: paths of two hops in tiles of two lanes, with three seeds.
* RemoteCalls: the breaker opens after two failures, for two ticks.

`CHECK_DEADLOCK FALSE` is set in `Storage`, `Search`, `IdxTidReuse`, `MisSwap`,
`SkipLosesNaN` and `ResumeLoses`: these instances end, when their budgets are
used up, the build has ended or the part is a function of its input. The
vectorizer's and the other columnar configurations check deadlock.

`SYMMETRY` permutes the two backends in `Storage` and the two workers in
`VecSafety`: their names appear nowhere else, and the properties of these runs are
invariants and step properties.

### Fairness

`FairSpec` of `Vectorizer`, and `LiveSpec` of `MCVecLive`, which extends
`Vectorizer` and instantiates it once more, have weak fairness on each worker's next step and on the expiry of each
lease. The worker is restarted by the postmaster after a crash and its loop
never waits except for its latch, with a timeout; time passes. There is no
fairness on the users, nor on the result of an HTTP call, which may fail for
ever: `Drained` and `Converges` then end in dead letters. The other modules
claim no liveness.

## 4. What is proved

Each theorem holds for every value of the constants that the named assumptions
of its module allow (the mode is one of three, limits are naturals, sentinels
differ from values, a tuple id is not a row ...); a further hypothesis is part of
its statement. The runs check the same definitions on small instances.

| Module | Theorem | States | Hypothesis |
|---|---|---|---|
| `VectorizerProofs` | `TypeCorrect` | `[]TypeOK` | |
| | `UniquePending` | `[]PendingUnique` | |
| | `Fencing` | `FencedCompletion`, a step property | |
| | `NoOrphan` | `[]NoOrphanVector` | `OneWorker`, `NothingPurged` |
| | `AlwaysCovered` | `[]Coverage` | the same, and `LateDeleteSafe` |
| | `BoundedDeadLetters` | `[]DeadLetterBound` | finitely many workers |
| `ColumnarProofs` | `TypeCorrect` | `[]TypeOK` | |
| | `MemoryBounded` | `[]PendingBounded` | |
| | `NumbersReserved` | `[]ReservedDisjoint` | |
| | `StripesReadable` | `[]CommittedReadable` | `Undisturbed` |
| | `RowsKept` | `[]ExactlyKept` | `MaxDepth = 0` |
| | `Implements` | `AppendOnly`, the refinement of `AppendTable` | |
| `VectorIndexProofs` | `TypeCorrect` | `[]TypeOK` | |
| | `RowsAreStored` | `[]NothingLost` | |
| | `LoudAfterCut` | `[]LoudOnlyAfterCut` | |
| | `IvfRanksOwnVectors` | `[]IvfStoredVectorsAreHeap` | `[]UnderCap` |
| | `PromotionsKept` | `[]EntryHighest`, a part of `GraphSound` | `BuildInputs` |
| | `GraphsSound` | `[]GraphSound` | `BuildInputs`, `LinkInputs` |
| `ScanProofs` | `BatchesFill` | `[]FirstBatchFills` | |
| | `StoppedScansReturned` | `[]ExhaustedMeansReturned` | `SetsAdmitMatches` |
| | `SkipsProveNoMatch` | `[]SkipProvesNoMatch` | `KeysAreNumbers` |
| | `AnswersAreSql` | `[]AnswerExact` | `KeysAreNumbers` |
| `CacheProofs` | `TraversalsPersisted` | `[]TraversalReadsPersisted` | |
| | `SearchesExact` | `[]CleanSearchExact` | |
| | `BuildsWhole` | `WholeIndexCommitted`, a step property | |
| | `CachedExact` | `[]CacheExact` | |
| `BackendProofs` | `DeadEndpoints` | `DeadEndpointLeftAlone`, a step property | |
| | `PullsAdmitMatches` | `[]MatchesAdmitted` | |
| | `LiveNodesKeepSets` | `[]LiveNodesRegistered` | |
| | `ScansKeepOwnPlan` | `[]OwnColumnsAndPredicates` | |
| | `AnswersOwnInputs` | `[]AnswersAligned` | |
| | `SwapsOfOwnRun` | `[]SwapFromOwnRun` | `PlanInputs` |
| | `SwapsAnswerTheirNode` | `[]DistinctShapesSwapOwn` | `PlanInputs` |
| `GraphProofs` | `IngestsAddUp` | `[]GraphAddsUp` | |

### The vectorizer

`IInv == TypeOK /\ CurOK /\ PendingUnique` is inductive. `TypeOK` alone is not:
`MarkDone` and `MarkFailed` use the job in hand, `cur[w]`, and only `CurOK` says
that a worker inside `process_one` has one. `PendingUnique` is there because the
trigger's `ON CONFLICT` target, `PendingKeys`, is what makes the retry of a
failed job safe. `Fencing` follows from `IInv` step by step: only the reap and
the two completions remove a job that is being processed.

`CoverInv` (on top of `IInv`) proves coverage. That a stale embedding has a job
is not inductive, since a job may be completed by a worker that read the row
before it changed. So the invariant follows what the worker has read:
`ReadRight(w, k)` says that the contents in hand are current *or a newer write
is queued*, for a group between reading and writing (`GroupRead`), for the
fallback (`OneRead`) and for a job about to be marked done (`Finished`); and
`SameRow` says that a claim goes on naming the row of its job. The hypotheses
are the deployment's. `OneWorker` is what `register_worker` in `lib.rs` does:
with two, the second could write the older text last. `NothingPurged` means that
no dead letter has been purged, because a purged one no longer covers its row.
`LateDeleteSafe` (in place, or no deletes) excludes the delete job that runs
after its row came back; `VecLateDelete` shows that it does harm. `NoOrphan` needs
no such hypothesis.

`DeadInv` counts: `Cardinality(failed) + Cardinality(Hands) <= Keep + Batch *
Cardinality(Working)`, where `Hands` are the jobs a worker has claimed and
not let go. A dead letter leaves the hands of its worker, a claim adds at most
`Batch` to them, a purge restores the cap. `HandsOK` says that a job is in
one of the worker's three places at a time, so that it is not counted twice.

### The columnar table

The invariant `Inv` of `ColumnarProofs` has nine parts.

* `Types`, `Control`: the variables' types, and that where a transaction is
  agrees with what its session holds (a buffer only inside a transaction, a
  flush exactly when `pc` is `"flush"`, a scan exactly for a statement that reads).
* `Placed`: the pages a flush has written so far are in the file where its locals
  say, and a published stripe has its header, its directory and the first page of
  each chunk (all its pages, if `Undisturbed`); those of a *committed* stripe lie
  below `durable.pages`, which recovery never cuts. This is the write order of
  `flush_pending` (pages, then the catalog row) against the WAL's.
* `StripesApart`, `HeldApart`: no row is in two stripes, in a stripe and in a
  buffer, or in two buffers.
* `Reserved`: the metapage's counters are above every number in a stripe or in a
  flush, no two of these overlap, and the durable counters are above the
  committed ones, so recovery gives no number out again.
* `Fresh`: a row that a statement is about to insert is new. Without it `PushRow`
  breaks `StripesApart`.
* `Scanned`: what a scan has delivered and has still to deliver is its view; and
  `INSERT INTO t SELECT FROM t` inserts at most twice as many rows as it saw. It
  reads its own copies from the buffer (section 3, deviations), and without this
  count nothing would bound the row numbers.
* `Bounded`: the bytes in the buffer.

`StripesReadable` has the hypothesis `Undisturbed`: a chunk is one page, or
there is one session. `RowsKept` has `MaxDepth = 0`, no savepoints. Both are
needed: `ColInterleave` and `ColSavepoint` are the counterexamples, and the code
guarantees neither. `Implements` has no hypothesis. It maps `PushRow` to `Insert`,
`StartSelect` to `Open`, the last `FetchPending` to `Answer`, `EndSelect` to
`Close`, a rollback to a savepoint to `Undo`, and every step of a flush to a
stutter: while a flush runs, its rows move from the buffer through the flush to
the session's stripes (`OwnAfter`), and only `Commit` moves them to the table
(`CommitRows`, `TableAfter`). The rows of a stripe that cannot be decoded still
count as the table's here; that a SELECT reaches them is `StripesReadable`.

### The vector index

`Inv == Struct /\ RowsOK /\ Kept`. `Struct` is about pages: the live generation
is a whole one (its directory where the layout puts it, no pending page within),
and a fold writes into blocks that no scan reads, below the live generation or
after all pending blocks. `RowsOK` is about the heap: an open row belongs to a
transaction that holds the share lock, which is why the fold, with the
exclusive lock, misses none; and a tuple that VACUUM has collected stays dead.
`Kept` says where the rows are in each phase: in the index until the pivot, and
also in the packed body from `BeginFold` on, so that the pivot exchanges one for
the other; after the pivot in the new generation alone, so that the reclaim may
empty the rest. `LoudAfterCut` falls out of `Kept`: without a cut the index is
readable outside a fold.

`IvfOK` adds which tuples an entry may name: none that is free, each with its own
vector. It needs the fold to happen whenever VACUUM found dead tuples, hence the
hypothesis `[]UnderCap`: `theodb.vacuum_fold_max_mb` is 0 (no cap) or the file
stays below it. Above the cap VACUUM skips the rebuild and frees the tuple
ids all the same, and a stale entry is left; `IdxTidReuse` shows the same in an
HNSW index, where tombstones do not reach the pending region.

### One scan of a vector index

The walk of a search is a loop over three changing sets. `Walking` says of them:
until the result is full, every live row met is in it, and (`Through`) every
neighbour of a row that has left the frontier has been met. A row enters the
frontier once, so the rows not yet met and the frontier together (`Ahead`) shrink
with every round, and as many rounds as there are rows end the walk
(`Round_Walks`, `Search_Finds`): the result is full, or the frontier is empty
and everything the lists lead to (`Reachable`, the least set closed under them)
has been met. Tombstones are walked through and not counted, which is `BatchesFill`.

`AnnInv` carries this through a scan. `Stopped`: a scan that stops has an empty
heap, and the rows pending at its start are in the first batch. `Searching` (an
HNSW scan that searches again): the rows of the last search are in the heap or
returned, and all searches so far have together found fewer rows than the next
one, with twice the candidates, asks for, so that when the next one brings nothing
new it has not filled its result: the graph has no more. That the searches
together stay below the next width is what makes the invariant inductive, because
a wider search of an approximate index need not contain a narrower one. `Probing`
(IVF): the last rerank gave at most its pool and the pending rows, so that a probe
of all lists that gives no more than the last has not filled its doubled pool, and
left out no candidate. A scan that resumes its beam has no such promise
(`ResumeLoses`); of it only the pending rows are proved.

A code record keeps the first `LabelK` labels of a row (`ivf_codec.rs:19-21` says that
the rest are cut off), so a scan that skips by labels may lose a row that matches by a
later one only. `ExhaustedMeansReturned` names that loss (`MatchesBeyondRecord`) and
allows no other: a row with more labels than fit, but a match among those kept, is
returned. The one hypothesis: a published set has every row of the index that matches,
which is `PullsAdmitMatches` for what `VecFilter` publishes. `MCSearch` assumes it of its
own sets, and TLC evaluates it.

### A query over a columnar table

`AnswersAreSql` compares what a query answers, on whichever route it runs, with what
SQL says of the rows that were inserted. `QueryInv` says what there is to read: the
visible chunk groups are the encodings of consecutive pieces of the inserted rows,
and the buffer has the rest (`Holds`). It is kept because a flush cuts the buffer at
multiples of `GroupRows` and nothing is lost at a cut (`Split_Facts`). The rest is
about one state, in five steps.

* Decoding gives back what was encoded, with and without a null bitmap
  (`DecodeColumn_Exact`: the n-th present value is the n-th of the stream), and also
  when the bytes of a column are copied because no visible chunk has a null
  (`DecodeGroup_Exact`).
* A group outside the range of its directory entry has no match
  (`Skipped_NoMatch`, from the bounds that `compute_minmax` records); so leaving out
  the skipped groups leaves out no row that the filter keeps (`Unskipped_Filter`),
  and the eager batch, the stream and the cells with this transaction's rows all hold
  the same matching rows in the same order (`Reads_Filter`, `Routes`).
* An average takes two columns of what DataFusion returns and shifts those after it;
  `Aggs_Laid`, by induction over the aggregates, says that each one's offset
  is that of its own columns.
* An answer from the directory alone is the least of the groups' least values, or
  the greatest; that this is the least value of the table needs that no group and
  no buffer with values is without a range, and for the greatest that the column has
  no NaN, which is what `directory_minmax` declines (`Directory_Exact`, `Zones_Ends`).
* A failed stream is answered from the eager batch, or the query fails with the two
  outcomes that the property names (`Run_Exact`).

The hypothesis `KeysAreNumbers`, that the predicate's column has no NaN, is what
`SkipLosesNaN` violates; the aggregated column may have them. That the sort of a
top-k, or of the groups, sorts is not proved: both sides use the same sort.

### The caches

Three caches are used when the number they were read under is the one that the
snapshot shows. A row lock makes the numbers of one object increase in the order
of commits; it does not make them name one content, as a rollback gives a number
back. Each proof says what a number identifies nevertheless.

* `GraphCsr`. The number is the time of the build, and `clock` never returns.
  `CsrInv` has one part for each place where a row may be: the catalog
  (`CommittedRow`), the transaction that made it (`OwnRow`, one transaction at
  most), a snapshot (`SnapshotRow`), the hands of a traversal between its two
  statements (`ResolvedRow`), the cache (`CachedRow`). A cached adjacency may have
  been loaded under an older row's time, as `load_csr` reads the bytes in a
  statement of its own, so `CachedRow` does not say that it is the adjacency
  of its row, only that every row with its time that its session can still
  resolve has that adjacency (`Agrees`).
* `LexicalIndex`. `Ahead`: a bumped generation is above the committed one and
  belongs to one open transaction. `Current`: an index opened in a transaction
  that had not rebuilt it is of a committed generation, and if that is still the
  present one, of its build. `Fit` follows a build from statement to statement:
  its DELETE has seen whatever an earlier build of the same transaction wrote, so
  that the files it commits under the shared paths are its own. This gives
  `BuildsWhole`, although overlapping builders delete only what their own
  statement saw.
* `ArrowCache`. `LogOrdered`: in the sequence of committed states generations do
  not go back, and a commit that changes the rows of a registered table gives it
  a new one. `FromLog`: a batch built in a transaction that had not changed the
  table is one of these states. `ChangesFit` says what an open transaction holds: its
  own generation is above the committed one, and a table written without a bump
  is not registered; `ApartOn`, that no two transactions hold one generation row,
  and that nobody registers a table that another is writing (CREATE TRIGGER waits
  for it). A savepoint is a transaction of its own (`Within`), since going
  back to one gives a generation back but keeps the batches. The tables in `blind`
  are excluded; that and the batches built after a write are the
  deviations named in section 3, and no assumption on the interleaving is
  made beyond them. That a backend keeps at most `Cap` batches is `RoomMade`.

### What a backend keeps between calls

`BackendProofs` is about state of a backend that no transaction owns: the
breakers of the endpoints, the slots of the custom plan nodes and the planner's stash
(the next section).

* `RemoteCalls`. `CallInv` ties the breaker to the calls: a closed one counts the
  failures in a row, an open one has the time of the last of them, a half-open one
  has waited for it (`BreakerKnows`). That is not inductive by itself: as far as it
  tells, a failure recorded at an open breaker with a low count would close it
  and forget the failures before. `CallAddressed` excludes this, as the endpoint
  of the call under way is never behind an open breaker.
  `AlignInv` adds what has come back so far: the answers of the chunks are those of
  the first owned values, in their order (`Answering`), so that when all are there
  each goes to its own row (`Aligned_Aligned`; `Owned_All` says that the fold over a
  batch keeps every value once). For the indexed route a reply that names as many
  indexes as were asked, none twice and none outside, names them all: the
  pigeonhole of `ParseIndexed_Aligned`.
* The slots. Pulls and subtransactions nest, and what an error abandons is told by
  how many subtransactions were open when a node began. `Nested` states this for
  both kinds of nodes: a subtransaction began under no more pulls than are under
  way, and the nodes of those pulls began before it, so that catching its error
  frees none of them. `Nested_Push`, `Nested_Pop`, `Nested_Open` and
  `Nested_Close` say that it is kept however the two stacks change.
* `VecFilter`. `SlotHeld`: the slot, and each value that a guard saved, is empty or
  the set of the pull it belongs to; it may be empty within a pull, after an error
  was caught there, and then admits every row. `Registered`: a live node's set is
  there and admits its matches. Only a node that is not pulled changes its set.
* `ProjectScan`. The same with two slots (`SlotsHeld`); `Entered` and
  `OwnDescriptors` say that a node's entries are those of its own plan, though a
  freed node leaves its entries behind, and that no two scans share a descriptor,
  though descriptors are reused.

### The swap of plan nodes

The walk over a finished plan finds a node's admission by its shape, so what the
swapped node answers depends on what lies in the stash. `PlanInv` has, beside the
types, `StashesOwn`: what each planner run has admitted is in the stash, or, for a
run that is waiting for one started inside it, in what that run will put back
(`saved`). This is what the guard in `theo_planner` is for; without it the
admissions of an inner run would be taken by the outer plan (`SwapsOfOwnRun`). For
blocks of which no two look the same, `SwapsAnswerTheirNode` says more: the swapped
node puts out the columns its node had, in their order, under its WHERE.
`Row_Own` proves the first half, that the row an executor assembles from its slots
by its layout is the target list again; it is an induction over target lists, as
`OfKind_Placed` is: the place of a column in the layout is its place in the
slot. `Walk_Nodes` is an induction over the walk. The hypothesis `PlanInputs` says
that the target list of a block is a sequence.

### The entity graph

`IngestsAddUp` says that an entity has one row, whose count is that of all committed
texts together, and that a relation is there in one direction only, with a row for
each of its ends (`EndsNamed`), whatever the order in which sessions upsert their rows,
wait for each other or roll back. `ExtractInv` says of an
ingestion under way that what it has written followed by what it has to write is what
`UpsertRows` makes of its text; what an extraction gives is in order, without
repetition, and no relation leaves the entities (`Dispatch_Extracted`, for the
heuristic and for a model's reply, each two folds); and `NamesAddUp` sums over
the names. An upsert adds to one row and leaves the others (`Upserted_Facts`), and
a fold of upserts adds to each row what the sequence has for it (`Folded_Adds`).

### Induction

The induction theorems of the library take a predicate, which the prover cannot
instantiate. `FoldFacts` states induction with a set in its place (`Induction`,
`SequenceInduction`), proved from the well-foundedness of `<`. What
`FoldLeft` gives for no element, for one element more and in which set its result is
(`Fold_Empty`, `Fold_Append`, `Fold_In`) follows for an operator that is a
constant of the module, so that a module instantiates `FoldFacts` once for each
operator it folds with.

### The graph of a parallel build

`PromotionsKept` is the part `EntryHighest` of `GraphSound`, and the step on which the rest
is built. A worker reads the entry and its level when it begins and decides by them whether
to offer its own node; meanwhile other workers move the entry. The invariant
`HnswInv` says that the level a worker read is not above the entry's, so that a
node that is given up is not above it either (`WorkerOK`, `Promote_Inv`); that a claimed
node is in a worker's hands or not above the entry (`ClaimedHeld`); and that a worker
which has joined has seen the counter past the batch, so that when all have,
and there is at least one, the whole batch is inserted (`Join_Inv`). The hypothesis
`BuildInputs` is what `build_parallel` is called with: a node, a worker and
a batch size of at least one. `LinkInputs` adds that a node may have a link, and that
points are numbers.

`GraphsSound` is all of `GraphSound`. `GraphInv` adds to `HnswInv` the lists (`GraphOK`) and
the locals of `insert_node` at each of its reads and writes (`LocalsOK`):

* What `select_from` returns is among the candidates, no longer than the limit, not
  empty if they are not, and without a repetition if they have none (`Select_Facts`). It is
  a sort and two folds, each by the induction of `FoldFacts` (`SortIn_Facts`,
  `Sorted_Facts`, `Diverse_Facts`).
* `Reach` is what a worker may meet on a layer. The nodes in its frontier, among those it
  found, in its pool and in its links are all from there, since it starts from such a
  node and every list it copies has only nodes of its layer (`Best_In`, `Round_In`,
  `List_In`); so what it writes leads to nodes that have the layer.
* A search keeps at least one node (`Met_In`), so the list a node gets is not empty, and a
  list that is pruned when a back-link joins it keeps one (`Pruned_Facts`). A claimed node is
  in a worker's hands or linked (`LinkedHeld`), as with the levels above.
* With one worker (`Alone`), `Reach` is narrower: the nodes claimed before, without the
  worker's own. No list can name a node that is not claimed, so none names the node until its
  worker links it: it joins no list twice, and none of its own. With others at work this is
  not so, and `ListsClean` fails.

Only one worker's lists are asked to be clean; that no node is cut off is no part of
`GraphSound`, because the code does not achieve it (section 3).

### What is model-checked only

* Liveness (`ChunkedDrained`, `InPlaceConverges`): the prover does not handle
  fairness and `ENABLED`.
* The functions of an input, `IvfLayout`, `HnswLayout`, `GraphTraversal` and
  `HybridSearch`: the layouts have `RECURSIVE` operators, of which nothing can be
  proved; the others compare two evaluations of the same input, by inductions over it
  that have not been written.
* `SessionAppendOnly` is an instance of `Implements`; the run keeps it because its
  chunks have two pages and its rows are wide.
* `InPlaceCoverage` is `AlwaysCovered` for one of the two instances of `VecLive`.

## 5. What is not modelled

Per component, with the reason, in `PROJECT.json`. Inside the modelled parts:

* Vectorizer: several vectorizers on one worker, source transactions of several
  rows, statistics, the status and pause functions.
* ColumnarTable: DROP, TRUNCATE, `ALTER TABLE` that makes a new file, several
  tables of one transaction, rescans, cursors interleaved with other
  statements, PREPARE TRANSACTION.
* Columnar execution: DataFusion itself, DISTINCT aggregates, dates as more than
  integers, joins, EXPLAIN.
* VectorIndex: back-links of an INSERT into the stored graph, legacy blob
  indexes, unlogged tables, two indexes of one table, rows with a NULL vector,
  old snapshots that delay VACUUM.
* ANN search: distances and their kernels (a model has an order of the rows),
  k-means and the training of quantisers, recall.
* Lexical search: the analysis of text and BM25 (Tantivy's).
* Graph: the syntax of PGQ patterns, the assembly of prompts.
* Calls: prompts, the read-only check of generated SQL, the address ranges of
  `egress.rs`.
* Whole components: planner costs and options, function wrappers, the vector
  type's text form, upgrade scripts, Parquet, packaging and benchmarks.

## 6. Plan

What is left, in order.

1. Prove.
   * `AppendTable`: its own type invariant, as a statement about every
     implementation.
   * `FusionSound` and `TraversalsExact`: an induction over the ranked lists and one
     over the rounds of a traversal.
2. Extend.
   * `VectorIndex`: the growth of the file over repeated folds; two indexes of
     one table and the order of their exclusive locks; back-links.
   * `ColumnarTable`: TRUNCATE with the stripes it leaves behind, cursors.
   * `Vectorizer`: two vectorizers, statements of several rows.
