------------------------------ MODULE LexicalIndex ------------------------------
(***************************************************************************)
(* The BM25 index (lexical/engine.rs, lexical/pg_backing.rs, lexical_core):*)
(* bm25_build writes a Tantivy index into memory, then replaces the files  *)
(* of the index in theodb.lexical_files and bumps its generation, statement*)
(* by statement, in the caller's transaction.  bm25_search reuses the index*)
(* its backend has open iff that was opened at the generation the snapshot *)
(* shows.  One index_id; READ COMMITTED builders.                          *)
(*                                                                         *)
(* A build leaves three files: two whose path every build shares, and a    *)
(* segment whose path is new.  The content of a file is the build's number.*)
(***************************************************************************)
EXTENDS Naturals

CONSTANTS Backends,   \* sessions
          NoIndex,    \* the backend has no index open
          MaxBuilds   \* bound: builds started

ASSUME BuildsAssumption == MaxBuilds \in Nat

\* Paths are numbers: the two shared ones, and one segment for each build.
Meta == 0
Managed == MaxBuilds + 1
Shared == {Meta, Managed}
Paths == 0..(MaxBuilds + 1)
NoFile == 0

VARIABLES files,   \* committed theodb.lexical_files: path -> build, or NoFile
          number,  \* committed lexical_index_meta.generation; 0 when there is no row
          work,    \* per backend: the open transaction and the build in it
          open,    \* per backend: IndexCache, the opened index and its generation
          builds   \* builds started

lexVars == <<files, number, work, open, builds>>

\* step: where the build is; seen: the files its DELETE's snapshot showed;
\* put and del: the uncommitted changes; own: the uncommitted generation.
Nothing == [step |-> "none", build |-> 0, seen |-> [p \in Paths |-> NoFile],
            put |-> [p \in Paths |-> NoFile], del |-> {}, own |-> 0]

LexInit ==
  /\ files = [p \in Paths |-> NoFile]
  /\ number = 0
  /\ work = [s \in Backends |-> Nothing]
  /\ open = [s \in Backends |-> NoIndex]
  /\ builds = 0

Locks(s) == {p \in Paths : work[s].put[p] # NoFile} \cup work[s].del
HeldByOther(s, p) == \E o \in Backends \ {s} : p \in Locks(o)

\* What a statement of s sees: the committed files under its own changes.
Sees(s) == [p \in Paths |-> IF work[s].put[p] # NoFile THEN work[s].put[p]
                            ELSE IF p \in work[s].del THEN NoFile ELSE files[p]]
SeesNumber(s) == IF work[s].own # 0 THEN work[s].own ELSE number
-----------------------------------------------------------------------------
Start(s) ==
  /\ work[s].step = "none"
  /\ work' = [work EXCEPT ![s].step = "idle"]
  /\ UNCHANGED <<files, number, open, builds>>

\* bm25_build up to the commit of the in-memory index: nothing is visible yet.
BuildIndex(s) ==
  /\ work[s].step = "idle" /\ builds < MaxBuilds
  /\ builds' = builds + 1
  /\ work' = [work EXCEPT ![s].step = "clear", ![s].build = builds',
                          ![s].seen = Sees(s)]
  /\ UNCHANGED <<files, number, open>>

\* DELETE FROM theodb.lexical_files: the rows of the statement's snapshot, each
\* after the transaction that holds it ends; a row that one removed is skipped.
Cleared(s) ==
  {p \in Paths : work[s].seen[p] # NoFile /\ work[s].seen[p] = Sees(s)[p]}
ClearOld(s) ==
  /\ work[s].step = "clear"
  /\ \A p \in Paths : work[s].seen[p] # NoFile => ~HeldByOther(s, p)
  /\ work' = [work EXCEPT ![s].step = "flush",
                          ![s].del = @ \cup Cleared(s),
                          ![s].put = [p \in Paths |-> IF p \in Cleared(s) THEN NoFile
                                                      ELSE @[p]]]
  /\ UNCHANGED <<files, number, open, builds>>

\* The files of the store that are still to be flushed, in HashMap order.
ToFlush(s) == {p \in Shared \cup {work[s].build} : work[s].put[p] = NoFile}

\* A fault: ON CONFLICT DO NOTHING.
FlushedKeep(s, p) ==
  IF Sees(s)[p] # NoFile THEN Sees(s)[p] ELSE work[s].build

\* INSERT ... ON CONFLICT (index_id, path) DO UPDATE SET data = EXCLUDED.data.
Flushed(s, p) == work[s].build

FlushFile(s, p) ==
  /\ work[s].step = "flush" /\ p \in ToFlush(s)
  /\ ~HeldByOther(s, p)
  /\ work' = [work EXCEPT ![s].put[p] = Flushed(s, p)]
  /\ UNCHANGED <<files, number, open, builds>>

\* A fault: the number is computed from what the transaction saw when it began.
BumpedFromNew(s) == IF work[s].own = 0 THEN 1 ELSE work[s].own + 1

\* INSERT ... ON CONFLICT DO UPDATE SET generation = generation + 1.
BumpGeneration(s) == SeesNumber(s) + 1

EndBuild(s) ==
  /\ work[s].step = "flush" /\ ToFlush(s) = {}
  /\ \A o \in Backends \ {s} : work[o].own = 0
  /\ work' = [work EXCEPT ![s].step = "idle", ![s].own = BumpGeneration(s)]
  /\ UNCHANGED <<files, number, open, builds>>

End(s) ==
  /\ work[s].step = "idle"
  /\ files' = Sees(s)
  /\ number' = SeesNumber(s)
  /\ work' = [work EXCEPT ![s] = Nothing]
  /\ UNCHANGED <<open, builds>>

\* ROLLBACK, or an error in the middle of the build.
AbortTxn(s) ==
  /\ work[s].step # "none"
  /\ work' = [work EXCEPT ![s] = Nothing]
  /\ UNCHANGED <<files, number, open, builds>>

\* The paths a build waits for.
Wants(s) == CASE work[s].step = "clear" -> {p \in Paths : work[s].seen[p] # NoFile}
              [] work[s].step = "flush" -> ToFlush(s)
              [] OTHER -> {}
\* Two first builds insert the two shared paths in the order of their own
\* HashMaps; PostgreSQL aborts one of two that wait for each other.
Deadlock(s) ==
  /\ \E o \in Backends \ {s} :
       Wants(s) \cap Locks(o) # {} /\ Wants(o) \cap Locks(s) # {}
  /\ work' = [work EXCEPT ![s] = Nothing]
  /\ UNCHANGED <<files, number, open, builds>>
-----------------------------------------------------------------------------
\* open_from_heap: Tantivy opens what meta.json names.
OpenFromHeap(s) == Sees(s)[Meta]

\* A fault: an index that is open stays open.
StaleAbsent(s) == open[s] = NoIndex
Stale(s) == open[s] = NoIndex \/ open[s].number # SeesNumber(s)

\* IndexCache::get_or_build.  `dirty`, which the code does not keep, says that
\* the transaction had rebuilt the index itself.
GetOrBuildIndex(s) ==
  IF Stale(s) THEN [number |-> SeesNumber(s), build |-> OpenFromHeap(s),
                    dirty |-> work[s].own # 0]
  ELSE open[s]

\* bm25_search with words to look for and k > 0; an index that was never built
\* has no row in lexical_index_meta and is refused.
Search(s) ==
  /\ work[s].step = "idle" /\ SeesNumber(s) # 0
  /\ open' = [open EXCEPT ![s] = GetOrBuildIndex(s)]
  /\ UNCHANGED <<files, number, work, builds>>
-----------------------------------------------------------------------------
LexNext ==
  \E s \in Backends :
    \/ Start(s)
    \/ BuildIndex(s)
    \/ ClearOld(s)
    \/ \E p \in Paths : FlushFile(s, p)
    \/ EndBuild(s)
    \/ End(s)
    \/ AbortTxn(s)
    \/ Deadlock(s)
    \/ Search(s)

LexSpec == LexInit /\ [][LexNext]_lexVars
-----------------------------------------------------------------------------
WholeStep ==
  number' # number =>
    \E s \in Backends :
      /\ work[s].own = number'
      /\ \A p \in Shared \cup {work[s].build} : files'[p] = work[s].build

\* Builders that overlap, each deleting what its own statement saw and each
\* waiting for the other's files, leave files of both; the generation that a
\* commit publishes is of one build's index all the same: its metadata, its list
\* of files and its segment.
WholeIndexCommitted == [][WholeStep]_lexVars

\* A search that reuses the index its backend opened in a transaction that had
\* not rebuilt it searches the index its snapshot shows.
CleanSearchExact ==
  \A s \in Backends :
    work[s].step = "idle" /\ SeesNumber(s) # 0 /\ ~Stale(s) /\ ~open[s].dirty
      => open[s].build = OpenFromHeap(s)
=============================================================================
