------------------------------- MODULE ArrowCache -------------------------------
(***************************************************************************)
(* The heap-authoritative Arrow cache (am/arrow_cache.rs): every backend   *)
(* keeps, for each columnarized heap table, one batch of its rows and the  *)
(* generation of columnar.cache_state at which it was built.  A statement  *)
(* trigger bumps the generation inside the writing transaction; a reader   *)
(* reuses its batch iff the generation its snapshot shows is the batch's.  *)
(*                                                                         *)
(* PostgreSQL is modelled by the sequence of committed states: a READ      *)
(* COMMITTED statement sees the last one, a REPEATABLE READ transaction    *)
(* the one that was last when it began, both under the transaction's own   *)
(* changes.  The generation row is updated by its writer, so its row lock  *)
(* leaves one open transaction at a time with a bump of a table.           *)
(***************************************************************************)
EXTENDS Naturals, Sequences, FiniteSets, FiniteSetsExt

CONSTANTS CacheSessions, \* backends
          Tables,      \* heap tables
          Rows,        \* the rows a table may hold
          Cap,         \* theodb.arrow_cache_max_entries
          Levels,      \* isolation levels in use, a subset of {"rc", "rr"}
          NoGen,       \* no row in columnar.cache_state
          NoEntry,     \* no batch in the backend
          MaxCommits,  \* bound: committed transactions
          MaxWrites    \* bound: statements that write, of one transaction

\* arrow_cache_max_entries() is at least 1; "no generation" is told from a generation.
ASSUME CacheAssumption == Cap \in Nat \ {0} /\ Levels \subseteq {"rc", "rr"} /\ NoGen \notin Nat

VARIABLES log,   \* committed states: [rows: [Tables -> SUBSET Rows], gen: [Tables -> Nat or NoGen]]
          txn,   \* per backend: the open transaction and its savepoint, or Idle
          cache, \* per backend and table: the batch, or NoEntry
          blind  \* tables of which a writer's trigger did not see the generation row

arrowVars == <<log, txn, cache, blind>>

Own == [rows |-> [t \in Tables |-> {}], gen |-> [t \in Tables |-> NoGen],
        wrote |-> {}, writes |-> 0]
Idle == [level |-> "none", snap |-> 0, own |-> Own, mark |-> <<>>]

ArrowInit ==
  /\ log = << [rows |-> [t \in Tables |-> {}], gen |-> [t \in Tables |-> NoGen]] >>
  /\ txn = [s \in CacheSessions |-> Idle]
  /\ cache = [s \in CacheSessions |-> [t \in Tables |-> NoEntry]]
  /\ blind = {}

InTxn(s) == txn[s].level # "none"
Latest == log[Len(log)]
\* The committed state a statement of s reads: its snapshot.
Base(s) == IF txn[s].level = "rr" THEN log[txn[s].snap] ELSE Latest
\* Rows are toggled: a transaction's own changes are the rows it put in or took out.
Toggle(A, B) == (A \ B) \cup (B \ A)
SeenRows(s, t) == Toggle(Base(s).rows[t], txn[s].own.rows[t])
SeenGen(s, t) == IF txn[s].own.gen[t] # NoGen THEN txn[s].own.gen[t] ELSE Base(s).gen[t]

Changed(s, t) == txn[s].own.gen[t] # NoGen \/ t \in txn[s].own.wrote
\* What no other open transaction may hold for a statement of s to go on: the
\* generation row's lock, the row's lock, and for CREATE TRIGGER the table's.
GenRowFree(s, t) == \A o \in CacheSessions \ {s} : txn[o].own.gen[t] = NoGen
RowFree(s, t, r) == \A o \in CacheSessions \ {s} : r \notin txn[o].own.rows[t]
TableFree(s, t) == \A o \in CacheSessions \ {s} : t \notin txn[o].own.wrote
-----------------------------------------------------------------------------
(* Transactions: BEGIN, SAVEPOINT, ROLLBACK TO, COMMIT, ROLLBACK.  Nothing  *)
(* of this touches the thread-local cache: no callback is registered.       *)

BeginTxn(s, level) ==
  /\ ~InTxn(s)
  /\ txn' = [txn EXCEPT ![s] = [Idle EXCEPT !.level = level, !.snap = Len(log)]]
  /\ UNCHANGED <<log, cache, blind>>

SetSavepoint(s) ==
  /\ InTxn(s) /\ txn[s].mark = <<>>
  /\ txn' = [txn EXCEPT ![s].mark = <<txn[s].own>>]
  /\ UNCHANGED <<log, cache, blind>>

BackToSavepoint(s) ==
  /\ InTxn(s) /\ txn[s].mark # <<>>
  /\ txn' = [txn EXCEPT ![s].own = txn[s].mark[1], ![s].mark = <<>>]
  /\ UNCHANGED <<log, cache, blind>>

CommittedState(s) ==
  [rows |-> [t \in Tables |-> Toggle(Latest.rows[t], txn[s].own.rows[t])],
   gen  |-> [t \in Tables |-> IF txn[s].own.gen[t] # NoGen THEN txn[s].own.gen[t]
                              ELSE Latest.gen[t]]]

CommitTxn(s) ==
  /\ InTxn(s)
  /\ IF \E t \in Tables : Changed(s, t)
     THEN Len(log) <= MaxCommits /\ log' = Append(log, CommittedState(s))
     ELSE UNCHANGED log
  /\ txn' = [txn EXCEPT ![s] = Idle]
  /\ UNCHANGED <<cache, blind>>

RollbackTxn(s) ==
  /\ InTxn(s)
  /\ txn' = [txn EXCEPT ![s] = Idle]
  /\ UNCHANGED <<log, cache, blind>>
-----------------------------------------------------------------------------
(* The statement trigger columnar._invalidate.                              *)

\* Whether the trigger is on the table: committed with the registration, or
\* created by this transaction.
Triggered(s, t) == Latest.gen[t] # NoGen \/ txn[s].own.gen[t] # NoGen
\* An UPDATE of a row that a later commit changed fails under REPEATABLE READ.
Serializable(s, t) ==
  \/ txn[s].level = "rc"
  \/ txn[s].own.gen[t] # NoGen
  \/ Base(s).gen[t] = Latest.gen[t]
  \/ Base(s).gen[t] = NoGen

\* A fault: the trigger is not installed for this statement.
InvalidateNot(s, t) == txn[s].own.gen[t]

\* UPDATE columnar.cache_state SET generation = generation + 1 WHERE relid = ...:
\* the row of the transaction's snapshot; a transaction that does not see the
\* row updates nothing.
Invalidate(s, t) ==
  IF SeenGen(s, t) = NoGen THEN NoGen ELSE SeenGen(s, t) + 1

\* What a write of the row r adds to the changes of s.
Written(s, t, r) ==
  [txn[s].own EXCEPT !.rows[t] = Toggle(@, {r}),
                     !.wrote = @ \cup {t},
                     !.gen[t] = IF Triggered(s, t) THEN Invalidate(s, t) ELSE @,
                     !.writes = @ + 1]

Write(s, t, r) ==
  /\ InTxn(s) /\ txn[s].own.writes < MaxWrites
  /\ GenRowFree(s, t) /\ RowFree(s, t, r)
  /\ Serializable(s, t)
  /\ txn' = [txn EXCEPT ![s].own = Written(s, t, r)]
  /\ blind' = IF Triggered(s, t) /\ SeenGen(s, t) = NoGen THEN blind \cup {t} ELSE blind
  /\ UNCHANGED <<log, cache>>

WriteFails(s, t) ==
  /\ InTxn(s) /\ GenRowFree(s, t) /\ ~Serializable(s, t)
  /\ txn' = [txn EXCEPT ![s] = Idle]
  /\ UNCHANGED <<log, cache, blind>>
-----------------------------------------------------------------------------
(* The cache.                                                               *)

Held(s) == {t \in Tables : cache[s][t] # NoEntry}

\* build_cache: the rows of the caller's snapshot.  `dirty`, which the code does
\* not keep, says that the transaction had changed the table itself.
BuildCache(s, t, gen) == [rows |-> SeenRows(s, t), gen |-> gen, dirty |-> Changed(s, t)]

\* A fault: the bound lets one entry more in.
VictimsLate(s, t) ==
  IF t \in Held(s) \/ Cardinality(Held(s)) <= Cap THEN {{}}
  ELSE kSubset(Cardinality(Held(s)) - Cap, Held(s))

\* The entries that must go before a new table comes in: any, in HashMap order.
Victims(s, t) ==
  IF t \in Held(s) \/ Cardinality(Held(s)) < Cap THEN {{}}
  ELSE kSubset(Cardinality(Held(s)) - Cap + 1, Held(s))

\* cache_state, as the thread that runs the statement reads it.
CacheState(s, t) == SeenGen(s, t)

Fresh(s, t) == cache[s][t] # NoEntry /\ cache[s][t].gen = CacheState(s, t)

GetOrBuild(s, t) ==
  /\ CacheState(s, t) # NoGen
  /\ IF Fresh(s, t) THEN UNCHANGED cache
     ELSE \E V \in Victims(s, t) :
            cache' = [cache EXCEPT ![s] = [u \in Tables |->
                        IF u = t THEN BuildCache(s, t, CacheState(s, t))
                        ELSE IF u \in V THEN NoEntry ELSE cache[s][u]]]

\* An aggregate over the whole table: the planner admits the cache when this
\* backend holds a batch of the table, and the executor rebuilds a stale one.
\* (A batch left by a registration that rolled back is an error there.)
HasCachedColumns(s, t) == cache[s][t] # NoEntry
RunCacheAggs(s, t) ==
  /\ InTxn(s) /\ HasCachedColumns(s, t)
  /\ GetOrBuild(s, t)
  /\ UNCHANGED <<log, txn, blind>>

\* theodb_cache_refresh.
CacheRefresh(s, t) ==
  /\ InTxn(s)
  /\ GetOrBuild(s, t)
  /\ UNCHANGED <<log, txn, blind>>

\* theodb_columnarize: the upsert of the generation row, the trigger (whose lock
\* waits for the table's writers), then a batch for this backend.
Registered(s, t) == [txn[s].own EXCEPT !.gen[t] = IF SeenGen(s, t) = NoGen THEN 0
                                                  ELSE SeenGen(s, t) + 1,
                                       !.writes = @ + 1]
Columnarize(s, t) ==
  /\ InTxn(s) /\ txn[s].own.writes < MaxWrites
  /\ GenRowFree(s, t) /\ TableFree(s, t)
  /\ txn[s].level = "rc" \/ txn[s].own.gen[t] # NoGen \/ Base(s).gen[t] = Latest.gen[t]
  /\ txn' = [txn EXCEPT ![s].own = Registered(s, t)]
  /\ LET gen == Registered(s, t).gen[t] IN
     IF cache[s][t] # NoEntry /\ cache[s][t].gen = gen THEN UNCHANGED cache
     ELSE \E V \in Victims(s, t) :
            cache' = [cache EXCEPT ![s] = [u \in Tables |->
                        IF u = t THEN [rows |-> SeenRows(s, t), gen |-> gen, dirty |-> TRUE]
                        ELSE IF u \in V THEN NoEntry ELSE cache[s][u]]]
  /\ UNCHANGED <<log, blind>>
-----------------------------------------------------------------------------
ArrowNext ==
  \E s \in CacheSessions :
    \/ \E level \in Levels : BeginTxn(s, level)
    \/ SetSavepoint(s)
    \/ BackToSavepoint(s)
    \/ CommitTxn(s)
    \/ RollbackTxn(s)
    \/ \E t \in Tables :
         \/ \E r \in Rows : Write(s, t, r)
         \/ WriteFails(s, t)
         \/ RunCacheAggs(s, t)
         \/ CacheRefresh(s, t)
         \/ Columnarize(s, t)

ArrowSpec == ArrowInit /\ [][ArrowNext]_arrowVars
-----------------------------------------------------------------------------
\* What a read that reuses the batch returns is what its snapshot shows.
Exact(s, t) == InTxn(s) /\ HasCachedColumns(s, t) /\ Fresh(s, t)
                 => cache[s][t].rows = SeenRows(s, t)

\* The comment of CACHE calls a reuse "snapshot-correct by construction".  It is, for
\* a table whose writers all saw the registration: a batch built by a transaction that
\* had not written the table is never served to a snapshot that differs from it, be it
\* an older REPEATABLE READ transaction's, after an eviction and a rebuild, or a writer's.
CleanEntriesExact ==
  \A s \in CacheSessions, t \in Tables :
    t \notin blind /\ HasCachedColumns(s, t) /\ ~cache[s][t].dirty => Exact(s, t)

\* M104: a backend that reads many tables keeps at most Cap batches, whatever
\* order they are built, evicted and rebuilt in.
EntriesBounded == \A s \in CacheSessions : Cardinality(Held(s)) <= Cap

\* What get_or_build promises: batches that are served are exact, and they stay few.
CacheExact == CleanEntriesExact /\ EntriesBounded
=============================================================================
