-------------------------------- MODULE MCStorage --------------------------------
(***************************************************************************)
(* For TLC, the components that keep data under PostgreSQL's transactions: *)
(* the columnar table, the Arrow cache, the lexical index, the graph's     *)
(* CSR and the graph's catalog.  One instance is checked at a time: "part" *)
(* says which and never changes, the variables of the others keep their    *)
(* initial values.                                                         *)
(***************************************************************************)
EXTENDS ColumnarTable, ArrowCache, LexicalIndex, GraphCsr, GraphExtract, TLC

CONSTANTS Parts,         \* the parts to check
          s0, s1, s2,    \* backends
          absent         \* no entry, no generation, no index, no row

VARIABLES part,
          pages1, meta1, stripes1, mine1, pending1, flush1, stmt1, scan1, pc1,
          subs1, kept1, durable1, inserts1, scans1, crashes1      \* the table of "session"

OneSession == {s0}
TwoSessions == {s1, s2}
OneEdge == {<<0, 1>>}
\* Two texts that name entities in opposite orders, one of them a stopword; a reply of the
\* model with a relation between entities it lists late or not at all.
TwoTexts == {<<1, 2, 4>>, <<2, 1, 3>>}
TwoReplies == {<<>>, <<<<"E", 1>>, <<"R", 1, 3>>, <<"R", 2, 1>>, <<"E", 2>>>>}
Symmetric == Permutations(TwoSessions)
-----------------------------------------------------------------------------
(* The instances.  The modules this one extends, with the constants of the *)
(* cfg, are parts "concurrent" (ColumnarTable: two backends and stripes of *)
(* one page), "cache" and "evict" (ArrowCache), "lexical", "csr" and       *)
(* "extract".  Part "session" is a table of its own with one backend,      *)
(* whose stripes have several chunks of several pages, and with savepoints *)
(* and self-inserts.                                                       *)

Alone == INSTANCE ColumnarTable WITH
  Sessions <- OneSession, Budget <- 1, Columns <- 2, ChunkPages <- 2, MaxStmtRows <- 2,
  MaxCopied <- 4, MaxInserts <- 2, MaxScans <- 1, MaxDepth <- 1, MaxCrashes <- 1,
  pages <- pages1, meta <- meta1, stripes <- stripes1, mine <- mine1, pending <- pending1,
  flush <- flush1, stmt <- stmt1, scan <- scan1, pc <- pc1, subs <- subs1, kept <- kept1,
  durable <- durable1, inserts <- inserts1, scans <- scans1, crashes <- crashes1
-----------------------------------------------------------------------------
(* One part at a time.                                                     *)

aloneVars == <<pages1, meta1, stripes1, mine1, pending1, flush1, stmt1, scan1, pc1, subs1,
               kept1, durable1, inserts1, scans1, crashes1>>
storageVars == <<part, vars, aloneVars, arrowVars, lexVars, csrVars, extractVars>>

StorageInit ==
  /\ part \in Parts
  /\ Init
  /\ Alone!Init
  /\ ArrowInit
  /\ LexInit
  /\ CsrInit
  /\ ExtractInit

\* A scan while another backend writes, or a crash, but not both in one behaviour.
OneOf == scans' + crashes' <= 1
OneOfAlone == scans1' + crashes1' <= 1

\* Of the Arrow cache, two backends over one table, and one backend over two.
OneTable == \A s \in CacheSessions : txn'[s].own.gen["u"] = NoGen /\ "u" \notin txn'[s].own.wrote
OneBackend == \E s \in CacheSessions : txn'[s] = Idle /\ \A t \in Tables : cache'[s][t] = NoEntry

StorageNext ==
  \/ /\ part = "concurrent" /\ Next /\ OneOf
     /\ UNCHANGED <<part, aloneVars, arrowVars, lexVars, csrVars, extractVars>>
  \/ /\ part = "session" /\ Alone!Next /\ OneOfAlone
     /\ UNCHANGED <<part, vars, arrowVars, lexVars, csrVars, extractVars>>
  \/ /\ part = "cache" /\ ArrowNext /\ OneTable
     /\ UNCHANGED <<part, vars, aloneVars, lexVars, csrVars, extractVars>>
  \/ /\ part = "evict" /\ ArrowNext /\ OneBackend
     /\ UNCHANGED <<part, vars, aloneVars, lexVars, csrVars, extractVars>>
  \/ /\ part = "lexical" /\ LexNext
     /\ UNCHANGED <<part, vars, aloneVars, arrowVars, csrVars, extractVars>>
  \/ /\ part = "csr" /\ CsrNext
     /\ UNCHANGED <<part, vars, aloneVars, arrowVars, lexVars, extractVars>>
  \/ /\ part = "extract" /\ ExtractNext
     /\ UNCHANGED <<part, vars, aloneVars, arrowVars, lexVars, csrVars>>

StorageSpec == StorageInit /\ [][StorageNext]_storageVars
-----------------------------------------------------------------------------
(* The columnar table.  Of ColumnarTable itself the run checks TypeOK,    *)
(* PendingBounded, CommittedReadable, ReservedDisjoint, ExactlyKept and    *)
(* AppendOnly as they stand.                                               *)

\* The table of "session" implements AppendTable too, step by step, with stripes of
\* several chunks, savepoints and INSERT .. SELECT from the table itself.  On the way its
\* state keeps its types, its memory bound, and stripes that decode.
SessionAppendOnly ==
  /\ Alone!Promise!Init
  /\ [][/\ (Alone!Promise!vars)' = Alone!Promise!vars \/ Alone!Promise!Next
        /\ Alone!TypeOK' /\ Alone!PendingBounded'
        /\ Alone!CommittedReadable']_aloneVars
-----------------------------------------------------------------------------
(* The caches and the catalogs.                                            *)

\* Of ArrowCache, LexicalIndex, GraphCsr and GraphExtract the run checks CacheExact,
\* CleanSearchExact, WholeIndexCommitted, TraversalReadsPersisted and GraphAddsUp as they
\* stand.
=============================================================================
