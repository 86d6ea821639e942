-------------------------------- MODULE GraphCsr --------------------------------
(***************************************************************************)
(* The persisted graph (graph.rs): an edge relation is scanned into an     *)
(* adjacency, stored in one catalog row with the time it was built and     *)
(* cached by each backend under that time.  The adjacency and what is      *)
(* found in it is GraphTraversal; here a graph is the edges it was made of.*)
(***************************************************************************)
EXTENDS Integers

CONSTANTS GraphSessions,
          EdgeRows,    \* pairs of node ids an edge relation may hold
          NoRow,
          MaxGraphBuilds \* bound: builds

\* An adjacency is the edges of the incarnation of the relation it was scanned from; a row
\* of theodb.graph_csr keeps one with the time of its build.
Adjacency == [table : 0 .. 2, rows : SUBSET EdgeRows]
Persisted == [epoch : Nat, of : Adjacency]

\* "No row" is told from a row and from a scan.
ASSUME NoRowApart == NoRow \notin Adjacency /\ NoRow \notin Persisted

VARIABLES edges,       \* [table, rows]: the committed edge relation
          csrRow,      \* its committed row in theodb.graph_csr, or NoRow
          gtxn,        \* per session: the transaction under way
          csrCache,    \* per session: CSR_CACHE, [epoch, of], or NoRow
          clock,       \* clock_timestamp(): builds are at distinct times
          traversed    \* the last traversal: what it used and what it resolved

csrVars == <<edges, csrRow, gtxn, csrCache, clock, traversed>>
-----------------------------------------------------------------------------
(* Transactions over the catalog row.                                       *)

IdleTxn == [open |-> FALSE, rr |-> FALSE, xid |-> FALSE, snapRow |-> NoRow,
            snapEdges |-> [table |-> 0, rows |-> {}], scanned |-> NoRow, own |-> NoRow,
            resolved |-> NoRow]

CsrInit ==
  /\ edges = [table |-> 1, rows |-> {}]
  /\ csrRow = NoRow
  /\ gtxn = [s \in GraphSessions |-> IdleTxn]
  /\ csrCache = [s \in GraphSessions |-> NoRow]
  /\ clock = 0
  /\ traversed = NoRow

SeenRow(s) ==
  IF gtxn[s].own # NoRow THEN gtxn[s].own ELSE IF gtxn[s].rr THEN gtxn[s].snapRow ELSE csrRow
SeenEdges(s) == IF gtxn[s].rr THEN gtxn[s].snapEdges ELSE edges

AddEdge(e) ==
  /\ e \notin edges.rows
  /\ edges' = [edges EXCEPT !.rows = @ \cup {e}]
  /\ UNCHANGED <<csrRow, gtxn, csrCache, clock, traversed>>

\* A fault: the row of a dropped relation stays.
RowAfterDropKept == csrRow

\* graph_on_drop.
RowAfterDrop == NoRow

\* DROP TABLE and a new table that gets the same oid: nobody is using the old one.
DropAndRecreate ==
  /\ edges.table = 1 /\ \A s \in GraphSessions : ~gtxn[s].open
  /\ edges' = [table |-> 2, rows |-> {}]
  /\ csrRow' = RowAfterDrop
  /\ UNCHANGED <<gtxn, csrCache, clock, traversed>>

CsrBegin(s, rr, xid) ==
  /\ ~gtxn[s].open
  /\ gtxn' = [gtxn EXCEPT ![s] = [IdleTxn EXCEPT !.open = TRUE, !.rr = rr, !.xid = xid,
                                                 !.snapRow = csrRow, !.snapEdges = edges]]
  /\ UNCHANGED <<edges, csrRow, csrCache, clock, traversed>>

\* graph_build or graph_refold, its first half: the scan.
ScanEdges(s) ==
  /\ gtxn[s].open /\ gtxn[s].scanned = NoRow /\ gtxn[s].resolved = NoRow
  /\ clock < MaxGraphBuilds
  /\ gtxn' = [gtxn EXCEPT ![s].scanned = SeenEdges(s)]
  /\ UNCHANGED <<edges, csrRow, csrCache, clock, traversed>>

\* A fault: an existing row keeps the time it was first built at.
BuiltAtKept(s) == IF SeenRow(s) # NoRow THEN SeenRow(s).epoch ELSE clock + 1

BuiltAt(s) == clock + 1

\* Its second half: the upsert, once no other transaction holds the row.
PersistCsr(s) ==
  /\ gtxn[s].scanned # NoRow
  /\ clock < MaxGraphBuilds
  /\ \A o \in GraphSessions \ {s} : gtxn[o].own = NoRow
  /\ IF gtxn[s].rr /\ gtxn[s].own = NoRow /\ csrRow # gtxn[s].snapRow
       THEN /\ gtxn' = [gtxn EXCEPT ![s] = IdleTxn]   \* could not serialize
            /\ UNCHANGED clock
       ELSE /\ gtxn' = [gtxn EXCEPT ![s].own = [epoch |-> BuiltAt(s), of |-> gtxn[s].scanned],
                                    ![s].scanned = NoRow]
            /\ clock' = clock + 1
  /\ UNCHANGED <<edges, csrRow, csrCache, traversed>>

CsrCommit(s) ==
  /\ gtxn[s].open /\ gtxn[s].scanned = NoRow /\ gtxn[s].resolved = NoRow
  /\ csrRow' = IF gtxn[s].own # NoRow THEN gtxn[s].own ELSE csrRow
  /\ gtxn' = [gtxn EXCEPT ![s] = IdleTxn]
  /\ UNCHANGED <<edges, csrCache, clock, traversed>>

CsrRollback(s) ==
  /\ gtxn[s].open
  /\ gtxn' = [gtxn EXCEPT ![s] = IdleTxn]
  /\ UNCHANGED <<edges, csrRow, csrCache, clock, traversed>>

\* load_cached_csr, its first statement: the time of the row.
ResolveCsr(s) ==
  /\ gtxn[s].open /\ gtxn[s].scanned = NoRow /\ gtxn[s].resolved = NoRow
  /\ SeenRow(s) # NoRow
  /\ gtxn' = [gtxn EXCEPT ![s].resolved = SeenRow(s)]
  /\ UNCHANGED <<edges, csrRow, csrCache, clock, traversed>>

\* A fault: what is cached is taken whenever it was built.
HitAnyEpoch(s) == csrCache[s] # NoRow

Hit(s) == csrCache[s] # NoRow /\ csrCache[s].epoch = gtxn[s].resolved.epoch

\* The rest: a hit, or a second statement, under a snapshot of its own if the
\* transaction has written; the row may have vanished by then.
LoadCsr(s) ==
  /\ gtxn[s].resolved # NoRow
  /\ LET resolved == gtxn[s].resolved
         row == IF gtxn[s].xid THEN SeenRow(s) ELSE resolved
         entry == IF Hit(s) THEN csrCache[s]
                  ELSE [epoch |-> resolved.epoch, of |-> row.of]
     IN  IF ~Hit(s) /\ row = NoRow THEN UNCHANGED <<csrCache, traversed>>
         ELSE /\ csrCache' = [csrCache EXCEPT ![s] = entry]
              /\ traversed' = [used |-> entry, resolved |-> resolved, row |-> row,
                               table |-> edges.table]
  /\ gtxn' = [gtxn EXCEPT ![s].resolved = NoRow]
  /\ UNCHANGED <<edges, csrRow, clock>>

CsrNext ==
  \/ \E e \in EdgeRows : AddEdge(e)
  \/ DropAndRecreate
  \/ \E s \in GraphSessions :
       \/ \E rr, xid \in BOOLEAN : CsrBegin(s, rr, xid)
       \/ ScanEdges(s) \/ PersistCsr(s) \/ CsrCommit(s) \/ CsrRollback(s)
       \/ ResolveCsr(s) \/ LoadCsr(s)

CsrSpec == CsrInit /\ [][CsrNext]_csrVars
-----------------------------------------------------------------------------
\* A traversal runs over the edges a build of this very relation scanned: those of
\* the row it resolved, or of the row committed before it read the bytes; never over
\* an earlier build its backend has cached, one that was rolled back, or the graph
\* of a dropped relation whose oid was used again.
TraversalReadsPersisted ==
  traversed # NoRow =>
    /\ traversed.used.of \in {traversed.resolved.of, traversed.row.of}
    /\ traversed.used.of.table = traversed.table
=============================================================================
