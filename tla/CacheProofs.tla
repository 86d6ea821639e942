------------------------------ MODULE CacheProofs ------------------------------
(***************************************************************************)
(* Three caches that every backend keeps under the number of the version   *)
(* it read, all of which live in catalog rows: the graph's adjacency       *)
(* (GraphCsr), the BM25 index (LexicalIndex) and the batches of            *)
(* columnarized tables (ArrowCache).  A cached copy is used when its       *)
(* number is the one the snapshot shows, so the proofs are about what such *)
(* a number identifies.                                                    *)
(***************************************************************************)
EXTENDS ArrowCache, LexicalIndex, GraphCsr, FiniteSetTheorems, TLAPS

-----------------------------------------------------------------------------
(* The graph's adjacency.                                                  *)

Row == Persisted \cup {NoRow}
GraphTxn == [open : BOOLEAN, rr : BOOLEAN, xid : BOOLEAN, snapRow : Row, snapEdges : Adjacency,
             scanned : Adjacency \cup {NoRow}, own : Row, resolved : Row]

CsrTypes ==
    /\ edges \in Adjacency
    /\ csrRow \in Row
    /\ gtxn \in [GraphSessions -> GraphTxn]
    /\ csrCache \in [GraphSessions -> Row]
    /\ clock \in Nat

\* A row that is to be read was made from the relation that is there now.
OfTable(row) == row.of.table = edges.table

\* The row r is older than the committed one, or is that.
Superseded(r) ==
    /\ csrRow # NoRow /\ r.epoch <= csrRow.epoch
    /\ r.epoch = csrRow.epoch => r = csrRow

\* The row of catalog: made before now, of this relation, and older than what an open
\* transaction, one at most, has put in its place.
CommittedRow == csrRow # NoRow => csrRow.epoch <= clock /\ OfTable(csrRow)
OwnRow(s) == gtxn[s].own # NoRow =>
    /\ gtxn[s].own.epoch <= clock /\ OfTable(gtxn[s].own) /\ gtxn[s].open
    /\ csrRow # NoRow => csrRow.epoch < gtxn[s].own.epoch
    /\ \A t \in GraphSessions : t # s => gtxn[t].own = NoRow

\* What a REPEATABLE READ transaction sees, and a scan in progress.
SnapshotRow(s) ==
    /\ gtxn[s].open => gtxn[s].snapEdges.table = edges.table
    /\ gtxn[s].open /\ gtxn[s].rr /\ gtxn[s].snapRow # NoRow =>
         Superseded(gtxn[s].snapRow) /\ OfTable(gtxn[s].snapRow)
ScannedRow(s) == gtxn[s].scanned # NoRow =>
    gtxn[s].open /\ gtxn[s].resolved = NoRow /\ gtxn[s].scanned.table = edges.table

\* Between the two statements of a traversal.
ResolvedRow(s) == gtxn[s].resolved # NoRow =>
    /\ gtxn[s].open /\ OfTable(gtxn[s].resolved)
    /\ gtxn[s].own # NoRow => gtxn[s].resolved = gtxn[s].own
    /\ gtxn[s].own = NoRow => Superseded(gtxn[s].resolved)
    /\ gtxn[s].own = NoRow /\ gtxn[s].rr => gtxn[s].resolved = gtxn[s].snapRow

\* A cached adjacency is that of every row with its time which its session may still
\* resolve.  (It need not be that of the row it was loaded under: LoadCsr.)
Agrees(s, r) == r # NoRow /\ r.epoch = csrCache[s].epoch => r.of = csrCache[s].of
CachedRow(s) == csrCache[s] # NoRow =>
    /\ csrCache[s].epoch <= clock
    /\ Agrees(s, csrRow)
    /\ \A t \in GraphSessions : Agrees(s, gtxn[t].own)
    /\ gtxn[s].open /\ gtxn[s].rr => Agrees(s, gtxn[s].snapRow)
    /\ Agrees(s, gtxn[s].resolved)

CsrRows == CommittedRow /\ \A s \in GraphSessions :
    OwnRow(s) /\ SnapshotRow(s) /\ ScannedRow(s) /\ ResolvedRow(s) /\ CachedRow(s)

CsrInv == CsrTypes /\ CsrRows /\ TraversalReadsPersisted

\* The transactions of the sessions other than s are as they were.
OthersTxn(s) == \A t \in GraphSessions : t # s => gtxn'[t] = gtxn[t]

LEMMA CsrInitially ==
  ASSUME CsrInit PROVE CsrInv
<1>1. IdleTxn \in GraphTxn /\ IdleTxn.own = NoRow /\ IdleTxn.resolved = NoRow /\ ~IdleTxn.open
      /\ IdleTxn.scanned = NoRow
  BY DEF IdleTxn, GraphTxn, Row, Adjacency
<1>2. CsrTypes
  BY <1>1 DEF CsrInit, CsrTypes, Row, Adjacency
<1>3. CsrRows
  BY <1>1 DEF CsrInit, CsrRows, CommittedRow, OwnRow, SnapshotRow, ScannedRow, ResolvedRow,
              CachedRow
<1> QED
  BY <1>2, <1>3 DEF CsrInit, CsrInv, TraversalReadsPersisted

\* Steps outside transactions: an edge is added, or the relation is dropped.
LEMMA CsrOutside ==
  ASSUME CsrInv,
         (\E e \in EdgeRows : AddEdge(e)) \/ DropAndRecreate
  PROVE  CsrInv'
<1>0. CsrTypes /\ CsrRows /\ TraversalReadsPersisted
  BY DEF CsrInv
<1>1. CASE \E e \in EdgeRows : AddEdge(e)
  <2>1. edges' \in Adjacency /\ edges'.table = edges.table
        /\ UNCHANGED <<csrRow, gtxn, csrCache, clock, traversed>>
    BY <1>0, <1>1 DEF AddEdge, CsrTypes, Adjacency
  <2>2. CsrTypes'
    BY <1>0, <2>1 DEF CsrTypes
  <2>3. CsrRows'
    BY <1>0, <2>1 DEF CsrRows, CommittedRow, OwnRow, SnapshotRow, ScannedRow, ResolvedRow,
              CachedRow, Agrees, OfTable, Superseded
  <2> QED
    BY <1>0, <2>1, <2>2, <2>3 DEF CsrInv, TraversalReadsPersisted
<1>2. CASE DropAndRecreate
  <2>1. edges' \in Adjacency /\ csrRow' = NoRow /\ (\A s \in GraphSessions : ~gtxn[s].open)
        /\ UNCHANGED <<gtxn, csrCache, clock, traversed>>
    BY <1>2 DEF DropAndRecreate, RowAfterDrop, Adjacency
  <2>2. CsrTypes'
    BY <1>0, <2>1 DEF CsrTypes, Row
  <2>3. CsrRows'
    BY <1>0, <2>1 DEF CsrRows, CommittedRow, OwnRow, SnapshotRow, ScannedRow, ResolvedRow,
              CachedRow, Agrees
  <2> QED
    BY <1>0, <2>1, <2>2, <2>3 DEF CsrInv, TraversalReadsPersisted
<1> QED
  BY <1>1, <1>2

\* BEGIN, and the end of a transaction that leaves the row alone.
LEMMA CsrTurns ==
  ASSUME CsrInv, NEW s \in GraphSessions,
         UNCHANGED <<edges, csrRow, csrCache, clock, traversed>>,
         NEW g \in GraphTxn, gtxn' = [gtxn EXCEPT ![s] = g],
         g.own = NoRow, g.scanned = NoRow, g.resolved = NoRow,
         g.open => g.snapRow = csrRow /\ g.snapEdges = edges
  PROVE  CsrInv'
<1>0. CsrTypes /\ CsrRows /\ TraversalReadsPersisted
  BY DEF CsrInv
<1>1. CsrTypes'
  BY <1>0 DEF CsrTypes
<1>2. gtxn'[s] = g /\ OthersTxn(s)
  BY <1>0 DEF CsrTypes, OthersTxn
<1>3. CommittedRow'
  BY <1>0 DEF CsrRows, CommittedRow, OfTable
<1>4. ASSUME NEW t \in GraphSessions
      PROVE  OwnRow(t)' /\ SnapshotRow(t)' /\ ScannedRow(t)' /\ ResolvedRow(t)' /\ CachedRow(t)'
  <2>0. CommittedRow /\ OwnRow(t) /\ SnapshotRow(t) /\ ScannedRow(t) /\ ResolvedRow(t)
        /\ CachedRow(t)
    BY <1>0, <1>4 DEF CsrRows
  <2>1. OwnRow(t)'
    BY <1>2, <2>0 DEF OwnRow, OfTable, OthersTxn
  <2>2. SnapshotRow(t)'
    <3>1. csrRow \in Row
      BY <1>0 DEF CsrTypes
    <3>2. csrRow # NoRow => csrRow.epoch <= csrRow.epoch
      BY <3>1 DEF Row, Persisted
    <3> QED
      BY <1>2, <2>0, <3>2 DEF SnapshotRow, Superseded, OfTable, OthersTxn, CommittedRow
  <2>3. ScannedRow(t)' /\ ResolvedRow(t)'
    BY <1>2, <2>0 DEF ScannedRow, ResolvedRow, Superseded, OfTable, OthersTxn
  <2>4. CachedRow(t)'
    BY <1>2, <2>0 DEF CachedRow, Agrees, OthersTxn
  <2> QED
    BY <2>1, <2>2, <2>3, <2>4
<1> QED
  BY <1>0, <1>1, <1>3, <1>4 DEF CsrInv, CsrRows, TraversalReadsPersisted

\* A scan starts.
LEMMA CsrScan ==
  ASSUME CsrInv, NEW s \in GraphSessions, ScanEdges(s)
  PROVE  CsrInv'
<1>0. CsrTypes /\ CsrRows /\ TraversalReadsPersisted
  BY DEF CsrInv
<1>1. PICK e : e = SeenEdges(s)
  OBVIOUS
<1>2. /\ gtxn[s].open /\ gtxn[s].scanned = NoRow /\ gtxn[s].resolved = NoRow
      /\ gtxn' = [gtxn EXCEPT ![s].scanned = e]
      /\ UNCHANGED <<edges, csrRow, csrCache, clock, traversed>>
  BY <1>1 DEF ScanEdges
<1>3. e \in Adjacency /\ e.table = edges.table
  BY <1>0, <1>1, <1>2 DEF SeenEdges, CsrTypes, GraphTxn, CsrRows, SnapshotRow
<1>4. /\ gtxn'[s].open = gtxn[s].open /\ gtxn'[s].rr = gtxn[s].rr /\ gtxn'[s].own = gtxn[s].own
      /\ gtxn'[s].snapRow = gtxn[s].snapRow /\ gtxn'[s].snapEdges = gtxn[s].snapEdges
      /\ gtxn'[s].resolved = gtxn[s].resolved /\ gtxn'[s].scanned = e
      /\ OthersTxn(s) /\ CsrTypes'
  BY <1>0, <1>2, <1>3 DEF CsrTypes, GraphTxn, OthersTxn
<1>5. ASSUME NEW t \in GraphSessions
      PROVE  OwnRow(t)' /\ SnapshotRow(t)' /\ ScannedRow(t)' /\ ResolvedRow(t)' /\ CachedRow(t)'
  <2>0. CommittedRow /\ OwnRow(t) /\ SnapshotRow(t) /\ ScannedRow(t) /\ ResolvedRow(t)
        /\ CachedRow(t)
    BY <1>0, <1>5 DEF CsrRows
  <2>1. /\ gtxn'[t].open = gtxn[t].open /\ gtxn'[t].rr = gtxn[t].rr
        /\ gtxn'[t].own = gtxn[t].own /\ gtxn'[t].snapRow = gtxn[t].snapRow
        /\ gtxn'[t].snapEdges = gtxn[t].snapEdges /\ gtxn'[t].resolved = gtxn[t].resolved
        /\ \A r \in GraphSessions : gtxn'[r].own = gtxn[r].own
    BY <1>4 DEF OthersTxn
  <2>2. OwnRow(t)' /\ SnapshotRow(t)' /\ ResolvedRow(t)' /\ CachedRow(t)'
    BY <1>2, <2>0, <2>1 DEF OwnRow, SnapshotRow, ResolvedRow, CachedRow, Superseded, OfTable, Agrees
  <2>3. ScannedRow(t)'
    BY <1>2, <1>3, <1>4, <2>0 DEF ScannedRow, OthersTxn
  <2> QED
    BY <2>2, <2>3
<1>6. CommittedRow'
  BY <1>0, <1>2 DEF CsrRows, CommittedRow, OfTable
<1> QED
  BY <1>0, <1>2, <1>4, <1>5, <1>6 DEF CsrInv, CsrRows, TraversalReadsPersisted

\* A build is persisted: its time is later than that of every row there is.
LEMMA CsrPersist ==
  ASSUME CsrInv, NEW s \in GraphSessions, PersistCsr(s)
  PROVE  CsrInv'
<1>0. CsrTypes /\ CsrRows /\ TraversalReadsPersisted
  BY DEF CsrInv
<1>1. CASE gtxn[s].rr /\ gtxn[s].own = NoRow /\ csrRow # gtxn[s].snapRow
  <2>1. gtxn' = [gtxn EXCEPT ![s] = IdleTxn]
        /\ UNCHANGED <<edges, csrRow, csrCache, clock, traversed>>
    BY <1>1 DEF PersistCsr
  <2>2. IdleTxn \in GraphTxn /\ IdleTxn.own = NoRow /\ IdleTxn.resolved = NoRow
        /\ ~IdleTxn.open /\ IdleTxn.scanned = NoRow
    BY DEF IdleTxn, GraphTxn, Row, Adjacency
  <2> HIDE DEF IdleTxn
  <2> QED
    BY <2>1, <2>2, CsrTurns
<1>2. CASE ~(gtxn[s].rr /\ gtxn[s].own = NoRow /\ csrRow # gtxn[s].snapRow)
  <2>1. PICK new : new = [epoch |-> clock + 1, of |-> gtxn[s].scanned]
    OBVIOUS
  <2>2. /\ gtxn[s].scanned # NoRow /\ \A o \in GraphSessions : o # s => gtxn[o].own = NoRow
        /\ gtxn' = [gtxn EXCEPT ![s].own = new, ![s].scanned = NoRow]
        /\ clock' = clock + 1 /\ UNCHANGED <<edges, csrRow, csrCache, traversed>>
    BY <1>2, <2>1 DEF PersistCsr, BuiltAt
  <2>3. gtxn[s].open /\ gtxn[s].resolved = NoRow /\ gtxn[s].scanned.table = edges.table
    BY <1>0, <2>2 DEF CsrRows, ScannedRow
  <2>4. new \in Persisted /\ new.epoch = clock + 1 /\ OfTable(new) /\ new # NoRow
    BY <1>0, <2>1, <2>2, <2>3, NoRowApart DEF CsrTypes, GraphTxn, Persisted, OfTable
  <2>5. /\ gtxn'[s].open = gtxn[s].open /\ gtxn'[s].rr = gtxn[s].rr /\ gtxn'[s].own = new
        /\ gtxn'[s].snapRow = gtxn[s].snapRow /\ gtxn'[s].snapEdges = gtxn[s].snapEdges
        /\ gtxn'[s].resolved = gtxn[s].resolved /\ gtxn'[s].scanned = NoRow
        /\ OthersTxn(s) /\ CsrTypes'
    BY <1>0, <2>2, <2>4 DEF CsrTypes, GraphTxn, OthersTxn, Row
  <2>6. \A r \in Persisted : r.epoch <= clock => r.epoch <= clock + 1 /\ r.epoch < clock + 1
                                                 /\ r.epoch # clock + 1
    BY <1>0 DEF CsrTypes, Persisted
  <2>7. csrRow # NoRow => csrRow.epoch < clock + 1
    BY <1>0, <2>6 DEF CsrTypes, Row, CsrRows, CommittedRow
  <2>8. CommittedRow'
    BY <1>0, <2>2, <2>6 DEF CsrRows, CommittedRow, OfTable, CsrTypes, Row
  <2>9. ASSUME NEW t \in GraphSessions
        PROVE  OwnRow(t)' /\ SnapshotRow(t)' /\ ScannedRow(t)' /\ ResolvedRow(t)' /\ CachedRow(t)'
    <3>0. CommittedRow /\ OwnRow(t) /\ SnapshotRow(t) /\ ScannedRow(t) /\ ResolvedRow(t)
          /\ CachedRow(t)
      BY <1>0, <2>9 DEF CsrRows
    <3>1. /\ gtxn'[t].open = gtxn[t].open /\ gtxn'[t].rr = gtxn[t].rr
          /\ gtxn'[t].snapRow = gtxn[t].snapRow /\ gtxn'[t].snapEdges = gtxn[t].snapEdges
          /\ gtxn'[t].resolved = gtxn[t].resolved
          /\ t # s => gtxn'[t].own = NoRow /\ gtxn[t].own = NoRow
      BY <2>2, <2>5 DEF OthersTxn
    <3>2. OwnRow(t)'
      <4>1. CASE t # s
        BY <3>1, <4>1 DEF OwnRow
      <4>2. CASE t = s
        <5>1. gtxn'[s].own.epoch <= clock' /\ OfTable(gtxn[s].own)' /\ gtxn'[s].open
          BY <1>0, <2>2, <2>3, <2>4, <2>5 DEF OfTable, CsrTypes
        <5>2. csrRow' # NoRow => csrRow'.epoch < gtxn'[s].own.epoch
          BY <2>2, <2>4, <2>5, <2>7
        <5>3. \A u \in GraphSessions : u # s => gtxn'[u].own = NoRow
          BY <2>2, <2>5 DEF OthersTxn
        <5> QED
          BY <4>2, <5>1, <5>2, <5>3 DEF OwnRow
      <4> QED
        BY <4>1, <4>2
    <3>3. SnapshotRow(t)'
      BY <2>2, <3>0, <3>1 DEF SnapshotRow, Superseded, OfTable
    <3>4. ScannedRow(t)'
      BY <2>2, <2>5, <3>0 DEF ScannedRow, OthersTxn
    <3>5. ResolvedRow(t)'
      BY <2>2, <2>3, <2>5, <3>0, <3>1 DEF ResolvedRow, Superseded, OfTable
    <3>6. CachedRow(t)'
      <4>1. csrCache[t] # NoRow => csrCache[t].epoch <= clock + 1 /\ csrCache[t].epoch # clock + 1
        BY <1>0, <2>6, <3>0 DEF CachedRow, CsrTypes, Row
      <4>2. \A r \in GraphSessions : r # s => gtxn'[r].own = gtxn[r].own
        BY <2>5 DEF OthersTxn
      <4> SUFFICES ASSUME csrCache[t] # NoRow
                   PROVE  /\ csrCache[t].epoch <= clock + 1
                          /\ Agrees(t, csrRow)'
                          /\ \A u \in GraphSessions : Agrees(t, gtxn[u].own)'
                          /\ (gtxn[t].open /\ gtxn[t].rr => Agrees(t, gtxn[t].snapRow))'
                          /\ Agrees(t, gtxn[t].resolved)'
        BY <2>2 DEF CachedRow
      <4>3. Agrees(t, csrRow)' /\ Agrees(t, gtxn[t].resolved)'
            /\ (gtxn[t].open /\ gtxn[t].rr => Agrees(t, gtxn[t].snapRow))'
        BY <2>2, <3>0, <3>1 DEF CachedRow, Agrees
      <4>4. ASSUME NEW u \in GraphSessions PROVE Agrees(t, gtxn[u].own)'
        <5>1. CASE u = s
          BY <2>2, <2>4, <2>5, <4>1, <5>1 DEF Agrees
        <5>2. CASE u # s
          BY <2>2, <3>0, <4>2, <5>2 DEF CachedRow, Agrees
        <5> QED
          BY <5>1, <5>2
      <4> QED
        BY <4>1, <4>3, <4>4
    <3> QED
      BY <3>2, <3>3, <3>4, <3>5, <3>6
  <2> QED
    BY <1>0, <2>2, <2>5, <2>8, <2>9 DEF CsrInv, CsrRows, TraversalReadsPersisted
<1> QED
  BY <1>1, <1>2

\* A commit: the transaction's row, if it has one, is the newest there is.
LEMMA CsrCommits ==
  ASSUME CsrInv, NEW s \in GraphSessions, CsrCommit(s)
  PROVE  CsrInv'
<1>0. CsrTypes /\ CsrRows /\ TraversalReadsPersisted
  BY DEF CsrInv
<1>1. IdleTxn \in GraphTxn /\ IdleTxn.own = NoRow /\ IdleTxn.resolved = NoRow
      /\ ~IdleTxn.open /\ IdleTxn.scanned = NoRow
  BY DEF IdleTxn, GraphTxn, Row, Adjacency
<1>2. gtxn' = [gtxn EXCEPT ![s] = IdleTxn] /\ UNCHANGED <<edges, csrCache, clock, traversed>>
      /\ csrRow' = IF gtxn[s].own # NoRow THEN gtxn[s].own ELSE csrRow
  BY DEF CsrCommit
<1> HIDE DEF IdleTxn
<1>3. CASE gtxn[s].own = NoRow
  BY <1>1, <1>2, <1>3, CsrTurns
<1>4. CASE gtxn[s].own # NoRow
  <2>1. csrRow' = gtxn[s].own
    BY <1>2, <1>4
  <2>2. /\ csrRow'.epoch <= clock /\ OfTable(csrRow)' /\ csrRow' # NoRow
        /\ csrRow # NoRow => csrRow.epoch < csrRow'.epoch
        /\ \A t \in GraphSessions : t # s => gtxn[t].own = NoRow
    BY <1>0, <1>2, <1>4, <2>1 DEF CsrRows, OwnRow, OfTable
  <2>3. gtxn'[s] = IdleTxn /\ OthersTxn(s) /\ CsrTypes' /\ csrRow' \in Persisted
    BY <1>0, <1>1, <1>2, <2>1, <2>2 DEF CsrTypes, GraphTxn, OthersTxn, Row
  <2>4. \A r \in Persisted : Superseded(r) => r.epoch < csrRow'.epoch
    BY <1>0, <2>2, <2>3 DEF Superseded, CsrTypes, Persisted, Row
  <2>5. \A r \in Persisted : Superseded(r) => Superseded(r)'
    BY <2>2, <2>3, <2>4 DEF Superseded, Persisted
  <2>6. CommittedRow'
    BY <1>2, <2>2 DEF CommittedRow
  <2>7. ASSUME NEW t \in GraphSessions
        PROVE  OwnRow(t)' /\ SnapshotRow(t)' /\ ScannedRow(t)' /\ ResolvedRow(t)' /\ CachedRow(t)'
    <3>0. CommittedRow /\ OwnRow(t) /\ SnapshotRow(t) /\ ScannedRow(t) /\ ResolvedRow(t)
          /\ CachedRow(t)
      BY <1>0, <2>7 DEF CsrRows
    <3>1. CASE t = s
      BY <1>1, <1>2, <2>1, <2>2, <2>3, <3>0, <3>1
         DEF OwnRow, SnapshotRow, ScannedRow, ResolvedRow, CachedRow, Agrees, OthersTxn
    <3>2. CASE t # s
      <4>1. gtxn'[t] = gtxn[t] /\ gtxn[t].own = NoRow
        BY <2>2, <2>3, <3>2 DEF OthersTxn
      <4>2. gtxn[t].snapRow \in Row /\ gtxn[t].resolved \in Row
        BY <1>0 DEF CsrTypes, GraphTxn
      <4>3. OwnRow(t)' /\ ScannedRow(t)'
        BY <1>2, <3>0, <4>1 DEF OwnRow, ScannedRow
      <4>4. SnapshotRow(t)'
        BY <1>2, <2>5, <3>0, <4>1, <4>2 DEF SnapshotRow, OfTable, Row
      <4>5. ResolvedRow(t)'
        BY <1>2, <2>5, <3>0, <4>1, <4>2 DEF ResolvedRow, OfTable, Row
      <4>6. CachedRow(t)'
        BY <1>1, <1>2, <2>1, <2>2, <2>3, <3>0, <4>1 DEF CachedRow, Agrees, OthersTxn
      <4> QED
        BY <4>3, <4>4, <4>5, <4>6
    <3> QED
      BY <3>1, <3>2
  <2> QED
    BY <1>0, <1>2, <2>3, <2>6, <2>7 DEF CsrInv, CsrRows, TraversalReadsPersisted
<1> QED
  BY <1>3, <1>4

\* What a statement of s sees of the row: made of this relation, before now, and newer
\* than nothing it may still meet.
LEMMA CsrSeen ==
  ASSUME CsrInv, NEW s \in GraphSessions, gtxn[s].open, SeenRow(s) # NoRow
  PROVE  /\ SeenRow(s) \in Persisted /\ OfTable(SeenRow(s))
         /\ gtxn[s].own # NoRow => SeenRow(s) = gtxn[s].own
         /\ gtxn[s].own = NoRow => Superseded(SeenRow(s))
         /\ gtxn[s].own = NoRow /\ gtxn[s].rr => SeenRow(s) = gtxn[s].snapRow
         /\ csrCache[s] # NoRow => Agrees(s, SeenRow(s))
<1>0. CsrTypes /\ CommittedRow /\ OwnRow(s) /\ SnapshotRow(s) /\ CachedRow(s)
  BY DEF CsrInv, CsrRows
<1>1. SeenRow(s) \in Persisted
  BY <1>0 DEF SeenRow, CsrTypes, GraphTxn, Row
<1>2. CASE gtxn[s].own # NoRow
  BY <1>0, <1>1, <1>2 DEF SeenRow, OwnRow, CachedRow
<1>3. CASE gtxn[s].own = NoRow /\ gtxn[s].rr
  BY <1>0, <1>1, <1>3 DEF SeenRow, SnapshotRow, CachedRow
<1>4. CASE gtxn[s].own = NoRow /\ ~gtxn[s].rr
  <2>1. SeenRow(s) = csrRow
    BY <1>4 DEF SeenRow
  <2>2. csrRow.epoch <= csrRow.epoch
    BY <1>1, <2>1 DEF Persisted
  <2> QED
    BY <1>0, <1>1, <1>4, <2>1, <2>2 DEF Superseded, CommittedRow, CachedRow
<1> QED
  BY <1>2, <1>3, <1>4

\* A traversal resolves the row.
LEMMA CsrResolve ==
  ASSUME CsrInv, NEW s \in GraphSessions, ResolveCsr(s)
  PROVE  CsrInv'
<1>0. CsrTypes /\ CsrRows /\ TraversalReadsPersisted
  BY DEF CsrInv
<1>1. PICK r : r = SeenRow(s)
  OBVIOUS
<1>2. /\ gtxn[s].open /\ gtxn[s].scanned = NoRow /\ gtxn[s].resolved = NoRow /\ r # NoRow
      /\ gtxn' = [gtxn EXCEPT ![s].resolved = r]
      /\ UNCHANGED <<edges, csrRow, csrCache, clock, traversed>>
  BY <1>1 DEF ResolveCsr
<1>3. /\ r \in Persisted /\ OfTable(r)
      /\ gtxn[s].own # NoRow => r = gtxn[s].own
      /\ gtxn[s].own = NoRow => Superseded(r)
      /\ gtxn[s].own = NoRow /\ gtxn[s].rr => r = gtxn[s].snapRow
      /\ csrCache[s] # NoRow => Agrees(s, r)
  BY <1>1, <1>2, CsrSeen
<1>4. /\ gtxn'[s].open = gtxn[s].open /\ gtxn'[s].rr = gtxn[s].rr /\ gtxn'[s].own = gtxn[s].own
      /\ gtxn'[s].snapRow = gtxn[s].snapRow /\ gtxn'[s].snapEdges = gtxn[s].snapEdges
      /\ gtxn'[s].scanned = gtxn[s].scanned /\ gtxn'[s].resolved = r
      /\ OthersTxn(s) /\ CsrTypes'
  BY <1>0, <1>2, <1>3 DEF CsrTypes, GraphTxn, OthersTxn, Row
<1>5. ASSUME NEW t \in GraphSessions
      PROVE  OwnRow(t)' /\ SnapshotRow(t)' /\ ScannedRow(t)' /\ ResolvedRow(t)' /\ CachedRow(t)'
  <2>0. CommittedRow /\ OwnRow(t) /\ SnapshotRow(t) /\ ScannedRow(t) /\ ResolvedRow(t)
        /\ CachedRow(t)
    BY <1>0, <1>5 DEF CsrRows
  <2>1. /\ gtxn'[t].open = gtxn[t].open /\ gtxn'[t].rr = gtxn[t].rr
        /\ gtxn'[t].own = gtxn[t].own /\ gtxn'[t].snapRow = gtxn[t].snapRow
        /\ gtxn'[t].snapEdges = gtxn[t].snapEdges /\ gtxn'[t].scanned = gtxn[t].scanned
        /\ \A u \in GraphSessions : gtxn'[u].own = gtxn[u].own
    BY <1>4 DEF OthersTxn
  <2>2. OwnRow(t)' /\ SnapshotRow(t)'
    BY <1>2, <2>0, <2>1 DEF OwnRow, SnapshotRow, Superseded, OfTable
  <2>3. ScannedRow(t)'
    BY <1>2, <1>4, <2>0, <2>1 DEF ScannedRow, OthersTxn
  <2>4. ResolvedRow(t)'
    BY <1>2, <1>3, <1>4, <2>0, <2>1 DEF ResolvedRow, Superseded, OfTable, OthersTxn
  <2>5. CachedRow(t)'
    BY <1>2, <1>3, <1>4, <2>0, <2>1 DEF CachedRow, Agrees, OthersTxn
  <2> QED
    BY <2>2, <2>3, <2>4, <2>5
<1>6. CommittedRow'
  BY <1>0, <1>2 DEF CsrRows, CommittedRow, OfTable
<1> QED
  BY <1>0, <1>2, <1>4, <1>5, <1>6 DEF CsrInv, CsrRows, TraversalReadsPersisted

\* It is answered from the cache or from the row, which may have been replaced meanwhile.
LEMMA CsrLoad ==
  ASSUME CsrInv, NEW s \in GraphSessions, LoadCsr(s)
  PROVE  CsrInv'
<1>0. CsrTypes /\ CsrRows /\ TraversalReadsPersisted
  BY DEF CsrInv
<1>1. PICK r : r = gtxn[s].resolved
  OBVIOUS
<1>2. PICK row : row = IF gtxn[s].xid THEN SeenRow(s) ELSE r
  OBVIOUS
<1>3. PICK entry : entry = IF Hit(s) THEN csrCache[s] ELSE [epoch |-> r.epoch, of |-> row.of]
  OBVIOUS
<1>4. /\ r # NoRow /\ gtxn' = [gtxn EXCEPT ![s].resolved = NoRow]
      /\ UNCHANGED <<edges, csrRow, clock>>
      /\ \/ UNCHANGED <<csrCache, traversed>>
         \/ /\ Hit(s) \/ row # NoRow
            /\ csrCache' = [csrCache EXCEPT ![s] = entry]
            /\ traversed' = [used |-> entry, resolved |-> r, row |-> row, table |-> edges.table]
  BY <1>1, <1>2, <1>3 DEF LoadCsr
<1>5. CommittedRow /\ OwnRow(s) /\ SnapshotRow(s) /\ ScannedRow(s) /\ ResolvedRow(s) /\ CachedRow(s)
  BY <1>0 DEF CsrRows
<1>6. /\ gtxn[s].open /\ OfTable(r) /\ r \in Persisted /\ gtxn[s].scanned = NoRow
      /\ gtxn[s].own # NoRow => r = gtxn[s].own
      /\ gtxn[s].own = NoRow => Superseded(r)
      /\ gtxn[s].own = NoRow /\ gtxn[s].rr => r = gtxn[s].snapRow
      /\ csrCache[s] # NoRow => Agrees(s, r)
  BY <1>0, <1>1, <1>4, <1>5 DEF ResolvedRow, ScannedRow, CachedRow, CsrTypes, GraphTxn, Row
<1>7. row # NoRow => /\ row \in Persisted /\ OfTable(row)
                     /\ (row = r \/ (row = csrRow /\ gtxn[s].own = NoRow /\ ~gtxn[s].rr))
  BY <1>2, <1>6, CsrSeen DEF SeenRow
<1>8. /\ gtxn'[s].open = gtxn[s].open /\ gtxn'[s].rr = gtxn[s].rr /\ gtxn'[s].own = gtxn[s].own
      /\ gtxn'[s].snapRow = gtxn[s].snapRow /\ gtxn'[s].snapEdges = gtxn[s].snapEdges
      /\ gtxn'[s].scanned = gtxn[s].scanned /\ gtxn'[s].resolved = NoRow
      /\ OthersTxn(s) /\ gtxn' \in [GraphSessions -> GraphTxn]
  BY <1>0, <1>4 DEF CsrTypes, GraphTxn, OthersTxn, Row
<1>9. ASSUME NEW t \in GraphSessions
      PROVE  OwnRow(t)' /\ SnapshotRow(t)' /\ ScannedRow(t)' /\ ResolvedRow(t)'
  <2>0. OwnRow(t) /\ SnapshotRow(t) /\ ScannedRow(t) /\ ResolvedRow(t)
    BY <1>0, <1>9 DEF CsrRows
  <2>1. /\ gtxn'[t].open = gtxn[t].open /\ gtxn'[t].rr = gtxn[t].rr
        /\ gtxn'[t].own = gtxn[t].own /\ gtxn'[t].snapRow = gtxn[t].snapRow
        /\ gtxn'[t].snapEdges = gtxn[t].snapEdges /\ gtxn'[t].scanned = gtxn[t].scanned
        /\ \A u \in GraphSessions : gtxn'[u].own = gtxn[u].own
    BY <1>8 DEF OthersTxn
  <2>2. gtxn'[t].resolved = gtxn[t].resolved \/ gtxn'[t].resolved = NoRow
    BY <1>8 DEF OthersTxn
  <2>3. OwnRow(t)' /\ SnapshotRow(t)'
    BY <1>4, <2>0, <2>1 DEF OwnRow, SnapshotRow, Superseded, OfTable
  <2> QED
    BY <1>4, <2>0, <2>1, <2>2, <2>3 DEF ScannedRow, ResolvedRow, Superseded, OfTable
<1>10. CommittedRow'
  BY <1>4, <1>5 DEF CommittedRow, OfTable
<1>11. CASE UNCHANGED csrCache
  <2>1. ASSUME NEW t \in GraphSessions PROVE CachedRow(t)'
    <3>1. CachedRow(t)
      BY <1>0 DEF CsrRows
    <3>2. /\ gtxn'[t].open = gtxn[t].open /\ gtxn'[t].rr = gtxn[t].rr
          /\ gtxn'[t].snapRow = gtxn[t].snapRow
          /\ gtxn'[t].resolved = gtxn[t].resolved \/ gtxn'[t].resolved = NoRow
          /\ \A u \in GraphSessions : gtxn'[u].own = gtxn[u].own
      BY <1>8 DEF OthersTxn
    <3> QED
      BY <1>4, <1>11, <3>1, <3>2 DEF CachedRow, Agrees
  <2>2. CsrTypes' /\ CsrRows'
    BY <1>0, <1>4, <1>8, <1>9, <1>10, <1>11, <2>1 DEF CsrTypes, CsrRows
  <2>3. TraversalReadsPersisted'
    <3>1. CASE UNCHANGED traversed
      BY <1>0, <3>1 DEF TraversalReadsPersisted
    <3>2. CASE traversed' = [used |-> entry, resolved |-> r, row |-> row, table |-> edges.table]
               /\ (Hit(s) \/ row # NoRow)
      <4>1. CASE Hit(s)
        <5>1. csrCache[s] # NoRow /\ csrCache[s].epoch = r.epoch /\ entry = csrCache[s]
          BY <1>1, <1>3, <4>1 DEF Hit
        <5>2. entry.of = r.of /\ r.of.table = edges.table
          BY <1>4, <1>6, <5>1 DEF Agrees, OfTable
        <5>3. traversed'.used = entry /\ traversed'.resolved = r /\ traversed'.table = edges.table
          BY <3>2
        <5> QED
          BY <5>2, <5>3 DEF TraversalReadsPersisted
      <4>2. CASE ~Hit(s)
        BY <1>3, <1>7, <3>2, <4>2 DEF OfTable, TraversalReadsPersisted
      <4> QED
        BY <4>1, <4>2
    <3> QED
      BY <1>4, <3>1, <3>2
  <2> QED
    BY <2>2, <2>3 DEF CsrInv
<1>12. CASE ~UNCHANGED csrCache
  <2>1. /\ csrCache' = [csrCache EXCEPT ![s] = entry] /\ ~Hit(s) /\ row # NoRow
        /\ traversed' = [used |-> entry, resolved |-> r, row |-> row, table |-> edges.table]
    <3>1. csrCache' = [csrCache EXCEPT ![s] = entry] /\ (Hit(s) \/ row # NoRow)
          /\ traversed' = [used |-> entry, resolved |-> r, row |-> row, table |-> edges.table]
      BY <1>4, <1>12
    <3>2. ASSUME Hit(s) PROVE FALSE
      <4>1. entry = csrCache[s] /\ csrCache \in [GraphSessions -> Row]
        BY <1>0, <1>3, <3>2 DEF CsrTypes
      <4> QED
        BY <1>12, <3>1, <4>1
    <3> QED
      BY <3>1, <3>2
  <2>2. entry = [epoch |-> r.epoch, of |-> row.of]
    BY <1>3, <2>1
  <2>3. entry \in Persisted /\ entry.epoch = r.epoch /\ entry.of = row.of
    BY <1>6, <1>7, <2>1, <2>2 DEF Persisted
  <2>4. CsrTypes' /\ csrCache'[s] = entry
        /\ \A t \in GraphSessions : t # s => csrCache'[t] = csrCache[t]
    BY <1>0, <1>4, <1>8, <2>1, <2>3 DEF CsrTypes, Row
  <2>5. TraversalReadsPersisted'
    BY <1>7, <2>1, <2>3 DEF OfTable, TraversalReadsPersisted
  <2>6. ASSUME NEW x \in Persisted, x.epoch = r.epoch,
               \/ x = csrRow
               \/ x = gtxn[s].own
               \/ \E t \in GraphSessions : t # s /\ x = gtxn[t].own
               \/ gtxn[s].rr /\ x = gtxn[s].snapRow
        PROVE  x.of = entry.of
    <3>1. r.epoch \in Nat /\ x # NoRow
      BY <1>6, NoRowApart DEF Persisted
    <3>2. CASE gtxn[s].own # NoRow
      <4>1. r = gtxn[s].own /\ row = r
        BY <1>6, <1>7, <2>1, <3>2
      <4>2. csrRow # NoRow => csrRow.epoch \in Nat /\ csrRow.epoch < r.epoch
        BY <1>0, <1>5, <3>2, <4>1 DEF OwnRow, CsrTypes, Row, Persisted
      <4>3. x # csrRow
        BY <2>6, <3>1, <4>2
      <4>4. gtxn[s].rr => x # gtxn[s].snapRow
        BY <1>5, <1>6, <2>6, <3>1, <4>2 DEF SnapshotRow, Superseded
      <4>5. \A t \in GraphSessions : t # s => x # gtxn[t].own
        BY <1>5, <3>1, <3>2 DEF OwnRow
      <4> QED
        BY <2>3, <2>6, <4>1, <4>3, <4>4, <4>5
    <3>3. CASE gtxn[s].own = NoRow
      <4>1. csrRow # NoRow /\ r.epoch <= csrRow.epoch /\ csrRow.epoch \in Nat
            /\ (r.epoch = csrRow.epoch => r = csrRow)
        BY <1>0, <1>6, <3>3 DEF Superseded, CsrTypes, Row, Persisted
      <4>2. ASSUME NEW t \in GraphSessions, x = gtxn[t].own PROVE FALSE
        <5>1. OwnRow(t)
          BY <1>0 DEF CsrRows
        <5> QED
          BY <2>6, <3>1, <4>1, <4>2, <5>1 DEF OwnRow
      <4>3. CASE x = csrRow
        BY <1>7, <2>1, <2>3, <2>6, <4>1, <4>3
      <4>4. CASE gtxn[s].rr /\ x = gtxn[s].snapRow
        BY <1>6, <1>7, <2>1, <2>3, <3>3, <4>4
      <4> QED
        BY <2>6, <4>2, <4>3, <4>4
    <3> QED
      BY <3>2, <3>3
  <2>7. entry.epoch <= clock
    <3>1. CASE gtxn[s].own # NoRow
      BY <1>5, <1>6, <2>3, <3>1 DEF OwnRow
    <3>2. CASE gtxn[s].own = NoRow
      <4>1. r.epoch <= csrRow.epoch /\ csrRow.epoch <= clock /\ csrRow \in Persisted
        BY <1>0, <1>5, <1>6, <3>2 DEF Superseded, CommittedRow, CsrTypes, Row
      <4> QED
        BY <1>0, <1>6, <2>3, <4>1 DEF Persisted, CsrTypes
    <3> QED
      BY <3>1, <3>2
  <2>8. ASSUME NEW t \in GraphSessions PROVE CachedRow(t)'
    <3>1. CASE t = s
      <4>1. \A x \in Row : x # NoRow => x \in Persisted
        BY DEF Row
      <4>2. csrRow' = csrRow /\ csrRow \in Row
            /\ \A u \in GraphSessions : gtxn'[u].own = gtxn[u].own /\ gtxn[u].own \in Row
                                        /\ gtxn[u].snapRow \in Row
        BY <1>0, <1>4, <1>8 DEF CsrTypes, GraphTxn, OthersTxn
      <4>3. Agrees(s, csrRow)'
        BY <2>3, <2>4, <2>6, <4>1, <4>2 DEF Agrees
      <4>4. ASSUME NEW u \in GraphSessions PROVE Agrees(s, gtxn[u].own)'
        BY <2>3, <2>4, <2>6, <4>1, <4>2 DEF Agrees
      <4>5. gtxn[s].rr => Agrees(s, gtxn[s].snapRow)'
        BY <1>8, <2>3, <2>4, <2>6, <4>1, <4>2 DEF Agrees
      <4> QED
        BY <1>4, <1>8, <2>4, <2>7, <3>1, <4>3, <4>4, <4>5 DEF CachedRow, Agrees
    <3>2. CASE t # s
      <4>1. CachedRow(t)
        BY <1>0 DEF CsrRows
      <4>2. gtxn'[t] = gtxn[t] /\ \A u \in GraphSessions : gtxn'[u].own = gtxn[u].own
        BY <1>8, <3>2 DEF OthersTxn
      <4> QED
        BY <1>4, <2>4, <3>2, <4>1, <4>2 DEF CachedRow, Agrees
    <3> QED
      BY <3>1, <3>2
  <2> QED
    BY <1>9, <1>10, <2>4, <2>5, <2>8 DEF CsrInv, CsrRows
<1> QED
  BY <1>11, <1>12

\* Every step keeps the invariant.
LEMMA CsrStep ==
  ASSUME CsrInv, [CsrNext]_csrVars
  PROVE  CsrInv'
<1>1. CASE \/ \E e \in EdgeRows : AddEdge(e)
           \/ DropAndRecreate
  BY <1>1, CsrOutside
<1>2. ASSUME NEW s \in GraphSessions,
             \/ \E rr, xid \in BOOLEAN : CsrBegin(s, rr, xid)
             \/ ScanEdges(s) \/ PersistCsr(s) \/ CsrCommit(s) \/ CsrRollback(s)
             \/ ResolveCsr(s) \/ LoadCsr(s)
      PROVE  CsrInv'
  <2>1. ASSUME NEW rr \in BOOLEAN, NEW xid \in BOOLEAN, CsrBegin(s, rr, xid) PROVE CsrInv'
    <3>1. PICK g : g = [IdleTxn EXCEPT !.open = TRUE, !.rr = rr, !.xid = xid,
                                       !.snapRow = csrRow, !.snapEdges = edges]
      OBVIOUS
    <3>2. gtxn' = [gtxn EXCEPT ![s] = g] /\ UNCHANGED <<edges, csrRow, csrCache, clock, traversed>>
      BY <2>1, <3>1 DEF CsrBegin
    <3>3. csrRow \in Row /\ edges \in Adjacency
      BY DEF CsrInv, CsrTypes
    <3>4. g \in GraphTxn /\ g.own = NoRow /\ g.scanned = NoRow /\ g.resolved = NoRow
          /\ g.snapRow = csrRow /\ g.snapEdges = edges
      BY <3>1, <3>3 DEF IdleTxn, GraphTxn, Row
    <3> QED
      BY <3>2, <3>4, CsrTurns
  <2>2. CASE CsrRollback(s)
    <3>1. IdleTxn \in GraphTxn /\ IdleTxn.own = NoRow /\ IdleTxn.resolved = NoRow
          /\ ~IdleTxn.open /\ IdleTxn.scanned = NoRow
      BY DEF IdleTxn, GraphTxn, Row, Adjacency
    <3>2. gtxn' = [gtxn EXCEPT ![s] = IdleTxn]
          /\ UNCHANGED <<edges, csrRow, csrCache, clock, traversed>>
      BY <2>2 DEF CsrRollback
    <3> HIDE DEF IdleTxn
    <3> QED
      BY <3>1, <3>2, CsrTurns
  <2> QED
    BY <1>2, <2>1, <2>2, CsrScan, CsrPersist, CsrCommits, CsrResolve, CsrLoad
<1>3. CASE UNCHANGED csrVars
  <2>1. UNCHANGED <<edges, csrRow, gtxn, csrCache, clock, traversed>>
    BY <1>3 DEF csrVars
  <2>2. CsrTypes' /\ TraversalReadsPersisted'
    BY <2>1 DEF CsrInv, CsrTypes, TraversalReadsPersisted
  <2>3. CsrRows'
    BY <2>1 DEF CsrInv, CsrRows, CommittedRow, OwnRow, SnapshotRow, ScannedRow, ResolvedRow,
                CachedRow, Agrees, OfTable, Superseded
  <2> QED
    BY <2>2, <2>3 DEF CsrInv
<1> QED
  BY <1>1, <1>2, <1>3 DEF CsrNext

\* A traversal runs over the edges that a persisted build of this very relation scanned
\* (GraphCsr, load_cached_csr), whatever the sessions have cached.
THEOREM TraversalsPersisted ==
  CsrSpec => []TraversalReadsPersisted
<1>1. CsrInit => CsrInv
  BY CsrInitially
<1>2. CsrInv /\ [CsrNext]_csrVars => CsrInv'
  BY CsrStep
<1>3. CsrInv => TraversalReadsPersisted
  BY DEF CsrInv
<1> QED
  BY <1>1, <1>2, <1>3, PTL DEF CsrSpec

-----------------------------------------------------------------------------
(* The BM25 index.                                                         *)

Work == [step : {"none", "idle", "clear", "flush"}, build : Nat, seen : [Paths -> Nat],
         put : [Paths -> Nat], del : SUBSET Paths, own : Nat]
Opened == [number : Nat, build : Nat, dirty : BOOLEAN]

LexTypes ==
    /\ files \in [Paths -> Nat]
    /\ number \in Nat
    /\ work \in [Backends -> Work]
    /\ open \in [Backends -> Opened \cup {NoIndex}]
    /\ builds \in 0 .. MaxBuilds

\* A build's files replace those of an earlier build of its transaction: its DELETE
\* saw them all, so nothing but its own is there when it begins to write.
Fit(w) ==
    /\ w.step = "none" => w.own = 0
    /\ w.step \in {"none", "idle"} /\ w.own = 0 => w.del = {} /\ \A p \in Paths : w.put[p] = NoFile
    /\ w.step \in {"clear", "flush"} \/ w.own # 0 => w.build \in 1 .. MaxBuilds
    /\ w.step = "clear" => \A p \in Paths : w.put[p] # NoFile => w.seen[p] = w.put[p]
    /\ w.step = "flush" => \A p \in Paths : w.put[p] \in {NoFile, w.build}
    /\ w.step = "idle" /\ w.own # 0 => \A p \in Shared \cup {w.build} : w.put[p] = w.build

\* One transaction at most has bumped the generation, to a number nobody has seen.
Ahead(s) == work[s].own # 0 =>
    number < work[s].own /\ \A o \in Backends : o # s => work[o].own = 0

\* An index opened in a transaction that had not rebuilt it is of a committed generation.
Current(s) == open[s] # NoIndex /\ ~open[s].dirty =>
    open[s].number <= number /\ (open[s].number = number => open[s].build = files[Meta])

LexInv == LexTypes /\ \A s \in Backends : Fit(work[s]) /\ Ahead(s) /\ Current(s)

\* The two shared paths and the segment of every build are paths.
LEMMA PathsOfBuild ==
  ASSUME NEW b \in 1 .. MaxBuilds
  PROVE  Shared \cup {b} \subseteq Paths /\ Meta \in Paths /\ b # NoFile
BY BuildsAssumption DEF Shared, Paths, Meta, Managed, NoFile

LEMMA NothingFits == Nothing \in Work /\ Fit(Nothing) /\ Nothing.own = 0
<1>1. Nothing \in Work
  BY DEF Nothing, Work, NoFile
<1> QED
  BY <1>1 DEF Nothing, Fit, NoFile

LEMMA LexInitially == ASSUME LexInit PROVE LexInv
<1>1. LexTypes
  BY NothingFits, BuildsAssumption DEF LexInit, LexTypes, NoFile
<1>2. \A s \in Backends : Fit(work[s]) /\ Ahead(s) /\ Current(s)
  BY NothingFits DEF LexInit, Ahead, Current
<1> QED
  BY <1>1, <1>2 DEF LexInv

\* A step of the transaction of s that commits nothing and bumps the generation, if it
\* does, to a new number.
LEMMA LexTurns ==
  ASSUME LexInv, NEW s \in Backends, NEW w \in Work, work' = [work EXCEPT ![s] = w],
         Fit(w),
         w.own # 0 => number < w.own /\ \A o \in Backends : o # s => work[o].own = 0,
         UNCHANGED <<files, number, open>>, builds' \in 0 .. MaxBuilds
  PROVE  LexInv'
<1>1. work \in [Backends -> Work]
  BY DEF LexInv, LexTypes
<1>2. work'[s] = w /\ \A o \in Backends : o # s => work'[o] = work[o]
  BY <1>1
<1>3. LexTypes'
  BY <1>1 DEF LexInv, LexTypes
<1>4. ASSUME NEW t \in Backends PROVE Fit(work'[t]) /\ Ahead(t)' /\ Current(t)'
  <2>1. Fit(work[t]) /\ Ahead(t) /\ Current(t)
    BY DEF LexInv
  <2>2. CASE t = s
    BY <1>2, <2>1, <2>2 DEF Ahead, Current
  <2>3. CASE t # s
    BY <1>2, <2>1, <2>3 DEF Ahead, Current
  <2> QED
    BY <2>2, <2>3
<1> QED
  BY <1>3, <1>4 DEF LexInv, Fit

\* The steps of a transaction before its end.
LEMMA LexBuilding ==
  ASSUME LexInv, NEW s \in Backends,
         \/ Start(s) \/ BuildIndex(s) \/ ClearOld(s) \/ (\E p \in Paths : FlushFile(s, p))
         \/ EndBuild(s) \/ AbortTxn(s) \/ Deadlock(s)
  PROVE  LexInv'
<1>0. LexTypes /\ Fit(work[s]) /\ Ahead(s) /\ MaxBuilds \in Nat
  BY BuildsAssumption DEF LexInv
<1>1. PICK w0 : w0 = work[s]
  OBVIOUS
<1>2. /\ w0 \in Work /\ Fit(w0) /\ files \in [Paths -> Nat] /\ number \in Nat
      /\ builds \in 0 .. MaxBuilds /\ work \in [Backends -> Work]
      /\ w0.own # 0 => number < w0.own /\ \A o \in Backends : o # s => work[o].own = 0
  BY <1>0, <1>1 DEF LexTypes, Ahead
<1>3. /\ w0.step \in {"none", "idle", "clear", "flush"} /\ w0.build \in Nat /\ w0.own \in Nat
      /\ w0.seen \in [Paths -> Nat] /\ w0.put \in [Paths -> Nat] /\ w0.del \in SUBSET Paths
  BY <1>2 DEF Work
<1>4. Sees(s) \in [Paths -> Nat]
      /\ \A p \in Paths : Sees(s)[p] = IF w0.put[p] # NoFile THEN w0.put[p]
                                       ELSE IF p \in w0.del THEN NoFile ELSE files[p]
  BY <1>1, <1>2, <1>3 DEF Sees, NoFile
<1>5. CASE Start(s)
  <2>1. PICK w : w = [w0 EXCEPT !.step = "idle"]
    OBVIOUS
  <2>2. w0.step = "none" /\ work' = [work EXCEPT ![s] = w] /\ UNCHANGED <<files, number, open, builds>>
    BY <1>1, <1>5, <2>1 DEF Start
  <2>3. w \in Work /\ w.step = "idle" /\ w.build = w0.build /\ w.seen = w0.seen /\ w.put = w0.put
        /\ w.del = w0.del /\ w.own = w0.own
    BY <1>2, <2>1 DEF Work
  <2>4. Fit(w)
    BY <1>2, <2>2, <2>3 DEF Fit
  <2> QED
    BY <1>2, <2>2, <2>3, <2>4, LexTurns
<1>6. CASE BuildIndex(s)
  <2>1. PICK w : w = [w0 EXCEPT !.step = "clear", !.build = builds + 1, !.seen = Sees(s)]
    OBVIOUS
  <2>2. /\ w0.step = "idle" /\ builds < MaxBuilds /\ builds' = builds + 1
        /\ work' = [work EXCEPT ![s] = w] /\ UNCHANGED <<files, number, open>>
    BY <1>1, <1>6, <2>1 DEF BuildIndex
  <2>3. builds' \in 0 .. MaxBuilds /\ builds + 1 \in 1 .. MaxBuilds
    BY <1>0, <1>2, <2>2
  <2>4. w \in Work /\ w.step = "clear" /\ w.build = builds + 1 /\ w.seen = Sees(s) /\ w.put = w0.put
        /\ w.del = w0.del /\ w.own = w0.own
    <3>1. builds + 1 \in Nat /\ Sees(s) \in [Paths -> Nat]
      BY <1>4, <2>3
    <3> QED
      BY <1>2, <2>1, <3>1 DEF Work
  <2>5. \A p \in Paths : w.put[p] # NoFile => w.seen[p] = w.put[p]
    BY <1>4, <2>4
  <2>6. Fit(w)
    BY <2>3, <2>4, <2>5 DEF Fit
  <2> QED
    BY <1>2, <2>2, <2>3, <2>4, <2>6, LexTurns
<1>7. CASE ClearOld(s)
  <2>1. PICK del, put : /\ del = w0.del \cup Cleared(s)
                        /\ put = [p \in Paths |-> IF p \in Cleared(s) THEN NoFile ELSE w0.put[p]]
    OBVIOUS
  <2>2. PICK w : w = [w0 EXCEPT !.step = "flush", !.del = del, !.put = put]
    OBVIOUS
  <2>3. w0.step = "clear" /\ work' = [work EXCEPT ![s] = w] /\ UNCHANGED <<files, number, open, builds>>
    BY <1>1, <1>7, <2>1, <2>2 DEF ClearOld
  <2>4. del \in SUBSET Paths /\ put \in [Paths -> Nat]
    BY <1>3, <2>1 DEF Cleared, NoFile
  <2>5. w \in Work /\ w.step = "flush" /\ w.build = w0.build /\ w.put = put /\ w.own = w0.own
    BY <1>2, <2>2, <2>4 DEF Work
  <2>6. ASSUME NEW p \in Paths PROVE put[p] = NoFile
    <3>1. w0.put[p] # NoFile => w0.seen[p] = w0.put[p] /\ Sees(s)[p] = w0.put[p]
      BY <1>2, <1>4, <2>3 DEF Fit
    <3>2. w0.put[p] # NoFile => p \in Cleared(s)
      BY <1>1, <3>1 DEF Cleared
    <3> QED
      BY <2>1, <3>2
  <2>7. w0.build \in 1 .. MaxBuilds
    BY <1>2, <2>3 DEF Fit
  <2>8. Fit(w)
    BY <2>5, <2>6, <2>7 DEF Fit
  <2> QED
    BY <1>2, <2>3, <2>5, <2>8, LexTurns
<1>8. CASE \E p \in Paths : FlushFile(s, p)
  <2>1. PICK p \in Paths : FlushFile(s, p)
    BY <1>8
  <2>2. PICK put : put = [w0.put EXCEPT ![p] = w0.build]
    OBVIOUS
  <2>3. PICK w : w = [w0 EXCEPT !.put = put]
    OBVIOUS
  <2>4. w0.step = "flush" /\ work' = [work EXCEPT ![s] = w] /\ UNCHANGED <<files, number, open, builds>>
    BY <1>1, <2>1, <2>2, <2>3 DEF FlushFile, Flushed
  <2>5. put \in [Paths -> Nat] /\ \A q \in Paths : put[q] = IF q = p THEN w0.build ELSE w0.put[q]
    BY <1>3, <2>2
  <2>6. w \in Work /\ w.step = "flush" /\ w.build = w0.build /\ w.put = put /\ w.own = w0.own
    BY <1>2, <2>3, <2>4, <2>5 DEF Work
  <2>7. w0.build \in 1 .. MaxBuilds /\ \A q \in Paths : w0.put[q] \in {NoFile, w0.build}
    BY <1>2, <2>4 DEF Fit
  <2>8. Fit(w)
    BY <2>5, <2>6, <2>7 DEF Fit
  <2> QED
    BY <1>2, <2>4, <2>6, <2>8, LexTurns
<1>9. CASE EndBuild(s)
  <2>1. PICK own : own = BumpGeneration(s)
    OBVIOUS
  <2>2. PICK w : w = [w0 EXCEPT !.step = "idle", !.own = own]
    OBVIOUS
  <2>3. /\ w0.step = "flush" /\ ToFlush(s) = {} /\ \A o \in Backends : o # s => work[o].own = 0
        /\ work' = [work EXCEPT ![s] = w] /\ UNCHANGED <<files, number, open, builds>>
    BY <1>1, <1>9, <2>1, <2>2 DEF EndBuild
  <2>4. own \in Nat /\ own # 0 /\ number < own
    BY <1>1, <1>2, <1>3, <2>1 DEF BumpGeneration, SeesNumber
  <2>5. w \in Work /\ w.step = "idle" /\ w.build = w0.build /\ w.put = w0.put /\ w.own = own
    BY <1>2, <2>2, <2>4 DEF Work
  <2>6. w0.build \in 1 .. MaxBuilds /\ \A q \in Paths : w0.put[q] \in {NoFile, w0.build}
    BY <1>2, <2>3 DEF Fit
  <2>7. \A q \in Shared \cup {w0.build} : w0.put[q] = w0.build
    BY <1>1, <2>3, <2>6, PathsOfBuild DEF ToFlush
  <2>8. Fit(w)
    BY <2>4, <2>5, <2>6, <2>7 DEF Fit
  <2> QED
    BY <1>2, <2>3, <2>4, <2>5, <2>8, LexTurns
<1>10. CASE AbortTxn(s) \/ Deadlock(s)
  <2>1. work' = [work EXCEPT ![s] = Nothing] /\ UNCHANGED <<files, number, open, builds>>
    BY <1>10 DEF AbortTxn, Deadlock
  <2> HIDE DEF Nothing
  <2> QED
    BY <1>2, <2>1, NothingFits, LexTurns
<1> QED
  BY <1>5, <1>6, <1>7, <1>8, <1>9, <1>10

\* A commit of a transaction that has built publishes the whole build under a new number; of
\* one that has not, nothing.
LEMMA LexEnds ==
  ASSUME LexInv, NEW s \in Backends, End(s)
  PROVE  /\ work[s].own = 0 => UNCHANGED <<files, number>>
         /\ work[s].own # 0 => /\ number < work[s].own /\ number' = work[s].own
                               /\ \A p \in Shared \cup {work[s].build} : files'[p] = work[s].build
<1>1. LexTypes /\ Fit(work[s]) /\ Ahead(s) /\ work[s].step = "idle" /\ files' = Sees(s)
      /\ number' = SeesNumber(s)
  BY DEF LexInv, End
<1>2. CASE work[s].own = 0
  <2>1. \A p \in Paths : Sees(s)[p] = files[p]
    BY <1>1, <1>2 DEF Fit, Sees
  <2>2. Sees(s) = files
    BY <1>1, <2>1 DEF LexTypes, Sees
  <2> QED
    BY <1>1, <1>2, <2>2 DEF SeesNumber
<1>3. CASE work[s].own # 0
  <2>1. work[s].build \in 1 .. MaxBuilds
        /\ \A p \in Shared \cup {work[s].build} : work[s].put[p] = work[s].build
    BY <1>1, <1>3 DEF Fit
  <2>2. \A p \in Shared \cup {work[s].build} : p \in Paths /\ work[s].put[p] # NoFile
    BY <2>1, PathsOfBuild
  <2>3. \A p \in Shared \cup {work[s].build} : Sees(s)[p] = work[s].build
    BY <2>1, <2>2 DEF Sees
  <2> QED
    BY <1>1, <1>3, <2>3 DEF SeesNumber, Ahead
<1> QED
  BY <1>2, <1>3

LEMMA LexCommits ==
  ASSUME LexInv, NEW s \in Backends, End(s)
  PROVE  LexInv'
<1>1. /\ work[s].own = 0 => UNCHANGED <<files, number>>
      /\ work[s].own # 0 => number < work[s].own /\ number' = work[s].own
  BY LexEnds
<1>2. LexTypes /\ Ahead(s) /\ work' = [work EXCEPT ![s] = Nothing] /\ UNCHANGED <<open, builds>>
      /\ files' = Sees(s)
  BY DEF LexInv, End
<1>3. Nothing \in Work /\ Fit(Nothing) /\ Nothing.own = 0
  BY NothingFits
<1> HIDE DEF Nothing
<1>4. work'[s] = Nothing /\ (\A o \in Backends : o # s => work'[o] = work[o])
      /\ work' \in [Backends -> Work] /\ work[s] \in Work
  BY <1>2, <1>3 DEF LexTypes
<1>5. LexTypes'
  <2>1. files' \in [Paths -> Nat]
    BY <1>2, <1>4 DEF LexTypes, Sees, Work, NoFile
  <2>2. number' \in Nat
    BY <1>1, <1>2, <1>4 DEF LexTypes, Work
  <2> QED
    BY <1>2, <1>4, <2>1, <2>2 DEF LexTypes
<1>6. ASSUME NEW t \in Backends PROVE Fit(work'[t]) /\ Ahead(t)' /\ Current(t)'
  <2>1. Fit(work[t]) /\ Ahead(t) /\ Current(t)
    BY DEF LexInv
  <2>2. Fit(work'[t])
    BY <1>3, <1>4, <2>1
  <2>3. Ahead(t)'
    <3>1. CASE t = s
      BY <1>3, <1>4, <3>1 DEF Ahead
    <3>2. CASE t # s
      BY <1>1, <1>2, <1>3, <1>4, <2>1, <3>2 DEF Ahead
    <3> QED
      BY <3>1, <3>2
  <2>4. Current(t)'
    <3>1. CASE work[s].own = 0
      BY <1>1, <1>2, <2>1, <3>1 DEF Current
    <3>2. CASE work[s].own # 0
      <4>1. number \in Nat /\ number' \in Nat /\ number < number'
        BY <1>1, <1>2, <1>5, <3>2 DEF LexTypes
      <4>2. open[t] # NoIndex => open[t].number \in Nat
        BY <1>2 DEF LexTypes, Opened
      <4> QED
        BY <1>2, <2>1, <4>1, <4>2 DEF Current
    <3> QED
      BY <3>1, <3>2
  <2> QED
    BY <2>2, <2>3, <2>4
<1> QED
  BY <1>5, <1>6 DEF LexInv, Fit

\* What a statement outside a build sees, in a transaction that has not built.
LEMMA SeesCommitted ==
  ASSUME LexInv, NEW s \in Backends, work[s].step = "idle", work[s].own = 0
  PROVE  SeesNumber(s) = number /\ OpenFromHeap(s) = files[Meta]
<1>1. Fit(work[s]) /\ LexTypes
  BY DEF LexInv
<1>2. Meta \in Paths
  BY BuildsAssumption DEF Meta, Paths
<1> QED
  BY <1>1, <1>2 DEF Fit, SeesNumber, OpenFromHeap, Sees

LEMMA LexSearch ==
  ASSUME LexInv, NEW s \in Backends, Search(s)
  PROVE  LexInv'
<1>1. PICK i : i = GetOrBuildIndex(s)
  OBVIOUS
<1>2. /\ work[s].step = "idle" /\ open' = [open EXCEPT ![s] = i]
      /\ UNCHANGED <<files, number, work, builds>>
  BY <1>1 DEF Search
<1>3. LexTypes /\ Current(s) /\ work[s] \in Work
  BY DEF LexInv, LexTypes
<1>4. CASE ~Stale(s)
  <2>1. i = open[s]
    BY <1>1, <1>4 DEF GetOrBuildIndex
  <2>2. open' = open
    BY <1>2, <1>3, <2>1 DEF LexTypes
  <2> QED
    BY <1>2, <2>2 DEF LexInv, LexTypes, Fit, Ahead, Current
<1>5. CASE Stale(s)
  <2>1. i = [number |-> SeesNumber(s), build |-> OpenFromHeap(s), dirty |-> work[s].own # 0]
    BY <1>1, <1>5 DEF GetOrBuildIndex
  <2>2. SeesNumber(s) \in Nat /\ OpenFromHeap(s) \in Nat
    <3>1. Meta \in Paths
      BY BuildsAssumption DEF Meta, Paths
    <3> QED
      BY <1>3, <3>1 DEF SeesNumber, OpenFromHeap, Sees, LexTypes, Work, NoFile
  <2>3. i \in Opened /\ i.number = SeesNumber(s) /\ i.build = OpenFromHeap(s)
        /\ (i.dirty <=> work[s].own # 0)
    BY <2>1, <2>2 DEF Opened
  <2>4. open' \in [Backends -> Opened \cup {NoIndex}] /\ open'[s] = i
        /\ \A t \in Backends : t # s => open'[t] = open[t]
    BY <1>2, <1>3, <2>3 DEF LexTypes
  <2>5. Current(s)'
    <3>1. ~i.dirty => i.number = number /\ i.build = files[Meta]
      BY <1>2, <2>3, SeesCommitted
    <3>2. number <= number
      BY <1>3 DEF LexTypes
    <3> QED
      BY <1>2, <2>4, <3>1, <3>2 DEF Current
  <2>6. ASSUME NEW t \in Backends PROVE Fit(work'[t]) /\ Ahead(t)' /\ Current(t)'
    <3>1. Fit(work[t]) /\ Ahead(t) /\ Current(t)
      BY DEF LexInv
    <3>2. t # s => Current(t)'
      BY <1>2, <2>4, <3>1 DEF Current
    <3> QED
      BY <1>2, <2>5, <3>1, <3>2 DEF Ahead
  <2> QED
    BY <1>2, <1>3, <2>4, <2>6 DEF LexInv, LexTypes, Fit
<1> QED
  BY <1>4, <1>5

LEMMA LexStep ==
  ASSUME LexInv, [LexNext]_lexVars PROVE LexInv'
<1>1. CASE LexNext
  BY <1>1, LexBuilding, LexCommits, LexSearch DEF LexNext
<1>2. CASE UNCHANGED lexVars
  BY <1>2 DEF lexVars, LexInv, LexTypes, Fit, Ahead, Current
<1> QED
  BY <1>1, <1>2

LEMMA LexInvariant == LexSpec => []LexInv
<1>1. LexInit => LexInv
  BY LexInitially
<1>2. LexInv /\ [LexNext]_lexVars => LexInv'
  BY LexStep
<1> QED
  BY <1>1, <1>2, PTL DEF LexSpec

\* A search in a transaction that has not rebuilt the index searches the index its snapshot
\* shows, whatever its backend has open (IndexCache::get_or_build).
THEOREM SearchesExact == LexSpec => []CleanSearchExact
<1>1. ASSUME LexInv PROVE CleanSearchExact
  <2> SUFFICES ASSUME NEW s \in Backends, work[s].step = "idle", SeesNumber(s) # 0, ~Stale(s),
                      ~open[s].dirty
               PROVE  open[s].build = OpenFromHeap(s)
    BY DEF CleanSearchExact
  <2>1. open[s] # NoIndex /\ open[s].number = SeesNumber(s)
    BY DEF Stale
  <2>2. Current(s) /\ Ahead(s) /\ number \in Nat /\ work[s] \in Work /\ open[s] \in Opened
    BY <1>1, <2>1 DEF LexInv, LexTypes
  <2>3. CASE work[s].own = 0
    BY <1>1, <2>1, <2>2, <2>3, SeesCommitted DEF Current
  <2>4. CASE work[s].own # 0
    <3>1. open[s].number = work[s].own /\ number < work[s].own /\ open[s].number <= number
      BY <2>1, <2>2, <2>4 DEF SeesNumber, Ahead, Current
    <3> QED
      BY <2>2, <3>1 DEF Work
  <2> QED
    BY <2>3, <2>4
<1> QED
  BY <1>1, LexInvariant, PTL

\* A commit that changes the generation publishes the whole index of one build, its metadata,
\* its list of files and its segment (bm25_build), however builders overlapped.
THEOREM BuildsWhole == LexSpec => WholeIndexCommitted
<1>1. ASSUME LexInv, [LexNext]_lexVars PROVE WholeStep
  <2> SUFFICES ASSUME number' # number
               PROVE  \E s \in Backends :
                        /\ work[s].own = number'
                        /\ \A p \in Shared \cup {work[s].build} : files'[p] = work[s].build
    BY DEF WholeStep
  <2>1. LexNext
    BY <1>1 DEF lexVars
  <2>2. PICK s \in Backends : End(s)
    BY <2>1 DEF LexNext, Start, BuildIndex, ClearOld, FlushFile, EndBuild, AbortTxn, Deadlock, Search
  <2> QED
    BY <1>1, <2>2, LexEnds
<1>2. LexInv /\ [LexNext]_lexVars => [WholeStep]_lexVars
  BY <1>1
<1> QED
  BY <1>2, LexInvariant, PTL DEF LexSpec, WholeIndexCommitted

-----------------------------------------------------------------------------
(* The Arrow cache.                                                        *)

State == [rows : [Tables -> SUBSET Rows], gen : [Tables -> Nat \cup {NoGen}]]
OwnChanges == [rows : [Tables -> SUBSET Rows], gen : [Tables -> Nat \cup {NoGen}],
               wrote : SUBSET Tables, writes : Nat]
OpenTxn == [level : {"none", "rc", "rr"}, snap : Nat, own : OwnChanges,
            mark : {<<>>} \cup {<<o>> : o \in OwnChanges}]
Batch == [rows : SUBSET Rows, gen : Nat, dirty : BOOLEAN]

ArrowTypes ==
    /\ log \in Seq(State) /\ Len(log) \in Nat \ {0}
    /\ txn \in [CacheSessions -> OpenTxn]
    /\ cache \in [CacheSessions -> [Tables -> Batch \cup {NoEntry}]]
    /\ blind \in SUBSET Tables

\* The changes o of an open transaction to a table t: rows it changed count as written; a
\* generation of its own is above the committed one; and a table that it wrote without
\* bumping the generation is not registered.
ChangesFit(o, t) ==
    /\ t \notin o.wrote => o.rows[t] = {}
    /\ o.gen[t] # NoGen => Latest.gen[t] = NoGen \/ Latest.gen[t] < o.gen[t]
    /\ t \in o.wrote /\ o.gen[t] = NoGen /\ t \notin blind => Latest.gen[t] = NoGen

\* What a savepoint m would restore is held by the transaction o.
Within(m, o, t) == (m.gen[t] # NoGen => o.gen[t] # NoGen) /\ (t \in m.wrote => t \in o.wrote)

\* No two transactions have bumped a table, nor one bumped and one written it.
ApartOn(a, b, t) ==
    /\ a.gen[t] = NoGen \/ b.gen[t] = NoGen
    /\ t \notin blind => /\ a.gen[t] = NoGen \/ t \notin b.wrote
                         /\ b.gen[t] = NoGen \/ t \notin a.wrote

TxnFit(x) ==
    /\ x.level # "none" => x.snap \in 1 .. Len(log)
    /\ \A t \in Tables : ChangesFit(x.own, t)
    /\ x.mark # <<>> => \A t \in Tables : ChangesFit(x.mark[1], t) /\ Within(x.mark[1], x.own, t)

\* Generations do not go back, and every commit that changes a registered table's rows
\* gives it a new one.
Ordered(a, b, t) == a.gen[t] # NoGen =>
    /\ b.gen[t] # NoGen /\ a.gen[t] <= b.gen[t]
    /\ t \notin blind /\ a.gen[t] = b.gen[t] => a.rows[t] = b.rows[t]
LogOrdered == \A i, j \in 1 .. Len(log) : i <= j => \A t \in Tables : Ordered(log[i], log[j], t)

\* A clean batch is a committed state of its table.
FromLog(s, t) == cache[s][t] # NoEntry /\ ~cache[s][t].dirty =>
    \E i \in 1 .. Len(log) : log[i].gen[t] = cache[s][t].gen /\ log[i].rows[t] = cache[s][t].rows

ArrowInv ==
    /\ ArrowTypes
    /\ LogOrdered
    /\ \A s \in CacheSessions : TxnFit(txn[s])
    /\ \A s, o \in CacheSessions : s # o =>
         \A t \in Tables : ApartOn(txn[s].own, txn[o].own, t)
    /\ \A s \in CacheSessions, t \in Tables : FromLog(s, t)

LEMMA IdleTyped ==
  /\ Idle \in OpenTxn /\ Idle.level = "none" /\ Idle.mark = <<>> /\ Own \in OwnChanges
  /\ Idle.own = Own
  /\ \A t \in Tables : Own.gen[t] = NoGen /\ Own.rows[t] = {} /\ t \notin Own.wrote
<1>1. /\ Own \in OwnChanges
      /\ \A t \in Tables : Own.gen[t] = NoGen /\ Own.rows[t] = {} /\ t \notin Own.wrote
  BY DEF Own, OwnChanges
<1> HIDE DEF Own
<1>2. Idle \in OpenTxn /\ Idle.level = "none" /\ Idle.mark = <<>> /\ Idle.own = Own
  BY <1>1 DEF Idle, OpenTxn
<1> QED
  BY <1>1, <1>2

\* A transaction that has changed nothing fits.
LEMMA IdleFits ==
  ASSUME NEW t \in Tables
  PROVE  ChangesFit(Own, t) /\ \A o : ApartOn(Own, o, t)
BY IdleTyped DEF ChangesFit, ApartOn

LEMMA LastTyped ==
  ASSUME ArrowTypes
  PROVE  /\ Len(log) \in 1 .. Len(log) /\ Latest = log[Len(log)]
         /\ \A i \in 1 .. Len(log) : log[i] \in State
BY DEF ArrowTypes, Latest

LEMMA ArrowInitially == ASSUME ArrowInit PROVE ArrowInv
<1>1. PICK x : x = [rows |-> [t \in Tables |-> {}], gen |-> [t \in Tables |-> NoGen]]
  OBVIOUS
<1>2. x \in State /\ \A t \in Tables : x.gen[t] = NoGen
  BY <1>1 DEF State
<1>3. log = <<x>> /\ txn = [s \in CacheSessions |-> Idle] /\ blind = {}
      /\ cache = [s \in CacheSessions |-> [t \in Tables |-> NoEntry]]
  BY <1>1 DEF ArrowInit
<1>4. log \in Seq(State) /\ Len(log) = 1 /\ log[1] = x
  BY <1>2, <1>3
<1>5. ArrowTypes
  BY <1>3, <1>4, IdleTyped DEF ArrowTypes
<1>6. LogOrdered
  BY <1>2, <1>4 DEF LogOrdered, Ordered
<1>7. \A s \in CacheSessions : TxnFit(txn[s])
  BY <1>3, IdleTyped, IdleFits DEF TxnFit
<1>8. \A s, o \in CacheSessions : s # o => \A t \in Tables : ApartOn(txn[s].own, txn[o].own, t)
  BY <1>3, IdleTyped, IdleFits
<1>9. \A s \in CacheSessions, t \in Tables : FromLog(s, t)
  BY <1>3 DEF FromLog
<1> QED
  BY <1>5, <1>6, <1>7, <1>8, <1>9 DEF ArrowInv

\* A step of s that commits nothing: its transaction becomes x, its batches are new.
LEMMA ArrowTurns ==
  ASSUME ArrowInv, NEW s \in CacheSessions, log' = log,
         NEW x \in OpenTxn, txn' = [txn EXCEPT ![s] = x], TxnFit(x)',
         \A o \in CacheSessions : o # s => \A t \in Tables : ApartOn(x.own, txn[o].own, t)',
         blind' \in SUBSET Tables, blind \subseteq blind',
         NEW b \in [Tables -> Batch \cup {NoEntry}], cache' = [cache EXCEPT ![s] = b],
         \A t \in Tables : FromLog(s, t)'
  PROVE  ArrowInv'
<1>1. /\ ArrowTypes /\ LogOrdered
      /\ \A o \in CacheSessions : TxnFit(txn[o])
      /\ \A o, u \in CacheSessions : o # u => \A t \in Tables : ApartOn(txn[o].own, txn[u].own, t)
      /\ \A o \in CacheSessions, t \in Tables : FromLog(o, t)
  BY DEF ArrowInv
<1>2. ArrowTypes'
  BY <1>1 DEF ArrowTypes
<1>3. /\ txn'[s] = x /\ cache'[s] = b
      /\ \A o \in CacheSessions : o # s => txn'[o] = txn[o] /\ cache'[o] = cache[o]
  BY <1>1 DEF ArrowTypes
<1>4. \A t : Latest'.gen[t] = Latest.gen[t]
  BY DEF Latest
<1>5. \A o, t : ChangesFit(o, t) => ChangesFit(o, t)'
  BY <1>4 DEF ChangesFit
<1>6. LogOrdered'
  BY <1>1 DEF LogOrdered, Ordered
<1>7. ASSUME NEW o \in CacheSessions PROVE TxnFit(txn[o])'
  <2>1. CASE o = s
    BY <1>3, <2>1 DEF TxnFit, ChangesFit, Within, Latest
  <2>2. CASE o # s
    BY <1>1, <1>3, <1>5, <2>2 DEF TxnFit, Within
  <2> QED
    BY <2>1, <2>2
<1>8. ASSUME NEW o \in CacheSessions, NEW u \in CacheSessions, o # u, NEW t \in Tables
      PROVE  ApartOn(txn[o].own, txn[u].own, t)'
  <2>1. CASE o = s
    BY <1>3, <1>8, <2>1 DEF ApartOn
  <2>2. CASE u = s
    BY <1>3, <1>8, <2>2 DEF ApartOn
  <2>3. CASE o # s /\ u # s
    BY <1>1, <1>3, <1>8, <2>3 DEF ApartOn
  <2> QED
    BY <2>1, <2>2, <2>3
<1>9. ASSUME NEW o \in CacheSessions, NEW t \in Tables PROVE FromLog(o, t)'
  <2>1. CASE o = s
    BY <2>1
  <2>2. CASE o # s
    BY <1>1, <1>3, <2>2 DEF FromLog
  <2> QED
    BY <2>1, <2>2
<1> QED
  BY <1>2, <1>6, <1>7, <1>8, <1>9 DEF ArrowInv

\* The same for a step that leaves the batches alone.
LEMMA ArrowKeeps ==
  ASSUME ArrowInv, NEW s \in CacheSessions, log' = log, cache' = cache,
         NEW x \in OpenTxn, txn' = [txn EXCEPT ![s] = x], TxnFit(x)',
         \A o \in CacheSessions : o # s => \A t \in Tables : ApartOn(x.own, txn[o].own, t)',
         blind' \in SUBSET Tables, blind \subseteq blind'
  PROVE  ArrowInv'
<1>1. cache[s] \in [Tables -> Batch \cup {NoEntry}] /\ cache' = [cache EXCEPT ![s] = cache[s]]
  BY DEF ArrowInv, ArrowTypes
<1>2. \A t \in Tables : FromLog(s, t)'
  BY DEF ArrowInv, FromLog
<1> QED
  BY <1>1, <1>2, ArrowTurns

\* What the invariant says of the transaction of s.
LEMMA OneTxn ==
  ASSUME ArrowInv, NEW s \in CacheSessions
  PROVE  /\ txn[s] \in OpenTxn /\ txn[s].own \in OwnChanges /\ TxnFit(txn[s])
         /\ txn[s].mark # <<>> => txn[s].mark[1] \in OwnChanges
         /\ \A o \in CacheSessions : o # s =>
              \A t \in Tables : ApartOn(txn[s].own, txn[o].own, t)
<1>1. txn[s] \in OpenTxn /\ TxnFit(txn[s])
      /\ \A o \in CacheSessions : o # s => \A t \in Tables : ApartOn(txn[s].own, txn[o].own, t)
  BY DEF ArrowInv, ArrowTypes
<1>2. txn[s].own \in OwnChanges /\ txn[s].mark \in {<<>>} \cup {<<o>> : o \in OwnChanges}
  BY <1>1 DEF OpenTxn
<1> QED
  BY <1>1, <1>2

\* Nothing of TxnFit and ApartOn moves with the transactions alone.
LEMMA FitStays ==
  ASSUME log' = log, blind' = blind
  PROVE  /\ \A o, t : ChangesFit(o, t)' <=> ChangesFit(o, t)
         /\ \A a, b, t : ApartOn(a, b, t)' <=> ApartOn(a, b, t)
<1>1. Latest' = Latest
  BY DEF Latest
<1> QED
  BY <1>1 DEF ChangesFit, ApartOn

LEMMA EndsTxn ==
  ASSUME ArrowInv, NEW s \in CacheSessions, UNCHANGED <<log, cache, blind>>,
         NEW x \in OpenTxn, x.own = Own, x.mark = <<>>, x.level # "none" => x.snap = Len(log),
         txn' = [txn EXCEPT ![s] = x]
  PROVE  ArrowInv'
<1>1. Len(log) \in 1 .. Len(log) /\ blind \in SUBSET Tables
  BY DEF ArrowInv, ArrowTypes
<1>2. \A t \in Tables : ChangesFit(Own, t) /\ \A o : ApartOn(Own, o, t)
  BY IdleFits
<1>3. \A t \in Tables : ChangesFit(Own, t)' /\ \A o : ApartOn(Own, o, t)'
  BY <1>2, FitStays
<1>4. TxnFit(x)'
  BY <1>1, <1>3 DEF TxnFit
<1>5. \A o \in CacheSessions : o # s => \A t \in Tables : ApartOn(x.own, txn[o].own, t)'
  BY <1>2, FitStays
<1> QED
  BY <1>1, <1>4, <1>5, ArrowKeeps

LEMMA BeginTxnTurns ==
  ASSUME ArrowInv, NEW s \in CacheSessions, NEW level \in Levels, BeginTxn(s, level)
  PROVE  ArrowInv'
<1>1. PICK x : x = [Idle EXCEPT !.level = level, !.snap = Len(log)]
  OBVIOUS
<1>2. Idle \in OpenTxn /\ level \in {"none", "rc", "rr"} /\ Len(log) \in Nat
  BY IdleTyped, CacheAssumption DEF ArrowInv, ArrowTypes
<1>3. x \in OpenTxn /\ x.own = Idle.own /\ x.mark = Idle.mark /\ x.snap = Len(log)
  BY <1>1, <1>2 DEF OpenTxn
<1>4. x.own = Own /\ x.mark = <<>>
  BY <1>3, IdleTyped
<1>5. txn' = [txn EXCEPT ![s] = x] /\ UNCHANGED <<log, cache, blind>>
  BY <1>1 DEF BeginTxn
<1> QED
  BY <1>3, <1>4, <1>5, EndsTxn

LEMMA GivesUp ==
  ASSUME ArrowInv, NEW s \in CacheSessions, txn' = [txn EXCEPT ![s] = Idle],
         UNCHANGED <<log, cache, blind>>
  PROVE  ArrowInv'
BY IdleTyped, EndsTxn

LEMMA SetSavepointTurns ==
  ASSUME ArrowInv, NEW s \in CacheSessions, SetSavepoint(s)
  PROVE  ArrowInv'
<1>1. PICK x : x = [txn[s] EXCEPT !.mark = <<txn[s].own>>]
  OBVIOUS
<1>2. x \in OpenTxn /\ x.own = txn[s].own /\ x.mark = <<txn[s].own>>
      /\ x.level = txn[s].level /\ x.snap = txn[s].snap
  BY <1>1, OneTxn DEF OpenTxn
<1>3. txn' = [txn EXCEPT ![s] = x] /\ UNCHANGED <<log, cache, blind>>
  BY <1>1 DEF SetSavepoint
<1>4. TxnFit(x)
  BY <1>2, OneTxn DEF TxnFit, Within
<1>5. TxnFit(x)'
  BY <1>3, <1>4, FitStays DEF TxnFit, Within
<1>6. \A o \in CacheSessions : o # s => \A t \in Tables : ApartOn(x.own, txn[o].own, t)'
  BY <1>2, <1>3, OneTxn, FitStays
<1> QED
  BY <1>2, <1>3, <1>5, <1>6, ArrowKeeps DEF ArrowInv, ArrowTypes

LEMMA BackToSavepointTurns ==
  ASSUME ArrowInv, NEW s \in CacheSessions, BackToSavepoint(s)
  PROVE  ArrowInv'
<1> DEFINE m == txn[s].mark[1]
<1>1. PICK x : x = [txn[s] EXCEPT !.own = m, !.mark = <<>>]
  OBVIOUS
<1>2. txn[s].mark # <<>> /\ m \in OwnChanges
  BY OneTxn DEF BackToSavepoint
<1>3. x \in OpenTxn /\ x.own = m /\ x.mark = <<>>
      /\ x.level = txn[s].level /\ x.snap = txn[s].snap
  BY <1>1, <1>2, OneTxn DEF OpenTxn
<1>4. txn' = [txn EXCEPT ![s] = x] /\ UNCHANGED <<log, cache, blind>>
  BY <1>1 DEF BackToSavepoint
<1>5. \A t \in Tables : ChangesFit(m, t) /\ Within(m, txn[s].own, t)
  BY <1>2, OneTxn DEF TxnFit
<1>6. TxnFit(x)
  BY <1>3, <1>5, OneTxn DEF TxnFit
<1>7. TxnFit(x)'
  BY <1>4, <1>6, FitStays DEF TxnFit, Within
<1>8. ASSUME NEW o \in CacheSessions, o # s, NEW t \in Tables PROVE ApartOn(m, txn[o].own, t)
  <2>1. ApartOn(txn[s].own, txn[o].own, t) /\ Within(m, txn[s].own, t)
    BY <1>5, <1>8, OneTxn
  <2> QED
    BY <2>1 DEF ApartOn, Within
<1>9. \A o \in CacheSessions : o # s => \A t \in Tables : ApartOn(x.own, txn[o].own, t)'
  BY <1>3, <1>4, <1>8, FitStays
<1> QED
  BY <1>3, <1>4, <1>7, <1>9, ArrowKeeps DEF ArrowInv, ArrowTypes

\* The snapshot of s is a committed state.
LEMMA BaseCommitted ==
  ASSUME ArrowInv, NEW s \in CacheSessions, InTxn(s)
  PROVE  \E i \in 1 .. Len(log) : Base(s) = log[i] /\ log[i] \in State
<1>1. txn[s].level = "rr" => txn[s].snap \in 1 .. Len(log)
  BY OneTxn DEF InTxn, TxnFit
<1>2. Len(log) \in 1 .. Len(log) /\ Latest = log[Len(log)]
      /\ \A i \in 1 .. Len(log) : log[i] \in State
  BY LastTyped DEF ArrowInv
<1> QED
  BY <1>1, <1>2 DEF Base

\* The generation a trigger or a registration of s starts from is no older than the
\* committed one: the row it updates is the last version, or its own.
LEMMA SeesLatest ==
  ASSUME ArrowInv, NEW s \in CacheSessions, NEW t \in Tables, InTxn(s),
         Serializable(s, t), SeenGen(s, t) # NoGen
  PROVE  /\ SeenGen(s, t) \in Nat
         /\ Latest.gen[t] # NoGen => Latest.gen[t] \in Nat /\ Latest.gen[t] <= SeenGen(s, t)
<1>1. Latest.gen[t] \in Nat \cup {NoGen} /\ Base(s).gen[t] \in Nat \cup {NoGen}
  <2>1. \A x \in State : x.gen[t] \in Nat \cup {NoGen}
    BY DEF State
  <2>2. Latest \in State
    BY LastTyped DEF ArrowInv
  <2>3. Base(s) \in State
    BY BaseCommitted
  <2> QED
    BY <2>1, <2>2, <2>3
<1>2. CASE txn[s].own.gen[t] # NoGen
  <2>1. SeenGen(s, t) = txn[s].own.gen[t] /\ SeenGen(s, t) \in Nat
    BY <1>2, OneTxn DEF SeenGen, OwnChanges
  <2>2. Latest.gen[t] = NoGen \/ Latest.gen[t] < txn[s].own.gen[t]
    BY <1>2, OneTxn DEF TxnFit, ChangesFit
  <2> QED
    BY <1>1, <2>1, <2>2
<1>3. CASE txn[s].own.gen[t] = NoGen
  <2>1. SeenGen(s, t) = Base(s).gen[t]
    BY <1>3 DEF SeenGen
  <2>2. Base(s).gen[t] = Latest.gen[t]
    BY <1>3, <2>1 DEF Serializable, Base
  <2> QED
    BY <1>1, <2>1, <2>2
<1> QED
  BY <1>2, <1>3

\* What a bump or a write of the table t makes of the changes of s, y, fits once it fits
\* for t: the other tables, the savepoint and the other transactions stay as they were.
LEMMA OwnTurns ==
  ASSUME ArrowInv, NEW s \in CacheSessions, NEW t \in Tables, InTxn(s), GenRowFree(s, t),
         NEW y \in OwnChanges, log' = log, txn' = [txn EXCEPT ![s] = [txn[s] EXCEPT !.own = y]],
         blind' \in SUBSET Tables, blind \subseteq blind',
         \A u \in Tables \ {t} : y.gen[u] = txn[s].own.gen[u] /\ y.rows[u] = txn[s].own.rows[u],
         \A u \in Tables \ {t} : u \in y.wrote <=> u \in txn[s].own.wrote,
         t \in txn[s].own.wrote => t \in y.wrote,
         txn[s].own.gen[t] # NoGen => y.gen[t] # NoGen,
         ChangesFit(y, t)',
         \A o \in CacheSessions : o # s => y.gen[t] = NoGen \/ t \in blind' \/ t \notin txn[o].own.wrote,
         NEW b \in [Tables -> Batch \cup {NoEntry}], cache' = [cache EXCEPT ![s] = b],
         \A u \in Tables : FromLog(s, u)'
  PROVE  ArrowInv'
<1>1. PICK x : x = [txn[s] EXCEPT !.own = y]
  OBVIOUS
<1>2. x \in OpenTxn /\ x.own = y /\ x.mark = txn[s].mark
      /\ x.level = txn[s].level /\ x.snap = txn[s].snap
  BY <1>1, OneTxn DEF OpenTxn
<1>3. TxnFit(txn[s]) /\ Latest' = Latest
  BY OneTxn DEF Latest
<1>4. ASSUME NEW u \in Tables PROVE ChangesFit(y, u)'
  <2>1. CASE u = t
    BY <2>1
  <2>2. CASE u # t
    <3>1. ChangesFit(txn[s].own, u)
      BY <1>3 DEF TxnFit
    <3>2. /\ y.gen[u] = txn[s].own.gen[u] /\ y.rows[u] = txn[s].own.rows[u]
          /\ u \in y.wrote <=> u \in txn[s].own.wrote
      BY <2>2
    <3> QED
      BY <1>3, <3>1, <3>2 DEF ChangesFit
  <2> QED
    BY <2>1, <2>2
<1>5. ASSUME x.mark # <<>>, NEW u \in Tables
      PROVE  ChangesFit(x.mark[1], u)' /\ Within(x.mark[1], y, u)
  <2>1. ChangesFit(x.mark[1], u) /\ Within(x.mark[1], txn[s].own, u)
    BY <1>2, <1>3, <1>5 DEF TxnFit
  <2>2. ChangesFit(x.mark[1], u)'
    BY <1>3, <2>1 DEF ChangesFit
  <2>3. CASE u = t
    BY <2>1, <2>2, <2>3 DEF Within
  <2>4. CASE u # t
    BY <2>1, <2>2, <2>4 DEF Within
  <2> QED
    BY <2>3, <2>4
<1>6. TxnFit(x)'
  <2>1. x.level # "none" => x.snap \in 1 .. Len(log)
    BY <1>2, <1>3 DEF TxnFit
  <2> QED
    BY <1>2, <1>4, <1>5, <2>1 DEF TxnFit, Within
<1>7. ASSUME NEW o \in CacheSessions, o # s, NEW u \in Tables PROVE ApartOn(x.own, txn[o].own, u)'
  <2>1. txn'[o] = txn[o]
    BY <1>7 DEF ArrowInv, ArrowTypes
  <2>2. ApartOn(txn[s].own, txn[o].own, u)
    BY <1>7, OneTxn
  <2>3. CASE u = t
    BY <1>2, <1>7, <2>1, <2>3 DEF ApartOn, GenRowFree
  <2>4. CASE u # t
    BY <1>2, <2>1, <2>2, <2>4 DEF ApartOn
  <2> QED
    BY <2>3, <2>4
<1>8. txn' = [txn EXCEPT ![s] = x]
  BY <1>1
<1> QED
  BY <1>2, <1>6, <1>7, <1>8, ArrowTurns

LEMMA WriteTurns ==
  ASSUME ArrowInv, NEW s \in CacheSessions, NEW t \in Tables, NEW r \in Rows, Write(s, t, r)
  PROVE  ArrowInv'
<1> DEFINE own == txn[s].own
           g == IF Triggered(s, t) THEN Invalidate(s, t) ELSE own.gen[t]
<1>1. PICK y : y = Written(s, t, r)
  OBVIOUS
<1>2. /\ InTxn(s) /\ GenRowFree(s, t) /\ Serializable(s, t) /\ log' = log /\ cache' = cache
      /\ Triggered(s, t) /\ SeenGen(s, t) = NoGen => blind' = blind \cup {t}
      /\ ~(Triggered(s, t) /\ SeenGen(s, t) = NoGen) => blind' = blind
  BY DEF Write
<1>3. txn' = [txn EXCEPT ![s] = [txn[s] EXCEPT !.own = y]]
  BY <1>1 DEF Write
<1>4. own \in OwnChanges
  BY OneTxn
<1>5. g \in Nat \cup {NoGen}
  BY <1>2, <1>4, SeesLatest DEF Invalidate, OwnChanges
<1> HIDE DEF g
<1>6. /\ y \in OwnChanges /\ y.wrote = own.wrote \cup {t} /\ y.gen[t] = g
      /\ \A u \in Tables \ {t} : y.gen[u] = own.gen[u] /\ y.rows[u] = own.rows[u]
  <2>1. own.rows \in [Tables -> SUBSET Rows] /\ own.gen \in [Tables -> Nat \cup {NoGen}]
        /\ own.wrote \in SUBSET Tables /\ own.writes \in Nat
    BY <1>4 DEF OwnChanges
  <2>2. Toggle(own.rows[t], {r}) \in SUBSET Rows
    BY <2>1 DEF Toggle
  <2>3. y = [rows |-> [own.rows EXCEPT ![t] = Toggle(own.rows[t], {r})],
             gen |-> [own.gen EXCEPT ![t] = g],
             wrote |-> own.wrote \cup {t}, writes |-> own.writes + 1]
    BY <1>1, <1>4 DEF OwnChanges, Written, g
  <2> HIDE DEF own
  <2>4. y.rows = [own.rows EXCEPT ![t] = Toggle(own.rows[t], {r})]
        /\ y.gen = [own.gen EXCEPT ![t] = g] /\ y.wrote = own.wrote \cup {t}
    BY <2>3
  <2>5. /\ [own.rows EXCEPT ![t] = Toggle(own.rows[t], {r})] \in [Tables -> SUBSET Rows]
        /\ [own.gen EXCEPT ![t] = g] \in [Tables -> Nat \cup {NoGen}]
        /\ own.wrote \cup {t} \in SUBSET Tables /\ own.writes + 1 \in Nat
    <3>1. \A f \in [Tables -> SUBSET Rows], R \in SUBSET Rows : [f EXCEPT ![t] = R] \in [Tables -> SUBSET Rows]
      OBVIOUS
    <3>2. \A f \in [Tables -> Nat \cup {NoGen}], n \in Nat \cup {NoGen} :
            [f EXCEPT ![t] = n] \in [Tables -> Nat \cup {NoGen}]
      OBVIOUS
    <3>3. own.wrote \cup {t} \in SUBSET Tables /\ own.writes + 1 \in Nat
      BY <2>1
    <3> QED
      BY <1>5, <2>1, <2>2, <3>1, <3>2, <3>3
  <2>6. y \in OwnChanges
    BY <2>3, <2>5 DEF OwnChanges
  <2> QED
    BY <2>1, <2>4, <2>6
<1>7. own.gen[t] # NoGen => g # NoGen
  BY <1>2, SeesLatest, CacheAssumption DEF Triggered, Invalidate, SeenGen, g
<1>8. g # NoGen => Triggered(s, t) /\ SeenGen(s, t) # NoGen /\ g = SeenGen(s, t) + 1
  BY DEF Triggered, Invalidate, g
<1>9. ChangesFit(y, t)'
  <2>1. t \in y.wrote /\ Latest' = Latest
    BY <1>2, <1>6 DEF Latest
  <2>2. g # NoGen => Latest.gen[t] = NoGen \/ Latest.gen[t] < g
    BY <1>2, <1>8, SeesLatest
  <2>3. g = NoGen /\ t \notin blind' => Latest.gen[t] = NoGen
    BY <1>2, <1>5, <1>7, SeesLatest, CacheAssumption DEF Triggered, Invalidate, g
  <2> QED
    BY <1>6, <2>1, <2>2, <2>3 DEF ChangesFit
<1>10. ASSUME NEW o \in CacheSessions, o # s
       PROVE  y.gen[t] = NoGen \/ t \in blind' \/ t \notin txn[o].own.wrote
  <2> SUFFICES ASSUME g # NoGen, t \notin blind', t \in txn[o].own.wrote PROVE FALSE
    BY <1>6
  <2>1. t \notin blind /\ txn[o].own.gen[t] = NoGen
    BY <1>2, <1>10 DEF GenRowFree
  <2>2. Latest.gen[t] = NoGen
    BY <2>1, OneTxn DEF TxnFit, ChangesFit
  <2>3. own.gen[t] # NoGen
    BY <1>8, <2>2 DEF Triggered
  <2> QED
    BY <1>10, <2>1, <2>3, OneTxn DEF ApartOn
<1>11. cache[s] \in [Tables -> Batch \cup {NoEntry}] /\ cache' = [cache EXCEPT ![s] = cache[s]]
  BY <1>2 DEF ArrowInv, ArrowTypes
<1>12. \A u \in Tables : FromLog(s, u)'
  BY <1>2 DEF ArrowInv, FromLog
<1>13. blind' \in SUBSET Tables /\ blind \subseteq blind'
  BY <1>2 DEF ArrowInv, ArrowTypes
<1>14. /\ \A u \in Tables \ {t} : u \in y.wrote <=> u \in txn[s].own.wrote
       /\ t \in txn[s].own.wrote => t \in y.wrote
       /\ txn[s].own.gen[t] # NoGen => y.gen[t] # NoGen
       /\ \A u \in Tables \ {t} : y.gen[u] = txn[s].own.gen[u] /\ y.rows[u] = txn[s].own.rows[u]
  BY <1>6, <1>7
<1> QED
  BY <1>14, <1>2, <1>3, <1>6, <1>7, <1>9, <1>10, <1>11, <1>12, <1>13, OwnTurns

\* A batch e for the table t comes in, those of V go.
Replaced(s, t, e, V) ==
    [u \in Tables |-> IF u = t THEN e ELSE IF u \in V THEN NoEntry ELSE cache[s][u]]
\* A batch that is a committed state if it is clean.
Honest(e, t) ==
    ~e.dirty => \E i \in 1 .. Len(log) : log[i].gen[t] = e.gen /\ log[i].rows[t] = e.rows

LEMMA EntryTurns ==
  ASSUME ArrowInv, NEW s \in CacheSessions, NEW t \in Tables, NEW e \in Batch, NEW V,
         log' = log, Honest(e, t), cache' = [cache EXCEPT ![s] = Replaced(s, t, e, V)]
  PROVE  /\ Replaced(s, t, e, V) \in [Tables -> Batch \cup {NoEntry}]
         /\ \A u \in Tables : FromLog(s, u)'
<1> DEFINE b == Replaced(s, t, e, V)
<1>1. /\ cache \in [CacheSessions -> [Tables -> Batch \cup {NoEntry}]]
      /\ \A u \in Tables : FromLog(s, u)
  BY DEF ArrowInv, ArrowTypes
<1>2. b \in [Tables -> Batch \cup {NoEntry}]
  BY <1>1 DEF Replaced
<1>3. cache'[s] = b
  BY <1>1
<1>4. ASSUME NEW u \in Tables PROVE FromLog(s, u)'
  <2>1. CASE u = t
    <3>1. cache'[s][u] = e
      BY <1>3, <2>1 DEF Replaced
    <3> QED
      BY <2>1, <3>1 DEF FromLog, Honest
  <2>2. CASE u # t
    <3>1. cache'[s][u] = NoEntry \/ cache'[s][u] = cache[s][u]
      BY <1>3, <2>2 DEF Replaced
    <3> QED
      BY <1>1, <3>1 DEF FromLog
  <2> QED
    BY <2>1, <2>2
<1> QED
  BY <1>2, <1>4

\* What a snapshot shows of a table; of one that its transaction left alone it shows a
\* committed state.
LEMMA SeesTyped ==
  ASSUME ArrowInv, NEW s \in CacheSessions, NEW t \in Tables, InTxn(s)
  PROVE  /\ SeenRows(s, t) \in SUBSET Rows /\ SeenGen(s, t) \in Nat \cup {NoGen}
         /\ ~Changed(s, t) => \E i \in 1 .. Len(log) :
                                log[i].gen[t] = SeenGen(s, t) /\ log[i].rows[t] = SeenRows(s, t)
<1>1. PICK i \in 1 .. Len(log) : Base(s) = log[i] /\ log[i] \in State
  BY BaseCommitted
<1>2. log[i].rows[t] \in SUBSET Rows /\ log[i].gen[t] \in Nat \cup {NoGen}
  BY <1>1 DEF State
<1>3. txn[s].own.rows[t] \in SUBSET Rows /\ txn[s].own.gen[t] \in Nat \cup {NoGen}
      /\ ChangesFit(txn[s].own, t)
  BY OneTxn DEF OwnChanges, TxnFit
<1>4. SeenRows(s, t) \in SUBSET Rows /\ SeenGen(s, t) \in Nat \cup {NoGen}
  BY <1>1, <1>2, <1>3 DEF SeenRows, SeenGen, Toggle
<1>5. ~Changed(s, t) => SeenGen(s, t) = log[i].gen[t] /\ SeenRows(s, t) = log[i].rows[t]
  <2> SUFFICES ASSUME ~Changed(s, t)
               PROVE  SeenGen(s, t) = log[i].gen[t] /\ SeenRows(s, t) = log[i].rows[t]
    OBVIOUS
  <2>1. txn[s].own.gen[t] = NoGen /\ txn[s].own.rows[t] = {}
    BY <1>3 DEF Changed, ChangesFit
  <2> QED
    BY <1>1, <2>1 DEF SeenRows, SeenGen, Toggle
<1> QED
  BY <1>4, <1>5

LEMMA GetOrBuildTurns ==
  ASSUME ArrowInv, NEW s \in CacheSessions, NEW t \in Tables, InTxn(s), GetOrBuild(s, t),
         UNCHANGED <<log, txn, blind>>
  PROVE  ArrowInv'
<1>1. txn' = [txn EXCEPT ![s] = txn[s]] /\ txn[s] \in OpenTxn /\ TxnFit(txn[s])'
  BY OneTxn, FitStays DEF ArrowInv, ArrowTypes, TxnFit, Within
<1>2. \A o \in CacheSessions : o # s => \A t_1 \in Tables : ApartOn(txn[s].own, txn[o].own, t_1)'
  BY OneTxn, FitStays
<1>3. CASE UNCHANGED cache
  BY <1>1, <1>2, <1>3, ArrowKeeps DEF ArrowInv, ArrowTypes
<1>4. CASE ~UNCHANGED cache
  <2>1. PICK e : e = BuildCache(s, t, CacheState(s, t))
    OBVIOUS
  <2>2. CacheState(s, t) # NoGen
        /\ \E V \in Victims(s, t) :
             cache' = [cache EXCEPT ![s] = Replaced(s, t, e, V)]
    BY <1>4, <2>1 DEF GetOrBuild, Replaced
  <2>3. /\ e \in Batch /\ e.gen = SeenGen(s, t) /\ e.rows = SeenRows(s, t)
        /\ ~e.dirty => ~Changed(s, t)
    BY <2>1, <2>2, SeesTyped DEF BuildCache, CacheState, Batch, Changed
  <2>4. Honest(e, t)
    BY <2>3, SeesTyped DEF Honest
  <2>5. PICK V : cache' = [cache EXCEPT ![s] = Replaced(s, t, e, V)]
    BY <2>2
  <2>6. Replaced(s, t, e, V) \in [Tables -> Batch \cup {NoEntry}] /\ \A u \in Tables : FromLog(s, u)'
    BY <2>3, <2>4, <2>5, EntryTurns
  <2> QED
    BY <1>1, <1>2, <2>5, <2>6, ArrowTurns DEF ArrowInv, ArrowTypes
<1> QED
  BY <1>3, <1>4

LEMMA ColumnarizeTurns ==
  ASSUME ArrowInv, NEW s \in CacheSessions, NEW t \in Tables, Columnarize(s, t)
  PROVE  ArrowInv'
<1> DEFINE own == txn[s].own
           g == IF SeenGen(s, t) = NoGen THEN 0 ELSE SeenGen(s, t) + 1
<1>1. PICK y : y = Registered(s, t)
  OBVIOUS
<1>2. /\ InTxn(s) /\ GenRowFree(s, t) /\ TableFree(s, t) /\ log' = log /\ blind' = blind
      /\ txn[s].level = "rc" \/ own.gen[t] # NoGen \/ Base(s).gen[t] = Latest.gen[t]
  BY DEF Columnarize
<1>3. txn' = [txn EXCEPT ![s] = [txn[s] EXCEPT !.own = y]]
  BY <1>1 DEF Columnarize
<1>4. own \in OwnChanges /\ SeenGen(s, t) \in Nat \cup {NoGen} /\ Serializable(s, t)
  BY <1>2, OneTxn, SeesTyped DEF Serializable
<1>5. g \in Nat /\ g # NoGen
  BY <1>4, CacheAssumption
<1>6. Latest.gen[t] = NoGen \/ Latest.gen[t] < g
  <2>1. CASE SeenGen(s, t) = NoGen
    <3>1. own.gen[t] = NoGen /\ Base(s).gen[t] = NoGen
      BY <2>1 DEF SeenGen
    <3>2. Base(s).gen[t] = Latest.gen[t]
      BY <1>2, <3>1 DEF Base
    <3> QED
      BY <3>1, <3>2
  <2>2. CASE SeenGen(s, t) # NoGen
    BY <1>2, <1>4, <2>2, SeesLatest
  <2> QED
    BY <2>1, <2>2
<1>7. /\ y \in OwnChanges /\ y.rows = own.rows /\ y.wrote = own.wrote /\ y.gen[t] = g
      /\ \A u \in Tables \ {t} : y.gen[u] = own.gen[u]
  <2>1. own.rows \in [Tables -> SUBSET Rows] /\ own.gen \in [Tables -> Nat \cup {NoGen}]
        /\ own.wrote \in SUBSET Tables /\ own.writes \in Nat
    BY <1>4 DEF OwnChanges
  <2>2. y = [rows |-> own.rows, gen |-> [own.gen EXCEPT ![t] = g],
             wrote |-> own.wrote, writes |-> own.writes + 1]
    BY <1>1, <1>4 DEF OwnChanges, Registered
  <2> HIDE DEF own, g
  <2>3. y.rows = own.rows /\ y.gen = [own.gen EXCEPT ![t] = g] /\ y.wrote = own.wrote
    BY <2>2
  <2>4. [own.gen EXCEPT ![t] = g] \in [Tables -> Nat \cup {NoGen}] /\ own.writes + 1 \in Nat
    BY <1>5, <2>1
  <2>5. y \in OwnChanges
    BY <2>1, <2>2, <2>4 DEF OwnChanges
  <2> QED
    BY <2>1, <2>3, <2>5
<1> HIDE DEF g
<1>8. ChangesFit(y, t)'
  <2>1. Latest' = Latest /\ ChangesFit(own, t)
    BY <1>2, OneTxn DEF Latest, TxnFit
  <2> QED
    BY <1>5, <1>6, <1>7, <2>1 DEF ChangesFit
<1>9. \E b \in [Tables -> Batch \cup {NoEntry}] :
        cache' = [cache EXCEPT ![s] = b] /\ \A u \in Tables : FromLog(s, u)'
  <2>1. CASE UNCHANGED cache
    <3>1. cache[s] \in [Tables -> Batch \cup {NoEntry}] /\ cache' = [cache EXCEPT ![s] = cache[s]]
      BY <2>1 DEF ArrowInv, ArrowTypes
    <3>2. \A u \in Tables : FromLog(s, u)'
      BY <1>2, <2>1 DEF ArrowInv, FromLog
    <3> QED
      BY <3>1, <3>2
  <2>2. CASE ~UNCHANGED cache
    <3>1. PICK e : e = [rows |-> SeenRows(s, t), gen |-> y.gen[t], dirty |-> TRUE]
      OBVIOUS
    <3>2. \E V \in Victims(s, t) :
            cache' = [cache EXCEPT ![s] = Replaced(s, t, e, V)]
      BY <1>1, <2>2, <3>1 DEF Columnarize, Replaced
    <3>3. e \in Batch /\ Honest(e, t)
      BY <1>2, <1>5, <1>7, <3>1, SeesTyped DEF Batch, Honest
    <3>4. PICK V : cache' = [cache EXCEPT ![s] = Replaced(s, t, e, V)]
      BY <3>2
    <3>5. Replaced(s, t, e, V) \in [Tables -> Batch \cup {NoEntry}] /\ \A u \in Tables : FromLog(s, u)'
      BY <1>2, <3>3, <3>4, EntryTurns
    <3> QED
      BY <3>4, <3>5
  <2> QED
    BY <2>1, <2>2
<1>10. PICK b \in [Tables -> Batch \cup {NoEntry}] :
         cache' = [cache EXCEPT ![s] = b] /\ \A u \in Tables : FromLog(s, u)'
  BY <1>9
<1>11. /\ \A u \in Tables \ {t} : u \in y.wrote <=> u \in txn[s].own.wrote
       /\ t \in txn[s].own.wrote => t \in y.wrote
       /\ txn[s].own.gen[t] # NoGen => y.gen[t] # NoGen
       /\ \A u \in Tables \ {t} : y.gen[u] = txn[s].own.gen[u] /\ y.rows[u] = txn[s].own.rows[u]
       /\ \A o \in CacheSessions : o # s => y.gen[t] = NoGen \/ t \in blind' \/ t \notin txn[o].own.wrote
       /\ blind' \in SUBSET Tables /\ blind \subseteq blind'
  BY <1>2, <1>5, <1>7 DEF TableFree, ArrowInv, ArrowTypes
<1> QED
  BY <1>2, <1>3, <1>7, <1>8, <1>10, <1>11, OwnTurns

\* What another transaction, or its savepoint, has changed fits what s commits.
LEMMA FitsCommit ==
  ASSUME ArrowInv, NEW s \in CacheSessions, NEW t \in Tables, NEW n, ChangesFit(n, t),
         ApartOn(txn[s].own, n, t), blind' = blind, Latest' = CommittedState(s)
  PROVE  ChangesFit(n, t)'
<1>1. Latest'.gen[t] = IF txn[s].own.gen[t] # NoGen THEN txn[s].own.gen[t] ELSE Latest.gen[t]
  BY DEF CommittedState
<1> QED
  BY <1>1 DEF ChangesFit, ApartOn

\* What s commits follows the last committed state.
LEMMA CommitFollows ==
  ASSUME ArrowInv, NEW s \in CacheSessions
  PROVE  /\ CommittedState(s) \in State
         /\ \A t \in Tables : Ordered(Latest, CommittedState(s), t)
<1> DEFINE own == txn[s].own
           c == CommittedState(s)
<1>1. Latest \in State /\ own \in OwnChanges /\ TxnFit(txn[s])
  BY LastTyped, OneTxn DEF ArrowInv
<1>2. /\ Latest.rows \in [Tables -> SUBSET Rows] /\ Latest.gen \in [Tables -> Nat \cup {NoGen}]
      /\ own.rows \in [Tables -> SUBSET Rows] /\ own.gen \in [Tables -> Nat \cup {NoGen}]
  BY <1>1 DEF State, OwnChanges
<1>3. \A t \in Tables : Toggle(Latest.rows[t], own.rows[t]) \in SUBSET Rows
  BY <1>2 DEF Toggle
<1>4. c \in State
  BY <1>2, <1>3 DEF CommittedState, State
<1>5. ASSUME NEW t \in Tables, Latest.gen[t] # NoGen
      PROVE  /\ c.gen[t] # NoGen /\ Latest.gen[t] <= c.gen[t]
             /\ t \notin blind /\ Latest.gen[t] = c.gen[t] => Latest.rows[t] = c.rows[t]
  <2>1. /\ c.gen[t] = IF own.gen[t] # NoGen THEN own.gen[t] ELSE Latest.gen[t]
        /\ c.rows[t] = Toggle(Latest.rows[t], own.rows[t])
    BY DEF CommittedState
  <2>2. ChangesFit(own, t) /\ Latest.gen[t] \in Nat /\ own.gen[t] \in Nat \cup {NoGen}
    BY <1>1, <1>2, <1>5 DEF TxnFit
  <2>3. CASE own.gen[t] # NoGen
    BY <1>5, <2>1, <2>2, <2>3 DEF ChangesFit
  <2>4. CASE own.gen[t] = NoGen
    <3>1. c.gen[t] = Latest.gen[t]
      BY <2>1, <2>4
    <3>2. t \notin blind => own.rows[t] = {}
      BY <1>5, <2>2, <2>4 DEF ChangesFit
    <3>3. t \notin blind => c.rows[t] = Latest.rows[t]
      BY <2>1, <3>2 DEF Toggle
    <3> QED
      BY <1>5, <2>2, <3>1, <3>3
  <2> QED
    BY <2>3, <2>4
<1> QED
  BY <1>4, <1>5 DEF Ordered

LEMMA OrderedChains ==
  ASSUME NEW a \in State, NEW b \in State, NEW c \in State, NEW t \in Tables,
         Ordered(a, b, t), Ordered(b, c, t)
  PROVE  Ordered(a, c, t) /\ Ordered(a, a, t)
<1>1. \A x \in State : x.gen[t] \in Nat \cup {NoGen}
  BY DEF State
<1>2. a.gen[t] \in Nat \cup {NoGen} /\ b.gen[t] \in Nat \cup {NoGen} /\ c.gen[t] \in Nat \cup {NoGen}
  BY <1>1
<1> QED
  BY <1>2 DEF Ordered

LEMMA CommitTurns ==
  ASSUME ArrowInv, NEW s \in CacheSessions, CommitTxn(s)
  PROVE  ArrowInv'
<1> DEFINE c == CommittedState(s)
<1>1. txn' = [txn EXCEPT ![s] = Idle] /\ UNCHANGED <<cache, blind>>
  BY DEF CommitTxn
<1>2. CASE log' = log
  BY <1>1, <1>2, GivesUp
<1>3. CASE log' # log
  <2>1. log' = Append(log, c)
    BY <1>3 DEF CommitTxn
  <2>2. c \in State /\ \A t \in Tables : Ordered(Latest, c, t)
    BY CommitFollows
  <2>3. /\ log \in Seq(State) /\ Len(log) \in Nat \ {0} /\ Latest = log[Len(log)]
        /\ \A i \in 1 .. Len(log) : log[i] \in State
    BY LastTyped DEF ArrowInv, ArrowTypes
  <2> HIDE DEF c
  <2>4. /\ log' \in Seq(State) /\ Len(log') = Len(log) + 1 /\ log'[Len(log) + 1] = c
        /\ \A i \in 1 .. Len(log) : log'[i] = log[i]
    BY <2>1, <2>2, <2>3
  <2>5. Latest' = c
    BY <2>4 DEF Latest
  <2>6. txn'[s] = Idle /\ \A o \in CacheSessions : o # s => txn'[o] = txn[o]
    BY <1>1 DEF ArrowInv, ArrowTypes
  <2>7. ArrowTypes'
    <3>1. txn' \in [CacheSessions -> OpenTxn]
      BY <1>1, IdleTyped DEF ArrowInv, ArrowTypes
    <3> QED
      BY <1>1, <2>3, <2>4, <3>1 DEF ArrowInv, ArrowTypes
  <2>8. LogOrdered'
    <3> SUFFICES ASSUME NEW i \in 1 .. Len(log'), NEW j \in 1 .. Len(log'), i <= j, NEW t \in Tables
                 PROVE  Ordered(log[i], log[j], t)'
      BY DEF LogOrdered
    <3>2. CASE j \in 1 .. Len(log)
      <4>1. i \in 1 .. Len(log) /\ log'[i] = log[i] /\ log'[j] = log[j]
        BY <2>3, <2>4, <3>2
      <4>2. Ordered(log[i], log[j], t)
        BY <3>2, <4>1 DEF ArrowInv, LogOrdered
      <4> QED
        BY <1>1, <4>1, <4>2 DEF Ordered
    <3>3. CASE j = Len(log) + 1 /\ i \in 1 .. Len(log)
      <4>1. Ordered(log[i], Latest, t) /\ log[i] \in State /\ Latest \in State
        BY <2>3, <3>3 DEF ArrowInv, LogOrdered
      <4>2. Ordered(log[i], c, t)
        BY <2>2, <4>1, OrderedChains
      <4>3. log'[i] = log[i] /\ log'[j] = c
        BY <2>4, <3>3
      <4> QED
        BY <1>1, <4>2, <4>3 DEF Ordered
    <3>4. CASE j = Len(log) + 1 /\ i = Len(log) + 1
      <4>1. c.gen[t] \in Nat \cup {NoGen} /\ log'[i] = c /\ log'[j] = c
        BY <2>2, <2>4, <3>4 DEF State
      <4> QED
        BY <4>1 DEF Ordered
    <3> QED
      BY <2>3, <2>4, <3>2, <3>3, <3>4
  <2>9. ASSUME NEW o \in CacheSessions PROVE TxnFit(txn[o])'
    <3>1. CASE o = s
      <4>1. txn'[o] = Idle /\ blind' = blind
        BY <1>1, <2>6, <3>1
      <4>2. \A t \in Tables : Own.gen[t] = NoGen /\ Own.rows[t] = {} /\ t \notin Own.wrote
        BY IdleTyped
      <4>3. \A t \in Tables : ChangesFit(Own, t)'
        BY <4>2 DEF ChangesFit
      <4> QED
        BY <4>1, <4>3, IdleTyped DEF TxnFit
    <3>2. CASE o # s
      <4>1. txn'[o] = txn[o] /\ TxnFit(txn[o])
        BY <2>6, <3>2, OneTxn
      <4>2. \A t \in Tables : ApartOn(txn[s].own, txn[o].own, t)
        BY <3>2, OneTxn
      <4>3. ASSUME NEW t \in Tables PROVE ChangesFit(txn[o].own, t)'
        <5>1. ChangesFit(txn[o].own, t)
          BY <4>1 DEF TxnFit
        <5>2. PICK n : n = txn[o].own
          OBVIOUS
        <5>3. ChangesFit(n, t)'
          BY <1>1, <2>5, <4>2, <5>1, <5>2, FitsCommit DEF c
        <5>4. txn'[o].own = n
          BY <4>1, <5>2
        <5> QED
          BY <5>3, <5>4 DEF ChangesFit
      <4>4. ASSUME txn[o].mark # <<>>, NEW t \in Tables
            PROVE  (ChangesFit(txn[o].mark[1], t) /\ Within(txn[o].mark[1], txn[o].own, t))'
        <5>1. PICK m : m = txn[o].mark[1]
          OBVIOUS
        <5>2. ChangesFit(m, t) /\ Within(m, txn[o].own, t)
          BY <4>1, <4>4, <5>1 DEF TxnFit
        <5>3. ApartOn(txn[s].own, m, t)
          BY <4>2, <5>2 DEF ApartOn, Within
        <5>4. ChangesFit(m, t)'
          BY <1>1, <2>5, <5>2, <5>3, FitsCommit DEF c
        <5>5. txn'[o].mark[1] = m
          BY <4>1, <5>1
        <5>6. ChangesFit(txn[o].mark[1], t)'
          BY <5>4, <5>5 DEF ChangesFit
        <5>7. Within(txn[o].mark[1], txn[o].own, t)'
          BY <4>1, <5>1, <5>2, <5>5 DEF Within
        <5> QED
          BY <5>6, <5>7
      <4>5. txn[o].level # "none" => txn[o].snap \in 1 .. Len(log')
        BY <2>3, <2>4, <4>1 DEF TxnFit
      <4> QED
        BY <4>1, <4>3, <4>4, <4>5 DEF TxnFit
    <3> QED
      BY <3>1, <3>2
  <2>10. ASSUME NEW o \in CacheSessions, NEW u \in CacheSessions, o # u, NEW t \in Tables
         PROVE  ApartOn(txn[o].own, txn[u].own, t)'
    <3>1. Own.gen[t] = NoGen /\ t \notin Own.wrote
      BY IdleTyped
    <3>2. CASE o = s
      <4>1. txn'[o].own = Own
        BY <2>6, <3>2, IdleTyped
      <4> QED
        BY <3>1, <4>1 DEF ApartOn
    <3>3. CASE u = s
      <4>1. txn'[u].own = Own
        BY <2>6, <3>3, IdleTyped
      <4> QED
        BY <3>1, <4>1 DEF ApartOn
    <3>4. CASE o # s /\ u # s
      <4>1. txn'[o] = txn[o] /\ txn'[u] = txn[u]
        BY <2>6, <3>4
      <4>2. ApartOn(txn[o].own, txn[u].own, t)
        BY <2>10 DEF ArrowInv
      <4> QED
        BY <1>1, <4>1, <4>2 DEF ApartOn
    <3> QED
      BY <3>2, <3>3, <3>4
  <2>11. ASSUME NEW o \in CacheSessions, NEW t \in Tables PROVE FromLog(o, t)'
    <3>1. FromLog(o, t) /\ cache' = cache
      BY <1>1 DEF ArrowInv
    <3> QED
      BY <2>3, <2>4, <3>1 DEF FromLog
  <2> QED
    BY <2>7, <2>8, <2>9, <2>10, <2>11 DEF ArrowInv
<1> QED
  BY <1>2, <1>3

LEMMA ArrowPreserves == ASSUME ArrowInv, [ArrowNext]_arrowVars PROVE ArrowInv'
<1>1. CASE UNCHANGED arrowVars
  <2>1. log' = log /\ txn' = txn /\ cache' = cache /\ blind' = blind
    BY <1>1 DEF arrowVars
  <2>2. ArrowTypes' /\ LogOrdered'
    <3>1. ArrowTypes /\ LogOrdered
      BY DEF ArrowInv
    <3> QED
      BY <2>1, <3>1 DEF ArrowTypes, LogOrdered, Ordered
  <2>3. \A s \in CacheSessions : TxnFit(txn[s])'
    BY <2>1, FitStays DEF ArrowInv, TxnFit, Within
  <2>4. \A s, o \in CacheSessions : s # o => \A t \in Tables : ApartOn(txn[s].own, txn[o].own, t)'
    BY <2>1 DEF ArrowInv, ApartOn
  <2>5. \A s \in CacheSessions, t \in Tables : FromLog(s, t)'
    BY <2>1 DEF ArrowInv, FromLog
  <2> QED
    BY <2>2, <2>3, <2>4, <2>5 DEF ArrowInv
<1>2. CASE ArrowNext
  <2>1. PICK s \in CacheSessions :
          \/ \E level \in Levels : BeginTxn(s, level)
          \/ SetSavepoint(s)
          \/ BackToSavepoint(s)
          \/ CommitTxn(s)
          \/ RollbackTxn(s)
          \/ \E t \in Tables :
               \/ \E r \in Rows : Write(s, t, r)
               \/ WriteFails(s, t)
               \/ RunCacheAggs(s, t)
               \/ CacheRefresh(s, t)
               \/ Columnarize(s, t)
    BY <1>2 DEF ArrowNext
  <2>2. CASE \E level \in Levels : BeginTxn(s, level)
    BY <2>2, BeginTxnTurns
  <2>3. CASE SetSavepoint(s)
    BY <2>3, SetSavepointTurns
  <2>4. CASE BackToSavepoint(s)
    BY <2>4, BackToSavepointTurns
  <2>5. CASE CommitTxn(s)
    BY <2>5, CommitTurns
  <2>6. CASE RollbackTxn(s) \/ \E t \in Tables : WriteFails(s, t)
    <3>1. txn' = [txn EXCEPT ![s] = Idle] /\ UNCHANGED <<log, cache, blind>>
      BY <2>6 DEF RollbackTxn, WriteFails
    <3> QED
      BY <3>1, GivesUp
  <2>7. CASE \E t \in Tables, r \in Rows : Write(s, t, r)
    BY <2>7, WriteTurns
  <2>8. CASE \E t \in Tables : RunCacheAggs(s, t) \/ CacheRefresh(s, t)
    <3>1. PICK t \in Tables : RunCacheAggs(s, t) \/ CacheRefresh(s, t)
      BY <2>8
    <3>2. InTxn(s) /\ GetOrBuild(s, t) /\ UNCHANGED <<log, txn, blind>>
      BY <3>1 DEF RunCacheAggs, CacheRefresh
    <3> QED
      BY <3>2, GetOrBuildTurns
  <2>9. CASE \E t \in Tables : Columnarize(s, t)
    BY <2>9, ColumnarizeTurns
  <2> QED
    BY <2>1, <2>2, <2>3, <2>4, <2>5, <2>6, <2>7, <2>8, <2>9
<1> QED
  BY <1>1, <1>2

LEMMA CleanExact == ASSUME ArrowInv PROVE CleanEntriesExact
<1> SUFFICES ASSUME NEW s \in CacheSessions, NEW t \in Tables, t \notin blind,
                    cache[s][t] # NoEntry, ~cache[s][t].dirty, InTxn(s),
                    cache[s][t].gen = SeenGen(s, t)
             PROVE  cache[s][t].rows = SeenRows(s, t)
  BY DEF CleanEntriesExact, Exact, HasCachedColumns, Fresh, CacheState
<1> DEFINE own == txn[s].own
<1>1. FromLog(s, t) /\ cache[s][t] \in Batch
  BY DEF ArrowInv, ArrowTypes
<1>2. PICK i \in 1 .. Len(log) : log[i].gen[t] = cache[s][t].gen /\ log[i].rows[t] = cache[s][t].rows
  BY <1>1 DEF FromLog
<1>3. PICK j \in 1 .. Len(log) : Base(s) = log[j]
  BY BaseCommitted
<1>4. log[i].gen[t] \in Nat /\ log[i].gen[t] # NoGen
  BY <1>1, <1>2, CacheAssumption DEF Batch
<1>5. /\ \A k \in 1 .. Len(log) : i <= k => Ordered(log[i], log[k], t)
      /\ \A k \in 1 .. Len(log) : k <= i => Ordered(log[k], log[i], t)
      /\ Len(log) \in Nat
  BY DEF ArrowInv, ArrowTypes, LogOrdered
<1>6. Latest.gen[t] \in Nat /\ Latest.gen[t] # NoGen /\ log[i].gen[t] <= Latest.gen[t]
  <2>1. Ordered(log[i], Latest, t)
    BY <1>5, LastTyped DEF ArrowInv
  <2>2. Latest.gen[t] \in Nat \cup {NoGen}
    BY LastTyped DEF ArrowInv, State
  <2> QED
    BY <1>4, <2>1, <2>2 DEF Ordered
<1>7. ChangesFit(own, t) /\ own.gen[t] \in Nat \cup {NoGen} /\ own.rows[t] \in SUBSET Rows
  BY OneTxn DEF TxnFit, OwnChanges
<1>8. own.gen[t] = NoGen
  <2> SUFFICES ASSUME own.gen[t] # NoGen PROVE FALSE
    OBVIOUS
  <2>1. log[i].gen[t] = own.gen[t]
    BY <1>2 DEF SeenGen
  <2>2. Latest.gen[t] < own.gen[t]
    BY <1>6, <1>7 DEF ChangesFit
  <2> QED
    BY <1>4, <1>6, <2>1, <2>2
<1>9. own.rows[t] = {}
  BY <1>6, <1>7, <1>8 DEF ChangesFit
<1>10. log[j].gen[t] = log[i].gen[t]
  BY <1>2, <1>3, <1>8 DEF SeenGen
<1>11. log[j].rows[t] = log[i].rows[t]
  <2>1. CASE i <= j
    BY <1>4, <1>5, <1>10, <2>1 DEF Ordered
  <2>2. CASE j <= i
    BY <1>4, <1>5, <1>10, <2>2 DEF Ordered
  <2> QED
    BY <1>5, <2>1, <2>2
<1> QED
  BY <1>2, <1>3, <1>9, <1>11 DEF SeenRows, Toggle

\* A backend's batches are finitely many, at most Cap.
HeldFits == \A s \in CacheSessions : IsFiniteSet(Held(s)) /\ Cardinality(Held(s)) <= Cap

\* Room is made before a batch comes in.
LEMMA RoomMade ==
  ASSUME HeldFits, NEW s \in CacheSessions, NEW t \in Tables, NEW V \in Victims(s, t)
  PROVE  /\ IsFiniteSet((Held(s) \ V) \cup {t})
         /\ Cardinality((Held(s) \ V) \cup {t}) <= Cap
<1> DEFINE H == Held(s)
<1>1. IsFiniteSet(H) /\ Cardinality(H) \in Nat /\ Cardinality(H) <= Cap /\ Cap \in Nat
  BY FS_CardinalityType, CacheAssumption DEF HeldFits
<1>2. CASE t \in H
  <2>1. (H \ V) \cup {t} = H
    BY <1>2 DEF Victims
  <2> QED
    BY <1>1, <2>1
<1>3. CASE t \notin H
  <2>1. IsFiniteSet(H \ V) /\ Cardinality(H \ V) \in Nat /\ Cardinality(H \ V) + 1 <= Cap
    <3>1. CASE Cardinality(H) < Cap
      <4>1. H \ V = H
        BY <1>3, <3>1 DEF Victims
      <4> QED
        BY <1>1, <3>1, <4>1
    <3>2. CASE ~(Cardinality(H) < Cap)
      <4>1. V \in SUBSET H /\ Cardinality(V) = Cardinality(H) - Cap + 1
        BY <1>3, <3>2 DEF Victims, kSubset
      <4>2. H \cap V = V
        BY <4>1
      <4>3. IsFiniteSet(H \ V) /\ Cardinality(H \ V) = Cardinality(H) - Cardinality(H \cap V)
        BY <1>1, FS_Difference
      <4>4. Cardinality(H \ V) \in Nat
        BY <4>3, FS_CardinalityType
      <4>5. Cardinality(H \ V) = Cardinality(H) - (Cardinality(H) - Cap + 1)
        BY <4>1, <4>2, <4>3
      <4> HIDE DEF H
      <4> QED
        BY <1>1, <4>3, <4>4, <4>5
    <3> QED
      BY <3>1, <3>2
  <2>2. /\ IsFiniteSet((H \ V) \cup {t})
        /\ Cardinality((H \ V) \cup {t}) = Cardinality(H \ V) + 1
    <3>1. t \notin H \ V
      BY <1>3
    <3> HIDE DEF H
    <3> QED
      BY <2>1, <3>1, FS_AddElement
  <2> QED
    BY <2>1, <2>2
<1> QED
  BY <1>2, <1>3

LEMMA HeldTurns ==
  ASSUME ArrowInv, HeldFits, [ArrowNext]_arrowVars
  PROVE  HeldFits'
<1>1. CASE cache' = cache
  BY <1>1 DEF HeldFits, Held
<1>2. CASE cache' # cache
  <2>1. PICK s \in CacheSessions, t \in Tables : Columnarize(s, t) \/ GetOrBuild(s, t)
    <3>1. \/ \E s \in CacheSessions, t \in Tables :
               RunCacheAggs(s, t) \/ CacheRefresh(s, t) \/ Columnarize(s, t)
          \/ cache' = cache
      <4>1. UNCHANGED arrowVars => cache' = cache
        BY DEF arrowVars
      <4>2. ASSUME NEW s \in CacheSessions
            PROVE  /\ SetSavepoint(s) \/ BackToSavepoint(s) \/ RollbackTxn(s) => cache' = cache
                   /\ \A level : BeginTxn(s, level) => cache' = cache
                   /\ \A t : WriteFails(s, t) => cache' = cache
                   /\ \A t, r : Write(s, t, r) => cache' = cache
        <5>1. SetSavepoint(s) \/ BackToSavepoint(s) \/ RollbackTxn(s) => cache' = cache
          BY DEF SetSavepoint, BackToSavepoint, RollbackTxn
        <5>2. \A level : BeginTxn(s, level) => cache' = cache
          BY DEF BeginTxn
        <5>3. \A t : WriteFails(s, t) => cache' = cache
          BY DEF WriteFails
        <5>4. \A t, r : Write(s, t, r) => cache' = cache
          BY DEF Write
        <5> QED
          BY <5>1, <5>2, <5>3, <5>4
      <4>3. ASSUME NEW s \in CacheSessions, CommitTxn(s) PROVE cache' = cache
        BY <4>3 DEF CommitTxn
      <4> QED
        BY <4>1, <4>2, <4>3 DEF ArrowNext
    <3> QED
      BY <1>2, <3>1 DEF RunCacheAggs, CacheRefresh
  <2>2. \E e, V : V \in Victims(s, t) /\ cache' = [cache EXCEPT ![s] = Replaced(s, t, e, V)]
    <3>1. CASE GetOrBuild(s, t)
      <4>1. PICK e : e = BuildCache(s, t, CacheState(s, t))
        OBVIOUS
      <4> QED
        BY <1>2, <3>1, <4>1 DEF GetOrBuild, Replaced
    <3>2. CASE Columnarize(s, t)
      <4>1. PICK e : e = [rows |-> SeenRows(s, t), gen |-> Registered(s, t).gen[t], dirty |-> TRUE]
        OBVIOUS
      <4> QED
        BY <1>2, <3>2, <4>1 DEF Columnarize, Replaced
    <3> QED
      BY <2>1, <3>1, <3>2
  <2>3. PICK e, V : V \in Victims(s, t) /\ cache' = [cache EXCEPT ![s] = Replaced(s, t, e, V)]
    BY <2>2
  <2>4. ASSUME NEW o \in CacheSessions
        PROVE  IsFiniteSet(Held(o)') /\ Cardinality(Held(o)') <= Cap
    <3>1. CASE o = s
      <4>1. cache'[s] = Replaced(s, t, e, V)
        BY <2>3 DEF ArrowInv, ArrowTypes
      <4>2. Held(s)' \subseteq (Held(s) \ V) \cup {t}
        BY <4>1 DEF Held, Replaced
      <4>3. /\ IsFiniteSet((Held(s) \ V) \cup {t})
            /\ Cardinality((Held(s) \ V) \cup {t}) <= Cap
        BY <2>3, RoomMade
      <4>4. /\ IsFiniteSet(Held(s)')
            /\ Cardinality(Held(s)') <= Cardinality((Held(s) \ V) \cup {t})
        BY <4>2, <4>3, FS_Subset
      <4>5. Cardinality(Held(s)') \in Nat /\ Cardinality((Held(s) \ V) \cup {t}) \in Nat
        BY <4>3, <4>4, FS_CardinalityType
      <4> QED
        BY <3>1, <4>3, <4>4, <4>5, CacheAssumption
    <3>2. CASE o # s
      <4>1. Held(o)' = Held(o)
        BY <2>3, <3>2 DEF ArrowInv, ArrowTypes, Held
      <4> QED
        BY <4>1 DEF HeldFits
    <3> QED
      BY <3>1, <3>2
  <2> QED
    BY <2>4 DEF HeldFits
<1> QED
  BY <1>1, <1>2

LEMMA HeldInitially == ASSUME ArrowInit PROVE HeldFits
<1>1. \A s \in CacheSessions : Held(s) = {}
  BY DEF ArrowInit, Held
<1> QED
  BY <1>1, FS_EmptySet, CacheAssumption DEF HeldFits

\* A batch that a backend serves, built by a transaction that had not changed the table, is
\* what the snapshot shows, for any number of backends, tables and commits, at either
\* isolation level (get_or_build, as long as every writer saw the registration); and a
\* backend keeps at most arrow_cache_max_entries of them.
THEOREM CachedExact == ArrowSpec => []CacheExact
<1>1. ArrowInit => ArrowInv /\ HeldFits
  BY ArrowInitially, HeldInitially
<1>2. ArrowInv /\ HeldFits /\ [ArrowNext]_arrowVars => (ArrowInv /\ HeldFits)'
  BY ArrowPreserves, HeldTurns
<1>3. ArrowInv /\ HeldFits => CacheExact
  BY CleanExact DEF HeldFits, CacheExact, EntriesBounded
<1> QED
  BY <1>1, <1>2, <1>3, PTL DEF ArrowSpec
================================================================================
