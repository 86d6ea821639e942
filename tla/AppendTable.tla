------------------------------ MODULE AppendTable ------------------------------
(***************************************************************************)
(* What a theodb_columnar table promises to its sessions: an append-only   *)
(* transactional table.  A transaction's rows join the table all together  *)
(* when it commits and vanish all together when it does not; a scan        *)
(* answers with the table and the session's own rows as they were when the *)
(* scan was opened.  ColumnarTable implements it.                          *)
(***************************************************************************)
CONSTANTS Sessions, Rows

VARIABLES
    table,   \* the committed rows
    own,     \* session -> rows its open transaction inserted
    cursor   \* session -> its open scan: what it has to answer, and its answer

vars == <<table, own, cursor>>

Closed == [open |-> FALSE]
Opened(view) == [open |-> TRUE, view |-> view, answered |-> FALSE, answer |-> {}]

TypeOK ==
    /\ table \in SUBSET Rows
    /\ own \in [Sessions -> SUBSET Rows]
    /\ \A s \in Sessions :
         \/ cursor[s] = Closed
         \/ cursor[s] \in [open : {TRUE}, view : SUBSET Rows,
                           answered : BOOLEAN, answer : SUBSET Rows]

Init ==
    /\ table = {}
    /\ own = [s \in Sessions |-> {}]
    /\ cursor = [s \in Sessions |-> Closed]

\* A row is new: nobody, in any transaction, has inserted it before.
Insert(s, r) ==
    /\ r \notin table /\ \A t \in Sessions : r \notin own[t]
    /\ own' = [own EXCEPT ![s] = @ \cup {r}]
    /\ UNCHANGED <<table, cursor>>

Open(s) ==
    /\ cursor[s] = Closed
    /\ cursor' = [cursor EXCEPT ![s] = Opened(table \cup own[s])]
    /\ UNCHANGED <<table, own>>

Answer(s) ==
    /\ cursor[s].open /\ ~cursor[s].answered
    /\ cursor' = [cursor EXCEPT ![s].answered = TRUE, ![s].answer = cursor[s].view]
    /\ UNCHANGED <<table, own>>

Close(s) ==
    /\ cursor[s].open
    /\ cursor' = [cursor EXCEPT ![s] = Closed]
    /\ UNCHANGED <<table, own>>

Commit(s) ==
    /\ cursor[s] = Closed
    /\ table' = table \cup own[s]
    /\ own' = [own EXCEPT ![s] = {}]
    /\ UNCHANGED cursor

\* ROLLBACK TO SAVEPOINT.  How many of the rows it undoes is not said here.
Undo(s) ==
    /\ \E R \in SUBSET own[s] : own' = [own EXCEPT ![s] = R]
    /\ cursor' = [cursor EXCEPT ![s] = Closed]
    /\ UNCHANGED table

Abort(s) ==
    /\ own' = [own EXCEPT ![s] = {}]
    /\ cursor' = [cursor EXCEPT ![s] = Closed]
    /\ UNCHANGED table

Crash ==
    /\ own' = [s \in Sessions |-> {}]
    /\ cursor' = [s \in Sessions |-> Closed]
    /\ UNCHANGED table

Next ==
    \/ Crash
    \/ \E s \in Sessions :
         \/ \E r \in Rows : Insert(s, r)
         \/ Open(s) \/ Answer(s) \/ Close(s) \/ Commit(s)
         \/ Undo(s) \/ Abort(s)

Spec == Init /\ [][Next]_vars
================================================================================
