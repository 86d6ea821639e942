------------------------------ MODULE Vectorizer ------------------------------
(***************************************************************************)
(* The declarative auto-embedding pipeline of theodb_rs/src/vectorizer.rs: *)
(* a source table whose AFTER-row trigger enqueues jobs, the job queue     *)
(* theodb.vectorizer_queue, and the background worker that drains it.      *)
(*                                                                         *)
(* One action is one transaction of the code (or the HTTP call between two *)
(* of them), so everything another session can see happens between         *)
(* actions.  A worker's Rust locals (the claimed tuples, the contents it   *)
(* read) are variables of the model: they outlive the transaction that     *)
(* produced them, which is where the pipeline's races live.                *)
(*                                                                         *)
(* Abstractions.  An embedding is named by the text it was computed from,  *)
(* so "fresh" is "equal to the row's text".  A lease deadline is null,     *)
(* running or expired, and Expire is the passage of time.  One vectorizer  *)
(* is registered; its rows are Keys.  The job ids of bigserial are the     *)
(* least ids that neither the queue nor a worker's locals mention.         *)
(***************************************************************************)
EXTENDS Integers, FiniteSets

CONSTANTS
    Keys,         \* primary keys of the source table, as text
    Contents,     \* non-null values of the content column
    NullText,     \* the SQL NULL in the content column
    NoRow,        \* no row with this primary key
    NoVector,     \* embedding IS NULL / no chunk rows
    Workers,      \* worker processes; the shipped extension registers one
    Nobody,       \* owner IS NULL
    Dead,         \* the owner token of a worker process that exited
    Mode,         \* "inplace", "sibling" or "chunk": where embeddings are stored
    SingleTxn,    \* values of the GUC theodb.vectorizer_single_txn, read per batch
    Batch,        \* WORKER_BATCH
    MaxAttempts,  \* WORKER_MAX_ATTEMPTS
    Keep,         \* the GUC theodb.vectorizer_dead_letter_max
    MaxJobs,      \* bound: job ids in use at a time
    MaxDml,       \* bound: user statements
    MaxCrashes,   \* bound: worker processes killed
    WithDelete    \* whether the users of the source table delete rows

ASSUME ModeAssumption == Mode \in {"inplace", "sibling", "chunk"}
ASSUME FlagAssumption == SingleTxn \subseteq BOOLEAN /\ WithDelete \in BOOLEAN
ASSUME BoundAssumption ==
    /\ Batch \in Nat \ {0} /\ MaxAttempts \in Nat \ {0} /\ Keep \in Nat
    /\ MaxJobs \in Nat /\ MaxDml \in Nat /\ MaxCrashes \in Nat
ASSUME SentinelAssumption ==
    /\ NullText \notin Contents /\ NoRow \notin Contents /\ NullText # NoRow
    /\ NoVector \notin Contents
    /\ Nobody \notin Workers /\ Dead \notin Workers /\ Nobody # Dead

JobIds == 1 .. MaxJobs
Ops == {"upsert", "delete"}
Texts == Contents \cup {NullText}           \* what a content column can hold
Vectors == Contents \cup {NoVector}         \* what an embedding can stand for

\* A row of theodb.vectorizer_queue; 'done' jobs are deleted, hence NoJob.
Job == [key : Keys, op : Ops, state : {"pending", "processing", "failed"},
        attempts : 0 .. MaxAttempts, owner : Workers \cup {Nobody, Dead},
        lease : {"null", "running", "expired"}]
NoJob == [state |-> "absent"]

\* A tuple claim_batch returned to the worker: its private copy of the job.
Claim == [id : JobIds, key : Keys, op : Ops]
NoClaim == [op |-> "none"]

VARIABLES
    source,   \* key -> content of the source row, or NoRow
    emb,      \* key -> the target column of the in-place or sibling row
    chunks,   \* key -> the rows of the {target}_chunks table
    jobs,     \* job id -> queue row
    ahead,    \* job id -> the queued jobs with an earlier enqueued_at
    pc,       \* worker -> the transaction it runs next
    claims,   \* worker -> claimed tuples it has not looked at yet
    group,    \* worker -> the upserts of process_group (and of its fallback)
    cur,      \* worker -> the job process_one is working on
    snap,     \* worker -> contents it read, by key
    outcome,  \* worker -> did the processing subtransaction of process_one succeed
    dml, crashes \* environment budgets

data == <<source, emb, chunks>>
queue == <<jobs, ahead>>
locals == <<claims, group, cur, snap, outcome>>
vars == <<source, emb, chunks, jobs, ahead, pc, claims, group, cur, snap,
          outcome, dml, crashes>>

Steps == {"reap", "claim", "dispatch", "renew", "embed", "write", "txn",
          "txnEmbed", "fallback", "one", "oneEmbed", "mark"}

TypeOK ==
    /\ source \in [Keys -> Texts \cup {NoRow}]
    /\ emb \in [Keys -> Vectors]
    /\ chunks \in [Keys -> Vectors]
    /\ jobs \in [JobIds -> Job \cup {NoJob}]
    /\ ahead \in [JobIds -> SUBSET JobIds]
    /\ pc \in [Workers -> Steps]
    /\ claims \in [Workers -> SUBSET Claim]
    /\ group \in [Workers -> SUBSET Claim]
    /\ cur \in [Workers -> Claim \cup {NoClaim}]
    /\ snap \in [Workers -> [Keys -> Texts \cup {NoRow}]]
    /\ outcome \in [Workers -> BOOLEAN]
    /\ dml \in 0 .. MaxDml
    /\ crashes \in 0 .. MaxCrashes

-----------------------------------------------------------------------------
(* The queue.                                                              *)

InState(s) == {j \in JobIds : jobs[j].state = s}
Queued == {j \in JobIds : jobs[j] # NoJob}
\* A fault: the unique index loses its WHERE state = 'pending'.
PendingKeysRunningToo ==
    {jobs[j].key : j \in InState("pending") \cup InState("processing")}

PendingKeys == {jobs[j].key : j \in InState("pending")}

\* Job ids a worker's locals still mention.
Held(w) == {c.id : c \in claims[w] \cup group[w]}
           \cup (IF cur[w] = NoClaim THEN {} ELSE {cur[w].id})
FreeIds == {j \in JobIds \ Queued : \A w \in Workers : j \notin Held(w)}

\* The serial numbers that inserting one job for each key of K can draw.
FreshIds(K) ==
    {f \in [K -> FreeIds] :
        /\ \A k1, k2 \in K : f[k1] = f[k2] => k1 = k2
        /\ \A k \in K, j \in FreeIds : j < f[k] => \E k1 \in K : f[k1] = j}

\* INSERT .. ON CONFLICT (vectorizer_id, source_pk) WHERE state = 'pending' DO
\* UPDATE SET op: a pending job of the key takes the new op and keeps its place,
\* attempts and backoff; any other key of K gets a new job.  `q` is the queue the
\* statement starts from and `f` the ids it draws.
Coalesced(q, K, op, f) ==
    LET new == DOMAIN f
        At(j) == CHOOSE k \in new : f[k] = j
    IN [j \in JobIds |->
          IF \E k \in new : f[k] = j
          THEN [key |-> At(j), op |-> op, state |-> "pending", attempts |-> 0,
                owner |-> Nobody, lease |-> "null"]
          ELSE IF q[j].state = "pending" /\ q[j].key \in K
          THEN [q[j] EXCEPT !.op = op]
          ELSE q[j]]

\* Places in the FIFO once the jobs of `gone` are deleted and those of `new` queued.
Places(gone, new) ==
    [j \in JobIds |-> IF j \in new THEN Queued \ gone
                      ELSE IF j \in gone THEN {} ELSE ahead[j] \ gone]

Without(q, gone) == [j \in JobIds |-> IF j \in gone THEN NoJob ELSE q[j]]

\* The row trigger fires for the rows of K; the jobs of `gone` are deleted by the
\* same transaction.
EnqueueAndDelete(K, op, gone) ==
    \E f \in FreshIds(K \ PendingKeys) :
        /\ jobs' = Without(Coalesced(jobs, K, op, f), gone)
        /\ ahead' = Places(gone, {f[k] : k \in DOMAIN f})

-----------------------------------------------------------------------------
(* Users of the source table: one statement, its trigger included.         *)

UserStatement(k, text, op) ==
    /\ dml < MaxDml
    /\ dml' = dml + 1
    /\ source' = [source EXCEPT ![k] = text]
    /\ EnqueueAndDelete({k}, op, {})
    /\ UNCHANGED <<chunks, pc, locals, crashes>>

\* In place, the embedding column is born and dies with the source row.
Insert(k, text) ==
    /\ source[k] = NoRow
    /\ UserStatement(k, text, "upsert")
    /\ emb' = IF Mode = "inplace" THEN [emb EXCEPT ![k] = NoVector] ELSE emb

Update(k, text) ==
    /\ source[k] # NoRow
    /\ UserStatement(k, text, "upsert")
    /\ UNCHANGED emb

Delete(k) ==
    /\ WithDelete
    /\ source[k] # NoRow
    /\ UserStatement(k, NoRow, "delete")
    /\ emb' = IF Mode = "inplace" THEN [emb EXCEPT ![k] = NoVector] ELSE emb

User == \E k \in Keys : \/ \E t \in Texts : Insert(k, t) \/ Update(k, t)
                        \/ Delete(k)

\* Time passes: a lease or a backoff runs out.
Expire(j) ==
    /\ jobs[j] # NoJob
    /\ jobs[j].lease = "running"
    /\ jobs' = [jobs EXCEPT ![j].lease = "expired"]
    /\ UNCHANGED <<data, ahead, pc, locals, dml, crashes>>

-----------------------------------------------------------------------------
(* The statements a worker issues against the queue.                       *)

\* A fault: mark_done, mark_failed and renew_lease without their owner guard.
OwnsUnfenced(w, j) == jobs[j].state = "processing"

Owns(w, j) == jobs[j].state = "processing" /\ jobs[j].owner = w

\* A fault: a claim that ignores the attempt cap.
ClaimableNoCap(j) ==
    \/ jobs[j].state = "pending" /\ jobs[j].lease # "running"
    \/ jobs[j].state = "processing" /\ jobs[j].lease = "expired"

Claimable(j) ==
    /\ \/ jobs[j].state = "pending" /\ jobs[j].lease # "running"
       \/ jobs[j].state = "processing" /\ jobs[j].lease = "expired"
    /\ jobs[j].attempts < MaxAttempts

\* ORDER BY enqueued_at LIMIT Batch
ClaimSets ==
    LET C == {j \in JobIds : Claimable(j)}
    IN {S \in SUBSET C :
          /\ Cardinality(S) = IF Cardinality(C) < Batch THEN Cardinality(C) ELSE Batch
          /\ \A j \in S : ahead[j] \cap C \subseteq S}

\* A fault: no reaper.
ReapedNone == jobs

\* _vectorizer_reap_orphans
Reaped ==
    [j \in JobIds |->
        IF /\ jobs[j].state = "processing" /\ jobs[j].lease = "expired"
           /\ jobs[j].attempts >= MaxAttempts
        THEN [jobs[j] EXCEPT !.state = "failed"] ELSE jobs[j]]

\* A fault: a cap of 0 taken for "no cap".
PurgeSetsUncapped(q) == {{}}

\* _vectorizer_purge_dead_letters: what is deleted when the newest Keep rows stay.
PurgeSets(q) ==
    LET F == {j \in JobIds : q[j].state = "failed"}
    IN {S \in SUBSET F :
          /\ Cardinality(S) = IF Cardinality(F) > Keep THEN Cardinality(F) - Keep ELSE 0
          /\ \A j \in S : ahead[j] \cap F \subseteq S}

\* _vectorizer_renew_lease
Renewed(w, ids) ==
    [j \in JobIds |-> IF j \in ids /\ Owns(w, j)
                      THEN [jobs[j] EXCEPT !.lease = "running"] ELSE jobs[j]]

\* A fault: no unique index behind the trigger's ON CONFLICT.
RetryNeverCollides(j) == FALSE

\* The unique index on pending jobs rejects a retry while the key has one.
RetryCollides(j) ==
    /\ jobs[j].attempts < MaxAttempts
    /\ jobs[j].key \in PendingKeys

\* _vectorizer_mark_failed for a job its caller owns
Failed(j) ==
    IF jobs[j].attempts >= MaxAttempts
    THEN [jobs[j] EXCEPT !.state = "failed", !.owner = Nobody, !.lease = "null"]
    ELSE [jobs[j] EXCEPT !.state = "pending", !.owner = Nobody, !.lease = "running"]

-----------------------------------------------------------------------------
(* Storing embeddings.                                                     *)

\* The embedding store that queries of the deployment read.
Store == IF Mode = "chunk" THEN chunks ELSE emb

\* The upserts of the keys K with the contents `read`, in the store, and the jobs of
\* `gone` completed.  An UPDATE touches a row only if it exists (in place), and then
\* fires the source table's trigger.
StoreVectors(K, read, gone) ==
    LET hit == {k \in K : source[k] # NoRow}
        VectorOf(t) == IF t \in Contents THEN t ELSE NoVector
    IN /\ UNCHANGED source
       /\ \/ /\ Mode = "chunk"
             /\ chunks' = [k \in Keys |-> IF k \in K THEN VectorOf(read[k]) ELSE chunks[k]]
             /\ EnqueueAndDelete({}, "upsert", gone)
             /\ UNCHANGED emb
          \/ /\ Mode = "sibling"
             /\ emb' = [k \in Keys |-> IF k \in K THEN VectorOf(read[k]) ELSE emb[k]]
             /\ EnqueueAndDelete({}, "upsert", gone)
             /\ UNCHANGED chunks
          \/ /\ Mode = "inplace"
             /\ emb' = [k \in Keys |-> IF k \in hit THEN VectorOf(read[k]) ELSE emb[k]]
             /\ EnqueueAndDelete(hit, "upsert", gone)
             /\ UNCHANGED chunks

\* embed: a NULL element is an input error; the chunker takes NULL for "".
Embeddable(K, read) == Mode = "chunk" \/ \A k \in K : read[k] \in Contents

Unread == [k \in Keys |-> NoRow]
ReadKeys(K) == [k \in Keys |-> IF k \in K THEN source[k] ELSE NoRow]
KeysOf(C) == {c.key : c \in C}

-----------------------------------------------------------------------------
(* The worker.                                                             *)

Goto(w, step) == pc' = [pc EXCEPT ![w] = step]

\* The process exits; postmaster restarts it with a fresh owner uuid, so the jobs
\* it leaves in processing belong to nobody alive.
Exit(w) ==
    /\ jobs' = [j \in JobIds |-> IF jobs[j] # NoJob /\ jobs[j].owner = w
                                 THEN [jobs[j] EXCEPT !.owner = Dead] ELSE jobs[j]]
    /\ pc' = [pc EXCEPT ![w] = "reap"]
    /\ claims' = [claims EXCEPT ![w] = {}]
    /\ group' = [group EXCEPT ![w] = {}]
    /\ cur' = [cur EXCEPT ![w] = NoClaim]
    /\ snap' = [snap EXCEPT ![w] = Unread]
    /\ outcome' = [outcome EXCEPT ![w] = FALSE]
    /\ UNCHANGED <<data, ahead>>

\* kill -9, postmaster restart, or SIGTERM seen at one of the loop's checks
Crash(w) ==
    /\ crashes < MaxCrashes
    /\ crashes' = crashes + 1
    /\ Exit(w)
    /\ UNCHANGED dml

ReapAndPurge(w) ==
    /\ pc[w] = "reap"
    /\ \E gone \in PurgeSets(Reaped) :
          /\ jobs' = Without(Reaped, gone)
          /\ ahead' = Places(gone, {})
    /\ Goto(w, "claim")
    /\ UNCHANGED <<data, locals, dml, crashes>>

ClaimBatch(w) ==
    /\ pc[w] = "claim"
    /\ \E S \in ClaimSets :
          /\ jobs' = [j \in JobIds |->
                        IF j \in S
                        THEN [jobs[j] EXCEPT !.state = "processing", !.owner = w,
                                             !.lease = "running", !.attempts = @ + 1]
                        ELSE jobs[j]]
          /\ claims' = [claims EXCEPT ![w] =
                          {[id |-> j, key |-> jobs[j].key, op |-> jobs[j].op] : j \in S}]
          /\ Goto(w, IF S = {} THEN "reap" ELSE "dispatch")
    /\ UNCHANGED <<data, ahead, group, cur, snap, outcome, dml, crashes>>

Deletes(w) == {c \in claims[w] : c.op = "delete"}

\* A fault: process_delete swallows its SQL error, so mark_done follows.
ProcessDeleteSwallow(w, c, ok) ==
    /\ pc[w] = "dispatch"
    /\ c \in Deletes(w)
    /\ IF ok THEN StoreVectors({c.key}, Unread, {}) ELSE UNCHANGED <<data, queue>>
    /\ claims' = [claims EXCEPT ![w] = @ \ {c}]
    /\ cur' = [cur EXCEPT ![w] = c]
    /\ outcome' = [outcome EXCEPT ![w] = TRUE]
    /\ Goto(w, "mark")
    /\ UNCHANGED <<group, snap, dml, crashes>>

\* process_one of a delete, first transaction; `ok` is FALSE when its SQL raised
ProcessDelete(w, c, ok) ==
    /\ pc[w] = "dispatch"
    /\ c \in Deletes(w)
    /\ IF ok THEN StoreVectors({c.key}, Unread, {}) ELSE UNCHANGED <<data, queue>>
    /\ claims' = [claims EXCEPT ![w] = @ \ {c}]
    /\ cur' = [cur EXCEPT ![w] = c]
    /\ outcome' = [outcome EXCEPT ![w] = ok]
    /\ Goto(w, "mark")
    /\ UNCHANGED <<group, snap, dml, crashes>>

\* process_group, phase A: read the contents, or fail to (bad config, SPI error)
ReadBatch(w, ok) ==
    /\ pc[w] = "dispatch"
    /\ Deletes(w) = {} /\ claims[w] # {}
    /\ group' = [group EXCEPT ![w] = claims[w]]
    /\ claims' = [claims EXCEPT ![w] = {}]
    /\ \E single \in SingleTxn :
         /\ snap' = [snap EXCEPT ![w] = IF ok /\ Mode # "chunk" /\ ~single
                                        THEN ReadKeys(KeysOf(claims[w])) ELSE Unread]
         /\ Goto(w, IF ~ok THEN "fallback"
                    ELSE IF Mode = "chunk" \/ single THEN "txn" ELSE "renew")
    /\ UNCHANGED <<data, queue, cur, outcome, dml, crashes>>

RenewGroup(w) ==
    /\ pc[w] = "renew"
    /\ jobs' = Renewed(w, {c.id : c \in group[w]})
    /\ Goto(w, "embed")
    /\ UNCHANGED <<data, ahead, locals, dml, crashes>>

\* phase B: the HTTP call, outside any transaction
Embed(w) ==
    /\ pc[w] = "embed"
    /\ \/ Goto(w, "fallback")
       \/ Embeddable(KeysOf(group[w]), snap[w]) /\ Goto(w, "write")
    /\ UNCHANGED <<data, queue, locals, dml, crashes>>

\* The upserts of the whole group, each followed by its mark_done, in one transaction
\* that commits whatever mark_done answered.
WriteAndMark(w) ==
    LET done == {c.id : c \in group[w]} \cap {j \in JobIds : Owns(w, j)}
    IN /\ StoreVectors(KeysOf(group[w]), snap[w], done)
       /\ Goto(w, IF done # {} THEN "dispatch" ELSE "fallback")
       /\ group' = [group EXCEPT ![w] = IF done # {} THEN {} ELSE @]
       /\ snap' = [snap EXCEPT ![w] = Unread]
       /\ UNCHANGED <<claims, cur, outcome, dml, crashes>>

\* The subtransaction rolled back: every job of the group is retried on its own.
GroupFails(w) ==
    /\ Goto(w, "fallback")
    /\ snap' = [snap EXCEPT ![w] = Unread]
    /\ UNCHANGED <<data, queue, claims, group, cur, outcome, dml, crashes>>

\* phase C
WriteBatch(w) == pc[w] = "write" /\ (WriteAndMark(w) \/ GroupFails(w))

\* The single-transaction path re-reads the contents in its own transaction ...
TxnRead(w) ==
    /\ pc[w] = "txn"
    /\ snap' = [snap EXCEPT ![w] = ReadKeys(KeysOf(group[w]))]
    /\ Goto(w, "txnEmbed")
    /\ UNCHANGED <<data, queue, claims, group, cur, outcome, dml, crashes>>

\* ... embeds them inside it and commits, or rolls back.
TxnCommit(w) ==
    /\ pc[w] = "txnEmbed"
    /\ \/ Embeddable(KeysOf(group[w]), snap[w]) /\ WriteAndMark(w)
       \/ GroupFails(w)

\* The per-job fallback: renew the job's lease ...
RenewOne(w, c) ==
    /\ pc[w] = "fallback"
    /\ c \in group[w]
    /\ jobs' = Renewed(w, {c.id})
    /\ cur' = [cur EXCEPT ![w] = c]
    /\ group' = [group EXCEPT ![w] = @ \ {c}]
    /\ Goto(w, "one")
    /\ UNCHANGED <<data, ahead, claims, snap, outcome, dml, crashes>>

\* ... process_one: fetch the content (a statement of the transaction that embeds) ...
ReadOne(w) ==
    /\ pc[w] = "one"
    /\ snap' = [snap EXCEPT ![w] = ReadKeys({cur[w].key})]
    /\ Goto(w, "oneEmbed")
    /\ UNCHANGED <<data, queue, claims, group, cur, outcome, dml, crashes>>

\* ... embed it, write it and commit, or roll back ...
UpsertOne(w, ok) ==
    /\ pc[w] = "oneEmbed"
    /\ IF ok
       THEN Embeddable({cur[w].key}, snap[w]) /\ StoreVectors({cur[w].key}, snap[w], {})
       ELSE UNCHANGED <<data, queue>>
    /\ snap' = [snap EXCEPT ![w] = Unread]
    /\ outcome' = [outcome EXCEPT ![w] = ok]
    /\ Goto(w, "mark")
    /\ UNCHANGED <<claims, group, cur, dml, crashes>>

AfterMark(w) ==
    /\ Goto(w, IF group[w] # {} THEN "fallback" ELSE "dispatch")
    /\ cur' = [cur EXCEPT ![w] = NoClaim]
    /\ outcome' = [outcome EXCEPT ![w] = FALSE]
    /\ UNCHANGED <<data, claims, group, snap, dml, crashes>>

\* ... and, in a transaction of its own, mark_done ...
MarkDone(w) ==
    /\ pc[w] = "mark" /\ outcome[w]
    /\ EnqueueAndDelete({}, "upsert", {cur[w].id} \cap {j \in JobIds : Owns(w, j)})
    /\ AfterMark(w)

\* ... or mark_failed, a no-op for a job that now belongs to another worker.
MarkFailed(w) ==
    /\ pc[w] = "mark" /\ ~outcome[w]
    /\ Owns(w, cur[w].id) => ~RetryCollides(cur[w].id)
    /\ jobs' = IF Owns(w, cur[w].id)
               THEN [jobs EXCEPT ![cur[w].id] = Failed(cur[w].id)] ELSE jobs
    /\ UNCHANGED ahead
    /\ AfterMark(w)

\* The unique violation is raised outside any subtransaction: the worker process exits.
MarkRaises(w) ==
    /\ pc[w] = "mark" /\ ~outcome[w]
    /\ Owns(w, cur[w].id) /\ RetryCollides(cur[w].id)
    /\ Exit(w)
    /\ UNCHANGED <<dml, crashes>>

\* Nothing left of the batch: bump the counters and go back to the latch.
EndBatch(w) ==
    /\ pc[w] = "dispatch" /\ claims[w] = {}
    /\ Goto(w, "reap")
    /\ UNCHANGED <<data, queue, locals, dml, crashes>>

Worker(w) ==
    \/ ReapAndPurge(w) \/ ClaimBatch(w) \/ EndBatch(w)
    \/ \E c \in claims[w], ok \in BOOLEAN : ProcessDelete(w, c, ok)
    \/ \E ok \in BOOLEAN : ReadBatch(w, ok)
    \/ RenewGroup(w) \/ Embed(w) \/ WriteBatch(w)
    \/ TxnRead(w) \/ TxnCommit(w)
    \/ \E c \in group[w] : RenewOne(w, c)
    \/ ReadOne(w)
    \/ \E ok \in BOOLEAN : UpsertOne(w, ok)
    \/ MarkDone(w) \/ MarkFailed(w) \/ MarkRaises(w)

-----------------------------------------------------------------------------
Init ==
    /\ source = [k \in Keys |-> NoRow]
    /\ emb = [k \in Keys |-> NoVector]
    /\ chunks = [k \in Keys |-> NoVector]
    /\ jobs = [j \in JobIds |-> NoJob]
    /\ ahead = [j \in JobIds |-> {}]
    /\ pc = [w \in Workers |-> "reap"]
    /\ claims = [w \in Workers |-> {}]
    /\ group = [w \in Workers |-> {}]
    /\ cur = [w \in Workers |-> NoClaim]
    /\ snap = [w \in Workers |-> Unread]
    /\ outcome = [w \in Workers |-> FALSE]
    /\ dml = 0 /\ crashes = 0

Next ==
    \/ User
    \/ \E j \in JobIds : Expire(j)
    \/ \E w \in Workers : Worker(w) \/ Crash(w)

Spec == Init /\ [][Next]_vars

\* A running worker keeps issuing its transactions and time does not stop; nothing is
\* assumed of the endpoint, of the users or of crashes.
Fairness ==
    /\ \A w \in Workers : WF_vars(Worker(w))
    /\ \A j \in JobIds : WF_vars(Expire(j))

FairSpec == Spec /\ Fairness

-----------------------------------------------------------------------------
(* Properties.                                                             *)

\* At most one pending job per row (the partial unique index
\* vectorizer_queue_pending_uniq and the trigger's ON CONFLICT): repeated writes
\* cannot deepen the queue beyond the rows that changed.
PendingUnique ==
    \A i, j \in InState("pending") : jobs[i].key = jobs[j].key => i = j

\* The stored embedding is that of the row's text; none when there is none to embed.
Fresh(k) == Store[k] = IF source[k] \in Contents THEN source[k] ELSE NoVector

\* A queue row, dead letters included, still asks for what the row's state calls for.
Covered(k) ==
    \E j \in Queued :
        /\ jobs[j].key = k
        /\ jobs[j].op = IF source[k] = NoRow THEN "delete" ELSE "upsert"

\* No write to the source is ever forgotten: whatever the users, the crashes and the
\* endpoint do, an embedding that is out of date has a job (or a dead letter) that
\* says so.  This is what trigger, claim, mark_done and mark_failed maintain together.
Coverage == \A k \in Keys : Fresh(k) \/ Covered(k)

\* The half of Coverage that also holds when rows are deleted: a vector of a text the
\* row no longer has (a removed document still searchable, process_delete's concern)
\* is never left without a job.
NoOrphanVector == \A k \in Keys : Store[k] # NoVector => Fresh(k) \/ Covered(k)

\* The purge bounds the dead letters: at most Keep survive it, and a worker adds at most
\* a batch from its claim to its next purge (reap_and_purge runs before every claim).
DeadLetterBound ==
    Cardinality(InState("failed"))
      <= Keep + Batch * Cardinality({w \in Workers : pc[w] # "claim"})

CompletedByOwner ==
    \A j \in JobIds :
        jobs[j].state = "processing" /\ jobs'[j] = NoJob =>
           \/ \E w \in Workers :
                 jobs[j].owner = w /\ j \in Held(w) /\ pc'[w] # pc[w]
           \/ jobs[j].lease = "expired" /\ jobs[j].attempts >= MaxAttempts

\* Only the worker that owns a job completes it (mark_done's owner guard): a worker
\* whose lease expired never deletes the row another worker has claimed since.  The
\* other way out of processing is the reaper's dead letter, purged at once.
FencedCompletion == [][CompletedByOwner]_vars

\* The worker drains the queue: once the users and the crashes stop, every job is done
\* or a dead letter, even if the endpoint fails for ever.
Drained == <>[](InState("pending") \cup InState("processing") = {})

\* ... and every row ends up with the embedding of its text, or with a dead letter.
Converges ==
    <>[](\A k \in Keys : Fresh(k) \/ \E j \in InState("failed") : jobs[j].key = k)
=============================================================================
