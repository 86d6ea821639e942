-------------------------- MODULE VectorizerProofs --------------------------
(***************************************************************************)
(* What Vectorizer promises for every set of rows, texts and workers and   *)
(* every bound: its types, at most one pending job per row, and completion *)
(* of a job only by the worker that owns it; that no write to the source   *)
(* table is forgotten; and how many dead letters there can be.             *)
(***************************************************************************)
EXTENDS Vectorizer, FiniteSetTheorems, TLAPS

\* The transactions of process_one, during which a worker works on a job.
Busy == {"one", "oneEmbed", "mark"}
CurOK == \A w \in Workers : pc[w] \in Busy => cur[w] \in Claim

IInv == TypeOK /\ CurOK /\ PendingUnique

USE ModeAssumption, FlagAssumption, BoundAssumption, SentinelAssumption

-----------------------------------------------------------------------------
(* Lemmas about the queue.                                                 *)

LEMMA NoJobIsNoJob == NoJob \notin Job /\ NoClaim \notin Claim
<1>1. \A r \in Job : r.state # "absent"
  BY DEF Job
<1>2. \A r \in Claim : r.op # "none"
  BY DEF Claim, Ops
<1> QED
  BY <1>1, <1>2 DEF NoJob, NoClaim

\* A queue row with a state is a job.
LEMMA HasState ==
  ASSUME TypeOK, NEW j \in JobIds,
         jobs[j].state \in {"pending", "processing", "failed"} \/ jobs[j] # NoJob
  PROVE  jobs[j] \in Job
BY DEF TypeOK, NoJob

\* The trigger's INSERT .. ON CONFLICT and the deletion of finished jobs yield a queue.
LEMMA EnqueueType ==
  ASSUME TypeOK, NEW K \in SUBSET Keys, NEW op \in Ops, NEW gone \in SUBSET JobIds,
         EnqueueAndDelete(K, op, gone)
  PROVE  /\ jobs' \in [JobIds -> Job \cup {NoJob}]
         /\ ahead' \in [JobIds -> SUBSET JobIds]
<1>1. PICK f \in FreshIds(K \ PendingKeys) :
        /\ jobs' = Without(Coalesced(jobs, K, op, f), gone)
        /\ ahead' = Places(gone, {f[k] : k \in DOMAIN f})
  BY DEF EnqueueAndDelete
<1>2. f \in [K \ PendingKeys -> FreeIds]
  BY <1>1 DEF FreshIds
<1>3. ASSUME NEW j \in JobIds PROVE Coalesced(jobs, K, op, f)[j] \in Job \cup {NoJob}
  <2> DEFINE At == CHOOSE k \in DOMAIN f : f[k] = j
  <2>1. CASE \E k \in DOMAIN f : f[k] = j
    <3>1. At \in Keys
      BY <2>1, <1>2
    <3>2. [key |-> At, op |-> op, state |-> "pending", attempts |-> 0,
           owner |-> Nobody, lease |-> "null"] \in Job
      BY <3>1 DEF Job
    <3>3. Coalesced(jobs, K, op, f)[j] =
            [key |-> At, op |-> op, state |-> "pending", attempts |-> 0,
             owner |-> Nobody, lease |-> "null"]
      BY <2>1 DEF Coalesced
    <3> QED
      BY <3>2, <3>3
  <2>2. CASE ~(\E k \in DOMAIN f : f[k] = j) /\ jobs[j].state = "pending" /\ jobs[j].key \in K
    <3>1. jobs[j] \in Job
      BY <2>2, HasState
    <3>2. [jobs[j] EXCEPT !.op = op] \in Job
      BY <3>1 DEF Job
    <3>3. Coalesced(jobs, K, op, f)[j] = [jobs[j] EXCEPT !.op = op]
      BY <2>2 DEF Coalesced
    <3> QED
      BY <3>2, <3>3
  <2>3. CASE ~(\E k \in DOMAIN f : f[k] = j) /\ ~(jobs[j].state = "pending" /\ jobs[j].key \in K)
    <3>1. Coalesced(jobs, K, op, f)[j] = jobs[j]
      BY <2>3 DEF Coalesced
    <3> QED
      BY <3>1 DEF TypeOK
  <2> QED
    BY <2>1, <2>2, <2>3
<1>4. jobs' \in [JobIds -> Job \cup {NoJob}]
  BY <1>1, <1>3 DEF Without
<1>5. ahead' \in [JobIds -> SUBSET JobIds]
  BY <1>1 DEF Places, Queued, TypeOK
<1> QED
  BY <1>4, <1>5

\* ... in which a row still has at most one pending job.
LEMMA EnqueueUnique ==
  ASSUME TypeOK, PendingUnique, NEW K \in SUBSET Keys, NEW op \in Ops,
         NEW gone \in SUBSET JobIds, EnqueueAndDelete(K, op, gone)
  PROVE  PendingUnique'
<1>1. PICK f \in FreshIds(K \ PendingKeys) :
        jobs' = Without(Coalesced(jobs, K, op, f), gone)
  BY DEF EnqueueAndDelete
<1>2. /\ f \in [K \ PendingKeys -> FreeIds]
      /\ \A k1, k2 \in K \ PendingKeys : f[k1] = f[k2] => k1 = k2
  BY <1>1 DEF FreshIds
<1> DEFINE New(j) == \E k \in DOMAIN f : f[k] = j
\* A pending job afterwards is a new one, of a key that had none, or an old one.
<1>3. ASSUME NEW j \in JobIds, jobs'[j].state = "pending", New(j)
      PROVE  jobs'[j].key \in K \ PendingKeys /\ f[jobs'[j].key] = j
  <2> DEFINE At == CHOOSE k \in DOMAIN f : f[k] = j
  <2>1. At \in K \ PendingKeys /\ f[At] = j
    BY <1>2, <1>3
  <2>2. jobs'[j] = [key |-> At, op |-> op, state |-> "pending", attempts |-> 0,
                    owner |-> Nobody, lease |-> "null"]
    BY <1>1, <1>3 DEF Without, Coalesced, NoJob
  <2> QED
    BY <2>1, <2>2
<1>4. ASSUME NEW j \in JobIds, jobs'[j].state = "pending", ~New(j)
      PROVE  jobs[j].state = "pending" /\ jobs'[j].key = jobs[j].key
  <2>1. jobs'[j] = Coalesced(jobs, K, op, f)[j]
    BY <1>1, <1>4 DEF Without, NoJob
  <2>2. CASE jobs[j].state = "pending" /\ jobs[j].key \in K
    <3>1. jobs'[j] = [jobs[j] EXCEPT !.op = op]
      BY <1>4, <2>1, <2>2 DEF Coalesced
    <3>2. jobs[j] \in Job
      BY <2>2, HasState
    <3> QED
      BY <3>1, <3>2, <2>2 DEF Job
  <2>3. CASE ~(jobs[j].state = "pending" /\ jobs[j].key \in K)
    BY <1>4, <2>1, <2>3 DEF Coalesced
  <2> QED
    BY <2>2, <2>3
<1>5. ASSUME NEW i \in JobIds, NEW j \in JobIds, jobs'[i].state = "pending",
             jobs'[j].state = "pending", jobs'[i].key = jobs'[j].key
      PROVE  i = j
  <2>1. CASE New(i) /\ New(j)
    BY <2>1, <1>3, <1>5
  <2>2. CASE New(i) /\ ~New(j)
    BY <2>2, <1>3, <1>4, <1>5 DEF PendingKeys, InState
  <2>3. CASE ~New(i) /\ New(j)
    BY <2>3, <1>3, <1>4, <1>5 DEF PendingKeys, InState
  <2>4. CASE ~New(i) /\ ~New(j)
    BY <2>4, <1>4, <1>5 DEF PendingUnique, InState
  <2> QED
    BY <2>1, <2>2, <2>3, <2>4
<1> QED
  BY <1>5 DEF PendingUnique, InState

\* A step after which every pending job was pending before, of the same row, keeps
\* them unique.
LEMMA FewerPending ==
  ASSUME PendingUnique,
         \A j \in JobIds : jobs'[j].state = "pending" =>
            jobs[j].state = "pending" /\ jobs'[j].key = jobs[j].key
  PROVE  PendingUnique'
BY DEF PendingUnique, InState

\* The three storage modes change the data within their types, and the queue as the
\* trigger does.
LEMMA StoreVectorsType ==
  ASSUME TypeOK, NEW K \in SUBSET Keys, NEW read \in [Keys -> Texts \cup {NoRow}],
         NEW gone \in SUBSET JobIds, StoreVectors(K, read, gone)
  PROVE  /\ source' \in [Keys -> Texts \cup {NoRow}]
         /\ emb' \in [Keys -> Vectors]
         /\ chunks' \in [Keys -> Vectors]
         /\ \E H \in SUBSET Keys : EnqueueAndDelete(H, "upsert", gone)
<1>1. CASE Mode = "chunk"
  BY <1>1 DEF StoreVectors, TypeOK, Vectors, Texts
<1>2. CASE Mode = "sibling"
  BY <1>2 DEF StoreVectors, TypeOK, Vectors, Texts
<1>3. CASE Mode = "inplace"
  <2> DEFINE hit == {k \in K : source[k] # NoRow}
  <2>1. hit \in SUBSET Keys /\ EnqueueAndDelete(hit, "upsert", gone)
    BY <1>3 DEF StoreVectors
  <2>2. /\ source' \in [Keys -> Texts \cup {NoRow}]
        /\ emb' \in [Keys -> Vectors]
        /\ chunks' \in [Keys -> Vectors]
    BY <1>3 DEF StoreVectors, TypeOK, Vectors, Texts
  <2> QED
    BY <2>1, <2>2
<1> QED
  BY <1>1, <1>2, <1>3

\* Storing vectors and completing jobs keeps the queue typed and its pending jobs unique.
LEMMA StoreVectorsQueue ==
  ASSUME TypeOK, PendingUnique, NEW K \in SUBSET Keys,
         NEW read \in [Keys -> Texts \cup {NoRow}],
         NEW gone \in SUBSET JobIds, StoreVectors(K, read, gone)
  PROVE  /\ jobs' \in [JobIds -> Job \cup {NoJob}]
         /\ ahead' \in [JobIds -> SUBSET JobIds]
         /\ PendingUnique'
<1>1. PICK H \in SUBSET Keys : EnqueueAndDelete(H, "upsert", gone)
  BY StoreVectorsType
<1> QED
  BY <1>1, EnqueueType, EnqueueUnique DEF Ops

-----------------------------------------------------------------------------
(* The steps of the environment.                                           *)

LEMMA UserStep == IInv /\ User => IInv'
<1> SUFFICES ASSUME IInv, NEW k \in Keys, NEW t \in Texts,
                    Insert(k, t) \/ Update(k, t) \/ Delete(k)
             PROVE  IInv'
  BY DEF User, Texts
<1> DEFINE text == IF Delete(k) THEN NoRow ELSE t
<1>1. /\ UserStatement(k, t, "upsert") \/ UserStatement(k, NoRow, "delete")
      /\ emb' \in [Keys -> Vectors]
  BY DEF IInv, TypeOK, Insert, Update, Delete, Vectors
<1>2. PICK op \in Ops, x \in Texts \cup {NoRow} : UserStatement(k, x, op)
  BY <1>1 DEF Ops
<1>3. EnqueueAndDelete({k}, op, {})
  BY <1>2 DEF UserStatement
<1>4. /\ jobs' \in [JobIds -> Job \cup {NoJob}] /\ ahead' \in [JobIds -> SUBSET JobIds]
      /\ PendingUnique'
  <2>1. {k} \in SUBSET Keys /\ {} \in SUBSET JobIds
    OBVIOUS
  <2>2. TypeOK /\ PendingUnique
    BY DEF IInv
  <2>3. /\ jobs' \in [JobIds -> Job \cup {NoJob}] /\ ahead' \in [JobIds -> SUBSET JobIds]
    BY <1>3, <2>1, <2>2, EnqueueType
  <2>4. PendingUnique'
    BY <1>3, <2>1, <2>2, EnqueueUnique
  <2> QED
    BY <2>3, <2>4
<1>5. /\ source' \in [Keys -> Texts \cup {NoRow}]
      /\ dml' \in 0 .. MaxDml
  BY <1>2 DEF UserStatement, IInv, TypeOK
<1>6. UNCHANGED <<chunks, pc, claims, group, cur, snap, outcome, crashes>>
  BY <1>2 DEF UserStatement, locals
<1> QED
  BY <1>1, <1>4, <1>5, <1>6 DEF IInv, TypeOK, CurOK

LEMMA ExpireStep == ASSUME IInv, NEW j \in JobIds, Expire(j) PROVE IInv'
<1>1. jobs[j] \in Job
  BY HasState DEF Expire, IInv
<1>2. [jobs[j] EXCEPT !.lease = "expired"] \in Job
  BY <1>1 DEF Job
<1>3. TypeOK'
  BY <1>2 DEF IInv, TypeOK, Expire, data, locals
<1>4. PendingUnique'
  <2>1. \A i \in JobIds : jobs'[i].state = jobs[i].state /\
                           (jobs[i].state = "pending" => jobs'[i].key = jobs[i].key)
    BY <1>1 DEF IInv, TypeOK, Expire, Job
  <2> QED
    BY <2>1, FewerPending DEF IInv
<1>5. CurOK'
  BY DEF IInv, CurOK, Expire, locals
<1> QED
  BY <1>3, <1>4, <1>5 DEF IInv

\* Whoever ends the process: the queue only changes owners, the locals are gone.
LEMMA ExitStep ==
  ASSUME IInv, NEW w \in Workers, Exit(w), dml' = dml, crashes' \in 0 .. MaxCrashes
  PROVE  IInv'
<1>1. jobs' \in [JobIds -> Job \cup {NoJob}]
  <2>1. \A j \in JobIds : jobs[j] # NoJob => [jobs[j] EXCEPT !.owner = Dead] \in Job
    BY HasState DEF IInv, Job
  <2> QED
    BY <2>1 DEF Exit, IInv, TypeOK
<1>2. Unread \in [Keys -> Texts \cup {NoRow}]
  BY DEF Unread
<1>3. TypeOK'
  BY <1>1, <1>2 DEF IInv, TypeOK, Exit, data, Steps
<1>4. CurOK'
  BY DEF IInv, TypeOK, CurOK, Exit, Busy
<1>5. PendingUnique'
  <2>1. \A j \in JobIds : jobs'[j].state = jobs[j].state /\
                           (jobs[j].state = "pending" => jobs'[j].key = jobs[j].key)
    BY HasState DEF IInv, Exit, Job
  <2> QED
    BY <2>1, FewerPending DEF IInv
<1> QED
  BY <1>3, <1>4, <1>5 DEF IInv

-----------------------------------------------------------------------------
(* The transactions of the worker.                                         *)

LEMMA ReapAndPurgeStep == ASSUME IInv, NEW w \in Workers, ReapAndPurge(w) PROVE IInv'
<1>1. PICK gone \in PurgeSets(Reaped) :
        jobs' = Without(Reaped, gone) /\ ahead' = Places(gone, {})
  BY DEF ReapAndPurge
<1>2. \A j \in JobIds : /\ Reaped[j] \in Job \cup {NoJob}
                        /\ Reaped[j].state = "pending" => Reaped[j] = jobs[j]
  <2> SUFFICES ASSUME NEW j \in JobIds
               PROVE  /\ Reaped[j] \in Job \cup {NoJob}
                      /\ Reaped[j].state = "pending" => Reaped[j] = jobs[j]
    OBVIOUS
  <2>1. CASE jobs[j].state = "processing"
    BY <2>1, HasState DEF Reaped, IInv, Job
  <2>2. CASE jobs[j].state # "processing"
    BY <2>2 DEF Reaped, IInv, TypeOK
  <2> QED
    BY <2>1, <2>2
<1>3. jobs' \in [JobIds -> Job \cup {NoJob}] /\ ahead' \in [JobIds -> SUBSET JobIds]
  BY <1>1, <1>2 DEF Without, Places, Queued, IInv, TypeOK
<1>4. PendingUnique'
  <2>1. \A j \in JobIds : jobs'[j].state = "pending" => jobs'[j] = jobs[j]
    BY <1>1, <1>2 DEF Without, NoJob
  <2> QED
    BY <2>1, FewerPending DEF IInv
<1>5. TypeOK' /\ CurOK'
  BY <1>3 DEF IInv, TypeOK, CurOK, ReapAndPurge, Goto, Steps, Busy, data, locals
<1> QED
  BY <1>4, <1>5 DEF IInv

LEMMA ClaimBatchStep == ASSUME IInv, NEW w \in Workers, ClaimBatch(w) PROVE IInv'
<1>1. PICK S \in ClaimSets :
        /\ jobs' = [j \in JobIds |->
                       IF j \in S
                       THEN [jobs[j] EXCEPT !.state = "processing", !.owner = w,
                                            !.lease = "running", !.attempts = @ + 1]
                       ELSE jobs[j]]
        /\ claims' = [claims EXCEPT ![w] =
                         {[id |-> j, key |-> jobs[j].key, op |-> jobs[j].op] : j \in S}]
        /\ Goto(w, IF S = {} THEN "reap" ELSE "dispatch")
  BY DEF ClaimBatch
<1>2. \A j \in S : j \in JobIds /\ Claimable(j) /\ jobs[j] \in Job
  BY HasState DEF ClaimSets, Claimable, IInv
<1>3. \A j \in S : [jobs[j] EXCEPT !.state = "processing", !.owner = w,
                       !.lease = "running", !.attempts = @ + 1] \in Job
  <2> SUFFICES ASSUME NEW j \in S
               PROVE  [jobs[j] EXCEPT !.state = "processing", !.owner = w,
                         !.lease = "running", !.attempts = @ + 1] \in Job
    OBVIOUS
  <2>1. jobs[j].attempts \in 0 .. MaxAttempts /\ jobs[j].attempts < MaxAttempts
    BY <1>2 DEF Job, Claimable
  <2>2. jobs[j].attempts + 1 \in 0 .. MaxAttempts
    BY <2>1
  <2> QED
    BY <1>2, <2>2 DEF Job
<1>4. jobs' \in [JobIds -> Job \cup {NoJob}]
  BY <1>1, <1>3 DEF IInv, TypeOK
<1>5. claims' \in [Workers -> SUBSET Claim]
  <2>1. \A j \in S : [id |-> j, key |-> jobs[j].key, op |-> jobs[j].op] \in Claim
    BY <1>2 DEF Job, Claim
  <2>2. {[id |-> j, key |-> jobs[j].key, op |-> jobs[j].op] : j \in S} \in SUBSET Claim
    BY <2>1
  <2> QED
    BY <1>1, <2>2 DEF IInv, TypeOK
<1>6. TypeOK' /\ CurOK'
  BY <1>1, <1>4, <1>5 DEF IInv, TypeOK, CurOK, ClaimBatch, Goto, Steps, Busy, data
<1>7. PendingUnique'
  <2>1. \A j \in JobIds : jobs'[j].state = "pending" => jobs'[j] = jobs[j]
    BY <1>1, <1>2 DEF Job
  <2> QED
    BY <2>1, FewerPending DEF IInv
<1> QED
  BY <1>6, <1>7 DEF IInv

LEMMA ProcessDeleteStep ==
  ASSUME IInv, NEW w \in Workers, NEW c \in claims[w], NEW ok \in BOOLEAN,
         ProcessDelete(w, c, ok)
  PROVE  IInv'
<1>1. c \in Claim /\ c.key \in Keys
  BY DEF IInv, TypeOK, Claim
<1>2. Unread \in [Keys -> Texts \cup {NoRow}]
  BY DEF Unread
<1>3. /\ source' \in [Keys -> Texts \cup {NoRow}]
      /\ emb' \in [Keys -> Vectors] /\ chunks' \in [Keys -> Vectors]
      /\ jobs' \in [JobIds -> Job \cup {NoJob}] /\ ahead' \in [JobIds -> SUBSET JobIds]
      /\ PendingUnique'
  <2>1. CASE ok
    <3>1. StoreVectors({c.key}, Unread, {})
      BY <2>1 DEF ProcessDelete
    <3>2. {c.key} \in SUBSET Keys /\ {} \in SUBSET JobIds /\ TypeOK /\ PendingUnique
      BY <1>1 DEF IInv
    <3>3. /\ source' \in [Keys -> Texts \cup {NoRow}]
          /\ emb' \in [Keys -> Vectors] /\ chunks' \in [Keys -> Vectors]
      BY <1>2, <3>1, <3>2, StoreVectorsType
    <3> QED
      BY <1>2, <3>1, <3>2, <3>3, StoreVectorsQueue
  <2>2. CASE ~ok
    BY <2>2 DEF ProcessDelete, data, queue, IInv, TypeOK, PendingUnique, InState
  <2> QED
    BY <2>1, <2>2
<1>4. /\ claims' \in [Workers -> SUBSET Claim] /\ cur' \in [Workers -> Claim \cup {NoClaim}]
      /\ outcome' \in [Workers -> BOOLEAN] /\ pc' \in [Workers -> Steps]
  BY <1>1 DEF ProcessDelete, IInv, TypeOK, Goto, Steps
<1>5. TypeOK' /\ CurOK'
  BY <1>1, <1>3, <1>4 DEF ProcessDelete, IInv, TypeOK, CurOK, Goto
<1> QED
  BY <1>3, <1>5 DEF IInv

LEMMA ReadsTyped ==
  ASSUME TypeOK, NEW K PROVE ReadKeys(K) \in [Keys -> Texts \cup {NoRow}]
BY DEF TypeOK, ReadKeys

\* Steps that leave the queue alone.
LEMMA QueueUnchanged ==
  ASSUME IInv, UNCHANGED queue PROVE PendingUnique'
BY DEF IInv, queue, PendingUnique, InState

LEMMA ReadBatchStep ==
  ASSUME IInv, NEW w \in Workers, NEW ok \in BOOLEAN, ReadBatch(w, ok) PROVE IInv'
<1>1. Unread \in [Keys -> Texts \cup {NoRow}]
  BY DEF Unread
<1>2. ReadKeys(KeysOf(claims[w])) \in [Keys -> Texts \cup {NoRow}]
  BY ReadsTyped DEF IInv
<1>3. snap' \in [Workers -> [Keys -> Texts \cup {NoRow}]]
  BY <1>1, <1>2 DEF ReadBatch, IInv, TypeOK
<1>4. TypeOK' /\ CurOK'
  BY <1>3 DEF ReadBatch, IInv, TypeOK, CurOK, Goto, Steps, Busy, data, queue
<1>5. PendingUnique'
  BY QueueUnchanged DEF ReadBatch
<1> QED
  BY <1>4, <1>5 DEF IInv

LEMMA RenewedTyped ==
  ASSUME IInv, NEW w \in Workers, NEW ids, jobs' = Renewed(w, ids)
  PROVE  jobs' \in [JobIds -> Job \cup {NoJob}] /\ PendingUnique'
<1>1. \A j \in JobIds : Owns(w, j) =>
        jobs[j] \in Job /\ [jobs[j] EXCEPT !.lease = "running"] \in Job
  BY HasState DEF Owns, IInv, Job
<1>2. jobs' \in [JobIds -> Job \cup {NoJob}]
  BY <1>1 DEF Renewed, IInv, TypeOK
<1>3. \A j \in JobIds : jobs'[j].state = "pending" => jobs'[j] = jobs[j]
  BY <1>1 DEF Renewed, Owns, Job
<1> QED
  BY <1>2, <1>3, FewerPending DEF IInv

LEMMA RenewGroupStep == ASSUME IInv, NEW w \in Workers, RenewGroup(w) PROVE IInv'
<1>1. jobs' \in [JobIds -> Job \cup {NoJob}] /\ PendingUnique'
  BY RenewedTyped DEF RenewGroup
<1>2. TypeOK' /\ CurOK'
  BY <1>1 DEF RenewGroup, IInv, TypeOK, CurOK, Goto, Steps, Busy, data, locals
<1> QED
  BY <1>1, <1>2 DEF IInv

LEMMA EmbedStep == ASSUME IInv, NEW w \in Workers, Embed(w) PROVE IInv'
<1>1. TypeOK' /\ CurOK'
  BY DEF Embed, IInv, TypeOK, CurOK, Goto, Steps, Busy, data, queue, locals
<1>2. PendingUnique'
  BY QueueUnchanged DEF Embed
<1> QED
  BY <1>1, <1>2 DEF IInv

LEMMA GroupFailsStep == ASSUME IInv, NEW w \in Workers, GroupFails(w) PROVE IInv'
<1>1. Unread \in [Keys -> Texts \cup {NoRow}]
  BY DEF Unread
<1>2. TypeOK' /\ CurOK'
  BY <1>1 DEF GroupFails, IInv, TypeOK, CurOK, Goto, Steps, Busy, data, queue
<1>3. PendingUnique'
  BY QueueUnchanged DEF GroupFails
<1> QED
  BY <1>2, <1>3 DEF IInv

LEMMA WriteAndMarkStep == ASSUME IInv, NEW w \in Workers, WriteAndMark(w) PROVE IInv'
<1> DEFINE done == {c.id : c \in group[w]} \cap {j \in JobIds : Owns(w, j)}
<1>1. StoreVectors(KeysOf(group[w]), snap[w], done)
  BY DEF WriteAndMark
<1>2. /\ KeysOf(group[w]) \in SUBSET Keys
      /\ snap[w] \in [Keys -> Texts \cup {NoRow}]
      /\ done \in SUBSET JobIds
  BY DEF IInv, TypeOK, KeysOf, Claim
<1>3. /\ source' \in [Keys -> Texts \cup {NoRow}]
      /\ emb' \in [Keys -> Vectors] /\ chunks' \in [Keys -> Vectors]
  BY <1>1, <1>2, StoreVectorsType DEF IInv
<1>4. /\ jobs' \in [JobIds -> Job \cup {NoJob}] /\ ahead' \in [JobIds -> SUBSET JobIds]
      /\ PendingUnique'
  BY <1>1, <1>2, StoreVectorsQueue DEF IInv
<1>5. Unread \in [Keys -> Texts \cup {NoRow}]
  BY DEF Unread
<1>6. TypeOK' /\ CurOK'
  BY <1>3, <1>4, <1>5 DEF WriteAndMark, IInv, TypeOK, CurOK, Goto, Steps, Busy
<1> QED
  BY <1>4, <1>6 DEF IInv

LEMMA TxnReadStep == ASSUME IInv, NEW w \in Workers, TxnRead(w) PROVE IInv'
<1>1. ReadKeys(KeysOf(group[w])) \in [Keys -> Texts \cup {NoRow}]
  BY ReadsTyped DEF IInv
<1>2. TypeOK' /\ CurOK'
  BY <1>1 DEF TxnRead, IInv, TypeOK, CurOK, Goto, Steps, Busy, data, queue
<1>3. PendingUnique'
  BY QueueUnchanged DEF TxnRead
<1> QED
  BY <1>2, <1>3 DEF IInv

LEMMA RenewOneStep ==
  ASSUME IInv, NEW w \in Workers, NEW c \in group[w], RenewOne(w, c) PROVE IInv'
<1>1. jobs' \in [JobIds -> Job \cup {NoJob}] /\ PendingUnique'
  BY RenewedTyped DEF RenewOne
<1>2. TypeOK' /\ CurOK'
  BY <1>1 DEF RenewOne, IInv, TypeOK, CurOK, Goto, Steps, Busy, data
<1> QED
  BY <1>1, <1>2 DEF IInv

LEMMA ReadOneStep == ASSUME IInv, NEW w \in Workers, ReadOne(w) PROVE IInv'
<1>1. ReadKeys({cur[w].key}) \in [Keys -> Texts \cup {NoRow}]
  BY ReadsTyped DEF IInv
<1>2. cur[w] \in Claim
  BY DEF ReadOne, IInv, CurOK, Busy
<1>3. TypeOK' /\ CurOK'
  BY <1>1, <1>2 DEF ReadOne, IInv, TypeOK, CurOK, Goto, Steps, data, queue
<1>4. PendingUnique'
  BY QueueUnchanged DEF ReadOne
<1> QED
  BY <1>3, <1>4 DEF IInv

LEMMA UpsertOneStep ==
  ASSUME IInv, NEW w \in Workers, NEW ok \in BOOLEAN, UpsertOne(w, ok) PROVE IInv'
<1>1. cur[w] \in Claim /\ cur[w].key \in Keys
  BY DEF UpsertOne, IInv, CurOK, Busy, Claim
<1>2. snap[w] \in [Keys -> Texts \cup {NoRow}]
  BY DEF IInv, TypeOK
<1>3. /\ source' \in [Keys -> Texts \cup {NoRow}]
      /\ emb' \in [Keys -> Vectors] /\ chunks' \in [Keys -> Vectors]
      /\ jobs' \in [JobIds -> Job \cup {NoJob}] /\ ahead' \in [JobIds -> SUBSET JobIds]
      /\ PendingUnique'
  <2>1. CASE ok
    <3>1. StoreVectors({cur[w].key}, snap[w], {})
      BY <2>1 DEF UpsertOne
    <3>2. {cur[w].key} \in SUBSET Keys /\ {} \in SUBSET JobIds /\ TypeOK /\ PendingUnique
      BY <1>1 DEF IInv
    <3>3. /\ source' \in [Keys -> Texts \cup {NoRow}]
          /\ emb' \in [Keys -> Vectors] /\ chunks' \in [Keys -> Vectors]
      BY <1>2, <3>1, <3>2, StoreVectorsType
    <3> QED
      BY <1>2, <3>1, <3>2, <3>3, StoreVectorsQueue
  <2>2. CASE ~ok
    BY <2>2 DEF UpsertOne, data, queue, IInv, TypeOK, PendingUnique, InState
  <2> QED
    BY <2>1, <2>2
<1>4. Unread \in [Keys -> Texts \cup {NoRow}]
  BY DEF Unread
<1>5. TypeOK' /\ CurOK'
  BY <1>1, <1>3, <1>4 DEF UpsertOne, IInv, TypeOK, CurOK, Goto, Steps
<1> QED
  BY <1>3, <1>5 DEF IInv

LEMMA AfterMarkStep ==
  ASSUME IInv, NEW w \in Workers, AfterMark(w),
         jobs' \in [JobIds -> Job \cup {NoJob}], ahead' \in [JobIds -> SUBSET JobIds]
  PROVE  TypeOK' /\ CurOK'
BY DEF AfterMark, IInv, TypeOK, CurOK, Goto, Steps, Busy, data

LEMMA MarkDoneStep == ASSUME IInv, NEW w \in Workers, MarkDone(w) PROVE IInv'
<1> DEFINE gone == {cur[w].id} \cap {j \in JobIds : Owns(w, j)}
<1>1. EnqueueAndDelete({}, "upsert", gone)
  BY DEF MarkDone
<1>2. {} \in SUBSET Keys /\ "upsert" \in Ops /\ gone \in SUBSET JobIds
  BY DEF Ops
<1> HIDE DEF gone
<1>3. /\ jobs' \in [JobIds -> Job \cup {NoJob}] /\ ahead' \in [JobIds -> SUBSET JobIds]
      /\ PendingUnique'
  BY <1>1, <1>2, EnqueueType, EnqueueUnique DEF IInv
<1> QED
  BY <1>3, AfterMarkStep DEF IInv, MarkDone

\* A retry becomes pending only while its row has no pending job.
LEMMA MarkFailedStep == ASSUME IInv, NEW w \in Workers, MarkFailed(w) PROVE IInv'
<1> DEFINE id == cur[w].id
<1>1. id \in JobIds
  BY DEF MarkFailed, IInv, CurOK, Busy, Claim
<1>2. CASE Owns(w, id)
  <2>1. jobs[id] \in Job
    BY <1>1, <1>2, HasState DEF Owns, IInv
  <2>2. Failed(id) \in Job
    BY <2>1 DEF Failed, Job
  <2>3. jobs' = [jobs EXCEPT ![id] = Failed(id)]
    BY <1>2 DEF MarkFailed
  <2>4. jobs' \in [JobIds -> Job \cup {NoJob}] /\ ahead' \in [JobIds -> SUBSET JobIds]
    <3>1. jobs \in [JobIds -> Job \cup {NoJob}] /\ ahead \in [JobIds -> SUBSET JobIds]
      BY DEF IInv, TypeOK
    <3>2. ahead' = ahead
      BY DEF MarkFailed
    <3> HIDE DEF id
    <3> QED
      BY <1>1, <2>2, <2>3, <3>1, <3>2
  <2>5. PendingUnique'
    <3>1. Failed(id).state = "pending" =>
            Failed(id).key = jobs[id].key /\ jobs[id].key \notin PendingKeys
      BY <1>2, <2>1 DEF MarkFailed, Failed, RetryCollides, Job
    <3>2. \A j \in JobIds : j # id => jobs'[j] = jobs[j]
      BY <2>3 DEF IInv, TypeOK
    <3>3. jobs'[id] = Failed(id)
      BY <1>1, <2>3 DEF IInv, TypeOK
    <3> QED
      BY <3>1, <3>2, <3>3 DEF IInv, PendingUnique, InState, PendingKeys
  <2> QED
    BY <2>4, <2>5, AfterMarkStep DEF IInv, MarkFailed
<1>3. CASE ~Owns(w, id)
  <2>1. UNCHANGED queue
    BY <1>3 DEF MarkFailed, queue
  <2>2. jobs' \in [JobIds -> Job \cup {NoJob}] /\ ahead' \in [JobIds -> SUBSET JobIds]
    BY <2>1 DEF queue, IInv, TypeOK
  <2> QED
    BY <2>1, <2>2, QueueUnchanged, AfterMarkStep DEF IInv, MarkFailed
<1> QED
  BY <1>2, <1>3

LEMMA MarkRaisesStep == ASSUME IInv, NEW w \in Workers, MarkRaises(w) PROVE IInv'
BY ExitStep DEF MarkRaises, IInv, TypeOK

LEMMA CrashStep == ASSUME IInv, NEW w \in Workers, Crash(w) PROVE IInv'
<1>1. crashes' \in 0 .. MaxCrashes
  BY DEF Crash, IInv, TypeOK
<1> QED
  BY <1>1, ExitStep DEF Crash

LEMMA EndBatchStep == ASSUME IInv, NEW w \in Workers, EndBatch(w) PROVE IInv'
<1>1. TypeOK' /\ CurOK'
  BY DEF EndBatch, IInv, TypeOK, CurOK, Goto, Steps, Busy, data, queue, locals
<1>2. PendingUnique'
  BY QueueUnchanged DEF EndBatch
<1> QED
  BY <1>1, <1>2 DEF IInv

LEMMA WorkerStep == ASSUME IInv, NEW w \in Workers, Worker(w) PROVE IInv'
<1>1. CASE ReapAndPurge(w) \/ ClaimBatch(w) \/ EndBatch(w)
  BY <1>1, ReapAndPurgeStep, ClaimBatchStep, EndBatchStep
<1>2. CASE \E c \in claims[w], ok \in BOOLEAN : ProcessDelete(w, c, ok)
  BY <1>2, ProcessDeleteStep
<1>3. CASE \E ok \in BOOLEAN : ReadBatch(w, ok)
  BY <1>3, ReadBatchStep
<1>4. CASE RenewGroup(w) \/ Embed(w)
  BY <1>4, RenewGroupStep, EmbedStep
<1>5. CASE WriteBatch(w) \/ TxnCommit(w)
  BY <1>5, WriteAndMarkStep, GroupFailsStep DEF WriteBatch, TxnCommit
<1>6. CASE TxnRead(w) \/ ReadOne(w)
  BY <1>6, TxnReadStep, ReadOneStep
<1>7. CASE \E c \in group[w] : RenewOne(w, c)
  BY <1>7, RenewOneStep
<1>8. CASE \E ok \in BOOLEAN : UpsertOne(w, ok)
  BY <1>8, UpsertOneStep
<1>9. CASE MarkDone(w) \/ MarkFailed(w) \/ MarkRaises(w)
  BY <1>9, MarkDoneStep, MarkFailedStep, MarkRaisesStep
<1> QED
  BY <1>1, <1>2, <1>3, <1>4, <1>5, <1>6, <1>7, <1>8, <1>9 DEF Worker

-----------------------------------------------------------------------------
(* The theorems.                                                           *)

LEMMA InitInv == Init => IInv
<1> SUFFICES ASSUME Init PROVE IInv
  OBVIOUS
<1>1. Unread \in [Keys -> Texts \cup {NoRow}]
  BY DEF Unread
<1>2. TypeOK /\ CurOK
  BY <1>1 DEF Init, TypeOK, CurOK, Busy, Vectors, Steps
<1>3. PendingUnique
  BY DEF Init, PendingUnique, InState, NoJob
<1> QED
  BY <1>2, <1>3 DEF IInv

LEMMA NextInv == IInv /\ [Next]_vars => IInv'
<1> SUFFICES ASSUME IInv, [Next]_vars PROVE IInv'
  OBVIOUS
<1>1. CASE User
  BY <1>1, UserStep
<1>2. CASE \E j \in JobIds : Expire(j)
  BY <1>2, ExpireStep
<1>3. CASE \E w \in Workers : Worker(w) \/ Crash(w)
  BY <1>3, WorkerStep, CrashStep
<1>4. CASE UNCHANGED vars
  BY <1>4 DEF vars, IInv, TypeOK, CurOK, PendingUnique, InState
<1> QED
  BY <1>1, <1>2, <1>3, <1>4 DEF Next

LEMMA Invariance == Spec => []IInv
BY InitInv, NextInv, PTL DEF Spec

\* Every table, queue row and worker local keeps its type; in particular no job is
\* claimed more than MaxAttempts times.
THEOREM TypeCorrect == Spec => []TypeOK
<1>1. IInv => TypeOK
  BY DEF IInv
<1> QED
  BY <1>1, Invariance, PTL

\* The queue never holds two pending jobs of one row, whichever way a job becomes
\* pending: the trigger's INSERT or mark_failed's retry.
THEOREM UniquePending == Spec => []PendingUnique
<1>1. IInv => PendingUnique
  BY DEF IInv
<1> QED
  BY <1>1, Invariance, PTL

-----------------------------------------------------------------------------
(* Fencing: who can take a processing job out of the queue.                *)

\* The trigger and mark_done only take away the jobs they were asked to.
LEMMA EnqueueKeeps ==
  ASSUME TypeOK, NEW K \in SUBSET Keys, NEW op \in Ops, NEW gone \in SUBSET JobIds,
         EnqueueAndDelete(K, op, gone), NEW j \in JobIds, jobs[j].state = "processing",
         jobs'[j] = NoJob
  PROVE  j \in gone
<1>1. PICK f \in FreshIds(K \ PendingKeys) :
        jobs' = Without(Coalesced(jobs, K, op, f), gone)
  BY DEF EnqueueAndDelete
<1>2. jobs[j] \in Job
  BY HasState
<1>3. ~(\E k \in DOMAIN f : f[k] = j)
  <2>1. f \in [K \ PendingKeys -> FreeIds]
    BY <1>1 DEF FreshIds
  <2>2. j \notin FreeIds
    BY <1>2, NoJobIsNoJob DEF FreeIds, Queued
  <2> QED
    BY <2>1, <2>2
<1>4. Coalesced(jobs, K, op, f)[j] = jobs[j]
  BY <1>3 DEF Coalesced
<1>5. Without(Coalesced(jobs, K, op, f), gone)[j] = IF j \in gone THEN NoJob ELSE jobs[j]
  BY <1>4 DEF Without
<1> QED
  BY <1>1, <1>2, <1>5, NoJobIsNoJob

LEMMA StoreVectorsKeeps ==
  ASSUME TypeOK, NEW K \in SUBSET Keys, NEW read \in [Keys -> Texts \cup {NoRow}],
         NEW gone \in SUBSET JobIds, StoreVectors(K, read, gone), NEW j \in JobIds,
         jobs[j].state = "processing", jobs'[j] = NoJob
  PROVE  j \in gone
<1>1. PICK H \in SUBSET Keys : EnqueueAndDelete(H, "upsert", gone)
  BY StoreVectorsType
<1> QED
  BY <1>1, EnqueueKeeps DEF Ops

LEMMA FenceReap ==
  ASSUME IInv, NEW w \in Workers, ReapAndPurge(w), NEW j \in JobIds,
         jobs[j].state = "processing", jobs'[j] = NoJob
  PROVE  jobs[j].lease = "expired" /\ jobs[j].attempts >= MaxAttempts
<1>1. PICK gone \in PurgeSets(Reaped) : jobs' = Without(Reaped, gone)
  BY DEF ReapAndPurge
<1>2. jobs[j] \in Job
  BY HasState DEF IInv
<1>3. CASE Reaped[j] = jobs[j]
  <2>1. j \in gone
    BY <1>1, <1>2, <1>3, NoJobIsNoJob DEF Without
  <2>2. Reaped[j].state = "failed"
    BY <2>1 DEF PurgeSets
  <2> QED
    BY <1>3, <2>2
<1>4. CASE Reaped[j] # jobs[j]
  BY <1>4 DEF Reaped
<1> QED
  BY <1>3, <1>4

LEMMA FenceWrite ==
  ASSUME IInv, NEW w \in Workers, WriteAndMark(w), pc[w] \in {"write", "txnEmbed"},
         NEW j \in JobIds, jobs[j].state = "processing", jobs'[j] = NoJob
  PROVE  Owns(w, j) /\ j \in Held(w) /\ pc'[w] # pc[w]
<1> DEFINE done == {c.id : c \in group[w]} \cap {i \in JobIds : Owns(w, i)}
<1>1. StoreVectors(KeysOf(group[w]), snap[w], done)
  BY DEF WriteAndMark
<1>2. /\ KeysOf(group[w]) \in SUBSET Keys
      /\ snap[w] \in [Keys -> Texts \cup {NoRow}]
      /\ done \in SUBSET JobIds
  BY DEF IInv, TypeOK, KeysOf, Claim
<1>3. j \in done
  BY <1>1, <1>2, StoreVectorsKeeps DEF IInv
<1>4. pc'[w] \in {"dispatch", "fallback"}
  BY DEF WriteAndMark, Goto, IInv, TypeOK
<1> QED
  BY <1>3, <1>4 DEF Held

LEMMA FenceMark ==
  ASSUME IInv, NEW w \in Workers, MarkDone(w), NEW j \in JobIds,
         jobs[j].state = "processing", jobs'[j] = NoJob
  PROVE  Owns(w, j) /\ j \in Held(w) /\ pc'[w] # pc[w]
<1> DEFINE gone == {cur[w].id} \cap {i \in JobIds : Owns(w, i)}
<1>1. EnqueueAndDelete({}, "upsert", gone)
  BY DEF MarkDone
<1>2. {} \in SUBSET Keys /\ "upsert" \in Ops /\ gone \in SUBSET JobIds
  BY DEF Ops
<1>3. j \in gone
  <2> HIDE DEF gone
  <2> QED
    BY <1>1, <1>2, EnqueueKeeps DEF IInv
<1>4. pc[w] = "mark" /\ pc'[w] \in {"dispatch", "fallback"}
  BY DEF MarkDone, AfterMark, Goto, IInv, TypeOK
<1>5. cur[w] # NoClaim
  BY NoJobIsNoJob, <1>4 DEF IInv, CurOK, Busy
<1> QED
  BY <1>3, <1>4, <1>5 DEF Held

\* The other transactions of a worker never remove a processing job.
LEMMA FenceOthers ==
  ASSUME IInv, NEW w \in Workers,
         \/ Worker(w) /\ ~ReapAndPurge(w) /\ ~MarkDone(w)
            /\ ~(pc[w] \in {"write", "txnEmbed"} /\ WriteAndMark(w))
         \/ Crash(w),
         NEW j \in JobIds, jobs[j].state = "processing"
  PROVE  jobs'[j] # NoJob
<1>1. jobs[j] \in Job /\ jobs[j] # NoJob
  BY HasState, NoJobIsNoJob DEF IInv
<1>2. CASE ClaimBatch(w)
  <2>1. PICK S \in ClaimSets :
          jobs' = [i \in JobIds |->
                     IF i \in S
                     THEN [jobs[i] EXCEPT !.state = "processing", !.owner = w,
                                          !.lease = "running", !.attempts = @ + 1]
                     ELSE jobs[i]]
    BY <1>2 DEF ClaimBatch
  <2>2. jobs'[j].state = "processing"
    BY <1>1, <2>1 DEF Job
  <2> QED
    BY <2>2 DEF NoJob
<1>3. CASE RenewGroup(w) \/ \E c \in group[w] : RenewOne(w, c)
  <2>1. PICK ids \in {{c.id : c \in group[w]}} \cup {{c.id} : c \in group[w]} :
          jobs' = Renewed(w, ids)
    BY <1>3 DEF RenewGroup, RenewOne
  <2>2. jobs'[j].state = "processing"
    BY <1>1, <2>1 DEF Renewed, Job
  <2> QED
    BY <2>2 DEF NoJob
<1>4. CASE MarkFailed(w)
  <2>1. jobs'[j] = jobs[j] \/ jobs'[j] = Failed(j)
    BY <1>4 DEF MarkFailed, IInv, TypeOK
  <2>2. Failed(j) \in Job
    BY <1>1 DEF Failed, Job
  <2> QED
    BY <1>1, <2>1, <2>2, NoJobIsNoJob
<1>5. CASE MarkRaises(w) \/ Crash(w)
  <2>1. jobs'[j] = jobs[j] \/ jobs'[j] = [jobs[j] EXCEPT !.owner = Dead]
    BY <1>5 DEF MarkRaises, Crash, Exit
  <2>2. [jobs[j] EXCEPT !.owner = Dead] \in Job
    BY <1>1 DEF Job
  <2> QED
    BY <1>1, <2>1, <2>2, NoJobIsNoJob
<1>6. CASE \E c \in claims[w], ok \in BOOLEAN : ProcessDelete(w, c, ok)
  <2>1. PICK c \in claims[w], ok \in BOOLEAN : ProcessDelete(w, c, ok)
    BY <1>6
  <2>2. {c.key} \in SUBSET Keys /\ {} \in SUBSET JobIds
    BY DEF IInv, TypeOK, Claim
  <2>3. Unread \in [Keys -> Texts \cup {NoRow}]
    BY DEF Unread
  <2>4. StoreVectors({c.key}, Unread, {}) \/ jobs' = jobs
    BY <2>1 DEF ProcessDelete, queue
  <2> QED
    BY <1>1, <2>2, <2>3, <2>4, StoreVectorsKeeps, SMTT(30) DEF IInv
<1>7. CASE \E ok \in BOOLEAN : UpsertOne(w, ok)
  <2>1. cur[w].key \in Keys
    BY <1>7 DEF UpsertOne, IInv, CurOK, Busy, Claim
  <2>2. {cur[w].key} \in SUBSET Keys /\ {} \in SUBSET JobIds
    BY <2>1
  <2>3. snap[w] \in [Keys -> Texts \cup {NoRow}]
    BY DEF IInv, TypeOK
  <2>4. StoreVectors({cur[w].key}, snap[w], {}) \/ jobs' = jobs
    BY <1>7 DEF UpsertOne, queue
  <2> QED
    BY <1>1, <2>2, <2>3, <2>4, StoreVectorsKeeps DEF IInv
<1>8. CASE \/ EndBatch(w) \/ Embed(w) \/ TxnRead(w) \/ ReadOne(w) \/ GroupFails(w)
           \/ \E ok \in BOOLEAN : ReadBatch(w, ok)
  BY <1>1, <1>8 DEF EndBatch, Embed, TxnRead, ReadOne, GroupFails, ReadBatch, queue
<1> QED
  BY <1>2, <1>3, <1>4, <1>5, <1>6, <1>7, <1>8 DEF Worker, WriteBatch, TxnCommit

LEMMA FenceStep == IInv /\ [Next]_vars => CompletedByOwner
<1> SUFFICES ASSUME IInv, [Next]_vars, NEW j \in JobIds, jobs[j].state = "processing",
                    jobs'[j] = NoJob
             PROVE  \/ \E w \in Workers : jobs[j].owner = w /\ j \in Held(w) /\ pc'[w] # pc[w]
                    \/ jobs[j].lease = "expired" /\ jobs[j].attempts >= MaxAttempts
  BY DEF CompletedByOwner
<1>1. jobs[j] \in Job /\ jobs[j] # NoJob
  BY HasState, NoJobIsNoJob DEF IInv
<1>2. CASE User
  <2>1. PICK k \in Keys, op \in Ops : EnqueueAndDelete({k}, op, {})
    BY <1>2 DEF User, Insert, Update, Delete, UserStatement, Ops
  <2>2. {k} \in SUBSET Keys /\ {} \in SUBSET JobIds
    OBVIOUS
  <2>3. TypeOK
    BY DEF IInv
  <2>4. j \in {}
    BY <2>1, <2>2, <2>3, EnqueueKeeps
  <2> QED
    BY <2>4
<1>3. CASE \E i \in JobIds : Expire(i)
  <2>1. PICK i \in JobIds : Expire(i)
    BY <1>3
  <2>2. jobs'[j] = jobs[j] \/ jobs'[j] = [jobs[j] EXCEPT !.lease = "expired"]
    BY <2>1 DEF Expire, IInv, TypeOK
  <2>3. [jobs[j] EXCEPT !.lease = "expired"] \in Job
    BY <1>1 DEF Job
  <2> QED
    BY <1>1, <2>2, <2>3, NoJobIsNoJob
<1>4. CASE \E w \in Workers : Worker(w) \/ Crash(w)
  BY <1>4, FenceReap, FenceMark, FenceWrite, FenceOthers DEF Owns
<1>5. CASE UNCHANGED vars
  BY <1>1, <1>5 DEF vars
<1> QED
  BY <1>2, <1>3, <1>4, <1>5 DEF Next

\* A worker whose lease expired cannot complete a job that another worker claimed since:
\* mark_done deletes a processing row only for its owner, and the only other way out of
\* the queue is the dead letter of a job whose attempts are spent.
THEOREM Fencing == Spec => FencedCompletion
<1>1. IInv /\ [Next]_vars => [CompletedByOwner]_vars
  BY FenceStep
<1> QED
  BY <1>1, Invariance, PTL DEF Spec, FencedCompletion
-----------------------------------------------------------------------------
(***************************************************************************)
(* No write to the source table is forgotten: Coverage and NoOrphanVector, *)
(* for the deployment the extension ships (one worker) and as long as no   *)
(* dead letter is purged.                                                  *)
(***************************************************************************)

\* register_worker of lib.rs starts one background worker.
OneWorker == \A v, w \in Workers : v = w

\* The dead letters in view never exceed the GUC that lets the purge start.
NothingPurged == Keep >= MaxJobs

\* What the row's state calls for.
RightOp(k) == IF source[k] = NoRow THEN "delete" ELSE "upsert"

\* Where a delete that runs late, after the row came back, does no harm: in place it
\* touches the row and so queues it again; without deletes there is none.
LateDeleteSafe == Mode = "inplace" \/ ~WithDelete

\* Elsewhere a row that came back may be left without its vector.
Bare(k) == ~LateDeleteSafe /\ Store[k] = NoVector

\* Work that is still to start: whatever the worker has read of k is not the last word.
PendingRight(k) ==
    \E j \in JobIds : jobs[j].state = "pending" /\ jobs[j].key = k /\ jobs[j].op = RightOp(k)

\* The job the worker has in hand is not needed for k.
Settled(k) == Bare(k) \/ Fresh(k) \/ PendingRight(k)
Safe(k) == Bare(k) \/ Fresh(k) \/ Covered(k)

\* What the worker read of k is current, or a newer write is queued.
ReadRight(w, k) == snap[w][k] = source[k] \/ PendingRight(k)

\* The claims a worker has in hand.
InHand(w) == claims[w] \cup group[w] \cup ({cur[w]} \ {NoClaim})

\* A claim keeps naming the row of its job: ids in hand are not drawn again.
SameRow == \A w \in Workers : \A c \in InHand(w) :
              jobs[c.id] # NoJob => jobs[c.id].key = c.key

\* Between the reading of a group's texts and the writing of their vectors.
GroupSteps == {"renew", "embed", "write", "txnEmbed"}

GroupRead == \A w \in Workers : pc[w] \in GroupSteps =>
                \A k \in KeysOf(group[w]) : ReadRight(w, k)
OneRead == \A w \in Workers : pc[w] = "oneEmbed" => ReadRight(w, cur[w].key)
Finished == \A w \in Workers : pc[w] = "mark" /\ outcome[w] => Settled(cur[w].key)

\* In place, a row's vector goes with the row.
NoRowNoVector == Mode = "inplace" => \A k \in Keys : source[k] = NoRow => emb[k] = NoVector

OnlyUpserts == ~WithDelete =>
    /\ \A j \in JobIds : jobs[j] # NoJob => jobs[j].op = "upsert"
    /\ \A w \in Workers : \A c \in claims[w] : c.op = "upsert"

CoverInv ==
    /\ \A k \in Keys : Safe(k)
    /\ SameRow /\ GroupRead /\ OneRead /\ Finished
    /\ NoRowNoVector /\ OnlyUpserts


-----------------------------------------------------------------------------
(* Lemmas about the queue.                                                 *)

\* The other jobs stay, with the new op if they were pending for a row of K.
JobsKept(K, op, gone) ==
    \A j \in JobIds : jobs[j] # NoJob /\ j \notin gone =>
        /\ jobs'[j] # NoJob /\ jobs'[j].key = jobs[j].key
        /\ jobs'[j].state = jobs[j].state
        /\ jobs'[j].op = jobs[j].op \/ (jobs[j].key \in K /\ jobs'[j].op = op)

\* New jobs come under ids nobody has in hand.
NewJobs(op, gone) ==
    \A j \in JobIds : jobs'[j] # NoJob =>
        \/ jobs[j] # NoJob /\ j \notin gone
        \/ /\ jobs'[j].op = op /\ jobs'[j].state = "pending"
           /\ \A w \in Workers : j \notin Held(w)

\* Each row of K gets a pending job with that op.
OpsQueued(K, op) ==
    \A k \in K : \E j \in JobIds :
        jobs'[j].state = "pending" /\ jobs'[j].key = k /\ jobs'[j].op = op

\* What an INSERT .. ON CONFLICT for the rows K, with the jobs `gone` completed, leaves
\* of the queue.
LEMMA EnqueueEffect ==
  ASSUME TypeOK, NEW K \in SUBSET Keys, NEW op \in Ops, NEW gone \in SUBSET JobIds,
         EnqueueAndDelete(K, op, gone), \A j \in gone : jobs[j].state = "processing"
  PROVE  JobsKept(K, op, gone) /\ NewJobs(op, gone) /\ OpsQueued(K, op)
<1>1. PICK f \in FreshIds(K \ PendingKeys) :
        jobs' = Without(Coalesced(jobs, K, op, f), gone)
  BY DEF EnqueueAndDelete
<1>2. /\ f \in [K \ PendingKeys -> FreeIds]
      /\ \A k1, k2 \in K \ PendingKeys : f[k1] = f[k2] => k1 = k2
  BY <1>1 DEF FreshIds
<1> DEFINE New(j) == \E k \in DOMAIN f : f[k] = j
<1>3. \A j \in FreeIds : j \in JobIds /\ jobs[j] = NoJob /\ \A w \in Workers : j \notin Held(w)
  BY DEF FreeIds, Queued
<1>4. ASSUME NEW j \in JobIds, ~New(j), j \notin gone
      PROVE  jobs'[j] = IF jobs[j].state = "pending" /\ jobs[j].key \in K
                        THEN [jobs[j] EXCEPT !.op = op] ELSE jobs[j]
  BY <1>1, <1>4 DEF Without, Coalesced
<1>5. ASSUME NEW k \in K \ PendingKeys
      PROVE  /\ f[k] \in JobIds
             /\ jobs'[f[k]] = [key |-> k, op |-> op, state |-> "pending", attempts |-> 0,
                               owner |-> Nobody, lease |-> "null"]
  <2>1. f[k] \in FreeIds /\ f[k] \in JobIds /\ f[k] \notin gone
    BY <1>2, <1>3 DEF NoJob
  <2>2. (CHOOSE l \in DOMAIN f : f[l] = f[k]) = k
    BY <1>2
  <2>3. Coalesced(jobs, K, op, f)[f[k]] =
          [key |-> k, op |-> op, state |-> "pending", attempts |-> 0,
           owner |-> Nobody, lease |-> "null"]
    BY <1>2, <2>1, <2>2 DEF Coalesced
  <2> QED
    BY <1>1, <2>1, <2>3 DEF Without
<1>6. ASSUME NEW j \in JobIds, jobs[j] # NoJob, j \notin gone
      PROVE  /\ jobs'[j] # NoJob /\ jobs'[j].key = jobs[j].key
             /\ jobs'[j].state = jobs[j].state
             /\ jobs'[j].op = jobs[j].op \/ (jobs[j].key \in K /\ jobs'[j].op = op)
  <2>1. ~New(j) /\ jobs[j] \in Job
    BY <1>2, <1>3, <1>6, HasState
  <2>2. CASE jobs[j].state = "pending" /\ jobs[j].key \in K
    <3>1. jobs'[j] = [jobs[j] EXCEPT !.op = op]
      BY <1>4, <1>6, <2>1, <2>2
    <3>2. jobs'[j] \in Job
      BY <2>1, <3>1 DEF Job
    <3> QED
      BY <2>1, <2>2, <3>1, <3>2, NoJobIsNoJob DEF Job
  <2>3. CASE ~(jobs[j].state = "pending" /\ jobs[j].key \in K)
    BY <1>4, <1>6, <2>1, <2>3
  <2> QED
    BY <2>2, <2>3
<1>7. ASSUME NEW j \in JobIds, jobs'[j] # NoJob
      PROVE  \/ jobs[j] # NoJob /\ j \notin gone
             \/ /\ jobs'[j].op = op /\ jobs'[j].state = "pending"
                /\ \A w \in Workers : j \notin Held(w)
  <2>1. j \notin gone
    BY <1>1, <1>7 DEF Without
  <2>2. CASE New(j)
    <3>1. PICK k \in K \ PendingKeys : f[k] = j
      BY <1>2, <2>2
    <3>2. j \in FreeIds
      BY <1>2, <3>1
    <3>3. jobs'[f[k]] = [key |-> k, op |-> op, state |-> "pending", attempts |-> 0,
                         owner |-> Nobody, lease |-> "null"]
      BY <1>5
    <3> QED
      BY <1>3, <3>1, <3>2, <3>3
  <2>3. CASE ~New(j)
    BY <1>4, <1>7, <2>1, <2>3 DEF NoJob
  <2> QED
    BY <2>2, <2>3
<1>8. ASSUME NEW k \in K
      PROVE  \E j \in JobIds :
               jobs'[j].state = "pending" /\ jobs'[j].key = k /\ jobs'[j].op = op
  <2>1. CASE k \in PendingKeys
    <3>1. PICK j \in JobIds : jobs[j].state = "pending" /\ jobs[j].key = k
      BY <2>1 DEF PendingKeys, InState
    <3>2. jobs[j] \in Job /\ j \notin gone /\ ~New(j)
      BY <3>1, <1>2, <1>3, HasState DEF NoJob
    <3>3. jobs'[j] = [jobs[j] EXCEPT !.op = op]
      BY <1>4, <3>1, <3>2
    <3> QED
      BY <3>1, <3>2, <3>3 DEF Job
  <2>2. CASE k \notin PendingKeys
    <3>1. f[k] \in JobIds /\ jobs'[f[k]] = [key |-> k, op |-> op, state |-> "pending",
            attempts |-> 0, owner |-> Nobody, lease |-> "null"]
      BY <1>5, <2>2
    <3> QED
      BY <3>1
  <2> QED
    BY <2>1, <2>2
<1>9. OpsQueued(K, op)
  BY <1>8 DEF OpsQueued
<1>10. JobsKept(K, op, gone)
  BY <1>6 DEF JobsKept
<1>11. NewJobs(op, gone)
  BY <1>7 DEF NewJobs
<1> QED
  BY <1>9, <1>10, <1>11

\* A step that keeps every job, its row and its op; and one that starts none either.
Kept == \A j \in JobIds : /\ jobs'[j] = NoJob <=> jobs[j] = NoJob
                          /\ jobs[j] # NoJob => /\ jobs'[j].key = jobs[j].key
                                                /\ jobs'[j].op = jobs[j].op
KeptPending ==
    Kept /\ \A j \in JobIds : jobs[j].state = "pending" => jobs'[j].state = "pending"

LEMMA UnchangedKeeps == UNCHANGED jobs => KeptPending
BY DEF KeptPending, Kept

\* Such a step forgets nothing, as long as it changes no data and takes no new claim.
LEMMA Quiet ==
  ASSUME CoverInv, Kept, UNCHANGED data,
         \A w \in Workers : InHand(w)' \subseteq InHand(w) /\ claims'[w] \subseteq claims[w],
         \A w \in Workers : InHand(w) \subseteq Claim
  PROVE  (\A k \in Keys : Safe(k)') /\ SameRow' /\ NoRowNoVector' /\ OnlyUpserts'
<1>1. source' = source /\ emb' = emb /\ chunks' = chunks
  BY DEF data
<1>2. \A k \in Keys : Fresh(k)' = Fresh(k) /\ Bare(k)' = Bare(k)
  BY <1>1 DEF Fresh, Bare, Store, LateDeleteSafe
<1>3. \A k \in Keys : Covered(k) => Covered(k)'
  BY <1>1 DEF Covered, Queued, Kept
<1>4. SameRow'
  BY DEF SameRow, CoverInv, Kept, Claim
<1>5. OnlyUpserts'
  BY DEF OnlyUpserts, CoverInv, Kept
<1> QED
  BY <1>1, <1>2, <1>3, <1>4, <1>5 DEF CoverInv, Safe, NoRowNoVector

\* ... and what was right of a row stays right.
LEMMA QuietReads ==
  ASSUME TypeOK, KeptPending, UNCHANGED data, NEW k \in Keys
  PROVE  /\ PendingRight(k) => PendingRight(k)'
         /\ Settled(k) => Settled(k)'
<1>1. source' = source /\ emb' = emb /\ chunks' = chunks
  BY DEF data
<1>2. Fresh(k)' = Fresh(k) /\ Bare(k)' = Bare(k) /\ RightOp(k)' = RightOp(k)
  BY <1>1 DEF Fresh, Bare, Store, LateDeleteSafe, RightOp
<1>3. \A j \in JobIds : jobs[j].state = "pending" => jobs[j] # NoJob
  BY DEF NoJob
<1>4. PendingRight(k) => PendingRight(k)'
  BY <1>2, <1>3 DEF PendingRight, KeptPending, Kept
<1> QED
  BY <1>2, <1>4 DEF Settled

LEMMA InHandTyped ==
  ASSUME TypeOK, NEW w \in Workers
  PROVE  InHand(w) \subseteq Claim /\ \A c \in InHand(w) : c.id \in Held(w)
BY DEF TypeOK, InHand, Held

LEMMA PendingIsCovered == ASSUME NEW k \in Keys, PendingRight(k) PROVE Covered(k)
BY DEF PendingRight, Covered, RightOp, Queued, NoJob

\* What the trigger does for a row: a written row has its op queued, another row keeps
\* what it had, the completed jobs apart.
LEMMA EnqueueRow ==
  ASSUME TypeOK, NEW K \in SUBSET Keys, NEW op \in Ops, NEW gone \in SUBSET JobIds,
         EnqueueAndDelete(K, op, gone), \A j \in gone : jobs[j].state = "processing",
         NEW k \in Keys, k \in K => op = RightOp(k)', k \notin K => source'[k] = source[k]
  PROVE  /\ k \in K => PendingRight(k)'
         /\ k \notin K => (PendingRight(k) => PendingRight(k)')
         /\ (k \notin K /\ \A j \in gone : jobs[j].key # k) => (Covered(k) => Covered(k)')
<1>1. CASE k \in K
  <2>1. OpsQueued(K, op)
    BY EnqueueEffect
  <2> QED
    BY <1>1, <2>1 DEF OpsQueued, PendingRight
<1>2. CASE k \notin K
  <2>1. RightOp(k)' = RightOp(k)
    BY <1>2 DEF RightOp
  <2>2. ASSUME NEW j \in JobIds, jobs[j] # NoJob, jobs[j].key = k, j \notin gone
        PROVE  /\ jobs'[j] # NoJob /\ jobs'[j].key = k
               /\ jobs'[j].state = jobs[j].state /\ jobs'[j].op = jobs[j].op
    <3>1. JobsKept(K, op, gone)
      BY EnqueueEffect
    <3> QED
      BY <1>2, <2>2, <3>1 DEF JobsKept
  <2>3. PendingRight(k) => PendingRight(k)'
    <3> SUFFICES ASSUME PendingRight(k) PROVE PendingRight(k)'
      OBVIOUS
    <3>1. PICK j \in JobIds : jobs[j].state = "pending" /\ jobs[j].key = k /\ jobs[j].op = RightOp(k)
      BY DEF PendingRight
    <3>2. jobs[j] # NoJob /\ j \notin gone
      BY <3>1 DEF NoJob
    <3> QED
      BY <2>1, <2>2, <3>1, <3>2 DEF PendingRight
  <2>4. (\A j \in gone : jobs[j].key # k) => (Covered(k) => Covered(k)')
    <3> SUFFICES ASSUME \A j \in gone : jobs[j].key # k, Covered(k) PROVE Covered(k)'
      OBVIOUS
    <3>1. PICK j \in Queued : jobs[j].key = k /\ jobs[j].op = RightOp(k)
      BY DEF Covered, RightOp
    <3>2. j \in JobIds /\ jobs[j] # NoJob /\ j \notin gone
      BY <3>1 DEF Queued
    <3>3. j \in Queued' /\ jobs'[j].key = k /\ jobs'[j].op = RightOp(k)'
      BY <2>1, <2>2, <3>1, <3>2 DEF Queued
    <3> QED
      BY <3>3 DEF Covered, RightOp
  <2> QED
    BY <1>2, <2>3, <2>4
<1> QED
  BY <1>1, <1>2

\* The trigger draws no id that is in hand ...
LEMMA EnqueueSameRow ==
  ASSUME TypeOK, SameRow, NEW K \in SUBSET Keys, NEW op \in Ops, NEW gone \in SUBSET JobIds,
         EnqueueAndDelete(K, op, gone), \A j \in gone : jobs[j].state = "processing",
         \A w \in Workers : InHand(w)' \subseteq InHand(w)
  PROVE  SameRow'
<1> SUFFICES ASSUME NEW w \in Workers, NEW c \in InHand(w)', jobs'[c.id] # NoJob
             PROVE  jobs'[c.id].key = c.key
  BY DEF SameRow
<1>1. c \in InHand(w) /\ c \in Claim /\ c.id \in JobIds /\ c.id \in Held(w)
  BY InHandTyped DEF Claim
<1>2. JobsKept(K, op, gone) /\ NewJobs(op, gone)
  BY EnqueueEffect
<1>3. jobs[c.id] # NoJob /\ c.id \notin gone
  BY <1>1, <1>2 DEF NewJobs
<1>4. jobs'[c.id].key = jobs[c.id].key
  BY <1>1, <1>2, <1>3 DEF JobsKept
<1> QED
  BY <1>1, <1>3, <1>4 DEF SameRow

\* ... and queues deletes for rows that users deleted only.
LEMMA EnqueueUpserts ==
  ASSUME TypeOK, OnlyUpserts, NEW K \in SUBSET Keys, NEW op \in Ops,
         NEW gone \in SUBSET JobIds, EnqueueAndDelete(K, op, gone),
         \A j \in gone : jobs[j].state = "processing",
         ~WithDelete => op = "upsert", \A w \in Workers : claims'[w] \subseteq claims[w]
  PROVE  OnlyUpserts'
<1> SUFFICES ASSUME ~WithDelete PROVE
               /\ \A j \in JobIds : jobs'[j] # NoJob => jobs'[j].op = "upsert"
               /\ \A w \in Workers : \A c \in claims'[w] : c.op = "upsert"
  BY DEF OnlyUpserts
<1>1. ASSUME NEW j \in JobIds, jobs'[j] # NoJob PROVE jobs'[j].op = "upsert"
  <2>1. op = "upsert"
    OBVIOUS
  <2>2. JobsKept(K, op, gone) /\ NewJobs(op, gone)
    BY EnqueueEffect
  <2>3. CASE jobs[j] # NoJob /\ j \notin gone
    <3>1. jobs'[j].op = jobs[j].op \/ jobs'[j].op = op
      BY <2>2, <2>3 DEF JobsKept
    <3>2. jobs[j].op = "upsert"
      BY <2>3 DEF OnlyUpserts
    <3> QED
      BY <2>1, <3>1, <3>2
  <2> QED
    BY <1>1, <2>1, <2>2, <2>3 DEF NewJobs
<1> QED
  BY <1>1 DEF OnlyUpserts

-----------------------------------------------------------------------------
(* What storing vectors does to the rows.                                  *)

\* Vectors of what the rows hold, or of what they held while a newer write is queued; or,
\* for a delete, no vector.
LEMMA StoreEffect ==
  ASSUME TypeOK, CoverInv, NEW K \in SUBSET Keys, NEW read \in [Keys -> Texts \cup {NoRow}],
         NEW gone \in SUBSET JobIds, StoreVectors(K, read, gone),
         \A j \in gone : jobs[j].state = "processing" /\ jobs[j].key \in K,
         \/ \A k \in K : read[k] = source[k] \/ PendingRight(k)
         \/ read = Unread /\ WithDelete,
         \A w \in Workers : InHand(w)' \subseteq InHand(w) /\ claims'[w] \subseteq claims[w]
  PROVE  /\ \A k \in K : Settled(k)'
         /\ \A k \in Keys : Safe(k)'
         /\ SameRow' /\ NoRowNoVector' /\ OnlyUpserts'
<1> DEFINE hit == {k \in K : source[k] # NoRow}
           H == IF Mode = "inplace" THEN hit ELSE {}
           VectorOf(t) == IF t \in Contents THEN t ELSE NoVector
<1>1. /\ H \in SUBSET Keys /\ "upsert" \in Ops /\ EnqueueAndDelete(H, "upsert", gone)
      /\ source' = source
  BY DEF StoreVectors, Ops
<1>2. \A k \in Keys : Store'[k] = IF Mode = "inplace"
                                 THEN IF k \in hit THEN VectorOf(read[k]) ELSE emb[k]
                                 ELSE IF k \in K THEN VectorOf(read[k]) ELSE Store[k]
  BY DEF StoreVectors, Store
<1>3. SameRow' /\ OnlyUpserts'
  <2> HIDE DEF H
  <2> QED
    BY <1>1, EnqueueSameRow, EnqueueUpserts DEF CoverInv
<1>4. NoRowNoVector'
  BY <1>1, <1>2 DEF CoverInv, NoRowNoVector, Store
<1>5. ASSUME NEW k \in Keys
      PROVE  /\ k \in H => PendingRight(k)'
             /\ k \notin H => (PendingRight(k) => PendingRight(k)')
             /\ (k \notin H /\ \A j \in gone : jobs[j].key # k) => (Covered(k) => Covered(k)')
  <2>1. (k \in H => "upsert" = RightOp(k)') /\ (k \notin H => source'[k] = source[k])
    BY <1>1 DEF RightOp
  <2> HIDE DEF H
  <2> QED
    BY <1>1, <2>1, EnqueueRow
<1>6. ASSUME NEW k \in K PROVE Settled(k)'
  <2>1. CASE Mode = "inplace" /\ k \in hit
    BY <1>5, <2>1 DEF Settled
  <2>2. CASE Mode = "inplace" /\ k \notin hit
    <3>1. source[k] = NoRow /\ Store'[k] = NoVector /\ source'[k] = NoRow
      BY <1>1, <1>2, <2>2 DEF CoverInv, NoRowNoVector
    <3>2. Fresh(k)'
      BY <3>1 DEF Fresh
    <3> QED
      BY <3>2 DEF Settled
  <2>3. CASE Mode # "inplace" /\ read[k] = source[k]
    <3>1. Store'[k] = VectorOf(source[k]) /\ source'[k] = source[k]
      BY <1>1, <1>2, <2>3
    <3>2. Fresh(k)'
      BY <3>1 DEF Fresh, Store
    <3> QED
      BY <3>2 DEF Settled
  <2>4. CASE Mode # "inplace" /\ PendingRight(k)
    BY <1>5, <2>4 DEF Settled
  <2>5. CASE Mode # "inplace" /\ read = Unread /\ WithDelete
    <3>1. k \in Keys /\ read[k] = NoRow
      BY <2>5 DEF Unread
    <3>2. Store'[k] = NoVector
      BY <1>2, <2>5, <3>1
    <3>3. Bare(k)'
      BY <2>5, <3>2 DEF Bare, LateDeleteSafe
    <3> QED
      BY <3>3 DEF Settled
  <2> QED
    BY <2>1, <2>2, <2>3, <2>4, <2>5
<1>7. ASSUME NEW k \in Keys PROVE Safe(k)'
  <2>1. CASE k \in K
    <3>1. PendingRight(k)' => Covered(k)'
      BY DEF PendingRight, Covered, RightOp, Queued, NoJob
    <3> QED
      BY <1>6, <2>1, <3>1 DEF Settled, Safe
  <2>2. CASE k \notin K
    <3>1. Store'[k] = Store[k] /\ source'[k] = source[k] /\ k \notin H
      BY <1>1, <1>2, <2>2 DEF Store
    <3>2. Fresh(k)' = Fresh(k) /\ Bare(k)' = Bare(k)
      BY <3>1 DEF Fresh, Bare, LateDeleteSafe
    <3>3. Covered(k) => Covered(k)'
      BY <1>5, <2>2, <3>1
    <3> QED
      BY <3>2, <3>3 DEF CoverInv, Safe
  <2> QED
    BY <2>1, <2>2
<1> QED
  BY <1>3, <1>4, <1>6, <1>7

-----------------------------------------------------------------------------
(* The steps that store nothing.                                           *)

\* A step that keeps the queue and the data, and whose readings are new or unchanged.
LEMMA QuietInv ==
  ASSUME IInv, IInv', CoverInv, KeptPending, UNCHANGED data,
         \A w \in Workers :
            /\ InHand(w)' \subseteq InHand(w) /\ claims'[w] \subseteq claims[w]
            /\ pc'[w] \in GroupSteps =>
                 \/ pc[w] \in GroupSteps /\ group'[w] = group[w] /\ snap'[w] = snap[w]
                 \/ snap'[w] = ReadKeys(KeysOf(group'[w]))
            /\ pc'[w] = "oneEmbed" =>
                 \/ pc[w] = "oneEmbed" /\ cur'[w] = cur[w] /\ snap'[w] = snap[w]
                 \/ snap'[w] = ReadKeys({cur'[w].key})
            /\ pc'[w] = "mark" /\ outcome'[w] =>
                 pc[w] = "mark" /\ outcome[w] /\ cur'[w] = cur[w]
  PROVE  CoverInv'
<1>1. TypeOK /\ TypeOK' /\ CurOK' /\ Kept /\ source' = source
  BY DEF IInv, KeptPending, data
<1>2. (\A k \in Keys : Safe(k)') /\ SameRow' /\ NoRowNoVector' /\ OnlyUpserts'
  BY <1>1, Quiet, InHandTyped
<1>3. \A k \in Keys : (PendingRight(k) => PendingRight(k)') /\ (Settled(k) => Settled(k)')
  BY <1>1, QuietReads
<1>4. GroupRead'
  <2> SUFFICES ASSUME NEW w \in Workers, pc'[w] \in GroupSteps, NEW k \in KeysOf(group'[w])
               PROVE  ReadRight(w, k)'
    BY DEF GroupRead
  <2>1. k \in Keys
    BY <1>1 DEF TypeOK, KeysOf, Claim
  <2>2. CASE pc[w] \in GroupSteps /\ group'[w] = group[w] /\ snap'[w] = snap[w]
    BY <1>1, <1>3, <2>1, <2>2 DEF CoverInv, GroupRead, ReadRight
  <2>3. CASE snap'[w] = ReadKeys(KeysOf(group'[w]))
    BY <1>1, <2>1, <2>3 DEF ReadKeys, ReadRight
  <2> QED
    BY <2>2, <2>3
<1>5. OneRead'
  <2> SUFFICES ASSUME NEW w \in Workers, pc'[w] = "oneEmbed"
               PROVE  ReadRight(w, cur[w].key)'
    BY DEF OneRead
  <2>1. cur'[w].key \in Keys
    BY <1>1 DEF CurOK, Busy, Claim
  <2>2. CASE pc[w] = "oneEmbed" /\ cur'[w] = cur[w] /\ snap'[w] = snap[w]
    BY <1>1, <1>3, <2>1, <2>2 DEF CoverInv, OneRead, ReadRight
  <2>3. CASE snap'[w] = ReadKeys({cur'[w].key})
    BY <1>1, <2>1, <2>3 DEF ReadKeys, ReadRight
  <2> QED
    BY <2>2, <2>3
<1>6. Finished'
  <2> SUFFICES ASSUME NEW w \in Workers, pc'[w] = "mark", outcome'[w]
               PROVE  Settled(cur[w].key)'
    BY DEF Finished
  <2>1. cur'[w].key \in Keys
    BY <1>1 DEF CurOK, Busy, Claim
  <2>2. pc[w] = "mark" /\ outcome[w] /\ cur'[w] = cur[w]
    OBVIOUS
  <2> QED
    BY <1>3, <2>1, <2>2 DEF CoverInv, Finished
<1> QED
  BY <1>2, <1>4, <1>5, <1>6 DEF CoverInv

LEMMA ExpireKeeps == ASSUME IInv, NEW j \in JobIds, Expire(j) PROVE KeptPending
<1>1. jobs[j] \in Job
  BY HasState DEF Expire, IInv
<1>2. jobs' = [jobs EXCEPT ![j].lease = "expired"]
  BY DEF Expire
<1>3. jobs'[j] = [jobs[j] EXCEPT !.lease = "expired"] /\ jobs'[j] \in Job
  BY <1>1, <1>2 DEF IInv, TypeOK, Job
<1>4. \A i \in JobIds : i # j => jobs'[i] = jobs[i]
  BY <1>2 DEF IInv, TypeOK
<1> QED
  BY <1>1, <1>3, <1>4, NoJobIsNoJob DEF KeptPending, Kept, Job

LEMMA RenewKeeps ==
  ASSUME IInv, NEW w \in Workers, NEW ids, jobs' = Renewed(w, ids) PROVE KeptPending
<1> SUFFICES ASSUME NEW j \in JobIds
             PROVE  /\ jobs'[j] = NoJob <=> jobs[j] = NoJob
                    /\ jobs[j] # NoJob => /\ jobs'[j].key = jobs[j].key
                                          /\ jobs'[j].op = jobs[j].op
                    /\ jobs[j].state = "pending" => jobs'[j].state = "pending"
  BY DEF KeptPending, Kept
<1>1. CASE j \in ids /\ Owns(w, j)
  <2>1. jobs[j] \in Job
    BY <1>1, HasState DEF Owns, IInv
  <2>2. jobs'[j] = [jobs[j] EXCEPT !.lease = "running"] /\ jobs'[j] \in Job
    BY <1>1, <2>1 DEF Renewed, Job
  <2> QED
    BY <2>1, <2>2, NoJobIsNoJob DEF Job
<1>2. CASE ~(j \in ids /\ Owns(w, j))
  BY <1>2 DEF Renewed
<1> QED
  BY <1>1, <1>2

LEMMA ExitKeeps == ASSUME IInv, NEW w \in Workers, Exit(w) PROVE KeptPending
<1> SUFFICES ASSUME NEW j \in JobIds
             PROVE  /\ jobs'[j] = NoJob <=> jobs[j] = NoJob
                    /\ jobs[j] # NoJob => /\ jobs'[j].key = jobs[j].key
                                          /\ jobs'[j].op = jobs[j].op
                    /\ jobs[j].state = "pending" => jobs'[j].state = "pending"
  BY DEF KeptPending, Kept
<1>1. CASE jobs[j] # NoJob /\ jobs[j].owner = w
  <2>1. jobs[j] \in Job
    BY <1>1, HasState DEF IInv
  <2>2. jobs'[j] = [jobs[j] EXCEPT !.owner = Dead] /\ jobs'[j] \in Job
    BY <1>1, <2>1 DEF Exit, Job
  <2> QED
    BY <2>1, <2>2, NoJobIsNoJob DEF Job
<1>2. CASE ~(jobs[j] # NoJob /\ jobs[j].owner = w)
  BY <1>2 DEF Exit
<1> QED
  BY <1>1, <1>2

\* The purge has nothing to delete.
LEMMA NoPurge ==
  ASSUME NothingPurged, NEW q, NEW S \in PurgeSets(q) PROVE S = {}
<1> DEFINE F == {j \in JobIds : q[j].state = "failed"}
<1>1. IsFiniteSet(JobIds) /\ Cardinality(JobIds) = MaxJobs
  <2>1. 1 \in Int /\ MaxJobs \in Int /\ MaxJobs - 1 + 1 = MaxJobs
    OBVIOUS
  <2>2. IsFiniteSet(1 .. MaxJobs)
           /\ Cardinality(1 .. MaxJobs) = IF 1 > MaxJobs THEN 0 ELSE MaxJobs - 1 + 1
    BY <2>1, FS_Interval
  <2> QED
    BY <2>2 DEF JobIds
<1>2. IsFiniteSet(F) /\ Cardinality(F) <= MaxJobs
  BY <1>1, FS_Subset
<1>3. Cardinality(F) \in Nat
  BY <1>2, FS_CardinalityType
<1>4. S \subseteq F /\ Cardinality(S) = 0
  BY <1>2, <1>3 DEF PurgeSets, NothingPurged
<1>5. IsFiniteSet(S)
  BY <1>2, <1>4, FS_Subset
<1> QED
  BY <1>4, <1>5, FS_EmptySet

LEMMA ReapKeeps ==
  ASSUME IInv, NothingPurged, NEW w \in Workers, ReapAndPurge(w) PROVE KeptPending
<1>1. PICK gone \in PurgeSets(Reaped) : jobs' = Without(Reaped, gone)
  BY DEF ReapAndPurge
<1>2. gone = {}
  BY <1>1, NoPurge
<1> SUFFICES ASSUME NEW j \in JobIds
             PROVE  /\ jobs'[j] = NoJob <=> jobs[j] = NoJob
                    /\ jobs[j] # NoJob => /\ jobs'[j].key = jobs[j].key
                                          /\ jobs'[j].op = jobs[j].op
                    /\ jobs[j].state = "pending" => jobs'[j].state = "pending"
  BY DEF KeptPending, Kept
<1>3. jobs'[j] = Reaped[j]
  BY <1>1, <1>2 DEF Without, Reaped
<1>4. CASE jobs[j].state = "processing"
  <2>1. jobs[j] \in Job
    BY <1>4, HasState DEF IInv
  <2>2. jobs'[j] = jobs[j] \/ jobs'[j] = [jobs[j] EXCEPT !.state = "failed"]
    BY <1>3 DEF Reaped
  <2>3. [jobs[j] EXCEPT !.state = "failed"] \in Job
    BY <2>1 DEF Job
  <2> QED
    BY <1>4, <2>1, <2>2, <2>3, NoJobIsNoJob DEF Job
<1>5. CASE jobs[j].state # "processing"
  BY <1>3, <1>5 DEF Reaped
<1> QED
  BY <1>4, <1>5

LEMMA FailKeeps == ASSUME IInv, NEW w \in Workers, MarkFailed(w) PROVE KeptPending
<1> DEFINE id == cur[w].id
<1>1. id \in JobIds
  BY DEF MarkFailed, IInv, CurOK, Busy, Claim
<1>2. CASE Owns(w, id)
  <2>1. jobs[id] \in Job /\ jobs[id].state = "processing"
    BY <1>1, <1>2, HasState DEF Owns, IInv
  <2>2. Failed(id) \in Job /\ Failed(id).key = jobs[id].key /\ Failed(id).op = jobs[id].op
    BY <2>1 DEF Failed, Job
  <2>3. jobs' = [jobs EXCEPT ![id] = Failed(id)]
    BY <1>2 DEF MarkFailed
  <2>4. jobs'[id] = Failed(id) /\ \A j \in JobIds : j # id => jobs'[j] = jobs[j]
    BY <1>1, <2>3 DEF IInv, TypeOK
  <2> QED
    BY <2>1, <2>2, <2>4, NoJobIsNoJob DEF KeptPending, Kept
<1>3. CASE ~Owns(w, id)
  <2>1. jobs' = jobs
    BY <1>3 DEF MarkFailed
  <2> QED
    BY <2>1, UnchangedKeeps
<1> QED
  BY <1>2, <1>3

LEMMA ExpireCover ==
  ASSUME IInv, IInv', CoverInv, NEW j \in JobIds, Expire(j) PROVE CoverInv'
<1>1. UNCHANGED <<source, emb, chunks, pc, claims, group, cur, snap, outcome>>
  BY DEF Expire, data, locals
<1> QED
  BY <1>1, ExpireKeeps, QuietInv DEF data, InHand

LEMMA ExitCover ==
  ASSUME IInv, IInv', CoverInv, NEW w \in Workers, Exit(w) PROVE CoverInv'
<1>1. UNCHANGED data /\ KeptPending
  BY ExitKeeps DEF Exit
<1>2. ASSUME NEW v \in Workers
      PROVE  /\ v = w => pc'[v] = "reap" /\ claims'[v] = {} /\ group'[v] = {} /\ cur'[v] = NoClaim
             /\ v # w => /\ pc'[v] = pc[v] /\ claims'[v] = claims[v] /\ group'[v] = group[v]
                         /\ cur'[v] = cur[v] /\ snap'[v] = snap[v] /\ outcome'[v] = outcome[v]
  BY ZenonT(40) DEF Exit, IInv, TypeOK
<1> QED
  BY <1>1, <1>2, QuietInv DEF InHand, GroupSteps

\* The transactions of a worker that store nothing and claim nothing.
LEMMA QuietSteps ==
  ASSUME IInv, IInv', CoverInv, NothingPurged, NEW w \in Workers,
         \/ ReapAndPurge(w) \/ EndBatch(w) \/ \E ok \in BOOLEAN : ReadBatch(w, ok)
         \/ RenewGroup(w) \/ Embed(w) \/ (GroupFails(w) /\ pc[w] \in GroupSteps) \/ TxnRead(w)
         \/ \E c \in group[w] : RenewOne(w, c)
         \/ ReadOne(w) \/ MarkFailed(w)
  PROVE  CoverInv'
<1> USE DEF IInv, TypeOK, InHand, Goto, GroupSteps
<1> DEFINE Same(v) == /\ pc'[v] = pc[v] /\ claims'[v] = claims[v] /\ group'[v] = group[v]
                      /\ cur'[v] = cur[v] /\ snap'[v] = snap[v] /\ outcome'[v] = outcome[v]
<1>1. UNCHANGED data
  BY DEF ReapAndPurge, EndBatch, ReadBatch, RenewGroup, Embed, GroupFails, TxnRead, RenewOne,
         ReadOne, MarkFailed, AfterMark
<1>2. \A v \in Workers \ {w} : Same(v)
  <2>1. CASE ReapAndPurge(w) \/ EndBatch(w) \/ RenewGroup(w) \/ Embed(w)
    BY <2>1 DEF ReapAndPurge, EndBatch, RenewGroup, Embed, locals
  <2>2. CASE (\E ok \in BOOLEAN : ReadBatch(w, ok)) \/ GroupFails(w) \/ TxnRead(w)
    BY <2>2 DEF ReadBatch, GroupFails, TxnRead
  <2>3. CASE (\E c \in group[w] : RenewOne(w, c)) \/ ReadOne(w)
    BY <2>3, ZenonT(40) DEF RenewOne, ReadOne
  <2>4. CASE MarkFailed(w)
    BY <2>4 DEF MarkFailed, AfterMark
  <2> QED
    BY <2>1, <2>2, <2>3, <2>4
<1>3. KeptPending
  <2>1. CASE ReapAndPurge(w)
    BY <2>1, ReapKeeps
  <2>2. CASE RenewGroup(w) \/ \E c \in group[w] : RenewOne(w, c)
    BY <2>2, RenewKeeps DEF RenewGroup, RenewOne
  <2>3. CASE MarkFailed(w)
    BY <2>3, FailKeeps
  <2>4. CASE UNCHANGED jobs
    BY <2>4, UnchangedKeeps
  <2> QED
    BY <2>1, <2>2, <2>3, <2>4 DEF EndBatch, ReadBatch, Embed, GroupFails, TxnRead, ReadOne, queue
<1> DEFINE Goal(v) ==
      /\ InHand(v)' \subseteq InHand(v) /\ claims'[v] \subseteq claims[v]
      /\ pc'[v] \in GroupSteps =>
           \/ pc[v] \in GroupSteps /\ group'[v] = group[v] /\ snap'[v] = snap[v]
           \/ snap'[v] = ReadKeys(KeysOf(group'[v]))
      /\ pc'[v] = "oneEmbed" =>
           \/ pc[v] = "oneEmbed" /\ cur'[v] = cur[v] /\ snap'[v] = snap[v]
           \/ snap'[v] = ReadKeys({cur'[v].key})
      /\ pc'[v] = "mark" /\ outcome'[v] =>
           pc[v] = "mark" /\ outcome[v] /\ cur'[v] = cur[v]
<1>4. Goal(w)
  <2>1. CASE ReapAndPurge(w) \/ EndBatch(w)
    BY <2>1 DEF ReapAndPurge, EndBatch, locals
  <2>2. CASE \E ok \in BOOLEAN : ReadBatch(w, ok)
    BY <2>2 DEF ReadBatch
  <2>3. CASE RenewGroup(w) \/ Embed(w)
    BY <2>3 DEF RenewGroup, Embed, locals
  <2>4. CASE GroupFails(w) \/ TxnRead(w)
    BY <2>4 DEF GroupFails, TxnRead
  <2>5. CASE \E c \in group[w] : RenewOne(w, c)
    BY <2>5 DEF RenewOne
  <2>6. CASE ReadOne(w)
    BY <2>6 DEF ReadOne
  <2>7. CASE MarkFailed(w)
    BY <2>7 DEF MarkFailed, AfterMark
  <2> QED
    BY <2>1, <2>2, <2>3, <2>4, <2>5, <2>6, <2>7
<1>5. \A v \in Workers : Goal(v)
  <2> SUFFICES ASSUME NEW v \in Workers, v # w PROVE Goal(v)
    BY <1>4
  <2> QED
    BY <1>2
<1> HIDE DEF IInv, TypeOK, InHand, Goto, GroupSteps
<1> QED
  BY <1>1, <1>3, <1>5, QuietInv

\* A claim starts pending jobs, at a step where the worker has read nothing yet.
LEMMA ClaimCover ==
  ASSUME IInv, IInv', CoverInv, OneWorker, NEW w \in Workers, ClaimBatch(w) PROVE CoverInv'
<1>1. PICK S \in ClaimSets :
        /\ jobs' = [j \in JobIds |->
                       IF j \in S
                       THEN [jobs[j] EXCEPT !.state = "processing", !.owner = w,
                                            !.lease = "running", !.attempts = @ + 1]
                       ELSE jobs[j]]
        /\ claims' = [claims EXCEPT ![w] =
                         {[id |-> j, key |-> jobs[j].key, op |-> jobs[j].op] : j \in S}]
        /\ pc' = [pc EXCEPT ![w] = IF S = {} THEN "reap" ELSE "dispatch"]
  BY DEF ClaimBatch, Goto
<1>2. \A j \in S : j \in JobIds /\ jobs[j] \in Job /\ jobs[j] # NoJob
  BY HasState, NoJobIsNoJob DEF ClaimSets, Claimable, IInv
<1>3. ASSUME NEW j \in JobIds
      PROVE  /\ jobs'[j] = NoJob <=> jobs[j] = NoJob
             /\ jobs[j] # NoJob => jobs'[j].key = jobs[j].key /\ jobs'[j].op = jobs[j].op
  <2>1. CASE j \in S
    <3>1. jobs'[j].state = "processing" /\ jobs'[j].key = jobs[j].key /\ jobs'[j].op = jobs[j].op
      BY <1>1, <1>2, <2>1 DEF Job
    <3> QED
      BY <1>2, <2>1, <3>1 DEF NoJob
  <2>2. CASE j \notin S
    BY <1>1, <2>2
  <2> QED
    BY <2>1, <2>2
<1>4. UNCHANGED <<source, emb, chunks, group, cur>> /\ Workers = {w}
  BY DEF ClaimBatch, data, OneWorker
<1>5. /\ \A k \in Keys : Fresh(k)' = Fresh(k) /\ Bare(k)' = Bare(k)
      /\ NoRowNoVector'
  BY <1>4 DEF Fresh, Bare, Store, LateDeleteSafe, NoRowNoVector, CoverInv
<1>6. \A k \in Keys : Covered(k) => Covered(k)'
  BY <1>3, <1>4 DEF Covered, Queued
<1>7. \A k \in Keys : Safe(k)'
  BY <1>5, <1>6 DEF Safe, CoverInv
<1>8. \A c \in claims'[w] : \E j \in S : c = [id |-> j, key |-> jobs[j].key, op |-> jobs[j].op]
  BY <1>1 DEF IInv, TypeOK
<1>9. SameRow'
  <2> SUFFICES ASSUME NEW c \in InHand(w)', jobs'[c.id] # NoJob PROVE jobs'[c.id].key = c.key
    BY <1>4 DEF SameRow
  <2>1. CASE c \in claims'[w]
    BY <1>2, <1>3, <1>8, <2>1
  <2>2. CASE c \in InHand(w)
    <3>1. c.id \in JobIds
      BY <2>2, InHandTyped DEF IInv, Claim
    <3> QED
      BY <1>3, <2>2, <3>1 DEF CoverInv, SameRow
  <2> QED
    BY <1>4, <2>1, <2>2 DEF InHand
<1>10. OnlyUpserts'
  <2> SUFFICES ASSUME ~WithDelete
               PROVE  /\ \A j \in JobIds : jobs'[j] # NoJob => jobs'[j].op = "upsert"
                      /\ \A c \in claims'[w] : c.op = "upsert"
    BY <1>4 DEF OnlyUpserts
  <2>1. \A j \in JobIds : jobs[j] # NoJob => jobs[j].op = "upsert"
    BY DEF OnlyUpserts, CoverInv
  <2> QED
    BY <1>2, <1>3, <1>8, <2>1
<1>11. pc'[w] \in {"reap", "dispatch"}
  BY <1>1 DEF IInv, TypeOK
<1>12. GroupRead' /\ OneRead' /\ Finished'
  BY <1>4, <1>11 DEF GroupRead, OneRead, Finished, GroupSteps
<1> QED
  BY <1>5, <1>7, <1>9, <1>10, <1>12 DEF CoverInv

\* A completed job was not needed: its row is settled without it.
LEMMA MarkDoneCover ==
  ASSUME IInv, IInv', CoverInv, OneWorker, NEW w \in Workers, MarkDone(w) PROVE CoverInv'
<1> DEFINE gone == {cur[w].id} \cap {j \in JobIds : Owns(w, j)}
<1>1. /\ EnqueueAndDelete({}, "upsert", gone) /\ {} \in SUBSET Keys /\ "upsert" \in Ops
      /\ gone \in SUBSET JobIds /\ \A j \in gone : jobs[j].state = "processing"
  BY DEF MarkDone, Ops, Owns
<1>2. /\ UNCHANGED <<source, emb, chunks, claims, group>> /\ Workers = {w}
      /\ cur'[w] = NoClaim /\ pc'[w] \in {"fallback", "dispatch"}
  BY DEF MarkDone, AfterMark, data, OneWorker, Goto, IInv, TypeOK
<1>3. cur[w] \in Claim /\ cur[w].key \in Keys /\ cur[w] \in InHand(w)
  BY NoJobIsNoJob DEF IInv, CurOK, MarkDone, Busy, Claim, InHand
<1>4. \A j \in gone : jobs[j].key = cur[w].key
  BY <1>1, <1>3 DEF CoverInv, SameRow, NoJob
<1>5. \A v \in Workers : InHand(v)' \subseteq InHand(v) /\ claims'[v] \subseteq claims[v]
  BY <1>2 DEF InHand
<1>6. Settled(cur[w].key)
  BY DEF MarkDone, CoverInv, Finished
<1> HIDE DEF gone
<1>7. SameRow' /\ OnlyUpserts'
  BY <1>1, <1>5, EnqueueSameRow, EnqueueUpserts DEF CoverInv, IInv
<1>8. ASSUME NEW k \in Keys PROVE Safe(k)'
  <2>1. Fresh(k)' = Fresh(k) /\ Bare(k)' = Bare(k)
    BY <1>2 DEF Fresh, Bare, Store, LateDeleteSafe
  <2>2. /\ PendingRight(k) => PendingRight(k)'
        /\ (\A j \in gone : jobs[j].key # k) => (Covered(k) => Covered(k)')
    BY <1>1, <1>2, EnqueueRow DEF IInv
  <2>3. CASE k = cur[w].key
    <3>1. PendingRight(k)' => Covered(k)'
      BY DEF PendingRight, Covered, RightOp, Queued, NoJob
    <3> QED
      BY <1>6, <2>1, <2>2, <2>3, <3>1 DEF Settled, Safe
  <2>4. CASE k # cur[w].key
    BY <1>4, <2>1, <2>2, <2>4 DEF Safe, CoverInv
  <2> QED
    BY <2>3, <2>4
<1>9. NoRowNoVector'
  BY <1>2 DEF NoRowNoVector, CoverInv
<1>10. GroupRead' /\ OneRead' /\ Finished'
  BY <1>2 DEF GroupRead, OneRead, Finished, GroupSteps
<1> QED
  BY <1>7, <1>8, <1>9, <1>10 DEF CoverInv

-----------------------------------------------------------------------------
(* The steps that store vectors.                                           *)

\* phase C and the single transaction: what is stored was read, what is completed was stored.
LEMMA WriteCover ==
  ASSUME IInv, IInv', CoverInv, OneWorker, NEW w \in Workers, pc[w] \in GroupSteps,
         WriteAndMark(w)
  PROVE  CoverInv'
<1> DEFINE done == {c.id : c \in group[w]} \cap {j \in JobIds : Owns(w, j)}
           K == KeysOf(group[w])
<1>1. StoreVectors(K, snap[w], done) /\ Workers = {w}
  BY DEF WriteAndMark, OneWorker
<1>2. K \in SUBSET Keys /\ snap[w] \in [Keys -> Texts \cup {NoRow}] /\ done \in SUBSET JobIds
  BY DEF IInv, TypeOK, KeysOf, Claim
<1>3. \A j \in done : jobs[j].state = "processing" /\ jobs[j].key \in K
  <2> SUFFICES ASSUME NEW c \in group[w], c.id \in JobIds, Owns(w, c.id)
               PROVE  jobs[c.id].state = "processing" /\ jobs[c.id].key \in K
    OBVIOUS
  <2>1. c \in InHand(w) /\ jobs[c.id] # NoJob
    BY DEF InHand, Owns, NoJob
  <2> QED
    BY <2>1 DEF CoverInv, SameRow, Owns, KeysOf
<1>4. \A k \in K : snap[w][k] = source[k] \/ PendingRight(k)
  BY DEF CoverInv, GroupRead, ReadRight
<1>5. /\ claims' = claims /\ cur' = cur /\ group'[w] \subseteq group[w]
      /\ pc'[w] \in {"dispatch", "fallback"}
  BY DEF WriteAndMark, Goto, IInv, TypeOK
<1>6. \A v \in Workers : InHand(v)' \subseteq InHand(v) /\ claims'[v] \subseteq claims[v]
  BY <1>1, <1>5 DEF InHand
<1> HIDE DEF K, done
<1>7. (\A k \in Keys : Safe(k)') /\ SameRow' /\ NoRowNoVector' /\ OnlyUpserts'
  BY <1>1, <1>2, <1>3, <1>4, <1>6, StoreEffect DEF IInv
<1>8. GroupRead' /\ OneRead' /\ Finished'
  BY <1>1, <1>5 DEF GroupRead, OneRead, Finished, GroupSteps
<1> QED
  BY <1>7, <1>8 DEF CoverInv

\* process_one: the upsert or the delete of the one job in hand, or its failure.
LEMMA OneCover ==
  ASSUME IInv, IInv', CoverInv, OneWorker, NEW w \in Workers, NEW ok \in BOOLEAN,
         UpsertOne(w, ok) \/ \E c \in claims[w] : ProcessDelete(w, c, ok)
  PROVE  CoverInv'
<1>1. PICK k \in Keys, read \in [Keys -> Texts \cup {NoRow}] :
        /\ IF ok THEN StoreVectors({k}, read, {}) ELSE UNCHANGED <<data, queue>>
        /\ k = cur'[w].key
        /\ (read[k] = source[k] \/ PendingRight(k)) \/ (read = Unread /\ WithDelete)
  <2>1. CASE UpsertOne(w, ok)
    <3>1. cur[w].key \in Keys /\ snap[w] \in [Keys -> Texts \cup {NoRow}]
      BY <2>1 DEF UpsertOne, IInv, TypeOK, CurOK, Busy, Claim
    <3>2. snap[w][cur[w].key] = source[cur[w].key] \/ PendingRight(cur[w].key)
      BY <2>1 DEF UpsertOne, CoverInv, OneRead, ReadRight
    <3> QED
      BY <2>1, <3>1, <3>2 DEF UpsertOne
  <2>2. CASE \E c \in claims[w] : ProcessDelete(w, c, ok)
    <3>1. PICK c \in claims[w] : ProcessDelete(w, c, ok)
      BY <2>2
    <3>2. c.key \in Keys /\ Unread \in [Keys -> Texts \cup {NoRow}] /\ cur'[w] = c
      BY <3>1 DEF ProcessDelete, IInv, TypeOK, Claim, Unread
    <3>3. WithDelete
      BY <3>1 DEF ProcessDelete, Deletes, CoverInv, OnlyUpserts
    <3> QED
      BY <3>1, <3>2, <3>3 DEF ProcessDelete
  <2> QED
    BY <2>1, <2>2
<1>2. Workers = {w}
  BY DEF OneWorker
<1>3. /\ InHand(w)' \subseteq InHand(w) /\ claims'[w] \subseteq claims[w]
      /\ pc'[w] = "mark" /\ outcome'[w] = ok
  <2>1. CASE UpsertOne(w, ok)
    BY <2>1 DEF UpsertOne, Goto, IInv, TypeOK, InHand
  <2>2. CASE \E c \in claims[w] : ProcessDelete(w, c, ok)
    BY <2>2 DEF ProcessDelete, Goto, IInv, TypeOK, InHand
  <2> QED
    BY <2>1, <2>2
<1>4. CASE ok
  <2>1. StoreVectors({k}, read, {}) /\ {k} \in SUBSET Keys /\ {} \in SUBSET JobIds
    BY <1>1, <1>4
  <2>2. \/ \A i \in {k} : read[i] = source[i] \/ PendingRight(i)
        \/ read = Unread /\ WithDelete
    BY <1>1
  <2>3. (\A i \in {k} : Settled(i)') /\ (\A i \in Keys : Safe(i)')
        /\ SameRow' /\ NoRowNoVector' /\ OnlyUpserts'
    <3>1. \A v \in Workers : InHand(v)' \subseteq InHand(v) /\ claims'[v] \subseteq claims[v]
      BY <1>2, <1>3
    <3>2. \A j \in {} : jobs[j].state = "processing" /\ jobs[j].key \in {k}
      OBVIOUS
    <3>3. TypeOK
      BY DEF IInv
    <3> QED
      BY <2>1, <2>2, <3>1, <3>2, <3>3, StoreEffect, ZenonT(40)
  <2>4. GroupRead' /\ OneRead'
    BY <1>2, <1>3 DEF GroupRead, OneRead, GroupSteps
  <2>5. Finished'
    BY <1>1, <1>2, <2>3 DEF Finished
  <2> QED
    BY <2>3, <2>4, <2>5 DEF CoverInv
<1>5. CASE ~ok
  <2>1. UNCHANGED data /\ UNCHANGED jobs
    BY <1>1, <1>5 DEF queue
  <2>2. KeptPending
    BY <2>1, UnchangedKeeps
  <2> QED
    BY <1>2, <1>3, <1>5, <2>1, <2>2, QuietInv DEF GroupSteps
<1> QED
  BY <1>4, <1>5

-----------------------------------------------------------------------------
(* The users' statements: the trigger queues the row with the right op.    *)

LEMMA UserCover == ASSUME IInv, IInv', CoverInv, User PROVE CoverInv'
<1>1. PICK k \in Keys, x \in Texts \cup {NoRow}, op \in Ops :
        /\ UserStatement(k, x, op)
        /\ op = (IF x = NoRow THEN "delete" ELSE "upsert")
        /\ x = NoRow => WithDelete
        /\ \/ emb' = emb /\ (x = NoRow => Mode # "inplace")
           \/ emb' = [emb EXCEPT ![k] = NoVector]
  <2>1. PICK k \in Keys, t \in Texts : Insert(k, t) \/ Update(k, t) \/ Delete(k)
    BY DEF User, Texts
  <2>2. t # NoRow /\ {"upsert", "delete"} = Ops
    BY DEF Texts, Ops
  <2>3. CASE Insert(k, t) \/ Update(k, t)
    BY <2>2, <2>3 DEF Insert, Update
  <2>4. CASE Delete(k)
    BY <2>2, <2>4 DEF Delete
  <2> QED
    BY <2>1, <2>3, <2>4
<1>2. /\ EnqueueAndDelete({k}, op, {}) /\ {k} \in SUBSET Keys /\ {} \in SUBSET JobIds
      /\ source' = [source EXCEPT ![k] = x]
      /\ UNCHANGED <<chunks, pc, claims, group, cur, snap, outcome>>
  BY <1>1 DEF UserStatement, locals
<1>3. /\ source'[k] = x /\ op = RightOp(k)'
      /\ \A i \in Keys \ {k} : source'[i] = source[i] /\ Store'[i] = Store[i]
  BY <1>1, <1>2 DEF IInv, TypeOK, RightOp, Store
<1>4. ASSUME NEW i \in Keys
      PROVE  /\ i = k => PendingRight(i)'
             /\ i # k => /\ PendingRight(i) => PendingRight(i)'
                         /\ Covered(i) => Covered(i)'
                         /\ Fresh(i)' = Fresh(i) /\ Bare(i)' = Bare(i)
  <2>1. /\ i \in {k} => PendingRight(i)'
        /\ i \notin {k} => (PendingRight(i) => PendingRight(i)')
        /\ (i \notin {k} /\ \A j \in {} : jobs[j].key # i) => (Covered(i) => Covered(i)')
    BY <1>2, <1>3, EnqueueRow DEF IInv
  <2>2. i # k => Fresh(i)' = Fresh(i) /\ Bare(i)' = Bare(i)
    BY <1>3 DEF Fresh, Bare, LateDeleteSafe
  <2> QED
    BY <2>1, <2>2
<1>5. \A i \in Keys : Safe(i)'
  <2>1. \A i \in Keys : PendingRight(i)' => Covered(i)'
    BY DEF PendingRight, Covered, RightOp, Queued, NoJob
  <2> QED
    BY <1>4, <2>1 DEF Safe, CoverInv
<1>6. \A i \in Keys : Settled(i) => Settled(i)'
  BY <1>4 DEF Settled
<1>7. \A w \in Workers, i \in Keys : ReadRight(w, i) => ReadRight(w, i)'
  BY <1>2, <1>3, <1>4 DEF ReadRight
<1>8. SameRow' /\ OnlyUpserts'
  <2>1. \A w \in Workers : InHand(w)' \subseteq InHand(w) /\ claims'[w] \subseteq claims[w]
    BY <1>2 DEF InHand
  <2>2. ~WithDelete => op = "upsert"
    BY <1>1
  <2> QED
    BY <1>2, <2>1, <2>2, EnqueueSameRow, EnqueueUpserts DEF IInv, CoverInv
<1>9. NoRowNoVector'
  <2> SUFFICES ASSUME Mode = "inplace", NEW i \in Keys, source'[i] = NoRow
               PROVE  emb'[i] = NoVector
    BY DEF NoRowNoVector
  <2>1. CASE i = k
    BY <1>1, <1>3, <2>1 DEF IInv, TypeOK
  <2>2. CASE i # k
    BY <1>1, <1>3, <2>2 DEF IInv, TypeOK, CoverInv, NoRowNoVector
  <2> QED
    BY <2>1, <2>2
<1>10. GroupRead'
  <2>1. \A w \in Workers : KeysOf(group[w]) \subseteq Keys
    BY DEF IInv, TypeOK, KeysOf, Claim
  <2> QED
    BY <1>2, <1>7, <2>1 DEF GroupRead, CoverInv
<1>11. OneRead' /\ Finished'
  <2>1. \A w \in Workers : pc[w] \in {"oneEmbed", "mark"} => cur[w].key \in Keys
    BY DEF IInv, CurOK, Busy, Claim
  <2> QED
    BY <1>2, <1>6, <1>7, <2>1 DEF OneRead, Finished, CoverInv
<1> QED
  BY <1>5, <1>8, <1>9, <1>10, <1>11 DEF CoverInv

-----------------------------------------------------------------------------
(* The theorems.                                                           *)

LEMMA InitCover == Init => CoverInv
<1> SUFFICES ASSUME Init PROVE CoverInv
  OBVIOUS
<1>1. \A k \in Keys : Fresh(k)
  BY DEF Init, Fresh, Store
<1>2. SameRow /\ GroupRead /\ OneRead /\ Finished
  BY DEF Init, SameRow, InHand, GroupRead, GroupSteps, OneRead, Finished
<1>3. NoRowNoVector /\ OnlyUpserts
  BY DEF Init, NoRowNoVector, OnlyUpserts
<1> QED
  BY <1>1, <1>2, <1>3 DEF CoverInv, Safe

LEMMA NextCover ==
  ASSUME OneWorker, NothingPurged, IInv, IInv', CoverInv, [Next]_vars PROVE CoverInv'
<1>1. CASE User
  BY <1>1, UserCover
<1>2. CASE \E j \in JobIds : Expire(j)
  BY <1>2, ExpireCover
<1>3. ASSUME NEW w \in Workers, Worker(w) PROVE CoverInv'
  <2>1. CASE \/ ReapAndPurge(w) \/ EndBatch(w) \/ \E ok \in BOOLEAN : ReadBatch(w, ok)
             \/ RenewGroup(w) \/ Embed(w) \/ TxnRead(w)
             \/ \E c \in group[w] : RenewOne(w, c)
             \/ ReadOne(w) \/ MarkFailed(w)
    BY <2>1, QuietSteps
  <2>2. CASE WriteBatch(w) \/ TxnCommit(w)
    <3>1. pc[w] \in GroupSteps /\ (WriteAndMark(w) \/ GroupFails(w))
      BY <2>2 DEF WriteBatch, TxnCommit, GroupSteps
    <3> QED
      BY <3>1, WriteCover, QuietSteps
  <2>3. CASE ClaimBatch(w) \/ MarkDone(w)
    BY <2>3, ClaimCover, MarkDoneCover
  <2>4. CASE \/ \E c \in claims[w], ok \in BOOLEAN : ProcessDelete(w, c, ok)
             \/ \E ok \in BOOLEAN : UpsertOne(w, ok)
    BY <2>4, OneCover
  <2>5. CASE MarkRaises(w)
    BY <2>5, ExitCover DEF MarkRaises
  <2> QED
    BY <1>3, <2>1, <2>2, <2>3, <2>4, <2>5 DEF Worker
<1>4. CASE \E w \in Workers : Crash(w)
  BY <1>4, ExitCover DEF Crash
<1>5. CASE UNCHANGED vars
  <2>1. KeptPending
    BY <1>5, UnchangedKeeps DEF vars
  <2> QED
    BY <1>5, <2>1, QuietInv DEF vars, data, InHand
<1> QED
  BY <1>1, <1>2, <1>3, <1>4, <1>5 DEF Next

LEMMA Covering == ASSUME OneWorker, NothingPurged PROVE Spec => []CoverInv
<1>1. IInv /\ IInv' /\ CoverInv /\ [Next]_vars => CoverInv'
  BY NextCover
<1> QED
  BY <1>1, InitCover, Invariance, PTL DEF Spec

\* A vector of a text that its row no longer has, a removed document still searchable, is
\* never left without a job: whatever the users, the endpoint and the crashes do, in all
\* three modes of storage, as long as there is one worker and no dead letter is purged.
THEOREM NoOrphan == ASSUME OneWorker, NothingPurged PROVE Spec => []NoOrphanVector
<1>1. CoverInv => NoOrphanVector
  BY DEF CoverInv, Safe, Bare, NoOrphanVector
<1> QED
  BY <1>1, Covering, PTL

\* No write to the source is forgotten, where a delete that runs late is safe: every row's
\* embedding is up to date or has a job, or a dead letter, that says it is not.
THEOREM AlwaysCovered ==
  ASSUME OneWorker, NothingPurged, LateDeleteSafe PROVE Spec => []Coverage
<1>1. CoverInv => Coverage
  BY DEF CoverInv, Safe, Bare, Coverage
<1> QED
  BY <1>1, Covering, PTL
-----------------------------------------------------------------------------
(***************************************************************************)
(* DeadLetterBound: what the purge leaves of the dead letters, and how     *)
(* many the workers can add before they purge again.  A batch is counted   *)
(* from its claim: every job of it in a worker's hands may become a dead   *)
(* letter, and leaves the hands when it does.                              *)
(***************************************************************************)

Working == {w \in Workers : pc[w] # "claim"}
Hands == {p \in Workers \X JobIds : p[2] \in Held(p[1])}

\* Where the worker's locals are empty, and that a job is in one of them only.
HandsOK(w) ==
    /\ Cardinality(Held(w)) <= Batch
    /\ pc[w] \in {"reap", "claim"} => claims[w] = {}
    /\ pc[w] \in {"reap", "claim", "dispatch"} => group[w] = {}
    /\ pc[w] \notin Busy => cur[w] = NoClaim
    /\ claims[w] \cap group[w] = {}
    /\ \A c, d \in claims[w] \cup group[w] : c.id = d.id => c = d
    /\ pc[w] \in Busy => \A c \in claims[w] \cup group[w] : c.id # cur[w].id

LettersOK ==
    Cardinality(InState("failed")) + Cardinality(Hands) <= Keep + Batch * Cardinality(Working)

DeadInv == (\A w \in Workers : HandsOK(w)) /\ LettersOK

-----------------------------------------------------------------------------
(* Counting.                                                               *)

LEMMA FiniteJobs ==
  \A S \in SUBSET JobIds : IsFiniteSet(S) /\ Cardinality(S) \in Nat
<1>1. IsFiniteSet(JobIds)
  BY FS_Interval DEF JobIds
<1> QED
  BY <1>1, FS_Subset, FS_CardinalityType

LEMMA FiniteHands ==
  ASSUME IsFiniteSet(Workers)
  PROVE  /\ \A S \in SUBSET Workers : IsFiniteSet(S) /\ Cardinality(S) \in Nat
         /\ \A P \in SUBSET (Workers \X JobIds) : IsFiniteSet(P) /\ Cardinality(P) \in Nat
<1>1. IsFiniteSet(JobIds)
  BY FiniteJobs
<1>2. IsFiniteSet(Workers \X JobIds)
  BY <1>1, FS_Product
<1> QED
  BY <1>2, FS_Subset, FS_CardinalityType

\* At most Batch jobs for each of the workers W.
LEMMA PairsBound ==
  ASSUME NEW W, IsFiniteSet(W), NEW H \in SUBSET (W \X JobIds),
         \A w \in W : Cardinality({j \in JobIds : <<w, j>> \in H}) <= Batch
  PROVE  Cardinality(H) <= Batch * Cardinality(W)
<1> DEFINE Of(w) == {j \in JobIds : <<w, j>> \in H}
           g == [w \in W |-> CHOOSE f \in [Of(w) -> 1 .. Batch] :
                               \A i, j \in Of(w) : f[i] = f[j] => i = j]
           h == [p \in H |-> <<g[p[1]][p[2]], p[1]>>]
<1>1. ASSUME NEW w \in W
      PROVE  g[w] \in [Of(w) -> 1 .. Batch] /\ \A i, j \in Of(w) : g[w][i] = g[w][j] => i = j
  <2>1. IsFiniteSet(Of(w)) /\ Cardinality(Of(w)) \in Nat /\ Cardinality(Of(w)) <= Batch
    BY FiniteJobs
  <2>2. IsFiniteSet(1 .. Cardinality(Of(w)))
          /\ Cardinality(1 .. Cardinality(Of(w))) = Cardinality(Of(w))
    BY <2>1, FS_Interval
  <2>3. ExistsBijection(Of(w), 1 .. Cardinality(Of(w)))
    BY <2>1, <2>2, FS_SameCardinalityBij
  <2>4. PICK f \in [Of(w) -> 1 .. Cardinality(Of(w))] :
          \A i, j \in Of(w) : f[i] = f[j] => i = j
    BY <2>3 DEF ExistsBijection, Bijection, Injection, IsInjective
  <2>5. f \in [Of(w) -> 1 .. Batch]
    BY <2>1, <2>4
  <2> QED
    BY <2>4, <2>5
<1>2. h \in Injection(H, (1 .. Batch) \X W)
  <2>1. ASSUME NEW p \in H PROVE p[1] \in W /\ p[2] \in Of(p[1]) /\ p = <<p[1], p[2]>>
    OBVIOUS
  <2> HIDE DEF g, Of
  <2>2. h \in [H -> (1 .. Batch) \X W]
    BY <1>1, <2>1
  <2>3. ASSUME NEW p \in H, NEW q \in H, h[p] = h[q] PROVE p = q
    <3>1. p[1] = q[1] /\ g[p[1]][p[2]] = g[p[1]][q[2]]
      BY <2>3
    <3>2. p[2] = q[2]
      BY <1>1, <2>1, <3>1
    <3> QED
      BY <2>1, <3>1, <3>2
  <2> QED
    BY <2>2, <2>3 DEF Injection, IsInjective
<1>3. IsFiniteSet((1 .. Batch) \X W)
        /\ Cardinality((1 .. Batch) \X W) = Cardinality(1 .. Batch) * Cardinality(W)
  <2>1. IsFiniteSet(1 .. Batch)
    BY FS_Interval
  <2> QED
    BY <2>1, FS_Product
<1>4. Cardinality(1 .. Batch) = Batch
  BY FS_Interval
<1> HIDE DEF h
<1>5. Cardinality(H) <= Cardinality((1 .. Batch) \X W)
  BY <1>2, <1>3, FS_Injection
<1> QED
  BY <1>3, <1>4, <1>5

LEMMA BatchTimes ==
  /\ \A a, b \in Nat : a <= b => Batch * a <= Batch * b
  /\ \A a \in Nat : Batch * a \in Nat /\ Batch * (a + 1) = Batch * a + Batch
<1>1. \A b \in Nat : \A a, c \in Nat : a <= c => b * a <= b * c
  BY Z3
<1>2. \A b, a \in Nat : b * a \in Nat /\ b * (a + 1) = b * a + b
  BY Z3
<1> QED
  BY <1>1, <1>2

-----------------------------------------------------------------------------
(* What a worker has in hand.                                              *)

\* The locals of a worker are its own.
LEMMA OtherWorkers ==
  ASSUME IInv, NEW w \in Workers, Worker(w) \/ Crash(w), NEW v \in Workers, v # w
  PROVE  pc'[v] = pc[v] /\ claims'[v] = claims[v] /\ group'[v] = group[v] /\ cur'[v] = cur[v]
<1> USE DEF IInv, TypeOK, Goto
<1>1. CASE ReapAndPurge(w) \/ EndBatch(w) \/ RenewGroup(w) \/ Embed(w)
  BY <1>1 DEF ReapAndPurge, EndBatch, RenewGroup, Embed, locals
<1>2. CASE (\E ok \in BOOLEAN : ReadBatch(w, ok)) \/ GroupFails(w) \/ TxnRead(w)
  BY <1>2 DEF ReadBatch, GroupFails, TxnRead
<1>3. CASE (\E c \in group[w] : RenewOne(w, c)) \/ ReadOne(w)
  BY <1>3 DEF RenewOne, ReadOne
<1>4. CASE MarkFailed(w) \/ MarkDone(w)
  BY <1>4 DEF MarkFailed, MarkDone, AfterMark
<1>5. CASE ClaimBatch(w) \/ WriteAndMark(w)
  BY <1>5 DEF ClaimBatch, WriteAndMark
<1>6. CASE (\E c \in claims[w], ok \in BOOLEAN : ProcessDelete(w, c, ok))
           \/ (\E ok \in BOOLEAN : UpsertOne(w, ok))
  BY <1>6 DEF ProcessDelete, UpsertOne
<1>7. CASE MarkRaises(w) \/ Crash(w)
  BY <1>7 DEF MarkRaises, Crash, Exit
<1> QED
  BY <1>1, <1>2, <1>3, <1>4, <1>5, <1>6, <1>7 DEF Worker, WriteBatch, TxnCommit

\* Apart from a claim, nothing comes into a worker's hands.
LEMMA HandsShrink ==
  ASSUME IInv, IInv', NEW w \in Workers, HandsOK(w), Worker(w) \/ Crash(w), ~ClaimBatch(w)
  PROVE  HandsOK(w)' /\ Held(w)' \subseteq Held(w)
<1> DEFINE Local ==
      /\ pc[w] \in {"reap", "claim"} => claims[w] = {}
      /\ pc[w] \in {"reap", "claim", "dispatch"} => group[w] = {}
      /\ pc[w] \notin Busy => cur[w] = NoClaim
      /\ claims[w] \cap group[w] = {}
      /\ \A c, d \in claims[w] \cup group[w] : c.id = d.id => c = d
      /\ pc[w] \in Busy => \A c \in claims[w] \cup group[w] : c.id # cur[w].id
<1>1. Local' /\ Held(w)' \subseteq Held(w)
  <2> USE DEF IInv, TypeOK, CurOK, Goto, HandsOK, Held, Busy
  <2>1. CASE ReapAndPurge(w) \/ EndBatch(w)
    BY <2>1 DEF ReapAndPurge, EndBatch, locals
  <2>2. CASE RenewGroup(w) \/ Embed(w)
    BY <2>2 DEF RenewGroup, Embed, locals
  <2>3. CASE \E ok \in BOOLEAN : ReadBatch(w, ok)
    BY <2>3 DEF ReadBatch
  <2>4. CASE TxnRead(w)
    BY <2>4 DEF TxnRead
  <2>5. CASE (WriteAndMark(w) \/ GroupFails(w)) /\ pc[w] \in {"write", "txnEmbed"}
    BY <2>5 DEF WriteAndMark, GroupFails
  <2>6. CASE \E c \in group[w] : RenewOne(w, c)
    BY <2>6, NoJobIsNoJob DEF RenewOne
  <2>7. CASE ReadOne(w) \/ \E ok \in BOOLEAN : UpsertOne(w, ok)
    BY <2>7 DEF ReadOne, UpsertOne
  <2>8. CASE \E c \in claims[w], ok \in BOOLEAN : ProcessDelete(w, c, ok)
    BY <2>8, NoJobIsNoJob DEF ProcessDelete
  <2>9. CASE MarkFailed(w) \/ MarkDone(w)
    BY <2>9 DEF MarkFailed, MarkDone, AfterMark
  <2>10. CASE MarkRaises(w) \/ Crash(w)
    BY <2>10 DEF MarkRaises, Crash, Exit
  <2> HIDE DEF IInv, TypeOK, CurOK, Goto, HandsOK, Held, Busy, Local
  <2>11. \/ ReapAndPurge(w) \/ EndBatch(w) \/ RenewGroup(w) \/ Embed(w) \/ TxnRead(w)
         \/ \E ok \in BOOLEAN : ReadBatch(w, ok)
         \/ (WriteAndMark(w) \/ GroupFails(w)) /\ pc[w] \in {"write", "txnEmbed"}
         \/ \E c \in group[w] : RenewOne(w, c)
         \/ ReadOne(w) \/ \E ok \in BOOLEAN : UpsertOne(w, ok)
         \/ \E c \in claims[w], ok \in BOOLEAN : ProcessDelete(w, c, ok)
         \/ MarkFailed(w) \/ MarkDone(w) \/ MarkRaises(w) \/ Crash(w)
    BY DEF Worker, WriteBatch, TxnCommit
  <2> QED
    BY <2>1, <2>2, <2>3, <2>4, <2>5, <2>6, <2>7, <2>8, <2>9, <2>10, <2>11
<1>2. Cardinality(Held(w)') <= Batch
  <2>1. Held(w) \subseteq JobIds
    BY DEF Held, IInv, TypeOK, Claim
  <2>2. IsFiniteSet(Held(w)) /\ Cardinality(Held(w)) <= Batch /\ Cardinality(Held(w)) \in Nat
    BY <2>1, FiniteJobs DEF HandsOK
  <2>3. Cardinality(Held(w)') <= Cardinality(Held(w)) /\ Cardinality(Held(w)') \in Nat
    BY <1>1, <2>1, <2>2, FiniteJobs, FS_Subset
  <2> QED
    BY <2>2, <2>3
<1> QED
  BY <1>1, <1>2 DEF HandsOK

-----------------------------------------------------------------------------
(* The dead letters.                                                       *)

\* A step that makes no dead letter, takes no claim and ends no wait at "claim".
LEMMA FewerLetters ==
  ASSUME IInv, IInv', IsFiniteSet(Workers), LettersOK,
         InState("failed")' \subseteq InState("failed"),
         \A w \in Workers : Held(w)' \subseteq Held(w), Working \subseteq Working'
  PROVE  LettersOK'
<1>1. Hands' \subseteq Hands
  BY DEF Hands
<1>2. /\ IsFiniteSet(Hands) /\ IsFiniteSet(InState("failed")) /\ IsFiniteSet(Working')
      /\ Cardinality(Hands) \in Nat /\ Cardinality(InState("failed")) \in Nat
      /\ Cardinality(Working) \in Nat /\ Cardinality(Working') \in Nat
  BY FiniteHands, FiniteJobs DEF Hands, InState, Working
<1>3. /\ Cardinality(Hands') <= Cardinality(Hands) /\ Cardinality(Hands') \in Nat
      /\ Cardinality(InState("failed")') <= Cardinality(InState("failed"))
      /\ Cardinality(InState("failed")') \in Nat
  BY <1>1, <1>2, FS_Subset, FS_CardinalityType
<1>4. Cardinality(Working) <= Cardinality(Working')
  BY <1>2, FS_Subset
<1>5. Batch * Cardinality(Working) <= Batch * Cardinality(Working')
  BY <1>2, <1>4, BatchTimes
<1>6. Batch * Cardinality(Working) \in Nat /\ Batch * Cardinality(Working') \in Nat
  BY <1>2, BatchTimes
<1> DEFINE b == Batch * Cardinality(Working)
           c == Batch * Cardinality(Working')
<1>7. Cardinality(InState("failed")) + Cardinality(Hands) <= Keep + b
  BY DEF LettersOK
<1>8. Cardinality(InState("failed")') + Cardinality(Hands') <= Keep + c
  <2> HIDE DEF b, c
  <2>1. b <= c /\ b \in Nat /\ c \in Nat
    BY <1>5, <1>6 DEF b, c
  <2> QED
    BY <1>2, <1>3, <1>7, <2>1
<1> QED
  BY <1>8 DEF LettersOK

\* The trigger and the completions make no dead letter.
LEMMA EnqueueNoLetter ==
  ASSUME TypeOK, NEW K \in SUBSET Keys, NEW op \in Ops, NEW gone \in SUBSET JobIds,
         EnqueueAndDelete(K, op, gone), \A j \in gone : jobs[j].state = "processing"
  PROVE  InState("failed")' \subseteq InState("failed")
<1> SUFFICES ASSUME NEW j \in JobIds, jobs'[j].state = "failed" PROVE jobs[j].state = "failed"
  BY DEF InState
<1>1. jobs'[j] # NoJob
  BY DEF NoJob
<1>2. JobsKept(K, op, gone) /\ NewJobs(op, gone)
  BY EnqueueEffect
<1>3. jobs[j] # NoJob /\ j \notin gone
  BY <1>1, <1>2 DEF NewJobs
<1> QED
  BY <1>2, <1>3 DEF JobsKept

LEMMA StoreNoLetter ==
  ASSUME TypeOK, NEW K \in SUBSET Keys, NEW read \in [Keys -> Texts \cup {NoRow}],
         NEW gone \in SUBSET JobIds, StoreVectors(K, read, gone),
         \A j \in gone : jobs[j].state = "processing"
  PROVE  InState("failed")' \subseteq InState("failed")
<1>1. PICK H \in SUBSET Keys : EnqueueAndDelete(H, "upsert", gone)
  BY StoreVectorsType
<1> QED
  BY <1>1, EnqueueNoLetter DEF Ops

\* The transactions that make no dead letter: all but the reap and mark_failed.
LEMMA NoLetter ==
  ASSUME IInv, NEW w \in Workers, Worker(w) \/ Crash(w),
         ~ReapAndPurge(w), ~MarkFailed(w)
  PROVE  InState("failed")' \subseteq InState("failed")
<1> SUFFICES ASSUME NEW j \in JobIds, jobs'[j].state = "failed" PROVE jobs[j].state = "failed"
  BY DEF InState
<1>1. CASE ClaimBatch(w)
  <2>1. PICK S \in ClaimSets :
          jobs' = [i \in JobIds |->
                     IF i \in S
                     THEN [jobs[i] EXCEPT !.state = "processing", !.owner = w,
                                          !.lease = "running", !.attempts = @ + 1]
                     ELSE jobs[i]]
    BY <1>1 DEF ClaimBatch
  <2>2. j \in S => jobs[j] \in Job
    BY HasState DEF ClaimSets, Claimable, IInv
  <2>3. j \notin S
    BY <2>1, <2>2 DEF Job
  <2> QED
    BY <2>1, <2>3
<1>2. CASE RenewGroup(w) \/ \E c \in group[w] : RenewOne(w, c)
  <2>1. PICK ids \in {{c.id : c \in group[w]}} \cup {{c.id} : c \in group[w]} :
          jobs' = Renewed(w, ids)
    BY <1>2 DEF RenewGroup, RenewOne
  <2>2. CASE j \in ids /\ Owns(w, j)
    <3>1. jobs[j] \in Job
      BY <2>2, HasState DEF Owns, IInv
    <3> QED
      BY <2>1, <2>2, <3>1 DEF Renewed, Job
  <2>3. CASE ~(j \in ids /\ Owns(w, j))
    BY <2>1, <2>3 DEF Renewed
  <2> QED
    BY <2>2, <2>3
<1>3. CASE MarkRaises(w) \/ Crash(w)
  <2>1. CASE jobs[j] # NoJob /\ jobs[j].owner = w
    <3>1. jobs[j] \in Job
      BY <2>1, HasState DEF IInv
    <3> QED
      BY <1>3, <2>1, <3>1 DEF MarkRaises, Crash, Exit, Job
  <2>2. CASE ~(jobs[j] # NoJob /\ jobs[j].owner = w)
    BY <1>3, <2>2 DEF MarkRaises, Crash, Exit
  <2> QED
    BY <2>1, <2>2
<1>4. CASE \E c \in claims[w], ok \in BOOLEAN : ProcessDelete(w, c, ok)
  <2>1. PICK c \in claims[w], ok \in BOOLEAN : ProcessDelete(w, c, ok)
    BY <1>4
  <2>2. {c.key} \in SUBSET Keys /\ {} \in SUBSET JobIds /\ TypeOK
    BY DEF IInv, TypeOK, Claim
  <2>3. Unread \in [Keys -> Texts \cup {NoRow}]
    BY DEF Unread
  <2>4. StoreVectors({c.key}, Unread, {}) \/ jobs' = jobs
    BY <2>1 DEF ProcessDelete, queue
  <2>5. StoreVectors({c.key}, Unread, {}) => InState("failed")' \subseteq InState("failed")
    BY <2>2, <2>3, StoreNoLetter
  <2> QED
    BY <2>4, <2>5 DEF InState
<1>5. CASE \E ok \in BOOLEAN : UpsertOne(w, ok)
  <2>1. cur[w].key \in Keys
    BY <1>5 DEF UpsertOne, IInv, CurOK, Busy, Claim
  <2>2. {cur[w].key} \in SUBSET Keys /\ {} \in SUBSET JobIds /\ TypeOK
    BY <2>1 DEF IInv
  <2>3. snap[w] \in [Keys -> Texts \cup {NoRow}]
    BY DEF IInv, TypeOK
  <2>4. StoreVectors({cur[w].key}, snap[w], {}) \/ jobs' = jobs
    BY <1>5 DEF UpsertOne, queue
  <2>5. StoreVectors({cur[w].key}, snap[w], {}) => InState("failed")' \subseteq InState("failed")
    BY <2>2, <2>3, StoreNoLetter
  <2> QED
    BY <2>4, <2>5 DEF InState
<1>6. CASE WriteAndMark(w)
  <2> DEFINE done == {c.id : c \in group[w]} \cap {i \in JobIds : Owns(w, i)}
  <2>1. StoreVectors(KeysOf(group[w]), snap[w], done)
    BY <1>6 DEF WriteAndMark
  <2>2. /\ KeysOf(group[w]) \in SUBSET Keys /\ snap[w] \in [Keys -> Texts \cup {NoRow}]
        /\ done \in SUBSET JobIds /\ \A i \in done : jobs[i].state = "processing"
    BY DEF IInv, TypeOK, KeysOf, Claim, Owns
  <2> HIDE DEF done
  <2>3. InState("failed")' \subseteq InState("failed")
    BY <2>1, <2>2, StoreNoLetter DEF IInv
  <2> QED
    BY <2>3 DEF InState
<1>7. CASE MarkDone(w)
  <2> DEFINE gone == {cur[w].id} \cap {i \in JobIds : Owns(w, i)}
  <2>1. /\ EnqueueAndDelete({}, "upsert", gone) /\ {} \in SUBSET Keys /\ "upsert" \in Ops
        /\ gone \in SUBSET JobIds /\ \A i \in gone : jobs[i].state = "processing"
    BY <1>7 DEF MarkDone, Ops, Owns
  <2> HIDE DEF gone
  <2>2. InState("failed")' \subseteq InState("failed")
    BY <2>1, EnqueueNoLetter DEF IInv
  <2> QED
    BY <2>2 DEF InState
<1>8. CASE \/ EndBatch(w) \/ Embed(w) \/ TxnRead(w) \/ ReadOne(w) \/ GroupFails(w)
           \/ \E ok \in BOOLEAN : ReadBatch(w, ok)
  BY <1>8 DEF EndBatch, Embed, TxnRead, ReadOne, GroupFails, ReadBatch, queue
<1> QED
  BY <1>1, <1>2, <1>3, <1>4, <1>5, <1>6, <1>7, <1>8 DEF Worker, WriteBatch, TxnCommit

\* Only the purge lets a worker wait for its next claim.
LEMMA StaysWorking ==
  ASSUME IInv, NEW w \in Workers, Worker(w) \/ Crash(w), ~ReapAndPurge(w)
  PROVE  pc'[w] # "claim"
<1> USE DEF IInv, TypeOK, Goto
<1>1. CASE EndBatch(w) \/ RenewGroup(w) \/ Embed(w) \/ ClaimBatch(w)
  BY <1>1 DEF EndBatch, RenewGroup, Embed, ClaimBatch
<1>2. CASE (\E ok \in BOOLEAN : ReadBatch(w, ok)) \/ GroupFails(w) \/ TxnRead(w)
  BY <1>2 DEF ReadBatch, GroupFails, TxnRead
<1>3. CASE (\E c \in group[w] : RenewOne(w, c)) \/ ReadOne(w)
  BY <1>3 DEF RenewOne, ReadOne
<1>4. CASE MarkFailed(w) \/ MarkDone(w) \/ MarkRaises(w) \/ Crash(w)
  BY <1>4 DEF MarkFailed, MarkDone, MarkRaises, Crash, Exit, AfterMark
<1>5. CASE WriteAndMark(w)
  BY <1>5 DEF WriteAndMark
<1>6. CASE (\E c \in claims[w], ok \in BOOLEAN : ProcessDelete(w, c, ok))
           \/ (\E ok \in BOOLEAN : UpsertOne(w, ok))
  BY <1>6 DEF ProcessDelete, UpsertOne
<1> QED
  BY <1>1, <1>2, <1>3, <1>4, <1>5, <1>6 DEF Worker, WriteBatch, TxnCommit

LEMMA OthersHands ==
  ASSUME IInv, NEW w \in Workers, Worker(w) \/ Crash(w), NEW v \in Workers, v # w
  PROVE  pc'[v] = pc[v] /\ Held(v)' = Held(v) /\ (HandsOK(v) => HandsOK(v)')
BY OtherWorkers DEF Held, HandsOK

\* A claim takes at most a batch, and its worker starts to count.
LEMMA ClaimDead ==
  ASSUME IInv, IInv', IsFiniteSet(Workers), DeadInv, NEW w \in Workers, ClaimBatch(w)
  PROVE  HandsOK(w)' /\ LettersOK'
<1>1. PICK S \in ClaimSets :
        /\ claims' = [claims EXCEPT ![w] =
                        {[id |-> j, key |-> jobs[j].key, op |-> jobs[j].op] : j \in S}]
        /\ Goto(w, IF S = {} THEN "reap" ELSE "dispatch")
  BY DEF ClaimBatch
<1>2. /\ pc[w] = "claim" /\ pc'[w] = (IF S = {} THEN "reap" ELSE "dispatch")
      /\ claims[w] = {} /\ group[w] = {} /\ cur[w] = NoClaim
      /\ group'[w] = {} /\ cur'[w] = NoClaim
      /\ claims'[w] = {[id |-> j, key |-> jobs[j].key, op |-> jobs[j].op] : j \in S}
  BY <1>1 DEF ClaimBatch, DeadInv, HandsOK, Busy, Goto, IInv, TypeOK
<1>3. S \subseteq JobIds /\ Cardinality(S) <= Batch
  <2> DEFINE C == {j \in JobIds : Claimable(j)}
  <2>1. S \subseteq C /\ C \in SUBSET JobIds
          /\ Cardinality(S) = IF Cardinality(C) < Batch THEN Cardinality(C) ELSE Batch
    BY DEF ClaimSets
  <2>2. Cardinality(C) \in Nat
    BY <2>1, FiniteJobs
  <2> QED
    BY <2>1, <2>2
<1>4. Held(w)' = S /\ Held(w) = {}
  <2>1. Held(w)' = {c.id : c \in claims'[w]} /\ Held(w) = {}
    BY <1>2 DEF Held
  <2>2. ASSUME NEW j \in JobIds PROVE j \in {c.id : c \in claims'[w]} <=> j \in S
    <3>1. ASSUME j \in S PROVE j \in {c.id : c \in claims'[w]}
      <4>1. [id |-> j, key |-> jobs[j].key, op |-> jobs[j].op] \in claims'[w]
        BY <1>2, <3>1
      <4> QED
        BY <4>1
    <3>2. ASSUME NEW c \in claims'[w] PROVE c.id \in S
      BY <1>2
    <3> QED
      BY <3>1, <3>2
  <2>3. {c.id : c \in claims'[w]} \subseteq JobIds
    BY <1>2, <1>3
  <2> QED
    BY <1>3, <2>1, <2>2, <2>3
<1>5. HandsOK(w)'
  BY <1>2, <1>3, <1>4 DEF HandsOK, Busy
<1>6. InState("failed")' \subseteq InState("failed")
  BY <1>2, NoLetter DEF Worker, ReapAndPurge, MarkFailed
<1>7. Working' = Working \cup {w} /\ w \notin Working
  BY <1>2, OtherWorkers DEF Working, Worker
<1>8. Hands' \subseteq Hands \cup ({w} \X S) /\ Hands \subseteq Workers \X JobIds
  <2>1. ASSUME NEW v \in Workers, v # w PROVE Held(v)' = Held(v)
    BY <2>1, OthersHands DEF Worker
  <2> QED
    BY <1>4, <2>1 DEF Hands
<1>9. /\ IsFiniteSet({w} \X S) /\ Cardinality({w} \X S) <= Batch
      /\ Cardinality({w} \X S) \in Nat
  <2>1. IsFiniteSet(S) /\ Cardinality(S) \in Nat
    BY <1>3, FiniteJobs
  <2>2. IsFiniteSet({w}) /\ Cardinality({w}) = 1
    BY FS_Singleton
  <2>3. IsFiniteSet({w} \X S) /\ Cardinality({w} \X S) = Cardinality({w}) * Cardinality(S)
    BY <2>1, <2>2, FS_Product
  <2>4. Cardinality({w} \X S) = Cardinality(S)
    BY <2>1, <2>2, <2>3
  <2> QED
    BY <1>3, <2>1, <2>3, <2>4
<1>10. IsFiniteSet(Hands) /\ Cardinality(Hands) \in Nat
  BY <1>8, FiniteHands
<1>11. Cardinality(Hands') <= Cardinality(Hands) + Batch /\ Cardinality(Hands') \in Nat
  <2> DEFINE P == {w} \X S
             T == Hands \cup P
  <2>1. IsFiniteSet(P) /\ Cardinality(P) <= Batch /\ Cardinality(P) \in Nat
    BY <1>9
  <2> HIDE DEF P
  <2>2. IsFiniteSet(Hands \cap P)
    BY <1>10, FS_Subset
  <2>3. /\ IsFiniteSet(T)
        /\ Cardinality(T) = Cardinality(Hands) + Cardinality(P) - Cardinality(Hands \cap P)
    BY <1>10, <2>1, FS_Union
  <2>4. Cardinality(Hands \cap P) \in Nat
    BY <2>2, FS_CardinalityType
  <2>5. Hands' \in SUBSET T
    BY <1>8 DEF P
  <2>6. IsFiniteSet(Hands') /\ Cardinality(Hands') <= Cardinality(T)
    BY <2>3, <2>5, FS_Subset
  <2>7. Cardinality(Hands') \in Nat
    BY <2>6, FS_CardinalityType
  <2> QED
    BY <1>10, <2>1, <2>3, <2>4, <2>6, <2>7
<1>12. /\ Cardinality(InState("failed")') <= Cardinality(InState("failed"))
       /\ Cardinality(InState("failed")') \in Nat /\ Cardinality(InState("failed")) \in Nat
  <2>1. IsFiniteSet(InState("failed")) /\ Cardinality(InState("failed")) \in Nat
    BY FiniteJobs DEF InState
  <2>2. IsFiniteSet(InState("failed")')
          /\ Cardinality(InState("failed")') <= Cardinality(InState("failed"))
    BY <1>6, <2>1, FS_Subset
  <2> QED
    BY <2>1, <2>2, FS_CardinalityType
<1>13. Cardinality(Working') = Cardinality(Working) + 1 /\ Cardinality(Working) \in Nat
  <2>1. IsFiniteSet(Working) /\ Cardinality(Working) \in Nat
    BY FiniteHands DEF Working
  <2> QED
    BY <1>7, <2>1, FS_AddElement
<1>14. LettersOK'
  <2> DEFINE b == Batch * Cardinality(Working)
             c == Batch * Cardinality(Working')
  <2>1. c = b + Batch /\ b \in Nat
    BY <1>13, BatchTimes
  <2>2. Cardinality(InState("failed")) + Cardinality(Hands) <= Keep + b
    BY DEF DeadInv, LettersOK
  <2>3. Cardinality(InState("failed")') + Cardinality(Hands') <= Keep + c
    <3> HIDE DEF b, c
    <3> QED
      BY <1>10, <1>11, <1>12, <2>1, <2>2
  <2> QED
    BY <2>3 DEF LettersOK
<1> QED
  BY <1>5, <1>14

\* The purge leaves at most Keep dead letters, and its worker has nothing in hand.
LEMMA ReapDead ==
  ASSUME IInv, IInv', IsFiniteSet(Workers), DeadInv, NEW w \in Workers, ReapAndPurge(w),
         \A v \in Workers : HandsOK(v)'
  PROVE  LettersOK'
<1>1. PICK gone \in PurgeSets(Reaped) : jobs' = Without(Reaped, gone)
  BY DEF ReapAndPurge
<1> DEFINE F == {j \in JobIds : Reaped[j].state = "failed"}
<1>2. IsFiniteSet(F) /\ Cardinality(F) \in Nat
  BY FiniteJobs
<1>3. /\ gone \subseteq F
      /\ Cardinality(gone) = IF Cardinality(F) > Keep THEN Cardinality(F) - Keep ELSE 0
  BY DEF PurgeSets
<1>4. InState("failed")' = F \ gone
  BY <1>1 DEF InState, Without, NoJob
<1> HIDE DEF F
<1>5. Cardinality(F \ gone) <= Keep /\ Cardinality(F \ gone) \in Nat
  <2>1. F \cap gone = gone
    BY <1>3
  <2>2. Cardinality(F \ gone) = Cardinality(F) - Cardinality(gone) /\ IsFiniteSet(F \ gone)
    BY <1>2, <2>1, FS_Difference
  <2>3. Cardinality(F \ gone) \in Nat
    BY <2>2, FS_CardinalityType
  <2> QED
    BY <1>2, <1>3, <2>2, <2>3
<1>6. /\ Working' \subseteq Workers /\ Hands' \subseteq Working' \X JobIds
      /\ \A v \in Workers : Held(v)' \subseteq JobIds
  <2>1. ASSUME NEW v \in Workers, pc'[v] = "claim" PROVE Held(v)' = {}
    BY <2>1 DEF HandsOK, Held, Busy
  <2>2. ASSUME NEW v \in Workers PROVE Held(v)' \subseteq JobIds
    BY DEF Held, IInv, TypeOK, Claim
  <2> QED
    BY <2>1, <2>2 DEF Working, Hands
<1>7. ASSUME NEW v \in Working'
      PROVE  Cardinality({j \in JobIds : <<v, j>> \in Hands'}) <= Batch
  <2>1. {j \in JobIds : <<v, j>> \in Hands'} = Held(v)' /\ v \in Workers
    BY <1>6 DEF Hands, Working
  <2> QED
    BY <2>1 DEF HandsOK
<1>8. IsFiniteSet(Working') /\ Cardinality(Working') \in Nat
  BY <1>6, FiniteHands
<1>9. Cardinality(Hands') <= Batch * Cardinality(Working')
  BY <1>6, <1>7, <1>8, PairsBound
<1>10. Cardinality(Hands') \in Nat
  BY <1>6, FiniteHands
<1>11. LettersOK'
  <2> DEFINE c == Batch * Cardinality(Working')
  <2>1. c \in Nat
    BY <1>8, BatchTimes
  <2>2. Cardinality(InState("failed")') + Cardinality(Hands') <= Keep + c
    <3>1. Cardinality(Hands') <= c
      BY <1>9
    <3> HIDE DEF c
    <3> QED
      BY <1>4, <1>5, <1>10, <2>1, <3>1
  <2> QED
    BY <2>2 DEF LettersOK
<1> QED
  BY <1>11

\* A job that becomes a dead letter leaves its worker's hands.
LEMMA FailDead ==
  ASSUME IInv, IInv', IsFiniteSet(Workers), DeadInv, NEW w \in Workers, MarkFailed(w)
  PROVE  LettersOK'
<1> DEFINE i == cur[w].id
           p == <<w, i>>
<1>1. pc[w] = "mark" /\ cur[w] \in Claim /\ i \in JobIds /\ cur[w] # NoClaim
  BY NoJobIsNoJob DEF MarkFailed, IInv, CurOK, Busy, Claim
<1>2. InState("failed")' \subseteq InState("failed") \cup {i}
  BY <1>1 DEF MarkFailed, InState, IInv, TypeOK
<1>3. Working' = Working
  <2>1. pc'[w] # "claim" /\ pc[w] # "claim"
    BY <1>1, StaysWorking DEF Worker, ReapAndPurge
  <2> QED
    BY <2>1, OtherWorkers DEF Working, Worker
<1>4. p \in Hands /\ Hands' \subseteq Hands \ {p}
  <2>1. Held(w)' \subseteq Held(w) \ {i}
    <3>1. /\ cur'[w] = NoClaim /\ claims'[w] = claims[w] /\ group'[w] = group[w]
      BY DEF MarkFailed, AfterMark, IInv, TypeOK
    <3>2. \A c \in claims[w] \cup group[w] : c.id # i
      BY <1>1 DEF DeadInv, HandsOK, Busy
    <3> QED
      BY <3>1, <3>2 DEF Held
  <2>2. \A v \in Workers : v # w => Held(v)' = Held(v)
    BY OthersHands DEF Worker
  <2>3. i \in Held(w)
    BY <1>1 DEF Held
  <2> QED
    BY <1>1, <2>1, <2>2, <2>3 DEF Hands
<1> HIDE DEF i, p
<1>5. /\ IsFiniteSet(Hands) /\ Cardinality(Hands) \in Nat
      /\ IsFiniteSet(InState("failed")) /\ Cardinality(InState("failed")) \in Nat
  BY FiniteHands, FiniteJobs DEF Hands, InState
<1>6. Cardinality(Hands') <= Cardinality(Hands) - 1 /\ Cardinality(Hands') \in Nat
  <2>1. IsFiniteSet(Hands \ {p}) /\ Cardinality(Hands \ {p}) = Cardinality(Hands) - 1
    BY <1>4, <1>5, FS_RemoveElement
  <2>2. IsFiniteSet(Hands') /\ Cardinality(Hands') <= Cardinality(Hands \ {p})
    BY <1>4, <2>1, FS_Subset
  <2> QED
    BY <2>1, <2>2, FS_CardinalityType
<1>7. /\ Cardinality(InState("failed")') <= Cardinality(InState("failed")) + 1
      /\ Cardinality(InState("failed")') \in Nat
  <2> DEFINE T == InState("failed") \cup {i}
  <2>1. IsFiniteSet(T) /\ Cardinality(T) <= Cardinality(InState("failed")) + 1
    <3>1. \A S : IsFiniteSet(S) => /\ IsFiniteSet(S \cup {i})
                                  /\ Cardinality(S \cup {i}) =
                                       IF i \in S THEN Cardinality(S) ELSE Cardinality(S) + 1
      BY FS_AddElement
    <3> DEFINE S == InState("failed")
    <3>2. /\ IsFiniteSet(S \cup {i})
          /\ Cardinality(S \cup {i}) = IF i \in S THEN Cardinality(S) ELSE Cardinality(S) + 1
      BY <1>5, <3>1
    <3> QED
      BY <1>5, <3>2
  <2>2. IsFiniteSet(InState("failed")') /\ Cardinality(InState("failed")') <= Cardinality(T)
    BY <1>2, <2>1, FS_Subset
  <2>3. Cardinality(T) \in Nat /\ Cardinality(InState("failed")') \in Nat
    BY <2>1, <2>2, FS_CardinalityType
  <2> QED
    BY <1>5, <2>1, <2>2, <2>3
<1>8. LettersOK'
  <2> DEFINE b == Batch * Cardinality(Working)
             c == Batch * Cardinality(Working')
  <2>1. b \in Nat /\ c = b
    <3>1. Cardinality(Working) \in Nat
      BY FiniteHands DEF Working
    <3> QED
      BY <1>3, <3>1, BatchTimes
  <2>2. Cardinality(InState("failed")) + Cardinality(Hands) <= Keep + b
    BY DEF DeadInv, LettersOK
  <2>3. Cardinality(InState("failed")') + Cardinality(Hands') <= Keep + c
    <3> HIDE DEF b, c
    <3> QED
      BY <1>5, <1>6, <1>7, <2>1, <2>2
  <2> QED
    BY <2>3 DEF LettersOK
<1> QED
  BY <1>8

-----------------------------------------------------------------------------
(* The invariant.                                                          *)

\* A step of the users or of the clock touches nobody's hands.
LEMMA EnvDead ==
  ASSUME IInv, IInv', IsFiniteSet(Workers), DeadInv, UNCHANGED <<pc, claims, group, cur>>,
         InState("failed")' \subseteq InState("failed")
  PROVE  DeadInv'
<1>1. \A w \in Workers : Held(w)' = Held(w) /\ (HandsOK(w) => HandsOK(w)')
  BY DEF Held, HandsOK
<1>2. Working' = Working
  BY DEF Working
<1>3. LettersOK'
  BY <1>1, <1>2, FewerLetters DEF DeadInv
<1> QED
  BY <1>1, <1>3 DEF DeadInv

LEMMA WorkerDead ==
  ASSUME IInv, IInv', IsFiniteSet(Workers), DeadInv,
         NEW w \in Workers, Worker(w) \/ Crash(w)
  PROVE  DeadInv'
<1>1. HandsOK(w)'
  BY ClaimDead, HandsShrink DEF DeadInv
<1>2. \A v \in Workers : HandsOK(v)'
  BY <1>1, OthersHands DEF DeadInv
<1>3. LettersOK'
  <2>1. CASE ClaimBatch(w)
    BY <2>1, ClaimDead
  <2>2. CASE ReapAndPurge(w)
    BY <1>2, <2>2, ReapDead
  <2>3. CASE MarkFailed(w)
    BY <2>3, FailDead
  <2>4. CASE ~ClaimBatch(w) /\ ~ReapAndPurge(w) /\ ~MarkFailed(w)
    <3>1. InState("failed")' \subseteq InState("failed")
      BY <2>4, NoLetter
    <3>2. \A v \in Workers : Held(v)' \subseteq Held(v)
      BY <2>4, HandsShrink, OthersHands DEF DeadInv
    <3>3. Working \subseteq Working'
      BY <2>4, StaysWorking, OthersHands DEF Working
    <3> QED
      BY <3>1, <3>2, <3>3, FewerLetters DEF DeadInv
  <2> QED
    BY <2>1, <2>2, <2>3, <2>4
<1> QED
  BY <1>2, <1>3 DEF DeadInv

LEMMA InitDead == ASSUME IsFiniteSet(Workers), Init PROVE DeadInv
<1>1. \A w \in Workers : /\ Held(w) = {} /\ pc[w] = "reap" /\ claims[w] = {}
                         /\ group[w] = {} /\ cur[w] = NoClaim
  BY DEF Init, Held
<1>2. Cardinality({}) = 0
  BY FS_EmptySet
<1>3. \A w \in Workers : HandsOK(w)
  <2> SUFFICES ASSUME NEW w \in Workers PROVE HandsOK(w)
    OBVIOUS
  <2>1. Cardinality(Held(w)) <= Batch
    BY <1>1, <1>2
  <2> QED
    BY <1>1, <2>1 DEF HandsOK, Busy
<1>4. Hands = {} /\ InState("failed") = {}
  BY <1>1 DEF Init, Hands, InState, NoJob
<1>5. Cardinality(Working) \in Nat
  BY FiniteHands DEF Working
<1>6. Batch * Cardinality(Working) \in Nat
  BY <1>5, BatchTimes
<1>7. LettersOK
  <2> DEFINE b == Batch * Cardinality(Working)
  <2>1. Cardinality(InState("failed")) + Cardinality(Hands) <= Keep + b
    <3>1. b \in Nat
      BY <1>6
    <3> HIDE DEF b
    <3>2. Cardinality(Hands) = 0 /\ Cardinality(InState("failed")) = 0
      BY <1>2, <1>4
    <3>3. Keep \in Nat
      BY BoundAssumption
    <3> QED
      BY <3>1, <3>2, <3>3
  <2> QED
    BY <2>1 DEF LettersOK
<1> QED
  BY <1>3, <1>7 DEF DeadInv

LEMMA NextDead ==
  ASSUME IsFiniteSet(Workers), IInv, IInv', DeadInv, [Next]_vars PROVE DeadInv'
<1>1. CASE User
  <2>1. PICK k \in Keys, op \in Ops :
          EnqueueAndDelete({k}, op, {}) /\ UNCHANGED <<pc, claims, group, cur>>
    BY <1>1 DEF User, Insert, Update, Delete, UserStatement, Ops, locals
  <2>2. InState("failed")' \subseteq InState("failed")
    BY <2>1, EnqueueNoLetter DEF IInv
  <2> QED
    BY <2>1, <2>2, EnvDead
<1>2. CASE \E j \in JobIds : Expire(j)
  <2>1. PICK j \in JobIds : Expire(j)
    BY <1>2
  <2>2. jobs[j] \in Job
    BY <2>1 DEF Expire, IInv, TypeOK
  <2>3. UNCHANGED <<pc, claims, group, cur>> /\ InState("failed")' \subseteq InState("failed")
    BY <2>1, <2>2 DEF Expire, locals, InState, Job, IInv, TypeOK
  <2> QED
    BY <2>3, EnvDead
<1>3. CASE \E w \in Workers : Worker(w) \/ Crash(w)
  BY <1>3, WorkerDead
<1>4. CASE UNCHANGED vars
  <2>1. UNCHANGED <<pc, claims, group, cur>> /\ InState("failed")' \subseteq InState("failed")
    BY <1>4 DEF vars, InState
  <2> QED
    BY <2>1, EnvDead
<1> QED
  BY <1>1, <1>2, <1>3, <1>4 DEF Next

LEMMA Counting == ASSUME IsFiniteSet(Workers) PROVE Spec => []DeadInv
<1>1. IInv /\ IInv' /\ DeadInv /\ [Next]_vars => DeadInv'
  BY NextDead
<1> QED
  BY <1>1, InitDead, Invariance, PTL DEF Spec

\* The purge bounds the dead letters, for any number of workers and any batch: at most
\* Keep survive it, and a worker adds at most its batch before it purges again.  Together
\* the workers count: each letter over the cap is a job that left somebody's hands.
THEOREM BoundedDeadLetters == ASSUME IsFiniteSet(Workers) PROVE Spec => []DeadLetterBound
<1>1. IInv /\ DeadInv => DeadLetterBound
  <2> SUFFICES ASSUME IInv, DeadInv PROVE DeadLetterBound
    OBVIOUS
  <2>1. Cardinality(Hands) \in Nat /\ Cardinality(InState("failed")) \in Nat
    BY FiniteHands, FiniteJobs DEF Hands, InState
  <2>2. Cardinality(Working) \in Nat
    BY FiniteHands DEF Working
  <2> DEFINE b == Batch * Cardinality(Working)
  <2>3. Cardinality(InState("failed")) + Cardinality(Hands) <= Keep + b /\ b \in Nat
    BY <2>2, BatchTimes DEF DeadInv, LettersOK
  <2>4. Cardinality(InState("failed")) <= Keep + b
    <3> HIDE DEF b
    <3> QED
      BY <2>1, <2>3
  <2> QED
    BY <2>4 DEF DeadLetterBound, Working
<1> QED
  BY <1>1, Invariance, Counting, PTL
=============================================================================
