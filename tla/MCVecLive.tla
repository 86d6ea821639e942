-------------------------------- MODULE MCVecLive --------------------------------
(***************************************************************************)
(* Vectorizer under fairness, for TLC: one that writes in place and one of *)
(* chunks, an instance that keeps its store in the variable "emb", so that *)
(* both have their vectors there.  "part" says which and never changes.    *)
(***************************************************************************)
EXTENDS Vectorizer

CONSTANTS Parts, k1, c1, c2, w1

VARIABLE part

liveVars == <<part, vars>>

OneKey == {k1}
TwoTexts == {c1, c2}
OneWorker == {w1}

Chunked == INSTANCE Vectorizer WITH Mode <- "chunk", emb <- chunks, chunks <- emb

LiveInit ==
  /\ part \in Parts
  /\ IF part = "chunk" THEN Chunked!Init ELSE Init

LiveNext ==
  \/ part = "chunk" /\ Chunked!Next /\ UNCHANGED part
  \/ part = "inplace" /\ Next /\ UNCHANGED part

\* Vectorizer's fairness: the workers run on, and a lease that is not renewed expires.
LiveSpec ==
  /\ LiveInit /\ [][LiveNext]_liveVars
  /\ WF_liveVars(part = "chunk" /\ Chunked!Worker(w1) /\ UNCHANGED part)
  /\ WF_liveVars(part = "inplace" /\ Worker(w1) /\ UNCHANGED part)
  /\ \A j \in JobIds : /\ WF_liveVars(part = "chunk" /\ Chunked!Expire(j) /\ UNCHANGED part)
                        /\ WF_liveVars(part = "inplace" /\ Expire(j) /\ UNCHANGED part)
-----------------------------------------------------------------------------
(* NoOrphanVector is Vectorizer's, of both: "emb" is what queries read.    *)

\* Vectorizer's Drained: once the users stop, every job is done or a dead letter.  (In
\* place it does not hold: the worker's own UPDATE queues the row again, for ever.)
ChunkedDrained == <>[](part = "chunk" => InState("pending") \cup InState("processing") = {})

\* Vectorizer's Coverage: in place, every row has its vector or a job that will write it.
InPlaceCoverage == part = "inplace" => Coverage

\* Vectorizer's Converges: in place, every row ends up embedded or a dead letter.
InPlaceConverges ==
  <>[](part = "inplace" =>
         \A k \in Keys : Fresh(k) \/ \E j \in InState("failed") : jobs[j].key = k)
=============================================================================
