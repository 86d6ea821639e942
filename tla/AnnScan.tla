------------------------------- MODULE AnnScan -------------------------------
(***************************************************************************)
(* One scan of a vector index in the order of the distance to a query      *)
(* (src/theodb_rs/src/am/scan.rs): amrescan gathers a first batch of       *)
(* candidates, amgettuple returns the nearest one left and, when the       *)
(* executor keeps pulling because a WHERE rejects rows, grows the search:  *)
(* an HNSW scan resumes its beam or searches again with a doubled ef       *)
(* (ann/scan_core.rs, am/hnsw_page/search.rs), an IVF scan probes more     *)
(* lists with a larger rerank pool.                                        *)
(*                                                                         *)
(* A row is its rank in the exact order of distances, so that a smaller    *)
(* row is nearer; `score' is the rank the walk sees (a quantised code for  *)
(* an approximate index, the row itself otherwise).  A distance in Nan is  *)
(* not a number: it sorts last and compares with nothing.                  *)
(***************************************************************************)
EXTENDS Integers, FiniteSets, Sequences, FiniteSetsExt, SequencesExt

CONSTANTS
    VectorRows,     \* 1 .. n, in the order of their distance to the query
    Nan,            \* the rows whose distance is not a number
    Indexes,        \* the built indexes considered, see AnnIndex below
    Filters,        \* the filters of the query, see AnnFilter below
    Arrivals,       \* the rows an INSERT may add during the scan
    EfSearch, OverFetch, FirstProbes, FirstPool, MaxScanTuples, LabelK,
    NoBeam          \* the scan retains no beam

VARIABLES annIndex, annPending, ann, annReturned

annVars == <<annIndex, annPending, ann, annReturned>>

(* An index: its layout, the graph (entry, neighbour lists, tombstones) or *)
(* the lists in the order of their centroids' distance, what the code      *)
(* pages allow to skip inline, and each row's labels.                      *)
AnnIndex == [kind: {"hnsw", "ivf"}, resumes: BOOLEAN, exact: BOOLEAN,
             upper: [VectorRows -> Seq(VectorRows)], near: [VectorRows -> Seq(VectorRows)],
             entry: VectorRows, dead: SUBSET VectorRows,
             lists: Seq(SUBSET VectorRows), pooled: BOOLEAN,
             inline: SUBSET {"labels", "tids"}, score: [VectorRows -> VectorRows],
             labels: [VectorRows -> Seq(Nat)], pending: SUBSET VectorRows]

(* A filter: the labels of an `&&' key (none when it has none), and the    *)
(* set a custom scan published: the rows it admits and those that match.   *)
AnnFilter == [labelled: BOOLEAN, labels: SUBSET Nat,
              member: BOOLEAN, admitted: SUBSET VectorRows, want: SUBSET VectorRows]

(* The rows that an index was built from; the others are inserted later.   *)
Indexed(index) == VectorRows \ (index.pending \cup Arrivals)

ASSUME AnnAssumption ==
    /\ VectorRows = 1 .. Cardinality(VectorRows) /\ IsFiniteSet(VectorRows)
    /\ Arrivals \subseteq VectorRows
    /\ {EfSearch, OverFetch, FirstProbes, FirstPool} \subseteq Nat \ {0}
    /\ {MaxScanTuples, LabelK} \subseteq Nat
    /\ Indexes \subseteq AnnIndex
    /\ \A index \in Indexes :
          /\ IsInjective(index.score)
          /\ index.entry \in Indexed(index)
          /\ \A r \in VectorRows : ToSet(index.upper[r]) \cup ToSet(index.near[r])
                                      \subseteq Indexed(index)
          /\ \A i \in DOMAIN index.lists : index.lists[i] \subseteq Indexed(index)
    /\ Filters \subseteq AnnFilter /\ Filters # {}
    /\ \A f \in Filters : f.labels # {} => f.labelled

Matches(r, f) ==
    /\ f.labelled => ToSet(annIndex.labels[r]) \cap f.labels # {}
    /\ f.member => r \in f.want

(***************************************************************************)
(* The beam of the ground layer.  A result entry <<row, copy>> is a row    *)
(* met as a neighbour ("met") or taken from the frontier ("taken").        *)
(***************************************************************************)
Comparable(a, b) == ~(annIndex.exact /\ {a, b} \cap Nan # {})
Before(a, b) == annIndex.score[a] < annIndex.score[b]
Closer(a, b) == Comparable(a, b) /\ Before(a, b)

NearestOf(rows) == CHOOSE r \in rows : \A q \in rows \ {r} : Before(r, q)
WorstOf(result) == CHOOSE c \in result : \A d \in result : ~Before(c[1], d[1])
Nearest(n, rows) == {r \in rows : Cardinality({q \in rows : q < r}) < n}

Kept(result, ef) ==
    IF Cardinality(result) > ef THEN result \ {WorstOf(result)} ELSE result

Live(r) == r \notin annIndex.dead
(* A fault: a tombstone takes a place in the result.                       *)
EnterResultDead(beam, r, copy, ef) ==
    [beam EXCEPT !.result = Kept(@ \cup {<<r, copy>>}, ef)]
EnterResult(beam, r, copy, ef) ==
    IF Live(r) THEN [beam EXCEPT !.result = Kept(@ \cup {<<r, copy>>}, ef)] ELSE beam

Meet(beam, r, ef, resumed) ==
    IF r \in beam.seen THEN beam
    ELSE LET promising == \/ Cardinality(beam.result) < ef
                          \/ Closer(r, WorstOf(beam.result)[1])
             met == [beam EXCEPT !.seen = @ \cup {r},
                        !.frontier = IF promising \/ resumed THEN @ \cup {r} ELSE @]
         IN  IF promising THEN EnterResult(met, r, "met", ef) ELSE met

Taken(beam, r, ef, resumed) ==
    LET left == [beam EXCEPT !.frontier = @ \ {r}]
    IN  IF resumed THEN EnterResult(left, r, "taken", ef) ELSE left

Over(beam, ef) ==
    \/ beam.frontier = {}
    \/ /\ beam.result # {} /\ Cardinality(beam.result) >= ef
       /\ Closer(WorstOf(beam.result)[1], NearestOf(beam.frontier))
Expanded(beam, r, ef, resumed) ==
    FoldLeft(LAMBDA b, n : Meet(b, n, ef, resumed), Taken(beam, r, ef, resumed),
             annIndex.near[r])
Round(beam, ef, resumed) ==
    IF Over(beam, ef) THEN beam ELSE Expanded(beam, NearestOf(beam.frontier), ef, resumed)

(* A row enters the frontier once and each round of the descent comes      *)
(* closer: there are no more rounds than rows.                             *)
Rounds == [r \in VectorRows |-> r]
GroundSearch(beam, ef, resumed) ==
    FoldLeft(LAMBDA b, i : Round(b, ef, resumed), beam, Rounds)

(* The greedy descent of the upper layer: the neighbours of the point the  *)
(* round began with, each taken when it is closer than the best so far.    *)
CloserOf(p, n) == IF Closer(n, p) THEN n ELSE p
GreedyDescend(point) ==
    FoldLeft(LAMBDA p, i : FoldLeft(CloserOf, p, annIndex.upper[p]), point, Rounds)

FreshBeam(first) == [frontier |-> {first}, seen |-> {first}, result |-> {}]
Found(beam) == {c[1] : c \in beam.result}

(* traverse: an exact index returns the ef best of its walk, an            *)
(* approximate one walks for ef * OverFetch and keeps the ef best by the   *)
(* exact distance.                                                         *)
Traverse(ef) ==
    LET first == GreedyDescend(annIndex.entry)
        width == IF annIndex.exact THEN ef ELSE ef * OverFetch
    IN  Nearest(ef, Found(GroundSearch(EnterResult(FreshBeam(first), first, "taken", width),
                               width, FALSE)))
GatherHnsw(ef, pending) == Traverse(ef) \cup pending

ResumableInit == FreshBeam(GreedyDescend(annIndex.entry))
ResumableNext(beam) == GroundSearch([beam EXCEPT !.result = {}], EfSearch, TRUE)

(***************************************************************************)
(* The probes of an IVF index.                                             *)
(***************************************************************************)
Filtering(f) == (f.labelled /\ f.labels # {}) \/ f.member

(* A fault: the reader takes the count for a label and loses the last one. *)
StoredLabelsShort(r) ==
    LET all == annIndex.labels[r] IN ToSet(SubSeq(all, 1, IF Len(all) < LabelK
                                                          THEN Len(all) - 1 ELSE LabelK - 1))
StoredLabels(r) ==
    LET all == annIndex.labels[r] IN ToSet(SubSeq(all, 1, IF Len(all) < LabelK
                                                          THEN Len(all) ELSE LabelK))
Skipped(r, f) ==
    \/ "labels" \in annIndex.inline /\ f.labels # {} /\ StoredLabels(r) \cap f.labels = {}
    \/ "tids" \in annIndex.inline /\ f.member /\ r \notin f.admitted

InlineFilter(f) == \/ "labels" \in annIndex.inline /\ f.labels # {}
                   \/ "tids" \in annIndex.inline /\ f.member

CandidatesOf(n, f) ==
    {r \in UNION {annIndex.lists[i] : i \in 1 .. n} : ~Skipped(r, f)}

(* The first count >= probes whose lists fill the pool, all of them at     *)
(* most; without an inline filter, exactly the probes asked for.           *)
ListsProbed(probes, pool, f) ==
    LET all == Len(annIndex.lists)
        asked == IF probes < all THEN probes ELSE all
        enough == {n \in asked .. all : \/ ~InlineFilter(f)
                                        \/ Cardinality(CandidatesOf(n, f)) >= pool
                                        \/ n = all}
    IN  Min(enough)

Reranked(pool, cands) ==
    IF annIndex.pooled
    THEN {r \in cands : Cardinality({q \in cands : Before(q, r)}) < pool} ELSE cands
(* A fault: the rows inserted since the build are not folded in.           *)
ScanIvfNoPending(probes, pool, f, pending) ==
    Reranked(pool, CandidatesOf(ListsProbed(probes, pool, f), f))
ScanIvf(probes, pool, f, pending) ==
    Reranked(pool, CandidatesOf(ListsProbed(probes, pool, f), f)) \cup pending

(***************************************************************************)
(* The access method's calls.                                              *)
(***************************************************************************)
Idle == [filter |-> CHOOSE f \in Filters : TRUE, open |-> FALSE, heap |-> {}, emitted |-> {},
         beam |-> NoBeam, ef |-> 0, probes |-> 0, pool |-> 0, last |-> 0,
         owed |-> {}, exhausted |-> FALSE]

AnnInit ==
    /\ annIndex \in Indexes
    /\ annPending = annIndex.pending
    /\ ann = Idle
    /\ annReturned = {}

(* `owed' is what the scan was asked for when it began: the rows it can    *)
(* reach then.                                                             *)
LedAlong(rows) == \A r \in rows : ToSet(annIndex.near[r]) \subseteq rows
Reached(rows) ==
    {r \in VectorRows : \A s \in SUBSET VectorRows :
                           r \in s \/ ~(rows \subseteq s) \/ ~LedAlong(s)}
Reachable == IF annIndex.kind = "hnsw"
             THEN Reached({GreedyDescend(annIndex.entry)}) \ annIndex.dead
             ELSE UNION Range(annIndex.lists)

Resumable == annIndex.kind = "hnsw" /\ annIndex.resumes /\ annIndex.exact

amrescan(f) ==
    LET beam == ResumableNext(ResumableInit)
        first == IF Resumable THEN Found(beam) \cup annPending
                 ELSE IF annIndex.kind = "hnsw" THEN GatherHnsw(EfSearch, annPending)
                 ELSE ScanIvf(FirstProbes, FirstPool, f, annPending)
    IN  /\ ann' = [filter |-> f, open |-> TRUE, heap |-> first, emitted |-> {},
                   beam |-> IF Resumable THEN beam ELSE NoBeam,
                   ef |-> EfSearch, probes |-> FirstProbes, pool |-> FirstPool,
                   last |-> Cardinality(first),
                   owed |-> Reachable \cup annPending, exhausted |-> FALSE]
        /\ annReturned' = {}
        /\ UNCHANGED <<annIndex, annPending>>

(* amgettuple returns the nearest row of the heap, unless it was returned. *)
PopCandidate ==
    /\ ann.open /\ ann.heap # {}
    /\ LET r == Min(ann.heap)
       IN  /\ ann' = [ann EXCEPT !.heap = @ \ {r}, !.emitted = @ \cup {r}]
           /\ annReturned' = IF r \in ann.emitted THEN annReturned
                             ELSE annReturned \cup {<<r, Filtering(ann.filter)>>}
    /\ UNCHANGED <<annIndex, annPending>>

MayGrow == /\ ann.open /\ ann.heap = {} /\ MaxScanTuples > 0 /\ ~ann.exhausted
           /\ Cardinality(ann.emitted) < MaxScanTuples
Exhaust(scan) == [scan EXCEPT !.exhausted = TRUE]

(* The next batch of the retained beam.                                    *)
GrowResumed ==
    /\ MayGrow /\ ann.beam # NoBeam
    /\ LET beam == ResumableNext(ann.beam)
           fresh == Found(beam) \ ann.emitted
           next == [ann EXCEPT !.beam = beam, !.heap = fresh]
       IN  ann' = IF fresh = {} /\ beam.frontier = {} THEN Exhaust(next) ELSE next
    /\ UNCHANGED <<annIndex, annPending, annReturned>>

(* A search with twice the ef, MaxScanTuples at most.                      *)
WiderEf == IF 2 * ann.ef < MaxScanTuples THEN 2 * ann.ef ELSE MaxScanTuples
GrowHnsw ==
    /\ MayGrow /\ annIndex.kind = "hnsw" /\ ann.beam = NoBeam
    /\ LET fresh == GatherHnsw(WiderEf, annPending) \ ann.emitted
       IN  ann' = IF WiderEf <= ann.ef THEN Exhaust(ann)
                  ELSE IF fresh = {} THEN Exhaust([ann EXCEPT !.ef = WiderEf])
                  ELSE [ann EXCEPT !.ef = WiderEf, !.heap = fresh]
    /\ UNCHANGED <<annIndex, annPending, annReturned>>

(* Twice the lists and twice the pool; nothing new ends the scan only once *)
(* every list is probed and the pool has stopped giving more.              *)
(* A fault: the first round that brings nothing new ends the scan.         *)
SaturatedAtOnce(scan, total) == TRUE
Saturated(scan, total) ==
    scan.probes >= Len(annIndex.lists) /\ total <= scan.last
GrowIvf ==
    /\ MayGrow /\ annIndex.kind = "ivf"
    /\ LET wider == [ann EXCEPT !.probes = 2 * @, !.pool = 2 * @]
           all == ScanIvf(wider.probes, wider.pool, ann.filter, annPending)
           fresh == all \ ann.emitted
       IN  ann' = IF fresh # {} THEN [wider EXCEPT !.heap = fresh]
                  ELSE IF Saturated(wider, Cardinality(all)) THEN Exhaust(wider)
                  ELSE [wider EXCEPT !.last = Cardinality(all)]
    /\ UNCHANGED <<annIndex, annPending, annReturned>>

(* The ceiling on the rows returned, and a scan without growth.            *)
StopAtCap ==
    /\ ann.open /\ ann.heap = {} /\ ~ann.exhausted
    /\ MaxScanTuples = 0 \/ Cardinality(ann.emitted) >= MaxScanTuples
    /\ ann' = Exhaust(ann)
    /\ UNCHANGED <<annIndex, annPending, annReturned>>

amendscan == /\ ann.open /\ ann' = Idle /\ annReturned' = {}
             /\ UNCHANGED <<annIndex, annPending>>

(* aminsert of another session: the row joins the pending region.          *)
InsertPending == \E r \in Arrivals \ annPending :
    /\ annPending' = annPending \cup {r}
    /\ UNCHANGED <<annIndex, ann, annReturned>>

AnnNext ==
    \/ \E f \in Filters : amrescan(f)
    \/ PopCandidate
    \/ GrowResumed
    \/ GrowHnsw
    \/ GrowIvf
    \/ StopAtCap
    \/ amendscan
    \/ InsertPending

AnnSpec == AnnInit /\ [][AnnNext]_annVars

-----------------------------------------------------------------------------
(* What the properties ask of the queries: a published set has every row   *)
(* of the index that matches (VecFilter).                                  *)
SetsAdmitMatches == \A f \in Filters, index \in Indexes :
                       f.member => f.want \cap Indexed(index) \subseteq f.admitted

(* What the scan still owes of a set of rows when it has stopped below the *)
(* ceiling: the matching ones it has not returned.                         *)
Withheld(rows) ==
    IF ann.exhausted /\ Cardinality(ann.emitted) < MaxScanTuples
    THEN {r \in rows : Matches(r, ann.filter) /\ \A b \in BOOLEAN : <<r, b>> \notin annReturned}
    ELSE {}

(* The one loss the format documents: a code record keeps the first labels *)
(* of a row (ivf_codec.rs:19-21, "truncated to the first LABEL_K"), and a  *)
(* scan that skips by them may pass over a row of a list that matches by   *)
(* a later one only.                                                       *)
MatchesBeyondRecord(r) ==
    /\ annIndex.kind = "ivf" /\ "labels" \in annIndex.inline /\ r \in Reachable
    /\ ann.filter.labelled
    /\ \A i \in DOMAIN annIndex.labels[r] : annIndex.labels[r][i] \in ann.filter.labels => i > LabelK

(* A scan that searches again with a larger ef, or probes more lists,      *)
(* stops below the ceiling only when it has returned every matching row it *)
(* could reach when it began, whatever it skips by labels and sets, but    *)
(* for the loss above; every scan has then returned the matching rows that *)
(* were pending (scan.rs:1153 "the whole graph is emitted", 1181 "Exhaust  *)
(* only when fully saturated", 430 "silently dropped").                    *)
ExhaustedMeansReturned ==
    \A r \in Withheld(IF Resumable THEN ann.owed \ Reachable ELSE ann.owed) :
        MatchesBeyondRecord(r)

(* A scan that resumes its beam stops when "the reachable graph is fully   *)
(* emitted" (scan.rs:1134): no matching row it could reach is left.        *)
FrontierEmptyMeansEmitted == Resumable => Withheld(ann.owed) = {}

(* The first batch of a search for ef candidates has ef live rows, or all  *)
(* there are: tombstones are walked through and take no place              *)
(* (scan_core.rs:130-132).                                                 *)
FirstBatchFills ==
    ann.open /\ annIndex.kind = "hnsw" /\ ~Resumable /\ ann.ef = EfSearch /\ ann.emitted = {} =>
        LET all == Reachable
        IN  Cardinality(ann.heap \cap all)
                >= (IF Cardinality(all) < EfSearch THEN Cardinality(all) ELSE EfSearch)
=============================================================================
