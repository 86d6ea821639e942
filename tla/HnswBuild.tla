------------------------------ MODULE HnswBuild ------------------------------
(***************************************************************************)
(* The build of an HNSW graph (src/theodb_rs/src/ann/hnsw_parallel.rs,     *)
(* ann/hnsw.rs): worker threads claim nodes from a counter and insert them *)
(* into one graph.  Each node's neighbour lists have a lock of their own,  *)
(* held for one read or one write: between two locks the other workers     *)
(* move on.  The sequential build is the same insertion by one worker.     *)
(*                                                                         *)
(* A vector is a point on a line, its distance to another the difference.  *)
(* The assignment of levels and the pages the graph is packed into are     *)
(* not modelled: every assignment is considered.                           *)
(***************************************************************************)
EXTENDS Integers, FiniteSets, Sequences, FiniteSetsExt, SequencesExt

CONSTANTS
    Corpora,        \* [at: points, level: levels, threads: workers], by node
    M,              \* links of a node on an upper layer; twice as many on the ground
    EfConstruction, \* the candidates a search keeps
    Extends,        \* extend_candidates()
    Batch           \* CANCEL_CHECK_BATCH

VARIABLES
    corpus,         \* a member of Corpora
    graph,          \* for each node, a list of neighbours per layer
    entry,          \* the entry node and its level, `state' in the code
    batch,          \* the batch at work: its first node, the next one to claim
    worker          \* what each thread is doing

hnswVars == <<corpus, graph, entry, batch, worker>>

Nodes == DOMAIN corpus.at
Layers(n) == 0 .. corpus.level[n]
Degree(layer) == IF layer = 0 THEN 2 * M ELSE M
Ef == IF EfConstruction > M THEN EfConstruction ELSE M

Dist(a, b) == LET d == corpus.at[a] - corpus.at[b] IN IF d < 0 THEN -d ELSE d
Nearer(q, a, b) == \/ Dist(q, a) < Dist(q, b)
                   \/ Dist(q, a) = Dist(q, b) /\ a < b
NearestTo(q, cands) == CHOOSE a \in cands : \A b \in cands \ {a} : Nearer(q, a, b)
FurthestFrom(q, cands) == CHOOSE a \in cands : \A b \in cands \ {a} : Nearer(q, b, a)

(* The candidates in the order of their distance, each put behind those    *)
(* that are not farther.                                                   *)
SortIn(q, sorted, c) ==
    InsertAt(sorted, 1 + Cardinality({i \in DOMAIN sorted : ~Nearer(q, c, sorted[i])}), c)
Sorted(q, candidates) == FoldLeft(LAMBDA s, c : SortIn(q, s, c), <<>>, candidates)

(* select_from: the nearest first, one that is nearer to a kept neighbour  *)
(* than to q only when there is room at the end.                           *)
Keep(q, m, kept, c) ==
    IF Len(kept) < m /\ ~\E k \in ToSet(kept) : Dist(c, k) < Dist(q, c)
    THEN Append(kept, c) ELSE kept
TopUp(m, kept, c) ==
    IF Len(kept) < m /\ c \notin ToSet(kept) THEN Append(kept, c) ELSE kept
select_from(q, candidates, m) ==
    LET sorted == Sorted(q, candidates)
        diverse == FoldLeft(LAMBDA kept, c : Keep(q, m, kept, c), <<>>, sorted)
    IN  FoldLeft(LAMBDA kept, c : TopUp(m, kept, c), diverse, sorted)

BatchEnd(start) == IF start + Batch < Cardinality(Nodes) THEN start + Batch ELSE Cardinality(Nodes)
Built == batch.start = Cardinality(Nodes)
Cancelled == batch.start = -1

Between == [pc |-> "claim", node |-> 0, limit |-> 0, ep |-> 0, layer |-> 0, seen |-> {},
            frontier |-> {}, found |-> {}, pool |-> {}, left |-> {}, links |-> <<>>]

HnswInit ==
    /\ corpus \in Corpora
    /\ graph = [n \in Nodes |-> [l \in Layers(n) |-> <<>>]]
    /\ entry = [node |-> 0, level |-> corpus.level[0]]
    /\ batch = [start |-> 1, next |-> 1]
    /\ worker = [w \in 1 .. corpus.threads |-> Between]

Become(w, next) == worker' = [worker EXCEPT ![w] = next]

(* counter.fetch_add: a number past the batch ends the worker.             *)
Claim(w) ==
    /\ ~Cancelled /\ ~Built
    /\ worker[w].pc = "claim"
    /\ batch' = [batch EXCEPT !.next = @ + 1]
    /\ Become(w, IF batch.next < BatchEnd(batch.start)
                 THEN [Between EXCEPT !.pc = "start", !.node = batch.next]
                 ELSE [Between EXCEPT !.pc = "joined"])
    /\ UNCHANGED <<corpus, graph, entry>>

(* Worker k begins a search_layer of `layer' from the nodes `from'.        *)
Searching(k, layer, from) ==
    [k EXCEPT !.pc = "search", !.layer = layer, !.seen = from, !.frontier = from, !.found = from]

Below(a, b) == IF a < b THEN a ELSE b

(* The entry and its level are read together, once.                        *)
Start(w) ==
    LET k == [worker[w] EXCEPT !.ep = entry.node, !.limit = entry.level, !.layer = entry.level]
    IN  /\ k.pc = "start"
        /\ Become(w, IF entry.level > corpus.level[k.node]
                     THEN [k EXCEPT !.pc = "descend"]
                     ELSE Searching(k, entry.level, {entry.node}))
        /\ UNCHANGED <<corpus, graph, entry, batch>>

(* One round of greedy_descend: a copy of the list, then the nearest.  On  *)
(* no improvement the next layer down, or the searches.                    *)
Descend(w) ==
    LET k == worker[w]
        level == corpus.level[k.node]
        best == FoldLeft(LAMBDA b, n : IF Dist(k.node, n) < Dist(k.node, b) THEN n ELSE b,
                         k.ep, graph[k.ep][Below(k.layer, corpus.level[k.ep])])
    IN  /\ k.pc = "descend"
        /\ Become(w, IF best # k.ep THEN [k EXCEPT !.ep = best]
                     ELSE IF k.layer - 1 > level THEN [k EXCEPT !.layer = @ - 1]
                     ELSE Searching(k, Below(level, k.limit), {k.ep}))
        /\ UNCHANGED <<corpus, graph, entry, batch>>

Met(q, k, n) ==
    IF n \in k.seen THEN k
    ELSE LET room == Cardinality(k.found) < Ef
             near == room \/ Dist(q, n) < Dist(q, FurthestFrom(q, k.found))
             found == k.found \cup {n}
         IN  [k EXCEPT !.seen = @ \cup {n},
                       !.frontier = IF near THEN @ \cup {n} ELSE @,
                       !.found = IF ~near THEN @ ELSE IF room THEN found
                                 ELSE found \ {FurthestFrom(q, found)}]

(* One round of search_layer; its end hands the candidates on.             *)
Search(w) ==
    LET k == worker[w]
        q == k.node
        c == NearestTo(q, k.frontier)
        over == \/ k.frontier = {}
                \/ /\ Cardinality(k.found) >= Ef
                   /\ Dist(q, c) > Dist(q, FurthestFrom(q, k.found))
        popped == [k EXCEPT !.frontier = @ \ {c}]
        met == FoldLeft(LAMBDA s, n : Met(q, s, n),
                        [seen |-> k.seen, frontier |-> popped.frontier, found |-> k.found],
                        graph[c][k.layer])
    IN  /\ k.pc = "search"
        /\ Become(w, IF over
                     THEN [k EXCEPT !.pc = "extend", !.pool = k.found,
                                    !.left = IF Extends THEN k.found ELSE {}]
                     ELSE IF k.layer > corpus.level[c] THEN popped
                     ELSE [k EXCEPT !.seen = met.seen, !.frontier = met.frontier,
                                    !.found = met.found])
        /\ UNCHANGED <<corpus, graph, entry, batch>>

(* extendCandidates: the neighbours of one more candidate join the pool.   *)
Extend(w) ==
    LET k == worker[w]
        c == NearestTo(k.node, k.left)
        more == IF k.layer > corpus.level[c] THEN {} ELSE ToSet(graph[c][k.layer])
    IN  /\ k.pc = "extend" /\ k.left # {}
        /\ Become(w, [k EXCEPT !.pool = @ \cup more, !.left = @ \ {c}])
        /\ UNCHANGED <<corpus, graph, entry, batch>>

(* The node's own list is overwritten: a link that another worker pushed   *)
(* to it meanwhile is gone.                                                *)
Link(w) ==
    LET k == worker[w]
        selected == select_from(k.node, SetToSeq(k.pool), Degree(k.layer))
    IN  /\ k.pc = "extend" /\ k.left = {}
        /\ graph' = [graph EXCEPT ![k.node][k.layer] = selected]
        /\ Become(w, [k EXCEPT !.pc = "back", !.links = selected])
        /\ UNCHANGED <<corpus, entry, batch>>

Pruned(n, layer, list) ==
    IF Len(list) > Degree(layer) THEN select_from(n, list, Degree(layer)) ELSE list

BackLink(w) ==
    LET k == worker[w]
        n == Head(k.links)
    IN  /\ k.pc = "back" /\ k.links # <<>>
        /\ graph' = IF k.layer > corpus.level[n] THEN graph
                    ELSE [graph EXCEPT ![n][k.layer] = Pruned(n, k.layer, Append(@, k.node))]
        /\ Become(w, [k EXCEPT !.links = Tail(@)])
        /\ UNCHANGED <<corpus, entry, batch>>

(* The layer below starts from all that this one found.                    *)
NextLayer(w) ==
    LET k == worker[w]
    IN  /\ k.pc = "back" /\ k.links = <<>>
        /\ Become(w, IF k.layer = 0 THEN [k EXCEPT !.pc = "promote"]
                     ELSE Searching(k, k.layer - 1, k.found))
        /\ UNCHANGED <<corpus, graph, entry, batch>>

(* A fault: only the level read when the insertion began is compared.      *)
HigherThanRead(k) == corpus.level[k.node] > k.limit
(* The level is compared again under the write lock.                       *)
Higher(k) == corpus.level[k.node] > k.limit /\ corpus.level[k.node] > entry.level

Promote(w) ==
    LET k == worker[w]
    IN  /\ k.pc = "promote"
        /\ entry' = IF Higher(k) THEN [node |-> k.node, level |-> corpus.level[k.node]]
                    ELSE entry
        /\ Become(w, Between)
        /\ UNCHANGED <<corpus, graph, batch>>

(* The leader joins the workers of a batch; check_interrupt may raise a    *)
(* cancellation, which ends the build.                                     *)
Join ==
    /\ ~Cancelled /\ ~Built
    /\ \A w \in DOMAIN worker : worker[w].pc = "joined"
    /\ \E start \in {-1, BatchEnd(batch.start)} : batch' = [start |-> start, next |-> start]
    /\ worker' = [w \in DOMAIN worker |-> Between]
    /\ UNCHANGED <<corpus, graph, entry>>

HnswNext ==
    \/ \E w \in DOMAIN worker :
          \/ Claim(w) \/ Start(w) \/ Descend(w) \/ Search(w) \/ Extend(w)
          \/ Link(w) \/ BackLink(w) \/ NextLayer(w) \/ Promote(w)
    \/ Join

HnswSpec == HnswInit /\ [][HnswNext]_hnswVars

(***************************************************************************)
(* What from_bytes demands of a persisted graph before it is searched.     *)
(***************************************************************************)
from_bytes_accepts ==
    /\ entry.node \in Nodes
    /\ \A n \in Nodes : \A l \in Layers(n) : ToSet(graph[n][l]) \subseteq Nodes
    /\ \E n \in Nodes : entry.level <= corpus.level[n]

(* Every link of a layer leads to a node that has the layer, and no list   *)
(* is longer than the pages reserve for it.                                *)
LinksFit ==
    \A n \in Nodes : \A l \in Layers(n) :
        /\ Len(graph[n][l]) <= Degree(l)
        /\ \A nb \in ToSet(graph[n][l]) : corpus.level[nb] >= l

(* No promotion of a finished batch is lost: the descent of a search       *)
(* begins at the highest node.                                             *)
EntryHighest ==
    /\ entry.node \in Nodes /\ corpus.level[entry.node] = entry.level
    /\ \A n \in 0 .. (batch.start - 1) : corpus.level[n] <= entry.level

(* Every node that a finished batch has inserted has somewhere to go from. *)
(* Node 0, which none inserts, may have none: EntryFindsNeighbours.        *)
NoneAlone == batch.start > 1 => \A n \in 1 .. (batch.start - 1) : graph[n][0] # <<>>

(* "A slightly-stale entry still finds neighbors (connected graph)".       *)
EntryFindsNeighbours == batch.start > 1 => graph[entry.node][0] # <<>>

(* One worker builds what the sequential build does: lists that name no    *)
(* node twice, nor the node they belong to.                                *)
ListsClean ==
    \A n \in Nodes : \A l \in Layers(n) :
        n \notin ToSet(graph[n][l]) /\ IsInjective(graph[n][l])

(* Whatever the workers do between each other's locks, the graph of a      *)
(* finished batch can be searched and extended, that of the last one       *)
(* packed and read back (build_parallel, insert_node).                     *)
GraphSound ==
    /\ LinksFit
    /\ EntryHighest /\ NoneAlone
    /\ Built => from_bytes_accepts
    /\ corpus.threads = 1 => ListsClean
=============================================================================
