------------------------------ MODULE GraphTraversal ------------------------------
(***************************************************************************)
(* The adjacency of a graph in compressed-sparse-row form and the          *)
(* traversals over it (graph.rs), the bounded paths of graph_pgq.rs.       *)
(* Edge rows are pairs of node ids.                                        *)
(***************************************************************************)
EXTENDS Integers, Sequences, FiniteSets, SequencesExt, FiniteSetsExt

CONSTANTS NoId,    \* a null in an array of ids
          Tile,    \* traversals one pass carries (64)
          MaxHops


TotalOf(f, set) == FoldSet(LAMBDA x, acc : f[x] + acc, 0, set)

\* build_csr: degrees, offsets, and each edge entered from both of its ends.
BuildCsr(rows) ==
  LET list == SetToSeq(rows)
      nn == IF rows = {} THEN 0 ELSE Max({r[1] : r \in rows} \cup {r[2] : r \in rows}) + 1
      \* the neighbours of n in the order the edges are met: both ends of a loop
      of(n, r) == (IF r[1] = n THEN <<r[2]>> ELSE <<>>) \o (IF r[2] = n THEN <<r[1]>> ELSE <<>>)
      neighbours == [n \in 0..(nn - 1) |-> FlattenSeq([i \in DOMAIN list |-> of(n, list[i])])]
      deg == [n \in 0..(nn - 1) |-> Len(neighbours[n])]
  IN  [nnodes  |-> nn,
       offsets |-> [n \in 0..nn |-> TotalOf(deg, 0..(n - 1))],
       adj     |-> FlattenSeq([n \in 1..nn |-> neighbours[n - 1]])]

\* A fault: a node's neighbours end one before the next node's begin.
AdjacentShort(csr, n) == {csr.adj[i] : i \in (csr.offsets[n] + 1)..(csr.offsets[n + 1] - 1)}

Adjacent(csr, n) == {csr.adj[i] : i \in (csr.offsets[n] + 1)..csr.offsets[n + 1]}

ValidSeeds(csr, seeds) == {s \in seeds : s >= 0 /\ s < csr.nnodes}

\* Csr::expand: the visited set and the frontier after h hops.
Frontiers(csr, seeds) ==
  LET f[h \in 0..MaxHops] ==
        IF h = 0 THEN [visited |-> ValidSeeds(csr, seeds), frontier |-> ValidSeeds(csr, seeds)]
        ELSE LET next == UNION {Adjacent(csr, n) : n \in f[h - 1].frontier} \ f[h - 1].visited
             IN  [visited |-> f[h - 1].visited \cup next, frontier |-> next]
  IN  f

Expand(csr, seeds, hops) == Frontiers(csr, seeds)[Max({hops, 0})].visited

\* A fault: what a lane reaches is marked for the lanes that follow it.
NewLanesOfVertex(visit, seen) == IF seen = {} THEN visit ELSE {}

\* expand_multi: the lanes that reach a neighbour for the first time.
NewLanes(visit, seen) == visit \ seen

\* One pass: sets of lanes per vertex for `visit` and `seen`, all lanes together.
MultiPass(csr, lanes, which, hops) ==
  LET nodes == 0..(csr.nnodes - 1)
      start == [n \in nodes |-> {l \in which : n \in lanes[l]}]
      f[h \in 0..MaxHops] ==
        IF h = 0 THEN [visit |-> start, seen |-> start]
        ELSE LET prev == f[h - 1]
                 reach == [n \in nodes |->
                            UNION {NewLanes(prev.visit[v], prev.seen[n]) :
                                     v \in {u \in nodes : n \in Adjacent(csr, u)}}]
             IN  [visit |-> reach, seen |-> [n \in nodes |-> prev.seen[n] \cup reach[n]]]
  IN  f[Max({hops, 0})].seen

\* Lanes are taken in tiles; a lane's result is what its own tile saw.
ExpandMulti(csr, lanes, hops) ==
  [l \in DOMAIN lanes |->
     LET base == ((l - 1) \div Tile) * Tile
         seen == MultiPass(csr, lanes, (base + 1)..Min({base + Tile, Len(lanes)}), hops)
     IN  {n \in DOMAIN seen : l \in seen[n]}]

\* group_seed_lanes: parallel arrays, a pair with a null skipped, sets in order met.
GroupSeedLanes(pairs) ==
  LET whole == SelectSeq(pairs, LAMBDA p : NoId \notin {p[1], p[2]})
      first(i) == \A j \in 1..(i - 1) : whole[j][1] # whole[i][1]
      firsts == SetToSortSeq({i \in DOMAIN whole : first(i)}, <)
  IN  [l \in DOMAIN firsts |->
         [set |-> whole[firsts[l]][1],
          seeds |-> {whole[i][2] : i \in {j \in DOMAIN whole : whole[j][1] = whole[firsts[l]][1]}}]]

\* _pgq_match: within `hi` hops but not within `lo` - 1, from two traversals.
PgqMatch(csr, seeds, lo, hi) ==
  Expand(csr, seeds, hi) \ (IF lo <= 0 THEN {} ELSE Expand(csr, seeds, lo - 1))
-----------------------------------------------------------------------------
\* The nodes within `hops` undirected edges, from the edges themselves.
Reachable(rows, seeds, hops) ==
  LET nodes == {r[1] : r \in rows} \cup {r[2] : r \in rows}
      within[h \in 0..MaxHops] ==
        IF h = 0 THEN seeds \cap (0..(IF rows = {} THEN -1 ELSE Max(nodes)))
        ELSE within[h - 1] \cup
               {n \in nodes : \E m \in within[h - 1] : <<m, n>> \in rows \/ <<n, m>> \in rows}
  IN  within[hops]

\* Every traversal, alone, as one lane of several in tiles, or as a shell of a path
\* pattern, finds the nodes the edge relation puts at that distance from the ids
\* given for it.  `pairs` are the parallel arrays of graph_expand_multi.
TraversalsExact(rows, pairs) ==
  LET csr == BuildCsr(rows)
      lanes == GroupSeedLanes(pairs)
      multi(hops) == ExpandMulti(csr, [l \in DOMAIN lanes |-> lanes[l].seeds], hops)
      given(set) == {p[2] : p \in {q \in ToSet(pairs) : q[1] = set /\ q[2] # NoId}}
      sets == {p[1] : p \in {q \in ToSet(pairs) : NoId \notin {q[1], q[2]}}}
  IN  /\ {lanes[l].set : l \in DOMAIN lanes} = sets /\ Len(lanes) = Cardinality(sets)
      /\ \A hops \in 0..MaxHops : \A l \in DOMAIN lanes :
           LET seeds == given(lanes[l].set) IN
           /\ multi(hops)[l] = Reachable(rows, seeds, hops)
           /\ Expand(csr, seeds, hops) = Reachable(rows, seeds, hops)
           /\ hops > 0 => PgqMatch(csr, seeds, hops, hops) =
                Reachable(rows, seeds, hops) \ Reachable(rows, seeds, hops - 1)
=============================================================================
