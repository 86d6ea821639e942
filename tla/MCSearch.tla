-------------------------------- MODULE MCSearch --------------------------------
(***************************************************************************)
(* For TLC, the vector index and the components that plan and answer       *)
(* queries: index scans, their filters and their pages, the planner hook,  *)
(* the projecting scan, the aggregate executor, the build of an HNSW       *)
(* graph, graph traversals, hybrid search and the calls to model           *)
(* endpoints.  One instance is checked at a time: "part" says which and    *)
(* never changes, the variables of the others keep their initial values.   *)
(***************************************************************************)
EXTENDS VectorIndex, VecFilter, AnnScan, ProjectScan, PlanSwap, ColumnarQuery, RemoteCalls,
        HnswBuild, TLC

CONSTANTS Parts,                        \* the parts to check
          s1, t1, t2, v1, v2,           \* a backend, tuple ids, vectors
          a1, a2,                       \* addresses of nodes
          d1, d2,                       \* addresses of scan descriptors
          e1, e2,                       \* endpoints
          null, absent, malformed, error, native

VARIABLES part,
          built,                                                             \* IvfLayout
          input                                     \* GraphTraversal, HybridSearch, HnswLayout

OneSession == {s1}
TwoAddresses == {a1, a2}
TwoDescriptors == {d1, d2}
TwoEndpoints == {e1, e2}
TwoTids == {t1, t2}
TwoVectors == {v1, v2}
AllLayouts == {"hnsw", "ivf", "aq"}
-----------------------------------------------------------------------------
(* Scans of a vector index.  Rows are in the order of their distance; 1, 2 *)
(* and 3 are stored, 4 may be inserted during the scan.                    *)

Stored123 == {1, 2, 3}
NoEdge == [r \in 1..4 |-> <<>>]
\* A record keeps two labels: row 1 has a third.
RowLabels == [r \in 1..4 |-> CASE r = 1 -> <<1, 2, 3>> [] r = 3 -> <<1, 3>> [] OTHER -> <<2>>]
ByRow == [r \in 1..4 |-> r]
Chain321 == [NoEdge EXCEPT ![3] = <<2>>, ![2] = <<1>>]
Swapped13 == [ByRow EXCEPT ![1] = 3, ![3] = 1]

\* Every row has no neighbour, one, or both of the others.
NearLists(r) ==
  IF r \notin Stored123 THEN {<<>>}
  ELSE LET others == Stored123 \ {r} IN {<<>>, <<Min(others), Max(others)>>} \cup {<<o>> : o \in others}
NearGraphs == {n \in [1..4 -> UNION {NearLists(r) : r \in 1..4}] : \A r \in 1..4 : n[r] \in NearLists(r)}

HnswIndexes ==
  {[kind |-> "hnsw", resumes |-> o[1], exact |-> o[2] = ByRow, upper |-> o[3], near |-> near,
    entry |-> 3, dead |-> dead, lists |-> <<>>, pooled |-> FALSE, inline |-> {}, score |-> o[2],
    labels |-> RowLabels, pending |-> {}] :
      o \in {<<TRUE, ByRow, NoEdge>>, <<FALSE, ByRow, NoEdge>>, <<TRUE, Swapped13, NoEdge>>,
             <<TRUE, ByRow, Chain321>>, <<FALSE, ByRow, Chain321>>},
      near \in NearGraphs, dead \in SUBSET Stored123}

IvfIndexes ==
  {[kind |-> "ivf", resumes |-> FALSE, exact |-> FALSE, upper |-> NoEdge, near |-> NoEdge,
    entry |-> 1, dead |-> {}, lists |-> [i \in 1..3 |-> {r \in Stored123 : list[r] = i}],
    pooled |-> pooled, inline |-> inline, score |-> score, labels |-> RowLabels, pending |-> {}] :
      pooled \in BOOLEAN, inline \in {{}, {"tids"}, {"labels", "tids"}},
      score \in {s \in [1..4 -> 1..4] : /\ \A a, b \in 1..4 : s[a] = s[b] => a = b
                                        /\ s[4] = 4 /\ s[2] # 2},
      list \in [Stored123 -> 1..3]}

AnnFilters ==
  {[labelled |-> FALSE, labels |-> {}, member |-> FALSE, admitted |-> {}, want |-> {}],
   [labelled |-> TRUE, labels |-> {3}, member |-> FALSE, admitted |-> {}, want |-> {}],
   [labelled |-> FALSE, labels |-> {}, member |-> TRUE, admitted |-> {1, 3}, want |-> {3, 4}]}

FourRows == 1..4
AnnIndexes == HnswIndexes \cup IvfIndexes
AnyIndex == {CHOOSE i \in AnnIndexes : TRUE}

\* The hypothesis of the theorems on AnnScan holds of these indexes and filters.
ASSUME AnnHypothesis == SetsAdmitMatches

\* One to three lists of up to three rows, one to three subspaces, seven writers.
IvfInputs ==
  {[writer |-> w, dim |-> d, m |-> d, counts |-> counts] :
     w \in {"structured", "aq", "split", "streaming", "sq8", "labelled", "rabitq"},
     d \in 1..3, counts \in {c \in UNION {[1..k -> 0..3] : k \in 1..3} : \E l \in DOMAIN c : c[l] > 0}}

Ivf == INSTANCE IvfLayout WITH
  index <- built, Chunk <- 5, Lanes <- 2, KStar <- 2, LabelK <- 2, BuiltIndexes <- IvfInputs

\* Graphs of up to three nodes, of a level no page has room for among them; a node is
\* linked to none, to the first or to the last of the others on a layer.
PackedLinks(level, side) ==
  LET n == Len(level)
      Others(node, lc) == {o \in 0..(n - 1) : o # node /\ level[o + 1] >= lc}
  IN  [node \in 0..(n - 1) |-> [lc \in 0..level[node + 1] |->
         IF side = "none" \/ Others(node, lc) = {} THEN <<>>
         ELSE IF side = "first" THEN <<Min(Others(node, lc))>>
         ELSE IF lc = 0 /\ n = 3 THEN <<Max(Others(node, 0)), Min(Others(node, 0))>>
         ELSE <<Max(Others(node, lc))>>]]
PackedGraphs ==
  {[kind |-> q[1], dim |-> q[2], m |-> 1, subspaces |-> q[3], level |-> level,
    links |-> PackedLinks(level, side),
    entry |-> IF level = <<>> THEN 0 ELSE (CHOOSE i \in DOMAIN level : level[i] = Max(Range(level))) - 1,
    base |-> base, dead |-> dead] :
      q \in {<<"none", 2, 0>>, <<"none", 4, 0>>, <<"sbq", 2, 0>>, <<"aq", 2, 1>>, <<"aq", 2, 2>>,
             <<"aq", 2, 3>>, <<"aq", 4, 2>>, <<"aq", 4, 4>>, <<"aq", 5, 5>>},
      level \in UNION {[1..n -> {0, 1, 2, 8}] : n \in 0..3}, side \in {"none", "first", "last"},
      base \in {1, 4}, dead \in {{}, {0}}}

Paged == INSTANCE HnswLayout WITH
  Usable <- 20, CbChunk <- 4, KStar <- 2, Byte <- 4, Failed <- error

\* WHERE clauses that match one row, and two of different pages.
TwoQuals == {{<<1, 1>>}, {<<1, 2>>, <<2, 1>>}}
-----------------------------------------------------------------------------
(* Columnar plans and queries, graph traversals, remote calls.             *)

QueryBlock(id, table, targets, where, strategy, limit) ==
  [id |-> id, table |-> table, targets |-> targets, where |-> where, plain |-> TRUE,
   strategy |-> strategy, sortedBy |-> SelectSeq(targets, LAMBDA t : t[1] = "key"),
   ascending |-> TRUE, text |-> FALSE, resorted |-> FALSE, limit |-> limit]

\* Aggregates with a WHERE that cannot and one that can be pushed, sorted and hashed
\* groups, an aggregate over a cached heap table, and a top-k query.
QueryBlocks ==
  {QueryBlock(1, "t", <<<<"agg", "sum">>>>, "other", "plain", "none"),
   QueryBlock(2, "t", <<<<"agg", "avg">>>>, "pushable", "plain", "none"),
   QueryBlock(3, "t", <<<<"key", "a">>, <<"agg", "sum">>, <<"const", "1">>>>, "none", "sorted",
              "none"),
   QueryBlock(4, "t", <<<<"expr", "d">>, <<"agg", "sum">>, <<"key", "a">>, <<"agg", "max">>>>,
              "none", "hashed", "none"),
   QueryBlock(5, "h", <<<<"agg", "sum">>>>, "none", "plain", "none"),
   QueryBlock(6, "t", <<<<"key", "a">>, <<"key", "b">>>>, "pushable", "plain", "const")}

\* Two columns: a group key and a value, each possibly NULL.
QueryRows == {<<2, 2>>, <<2, null>>, <<null, 1>>}

\* The hypothesis of the theorems on ColumnarQuery holds of these rows.
ASSUME QueryHypothesis == KeysAreNumbers

Traversal == INSTANCE GraphTraversal WITH NoId <- null, Tile <- 2, MaxHops <- 2

\* Up to three edges among three nodes; three (set, seed) pairs, one null, one no node.
TraversalInputs ==
  LET pairs == {<<7, 0>>, <<7, 2>>, <<8, 1>>, <<9, 5>>, <<7, null>>}
  IN  [rows : UNION {kSubset(k, (0..2) \X (0..2)) : k \in 0..3}, pairs : [1..3 -> pairs]]

\* Conditions that are and are not a filter, both legs or one, limits that cut among
\* equals, that are the defaults, that do not fit 32 bits, that are none.
Condition(op, value, holds) ==
  [op |-> op, value |-> value, holds |-> holds, breaks |-> FALSE]
QuotesComment(c) == [c EXCEPT !.breaks = TRUE]
HybridFilters ==
  {[filter |-> f, filter_sql |-> absent] : f \in
     {absent, malformed, <<>>,
      <<Condition("<", "scalar", {1, 2}), Condition("IN", "array", {2, 3})>>,
      <<Condition("IN", "empty", {1})>>, <<Condition("LIKE", "scalar", {1})>>,
      <<QuotesComment(Condition("=", "scalar", {1}))>>}}
  \cup {[filter |-> f, filter_sql |-> sql] :
          f \in {absent, <<Condition("=", "scalar", {1, 2})>>},
          sql \in {malformed, [breaks |-> FALSE, holds |-> {1, 3}],
                   [breaks |-> TRUE, holds |-> {1}]}}
HybridQueries ==
  {[query_text |-> q[1], query_vector |-> q[2], embeds |-> q[3]] :
     q \in {<<"q", absent, TRUE>>, <<"q", absent, FALSE>>, <<absent, "v", FALSE>>,
            <<absent, absent, TRUE>>}}
HybridEngines ==
  {[lexical_engine |-> e[1], content_text_col |-> e[2], pg_textsearch |-> e[3]] :
     e \in {<<"ts_rank_cd", absent, FALSE>>, <<"bm25", "text", TRUE>>, <<"bm25", absent, TRUE>>}}
HybridLimits ==
  {[k |-> 1, per_leg_limit |-> l[1], result_limit |-> l[2]] :
     l \in {<<1, 2>>, <<absent, absent>>, <<258, 1>>, <<2, 0>>}}
HybridInputs ==
  {f @@ q @@ e @@ l @@ [distance |-> d, score |-> s, vector_weight |-> 1, text_weight |-> w] :
     f \in HybridFilters, q \in HybridQueries, e \in HybridEngines, l \in HybridLimits,
     d \in {q \in [1..3 -> {0, 1, absent}] : q[1] # 1}, w \in {1, 2},
     s \in {<<2, 2, 1>>, <<absent, 1, 0>>, <<1, 0, absent>>, <<1, 2, 1>>}}

Hybrid == INSTANCE HybridSearch WITH
  Absent <- absent, Malformed <- malformed, Refused <- error, Scale <- 12, Width <- 256

\* One node alone, and four in three arrangements on a line, of any levels up to 2, one or
\* two workers.
ByNode(s) == [n \in 0..3 |-> s[n + 1]]
OneNode == [at |-> [n \in {0} |-> 0], level |-> [n \in {0} |-> 0], threads |-> 1]
HnswCorpora ==
  {OneNode} \cup
  {[at |-> ByNode(at), level |-> ByNode(level), threads |-> threads] :
     at \in {<<0, 1, 3, 7>>, <<3, 0, 7, 1>>, <<1, 7, 0, 3>>}, level \in [1..4 -> 0..2],
     threads \in 1..2}
-----------------------------------------------------------------------------
(* One part at a time.                                                     *)

pureVars == <<built, input>>
searchVars == <<part, vars, annVars, filterVars, projVars, planVars, queryVars, callVars,
                pureVars, hnswVars>>

SearchInit ==
  /\ part \in Parts
  /\ corpus \in (IF part = "build" THEN Corpora ELSE {OneNode})
  /\ HnswInit
  /\ Init
  /\ part # "index" => layout = "ivf"
  /\ annIndex \in (IF part = "ann" THEN AnnIndexes ELSE AnyIndex)
  /\ AnnInit
  /\ IF part = "layout" THEN Ivf!LayoutInit ELSE built = absent
  /\ CASE part = "traversal" -> input \in TraversalInputs
       [] part = "hybrid" -> input \in HybridInputs
       [] part = "pages" -> input \in PackedGraphs
       [] OTHER -> input = absent
  /\ FilterInit
  /\ ProjInit
  /\ PlanInit
  /\ QueryInit
  /\ CallInit

SearchNext ==
  \/ /\ part = "index" /\ Next
     /\ UNCHANGED <<part, annVars, filterVars, projVars, planVars, queryVars, callVars,
                    pureVars, hnswVars>>
  \/ /\ part = "ann" /\ AnnNext
     /\ UNCHANGED <<part, vars, filterVars, projVars, planVars, queryVars, callVars, pureVars,
                    hnswVars>>
  \/ /\ part = "filter" /\ FilterNext
     /\ UNCHANGED <<part, vars, annVars, projVars, planVars, queryVars, callVars, pureVars,
                    hnswVars>>
  \/ /\ part = "project" /\ ProjNext
     /\ UNCHANGED <<part, vars, annVars, filterVars, planVars, queryVars, callVars, pureVars,
                    hnswVars>>
  \/ /\ part = "plan" /\ PlanNext
     /\ UNCHANGED <<part, vars, annVars, filterVars, projVars, queryVars, callVars, pureVars,
                    hnswVars>>
  \/ /\ part = "query" /\ QueryNext
     /\ UNCHANGED <<part, vars, annVars, filterVars, projVars, planVars, callVars, pureVars,
                    hnswVars>>
  \/ /\ part = "remote" /\ CallNext
     /\ UNCHANGED <<part, vars, annVars, filterVars, projVars, planVars, queryVars, pureVars,
                    hnswVars>>
  \/ /\ part = "build" /\ HnswNext
     /\ UNCHANGED <<part, vars, annVars, filterVars, projVars, planVars, queryVars, callVars,
                    pureVars>>

SearchSpec == SearchInit /\ [][SearchNext]_searchVars
-----------------------------------------------------------------------------
(* The properties of VectorIndex, AnnScan, VecFilter, ProjectScan,         *)
(* PlanSwap, ColumnarQuery, RemoteCalls and HnswBuild are the modules'     *)
(* own: the other parts leave their variables as they start.               *)

\* IvfLayout's IndexReadsBack and HnswLayout's GraphReadsBack: what the seven writers of
\* lists and the three of graphs write, scans and folds read.
IndexReadsBack ==
  /\ part = "layout" => Ivf!IndexReadsBack
  /\ part = "pages" => Paged!GraphReadsBack(input)

-----------------------------------------------------------------------------
(* Plans, queries, traversals and calls.                                   *)

\* GraphTraversal's TraversalsExact: every traversal of graph.rs against the edges.
TraversalsExact == part = "traversal" => Traversal!TraversalsExact(input.rows, input.pairs)

\* HybridSearch's FusionSound: every answer that run_rrf may give.
FusionSound == part = "hybrid" => Hybrid!FusionSound(input)

=============================================================================
