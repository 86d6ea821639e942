-------------------------------- MODULE PlanSwap --------------------------------
(***************************************************************************)
(* Replacing planned aggregates and top-k sorts by columnar scans          *)
(* (am/columnar_agg.rs).  While a statement is planned, each query block   *)
(* whose aggregation the executor can run leaves its admission in a        *)
(* backend-wide stash; when the plan is finished a walk replaces the Agg   *)
(* nodes by what it finds there.  A planner run may start inside another   *)
(* one (a function evaluated while a plan is made) and may fail.           *)
(* A block is a record: id, table, targets (pairs of a kind and a name),   *)
(* where, plain (no HAVING, DISTINCT, window or grouping set), strategy,   *)
(* sortedBy, ascending, text, resorted, limit.                             *)
(***************************************************************************)
EXTENDS Integers, Sequences, FiniteSets, SequencesExt, FiniteSetsExt

CONSTANTS PlanBlocks, \* the query blocks statements are made of
          Columnar,   \* the tables of the columnar access method
          Cached,     \* the heap tables whose columns this backend has cached
          LateMat,    \* theodb.enable_columnar_late_mat
          Native,     \* a node left as the planner made it
          MaxPlanBlocks,  \* bound: blocks of a statement
          PlanDepth,  \* bound: nested planner runs
          MaxRuns     \* bound: planner runs

VARIABLES stash,      \* ADMIT_STASH: admissions of the current run, in order
          planning,   \* planner runs: number, enclosing stash, blocks planned
          runCount,
          planned     \* the last finished plan: its run, and what its nodes became

planVars == <<stash, planning, runCount, planned>>

PlanInit ==
  /\ stash = <<>> /\ planning = <<>> /\ runCount = 0
  /\ planned = [run |-> 0, nodes |-> <<>>]

\* A selection from a sequence, as a fold: PlanSwap's theorems unfold it.
KeepKind(kinds, kept, t) == IF t[1] \in kinds THEN Append(kept, t) ELSE kept
OfKinds(targets, kinds) ==
  FoldLeft(LAMBDA kept, t : KeepKind(kinds, kept, t), <<>>, targets)

OfKind(targets, kind) == OfKinds(targets, {kind})
Keys(b) == OfKinds(b.targets, {"key", "expr"})
Grouped(b) == b.strategy # "plain"
-----------------------------------------------------------------------------
(* Admission.                                                               *)

\* classify_target_node: keys, expressions and constants only under GROUP BY.
ClassifyTargetNode(t, grouped) ==
  \/ t[1] = "agg"
  \/ grouped /\ t[1] \in {"key", "expr", "const"}

\* A fault: a slot's place is counted after it was taken.
LayoutAfterPush(targets) ==
  [i \in DOMAIN targets |->
     <<targets[i][1], Len(OfKind(SubSeq(targets, 1, i), targets[i][1])) + 1>>]

\* The layout: for each target its kind and its place among those of its kind.
Layout(targets) ==
  [i \in DOMAIN targets |->
     <<targets[i][1], Len(OfKind(SubSeq(targets, 1, i), targets[i][1]))>>]

\* build_admission, for a columnar table and for the cache of a heap table.
BuildAdmission(b) ==
  \/ b.table \in Columnar /\ b.where # "other"
  \/ b.table \in Cached /\ ~Grouped(b) /\ b.where = "none"

Admits(b) ==
  /\ b.plain /\ b.limit = "none"
  /\ \A i \in DOMAIN b.targets : ClassifyTargetNode(b.targets[i], Grouped(b))
  /\ Grouped(b) => Keys(b) # <<>>
  /\ BuildAdmission(b)

Admission(b, run) ==
  [run |-> run, table |-> b.table, where |-> b.where,
   slots |-> [kind \in {"key", "expr", "const", "agg"} |-> OfKind(b.targets, kind)],
   layout |-> IF Grouped(b) THEN Layout(b.targets) ELSE <<>>,
   consumed |-> FALSE]

ExpectedArity(e) == IF e.layout = <<>> THEN Len(e.slots["agg"]) ELSE Len(e.layout)
-----------------------------------------------------------------------------
(* The swap, when a plan is finished.                                       *)

\* A fault: the first admission of the table is taken, whatever its shape.
FitsTable(e, b) == ~e.consumed /\ e.table = b.table

Fits(e, b) ==
  /\ ~e.consumed
  /\ e.table = b.table
  /\ Len(e.slots["key"]) + Len(e.slots["expr"]) = Len(Keys(b))
  /\ ExpectedArity(e) = Len(b.targets)

\* A sorted aggregate: text keys need a Sort above, others an ascending input Sort.
OrderReproduced(b) ==
  \/ b.strategy # "sorted"
  \/ IF b.text THEN b.resorted ELSE b.ascending

\* try_swap_agg: the admission is consumed even if the order declines the swap.
TrySwapAgg(walk, b) ==
  LET fitting == {i \in DOMAIN walk.stash : Fits(walk.stash[i], b)}
      i == Min(fitting)
  IN  IF fitting = {} THEN [walk EXCEPT !.nodes = Append(@, [block |-> b, by |-> Native])]
      ELSE [stash |-> [walk.stash EXCEPT ![i].consumed = TRUE],
            nodes |-> Append(walk.nodes,
              [block |-> b, by |-> IF OrderReproduced(b) THEN walk.stash[i] ELSE Native])]

\* try_swap_topk: a Sort under a constant LIMIT over a columnar scan; it reads the
\* scan's own quals, and takes no IN list.
TopKAdmissible(b) ==
  /\ LateMat /\ b.limit = "const" /\ b.table \in Columnar
  /\ \A i \in DOMAIN b.targets : b.targets[i][1] = "key"
  /\ b.where \in {"none", "pushable"}
  /\ b.text => b.ascending

\* Its scan projects the columns in the order of the targets.
TopKScan(b, run) == [Admission(b, run) EXCEPT !.layout = Layout(b.targets)]

TrySwapTopK(run, walk, b) ==
  [walk EXCEPT !.nodes = Append(@,
     [block |-> b, by |-> IF TopKAdmissible(b) THEN TopKScan(b, run) ELSE Native])]

SwapNode(run, walk, b) ==
  IF b.limit = "none" THEN TrySwapAgg(walk, b) ELSE TrySwapTopK(run, walk, b)

\* swap_walk: the plan tree first, then the subplans, though these were planned first.
AtPlace(place, kept, p) == IF p.place = place THEN Append(kept, p.block) ELSE kept
PlannedAt(blocks, place) ==
  FoldLeft(LAMBDA kept, p : AtPlace(place, kept, p), <<>>, blocks)
WalkOrder(blocks) == PlannedAt(blocks, "main") \o PlannedAt(blocks, "sub")

Walk(run, admitted, blocks) ==
  FoldLeft(LAMBDA walk, b : SwapNode(run, walk, b), [stash |-> admitted, nodes |-> <<>>], blocks)

SwapWalk(run) == Walk(run.run, stash, WalkOrder(run.blocks)).nodes
-----------------------------------------------------------------------------
(* The hooks.                                                               *)

\* planner_hook: the enclosing run's stash is put aside.
PlannerEnter ==
  /\ runCount < MaxRuns /\ Len(planning) < PlanDepth
  /\ planning' = Append(planning, [run |-> runCount + 1, saved |-> stash, blocks |-> <<>>])
  /\ runCount' = runCount + 1
  /\ stash' = <<>>
  /\ UNCHANGED planned

\* upper_paths_hook, for the next block of the current run; sublinks come first.
UpperPaths(b, place) ==
  /\ planning # <<>>
  /\ LET run == Last(planning) IN
     /\ Len(run.blocks) < MaxPlanBlocks
     /\ place = "sub" => \A i \in DOMAIN run.blocks : run.blocks[i].place = "sub"
     /\ planning' = [planning EXCEPT ![Len(planning)].blocks =
                       Append(@, [block |-> b, place |-> place])]
     /\ stash' = IF Admits(b) THEN Append(stash, Admission(b, run.run)) ELSE stash
  /\ UNCHANGED <<runCount, planned>>

\* A fault: nothing restores the enclosing stash when the planner fails.
RestoredUnlessFailed(failed) == IF failed THEN stash ELSE Last(planning).saved

\* StashGuard::drop, on return and on error alike.
Restored(failed) == Last(planning).saved

PlannerReturns ==
  /\ planning # <<>>
  /\ LET run == Last(planning) IN
     /\ run.blocks # <<>>
     /\ planned' = [run |-> run.run, nodes |-> SwapWalk(run)]
  /\ planning' = Front(planning)
  /\ stash' = Restored(FALSE)
  /\ UNCHANGED runCount

\* An error leaves the run; the enclosing one goes on if a block there caught it.
PlannerFails ==
  /\ planning # <<>>
  /\ planning' = Front(planning)
  /\ stash' = Restored(TRUE)
  /\ UNCHANGED <<runCount, planned>>

PlanNext ==
  \/ PlannerEnter
  \/ \E b \in PlanBlocks, place \in {"main", "sub"} : UpperPaths(b, place)
  \/ PlannerReturns
  \/ PlannerFails

PlanSpec == PlanInit /\ [][PlanNext]_planVars
-----------------------------------------------------------------------------
(* What the executor makes of an admission (begin_custom_scan and            *)
(* run_columnar_grouped_aggs): one output cell per slot of the layout.       *)

PlanRowOf(e) ==
  IF e.layout = <<>> THEN e.slots["agg"]
  ELSE [i \in DOMAIN e.layout |->
          LET slots == e.slots[e.layout[i][1]] IN
          IF e.layout[i][2] \in DOMAIN slots THEN slots[e.layout[i][2]] ELSE <<"oob", "oob">>]

SwappedNodes == {n \in ToSet(planned.nodes) : n.by # Native}
AnswersOwn(n) == n.by.where = n.block.where /\ PlanRowOf(n.by) = n.block.targets
Shape(b) == <<b.table, Len(Keys(b)), Len(b.targets)>>

\* The comment at planner_hook says of a walk with other entries in the stash that
\* it "never mis-swaps": a node is replaced by a scan that answers that node.
SwapAnswersBlock == \A n \in SwappedNodes : AnswersOwn(n)

\* It is so as long as no two blocks of a statement share table, keys and arity.
DistinctShapesSwapOwn ==
  (\A i, j \in DOMAIN planned.nodes :
     i # j => Shape(planned.nodes[i].block) # Shape(planned.nodes[j].block))
  => \A n \in SwappedNodes : AnswersOwn(n)

\* No node is replaced by what another planner run admitted, whether that run is
\* nested in this one, encloses it, or failed.
SwapFromOwnRun == \A n \in SwappedNodes : n.by.run = planned.run
=============================================================================
