-------------------------------- MODULE MCPlanSwap --------------------------------
(* A small instance of PlanSwap for TLC: two plain aggregates of one table, of one  *)
(* shape, whose WHERE clauses differ: the executor can push the second, not the     *)
(* first.                                                                           *)
EXTENDS PlanSwap

Aggregate(id, agg, where) ==
  [id |-> id, table |-> "t", targets |-> <<<<"agg", agg>>>>, where |-> where, plain |-> TRUE,
   strategy |-> "plain", sortedBy |-> <<>>, ascending |-> TRUE, text |-> FALSE,
   resorted |-> FALSE, limit |-> "none"]

TwoAggregates == {Aggregate(1, "sum", "other"), Aggregate(2, "avg", "pushable")}
=============================================================================
