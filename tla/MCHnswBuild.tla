------------------------------ MODULE MCHnswBuild ------------------------------
(* A build of seven nodes by four workers for TLC, in the order of a script: every step *)
(* is one of HnswBuild's.                                                               *)
EXTENDS HnswBuild

VARIABLES turn              \* the turn of the script at work

Points == <<0, 30, 20, 10, 18, 17, 11>>
OneCorpus == {[at |-> [n \in 0..6 |-> Points[n + 1]], level |-> [n \in 0..6 |-> 2], threads |-> 4]}

Until(w, pc, node, layer) == [worker |-> w, pc |-> pc, node |-> node, layer |-> layer]

\* Worker 1 has linked its node to node 0 on the uppermost layer, 2 and 3 have found both
\* there; the fourth inserts two nodes next to theirs.  When 3, 2 and 1 come to the ground
\* layer, all that they keep is nearer than node 0.
Script == <<
  Until(1, "search", 1, 1), Until(2, "extend", 2, 2), Until(3, "extend", 3, 2),
  Until(2, "search", 2, 1), Until(4, "promote", 4, 0), Until(4, "start", 5, 0),
  Until(4, "promote", 5, 0), Until(3, "promote", 3, 0), Until(4, "start", 6, 0),
  Until(4, "promote", 6, 0), Until(2, "promote", 2, 0), Until(1, "promote", 1, 0),
  Until(1, "joined", 0, 0), Until(2, "joined", 0, 0), Until(3, "joined", 0, 0),
  Until(4, "joined", 0, 0)>>

Came == LET to == Script[turn]
            k == worker'[to.worker]
        IN  k.pc = to.pc /\ k.node = to.node /\ k.layer = to.layer

ScriptNext ==
  \/ /\ turn <= Len(Script)
     /\ \E w \in {Script[turn].worker} :
           \/ Claim(w) \/ Start(w) \/ Descend(w) \/ Search(w) \/ Extend(w)
           \/ Link(w) \/ BackLink(w) \/ NextLayer(w) \/ Promote(w)
     /\ turn' = IF Came THEN turn + 1 ELSE turn
  \/ turn > Len(Script) /\ Join /\ UNCHANGED turn

ScriptSpec == HnswInit /\ turn = 1 /\ [][ScriptNext]_<<hnswVars, turn>>
=============================================================================
