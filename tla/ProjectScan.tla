------------------------------- MODULE ProjectScan -------------------------------
(***************************************************************************)
(* The projecting columnar scan (am/columnar_project.rs): a custom plan    *)
(* node which tells the table access method the columns its plan reads and *)
(* the predicates that may skip chunk groups, through two slots of the     *)
(* backend which carry the scan descriptor they are meant for and are set  *)
(* during each pull.  Plans without such a node scan the same tables.      *)
(***************************************************************************)
EXTENDS Naturals, Sequences, SequencesExt

CONSTANTS NodeAddresses, \* where a node's state may be allocated
          Descriptors,   \* where a scan descriptor may be allocated
          Columns, Preds,
          Absent,        \* an empty slot, no registry entry, no node
          ScanDepth,     \* bound: nested pulls
          ScanSubs       \* bound: nested subtransactions

VARIABLES projNodes,     \* per address: the live node there
          plainScans,    \* descriptors of scans which are no node's
          wanted,        \* NODE_PROJECTIONS
          pushed,        \* NODE_PREDICATES
          scanSlots,     \* [cols |-> SCAN_PROJECTION, preds |-> SCAN_PREDICATES]
          projPulls,     \* pulls under way: [node, saved]
          projSubs       \* per open subtransaction, the pulls it began under

projVars == <<projNodes, plainScans, wanted, pushed, scanSlots, projPulls, projSubs>>

EmptySlots == [cols |-> Absent, preds |-> Absent]
Nowhere == [a \in NodeAddresses |-> Absent]

ProjInit ==
  /\ projNodes = Nowhere /\ plainScans = {}
  /\ wanted = Nowhere /\ pushed = Nowhere
  /\ scanSlots = EmptySlots
  /\ projPulls = <<>> /\ projSubs = <<>>

LiveNodes == {a \in NodeAddresses : projNodes[a] # Absent}
InUse == plainScans \cup {projNodes[a].desc : a \in LiveNodes}
PullingNodes == {projPulls[i].node : i \in DOMAIN projPulls}
-----------------------------------------------------------------------------
\* columns_needed: the columns of the target list and of the filter, or nothing
\* when one of their variables is not a plain column of the table.
ColumnsNeeded(plan) == IF plan.simple THEN plan.reads ELSE Absent

\* A fault: a node without a projection leaves the entry of its address alone.
RegistryOnSome(registry, a, value) ==
  IF value = Absent THEN registry ELSE [registry EXCEPT ![a] = value]

\* registry_insert or registry_remove: the address may have been another node's.
Synchronized(registry, a, value) == [registry EXCEPT ![a] = value]

Plans == [reads : SUBSET Columns, quals : SUBSET Preds, simple : BOOLEAN]

\* begin_custom_scan; predicates_needed takes the clauses a zone map can decide.
BeginProjection(a, d, plan) ==
  /\ projNodes[a] = Absent /\ d \notin InUse
  /\ projNodes' = [projNodes EXCEPT ![a] =
                     [desc |-> d, plan |-> plan, sub |-> Len(projSubs)]]
  /\ wanted' = Synchronized(wanted, a, ColumnsNeeded(plan))
  /\ pushed' = [pushed EXCEPT ![a] = plan.quals]
  /\ UNCHANGED <<plainScans, scanSlots, projPulls, projSubs>>

\* exec_custom_scan: both guards installed; an absent or empty entry empties a slot.
StartProjPull(a) ==
  /\ a \in LiveNodes \ PullingNodes /\ Len(projPulls) < ScanDepth
  /\ LET d == projNodes[a].desc IN
     scanSlots' = [cols  |-> IF wanted[a] = Absent THEN Absent ELSE <<d, wanted[a]>>,
                   preds |-> IF pushed[a] \in {Absent, {}} THEN Absent ELSE <<d, pushed[a]>>]
  /\ projPulls' = Append(projPulls, [node |-> a, saved |-> scanSlots])
  /\ UNCHANGED <<projNodes, plainScans, wanted, pushed, projSubs>>

OuterPulls == IF projSubs = <<>> THEN 0 ELSE Last(projSubs)

EndProjPull ==
  /\ Len(projPulls) > OuterPulls
  /\ scanSlots' = Last(projPulls).saved
  /\ projPulls' = Front(projPulls)
  /\ UNCHANGED <<projNodes, plainScans, wanted, pushed, projSubs>>

\* end_custom_scan.
EndProjection(a) ==
  /\ a \in LiveNodes \ PullingNodes
  /\ projNodes' = [projNodes EXCEPT ![a] = Absent]
  /\ wanted' = [wanted EXCEPT ![a] = Absent]
  /\ pushed' = [pushed EXCEPT ![a] = Absent]
  /\ UNCHANGED <<plainScans, scanSlots, projPulls, projSubs>>

\* A scan of a plan without the node.
PlainScan(d) ==
  \/ d \notin InUse /\ plainScans' = plainScans \cup {d}
  \/ d \in plainScans /\ plainScans' = plainScans \ {d}

PlainScanStep(d) ==
  PlainScan(d) /\ UNCHANGED <<projNodes, wanted, pushed, scanSlots, projPulls, projSubs>>

ProjBeginSub ==
  /\ Len(projSubs) < ScanSubs
  /\ projSubs' = Append(projSubs, Len(projPulls))
  /\ UNCHANGED <<projNodes, plainScans, wanted, pushed, scanSlots, projPulls>>

\* The subtransaction's nodes are its parent's from now on.
ProjEndSub ==
  /\ projSubs # <<>> /\ Len(projPulls) = Last(projSubs)
  /\ projSubs' = Front(projSubs)
  /\ projNodes' = [a \in NodeAddresses |->
                     IF a \in LiveNodes /\ projNodes[a].sub = Len(projSubs)
                       THEN [projNodes[a] EXCEPT !.sub = @ - 1] ELSE projNodes[a]]
  /\ UNCHANGED <<plainScans, wanted, pushed, scanSlots, projPulls>>

\* subxact_clear, after the guards dropped: the abandoned nodes and scans are freed,
\* their registry entries stay.
ProjCatchError ==
  /\ projSubs # <<>>
  /\ projPulls' = SubSeq(projPulls, 1, Last(projSubs))
  /\ scanSlots' = EmptySlots
  /\ projNodes' = [a \in NodeAddresses |->
                     IF a \in LiveNodes /\ projNodes[a].sub = Len(projSubs)
                       THEN Absent ELSE projNodes[a]]
  /\ plainScans' \in SUBSET plainScans
  /\ projSubs' = Front(projSubs)
  /\ UNCHANGED <<wanted, pushed>>

\* xact_clear, at the end of the transaction.
ProjEndXact ==
  /\ projNodes' = Nowhere /\ plainScans' = {}
  /\ wanted' = Nowhere /\ pushed' = Nowhere
  /\ scanSlots' = EmptySlots
  /\ projPulls' = <<>> /\ projSubs' = <<>>

ProjNext ==
  \/ \E a \in NodeAddresses :
       \/ \E d \in Descriptors, plan \in Plans : BeginProjection(a, d, plan)
       \/ StartProjPull(a) \/ EndProjection(a)
  \/ EndProjPull
  \/ \E d \in Descriptors : PlainScanStep(d)
  \/ ProjBeginSub \/ ProjEndSub \/ ProjCatchError \/ ProjEndXact

ProjSpec == ProjInit /\ [][ProjNext]_projVars
-----------------------------------------------------------------------------
(* What the access method reads when a scan loads its next chunk group.     *)

\* A fault: the slot is taken whichever scan it is meant for.
SlotUnkeyed(slot, d) == slot # Absent

\* scan_projection and scan_predicates compare the descriptor.
MeantFor(slot, d) == slot # Absent /\ slot[1] = d

ScanProjection(d) == IF MeantFor(scanSlots.cols, d) THEN scanSlots.cols[2] ELSE Columns
ScanPredicates(d) == IF MeantFor(scanSlots.preds, d) THEN scanSlots.preds[2] ELSE {}

\* Every scan decodes the columns its own plan reads and skips chunk groups by
\* predicates of its own filter only, whatever nests in a pull, failed during one,
\* or had a node or a descriptor at the same address before.
OwnColumnsAndPredicates ==
  /\ \A a \in LiveNodes :
       LET n == projNodes[a] IN
       /\ (IF n.plan.simple THEN n.plan.reads ELSE Columns) \subseteq ScanProjection(n.desc)
       /\ ScanPredicates(n.desc) \subseteq n.plan.quals
  /\ \A d \in plainScans : ScanProjection(d) = Columns /\ ScanPredicates(d) = {}
=============================================================================
