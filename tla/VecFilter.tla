------------------------------- MODULE VecFilter -------------------------------
(***************************************************************************)
(* The filtered vector scan (am/customscan.rs): a custom plan node turns   *)
(* the bitmap of the WHERE clause into a set of tuple ids and hands it to  *)
(* the index scan below it through one slot of the backend, set for the    *)
(* time of each pull.  Every node's set is kept in a registry under the    *)
(* address of its state.  Pulls nest (a function in the filter runs other  *)
(* queries), cursors stay open, errors are caught by subtransactions which *)
(* free the nodes they abandon without ending them.                        *)
(***************************************************************************)
EXTENDS Naturals, Sequences, SequencesExt

CONSTANTS Addresses,  \* where a node's state may be allocated
          Blocks, Offsets,
          Quals,      \* sets of tuple ids a WHERE clause may match
          NoSet,
          MaxDepth,   \* bound: nested pulls
          MaxSubs     \* bound: nested subtransactions

VARIABLES nodes,     \* per address: the live node there, or NoNode
          registry,  \* NODE_MEMBERSHIPS: per address, a set, or NoSet
          active,    \* SCAN_MEMBERSHIP
          pulls,     \* the pulls under way, outermost first: [node, saved]
          subs       \* per open subtransaction, the number of pulls it began under

filterVars == <<nodes, registry, active, pulls, subs>>

TupleIds == Blocks \X Offsets
\* A clause matches tuple ids; "no set" is told from a set.
ASSUME FilterAssumption ==
  Quals \subseteq SUBSET TupleIds /\ NoSet \notin [exact : SUBSET TupleIds, lossy : SUBSET Blocks]

NoNode == [live |-> FALSE, want |-> {}, sub |-> 0]

FilterInit ==
  /\ nodes = [a \in Addresses |-> NoNode]
  /\ registry = [a \in Addresses |-> NoSet]
  /\ active = NoSet
  /\ pulls = <<>>
  /\ subs = <<>>

Pulling == {pulls[i].node : i \in DOMAIN pulls}
-----------------------------------------------------------------------------
(* Planning and building the set.                                           *)

\* What the planner hook asks of a base relation: a vector-ordered path and a
\* bitmap path to combine, and numbers to cost the node with: an analyzed table
\* and the list count of an IVF index, unless the node is forced.
Facts == {"enabled", "base", "vector_path", "bitmap_path", "analyzed", "lists", "forced"}
HonestCost(facts) == {"analyzed", "lists"} \subseteq facts
PathAdded(facts) ==
  /\ {"enabled", "base", "vector_path", "bitmap_path"} \subseteq facts
  /\ "forced" \in facts \/ HonestCost(facts)

\* A fault: a lossy page is read as one without offsets.
MaterializeExactOnly(want, lossy) ==
  [exact |-> {t \in want : t[1] \notin lossy}, lossy |-> {}]

\* materialize_bitmap: the offsets of the exact pages, the numbers of the pages
\* whose offsets the bitmap dropped.
MaterializeBitmap(want, lossy) ==
  [exact |-> {t \in want : t[1] \notin lossy}, lossy |-> lossy]

\* Stage 1 of the index scan under a set: a tuple on a lossy page passes, the
\* filter of the scan rechecks it.
Admitted(set) ==
  IF set = NoSet THEN TupleIds ELSE set.exact \cup {t \in TupleIds : t[1] \in set.lossy}

LossyPages(want) == SUBSET {t[1] : t \in want}

\* begin_custom_scan of a node whose WHERE clause matches `want`.
BeginCustomScan(a, want, lossy) ==
  /\ \E facts \in SUBSET Facts : PathAdded(facts)
  /\ ~nodes[a].live
  /\ nodes' = [nodes EXCEPT ![a] = [live |-> TRUE, want |-> want, sub |-> Len(subs)]]
  /\ registry' = [registry EXCEPT ![a] = MaterializeBitmap(want, lossy)]
  /\ UNCHANGED <<active, pulls, subs>>

\* rescan_custom_scan: the set is derived again (its parameters may have changed)
\* and the vector child rescanned in a window of its own.
RescanCustomScan(a, want, lossy) ==
  /\ nodes[a].live /\ a \notin Pulling
  /\ nodes' = [nodes EXCEPT ![a].want = want]
  /\ registry' = [registry EXCEPT ![a] = MaterializeBitmap(want, lossy)]
  /\ UNCHANGED <<active, pulls, subs>>
-----------------------------------------------------------------------------
(* exec_custom_scan: ActiveGuard::install ... drop.                         *)

StartPull(a) ==
  /\ nodes[a].live /\ a \notin Pulling /\ Len(pulls) < MaxDepth
  /\ registry[a] # NoSet
  /\ pulls' = Append(pulls, [node |-> a, saved |-> active])
  /\ active' = registry[a]
  /\ UNCHANGED <<nodes, registry, subs>>

\* A fault: the window leaves its own set behind.
RestoreKept(saved) == active

Restore(saved) == saved

Base == IF subs = <<>> THEN 0 ELSE Last(subs)

EndPull ==
  /\ Len(pulls) > Base
  /\ active' = Restore(Last(pulls).saved)
  /\ pulls' = Front(pulls)
  /\ UNCHANGED <<nodes, registry, subs>>

\* end_custom_scan.
EndCustomScan(a) ==
  /\ nodes[a].live /\ a \notin Pulling
  /\ nodes' = [nodes EXCEPT ![a] = NoNode]
  /\ registry' = [registry EXCEPT ![a] = NoSet]
  /\ UNCHANGED <<active, pulls, subs>>
-----------------------------------------------------------------------------
(* Transactions.                                                            *)

BeginSub ==
  /\ Len(subs) < MaxSubs
  /\ subs' = Append(subs, Len(pulls))
  /\ UNCHANGED <<nodes, registry, active, pulls>>

\* The subtransaction's nodes are its parent's from now on.
EndSub ==
  /\ subs # <<>> /\ Len(pulls) = Last(subs)
  /\ subs' = Front(subs)
  /\ nodes' = [a \in Addresses |->
                 IF nodes[a].sub = Len(subs) THEN [nodes[a] EXCEPT !.sub = @ - 1] ELSE nodes[a]]
  /\ UNCHANGED <<registry, active, pulls>>

\* A fault: the callback clears the registry as well.
SubAbortClearsAll == [a \in Addresses |-> NoSet]

\* subxact_clear_membership leaves the registry alone: cursors of the parent are
\* in it.
SubAbortRegistry == registry

\* An error caught by an EXCEPTION block: the pulls unwind to it, the abandoned
\* nodes are freed with their memory, and the callback empties the slot.
CatchError ==
  /\ subs # <<>>
  /\ pulls' = SubSeq(pulls, 1, Last(subs))
  /\ active' = NoSet
  /\ nodes' = [a \in Addresses |-> IF nodes[a].sub = Len(subs) THEN NoNode ELSE nodes[a]]
  /\ registry' = SubAbortRegistry
  /\ subs' = Front(subs)

\* xact_clear_membership: the end of the transaction, in order or by an error.
EndXact ==
  /\ nodes' = [a \in Addresses |-> NoNode]
  /\ registry' = [a \in Addresses |-> NoSet]
  /\ active' = NoSet
  /\ pulls' = <<>>
  /\ subs' = <<>>
-----------------------------------------------------------------------------
FilterNext ==
  \/ \E a \in Addresses :
       \/ \E want \in Quals : \E lossy \in LossyPages(want) :
            BeginCustomScan(a, want, lossy) \/ RescanCustomScan(a, want, lossy)
       \/ StartPull(a)
       \/ EndCustomScan(a)
  \/ EndPull
  \/ BeginSub
  \/ EndSub
  \/ CatchError
  \/ EndXact

FilterSpec == FilterInit /\ [][FilterNext]_filterVars
-----------------------------------------------------------------------------
\* Whatever nests in it, fails in it or was abandoned at its address, the index
\* scan of a pull admits every row its own WHERE clause matches; and a vector
\* scan that runs outside every pull admits them all.
MatchesAdmitted ==
  IF pulls = <<>> THEN active = NoSet
  ELSE nodes[Last(pulls).node].want \subseteq Admitted(active)

\* A cursor over a filtered scan goes on after errors that did not concern it: no
\* live node finds its set missing ("membership missing for this scan").
LiveNodesRegistered == \A a \in Addresses : nodes[a].live => registry[a] # NoSet
=============================================================================
