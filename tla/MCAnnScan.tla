-------------------------------- MODULE MCAnnScan --------------------------------
(* Small instances of AnnScan for TLC: graphs of three nodes, resumed, without a filter *)
(* (ResumeLoses) and under a label key that names no label (EmptyKey).                  *)
EXTENDS AnnScan

Rows123 == {1, 2, 3}
Unlinked == [r \in VectorRows |-> <<>>]

ResumableGraphs ==
  {[kind |-> "hnsw", resumes |-> TRUE, exact |-> TRUE, upper |-> Unlinked, near |-> near,
    entry |-> 3, dead |-> {}, lists |-> <<>>, pooled |-> FALSE, inline |-> {},
    score |-> [r \in VectorRows |-> r], labels |-> [r \in VectorRows |-> <<1>>], pending |-> {}] :
      near \in [VectorRows -> {<<>>, <<1>>, <<2>>, <<3>>, <<1, 2>>, <<1, 3>>, <<2, 3>>}]}

\* Rows in lists with their labels in the code records.
LabelledLists ==
  {[kind |-> "ivf", resumes |-> FALSE, exact |-> FALSE, upper |-> Unlinked, near |-> Unlinked,
    entry |-> 1, dead |-> {}, lists |-> lists, pooled |-> TRUE, inline |-> {"labels", "tids"},
    score |-> [r \in VectorRows |-> r], labels |-> [r \in VectorRows |-> <<1>>], pending |-> {}] :
      lists \in {<<Rows123>>, <<{1}, {2, 3}>>, <<{2}, {1}, {3}>>}}

NoFilter ==
  {[labelled |-> FALSE, labels |-> {}, member |-> FALSE, admitted |-> {}, want |-> {}]}
\* labels && '{}'
EmptyKeyFilter ==
  {[labelled |-> TRUE, labels |-> {}, member |-> FALSE, admitted |-> {}, want |-> {}]}

\* scan.rs:155: while a label predicate is active the executor rechecks what the scan
\* returns, so that a row which does not match is never given to the query as it is.
UnmatchedAreRechecked ==
  \A t \in annReturned : Matches(t[1], ann.filter) \/ t[2]
=============================================================================
