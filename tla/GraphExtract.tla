------------------------------ MODULE GraphExtract ------------------------------
(***************************************************************************)
(* Building the entity graph (graph_extract.rs): entities and relations    *)
(* of a chunk of text, by the heuristic or from a model's reply, and their *)
(* upsert row by row.  Entity names are numbers (they are compared); a     *)
(* text is the sequence of capitalized spans in it, a reply a sequence of  *)
(* records <<"E", name>> and <<"R", source, target>>.                      *)
(***************************************************************************)
EXTENDS Integers, Sequences, FiniteSets, SequencesExt, FiniteSetsExt

CONSTANTS Ingesters,
          Texts, Replies,
          Stop,         \* spans which are only stopwords or too short
          MaxEntities, Window,
          MaxIngests    \* bound: committed upserts

\* Lines of a reply: a named entity, a relation of two names.
Records == ({"E"} \X Nat) \cup ({"R"} \X Nat \X Nat)

\* Names are numbers, so that they can be compared; max_entities and window are usize.
ASSUME ExtractAssumption ==
  /\ Texts \subseteq Seq(Nat)
  /\ Replies \subseteq Seq(Records)
  /\ MaxEntities \in Nat /\ Window \in Nat

VARIABLES graphRows,    \* committed rows: [n: name -> mentions, e: pair -> weight]
          upserts,      \* per session: rows still to write and rows written
          ingested      \* what was ingested and committed, in order

extractVars == <<graphRows, upserts, ingested>>
-----------------------------------------------------------------------------
(* Extraction.                                                              *)

\* The distinct members of a sequence in the order they first appear.
AddNew(order, x) == IF x \in ToSet(order) THEN order ELSE Append(order, x)
InOrder(seq) == FoldLeft(AddNew, <<>>, seq)

Mentions(seq, x) == Cardinality({i \in DOMAIN seq : seq[i] = x})

\* A fault: the pair is keyed as it was met.
AsMet(a, b) == <<a, b>>

Canonical(a, b) == IF a <= b THEN <<a, b>> ELSE <<b, a>>

\* Each entity with those at most `Window` after it, in order of appearance.
CoOccurrences(order) ==
  {Canonical(order[p[1]], order[p[2]]) : p \in
     {q \in (DOMAIN order) \X (DOMAIN order) : q[1] < q[2] /\ q[2] <= q[1] + Window}}

Extraction(order, mentions, weights) ==
  [entities |-> order, mentions |-> mentions, weights |-> weights]

\* flush_run drops the spans of `Stop`.
FlushRun(spans, x) == IF x \in Stop THEN spans ELSE Append(spans, x)

ExtractHeuristic(text) ==
  LET spans == FoldLeft(FlushRun, <<>>, text)
      all == InOrder(spans)
      order == SubSeq(all, 1, Min({Len(all), MaxEntities}))
  IN  Extraction(order, [x \in ToSet(order) |-> Mentions(spans, x)],
                 [p \in CoOccurrences(order) |-> 1])

AddName(names, r) == IF r[1] = "E" THEN Append(names, r[2]) ELSE names

\* A loop is no relation.
AddRelation(pairs, r) ==
  IF r[1] = "R" /\ r[2] # r[3] THEN Append(pairs, Canonical(r[2], r[3])) ELSE pairs

\* parse_llm_extraction: without relations, co-occurrence.
ParseLlmExtraction(reply) ==
  LET names == FoldLeft(AddName, <<>>, reply)
      pairs == FoldLeft(AddRelation, <<>>, reply)
      order == InOrder(names)
  IN  Extraction(order, [x \in ToSet(order) |-> Mentions(names, x)],
        IF pairs = <<>> THEN [p \in CoOccurrences(order) |-> 1]
        ELSE [p \in ToSet(pairs) |-> Mentions(pairs, p)])

\* extract_dispatch: a reply without an entity must not lose the chunk.
ExtractDispatch(text, useLlm, reply) ==
  IF useLlm /\ ParseLlmExtraction(reply).entities # <<>>
    THEN ParseLlmExtraction(reply) ELSE ExtractHeuristic(text)

\* A fault: a relation is written whatever entities were extracted.
WithOrphans(x) == DOMAIN x.weights

\* Relations whose ends were extracted: the others are dropped.
Linked(x) == {p \in DOMAIN x.weights : {p[1], p[2]} \subseteq ToSet(x.entities)}
-----------------------------------------------------------------------------
(* _graph_upsert, one row at a time.                                        *)

IdleUpsert == [todo |-> <<>>, wrote |-> <<>>, source |-> <<>>]

ExtractInit ==
  /\ graphRows = {}
  /\ upserts = [s \in Ingesters |-> IdleUpsert]
  /\ ingested = <<>>

\* Rows are records [kind, key, amount].
UpsertRows(x) ==
  LET nodes == [i \in DOMAIN x.entities |->
                  [kind |-> "n", key |-> <<x.entities[i]>>, amount |-> x.mentions[x.entities[i]]]]
      pairs == SetToSeq(Linked(x))
      links == [i \in DOMAIN pairs |->
                  [kind |-> "e", key |-> pairs[i], amount |-> x.weights[pairs[i]]]]
  IN  nodes \o links

\* A fault: a conflict replaces the amount.
AmountReplaced(old, new) == new

\* ON CONFLICT DO UPDATE: mention counts and weights accumulate.
AmountOnConflict(old, new) == old + new

Upserted(rows, row) ==
  LET same == {r \in rows : r.kind = row.kind /\ r.key = row.key}
  IN  IF same = {} THEN rows \cup {row}
      ELSE LET old == CHOOSE r \in same : TRUE IN
           (rows \ same) \cup {[old EXCEPT !.amount = AmountOnConflict(@, row.amount)]}

StartUpsert(s, text, useLlm, reply) ==
  /\ upserts[s] = IdleUpsert
  /\ Len(ingested) < MaxIngests
  /\ LET x == ExtractDispatch(text, useLlm, reply) IN
     /\ x.entities # <<>>
     /\ upserts' = [upserts EXCEPT ![s] =
                      [todo |-> UpsertRows(x), wrote |-> <<>>, source |-> <<text, useLlm, reply>>]]
  /\ UNCHANGED <<graphRows, ingested>>

\* The row is locked until its writer ends, also one that is being inserted.
Locked(s, row) ==
  \E o \in Ingesters \ {s} : \E i \in DOMAIN upserts[o].wrote :
    upserts[o].wrote[i].kind = row.kind /\ upserts[o].wrote[i].key = row.key

UpsertRow(s) ==
  /\ upserts[s].todo # <<>>
  /\ ~Locked(s, Head(upserts[s].todo))
  /\ upserts' = [upserts EXCEPT ![s].todo = Tail(@),
                                ![s].wrote = Append(@, Head(upserts[s].todo))]
  /\ UNCHANGED <<graphRows, ingested>>

CommitUpsert(s) ==
  /\ upserts[s].source # <<>> /\ upserts[s].todo = <<>>
  /\ graphRows' = FoldLeft(Upserted, graphRows, upserts[s].wrote)
  /\ ingested' = Append(ingested, upserts[s].source)
  /\ upserts' = [upserts EXCEPT ![s] = IdleUpsert]

\* A row's error, or the victim of the deadlock of two chunks whose entities come in
\* opposite orders: what was written is undone.
AbortUpsert(s) ==
  /\ upserts[s].source # <<>>
  /\ upserts' = [upserts EXCEPT ![s] = IdleUpsert]
  /\ UNCHANGED <<graphRows, ingested>>

ExtractNext ==
  \E s \in Ingesters :
    \/ \E text \in Texts, useLlm \in BOOLEAN, reply \in Replies :
         StartUpsert(s, text, useLlm, reply)
    \/ UpsertRow(s) \/ CommitUpsert(s) \/ AbortUpsert(s)

ExtractSpec == ExtractInit /\ [][ExtractNext]_extractVars
-----------------------------------------------------------------------------
AmountOf(rows, kind, key) ==
  LET same == {r \in rows : r.kind = kind /\ r.key = key}
  IN  IF same = {} THEN 0 ELSE (CHOOSE r \in same : TRUE).amount

\* How often one ingested chunk names an entity, as the counts should say.
Named(source, name) ==
  LET x == ExtractDispatch(source[1], source[2], source[3])
  IN  IF name \in ToSet(x.entities) THEN x.mentions[name] ELSE 0

\* "Re-ingesting the same chunk accumulates counts/weights, never duplicates rows":
\* with chunks ingested at the same time, rows waited for and transactions undone,
\* a row's count is that of all committed chunks together.
CountsAddUp ==
  /\ \A r, q \in graphRows : r.kind = q.kind /\ r.key = q.key => r = q
  /\ \A name \in {r.key[1] : r \in {q \in graphRows : q.kind = "n"}} :
       AmountOf(graphRows, "n", <<name>>) =
         FoldLeft(LAMBDA acc, source : acc + Named(source, name), 0, ingested)

\* Every relation joins two entities that have rows, and is there in one direction
\* only, whatever order chunks and replies name its ends in.
RelationsSound ==
  \A r \in {q \in graphRows : q.kind = "e"} :
    /\ AmountOf(graphRows, "n", <<r.key[1]>>) > 0
    /\ AmountOf(graphRows, "n", <<r.key[2]>>) > 0
    /\ r.key[1] # r.key[2] => AmountOf(graphRows, "e", <<r.key[2], r.key[1]>>) = 0

\* What _graph_upsert of concurrent ingesters leaves in the graph.
GraphAddsUp == CountsAddUp /\ RelationsSound
=============================================================================
