----------------------------- MODULE HybridSearch -----------------------------
(***************************************************************************)
(* Hybrid search (src/theodb_rs/src/hybrid.rs): a vector leg and a lexical *)
(* leg over one table, each filtered, ranked and cut to its limit, fused   *)
(* by reciprocal ranks.  The SQL of the two templates is modelled by what  *)
(* it selects; where a LIMIT cuts among equals every choice is considered. *)
(*                                                                         *)
(* A call names the rows' distances and text scores, what the configuration*)
(* gives for each key and the environment.  A condition of a structured    *)
(* filter is its operator, the shape of its value, the rows it is true of  *)
(* and whether its text has a `;' or the mark of a comment.  Scores are exact: Scale is a multiple of every k + rank; the cast  *)
(* to real, which may make two of them equal, is left out.                 *)
(***************************************************************************)
EXTENDS Integers, FiniteSets, Sequences, FiniteSetsExt, SequencesExt

CONSTANTS
    Absent,         \* a key that is not there, a NULL
    Malformed,      \* a value of another type than the code asks for
    Refused,        \* a typed error
    Scale,
    Width           \* the numbers a 32-bit integer has

FILTER_OP_ALLOWLIST == {"=", "<", ">", "<=", ">=", "<>", "IN", "&&"}

get_str(v) == IF v = Malformed THEN Absent ELSE v
as_i32(v, default) ==
    IF v \in {Absent, Malformed} THEN default
    ELSE ((v + Width \div 2) % Width) - Width \div 2

(* A predicate, composed or raw SQL, is refused when its text could end    *)
(* the clause it is put in.                                                *)
Confined(sql, rows) == IF sql.breaks THEN Refused ELSE rows \cap sql.holds

(* compose_structured_filter: the rows for which all conditions hold, or   *)
(* an error.                                                               *)
Composable(c) ==
    /\ c.op \in FILTER_OP_ALLOWLIST
    /\ c.value = IF c.op \in {"IN", "&&"} THEN "array" ELSE "scalar"
(* A fault: one condition that holds is enough.                            *)
compose_structured_filterAny(conds, rows) ==
    IF \E i \in DOMAIN conds : ~Composable(conds[i]) THEN Refused
    ELSE Confined([breaks |-> \E i \in DOMAIN conds : conds[i].breaks,
                   holds |-> {r \in rows : conds # <<>> =>
                                             \E i \in DOMAIN conds : r \in conds[i].holds}],
                  rows)
compose_structured_filter(conds, rows) ==
    IF \E i \in DOMAIN conds : ~Composable(conds[i]) THEN Refused
    ELSE Confined([breaks |-> \E i \in DOMAIN conds : conds[i].breaks,
                   holds |-> {r \in rows : \A i \in DOMAIN conds : r \in conds[i].holds}],
                  rows)

(* A fault: a filter of another shape than an array is no filter.          *)
FilterFailOpen(call, rows) ==
    LET sql == get_str(call.filter_sql)
    IN  IF call.filter \in {Absent, Malformed}
        THEN IF sql = Absent THEN rows ELSE Confined(sql, rows)
        ELSE IF sql # Absent THEN Refused ELSE compose_structured_filter(call.filter, rows)
Filter(call, rows) ==
    LET sql == get_str(call.filter_sql)
    IN  IF call.filter = Malformed THEN Refused
        ELSE IF call.filter = Absent THEN IF sql = Absent THEN rows ELSE Confined(sql, rows)
        ELSE IF sql # Absent THEN Refused ELSE compose_structured_filter(call.filter, rows)

(* resolve_query_vector: an explicit vector wins, otherwise the text is    *)
(* embedded, so that a call with a text alone has both legs.               *)
resolve_query_vector(call) ==
    IF call.query_vector # Absent THEN "vector"
    ELSE IF call.embeds THEN "embedded" ELSE Refused

Valid(call) ==
    /\ as_i32(call.k, 60) > 0
    /\ call.vector_weight >= 0 /\ call.text_weight >= 0
    /\ as_i32(call.per_leg_limit, 20) > 0 /\ as_i32(call.result_limit, 5) > 0
    /\ ~(call.query_text = Absent /\ call.query_vector = Absent)
    /\ call.lexical_engine \in {"ts_rank_cd", "bm25"}
    /\ call.lexical_engine = "bm25" => call.content_text_col # Absent /\ call.pg_textsearch

(***************************************************************************)
(* The legs.  A leg maps the rows it is about to how far they are from     *)
(* the best: RANK() gives equals the same number and is computed before    *)
(* the LIMIT.                                                              *)
(***************************************************************************)
VectorLeg(call, admitted) ==
    {r \in admitted : call.distance[r] # Absent}
LexicalLeg(call, admitted) ==
    IF call.query_text = Absent THEN {}
    ELSE {r \in admitted : /\ call.score[r] # Absent
                           /\ call.lexical_engine = "ts_rank_cd" => call.score[r] > 0}

Away(call, leg, r) == IF leg = "vec" THEN call.distance[r] ELSE -call.score[r]
Rank(call, leg, rows, r) ==
    1 + Cardinality({q \in rows : Away(call, leg, q) < Away(call, leg, r)})

(* What ORDER BY and LIMIT may leave of a leg.                             *)
Cuts(call, leg, rows) ==
    LET limit == as_i32(call.per_leg_limit, 20)
        size == IF Cardinality(rows) < limit THEN Cardinality(rows) ELSE limit
    IN  {kept \in kSubset(size, rows) :
            \A r \in kept, q \in rows \ kept : Away(call, leg, r) <= Away(call, leg, q)}

Term(call, weight, leg, rows, kept, r) ==
    IF r \in kept THEN weight * (Scale \div (as_i32(call.k, 60) + Rank(call, leg, rows, r))) ELSE 0

(* A fault: an inner join keeps what both legs have.                       *)
JoinedInner(vec, fts) == vec \cap fts
Joined(vec, fts) == vec \cup fts

(* FULL OUTER JOIN, the sum of the reciprocal ranks, ORDER BY score DESC,  *)
(* id ASC, LIMIT.                                                          *)
Fused(call, admitted, vec, fts) ==
    LET V == VectorLeg(call, admitted)
        F == LexicalLeg(call, admitted)
        Score(r) == Term(call, call.vector_weight, "vec", V, vec, r)
                    + Term(call, call.text_weight, "fts", F, fts, r)
        order == SetToSortSeq(Joined(vec, fts),
                    LAMBDA a, b : Score(a) > Score(b) \/ (Score(a) = Score(b) /\ a < b))
        limit == as_i32(call.result_limit, 5)
    IN  SubSeq(order, 1, IF Len(order) < limit THEN Len(order) ELSE limit)

(* run_rrf_json, run_rrf: an error, or one of the answers.                 *)
run_rrf(call) ==
    LET rows == DOMAIN call.distance
        admitted == Filter(call, rows)
    IN  IF admitted = Refused THEN {Refused}
        ELSE IF ~Valid(call) THEN {Refused}
        ELSE IF resolve_query_vector(call) = Refused THEN {Refused}
        ELSE {Fused(call, admitted, vec, fts) :
                 vec \in Cuts(call, "vec", VectorLeg(call, admitted)),
                 fts \in Cuts(call, "fts", LexicalLeg(call, admitted))}

(***************************************************************************)
(* What a caller may rely on.                                              *)
(***************************************************************************)
Meant(call, r) ==
    /\ call.filter # Absent => \A i \in DOMAIN call.filter : r \in call.filter[i].holds
    /\ call.filter_sql \notin {Absent, Malformed} => r \in call.filter_sql.holds

(* q is strictly better than r for each retriever, and each one counts.    *)
Better(call, q, r) ==
    /\ call.vector_weight > 0
    /\ call.query_text # Absent => call.text_weight > 0
    /\ call.distance[q] # Absent
    /\ call.distance[r] # Absent => call.distance[q] < call.distance[r]
    /\ call.query_text # Absent =>
          /\ call.score[q] # Absent /\ call.score[q] > 0
          /\ call.score[r] # Absent => call.score[q] > call.score[r]

(* A filter that is no filter gives an error, never unfiltered rows; a row *)
(* that one retriever alone finds can be in the answer; no row is in it    *)
(* without the rows that both retrievers prefer, and before them           *)
(* (FUSION_TEMPLATE_TSRANK, FUSION_TEMPLATE_BM25, run_rrf_json).           *)
FusionSound(call) ==
    \A answer \in run_rrf(call) :
        IF answer = Refused THEN TRUE
        ELSE /\ call.filter # Malformed
             /\ IsInjective(answer)
             /\ \A i \in DOMAIN answer :
                   /\ Meant(call, answer[i])
                   /\ \A q \in DOMAIN call.distance :
                         Meant(call, q) /\ Better(call, q, answer[i])
                            => \E j \in 1 .. i - 1 : answer[j] = q
             /\ Len(answer) < as_i32(call.result_limit, 5) =>
                   \A r \in DOMAIN call.distance :
                      /\ Meant(call, r)
                      /\ \/ /\ call.distance[r] # Absent
                            /\ \A q \in DOMAIN call.distance \ {r} :
                                  call.distance[q] # Absent => call.distance[r] < call.distance[q]
                         \/ /\ call.query_text # Absent /\ call.score[r] # Absent
                            /\ call.score[r] > 0
                            /\ \A q \in DOMAIN call.distance \ {r} :
                                  call.score[q] # Absent => call.score[r] > call.score[q]
                      => \E i \in DOMAIN answer : answer[i] = r
=============================================================================
