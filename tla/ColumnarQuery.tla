----------------------------- MODULE ColumnarQuery -----------------------------
(***************************************************************************)
(* A query over a columnar table: stripes of chunk groups with a directory *)
(* of minima and maxima (am/columnar_codec.rs), chunk groups skipped by it *)
(* (am/zonemap.rs), the decoding routes (am/columnar.rs) and the DataFusion*)
(* plans over what they decode (am/df_executor.rs, am/columnar_agg.rs).    *)
(* A row is <<k, v>>: k is what WHERE and GROUP BY read, v is aggregated.  *)
(* NaN, where a float column has it, is the greatest value, as in SQL.     *)
(***************************************************************************)
EXTENDS Integers, Sequences, FiniteSets, SequencesExt, FiniteSetsExt

CONSTANTS Rows,       \* the rows that may be inserted
          SqlNull, NaN,
          QueryError, \* what a query gives that fails
          Float,      \* whether the columns are floats
          GroupRows,  \* CHUNK_GROUP_ROWS
          MaxRows,    \* bound: rows of the table
          Consts,     \* constants of a WHERE clause
          Limits      \* LIMITs of a top-k query

\* A row is two values, each possibly NULL; a NaN is in a float column and above
\* every number; a failed query gives no sequence of rows.
ASSUME QueryAssumption ==
  /\ GroupRows \in Nat \ {0}
  /\ NaN \in Int /\ SqlNull \notin Int
  /\ Rows \subseteq (Int \cup {SqlNull}) \X (Int \cup {SqlNull})
  /\ \A row \in Rows, c \in 1..2 :
       row[c] # SqlNull => row[c] <= NaN /\ (row[c] = NaN => Float)
  /\ Consts \subseteq Int
  /\ QueryError \notin Seq(Rows)

VARIABLES stripes,    \* the visible stripes: sequences of encoded chunk groups
          unflushed,  \* rows of this transaction which are in no stripe yet
          inserted,   \* every row, in order
          query, answer

queryVars == <<stripes, unflushed, inserted, query, answer>>

NoQuery == [plan |-> "none"]
QueryInit ==
  /\ stripes = <<>> /\ unflushed = <<>> /\ inserted = <<>>
  /\ query = NoQuery /\ answer = <<>>

\* Of the column that WHERE reads, as chunk_can_match needs it: no value is a NaN.
KeysAreNumbers == \A row \in Rows : row[1] # NaN

Column(rs, c) == [i \in DOMAIN rs |-> rs[i][c]]

\* The elements of a sequence that are in a set, in their order.
Among(seq, set) == FoldLeft(LAMBDA s, x : IF x \in set THEN Append(s, x) ELSE s, <<>>, seq)

Present(vals) == Among(vals, ToSet(vals) \ {SqlNull})
-----------------------------------------------------------------------------
(* Writing a stripe.                                                        *)

\* A NaN is skipped: the minimum and the maximum are those of the other values.
ComputeMinmax(vals) ==
  LET seen == ToSet(Present(vals)) \ {NaN}
  IN  IF seen = {} THEN [has |-> FALSE, min |-> 0, max |-> 0]
      ELSE [has |-> TRUE, min |-> Min(seen), max |-> Max(seen)]

EncodeColumn(vals) ==
  [nulls  |-> \E i \in DOMAIN vals : vals[i] = SqlNull,
   bitmap |-> [i \in DOMAIN vals |-> vals[i] # SqlNull],
   stream |-> Present(vals),
   zone   |-> ComputeMinmax(vals)]

EncodeGroup(rs) == [n |-> Len(rs), cols |-> [c \in 1..2 |-> EncodeColumn(Column(rs, c))]]

ChunkGroups(rs) ==
  [g \in 1..((Len(rs) + GroupRows - 1) \div GroupRows) |->
     EncodeGroup(SubSeq(rs, (g - 1) * GroupRows + 1, Min({g * GroupRows, Len(rs)})))]

AccumulateRow(row) ==
  /\ Len(inserted) < MaxRows
  /\ unflushed' = Append(unflushed, row)
  /\ inserted' = Append(inserted, row)
  /\ query' = NoQuery /\ answer' = <<>>
  /\ UNCHANGED stripes

FlushPending ==
  /\ unflushed # <<>>
  /\ stripes' = Append(stripes, ChunkGroups(unflushed))
  /\ unflushed' = <<>>
  /\ query' = NoQuery /\ answer' = <<>>
  /\ UNCHANGED inserted
-----------------------------------------------------------------------------
(* WHERE k <op> const, k IN (...), or nothing.                              *)

ZoneOps == {"lt", "le", "eq", "ge", "gt", "ne"}
Everything == [op |-> "true"]
Wheres == {Everything, [op |-> "in", set |-> Consts]}
            \cup [op : ZoneOps, const : Consts]

Compares(x, op, c) ==
  CASE op = "lt" -> x < c [] op = "le" -> x <= c [] op = "eq" -> x = c
    [] op = "ge" -> x >= c [] op = "gt" -> x > c [] op = "ne" -> x # c

RowMatches(row, w) ==
  \/ w.op = "true"
  \/ /\ row[1] # SqlNull
     /\ IF w.op = "in" THEN row[1] \in w.set ELSE Compares(row[1], w.op, w.const)

Filter(rs, w) == Among(rs, {r \in ToSet(rs) : RowMatches(r, w)})

\* A fault: the bound of the range is taken for a proof.
ExcludedAtBound(min, max, c, op) ==
  CASE op = "lt" -> min >= c [] op = "le" -> min >= c [] op = "gt" -> max <= c
    [] op = "ge" -> max <= c [] op = "eq" -> c < min \/ c > max [] op = "ne" -> FALSE

Excluded(min, max, c, op) ==
  CASE op = "lt" -> min >= c [] op = "le" -> min > c [] op = "gt" -> max <= c
    [] op = "ge" -> max < c [] op = "eq" -> c < min \/ c > max [] op = "ne" -> FALSE

\* chunk_can_match: no range, or a NaN to compare with, proves nothing.
ChunkCanMatch(zone, w) ==
  \/ ~zone.has
  \/ w.const = NaN
  \/ ~Excluded(zone.min, zone.max, w.const, w.op)

SkippedByZone(group, w) == w.op \in ZoneOps /\ ~ChunkCanMatch(group.cols[1].zone, w)
-----------------------------------------------------------------------------
(* Decoding.                                                                *)

Groups == FlattenSeq(stripes)
KeptGroups(w) == Among(Groups, {g \in ToSet(Groups) : ~SkippedByZone(g, w)})

DecodeColumn(chunk, n) ==
  IF ~chunk.nulls THEN chunk.stream
  ELSE [i \in 1..n |->
          IF chunk.bitmap[i]
            THEN chunk.stream[Cardinality({j \in 1..i : chunk.bitmap[j]})] ELSE SqlNull]

\* A fault: each chunk group is asked on its own, after the first has decided.
FixedModeOfFirst(c) == Groups # <<>> /\ ~Head(Groups).cols[c].nulls

\* A column's bytes are copied as they are when no visible chunk of it has a null.
FixedMode(c) == \A i \in DOMAIN Groups : ~Groups[i].cols[c].nulls

\* decode_one_chunk_group: the copied bytes have to be a whole number of rows.
DecodeGroup(g) ==
  LET col(c) == IF FixedMode(c) THEN g.cols[c].stream ELSE DecodeColumn(g.cols[c], g.n)
  IN  IF \E c \in 1..2 : Len(col(c)) # g.n THEN QueryError
      ELSE [i \in 1..g.n |-> <<col(1)[i], col(2)[i]>>]

\* decode_columns, the route of a table with rows of this transaction.
DecodeCells(w) ==
  LET ofGroup(g) ==
        [i \in 1..g.n |-> <<DecodeColumn(g.cols[1], g.n)[i], DecodeColumn(g.cols[2], g.n)[i]>>]
      kept == KeptGroups(w)
  IN  FlattenSeq([i \in DOMAIN kept |-> ofGroup(kept[i])]) \o unflushed

Joined(batches) ==
  IF \E i \in DOMAIN batches : batches[i] = QueryError THEN QueryError ELSE FlattenSeq(batches)

\* A fault: the rows of this transaction are forgotten.
DecodeColumnsCommitted(w) == Joined([i \in DOMAIN KeptGroups(w) |-> DecodeGroup(KeptGroups(w)[i])])

\* decode_columns_v2, the eager route.
DecodeColumns(w) ==
  IF unflushed # <<>> THEN DecodeCells(w)
  ELSE Joined([i \in DOMAIN KeptGroups(w) |-> DecodeGroup(KeptGroups(w)[i])])

\* open_streaming_source: one chunk group at a time, unless rows are unflushed or
\* nothing is visible.
Streams(w) == unflushed = <<>> /\ KeptGroups(w) # <<>>
Streamed(w) == Joined([i \in DOMAIN KeptGroups(w) |-> DecodeGroup(KeptGroups(w)[i])])
-----------------------------------------------------------------------------
(* Aggregates: DataFusion's columns, and the cells made of them.            *)

Sum(vals) == FoldLeft(LAMBDA acc, x : acc + x, 0, vals)
ReduceValues(name, vals) ==
  CASE name = "sum"    -> Sum(vals)
    [] name = "sumadd" -> Sum([i \in DOMAIN vals |-> vals[i] + 1])
    [] name = "min"    -> Min(ToSet(vals))
    [] name = "max"    -> Max(ToSet(vals))

Reduce(name, rs) ==
  LET vals == Present(Column(rs, 2))
  IN  CASE name = "count"    -> Len(rs)
        [] name = "countv"   -> Len(vals)
        [] name = "distinct" -> Cardinality(ToSet(vals))
        [] OTHER -> IF vals = <<>> THEN SqlNull ELSE ReduceValues(name, vals)

\* push_agg_exprs: an average of integers takes two columns, a sum and a count.
PushAggExprs(agg) == IF agg = "avg" THEN <<"sum", "countv">> ELSE <<agg>>
AggExprs(aggs) == FlattenSeq([i \in DOMAIN aggs |-> PushAggExprs(aggs[i])])

\* A fault: every aggregate takes one column.
OffsetOfOne(aggs, i) == i

Offset(aggs, i) == 1 + Sum([j \in 1..(i - 1) |-> Len(PushAggExprs(aggs[j]))])

\* agg_datum.
AggDatum(cols, off, agg) ==
  IF cols[off] = SqlNull THEN SqlNull
  ELSE IF agg # "avg" THEN cols[off]
  ELSE IF cols[off + 1] = 0 THEN SqlNull
  ELSE <<cols[off], cols[off + 1]>>

AggCells(rs, aggs) ==
  LET exprs == AggExprs(aggs)
      cols == [i \in DOMAIN exprs |-> Reduce(exprs[i], rs)]
  IN  [i \in DOMAIN aggs |-> AggDatum(cols, Offset(aggs, i), aggs[i])]

\* cmp_group_datum: ascending, nulls last.
NullsLast(a, b) == a # SqlNull /\ (b = SqlNull \/ a < b)

GroupKeys(rs) == SetToSortSeq(ToSet(Column(rs, 1)), NullsLast)
OfKey(rs, key) == Among(rs, {r \in ToSet(rs) : r[1] = key})

\* run_columnar_grouped_aggs: one output row per group, sorted by the key.
GroupRowsOf(rs, aggs) ==
  LET keys == GroupKeys(rs)
  IN  [i \in DOMAIN keys |-> <<keys[i]>> \o AggCells(OfKey(rs, keys[i]), aggs)]

SortKeyBefore(a, b, asc, nullsFirst) ==
  CASE a = SqlNull /\ b = SqlNull -> FALSE
    [] a = SqlNull /\ b # SqlNull -> nullsFirst
    [] a # SqlNull /\ b = SqlNull -> ~nullsFirst
    [] OTHER -> IF asc THEN a < b ELSE a > b

\* run_columnar_topk: the sort keys of the surviving rows.
TopK(rs, q) ==
  LET before(a, b) == SortKeyBefore(a, b, q.plan.asc, q.plan.nullsFirst)
      sorted == SortSeq(Column(rs, 2), before)
  IN  SubSeq(sorted, 1, Min({q.plan.limit, Len(sorted)}))

\* The plan a query's shape builds over decoded, filtered rows.
PlanOver(rs, q) ==
  IF rs = QueryError THEN QueryError
  ELSE LET kept == Filter(rs, q.where)
       IN  CASE q.plan.shape = "scalar" -> AggCells(kept, q.plan.aggs)
             [] q.plan.shape = "group"  -> GroupRowsOf(kept, q.plan.aggs)
             [] q.plan.shape = "topk"   -> TopK(kept, q)
             [] q.plan.shape = "rows"   -> kept
-----------------------------------------------------------------------------
(* Running a query.                                                         *)

\* A fault: the fold leaves out the rows of this transaction.
UnflushedValuesNone == <<>>

UnflushedValues == Column(unflushed, 2)

Zones == [i \in DOMAIN Groups |-> Groups[i].cols[2].zone]

\* directory_minmax declines the maximum of a float and a chunk without a range.
DirectoryDeclines(agg) ==
  \/ Float /\ agg = "max"
  \/ \E i \in DOMAIN Zones : ~Zones[i].has
  \/ Present(UnflushedValues) # <<>> /\ ~ComputeMinmax(UnflushedValues).has

DirectoryMinmax(agg) ==
  LET own == ComputeMinmax(UnflushedValues)
      seen == ToSet(Zones) \cup (IF own.has THEN {own} ELSE {})
  IN  IF seen = {} THEN SqlNull
      ELSE IF agg = "max" THEN Max({z.max : z \in seen}) ELSE Min({z.min : z \in seen})

FromDirectory(q) ==
  /\ q.plan.shape = "scalar" /\ q.where = Everything
  /\ \A agg \in ToSet(q.plan.aggs) : agg \in {"min", "max"} /\ ~DirectoryDeclines(agg)

\* stream_failure_is_fail_open: an exhausted pool, unless the eager batch would
\* not fit an Arrow offset; a top-k falls back in any case.
FailOpen(q, outcome) ==
  \/ outcome = "exhausted"
  \/ outcome = "exhausted_wide" /\ q.plan.shape = "topk"

Run(q, outcome) ==
  IF FromDirectory(q) THEN [i \in DOMAIN q.plan.aggs |-> DirectoryMinmax(q.plan.aggs[i])]
  ELSE IF q.plan.shape = "rows" THEN PlanOver(DecodeCells(q.where), q)
  ELSE IF outcome = "off" \/ ~Streams(q.where) \/ FailOpen(q, outcome)
    THEN PlanOver(DecodeColumns(q.where), q)
  ELSE IF outcome = "ok" THEN PlanOver(Streamed(q.where), q)
  ELSE QueryError

Outcomes == {"off", "ok", "exhausted", "exhausted_wide", "cancelled"}
Shapes ==
  [shape : {"scalar"},
   aggs  : {<<"avg", "max", "count">>, <<"min", "max">>, <<"distinct", "sumadd">>}]
    \cup [shape : {"group"}, aggs : {<<"avg", "count">>}]
    \cup [shape : {"topk"}, asc : BOOLEAN, nullsFirst : BOOLEAN, limit : Limits]
    \cup [shape : {"rows"}]

Ask(q) ==
  /\ query = NoQuery
  /\ query' = q
  /\ answer' = Run(q, q.outcome)
  /\ UNCHANGED <<stripes, unflushed, inserted>>

QueryNext ==
  \/ \E row \in Rows : AccumulateRow(row)
  \/ FlushPending
  \/ \E s \in Shapes, w \in Wheres, o \in Outcomes : Ask([where |-> w, plan |-> s, outcome |-> o])

QuerySpec == QueryInit /\ [][QueryNext]_queryVars
-----------------------------------------------------------------------------
\* What SQL says each plan answers, over rows that need no decoding.
SqlAgg(rs, agg) ==
  LET vals == Present(Column(rs, 2))
  IN  IF agg # "avg" THEN Reduce(agg, rs)
      ELSE IF vals = <<>> THEN SqlNull ELSE <<Sum(vals), Len(vals)>>

SqlAnswer(rows, q) ==
  LET kept == Filter(rows, q.where)
      aggs(rs) == [i \in DOMAIN q.plan.aggs |-> SqlAgg(rs, q.plan.aggs[i])]
      keys == GroupKeys(kept)
  IN  CASE q.plan.shape = "scalar" -> aggs(kept)
        [] q.plan.shape = "group"  ->
             [i \in DOMAIN keys |-> <<keys[i]>> \o aggs(OfKey(kept, keys[i]))]
        [] q.plan.shape = "topk"   -> TopK(kept, q)
        [] q.plan.shape = "rows"   -> kept

\* Whichever route a query takes, directory, stream, eager after a failed stream,
\* cells with rows of this transaction, and whatever chunk groups it skips, it
\* answers what SQL says of the inserted rows; it fails only if it is cancelled or
\* if the memory ran out and the eager batch would not fit.
AnswerExact ==
  \/ query = NoQuery
  \/ answer = QueryError /\ query.outcome \in {"exhausted_wide", "cancelled"}
  \/ answer = SqlAnswer(inserted, query)

\* chunk_can_match says of itself that it is "FAIL-SAFE (never fail-wrong)" and
\* skips only if the directory "PROVES no row can match".
SkipProvesNoMatch ==
  \A w \in Wheres : \A i \in DOMAIN Groups :
    SkippedByZone(Groups[i], w) => Filter(DecodeGroup(Groups[i]), w) = <<>>
=============================================================================
