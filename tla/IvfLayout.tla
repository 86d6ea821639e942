------------------------------ MODULE IvfLayout ------------------------------
(***************************************************************************)
(* The pages of an IVF index (am/page/ivf.rs): seven writers, one per       *)
(* generation of the format, and the readers which find a row's id, labels, *)
(* codes and refine record again by arithmetic on lengths.  A page holds    *)
(* one item of at most Chunk words; a word stands for one field (a row id,  *)
(* a component, a code byte), so that an item is a sequence of fields, and  *)
(* each region begins on a page of its own.  The two sides share no code:   *)
(* a writer computes the directory from lengths before it writes a list,    *)
(* and the scan of each generation has the offsets of its own.              *)
(*                                                                         *)
(* `index` is the input: [writer, dim, m, counts], where counts[l] is the   *)
(* number of rows of list l and a row is <<l, ordinal>>, ordinal from 0.    *)
(***************************************************************************)
EXTENDS Integers, Sequences, FiniteSetsExt, SequencesExt

CONSTANTS
  Chunk,    \* words an item holds (CHUNK: 8000 bytes)
  Lanes,    \* vectors per block of codes (32)
  KStar,    \* centroids of a subspace (AQ_K_STAR: 16)
  LabelK,   \* labels stored per row (LABEL_K: 8)
  BuiltIndexes

VARIABLE index

Zero == <<"zero">>
Number(v) == <<"n", v>>
Failed == << <<"failed">> >>

CeilDiv(a, b) == (a + b - 1) \div b

-----------------------------------------------------------------------------
(* The generations.                                                        *)

\* The version a writer leaves in block 0; the streaming writer writes version 5.
Version(x) ==
  CASE x.writer = "structured" -> 3
    [] x.writer = "aq" -> 4
    [] x.writer \in {"split", "streaming"} -> 5
    [] x.writer = "sq8" -> 6
    [] x.writer = "labelled" -> 7
    [] x.writer = "rabitq" -> 8

Split(version) == version >= 5
Coded(version) == version >= 4

\* Words of a refine record: a vector, its SQ8 code, or its RaBitQ code and two factors.
RecordLength(version, dim) == IF version = 8 THEN dim + 2 ELSE dim
LabelWords(version) == IF version = 7 THEN 1 + LabelK ELSE 0

Lists(x) == DOMAIN x.counts
ListRows(x, l) == [i \in 1..x.counts[l] |-> <<l, i - 1>>]
RowCount(x) == FoldLeft(LAMBDA a, b : a + b, 0, x.counts)
Pairs(x) == CeilDiv(x.m, 2)

\* What the corpus holds of a row; rows have none to more than LabelK labels.
Labels(row) == [k \in 1..(row[2] % (LabelK + 2)) |-> <<"label", row, k>>]
Record(x, row) ==
  [j \in 1..RecordLength(Version(x), x.dim) |-> <<"record", row, j>>]
Code(x, row) == [p \in 1..Pairs(x) |-> <<"code", row, p>>]

-----------------------------------------------------------------------------
(* The writers.                                                            *)

npages_for(n) == Max({1, CeilDiv(n, Chunk)})

\* A region is cut in items; an empty one still takes a page.
write_chunks(data) ==
  IF data = <<>> THEN << <<>> >>
  ELSE [k \in 1..CeilDiv(Len(data), Chunk) |->
          SubSeq(data, (k - 1) * Chunk + 1, Min({k * Chunk, Len(data)}))]

\* Codes of one list: blocks of Lanes vectors, byte p of all of them side by side.
pack_block32_codes(x, l) ==
  LET n == x.counts[l]
      block == Pairs(x) * Lanes
  IN  [k \in 1..(CeilDiv(n, Lanes) * block) |->
         LET v == ((k - 1) \div block) * Lanes + ((k - 1) % Lanes)
             p == ((k - 1) % block) \div Lanes
         IN  IF v < n THEN <<"code", <<l, v>>, p + 1>> ELSE Zero]

encode_labels_fixed(row) ==
  <<Number(Min({Len(Labels(row)), LabelK}))>>
    \o [k \in 1..LabelK |-> IF k <= Len(Labels(row)) THEN Labels(row)[k] ELSE Zero]

\* The codebook: bits, m, sub_dim and the threshold, then the centroids.  Training caps
\* their number per subspace at the number of rows.
AqCodebook(x) ==
  IF ~Coded(Version(x)) THEN <<>>
  ELSE <<Number(4), Number(x.m), Number(x.dim \div x.m), Number(1)>>
         \o [i \in 1..(x.dim * Min({KStar, RowCount(x)})) |-> <<"codebook", i>>]

\* The codebook of the refine codes, which two generations have.
RefineCodebook(x) ==
  IF Version(x) \notin {6, 8} THEN <<>>
  ELSE [i \in 1..(1 + 2 * x.dim) |-> <<"refine", i>>]

Centroids(x) ==
  [k \in 1..(Len(x.counts) * x.dim) |->
     <<"centroid", ((k - 1) \div x.dim) + 1, ((k - 1) % x.dim) + 1>>]

IdOf(row) == << <<"id", row>> >>
Ids(x, l) == FoldLeft(LAMBDA blob, row : blob \o IdOf(row), <<>>, ListRows(x, l))
Records(x, l) == FoldLeft(LAMBDA blob, row : blob \o Record(x, row), <<>>, ListRows(x, l))
LabelRegion(x, l) == FoldLeft(LAMBDA blob, row : blob \o encode_labels_fixed(row), <<>>, ListRows(x, l))

StructuredList(x, l) ==
  FoldLeft(LAMBDA blob, row : blob \o IdOf(row) \o Record(x, row), <<>>, ListRows(x, l))
AqList(x, l) == Ids(x, l) \o Records(x, l) \o pack_block32_codes(x, l)
SplitList(x, l) == Ids(x, l) \o pack_block32_codes(x, l)
LabelledList(x, l) == Ids(x, l) \o LabelRegion(x, l) \o pack_block32_codes(x, l)

ListBlob(x, l) ==
  CASE Version(x) = 3 -> StructuredList(x, l)
    [] Version(x) = 4 -> AqList(x, l)
    [] Version(x) = 7 -> LabelledList(x, l)
    [] OTHER -> SplitList(x, l)

\* The lengths the directory is computed from: they are not measured on the blobs.
\* A fault: the label region is not counted.
ListLengthUnlabelled(x, l) ==
  LET n == x.counts[l]
      codes == CeilDiv(n, Lanes) * Pairs(x) * Lanes
  IN  IF Version(x) = 3 THEN n * (1 + x.dim)
      ELSE IF Version(x) = 4 THEN n * (1 + x.dim) + codes ELSE n + codes
ListLength(x, l) ==
  LET n == x.counts[l]
      codes == CeilDiv(n, Lanes) * Pairs(x) * Lanes
  IN  CASE Version(x) = 3 -> n * (1 + x.dim)
        [] Version(x) = 4 -> n * (1 + x.dim) + codes
        [] OTHER -> n * (1 + LabelWords(Version(x))) + codes
RefineLength(x, l) == x.counts[l] * RecordLength(Version(x), x.dim)

Meta(x) ==
  LET entry == IF Split(Version(x)) THEN 5 ELSE 3
  IN  [version |-> Version(x), dim |-> x.dim, nlists |-> Len(x.counts), m |-> x.m,
       base |-> 1,
       dir |-> npages_for(Len(x.counts) * entry),
       codebook |-> IF Coded(Version(x)) THEN npages_for(Len(AqCodebook(x))) ELSE 0,
       refine |-> IF Version(x) \in {6, 8} THEN npages_for(Len(RefineCodebook(x))) ELSE 0,
       centroid |-> npages_for(Len(x.counts) * x.dim)]

\* One entry per list: first block and pages of the list, of its refine region when that
\* is apart, and the number of its rows.
Directory(x) ==
  LET meta == Meta(x)
      lp(l) == npages_for(ListLength(x, l))
      rp(l) == IF Split(Version(x)) THEN npages_for(RefineLength(x, l)) ELSE 0
      cursor[l \in 1..(Len(x.counts) + 1)] ==
        IF l = 1 THEN meta.base + meta.dir + meta.codebook + meta.refine + meta.centroid
        ELSE cursor[l - 1] + lp(l - 1) + rp(l - 1)
      entry(l) == IF Split(Version(x))
                  THEN <<cursor[l], lp(l), cursor[l] + lp(l), rp(l), x.counts[l]>>
                  ELSE <<cursor[l], lp(l), x.counts[l]>>
  IN  FlattenSeq([l \in Lists(x) |-> entry(l)])

\* The pages, block 0 first.
WrittenPages(x) ==
  LET perList(l) == write_chunks(ListBlob(x, l))
                      \o IF Split(Version(x)) THEN write_chunks(Records(x, l)) ELSE <<>>
      dir == Directory(x)
      words == [i \in DOMAIN dir |-> Number(dir[i])]
  IN  << <<Meta(x)>> >>
        \o write_chunks(words)
        \o (IF Coded(Version(x)) THEN write_chunks(AqCodebook(x)) ELSE <<>>)
        \o (IF Version(x) \in {6, 8} THEN write_chunks(RefineCodebook(x)) ELSE <<>>)
        \o write_chunks(Centroids(x))
        \o FlattenSeq([l \in Lists(x) |-> perList(l)])

-----------------------------------------------------------------------------
(* The readers: only the pages are known to them.                          *)

MetaOf(pages) == pages[1][1]

read_chunked(pages, first, npages) ==
  IF first + npages > Len(pages) THEN Failed
  ELSE FlattenSeq(SubSeq(pages, first + 1, first + npages))

\* The words of a region, from a 0-based offset.
From(bytes, offset, n) == SubSeq(bytes, offset + 1, offset + n)

EntryWords(version) == IF Split(version) THEN 5 ELSE 3

\* The directory of an index, entry by entry.
ReadDirectory(pages) ==
  LET meta == MetaOf(pages)
      entry == EntryWords(meta.version)
      bytes == read_chunked(pages, meta.base, meta.dir)
  IN  [l \in 1..meta.nlists |->
         [f \in 1..entry |-> bytes[(l - 1) * entry + f][2]]]

\* The codebook must have the length its own header announces.
ReadCodebook(pages) ==
  LET meta == MetaOf(pages)
      bytes == read_chunked(pages, meta.base + meta.dir, meta.codebook)
  IN  IF Len(bytes) = 4 + bytes[2][2] * KStar * bytes[3][2] THEN bytes ELSE Failed

\* A fault: the centroids are read right after the first codebook.
ReadCentroidsEarly(pages) ==
  LET meta == MetaOf(pages)
  IN  read_chunked(pages, meta.base + meta.dir + meta.codebook, meta.centroid)
ReadCentroids(pages) ==
  LET meta == MetaOf(pages)
  IN  read_chunked(pages, meta.base + meta.dir + meta.codebook + meta.refine,
                   meta.centroid)

\* Where a record begins; the reader stitches two items at most.
record_span(ordinal, reclen, npages) ==
  LET offset == ordinal * reclen
      chunk == offset \div Chunk
      lo == offset % Chunk
  IN  [found |-> /\ chunk < npages
                 /\ reclen <= Chunk
                 /\ lo + reclen > Chunk => chunk + 1 < npages,
       chunk |-> chunk, lo |-> lo]

\* A fault: a record which ends at the end of its item is taken to go on in the next.
read_record_atGreedy(pages, first, npages, ordinal, reclen) ==
  LET span == record_span(ordinal, reclen, npages)
      item == pages[first + span.chunk + 1]
      head == From(item, span.lo, Len(item) - span.lo)
  IN  IF ~span.found THEN Failed
      ELSE IF span.lo + reclen < Len(item) THEN From(item, span.lo, reclen)
      ELSE IF span.chunk + 1 >= npages THEN Failed
      ELSE head \o From(pages[first + span.chunk + 2], 0, reclen - Len(head))
read_record_at(pages, first, npages, ordinal, reclen) ==
  LET span == record_span(ordinal, reclen, npages)
      item == pages[first + span.chunk + 1]
      head == From(item, span.lo, Len(item) - span.lo)
  IN  IF ~span.found THEN Failed
      ELSE IF span.lo + reclen <= Len(item) THEN From(item, span.lo, reclen)
      ELSE IF span.chunk + 1 >= npages THEN Failed
      ELSE head \o From(pages[first + span.chunk + 2], 0, reclen - Len(head))

\* The codes begin after the ids, and after the vectors or labels of the generations
\* which keep those with the codes.
CodesOffset(meta, n) ==
  CASE meta.version = 4 -> n + n * meta.dim
    [] meta.version = 7 -> n + n * LabelWords(7)
    [] OTHER -> n

\* The rows the first stage scores: a block which the list's bytes do not hold ends it.
ScoredRows(meta, bytes, n) ==
  IF meta.version = 3
  THEN {i \in 0..(n - 1) : (i + 1) * (1 + meta.dim) <= Len(bytes)}
  ELSE LET block == CeilDiv(meta.m, 2) * Lanes
       IN  {i \in 0..(n - 1) :
              CodesOffset(meta, n) + (i \div Lanes + 1) * block <= Len(bytes)}

\* The code bytes which the scores of a row come from.
ScoredCode(meta, bytes, n, i) ==
  LET pairs == CeilDiv(meta.m, 2)
      at(p) == CodesOffset(meta, n) + (i \div Lanes) * pairs * Lanes
                 + p * Lanes + (i % Lanes)
  IN  [p \in 1..pairs |-> bytes[at(p - 1) + 1]]

\* The labels of a row, in a version 7 index.
StoredLabels(bytes, n, i) ==
  LET rec == n + i * LabelWords(7)
  IN  From(bytes, rec + 1, bytes[rec + 1][2])

\* What a scan finds of row i of a list, given the list's entry of the directory.
FoundRow(pages, entry, bytes, i) ==
  LET meta == MetaOf(pages)
      n == entry[EntryWords(meta.version)]
      version == meta.version
  IN  [id |-> IF version = 3 THEN bytes[i * (1 + meta.dim) + 1] ELSE bytes[i + 1],
       record |->
         CASE version = 3 -> From(bytes, i * (1 + meta.dim) + 1, meta.dim)
           [] version = 4 -> From(bytes, n + i * meta.dim, meta.dim)
           [] OTHER -> read_record_at(pages, entry[3], entry[4], i,
                                      RecordLength(version, meta.dim)),
       code |-> IF version = 3 THEN <<>> ELSE ScoredCode(meta, bytes, n, i),
       labels |-> IF version = 7 THEN StoredLabels(bytes, n, i) ELSE <<>>]

\* A scan of every list.
FoundRows(pages) ==
  LET meta == MetaOf(pages)
      dir == ReadDirectory(pages)
      found(entry) ==
        LET bytes == read_chunked(pages, entry[1], entry[2])
            n == entry[EntryWords(meta.version)]
        IN  {FoundRow(pages, entry, bytes, i) : i \in ScoredRows(meta, bytes, n)}
  IN  UNION {found(dir[l]) : l \in DOMAIN dir}

\* The block after the index, where the pending list begins: computed from block 0 and the
\* directory by a function of its own.
\* A fault: only the pages of the lists are added up.
main_index_pagesOfLists(pages) ==
  LET meta == MetaOf(pages)
      dir == ReadDirectory(pages)
  IN  meta.base + meta.dir + meta.codebook + meta.refine + meta.centroid
        + FoldLeft(LAMBDA sum, e : sum + e[2], 0, dir)
main_index_pages(pages) ==
  LET meta == MetaOf(pages)
      dir == ReadDirectory(pages)
      pagesOf(e) == e[2] + IF Split(meta.version) THEN e[4] ELSE 0
  IN  meta.base + meta.dir + meta.codebook + meta.refine + meta.centroid
        + FoldLeft(LAMBDA sum, e : sum + pagesOf(e), 0, dir)

-----------------------------------------------------------------------------
LayoutInit == index \in BuiltIndexes
LayoutNext == UNCHANGED index

StoredRow(x, row) ==
  [id |-> <<"id", row>>, record |-> Record(x, row),
   code |-> IF Coded(Version(x)) THEN Code(x, row) ELSE <<>>,
   labels |-> IF Version(x) = 7
              THEN SubSeq(Labels(row), 1, Min({LabelK, Len(Labels(row))})) ELSE <<>>]

\* Whatever the generation, the sizes of the lists and where the items are cut, the scan of
\* a written index finds for every row the id, labels, code and refine record which the
\* build stored for it, and the centroids; and the pages end where the pending list begins.
\* The writers and the readers compute the same offsets in different code.  The codebook
\* decodes if there were rows enough to train one centroid per code: with fewer, train
\* caps their number (vec/aq.rs:78) and from_meta_bytes, which wants all, refuses it.
IndexReadsBack ==
  LET pages == WrittenPages(index)
  IN  /\ FoundRows(pages) =
           {StoredRow(index, row) : row \in UNION {Range(ListRows(index, l)) : l \in Lists(index)}}
      /\ ReadCentroids(pages) = Centroids(index)
      /\ main_index_pages(pages) = Len(pages)
      /\ Coded(Version(index)) /\ RowCount(index) >= KStar
           => ReadCodebook(pages) = AqCodebook(index)
=============================================================================
