------------------------------ MODULE HnswLayout ------------------------------
(***************************************************************************)
(* The pages of an HNSW index (am/hnsw_page): a graph is packed into        *)
(* element, neighbour, codebook and raw pages from block `base` on, which a *)
(* build writes after the meta page and a fold at any free region, and read *)
(* back by following addresses.  The writer knows the address of an element *)
(* before it has packed one, by division; neighbour tuples are packed by    *)
(* the space left; the readers start from the meta page only.               *)
(*                                                                         *)
(* Lengths are in words of 4 bytes, an item is a record of its fields, and  *)
(* a vector or a code is named after its node.  A graph g is                *)
(* [kind, dim, m, subspaces, level, links, entry, base, dead]: level is a   *)
(* sequence, node 0 first; links[n][lc] are neighbours; dead nodes are      *)
(* those tombstoned since.                                                  *)
(***************************************************************************)
EXTENDS Integers, Sequences, FiniteSetsExt, SequencesExt

CONSTANTS
  Usable,    \* words of a page that items share (8168 bytes)
  CbChunk,   \* words of codebook in an item (8000 bytes)
  KStar,     \* centroids of a subspace (16)
  Byte,      \* values of a byte (256)
  Failed     \* the error a caller raises

ItemId == 1
ElemHeader == 5
ElemHeaderV4 == 7
RawHeader == 1
NbrHeader == 1
Slot == 2

CeilDiv(a, b) == (a + b - 1) \div b
maxalign(n) == CeilDiv(n, 2) * 2
ItemsPerPage(size) == Max({1, Usable \div (ItemId + maxalign(size))})

Count(g) == Len(g.level)
Nodes(g) == 0..(Count(g) - 1)
LevelOf(g, node) == g.level[node + 1]
M0(g) == 2 * g.m

CodeLength(g) ==
  CASE g.kind = "sbq" -> 1
    [] g.kind = "aq" -> CeilDiv(g.subspaces, 2)
    [] OTHER -> 0
Code(g, node) == [of |-> node, length |-> CodeLength(g)]

\* to_meta_bytes: a header and the centroids, of which there are no more than rows.
AqCodebook(g) ==
  << <<"aq", g.subspaces, g.dim \div g.subspaces>> >>
  \o [k \in 1..(g.dim * Min({KStar, Count(g)})) |-> <<"centroid", k>>]

-----------------------------------------------------------------------------
(* Packing.                                                                *)

Split(g) == g.kind = "aq"
ElementSize(g) == IF Split(g) THEN ElemHeaderV4 + CodeLength(g)
                  ELSE ElemHeader + g.dim + CodeLength(g)
PerElementPage(g) == ItemsPerPage(ElementSize(g))
ElementPages(g) == CeilDiv(Count(g), PerElementPage(g))
AddressIn(first, perPage, node) == <<first + (node \div perPage), 1 + (node % perPage)>>
ElementAddress(g, node) == AddressIn(g.base, PerElementPage(g), node)

NbrSlots(level, m, m0) == level * m + m0
NbrSize(g, node) == NbrHeader + NbrSlots(LevelOf(g, node), g.m, M0(g)) * Slot
NbrCost(g, node) == ItemId + maxalign(NbrSize(g, node))

Empty == <<0, 0>>

\* The slot of the top layer comes first, that of the ground layer last.
encode_neighbors(g, node) ==
  LET level == LevelOf(g, node)
      InLayer(lc, i) == LET near == g.links[node][lc]
                        IN  IF i <= Len(near) THEN ElementAddress(g, near[i]) ELSE Empty
  IN  [tag |-> "neighbors",
       slots |-> [k \in 1..NbrSlots(level, g.m, M0(g)) |->
                    IF k > level * g.m THEN InLayer(0, k - level * g.m)
                    ELSE InLayer(level - ((k - 1) \div g.m), 1 + ((k - 1) % g.m))]]

\* Neighbour tuples by free space: `page` counts from 1, `at` is each node's <<page, offset>>.
PackNeighbors(g) ==
  FoldLeft(
    LAMBDA a, node :
      LET cost == NbrCost(g, node)
          page == IF a.used + cost > Usable /\ Last(a.pages) # <<>>
                  THEN [items |-> Append(a.pages, <<>>), used |-> 0]
                  ELSE [items |-> a.pages, used |-> a.used]
          last == Len(page.items)
      IN  [pages |-> [page.items EXCEPT ![last] = Append(@, encode_neighbors(g, node))],
           used |-> page.used + cost,
           at |-> Append(a.at, <<last, Len(page.items[last]) + 1>>)],
    [pages |-> << <<>> >>, used |-> 0, at |-> <<>>], [k \in 1..Count(g) |-> k - 1])

\* Pages of as many items as the addresses say; of the codebook, items of CbChunk words.
FixedPages(items, perPage) ==
  [p \in 1..CeilDiv(Len(items), perPage) |->
     SubSeq(items, (p - 1) * perPage + 1, Min({p * perPage, Len(items)}))]

codebook_pages(codebook) ==
  LET chunks == FixedPages(codebook, CbChunk)
  IN  [p \in DOMAIN chunks |-> << [tag |-> "codebook", words |-> chunks[p]] >>]

\* The meta page: the version says which trailer follows.  An AQ index keeps the
\* number of its subspaces in a byte.
encode_meta(g, nbrPages, cbPages, rawPages) ==
  LET aq_m == IF Split(g) THEN g.subspaces % Byte ELSE 0
      nbrFirst == g.base + ElementPages(g)
      cbFirst == nbrFirst + nbrPages
  IN  [tag |-> "meta", version |-> IF rawPages # 0 THEN 4 ELSE IF g.kind = "sbq" THEN 2 ELSE 1,
       m |-> g.m, m0 |-> M0(g), dim |-> g.dim,
       entry |-> ElementAddress(g, g.entry), entry_level |-> LevelOf(g, g.entry),
       node_count |-> Count(g),
       elem_first |-> g.base, elem_npages |-> ElementPages(g),
       nbr_first |-> nbrFirst, nbr_npages |-> nbrPages,
       trailer |->
         IF aq_m # 0
         THEN [aq_m |-> aq_m, cb_len |-> Len(AqCodebook(g)), cb_first |-> cbFirst,
               cb_npages |-> cbPages, raw_first |-> cbFirst + cbPages, raw_npages |-> rawPages]
         ELSE IF g.kind = "sbq" THEN [sbq_bits |-> 1] ELSE <<>>]

EmptyMeta(g) ==
  [tag |-> "meta", version |-> 1, m |-> g.m, m0 |-> M0(g), dim |-> 0, entry |-> Empty,
   entry_level |-> -1, node_count |-> 0, elem_first |-> g.base, elem_npages |-> 0,
   nbr_first |-> g.base, nbr_npages |-> 0, trailer |-> <<>>]

\* pack_v4 has no case for an empty graph, which has no entry point.
Refused(g) ==
  \/ g.kind = "aq" /\ (Count(g) = 0 \/ g.dim % g.subspaces # 0)
  \/ \E node \in Nodes(g) : NbrCost(g, node) > Usable

\* pack_kind, and pack_v4 which keeps vectors on pages of their own.
Pack(g) ==
  IF Refused(g) THEN Failed
  ELSE IF Count(g) = 0 THEN [meta |-> EmptyMeta(g), pages |-> <<>>]
  ELSE
    LET near == PackNeighbors(g)
        nbrFirst == g.base + ElementPages(g)
        NbrAddress(node) == <<nbrFirst + near.at[node + 1][1] - 1, near.at[node + 1][2]>>
        cb == IF Split(g) THEN codebook_pages(AqCodebook(g)) ELSE <<>>
        perRaw == ItemsPerPage(RawHeader + g.dim)
        rawFirst == nbrFirst + Len(near.pages) + Len(cb)
        raw == IF Split(g)
               THEN FixedPages([k \in 1..Count(g) |-> [tag |-> "raw", vec |-> k - 1]], perRaw)
               ELSE <<>>
        Element(node) ==
          [tag |-> "element", level |-> LevelOf(g, node), tid |-> node,
           deleted |-> node \in g.dead, nbr |-> NbrAddress(node), code |-> Code(g, node),
           raw |-> IF Split(g) THEN AddressIn(rawFirst, perRaw, node) ELSE Empty,
           vec |-> IF Split(g) THEN Failed ELSE node]
    IN  [meta |-> encode_meta(g, Len(near.pages), Len(cb), Len(raw)),
         pages |-> FixedPages([k \in 1..Count(g) |-> Element(k - 1)], PerElementPage(g))
                  \o near.pages \o cb \o raw]

\* write_structured, and fold at a base above the blocks of another generation.
File(g, packed) ==
  [b \in 0..(g.base + Len(packed.pages) - 1) |->
     IF b = 0 THEN << packed.meta >>
     ELSE IF b < g.base THEN << [tag |-> "old"] >>
     ELSE packed.pages[b - g.base + 1]]

-----------------------------------------------------------------------------
(* Reading.                                                                *)

Item(file, a) ==
  IF a[1] \in DOMAIN file /\ a[2] \in DOMAIN file[a[1]] THEN file[a[1]][a[2]] ELSE Failed

Tagged(item, tag) == item # Failed /\ item.tag = tag

PagesFrom(file, first, npages) == FlattenSeq([p \in 1..npages |-> file[first + p - 1]])

AqM(meta) == IF meta.version = 4 THEN meta.trailer.aq_m ELSE 0

\* read_meta: the descriptor must be as long as its version says, the codebook as it says.
ReadMeta(file) ==
  LET meta == file[0][1]
      t == meta.trailer
  IN  IF meta.version # 4 THEN [meta |-> meta, codebook |-> <<>>]
      ELSE IF DOMAIN t = {} \/ t.cb_first + t.cb_npages - 1 \notin DOMAIN file THEN Failed
      ELSE LET items == PagesFrom(file, t.cb_first, t.cb_npages)
               cb == FlattenSeq([i \in DOMAIN items |-> items[i].words])
           IN  IF Len(cb) # t.cb_len THEN Failed ELSE [meta |-> meta, codebook |-> cb]

pending_start(meta) ==
  Max({meta.nbr_first + meta.nbr_npages}
      \cup IF meta.version = 4
           THEN {meta.trailer.cb_first + meta.trailer.cb_npages,
                 meta.trailer.raw_first + meta.trailer.raw_npages}
           ELSE {})

\* from_meta_bytes: the subspaces and their width, if there is a full set of centroids.
Quantizer(codebook) ==
  LET h == codebook[1]
  IN  IF Len(codebook) # 1 + h[2] * KStar * h[3] THEN Failed ELSE [m |-> h[2], dim |-> h[2] * h[3]]

\* traverse: what is checked before the first element is read.
Opened(file) ==
  LET r == ReadMeta(file)
  IN  IF r = Failed THEN Failed
      ELSE IF AqM(r.meta) = 0 THEN [meta |-> r.meta, q |-> <<>>]
      ELSE LET q == Quantizer(r.codebook)
           IN  IF q = Failed THEN Failed
               ELSE IF q.dim # r.meta.dim THEN Failed ELSE [meta |-> r.meta, q |-> q]

\* load, without the distance; the code must be as long as the quantizer's.
Load(file, index, a) ==
  LET e == Item(file, a)
  IN  IF ~Tagged(e, "element") THEN Failed
      ELSE IF AqM(index.meta) # 0
      THEN IF e.code.length # CeilDiv(index.q.m, 2) THEN Failed
           ELSE [tid |-> e.tid, level |-> e.level, nbr |-> e.nbr, raw |-> e.raw, at |-> a,
                 deleted |-> e.deleted, code |-> e.code]
      ELSE [tid |-> e.tid, level |-> e.level, nbr |-> e.nbr, raw |-> Empty, at |-> a,
            deleted |-> e.deleted, code |-> e.code]

decode_neighbors(item, level, lc, m, m0) ==
  LET start == IF lc = 0 THEN level * m ELSE (level - lc) * m
      len == IF lc = 0 THEN m0 ELSE m
  IN  IF ~Tagged(item, "neighbors") THEN Failed
      ELSE IF lc > level THEN <<>>
      ELSE IF Len(item.slots) < start + len THEN Failed
      ELSE SelectSeq(SubSeq(item.slots, start + 1, start + len), LAMBDA a : a # Empty)

neighbors_of(file, meta, cand, lc) ==
  decode_neighbors(Item(file, cand.nbr), cand.level, lc, meta.m, meta.m0)

\* The exact vector of a survivor: on a page of its own, or in the element.
Rerank(file, cand) ==
  IF cand.raw # Empty
  THEN LET r == Item(file, cand.raw) IN IF Tagged(r, "raw") THEN r.vec ELSE Failed
  ELSE Item(file, cand.at).vec

\* enumerate_entries: the live elements of the meta page's range, with their vectors.
Enumerate(file, meta) ==
  LET live == SelectSeq(PagesFrom(file, meta.elem_first, meta.elem_npages),
                        LAMBDA e : ~e.deleted)
      Vector(e) == IF meta.version = 4
                   THEN LET r == Item(file, e.raw) IN IF Tagged(r, "raw") THEN r.vec ELSE Failed
                   ELSE e.vec
  IN  [i \in DOMAIN live |-> <<live[i].tid, Vector(live[i])>>]

\* pack_fold_layout: the layout of the next generation, from the pages alone.
FoldLayout(index) ==
  IF AqM(index.meta) # 0 THEN [kind |-> "aq", subspaces |-> AqM(index.meta)]
  ELSE [kind |-> IF index.meta.version = 2 THEN "sbq" ELSE "none", subspaces |-> 0]

-----------------------------------------------------------------------------
\* A graph that is packed is read back as it was: the walk finds every neighbour of every
\* layer, its code and its vector, a fold finds the live rows and the layout, and the
\* pending region begins where the pages end.  An AQ index of fewer rows than centroids, or
\* whose subspaces do not fit a byte, may be refused by its readers, but not misread.
GraphReadsBack(g) ==
  LET packed == Pack(g)
      file == File(g, packed)
      index == Opened(file)
      Small == Split(g) /\ (Count(g) < KStar \/ g.subspaces >= Byte)
      Reads(node, cand) ==
        /\ cand # Failed
        /\ cand.tid = node /\ cand.level = LevelOf(g, node)
        /\ cand.deleted = (node \in g.dead)
        /\ cand.code = Code(g, node)
        /\ Rerank(file, cand) = node
  IN  \/ packed = Failed
      \/ Small /\ index = Failed
      \/ /\ index # Failed
         /\ pending_start(index.meta) = g.base + Len(packed.pages)
         /\ \A node \in Nodes(g) : Reads(node, Load(file, index, ElementAddress(g, node)))
         /\ Count(g) # 0 => Reads(g.entry, Load(file, index, index.meta.entry))
         /\ \A node \in Nodes(g) : \A lc \in 0..LevelOf(g, node) :
              LET near == neighbors_of(file, index.meta,
                                       Load(file, index, ElementAddress(g, node)), lc)
              IN  /\ near # Failed /\ Len(near) = Len(g.links[node][lc])
                  /\ \A i \in DOMAIN near :
                       Reads(g.links[node][lc][i], Load(file, index, near[i]))
         /\ Enumerate(file, index.meta) =
              LET live == SelectSeq([k \in 1..Count(g) |-> k - 1], LAMBDA n : n \notin g.dead)
              IN  [i \in DOMAIN live |-> <<live[i], live[i]>>]
         /\ ~Small /\ Count(g) # 0 =>
              FoldLayout(index) = [kind |-> g.kind, subspaces |-> g.subspaces]
=============================================================================
