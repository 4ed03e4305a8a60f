------------------------------ MODULE CmapTable ------------------------------
(***************************************************************************)
(* lib/table/cmap.c: which glyph shows a character, and which one shows it *)
(* under a variation selector.                                             *)
(*                                                                         *)
(* The two hash tables are the sets                                        *)
(*   unicodes of [c |-> character, g |-> glyph handle]                     *)
(*   uvs      of [c |-> character, s |-> selector, g |-> glyph handle],    *)
(* with one entry for a key: they are sorted whenever their order matters. *)
(* A handle whose glyph the font has not is disposed of, and its entry     *)
(* stays, without a name and with index 0: NoGlyph.                        *)
(*                                                                         *)
(* In the file the segments, groups and ranges are kept as records, with   *)
(* the arithmetic of their fields; the search fields of format 4, which    *)
(* nothing here reads, are left out.                                       *)
(***************************************************************************)
EXTENDS OtlGlyphSets

CONSTANTS
  StubCmap4,     \* options->stub_cmap4
  Format4Limit,  \* the longest subtable of format 4: UINT16_MAX
  RangeLimit     \* how far a range of format 14 reaches beyond its first character: 255

NoGlyph == Null
Index(g) == IF g = NoGlyph THEN 0 ELSE g

\* HASH_FIND, then HASH_ADD: the first entry of a key stays.
Encoded(table, entries, key(_)) ==
  {e \in ToSet(FirstOfEach(entries, key)) : key(e) \notin {key(x) : x \in table}} \union table

Unicode(e) == e.c
UvsKey(e) == <<e.c, e.s>>
ByUnicode(S) == InOrderOf(S, Unicode)
ByUvsKey(S) ==
  Flattened(InOrderOf({e.c : e \in S}, LAMBDA c : c),
            LAMBDA c : InOrderOf({e \in S : e.c = c}, LAMBDA e : e.s))

\* A key that is not a number reads as 0.
IsUnicode(u) == u # Junk /\ u > 0 /\ u <= 1114111

ParseCmap(js) ==
  LET list(l) == IF l = Junk THEN <<>> ELSE l
  IN [unicodes |-> Encoded({}, SelectSeq(list(js.cmap), LAMBDA e : e.g # Junk /\ IsUnicode(e.c)), Unicode),
      uvs |-> Encoded({}, SelectSeq(list(js.cmap_uvs),
                            LAMBDA e : e.g # Junk /\ IsUnicode(e.c) /\ IsUnicode(e.s)), UvsKey)]

ConsolidateCmap(t) ==
  LET settled(S) == {[e EXCEPT !.g = IF Known(@) THEN Gid(@) ELSE NoGlyph] : e \in S}
  IN [unicodes |-> settled(t.unicodes), uvs |-> settled(t.uvs)]

DumpCmap(t) ==
  LET named(S) == {[e EXCEPT !.g = NameOf(@)] : e \in {x \in S : x.g # NoGlyph}}
  IN [cmap |-> IF t.unicodes = {} THEN Junk ELSE ByUnicode(named(t.unicodes)),
      cmap_uvs |-> IF t.uvs = {} THEN Junk ELSE ByUvsKey(named(t.uvs))]

-----------------------------------------------------------------------------
(* Format 4: a segment takes its glyphs from its delta or, where they are  *)
(* not in sequence, from an array; array is where in it, plus one byte.    *)

Unstarted == 16777215
NoSegment == [segments |-> <<>>, ids |-> <<>>, start |-> Unstarted, end |-> Unstarted,
              gidStart |-> Unstarted, gidEnd |-> Unstarted, array |-> 0, sequential |-> TRUE]

\* FLUSH_SEQUENCE_FORMAT_4
Flushed(b) ==
  Append(b.segments,
    [start |-> b.start % 65536, end |-> b.end % 65536,
     delta |-> IF b.sequential THEN (b.gidStart - b.start) % 65536 ELSE 0,
     rangeOffset |-> IF b.sequential THEN 0 ELSE b.array + 1])

Begun(b, e) ==
  [b EXCEPT !.start = e.c, !.end = e.c, !.gidStart = Index(e.g), !.gidEnd = Index(e.g),
            !.sequential = TRUE]

\* A character that follows the segment's last joins it, unless it would end a
\* sequence of five glyphs or more.
Joins(b, e) ==
  /\ e.c = b.end + 1
  /\ ~(Index(e.g) # b.gidEnd + 1 /\ b.sequential /\ b.gidEnd - b.gidStart >= 4)

Joined_ArrayFromEnd(b, e) ==
  LET next == b.sequential /\ Index(e.g) = b.gidEnd + 1
      broken == b.sequential /\ ~next
      ids == IF broken THEN b.ids \o [i \in 1..(b.gidEnd - b.gidStart + 1) |-> b.gidStart + i - 1]
             ELSE b.ids
  IN [b EXCEPT !.end = e.c, !.gidEnd = Index(e.g), !.sequential = next,
               !.ids = IF next THEN ids ELSE Append(ids, Index(e.g)),
               !.array = IF broken THEN 2 * Len(ids) ELSE @]
Joined(b, e) ==
  LET next == b.sequential /\ Index(e.g) = b.gidEnd + 1
      broken == b.sequential /\ ~next
      ids == IF broken THEN b.ids \o [i \in 1..(b.gidEnd - b.gidStart + 1) |-> b.gidStart + i - 1]
             ELSE b.ids
  IN [b EXCEPT !.end = e.c, !.gidEnd = Index(e.g), !.sequential = next,
               !.ids = IF next THEN ids ELSE Append(ids, Index(e.g)),
               !.array = IF broken THEN 2 * Len(b.ids) ELSE @]

WithEntry(b, e) ==
  IF b.start = Unstarted THEN Begun(b, e)
  ELSE IF Joins(b, e) THEN Joined(b, e)
  ELSE Begun([b EXCEPT !.segments = Flushed(b)], e)

BuildFormat4(unicodes) ==
  LET b == FoldLeft(WithEntry, NoSegment, ByUnicode({e \in unicodes : e.c <= 65535}))
      padding == IF b.gidEnd < 65535
                 THEN <<[start |-> 65535, end |-> 65535, delta |-> 1, rangeOffset |-> 0]>> ELSE <<>>
      segments == Flushed(b) \o padding
      n == Len(segments)
      \* An offset counts from its own place among the offsets.
      placed(j) == [segments[j] EXCEPT !.rangeOffset = IF @ = 0 THEN 0 ELSE @ - 1 + 2 * (n - j + 1)]
  IN IF 16 + 8 * n + 2 * Len(b.ids) > Format4Limit THEN Null
     ELSE [segments |-> [j \in 1..n |-> placed(j)], ids |-> b.ids]

\* Written where format 4 is not wanted or too long; it maps U+0000 to glyph 0.
DummyFormat4 ==
  [segments |-> <<[start |-> 0, end |-> 0, delta |-> 0, rangeOffset |-> 0],
                  [start |-> 65535, end |-> 65535, delta |-> 1, rangeOffset |-> 0]>>,
   ids |-> <<>>]

\* The reader leaves U+FFFF out, and a place beyond the end.
ReadFormat4(f) ==
  LET n == Len(f.segments)
      place(s, j, c) == (s.rangeOffset + 2 * (c - s.start) - 2 * (n - j + 1)) \div 2 + 1
      gid(s, j, c) == ((IF s.rangeOffset = 0 THEN c ELSE f.ids[place(s, j, c)]) + s.delta) % 65536
      entries(j) ==
        LET s == f.segments[j]
            last == IF s.end = 65535 THEN 65534 ELSE s.end
        IN SelectSeq([i \in 1..(last - s.start + 1) |-> s.start + i - 1],
                     LAMBDA c : s.rangeOffset = 0 \/ place(s, j, c) <= Len(f.ids))
  IN FlattenSeq([j \in 1..n |->
       Mapped(entries(j), LAMBDA c : [c |-> c, g |-> gid(f.segments[j], j, c)])])

-----------------------------------------------------------------------------
(* Format 12: groups in which characters and glyphs go on together. *)

BuildFormat12(unicodes) ==
  LET shift(e) == e.c - Index(e.g)
      groups == UNION {{[start |-> q[1], end |-> q[2], gid |-> q[1] - k] :
                          q \in Runs({e.c : e \in {x \in unicodes : shift(x) = k}})} :
                       k \in {shift(e) : e \in unicodes}}
  IN InOrderOf(groups, LAMBDA q : q.start)

ReadFormat12(groups) ==
  Flattened(groups, LAMBDA g : [i \in 1..(g.end - g.start + 1) |->
                                  [c |-> g.start + i - 1, g |-> (g.gid + i - 1) % 65536]])

-----------------------------------------------------------------------------
(* Format 14: for each selector the characters that keep their glyph, as   *)
(* ranges of limited length, and those that get another.                   *)

\* writeDefaultRange
SplitRange(r) ==
  LET pieces == (r[2] - r[1]) \div (RangeLimit + 1)
      start(k) == r[1] + k * (RangeLimit + 1)
  IN [k \in 1..(pieces + 1) |->
        [start |-> start(k - 1), more |-> IF k <= pieces THEN RangeLimit ELSE r[2] - start(pieces)]]

BuildForSelector(t, s) ==
  LET here == {e \in t.uvs : e.s = s /\ e.g # NoGlyph}
      isDefault(e) == \E u \in t.unicodes : u.c = e.c /\ Index(u.g) = e.g
      runs == Runs({e.c : e \in {x \in here : isDefault(x)}})
  IN [selector |-> s,
      ranges |-> Flattened(InOrderOf(runs, LAMBDA r : r[1]), SplitRange),
      mappings |-> Mapped(ByUnicode({e \in here : ~isDefault(e)}), LAMBDA e : <<e.c, e.g>>)]

BuildFormat14(t) ==
  Mapped(InOrderOf({e.s : e \in t.uvs}, LAMBDA s : s), LAMBDA s : BuildForSelector(t, s))

\* A default is looked up among the characters read before.
ReadSelector(unicodes, f) ==
  LET kept(r) == SelectSeq([i \in 1..(r.more + 1) |-> r.start + i - 1],
                           LAMBDA c : \E e \in unicodes : e.c = c)
      glyph(c) == (CHOOSE e \in unicodes : e.c = c).g
  IN Mapped(Flattened(f.ranges, kept), LAMBDA c : [c |-> c, s |-> f.selector, g |-> glyph(c)])
       \o Mapped(f.mappings, LAMBDA m : [c |-> m[1], s |-> f.selector, g |-> m[2]])

-----------------------------------------------------------------------------
\* Without a character there is no table, whatever the selectors say.
BuildCmap(t) ==
  LET astral == \E e \in t.unicodes : e.c > 65535
      four == IF astral /\ StubCmap4 THEN Null ELSE BuildFormat4(t.unicodes)
  IN IF t.unicodes = {} THEN Null
     ELSE [format4 |-> IF four = Null THEN DummyFormat4 ELSE four,
           format12 |-> IF astral \/ four = Null THEN BuildFormat12(t.unicodes) ELSE Null,
           format14 |-> IF t.uvs = {} THEN Null ELSE BuildFormat14(t)]

\* The subtables are read by format: 12, 4, then 14; what comes first stays.
ReadCmap(f) ==
  LET full == IF f.format12 = Null THEN {} ELSE Encoded({}, ReadFormat12(f.format12), Unicode)
      unicodes == Encoded(full, ReadFormat4(f.format4), Unicode)
  IN [unicodes |-> unicodes,
      uvs |-> IF f.format14 = Null THEN {}
              ELSE Encoded({}, Flattened(f.format14, LAMBDA x : ReadSelector(unicodes, x)), UvsKey)]

-----------------------------------------------------------------------------
(* What the table says.  A character mapped to glyph 0 shows what one that *)
(* is not mapped shows.  U+FFFF, no character, is not kept by format 4,    *)
(* and variation sequences without a character to map are not written.     *)

CmapFacts(unicodes, uvs) ==
  {<<e.c, e.g>> : e \in {x \in unicodes : x.c # 65535 /\ x.g # 0}}
    \union {<<e.c, e.s, e.g>> : e \in {x \in uvs : x.c # 65535}}

MeaningOfCmap(t) ==
  IF t.unicodes = {} THEN {}
  ELSE CmapFacts({e \in t.unicodes : e.g # NoGlyph}, {e \in t.uvs : e.g # NoGlyph})

IntendedCmap(js) ==
  LET usable(l) == IF l = Junk THEN <<>> ELSE SelectSeq(l, LAMBDA e : e.g # Junk /\ IsUnicode(e.c))
      first(l, key(_)) == {l[i] : i \in {j \in DOMAIN l : \A h \in 1..(j - 1) : key(l[h]) # key(l[j])}}
      settled(S) == {[e EXCEPT !.g = Gid(@)] : e \in {x \in S : x.g \in ToSet(Order)}}
  IN IF usable(js.cmap) = <<>> THEN {}
     ELSE CmapFacts(settled(first(usable(js.cmap), Unicode)),
                    settled(first(SelectSeq(usable(js.cmap_uvs), LAMBDA e : IsUnicode(e.s)), UvsKey)))
=============================================================================
