---------------------------- MODULE DocumentTables ----------------------------
(***************************************************************************)
(* Tables of documents behind an index: SVG and meta, lib/table/SVG.c and  *)
(* meta/, and the heights of VDMX, lib/table/vdmx/funcs.c.  A document is  *)
(* a sequence of bytes.  Where the block graph puts the documents does not *)
(* matter here: they follow each other.                                    *)
(***************************************************************************)
EXTENDS OtlGlyphSets, TextEncoding

-----------------------------------------------------------------------------
(* SVG: assignments [start, end, document] of documents to ranges of        *)
(* glyphs; in JSON a document is a string, plain or in base64.              *)

SvgTag == <<60, 115, 118, 103>>           \* <svg
XmlTag == <<60, 63, 120, 109, 108>>       \* <?xml
CanUsePlainFormat(d) == (Len(d) > 5 /\ IsPrefix(XmlTag, d)) \/ (Len(d) > 4 /\ IsPrefix(SvgTag, d))

\* A document that is not plain is encoded here once more.
ParseSVG(js) ==
  IF js = Junk THEN Null
  ELSE Mapped(SelectSeq(js, LAMBDA a : a # Junk /\ a.format # Junk /\ a.document # Junk),
              LAMBDA a : [start |-> a.start, end |-> a.end,
                          document |-> IF a.format = "plain" THEN a.document ELSE Base64Encode(a.document)])
DumpSVG(t) ==
  LET plain(a) == CanUsePlainFormat(a.document)
  IN Mapped(t, LAMBDA a : [start |-> a.start, end |-> a.end,
                           format |-> IF plain(a) THEN "plain" ELSE "base64",
                           document |-> IF plain(a) THEN a.document ELSE Base64Encode(a.document)])

\* The bytes of the index and of the documents behind it; an offset counts from the index.
BuildSVG(t) ==
  LET sorted == SortedBy(t, LAMBDA a : a.start)
      offset(j) == 2 + 12 * Len(sorted) + Len(Flattened(SubSeq(sorted, 1, j - 1), LAMBDA a : a.document))
  IN IF t = <<>> THEN Null
     ELSE [index |-> [j \in DOMAIN sorted |-> [start |-> sorted[j].start, end |-> sorted[j].end,
                                               offset |-> offset(j), length |-> Len(sorted[j].document)]],
           texts |-> Flattened(sorted, LAMBDA a : a.document)]
ReadSVG(f) ==
  LET from(e) == e.offset - 2 - 12 * Len(f.index)
      text(e) == IF from(e) + e.length <= Len(f.texts) THEN SubSeq(f.texts, from(e) + 1, from(e) + e.length) ELSE <<>>
  IN Mapped(f.index, LAMBDA e : [start |-> e.start, end |-> e.end, document |-> text(e)])

DocumentsOf(t) == {<<a.start, a.end, a.document>> : a \in ToSet(t)}
IntendedDocuments(js) ==
  LET given == SelectSeq(IF js = Junk THEN <<>> ELSE js, LAMBDA a : a # Junk /\ Junk \notin {a.format, a.document})
  IN {<<a.start, a.end, IF a.format = "plain" THEN a.document ELSE Base64Decode(a.document)>> : a \in ToSet(given)}

-----------------------------------------------------------------------------
(* meta: entries [tag, data]; in JSON the data is a string or base64.       *)

StringTags == {"dlng", "slng"}

\* An entry without data is skipped; of two forms the string is taken.
ParseMeta(js) ==
  LET data(e) == IF e.string # Junk THEN e.string ELSE Base64Decode(e.base64)
  IN IF js = Junk THEN Null
     ELSE Mapped(SelectSeq(js, LAMBDA e : e # Junk /\ e.tag # Junk /\ (e.string # Junk \/ e.base64 # Junk)),
                 LAMBDA e : [tag |-> e.tag, data |-> data(e)])
DumpMeta(t) ==
  Mapped(t, LAMBDA e : [tag |-> e.tag, string |-> IF e.tag \in StringTags THEN e.data ELSE Junk,
                        base64 |-> IF e.tag \in StringTags THEN Junk ELSE Base64Encode(e.data)])

BuildMeta(t) ==
  LET offset(j) == 16 + 12 * Len(t) + Len(Flattened(SubSeq(t, 1, j - 1), LAMBDA e : e.data))
  IN IF t = <<>> THEN Null
     ELSE [maps |-> [j \in DOMAIN t |-> [tag |-> t[j].tag, offset |-> offset(j), length |-> Len(t[j].data)]],
           texts |-> Flattened(t, LAMBDA e : e.data)]
ReadMeta(f) ==
  LET from(e) == e.offset - 16 - 12 * Len(f.maps)
      inside(e) == from(e) + e.length <= Len(f.texts)
  IN Mapped(SelectSeq(f.maps, inside),
            LAMBDA e : [tag |-> e.tag, data |-> SubSeq(f.texts, from(e) + 1, from(e) + e.length)])

DataOf(t) == {<<j, t[j].tag, t[j].data>> : j \in DOMAIN t}
IntendedData(js) ==
  DataOf(Mapped(SelectSeq(IF js = Junk THEN <<>> ELSE js, LAMBDA e : e # Junk /\ e.tag # Junk /\ {e.string, e.base64} # {Junk}),
                LAMBDA e : [tag |-> e.tag, data |-> IF e.string = Junk THEN Base64Decode(e.base64) ELSE e.string]))

-----------------------------------------------------------------------------
(* VDMX: ratios [ratio, records], where ratio is the character set and the  *)
(* three numbers of the ratio, and a record is <<yPelHeight, yMax, yMin>>.  *)

ParseVDMX(js) ==
  IF js = Junk THEN Null
  ELSE Mapped(SelectSeq(js, LAMBDA r : r # Junk /\ r.records # Junk),
              LAMBDA r : [r EXCEPT !.records = SelectSeq(@, LAMBDA e : e # Junk)])

\* Cells of 8 bits for the ratios, then a group for each: how many records, the least
\* and the greatest height in 8 bits, and the records.
BuildVDMX(t) ==
  LET heights(r) == {e[1] : e \in ToSet(r.records)}
      least(r) == IF heights(r) = {} THEN 65535 ELSE Min(heights(r))
      greatest(r) == IF heights(r) = {} THEN 0 ELSE Max(heights(r))
      group(r) == Words(<<Len(r.records), 256 * (least(r) % 256) + (greatest(r) % 256)>> \o FlattenSeq(r.records))
  IN IF t = <<>> THEN Null
     ELSE Words(<<Len(t), Len(t)>>) \o Flattened(t, LAMBDA r : Mapped(r.ratio, LAMBDA n : W(n % 256)))
            \o Mapped(t, LAMBDA r : P(group(r)))
ReadVDMX(b) ==
  LET n == WordAt(b, 2)
      record(g, j) == <<WordAt(g, 3 * j), Signed(WordAt(g, 3 * j + 1)), Signed(WordAt(g, 3 * j + 2))>>
      records(g) == [j \in 1..WordAt(g, 1) |-> record(g, j)]
  IN [k \in 1..n |-> [ratio |-> Cells(b, 4 * k - 1, 4 * k + 2), records |-> records(Follow(b, 2 + 4 * n + k))]]

HeightsOf(t) == {<<k, t[k]>> : k \in DOMAIN t}
IntendedHeights(js) == IF js = Junk THEN {} ELSE HeightsOf(ParseVDMX(js))
=============================================================================
