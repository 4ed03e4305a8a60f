----------------------------- MODULE SimpleTables -----------------------------
(***************************************************************************)
(* Tables that are lists of records: name, gasp and the sources of Visual  *)
(* TrueType, lib/table/name.c, gasp.c and _TSI.c.                          *)
(***************************************************************************)
EXTENDS OtlGlyphSets, TextEncoding

CONSTANT LongText   \* a text this long does not have its length written: 0x8000

Given(js, default) == IF js = Junk THEN default ELSE js

-----------------------------------------------------------------------------
(* name: records [platformID, encodingID, languageID, nameID, nameString]. *)

IsUtf16(r) ==
  \/ r.platformID = 0
  \/ r.platformID = 2 /\ r.encodingID = 1
  \/ r.platformID = 3 /\ r.encodingID \in {0, 1, 10}
IsBytes(r) == r.platformID = 1 /\ r.encodingID = 0 /\ r.languageID = 0

NameKey(r) == <<r.platformID, r.encodingID, r.languageID, r.nameID>>
Precedes(a, b) == \E i \in 1..4 : a[i] < b[i] /\ \A j \in 1..(i - 1) : a[j] = b[j]

\* A record without one of its fields is skipped.
ParseName(js) ==
  LET given == SelectSeq(Given(js, <<>>), LAMBDA r : r # Junk /\ r.nameString # Junk
                                                     /\ Junk \notin ToSet(NameKey(r)))
  IN SortSeq(given, LAMBDA a, b : Precedes(NameKey(a), NameKey(b)))

Encoded8(r) ==
  IF IsUtf16(r) THEN Utf8ToUtf16(r.nameString)
  ELSE IF IsBytes(r) THEN r.nameString
  ELSE Base64Decode(r.nameString)
Decoded8(r, bytes) ==
  IF IsBytes(r) THEN bytes
  ELSE IF IsUtf16(r) THEN Utf16ToUtf8(bytes)
  ELSE Base64Encode(bytes)

\* The texts follow each other; a note by OTFCC comes after them.
BuildName(t) ==
  LET before(j) == Len(Flattened(SubSeq(t, 1, j - 1), Encoded8))
  IN [records |-> [j \in DOMAIN t |-> Words(NameKey(t[j]) \o <<Len(Encoded8(t[j])), before(j)>>)],
      strings |-> Flattened(t, Encoded8)]

ReadName(f) ==
  LET record(b) ==
        LET id == [platformID |-> WordAt(b, 1), encodingID |-> WordAt(b, 2),
                   languageID |-> WordAt(b, 3), nameID |-> WordAt(b, 4)]
            bytes == SubSeq(f.strings, WordAt(b, 6) + 1, WordAt(b, 6) + WordAt(b, 5))
        IN [platformID |-> id.platformID, encodingID |-> id.encodingID, languageID |-> id.languageID,
            nameID |-> id.nameID, nameString |-> Decoded8(id, bytes)]
  IN Mapped(f.records, record)

NamesOf(t) == {<<NameKey(r), r.nameString>> : r \in ToSet(t)}
IntendedNames(js) ==
  NamesOf(SelectSeq(Given(js, <<>>), LAMBDA r : r # Junk /\ Junk \notin ToSet(NameKey(r) \o <<r.nameString>>)))

-----------------------------------------------------------------------------
(* gasp: records [rangeMaxPPEM, behavior], where behavior is a set of the   *)
(* four flags.                                                             *)

FlagBits == [gridfit |-> 1, dogray |-> 2, symmetric_gridfit |-> 4, symmetric_smoothing |-> 8]
Flags == DOMAIN FlagBits

ParseGasp(js) ==
  IF js = Junk THEN Null
  ELSE Mapped(SelectSeq(js, LAMBDA r : r # Junk), LAMBDA r : [r EXCEPT !.rangeMaxPPEM = Given(@, 65535)])

BuildGasp(t) ==
  LET bits(S) == MapThenSumSet(LAMBDA x : FlagBits[x], S)
  IN Words(<<1, Len(t)>>) \o Flattened(t, LAMBDA r : Words(<<r.rangeMaxPPEM, bits(r.behavior)>>))

ReadGasp(b) ==
  [j \in 1..WordAt(b, 2) |->
     [rangeMaxPPEM |-> WordAt(b, 2 * j + 1),
      behavior |-> {x \in Flags : (WordAt(b, 2 * j + 2) \div FlagBits[x]) % 2 = 1}]]

BehaviorsOf(t) == {<<j, t[j].rangeMaxPPEM, t[j].behavior>> : j \in DOMAIN t}
IntendedBehaviors(js) ==
  LET given == SelectSeq(Given(js, <<>>), LAMBDA r : r # Junk)
  IN {<<j, Given(given[j].rangeMaxPPEM, 65535), given[j].behavior>> : j \in DOMAIN given}

-----------------------------------------------------------------------------
(* TSI0 and TSI1, TSI2 and TSI3: an index and the texts.  An entry is      *)
(* [type, glyph, content]; in JSON the texts of glyphs and the others are  *)
(* lists of [key, content].                                                *)

Glyph == 0
Types == <<"fpgm", "prep", "cvt">>       \* in the order of their numbers, from 1 on
Id(type, glyph) == IF type = Glyph THEN glyph ELSE CASE Types[type] = "prep" -> 65530
                                                     [] Types[type] = "cvt" -> 65531
                                                     [] Types[type] = "fpgm" -> 65533
Separator == 65534
Reserved == 65532
FarAway == 2147483647   \* a magic number, where the separator has an offset

ParseTSI(js) ==
  LET given(l) == SelectSeq(Given(l, <<>>), LAMBDA e : e.content # Junk)
      type(key) == CHOOSE i \in DOMAIN Types : Types[i] = key
  IN Mapped(given(js.glyphs), LAMBDA e : [type |-> Glyph, glyph |-> e.key, content |-> e.content])
       \o Mapped(SelectSeq(given(js.extra), LAMBDA e : e.key \in ToSet(Types)),
                 LAMBDA e : [type |-> type(e.key), glyph |-> 0, content |-> e.content])

DumpTSI(t) ==
  [glyphs |-> Mapped(SelectSeq(t, LAMBDA e : e.type = Glyph),
                     LAMBDA e : [key |-> NameOf(e.glyph), content |-> e.content]),
   extra |-> Mapped(SelectSeq(t, LAMBDA e : e.type # Glyph),
                    LAMBDA e : [key |-> Types[e.type], content |-> e.content])]

\* Every glyph has one entry: the last one given, or an empty one.
ConsolidateTSI(t) ==
  LET ofGlyph(g) == SelectSeq(t, LAMBDA e : e.type = Glyph /\ Known(e.glyph) /\ Gid(e.glyph) = g)
      glyphs == [n \in 1..NumGlyphs |->
                   [type |-> Glyph, glyph |-> n - 1,
                    content |-> IF ofGlyph(n - 1) = <<>> THEN <<>> ELSE Last(ofGlyph(n - 1)).content]]
  IN glyphs \o SortedBy(SelectSeq(t, LAMBDA e : e.type # Glyph), LAMBDA e : e.type)

\* The index in the order glyphs, a separator, prep, cvt, a reserved entry, fpgm; each
\* of the last four is there even without a text.
BuildTSI(t) ==
  LET ofType(type) == SelectSeq(t, LAMBDA e : e.type = type)
      entry(e) == [id |-> Id(e.type, e.glyph), content |-> e.content]
      empty(id) == <<[id |-> id, content |-> <<>>]>>
      part(type) == IF ofType(type) = <<>> THEN empty(Id(type, 0)) ELSE Mapped(ofType(type), entry)
      entries == Mapped(ofType(Glyph), entry) \o empty(Separator) \o part(2) \o part(3)
                   \o empty(Reserved) \o part(1)
      before(j) == Len(Flattened(SubSeq(entries, 1, j - 1), LAMBDA e : e.content))
      length(s) == IF Len(s) < LongText THEN Len(s) ELSE LongText
  IN [index |-> [j \in DOMAIN entries |->
                   [id |-> entries[j].id, length |-> length(entries[j].content),
                    offset |-> IF entries[j].id = Separator THEN FarAway ELSE before(j)]],
      text |-> Flattened(entries, LAMBDA e : e.content)]

\* A long text reaches to the next one.  In TSI2 only texts of glyphs are looked for.
ReadTSI(f, glyphsOnly) ==
  LET inText(e) == e.offset < Len(f.text)
      isValid(id) == IF glyphsOnly THEN id < 65530 ELSE id \notin {Separator, Reserved}
      kept == {j \in DOMAIN f.index : /\ isValid(f.index[j].id)
                                      /\ inText(f.index[j]) /\ f.index[j].length # 0}
      later(j) == {k \in (j + 1)..Len(f.index) :
                     f.index[k].id # Separator /\ inText(f.index[k]) /\ f.index[k].offset > f.index[j].offset}
      next(j) == IF later(j) = {} THEN Len(f.text) ELSE f.index[Min(later(j))].offset
      length(j) == IF f.index[j].length >= LongText THEN next(j) - f.index[j].offset ELSE f.index[j].length
      type(id) == IF \E i \in 1..3 : Id(i, 0) = id THEN CHOOSE i \in 1..3 : Id(i, 0) = id ELSE Glyph
      entry(j) == [type |-> type(f.index[j].id),
                   glyph |-> IF type(f.index[j].id) = Glyph THEN f.index[j].id ELSE 0,
                   content |-> SubSeq(f.text, f.index[j].offset + 1, f.index[j].offset + length(j))]
  IN Mapped(InOrderOf(kept, LAMBDA j : j), entry)

TextsOf(t) == {<<e.type, e.glyph, e.content>> : e \in {x \in ToSet(t) : x.content # <<>>}}
\* Of several texts for a glyph the last one counts; of the others, each does.
IntendedTexts(js) ==
  LET given(l) == SelectSeq(Given(l, <<>>), LAMBDA e : e.content # Junk)
      glyphs == given(js.glyphs)
      lasts == {glyphs[i] : i \in {j \in DOMAIN glyphs :
                                    /\ glyphs[j].key \in ToSet(Order)
                                    /\ \A k \in (j + 1)..Len(glyphs) : glyphs[k].key # glyphs[j].key}}
      extras == {p \in (1..3) \X ToSet(given(js.extra)) : p[2].key = Types[p[1]]}
  IN {<<Glyph, Gid(e.key), e.content>> : e \in {x \in lasts : x.content # <<>>}}
       \union {<<p[1], 0, p[2].content>> : p \in {q \in extras : q[2].content # <<>>}}
=============================================================================
