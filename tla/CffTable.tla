------------------------------ MODULE CffTable ------------------------------
(***************************************************************************)
(* The CFF table as bytes: lib/table/CFF.c, lib/libcff/cff-index.c,        *)
(* cff-dict.c, cff-codecs.c, cff-charset.c, cff-fdselect.c, cff-string.c   *)
(* and the file layout of cff-parser.c.                                    *)
(*                                                                         *)
(* A text is a sequence of bytes.  A font dictionary is [names, numbers,   *)
(* bbox, private]: names and numbers are functions from operators, as are  *)
(* the arrays and numbers of a private dictionary, [arrays, numbers].      *)
(* Numbers are integers, so blueScale and expansionFactor, which are not,  *)
(* are left out, with the font matrix and the widths, which are in Metrics.*)
(* A charstring is opaque, but that its glyph's place in calls says whether*)
(* it is a call of a local or a global subroutine that draws the glyph,    *)
(* or the drawing itself; what CffSubroutines does is more.                *)
(***************************************************************************)
EXTENDS OtlGlyphSets

CONSTANT NotdefName  \* the name of glyph 0, which no charset names

NameOps == <<0, 1, 3072, 2, 3, 4>>                \* version .. Weight, as they are written
NumberOps == <<3073, 3074, 3075, 3076, 3080>>     \* isFixedPitch .. StrokeWidth
ArrayOps == <<6, 7, 8, 9, 3084, 3085>>            \* BlueValues .. StemSnapV
PrivateOps == <<3082, 3083, 10, 11, 3086, 3089, 3091>>  \* BlueShift .. initialRandomSeed
FontBBox == 5
FontNameOp == 3110
ROS == 3102
CIDCount == 3106
CharsetOp == 15
CharStrings == 17
Private == 18
Subrs == 19
FDArray == 3108
FDSelect == 3109

DefaultNumber(op) ==
  CASE op = 3075 -> -100 [] op = 3076 -> 50 [] op = 3082 -> 7 [] op = 3083 -> 1 [] OTHER -> 0

-----------------------------------------------------------------------------
(* From JSON and to JSON. *)

AllNumbers(ops, given) ==
  [op \in ToSet(ops) |-> IF op \in DOMAIN given THEN given[op] ELSE DefaultNumber(op)]
NoPrivate == [arrays |-> <<>>, numbers |-> AllNumbers(PrivateOps, <<>>)]
ParsePrivate(js) == IF js = Junk THEN NoPrivate ELSE [js EXCEPT !.numbers = AllNumbers(PrivateOps, @)]
ParseFont(js) ==
  [js EXCEPT !.numbers = AllNumbers(NumberOps, @), !.private = ParsePrivate(@)]
BlankFont == ParseFont([names |-> <<>>, numbers |-> <<>>, bbox |-> <<0, 0, 0, 0>>, private |-> Junk])

\* A glyph's place in the FDArray is named by JSON and numbered by the font.
FdNamed(n) == [index |-> 0, name |-> n]
FdNumbered(i) == [index |-> i, name |-> Null]
FdNowhere == FdNumbered(0)

SubfontSuffix == <<45, 48>>     \* "-subfont0"
DefaultRegistry == <<67>>       \* "CARYLL"
DefaultOrdering == <<79>>       \* "OTFCCAUTOCID"

\* fdFromJson: with an FDArray, or when it is told to, a font goes by numbers of glyphs.
ParseCff(js) ==
  LET top == ParseFont(js.font)
      forced == js.forceCid /\ js.fdArray = Junk
      cid == forced \/ js.fdArray # Junk
      text(given, default) == IF given = Junk THEN (IF cid THEN default ELSE Null) ELSE given
      fd == [name |-> js.fontName \o SubfontSuffix, font |-> [BlankFont EXCEPT !.private = top.private]]
  IN [fontName |-> js.fontName, isCID |-> cid,
      font |-> IF forced THEN [top EXCEPT !.private = NoPrivate] ELSE top,
      cidRegistry |-> text(js.cidRegistry, DefaultRegistry), cidOrdering |-> text(js.cidOrdering, DefaultOrdering),
      cidSupplement |-> js.cidSupplement,
      fdArray |-> IF forced THEN <<fd>>
                  ELSE IF cid THEN Mapped(js.fdArray, LAMBDA f : [f EXCEPT !.font = ParseFont(@)]) ELSE <<>>,
      glyphs |-> Mapped(js.glyphs, LAMBDA g :
                   [g EXCEPT !.fd = IF @ = Junk THEN FdNowhere ELSE FdNamed(@)]),
      forceCid |-> js.forceCid, calls |-> js.calls]

\* consolidateFDSelect
ConsolidateFd(fds, h) ==
  LET named == {j \in DOMAIN fds : fds[j].name = h.name}
      first == CHOOSE j \in named : \A i \in named : j <= i
  IN IF fds = <<>> THEN h
     ELSE IF h.name = Null
     THEN LET i == IF h.index < Len(fds) THEN h.index ELSE 0 IN [index |-> i, name |-> fds[i + 1].name]
     ELSE IF named = {} THEN FdNowhere ELSE [index |-> first - 1, name |-> h.name]

ConsolidateCff(t) ==
  [t EXCEPT !.glyphs = Mapped(@, LAMBDA g : [g EXCEPT !.fd = ConsolidateFd(t.fdArray, @)])]

OtherNumbers(numbers) ==
  [op \in {o \in DOMAIN numbers : numbers[o] # DefaultNumber(o)} |-> numbers[op]]
DumpFont(f) ==
  [f EXCEPT !.numbers = OtherNumbers(@), !.private = [@ EXCEPT !.numbers = OtherNumbers(@)]]

\* fdToJson.  The names of glyphs leave by the glyph order.
DumpCff(t) ==
  LET ros == t.cidRegistry # Null /\ t.cidOrdering # Null
      given(text) == IF ros THEN text ELSE Junk
  IN [fontName |-> t.fontName, font |-> DumpFont(t.font),
      cidRegistry |-> given(t.cidRegistry), cidOrdering |-> given(t.cidOrdering),
      cidSupplement |-> IF ros THEN t.cidSupplement ELSE 0,
      fdArray |-> IF t.fdArray = <<>> THEN Junk ELSE Mapped(t.fdArray, LAMBDA f : [f EXCEPT !.font = DumpFont(@)]),
      glyphs |-> Mapped(t.glyphs, LAMBDA g : [g EXCEPT !.fd = IF t.isCID THEN @.name ELSE Junk]),
      forceCid |-> t.forceCid, calls |-> t.calls]

-----------------------------------------------------------------------------
(* Bytes. *)

BytesOf(v, n) == [k \in 1..n |-> (v \div 256^(n - k)) % 256]
NumberAt(data, pos, n) == FoldLeft(LAMBDA v, k : 256 * v + data[pos + k], 0, [k \in 1..n |-> k])

\* cff_encodeCffInteger
EncodeInteger(v) ==
  CASE v \in -107..107 -> <<v + 139>>
    [] v \in 108..1131 -> <<((v - 108) \div 256) + 247, (v - 108) % 256>>
    [] v \in -1131..-108 -> <<((-108 - v) \div 256) + 251, (-108 - v) % 256>>
    [] v \in -32768..32767 /\ v \notin -1131..1131 -> <<28>> \o BytesOf(v, 2)
    [] OTHER -> <<29>> \o BytesOf(v, 4)
EncodeOffset(v) == <<29>> \o BytesOf(v, 4)
EncodeOp(op) == IF op > 256 THEN BytesOf(op, 2) ELSE <<op>>

\* cff_decodeCffToken.  A number after 28 is read without its sign.
TokenAt(data, p) ==
  LET b == data[p]
      token(is, v, n) == [isOp |-> is, value |-> v, length |-> n]
  IN CASE b \in 0..21 \ {12} -> token(TRUE, b, 1)
       [] b = 12 -> token(TRUE, NumberAt(data, p - 1, 2), 2)
       [] b \in 32..246 -> token(FALSE, b - 139, 1)
       [] b \in 247..250 -> token(FALSE, (b - 247) * 256 + data[p + 1] + 108, 2)
       [] b \in 251..254 -> token(FALSE, -((b - 251) * 256) - data[p + 1] - 108, 2)
       [] b = 28 -> token(FALSE, NumberAt(data, p, 2), 3)
       [] b = 29 -> token(FALSE, Signed(NumberAt(data, p, 2)) * 65536 + NumberAt(data, p + 2, 2), 5)
       [] OTHER -> token(FALSE, b, 1)

\* An INDEX: how many, how wide the offsets, the offsets, from 1, and the data.
IndexBytes(blobs) ==
  LET end(i) == 1 + FoldLeft(LAMBDA n, b : n + Len(b), 0, SubSeq(blobs, 1, i))
      last == end(Len(blobs))
      width == IF last < 256 THEN 1 ELSE IF last < 65536 THEN 2 ELSE IF last < 16777216 THEN 3 ELSE 4
  IN IF blobs = <<>> THEN <<0, 0, 0>>
     ELSE BytesOf(Len(blobs), 2) \o <<width>>
            \o Flattened([i \in 1..(Len(blobs) + 1) |-> end(i - 1)], LAMBDA n : BytesOf(n, width))
            \o FlattenSeq(blobs)

\* extractIndex and getIndexLength
IndexAt(data, pos) ==
  LET count == NumberAt(data, pos, 2)
      width == data[pos + 3]
      offset(i) == NumberAt(data, pos + 3 + i * width, width)
      base == pos + 3 + (count + 1) * width
  IN IF count = 0 THEN [blobs |-> <<>>, length |-> 3]
     ELSE [blobs |-> [i \in 1..count |-> SubSeq(data, base + offset(i - 1), base + offset(i) - 1)],
           length |-> 3 + (offset(count) - 1) + (count + 1) * width]

\* A DICT: the numbers before each operator.
DictBytes(entries) == Flattened(entries, LAMBDA e : Flattened(e.values, EncodeInteger) \o EncodeOp(e.op))

\* parseToCallback
DictEntries(data) ==
  LET take(s, t) ==
        IF s.skip > 0 THEN [s EXCEPT !.skip = @ - 1]
        ELSE IF t.isOp
        THEN [skip |-> t.length - 1, stack |-> <<>>,
              entries |-> Append(s.entries, [op |-> t.value, values |-> s.stack])]
        ELSE [s EXCEPT !.skip = t.length - 1, !.stack = Append(@, t.value)]
  IN FoldLeft(LAMBDA s, p : take(s, TokenAt(data, p)),
              [skip |-> 0, stack |-> <<>>, entries |-> <<>>], [p \in DOMAIN data |-> p]).entries

\* What the last entry of an operator with enough numbers says, or none.
Operands(entries, op, arity) ==
  LET mine == SelectSeq(entries, LAMBDA e : e.op = op /\ Len(e.values) >= arity)
  IN IF mine = <<>> THEN Null ELSE Last(mine).values
\* parseDictKey
DictKey(entries, op, i) == LET v == Operands(entries, op, i + 1) IN IF v = Null THEN -1 ELSE v[i + 1]

-----------------------------------------------------------------------------
(* The font. *)

\* The top font names its character collection and counts its glyphs; the fonts of
\* the FDArray have names.
TopFace(t) ==
  [font |-> t.font, name |-> Null, count |-> IF t.isCID THEN Len(t.glyphs) ELSE 0, supplement |-> t.cidSupplement,
   collection |-> IF Null \in {t.cidRegistry, t.cidOrdering} THEN <<>> ELSE <<t.cidRegistry, t.cidOrdering>>]
FdFace(fd) == [font |-> fd.font, name |-> fd.name, count |-> 0, supplement |-> 0, collection |-> <<>>]

NamesGiven(f) == SelectSeq(NameOps, LAMBDA op : op \in DOMAIN f.names)

\* sidof: a text has the number of its first mention; dictionaries mention theirs in
\* the order they write them, and the glyphs' names come last.
FaceTexts(face) ==
  face.collection \o Mapped(NamesGiven(face.font), LAMBDA op : face.font.names[op])
    \o IF face.name = Null THEN <<>> ELSE <<face.name>>
TextsIn(t) ==
  LET glyphs == IF t.isCID THEN <<>> ELSE Mapped(Tail(t.glyphs), LAMBDA g : g.name)
      all == FaceTexts(TopFace(t)) \o Flattened(t.fdArray, LAMBDA fd : FaceTexts(FdFace(fd))) \o glyphs
      firsts == SelectSeq([i \in DOMAIN all |-> i], LAMBDA i : \A j \in 1..(i - 1) : all[j] # all[i])
  IN Mapped(firsts, LAMBDA i : all[i])
FirstSid == 391
SidOf(texts, s) == FirstSid - 1 + (CHOOSE i \in DOMAIN texts : texts[i] = s)

\* cff_make_fd_dict
FontDict(face, texts) ==
  LET entry(op, values) == [op |-> op, values |-> values]
      sid(s) == SidOf(texts, s)
      some(e, is) == IF is THEN <<e>> ELSE <<>>
      f == face.font
  IN some(entry(ROS, Mapped(face.collection, sid) \o <<face.supplement>>), face.collection # <<>>)
       \o Mapped(NamesGiven(f), LAMBDA op : entry(op, <<sid(f.names[op])>>))
       \o <<entry(FontBBox, f.bbox)>>
       \o Mapped(NumberOps, LAMBDA op : entry(op, <<f.numbers[op]>>))
       \o (IF face.name = Null THEN <<>> ELSE <<entry(FontNameOp, <<sid(face.name)>>)>>)
       \o some(entry(CIDCount, <<face.count>>), face.count # 0)

\* cff_make_private_dict, and room for the offset of the local subroutines.
PrivateBytes(p) ==
  LET arrays == SelectSeq(ArrayOps, LAMBDA op : op \in DOMAIN p.arrays /\ p.arrays[op] # <<>>)
  IN DictBytes(Mapped(arrays, LAMBDA op : [op |-> op, values |-> p.arrays[op]])
                 \o Mapped(PrivateOps, LAMBDA op : [op |-> op, values |-> <<p.numbers[op]>>]))
       \o EncodeOffset(-1) \o EncodeOp(Subrs)
\* callback_makefd: with room for the length and the offset of the private dictionary.
FdBytes(fd, texts) ==
  DictBytes(FontDict(FdFace(fd), texts)) \o EncodeOffset(-1) \o EncodeOffset(-1) \o EncodeOp(Private)

CharsetBytes(t, texts) ==
  IF Len(t.glyphs) < 2 THEN <<>>
  ELSE <<2>> \o BytesOf(IF t.isCID THEN 1 ELSE SidOf(texts, t.glyphs[2].name), 2) \o BytesOf(Len(t.glyphs) - 2, 2)

FdSelectBytes(t) ==
  LET fd(j) == LET i == t.glyphs[j].fd.index % 256 IN IF i > Len(t.fdArray) THEN 0 ELSE i
      begins == SelectSeq([j \in DOMAIN t.glyphs |-> j], LAMBDA j : j = 1 \/ fd(j) # fd(j - 1))
  IN IF ~t.isCID THEN <<>>
     ELSE <<3>> \o BytesOf(Len(begins), 2) \o Flattened(begins, LAMBDA j : BytesOf(j - 1, 2) \o <<fd(j)>>)
            \o BytesOf(Len(t.glyphs), 2)

\* Charstrings and subroutines.
SubrBias == 107
CallOp == [local |-> 10, global |-> 29]
Bodies(t, where) ==
  Mapped(SelectSeq([j \in DOMAIN t.glyphs |-> j], LAMBDA j : t.calls[j] = where), LAMBDA j : t.glyphs[j].code)
CharString(t, j) ==
  LET before == Cardinality({i \in 1..(j - 1) : t.calls[i] = t.calls[j]})
  IN IF t.calls[j] = "none" THEN t.glyphs[j].code
     ELSE EncodeInteger(before - SubrBias) \o <<CallOp[t.calls[j]]>>

SizeOf(blobs) == FoldLeft(LAMBDA n, b : n + Len(b), 0, blobs)

\* What the file is put together from; parts are those the top dictionary has the
\* places of, in their order.
PiecesOf(t, texts, fds) ==
  LET part(op, bytes) == [op |-> op, bytes |-> bytes]
  IN [header |-> <<1, 0, 4, 4>> \o IndexBytes(<<t.fontName>>),
      top |-> DictBytes(FontDict(TopFace(t), texts)),
      strings |-> IndexBytes(texts), globals |-> IndexBytes(Bodies(t, "global")), locals |-> IndexBytes(Bodies(t, "local")),
      fds |-> fds, privates |-> Mapped(t.fdArray, LAMBDA fd : PrivateBytes(fd.font.private)),
      parts |-> SelectSeq(<<part(CharsetOp, CharsetBytes(t, texts)), part(FDSelect, FdSelectBytes(t)),
                            part(CharStrings, IndexBytes([j \in DOMAIN t.glyphs |-> CharString(t, j)])),
                            part(Private, PrivateBytes(t.font.private)),
                            part(FDArray, IF t.isCID THEN IndexBytes(fds) ELSE <<>>)>>, LAMBDA p : p.bytes # <<>>)]

OpsSize(parts) ==
  FoldLeft(LAMBDA n, p : n + (IF p.op = Private THEN 11 ELSE IF p.op > 256 THEN 7 ELSE 6), 0, parts)
\* Where each part begins and, last, where the parts end.
PartOffsets(m, start) ==
  [k \in 1..(Len(m.parts) + 1) |-> start + SizeOf(Mapped(SubSeq(m.parts, 1, k - 1), LAMBDA p : p.bytes))]

\* The top dictionary is the one of an INDEX; its places have a fixed width.
Unpatched(m, offsets) ==
  LET op(k) == (IF m.parts[k].op = Private THEN EncodeOffset(Len(m.parts[k].bytes)) ELSE <<>>)
                 \o EncodeOffset(offsets[k]) \o EncodeOp(m.parts[k].op)
  IN m.header \o <<0, 1, 4, 0, 0, 0, 1>> \o BytesOf(Len(m.top) + OpsSize(m.parts) + 1, 4) \o m.top
       \o Flattened([k \in DOMAIN m.parts |-> k], op) \o m.strings \o m.globals
       \o Flattened(m.parts, LAMBDA p : p.bytes) \o FlattenSeq(m.privates) \o m.locals

\* The dictionaries of the FDArray are told afterwards where their private ones are, and
\* all private ones how far behind their own beginning the subroutines are.
Patches(m, offsets) ==
  LET place(op) == CHOOSE k \in DOMAIN m.parts : m.parts[k].op = op
      end == Last(offsets)
      privateAt(j) == end + SizeOf(SubSeq(m.privates, 1, j - 1))
      fdEnd(j) == offsets[place(FDArray) + 1] - SizeOf(SubSeq(m.fds, j + 1, Len(m.fds)))
      locals == end + SizeOf(m.privates)
      subrs(begin, bytes) == <<begin + Len(bytes) - 5, locals - begin>>
  IN [j \in DOMAIN m.fds |-> <<fdEnd(j) - 10, Len(m.privates[j])>>]
       \o [j \in DOMAIN m.fds |-> <<fdEnd(j) - 5, privateAt(j)>>]
       \o <<subrs(offsets[place(Private)], m.parts[place(Private)].bytes)>>
       \o [j \in DOMAIN m.fds |-> subrs(privateAt(j), m.privates[j])]
Overwritten(data, patch) ==
  [k \in DOMAIN data |-> IF k - patch[1] \in 1..4 THEN BytesOf(patch[2], 4)[k - patch[1]] ELSE data[k]]

\* writecff_CIDKeyed
Laid(m, offsets) == FoldLeft(Overwritten, Unpatched(m, offsets), Patches(m, offsets))
Assembled(m) ==
  Laid(m, PartOffsets(m, Len(m.header) + 11 + Len(m.top) + OpsSize(m.parts) + Len(m.strings) + Len(m.globals)))
CffBytes(t, texts) == Assembled(PiecesOf(t, texts, Mapped(t.fdArray, LAMBDA fd : FdBytes(fd, texts))))
BuildCff(t) == [bytes |-> CffBytes(t, TextsIn(t)), forceCid |-> t.forceCid, calls |-> t.calls]

-----------------------------------------------------------------------------
TextOfSid(texts, sid) == IF sid - FirstSid \in 0..(Len(texts) - 1) THEN texts[sid - FirstSid + 1] ELSE Null

\* callback_extract_private
ReadPrivate(entries) ==
  LET number(op) == LET v == Operands(entries, op, 1) IN IF v = Null THEN DefaultNumber(op) ELSE Last(v)
  IN [arrays |-> [op \in {o \in ToSet(ArrayOps) : Operands(entries, o, 0) # Null} |-> Operands(entries, op, 0)],
      numbers |-> [op \in ToSet(PrivateOps) |-> number(op)]]

\* callback_extract_fd
ReadFont(data, entries, texts) ==
  LET number(op) == LET v == Operands(entries, op, 1) IN IF v = Null THEN DefaultNumber(op) ELSE Last(v)
      bbox == Operands(entries, FontBBox, 4)
      private == Operands(entries, Private, 2)
      text(op) == LET v == Operands(entries, op, 1) IN IF v = Null THEN Null ELSE TextOfSid(texts, Last(v))
  IN [names |-> [op \in {o \in ToSet(NameOps) : text(o) # Null} |-> text(op)],
      numbers |-> [op \in ToSet(NumberOps) |-> number(op)],
      bbox |-> IF bbox = Null THEN <<0, 0, 0, 0>> ELSE bbox,
      private |-> IF private = Null THEN NoPrivate
                  ELSE ReadPrivate(DictEntries(SubSeq(data, private[2] + 1, private[2] + private[1])))]

\* cff_parseSubr: the subroutines of the private dictionary that a font dictionary names.
LocalSubrs(data, entries) ==
  LET length == DictKey(entries, Private, 0)
      at == DictKey(entries, Private, 1)
      subrs == DictKey(DictEntries(SubSeq(data, at + 1, at + length)), Subrs, 0)
  IN IF -1 \in {length, at} \/ subrs = -1 THEN <<>> ELSE IndexAt(data, at + subrs).blobs

\* cff_extract_FDSelect of format 3, and the range a glyph is in.
FdOf(data, at, g) ==
  LET ranges == NumberAt(data, at + 1, 2)
      first(i) == NumberAt(data, at + 3 + 3 * (i - 1), 2)   \* that of the last but one is the sentinel
      mine == {i \in 1..ranges : g >= first(i) /\ g < first(i + 1)}
  IN IF mine = {} THEN 0 ELSE data[at + 3 + 3 * ((CHOOSE i \in mine : \A j \in mine : j <= i) - 1) + 3]

\* A call at the end of a charstring draws the subroutine it calls.
Drawing(charstring, locals, globals) ==
  LET called(subrs) == LET i == TokenAt(charstring, 1).value + SubrBias + 1
                       IN IF i \in DOMAIN subrs THEN subrs[i] ELSE <<>>
  IN IF Last(charstring) = CallOp.local THEN called(locals)
     ELSE IF Last(charstring) = CallOp.global THEN called(globals)
     ELSE charstring

CidLetters == <<67, 73, 68>>   \* "CID"

\* parse_cff_bytecode: the four indexes after the header follow each other, and the top
\* dictionary says where the rest is.
FrontIndexes(data) ==
  LET after(s, index) == [blobs |-> Append(s.blobs, index.blobs), end |-> s.end + index.length]
      begin(s) == IF s.blobs = <<>> THEN data[3] ELSE s.end
  IN FoldLeft(LAMBDA s, k : after(s, IndexAt(data, begin(s))), [blobs |-> <<>>, end |-> 4], <<1, 2, 3, 4>>).blobs
PartsBy(data, front, top) ==
  LET at(op) == DictKey(top, op, 0)
  IN [name |-> front[1][1], top |-> top, texts |-> front[3], globals |-> front[4],
      charstrings |-> IF at(CharStrings) = -1 THEN <<>> ELSE IndexAt(data, at(CharStrings)).blobs,
      fds |-> IF at(FDArray) = -1 THEN <<>> ELSE Mapped(IndexAt(data, at(FDArray)).blobs, DictEntries),
      charset |-> at(CharsetOp), fdSelect |-> at(FDSelect)]
PartsAfter(data, front) == PartsBy(data, front, DictEntries(front[2][1]))
PartsIn(data) == PartsAfter(data, FrontIndexes(data))

\* nameGlyphsAccordingToCFF, by a charset of one range of format 2.
GlyphName(data, c, j) ==
  LET sid == NumberAt(data, c.charset + 1, 2) + j - 2
  IN IF j = 1 \/ c.charset = -1 THEN NotdefName
     ELSE IF Operands(c.top, ROS, 3) # Null THEN Append(CidLetters, sid) ELSE TextOfSid(c.texts, sid)

\* otfcc_readCFFAndGlyfTables
FontsOf(f, c, ros) ==
  LET data == f.bytes
      text(sid) == TextOfSid(c.texts, sid)
      font(e) == ReadFont(data, e, c.texts)
      fd(j) == IF c.fdSelect = -1 THEN 0 ELSE FdOf(data, c.fdSelect, j - 1)
      locals(j) == LocalSubrs(data, IF c.fdSelect = -1 THEN c.top ELSE c.fds[fd(j) + 1])
      glyph(j) == [name |-> GlyphName(data, c, j), fd |-> FdNumbered(fd(j)),
                   code |-> Drawing(c.charstrings[j], locals(j), c.globals)]
  IN [fontName |-> c.name, isCID |-> ros # Null, font |-> font(c.top),
      cidRegistry |-> IF ros = Null THEN Null ELSE text(ros[1]),
      cidOrdering |-> IF ros = Null THEN Null ELSE text(ros[2]),
      cidSupplement |-> IF ros = Null THEN 0 ELSE ros[3],
      fdArray |-> Mapped(c.fds, LAMBDA e : [name |-> text(DictKey(e, FontNameOp, 0)), font |-> font(e)]),
      glyphs |-> [j \in DOMAIN c.charstrings |-> glyph(j)],
      forceCid |-> f.forceCid, calls |-> f.calls]
ReadParts(f, c) == FontsOf(f, c, Operands(c.top, ROS, 3))
ReadCff(f) == ReadParts(f, PartsIn(f.bytes))

-----------------------------------------------------------------------------
(* What a CFF table says: the fonts, and how each glyph is drawn, by which *)
(* font of the FDArray, or else under which name.                          *)

\* A number that is the default, and an array of none, say nothing.
Saying(p) == [numbers |-> OtherNumbers(p.numbers), arrays |-> [op \in {o \in DOMAIN p.arrays : p.arrays[o] # <<>>} |-> p.arrays[op]]]
FontSays(f, private) ==
  [names |-> f.names, bbox |-> f.bbox, numbers |-> OtherNumbers(f.numbers),
   private |-> Saying(IF private = Junk THEN [numbers |-> <<>>, arrays |-> <<>>] ELSE private)]

OutlinedBy(t) ==
  LET fd(g) == t.fdArray[g.fd.index + 1]
      by(g) == IF t.isCID THEN <<fd(g).name, FontSays(fd(g).font, fd(g).font.private)>> ELSE g.name
  IN {<<"font", t.fontName, FontSays(t.font, t.font.private)>>}
       \union (IF t.isCID THEN {<<"collection", t.cidRegistry, t.cidOrdering, t.cidSupplement>>} ELSE {})
       \union {<<"glyph", j, t.glyphs[j].code, by(t.glyphs[j])>> : j \in DOMAIN t.glyphs}

IntendedCff(js) ==
  LET forced == js.forceCid /\ js.fdArray = Junk
      mine(g) == {j \in DOMAIN js.fdArray : js.fdArray[j].name = g.fd}
      subfont(g) == js.fdArray[IF g.fd = Junk \/ mine(g) = {} THEN 1 ELSE CHOOSE j \in mine(g) : TRUE]
      by(g) == CASE forced -> <<js.fontName \o SubfontSuffix,
                               FontSays([names |-> <<>>, numbers |-> <<>>, bbox |-> <<0, 0, 0, 0>>], js.font.private)>>
                 [] js.fdArray # Junk -> <<subfont(g).name, FontSays(subfont(g).font, subfont(g).font.private)>>
                 [] OTHER -> g.name
      or(v, default) == IF v = Junk THEN default ELSE v
  IN {<<"font", js.fontName, FontSays(js.font, IF forced THEN Junk ELSE js.font.private)>>}
       \union (IF forced \/ js.fdArray # Junk
               THEN {<<"collection", or(js.cidRegistry, DefaultRegistry), or(js.cidOrdering, DefaultOrdering), js.cidSupplement>>}
               ELSE {})
       \union {<<"glyph", j, js.glyphs[j].code, by(js.glyphs[j])>> : j \in DOMAIN js.glyphs}
=============================================================================
