----------------------------- MODULE ColorTables -----------------------------
(***************************************************************************)
(* The two tables of coloured glyphs: COLR, lib/table/COLR.c, which layers *)
(* make a glyph, and CPAL, lib/table/CPAL.c, the colours they are drawn    *)
(* with.                                                                   *)
(*                                                                         *)
(* COLR is a sequence of [glyph, layers]; a layer is [glyph, paletteIndex].*)
(* CPAL is [version, palettes]; a palette is [type, label, colors] and a   *)
(* colour is [color, label], its four bytes taken as one value.            *)
(***************************************************************************)
EXTENDS OtlGlyphSets

CONSTANT White   \* the colour of an entry that is not given

Or(js, default) == IF js = Junk THEN default ELSE js
Unlabelled == 65535

-----------------------------------------------------------------------------
(* COLR. *)

ParseCOLR(js) ==
  LET layers(l) == Mapped(SelectSeq(l, LAMBDA y : y # Junk /\ y.layer # Junk),
                          LAMBDA y : [glyph |-> y.layer, paletteIndex |-> Or(y.paletteIndex, 65535)])
  IN Mapped(SelectSeq(js, LAMBDA m : m # Junk /\ m.from # Junk /\ m.to # Junk),
            LAMBDA m : [glyph |-> m.from, layers |-> layers(m.to)])

DumpCOLR(t) ==
  Mapped(t, LAMBDA m :
    [from |-> NameOf(m.glyph),
     to |-> Mapped(m.layers, LAMBDA y : [layer |-> NameOf(y.glyph), paletteIndex |-> y.paletteIndex])])

\* A decomposition that had no layer is dropped; one that has lost all of them stays.
ConsolidateCOLR(t) ==
  LET layers(l) == Mapped(SelectSeq(l, LAMBDA y : Known(y.glyph)), LAMBDA y : [y EXCEPT !.glyph = Gid(@)])
  IN Mapped(SelectSeq(t, LAMBDA m : Known(m.glyph) /\ m.layers # <<>>),
            LAMBDA m : [glyph |-> Gid(m.glyph), layers |-> layers(m.layers)])

\* All layers are in one list; a glyph's are those from its first on.
BuildCOLR(t) ==
  LET sorted == SortedBy(t, LAMBDA m : m.glyph)
      before(j) == Len(Flattened(SubSeq(sorted, 1, j - 1), LAMBDA m : m.layers))
  IN IF t = <<>> THEN Null
     ELSE [bases |-> [j \in DOMAIN sorted |->
                        Words(<<sorted[j].glyph, before(j), Len(sorted[j].layers)>>)],
           layers |-> Flattened(sorted, LAMBDA m :
                        Mapped(m.layers, LAMBDA y : Words(<<y.glyph, y.paletteIndex>>)))]

ReadCOLR(f) ==
  LET layer(i) == [glyph |-> WordAt(f.layers[i], 1), paletteIndex |-> WordAt(f.layers[i], 2)]
      own(b) == {i \in DOMAIN f.layers : WordAt(b, 2) < i /\ i <= WordAt(b, 2) + WordAt(b, 3)}
  IN Mapped(f.bases, LAMBDA b :
       [glyph |-> WordAt(b, 1), layers |-> Mapped(InOrderOf(own(b), LAMBDA i : i), layer)])

-----------------------------------------------------------------------------
(* CPAL. *)

\* The label of a palette is taken from its type.
ParseCPAL(js) ==
  LET color(c) == IF c = Junk THEN [color |-> White, label |-> Unlabelled]
                  ELSE [c EXCEPT !.label = Or(@, Unlabelled)]
  IN IF js.palettes \in {Junk, <<>>} THEN Null
     ELSE [version |-> Or(js.version, 0),
           palettes |-> Mapped(SelectSeq(js.palettes, LAMBDA p : p # Junk /\ p.colors # Junk),
                               LAMBDA p : [type |-> Or(p.type, 0), label |-> Or(p.type, Unlabelled),
                                           colors |-> Mapped(p.colors, color)])]

DumpCPAL(t) ==
  LET unless(value, default) == IF value = default THEN Junk ELSE value
  IN [version |-> t.version,
      palettes |-> Mapped(t.palettes, LAMBDA p :
        [type |-> unless(p.type, 0), label |-> unless(p.label, Unlabelled),
         colors |-> Mapped(p.colors, LAMBDA c : [c EXCEPT !.label = unless(@, Unlabelled)])])]

\* Every palette is as long as the first: cut, or filled up with white.
Entries(palettes) == Len(palettes[1].colors)
ColorAt(p, k) == IF k <= Len(p.colors) THEN p.colors[k].color ELSE White

\* An array of numbers, none when each has the value it has by default.
ArrayUnless(default, s) == IF \A i \in DOMAIN s : s[i] = default THEN <<>> ELSE s

BuildCPAL(t) ==
  LET p == t.palettes
      n == Entries(p)
  IN IF p = <<>> THEN Null
     ELSE [version |-> t.version, entries |-> n,
           colors |-> Flattened(p, LAMBDA q : [k \in 1..n |-> ColorAt(q, k)]),
           starts |-> [j \in DOMAIN p |-> n * (j - 1)],
           arrays |-> IF t.version = 0 THEN <<>>
                      ELSE <<ArrayUnless(0, Mapped(p, LAMBDA q : q.type)),
                             ArrayUnless(Unlabelled, Mapped(p, LAMBDA q : q.label)),
                             ArrayUnless(Unlabelled, Mapped(p[1].colors, LAMBDA c : c.label))>>]

\* The reader looks for each of the three offsets four bytes behind its place: what it
\* takes for the array of types is that of the labels, half as wide, and what it takes
\* for the array of labels is that of the entries' labels.  Each is read when the table,
\* whose last blocks these two are, is long enough.  The last offset is read from what
\* follows the header, the bytes of a colour, and is too great for any table.
ReadCPAL(f) ==
  LET n == Len(f.starts)
      entry(start, k) == IF start + k <= Len(f.colors) THEN f.colors[start + k] ELSE White
      tail == IF f.version = 0 \/ f.arrays[2] = <<>> THEN <<>> ELSE f.arrays[2] \o f.arrays[3]
      types == [j \in 1..n |-> IF Len(tail) < 2 * n THEN 0 ELSE 65536 * tail[2 * j - 1] + tail[2 * j]]
      labels == [j \in 1..n |-> IF f.version = 0 \/ Len(f.arrays[3]) < n THEN Unlabelled ELSE f.arrays[3][j]]
  IN [version |-> f.version,
      palettes |-> [j \in 1..n |->
        [type |-> types[j], label |-> labels[j],
         colors |-> [k \in 1..f.entries |-> [color |-> entry(f.starts[j], k), label |-> Unlabelled]]]]]

-----------------------------------------------------------------------------
(* What the tables say: the layers of a glyph, and the colour of an entry  *)
(* of a palette.                                                           *)

LayersOf(t) ==
  {<<m.glyph, [i \in DOMAIN m.layers |-> <<m.layers[i].glyph, m.layers[i].paletteIndex>>]>> :
     m \in {x \in ToSet(t) : x.layers # <<>>}}
IntendedLayers(js) ==
  LET usable(m) == m # Junk /\ m.from \in ToSet(Order) /\ m.to # Junk
      drawn(m) == SelectSeq(m.to, LAMBDA y : y # Junk /\ y.layer \in ToSet(Order))
      layer(y) == <<Gid(y.layer), IF y.paletteIndex = Junk THEN 65535 ELSE y.paletteIndex>>
  IN {<<Gid(m.from), Mapped(drawn(m), layer)>> :
        m \in {x \in ToSet(js) : usable(x) /\ drawn(x) # <<>>}}

ColorsOf(t) ==
  IF t.palettes = <<>> THEN {}
  ELSE {<<j, k, ColorAt(t.palettes[j], k)>> : <<j, k>> \in (DOMAIN t.palettes) \X (1..Entries(t.palettes))}
IntendedColors(js) ==
  LET given == SelectSeq(Or(js.palettes, <<>>), LAMBDA p : p # Junk /\ p.colors # Junk)
      color(p, k) == IF k <= Len(p.colors) /\ p.colors[k] # Junk THEN p.colors[k].color ELSE White
  IN IF given = <<>> THEN {}
     ELSE {<<j, k, color(given[j], k)>> : <<j, k>> \in (DOMAIN given) \X (1..Len(given[1].colors))}
=============================================================================
