------------------------------- MODULE Metrics -------------------------------
(***************************************************************************)
(* The metrics of glyphs.  The writer cuts them out of the glyphs,         *)
(* statHmtx, statVmtx, statCFFWidths, statVORG and statLTSH of             *)
(* lib/otf-writer/stat.c, into the tables hmtx, vmtx, VORG, LTSH and the   *)
(* widths of charstrings; the reader merges them into the glyphs again,    *)
(* mergeHmtx, mergeVmtx and mergeLTSH of lib/otf-reader/unconsolidate.c.   *)
(*                                                                         *)
(* The table here is [cff, shortVmtx, vertical, glyphs]: whether the font  *)
(* has CFF outlines, the option --short-vmtx, whether it has vhea, and the *)
(* metrics of the glyphs, each with the sides xMin and yMax of its box,    *)
(* which GlyphStat finds.                                                  *)
(***************************************************************************)
EXTENDS OtlGlyphSets

CONSTANT MaxStatMetric   \* only widths and origins below it are counted: 4096

Number(js) == IF js = Junk THEN 0 ELSE js
Column(glyphs, f) == [j \in DOMAIN glyphs |-> glyphs[j][f]]

ParseMetrics(js) ==
  LET glyph(g) == [f \in DOMAIN g |-> Number(g[f])]
  IN [js EXCEPT !.glyphs = Mapped(@, glyph)]

\* Without vhea the vertical metrics are not dumped; an origin of zero is not either.
DumpMetrics(t) ==
  LET unlessZero(n) == IF n = 0 THEN Junk ELSE n
      ifVertical(n) == IF t.vertical THEN n ELSE Junk
      glyph(g) == [g EXCEPT !.horizontalOrigin = unlessZero(@), !.yPel = unlessZero(@),
                            !.advanceHeight = ifVertical(@), !.verticalOrigin = ifVertical(@)]
  IN [t EXCEPT !.glyphs = Mapped(@, glyph)]

-----------------------------------------------------------------------------
(* To the font.  The tables are sequences of words.                        *)

\* How many glyphs have an advance of their own: those at the end that advance like the
\* one before them have none, but for two.
LongMetrics(advances, all) ==
  LET n == Len(advances)
      alike(c) == \A j \in c..n : advances[j] = advances[n]
  IN IF all \/ n <= 2 THEN n
     ELSE CHOOSE c \in 2..n : alike(c) /\ (c > 2 => ~alike(c - 1))

\* hmtx and vmtx: advances and bearings, then bearings alone.
BuildLongMetrics(advances, bearings, count) ==
  FlattenSeq([j \in 1..count |-> <<advances[j] % 65536, bearings[j] % 65536>>])
    \o [k \in 1..(Len(advances) - count) |-> bearings[count + k] % 65536]

\* The most frequent of some values below the limit, the least of these, or 0.
MostFrequent(values) ==
  LET often(v) == Cardinality({j \in DOMAIN values : values[j] = v})
      counted == {v \in ToSet(values) : v >= 0 /\ v < MaxStatMetric}
      most == {v \in counted : \A u \in counted : often(u) <= often(v)}
  IN IF counted = {} THEN 0 ELSE CHOOSE v \in most : \A u \in most : v <= u

\* defaultWidthX, nominalWidthX, and the widths that charstrings begin with.
BuildWidths(advances) ==
  LET default == MostFrequent(advances)
      others == SelectSeq(advances, LAMBDA a : a # default)
      nominal == IF others = <<>> THEN 0 ELSE FoldLeft(+, 0, others) \div Len(others)
  IN [default |-> default, nominal |-> nominal,
      operands |-> Mapped(advances, LAMBDA a : IF a = default THEN <<>> ELSE <<a - nominal>>)]

BuildVORG(origins) ==
  LET default == MostFrequent(origins)
      others == SelectSeq([j \in DOMAIN origins |-> j], LAMBDA j : origins[j] # default)
  IN <<1, 0, default, Len(others)>> \o Flattened(others, LAMBDA j : <<j - 1, origins[j] % 65536>>)

BuildLTSH(yPels) ==
  IF \A j \in DOMAIN yPels : yPels[j] <= 1 THEN Null
  ELSE <<0, Len(yPels)>> \o Mapped(yPels, LAMBDA y : y % 256)

BuildMetrics(t) ==
  LET of(f) == Column(t.glyphs, f)
      left == Mapped(t.glyphs, LAMBDA g : g.xMin - g.horizontalOrigin)
      top == Mapped(t.glyphs, LAMBDA g : g.verticalOrigin - g.yMax)
      h == LongMetrics(of("advanceWidth"), t.cff)
      v == LongMetrics(of("advanceHeight"), t.cff /\ ~t.shortVmtx)
  IN [cff |-> t.cff, shortVmtx |-> t.shortVmtx, boxes |-> Mapped(t.glyphs, LAMBDA g : <<g.xMin, g.yMax>>),
      numberOfMetrics |-> h, hmtx |-> BuildLongMetrics(of("advanceWidth"), left, h),
      widths |-> IF t.cff THEN BuildWidths(of("advanceWidth")) ELSE Null,
      vhea |-> t.vertical,
      numOfLongVerMetrics |-> IF t.vertical THEN v ELSE 0,
      vmtx |-> IF t.vertical THEN BuildLongMetrics(of("advanceHeight"), top, v) ELSE Null,
      VORG |-> IF t.vertical /\ t.cff THEN BuildVORG(of("verticalOrigin")) ELSE Null,
      LTSH |-> IF t.cff THEN Null ELSE BuildLTSH(of("yPel"))]

-----------------------------------------------------------------------------
(* From the font.                                                          *)

Advance(words, count, j) == words[2 * (IF j <= count THEN j ELSE count) - 1]
Bearing(words, count, j) == Signed(IF j <= count THEN words[2 * j] ELSE words[count + j])

\* The origin of the glyph gid: the last entry it has, or the default.
OriginOf(vorg, gid) ==
  LET mine == {k \in 1..vorg[4] : vorg[3 + 2 * k] = gid}
  IN Signed(IF mine = {} THEN vorg[3] ELSE vorg[4 + 2 * (CHOOSE k \in mine : \A i \in mine : i <= k)])

\* hmtx and LTSH are read from fonts of TrueType outlines, widths and VORG from the others.
ReadMetrics(f) ==
  LET width(j) == IF ~f.cff THEN Advance(f.hmtx, f.numberOfMetrics, j)
                  ELSE IF f.widths.operands[j] = <<>> THEN f.widths.default
                  ELSE f.widths.operands[j][1] + f.widths.nominal
      left(j) == IF f.cff THEN 0 ELSE f.boxes[j][1] - Bearing(f.hmtx, f.numberOfMetrics, j)
      height(j) == IF f.vhea THEN Advance(f.vmtx, f.numOfLongVerMetrics, j) ELSE 0
      top(j) == IF ~f.vhea THEN 0 ELSE IF f.VORG # Null THEN OriginOf(f.VORG, j - 1)
                ELSE f.boxes[j][2] + Bearing(f.vmtx, f.numOfLongVerMetrics, j)
      glyph(j) == [advanceWidth |-> width(j), horizontalOrigin |-> left(j),
                   advanceHeight |-> height(j), verticalOrigin |-> top(j),
                   yPel |-> IF f.LTSH = Null THEN 0 ELSE f.LTSH[2 + j],
                   xMin |-> f.boxes[j][1], yMax |-> f.boxes[j][2]]
  IN [cff |-> f.cff, shortVmtx |-> f.shortVmtx, vertical |-> f.vhea,
      glyphs |-> [j \in DOMAIN f.boxes |-> glyph(j)]]

-----------------------------------------------------------------------------
(* What the metrics say.  A font of CFF outlines keeps no horizontal       *)
(* origins and no sizes from which glyphs scale linearly; these matter     *)
(* when one is above 1.                                                    *)

MetricsOf(t) ==
  LET sized == ~t.cff /\ \E j \in DOMAIN t.glyphs : t.glyphs[j].yPel > 1
      about(j, g) == {<<j, "width", g.advanceWidth>>}
                       \union (IF t.cff THEN {} ELSE {<<j, "left", g.horizontalOrigin>>})
                       \union (IF t.vertical THEN {<<j, "height", g.advanceHeight>>, <<j, "top", g.verticalOrigin>>} ELSE {})
                       \union (IF sized THEN {<<j, "yPel", g.yPel>>} ELSE {})
  IN UNION {about(j, t.glyphs[j]) : j \in DOMAIN t.glyphs}
IntendedMetrics(js) == MetricsOf([js EXCEPT !.glyphs = Mapped(@, LAMBDA g : [f \in DOMAIN g |-> Number(g[f])])])
=============================================================================
