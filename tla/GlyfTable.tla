------------------------------ MODULE GlyfTable ------------------------------
(***************************************************************************)
(* The outlines of a TrueType font: lib/table/glyf/glyf.c, build.c and     *)
(* read.c, and their consolidation, lib/consolidate/consolidate.c.         *)
(*                                                                         *)
(* The table is the sequence of its glyphs, in glyph order.  A glyph is    *)
(* [contours, references, instructions]; a point is [x, y, on], and a      *)
(* reference [glyph, x, y, m, anchored, inner, outer, round, metrics],     *)
(* where m is its matrix <<a, b, c, d>>.  Coordinates and the entries of   *)
(* matrices are whole numbers.  Boxes, which the writer takes from         *)
(* GlyphStat, are written as zeros, and metrics and hints are elsewhere.   *)
(***************************************************************************)
EXTENDS OtlGlyphSets, TextEncoding

CONSTANTS
  RepeatLimit,   \* how often a flag may be repeated: 0xFE
  ShortDelta,    \* the greatest distance written in a byte: 0xFF
  LocaLimit      \* a glyf table this long has long offsets: 0x20000

NoGlyphs == [contours |-> <<>>, references |-> <<>>, instructions |-> <<>>]
Unit == <<1, 0, 0, 1>>

-----------------------------------------------------------------------------
(* From JSON and back. *)

ParsePoint(p) == IF p = Junk THEN [x |-> 0, y |-> 0, on |-> TRUE] ELSE p

\* With its own X and Y an anchored reference is REF_ANCHOR_XY.
ParseReference(r) ==
  LET plain == [glyph |-> Junk, x |-> 0, y |-> 0, m |-> Unit, anchored |-> "xy",
                inner |-> 0, outer |-> 0, round |-> FALSE, metrics |-> FALSE]
  IN IF r = Junk \/ r.glyph = Junk THEN plain
     ELSE [r EXCEPT !.anchored = IF r.anchored THEN "anchor_xy" ELSE "xy",
                    !.inner = IF r.anchored THEN @ ELSE 0, !.outer = IF r.anchored THEN @ ELSE 0]

\* A glyph that is not an object is an empty one after consolidation.
ParseGlyf(js) ==
  LET list(l) == IF l = Junk THEN <<>> ELSE l
      glyph(g) == [contours |-> Mapped(list(g.contours), LAMBDA c : Mapped(list(c), ParsePoint)),
                   references |-> Mapped(list(g.references), ParseReference),
                   instructions |-> g.instructions]
  IN Mapped(js, LAMBDA g : IF g = Junk THEN NoGlyphs ELSE glyph(g))

DumpGlyf(t) ==
  LET reference(r) == [r EXCEPT !.glyph = NameOf(@), !.anchored = (r.anchored # "xy")]
      unlessEmpty(l) == IF l = <<>> THEN Junk ELSE l
  IN Mapped(t, LAMBDA g : [contours |-> unlessEmpty(g.contours),
                           references |-> unlessEmpty(Mapped(g.references, reference)),
                           instructions |-> g.instructions])

-----------------------------------------------------------------------------
(* Consolidation: empty contours and absent references are removed; then   *)
(* each anchored reference is moved so that a point of its glyph, inner,   *)
(* meets a point of the glyph it is in, outer.                             *)

ConsolidateGlyph(g) ==
  [g EXCEPT !.contours = SelectSeq(@, LAMBDA c : c # <<>>),
            !.references = Mapped(SelectSeq(@, LAMBDA r : Known(r.glyph)),
                                  LAMBDA r : [r EXCEPT !.glyph = Gid(@)])]

\* vqPointLinearTfm: the point p under the matrix, from (x, y) on.
Moved(x, y, m, p) == [x |-> x + m[1] * p.x + m[2] * p.y, y |-> y + m[3] * p.x + m[4] * p.y]
To(gid) == [glyph |-> gid, x |-> 0, y |-> 0, m |-> Unit]

\* "composite affine transformations": as the code has them, what the outer reference
\* does comes first and what the inner one does second.
Composed(outer, inner) ==
  LET p == outer.m
      q == inner.m
      at == Moved(inner.x, inner.y, q, outer)
  IN [glyph |-> inner.glyph, x |-> at.x, y |-> at.y,
      m |-> <<p[1] * q[1] + q[2] * p[3], q[1] * p[2] + q[2] * p[4],
              p[1] * q[3] + p[3] * q[4], p[2] * q[3] + q[4] * p[4]>>]

\* Where a reference has to be for its inner point to meet the outer one.
Place_Unturned(r, outer, inner) == Moved(outer.x, outer.y, <<-1, 0, 0, -1>>, inner)
Place(r, outer, inner) == Moved(outer.x, outer.y, Mapped(r.m, LAMBDA e : 0 - e), inner)

RECURSIVE PointAt(_, _, _), PointIn(_, _, _, _), Anchored(_, _, _)

\* getPointCoordinates: point n of the glyph that gr leads to, moved by gr.  On the way
\* it settles the references it meets.  The result is the table, how many points were
\* passed, and the point or Null.
PointAt(t, gr, n) ==
  LET own == FlattenSeq(t[gr.glyph + 1].contours)
  IN IF n < Len(own)
     THEN [t |-> t, passed |-> n, point |-> Moved(gr.x, gr.y, gr.m, own[n + 1])]
     ELSE PointIn(t, gr, n, [r |-> 1, passed |-> Len(own)])

\* The references of the glyph from number at.r on, at.passed points into it.
PointIn(t, gr, n, at) ==
  IF at.r > Len(t[gr.glyph + 1].references) THEN [t |-> t, passed |-> at.passed, point |-> Null]
  ELSE LET settled == Anchored(t, gr, at.r)
           below == PointAt(settled, Composed(gr, settled[gr.glyph + 1].references[at.r]), n - at.passed)
       IN IF below.point # Null THEN below
          ELSE PointIn(below.t, gr, n, [r |-> at.r + 1, passed |-> at.passed + below.passed])

\* consolidateAnchorRef: reference number r of the glyph that gr leads to.  The outer
\* point is taken as gr moves it, the inner one as it is in its glyph.
Anchored(t, gr, r) ==
  LET set(s, f, v) == [s EXCEPT ![gr.glyph + 1].references[r][f] = v]
      rr == t[gr.glyph + 1].references[r]
      begun == set(t, "anchored",
                   IF rr.anchored = "anchor_anchor" THEN "consolidating_anchor" ELSE "consolidating_xy")
      outer == PointAt(begun, gr, rr.outer)
      inner == PointAt(outer.t, To(rr.glyph), rr.inner)
      point(p) == IF p.point = Null THEN [x |-> 0, y |-> 0] ELSE p.point
      at == Place(rr, point(outer), point(inner))
      waiting == inner.t[gr.glyph + 1].references[r].anchored = "consolidating_anchor"
      placed == IF waiting THEN set(set(inner.t, "x", at.x), "y", at.y) ELSE inner.t
  IN CASE rr.anchored \in {"consolidated", "xy"} -> t
       [] rr.anchored \in {"consolidating_anchor", "consolidating_xy"} -> set(t, "anchored", "xy")
       [] OTHER -> set(placed, "anchored", "consolidated")

\* The glyphs in order, and the references of each in order.
ConsolidateGlyf(t) ==
  LET cleaned == Mapped(t, ConsolidateGlyph)
      anchorAll(s, j) == FoldLeft(LAMBDA u, r : Anchored(u, To(j - 1), r), s,
                                  [r \in DOMAIN s[j].references |-> r])
  IN FoldLeft(anchorAll, cleaned, [j \in DOMAIN t |-> j])

-----------------------------------------------------------------------------
(* The file: sequences of bytes. *)

Bytes(w) == Bytes16(w % 65536)
Unsigned16(b, i) == 256 * b[i] + b[i + 1]
Signed16(b, i) == Signed(Unsigned16(b, i))
Signed8(n) == IF n < 128 THEN n ELSE n - 256

\* Flags of a point; sameX with a short coordinate says that it is positive.
PointFlag == [onCurve |-> 1, xShort |-> 2, yShort |-> 4, repeat |-> 8, sameX |-> 16, sameY |-> 32]
ReferenceFlag == [words |-> 1, xy |-> 2, round |-> 4, scale |-> 8, more |-> 32, xyScale |-> 64,
                  twoByTwo |-> 128, instructions |-> 256, metrics |-> 512, unscaled |-> 4096]
AddedUp(S, flags) == FoldSet(LAMBDA f, n : n + flags[f], 0, S)
Has(n, flag) == (n \div flag) % 2 = 1

\* A flag is written once with the number of its repetitions.
ShrinkFlags(flags) ==
  LET step(s, j) ==
        IF flags[j] # flags[j - 1] THEN [out |-> Append(s.out, flags[j]), repeating |-> 0]
        ELSE IF s.repeating = 0
        THEN [out |-> Append([s.out EXCEPT ![Len(s.out)] = @ + PointFlag.repeat], 1), repeating |-> 1]
        ELSE IF s.repeating < RepeatLimit
        THEN [out |-> [s.out EXCEPT ![Len(s.out)] = @ + 1], repeating |-> s.repeating + 1]
        ELSE [out |-> Append(s.out, flags[j]), repeating |-> 0]
  IN IF flags = <<>> THEN <<>>
     ELSE FoldLeft(step, [out |-> <<flags[1]>>, repeating |-> 0], [j \in 1..(Len(flags) - 1) |-> j + 1]).out

Box == [i \in 1..8 |-> 0]
CodeOf(g) == Bytes(Len(g.instructions)) \o g.instructions

\* A distance of one axis: which of the two flags are set, and the bytes.
Distance(d, short, same) ==
  LET wrapped == Signed(d % 65536)
  IN IF wrapped = 0 THEN [flags |-> {same}, bytes |-> <<>>]
     ELSE IF wrapped \in 1..ShortDelta THEN [flags |-> {short, same}, bytes |-> <<wrapped>>]
     ELSE IF -wrapped \in 1..ShortDelta THEN [flags |-> {short}, bytes |-> <<-wrapped>>]
     ELSE [flags |-> {}, bytes |-> Bytes(wrapped)]

\* glyf_build_simple
BuildSimple(g) ==
  LET points == FlattenSeq(g.contours)
      end(j) == Len(FlattenSeq(SubSeq(g.contours, 1, j))) - 1
      from(i) == IF i = 1 THEN [x |-> 0, y |-> 0] ELSE points[i - 1]
      xs == [i \in DOMAIN points |-> Distance(points[i].x - from(i).x, "xShort", "sameX")]
      ys == [i \in DOMAIN points |-> Distance(points[i].y - from(i).y, "yShort", "sameY")]
      flags == [i \in DOMAIN points |->
                  AddedUp(xs[i].flags \union ys[i].flags \union (IF points[i].on THEN {"onCurve"} ELSE {}), PointFlag)]
  IN Bytes(Len(g.contours)) \o Box \o FlattenSeq([j \in DOMAIN g.contours |-> Bytes(end(j))]) \o CodeOf(g)
       \o ShrinkFlags(flags) \o Flattened(xs, LAMBDA d : d.bytes) \o Flattened(ys, LAMBDA d : d.bytes)

\* glyf_build_composite: the settled anchor of a reference, or its place.
BuildReference(g, i) ==
  LET r == g.references[i]
      anchor == r.anchored = "consolidated"
      args == IF anchor THEN <<r.outer, r.inner>> ELSE <<r.x, r.y>>
      small == IF anchor THEN 0..255 ELSE -128..127
      words == ~(args[1] \in small /\ args[2] \in small)
      entries == CASE r.m[2] # 0 \/ r.m[3] # 0 -> <<r.m[1], r.m[2], r.m[3], r.m[4]>>
                   [] r.m[2] = 0 /\ r.m[3] = 0 /\ r.m[1] # r.m[4] -> <<r.m[1], r.m[4]>>
                   [] r.m = Unit -> <<>>
                   [] OTHER -> <<r.m[1]>>
      shape == CASE Len(entries) = 4 -> {"twoByTwo"} [] Len(entries) = 2 -> {"xyScale"}
                 [] Len(entries) = 1 -> {"scale"} [] OTHER -> {}
      last == i = Len(g.references)
      flags == shape \union {"unscaled"} \union (IF words THEN {"words"} ELSE {})
                 \union (IF anchor THEN {} ELSE {"xy"}) \union (IF last THEN {} ELSE {"more"})
                 \union (IF last /\ g.instructions # <<>> THEN {"instructions"} ELSE {})
                 \union (IF r.round THEN {"round"} ELSE {}) \union (IF r.metrics THEN {"metrics"} ELSE {})
  IN Bytes(AddedUp(flags, ReferenceFlag)) \o Bytes(r.glyph)
       \o Flattened(args, LAMBDA n : IF words THEN Bytes(n) ELSE <<n % 256>>)
       \o Flattened(entries, LAMBDA e : Bytes(16384 * e))   \* otfcc_to_f2dot14

BuildComposite(g) ==
  Bytes(-1) \o Box \o FlattenSeq([i \in DOMAIN g.references |-> BuildReference(g, i)])
    \o (IF g.instructions = <<>> THEN <<>> ELSE CodeOf(g))

Padded(bytes) == bytes \o [i \in 1..((4 - (Len(bytes) % 4)) % 4) |-> 0]
\* The references of a glyph that has contours are not written.
BuildGlyph(g) ==
  Padded(IF g.contours # <<>> THEN BuildSimple(g) ELSE IF g.references # <<>> THEN BuildComposite(g) ELSE <<>>)

\* head keeps whether the offsets are long: indexToLocFormat.
LaidOut(glyphs, offsets) ==
  LET long == Last(offsets) >= LocaLimit
  IN [locaIsLong |-> long, data |-> FlattenSeq(glyphs),
      loca |-> Mapped(offsets, LAMBDA o : IF long THEN o ELSE (o \div 2) % 65536)]
Located(glyphs) == LaidOut(glyphs, [j \in 1..(Len(glyphs) + 1) |-> Len(FlattenSeq(SubSeq(glyphs, 1, j - 1)))])
BuildGlyf(t) == Located(Mapped(t, BuildGlyph))

RECURSIVE ReadFlags(_, _, _), ReadReferences(_, _)

\* The flags of n points from at on, and where they end.
ReadFlags(b, at, n) ==
  IF n <= 0 THEN [flags |-> <<>>, at |-> at]
  ELSE LET repeats == IF Has(b[at], PointFlag.repeat) THEN b[at + 1] ELSE 0
           size == IF Has(b[at], PointFlag.repeat) THEN 2 ELSE 1
           rest == ReadFlags(b, at + size, n - repeats - 1)
       IN [rest EXCEPT !.flags = [i \in 1..(repeats + 1) |-> b[at]] \o @]

\* The coordinates of one axis, each counted from the one before, and where they end.
ReadDistances(b, at, flags, short, same) ==
  LET step(s, f) ==
        LET distance == IF Has(f, short) THEN (IF Has(f, same) THEN b[s.at] ELSE 0 - b[s.at])
                        ELSE IF Has(f, same) THEN 0 ELSE Signed16(b, s.at)
            size == IF Has(f, short) THEN 1 ELSE IF Has(f, same) THEN 0 ELSE 2
        IN [at |-> s.at + size, c |-> s.c + distance, values |-> Append(s.values, s.c + distance)]
  IN FoldLeft(step, [at |-> at, c |-> 0, values |-> <<>>], flags)

\* otfcc_read_simple_glyph, from behind the box on
ReadPoints(b, at, n, f) ==
  LET end(j) == IF j = 0 THEN 0 ELSE Unsigned16(b, at + 2 * (j - 1)) + 1
      code == at + 2 * n + 2
      points(xs, ys) == [i \in DOMAIN f.flags |->
        [x |-> xs.values[i], y |-> ys.values[i], on |-> Has(f.flags[i], PointFlag.onCurve)]]
      after(xs) == points(xs, ReadDistances(b, xs.at, f.flags, PointFlag.yShort, PointFlag.sameY))
      all == after(ReadDistances(b, f.at, f.flags, PointFlag.xShort, PointFlag.sameX))
  IN [contours |-> [j \in 1..n |-> SubSeq(all, end(j - 1) + 1, end(j))],
      references |-> <<>>, instructions |-> SubSeq(b, code, code - 1 + Unsigned16(b, code - 2))]
ReadSimple(b, at, n) ==
  LET code == at + 2 * n
  IN ReadPoints(b, at, n, ReadFlags(b, code + 2 + Unsigned16(b, code), Unsigned16(b, code - 2) + 1))

\* otfcc_read_composite_glyph: the references from at on, and the instructions
ReadReferences(b, at) ==
  LET flags == Unsigned16(b, at)
      has(f) == Has(flags, ReferenceFlag[f])
      arg(i) == IF has("words") THEN Unsigned16(b, at + 4 + 2 * i) ELSE b[at + 4 + i]
      place(i) == IF ~has("xy") THEN 0 ELSE IF has("words") THEN Signed(arg(i)) ELSE Signed8(arg(i))
      shape == at + (IF has("words") THEN 8 ELSE 6)
      entry(i) == Signed16(b, shape + 2 * i) \div 16384
      m == IF has("scale") THEN <<entry(0), 0, 0, entry(0)>>
           ELSE IF has("xyScale") THEN <<entry(0), 0, 0, entry(1)>>
           ELSE IF has("twoByTwo") THEN <<entry(0), entry(1), entry(2), entry(3)>> ELSE Unit
      next == shape + (IF has("scale") THEN 2 ELSE IF has("xyScale") THEN 4 ELSE IF has("twoByTwo") THEN 8 ELSE 0)
      r == [glyph |-> Unsigned16(b, at + 2), x |-> place(0), y |-> place(1), m |-> m,
            anchored |-> IF has("xy") THEN "xy" ELSE "anchor_anchor",
            inner |-> IF has("xy") THEN 0 ELSE arg(1), outer |-> IF has("xy") THEN 0 ELSE arg(0),
            round |-> has("round"), metrics |-> has("metrics")]
      length == Unsigned16(b, next)
      code == IF has("instructions") THEN SubSeq(b, next + 2, next + 1 + length) ELSE <<>>
      rest == IF has("more") THEN ReadReferences(b, next)
              ELSE [references |-> <<>>, instructions |-> code]
  IN [rest EXCEPT !.references = <<r>> \o @]

ReadComposite(composite) ==
  [contours |-> <<>>, references |-> composite.references, instructions |-> composite.instructions]
ReadGlyph(b, at) ==
  LET n == Signed16(b, at)
  IN IF n > 0 THEN ReadSimple(b, at + 10, n) ELSE ReadComposite(ReadReferences(b, at + 10))

ReadGlyf(f) ==
  LET offsets == Mapped(f.loca, LAMBDA o : IF f.locaIsLong THEN o ELSE 2 * o)
  IN [j \in 1..(Len(f.loca) - 1) |->
        IF offsets[j] < offsets[j + 1] THEN ReadGlyph(f.data, offsets[j] + 1) ELSE NoGlyphs]

-----------------------------------------------------------------------------
(* What the table says.  A glyph that has contours has no references in a  *)
(* font, and one that has neither has no instructions.                     *)

GlyphFacts(j, contours, references, instructions) ==
  IF contours # <<>> THEN {<<j, contours, <<>>, instructions>>}
  ELSE IF references # <<>> THEN {<<j, <<>>, references, instructions>>} ELSE {}

\* An anchored reference is known by its points, another one by its place.
Shown(r, gid, anchored) ==
  [glyph |-> gid, m |-> r.m, anchored |-> anchored, p |-> IF anchored THEN r.outer ELSE r.x,
   q |-> IF anchored THEN r.inner ELSE r.y, round |-> r.round, metrics |-> r.metrics]

OutlinesOf(t) ==
  LET references(g) == Mapped(g.references, LAMBDA r : Shown(r, r.glyph, r.anchored # "xy"))
  IN UNION {GlyphFacts(j, t[j].contours, references(t[j]), t[j].instructions) : j \in DOMAIN t}
IntendedOutlines(js) ==
  LET list(l) == IF l = Junk THEN <<>> ELSE l
      point(p) == IF p = Junk THEN [x |-> 0, y |-> 0, on |-> TRUE] ELSE p
      contours(g) == SelectSeq(Mapped(list(g.contours), LAMBDA c : Mapped(list(c), point)), LAMBDA c : c # <<>>)
      references(g) == Mapped(SelectSeq(list(g.references), LAMBDA r : r # Junk /\ r.glyph \in ToSet(Order)),
                              LAMBDA r : Shown(r, Gid(r.glyph), r.anchored))
  IN UNION {GlyphFacts(j, contours(js[j]), references(js[j]), js[j].instructions) :
              j \in {i \in DOMAIN js : js[i] # Junk}}

RECURSIVE PointsOf(_, _, _)
\* The points of a glyph and of its first k references, where these have moved them.
PointsOf(t, gid, k) ==
  LET own == t[gid + 1].contours
      references == t[gid + 1].references
      drawn(ref) ==
        LET points == PointsOf(t, ref.glyph, Len(t[ref.glyph + 1].references))
        IN [n \in DOMAIN points |-> Moved(ref.x, ref.y, ref.m, points[n])]
  IN FlattenSeq([c \in DOMAIN own |-> [n \in DOMAIN own[c] |-> [x |-> own[c][n].x, y |-> own[c][n].y]]])
       \o FlattenSeq([j \in 1..k |-> drawn(references[j])])

\* The inner point of every anchored reference is where its outer one is, a point that
\* the glyph has before it.
PointsMeet(t) ==
  \A gid \in 0..(Len(t) - 1) :
    LET references == t[gid + 1].references
    IN \A i \in {j \in DOMAIN references : references[j].anchored = "consolidated"} :
         LET before == PointsOf(t, gid, i - 1)
             with == PointsOf(t, gid, i)
             inner == Len(before) + references[i].inner + 1
             outer == references[i].outer + 1
         IN outer <= Len(before) /\ inner <= Len(with) => with[inner] = before[outer]
=============================================================================
