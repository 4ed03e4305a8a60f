---------------------------- MODULE MCCharstringIL ----------------------------
(***************************************************************************)
(* Glyphs whose moves take every pattern of zeros the rolls look for, and  *)
(* glyphs with stems and masks.                                            *)
(***************************************************************************)
EXTENDS CharstringIL

Bare == [contours |-> <<>>, stemH |-> <<>>, stemV |-> <<>>, hintMasks |-> <<>>,
         contourMasks |-> <<>>, width |-> FALSE]

\* A segment by which of its moves are zero; the others are 1, 2, ... in order.
LineShapes == {<<0, 1>>, <<1, 0>>, <<1, 2>>}
CurveShapes == {<<1, 0, 2, 3, 0, 4>>, <<0, 1, 2, 3, 4, 0>>, <<1, 0, 2, 3, 4, 0>>, <<0, 1, 2, 3, 0, 4>>,
                <<1, 0, 2, 3, 4, 5>>, <<0, 1, 2, 3, 4, 5>>, <<1, 2, 3, 4, 5, 6>>}
AnyCurve == {<<a, b, 2, 3, e, f>> : a \in {0, 1}, b \in {0, 4}, e \in {0, 5}, f \in {0, 6}}
Shapes == LineShapes \union CurveShapes
AnyShape == {<<0, 0>>} \union LineShapes \union AnyCurve

MovesOf(shape) ==
  IF Len(shape) = 2 THEN Line(shape[1], shape[2])
  ELSE Curve(shape[1], shape[2], shape[3], shape[4], shape[5], shape[6])

\* A contour from where to start and the shapes; one that closes ends off the curve.
ContourOf(start, shapes, closes) ==
  LET drawn == Line(start[1], start[2]) \o FlattenSeq([k \in 1..Len(shapes) |-> MovesOf(shapes[k])])
      round == IF closes THEN <<Move(FALSE, 3, 5), Move(FALSE, 7, 1)>> ELSE <<>>
  IN Placed(<<drawn \o round>>, Move(TRUE, 0, 0))[1]
Outline(contours) == [Bare EXCEPT !.contours = contours]

\* Without the contours that draw a line or a curve back to their first knot.
Outlines(starts, shapes, n, closes) ==
  {g \in {Outline(<<ContourOf(st, sh, cl)>>) : st \in starts, sh \in [1..n -> shapes], cl \in closes} :
     g.contours[1][1] # Last(g.contours[1])}

MCOutlines ==
  Outlines({<<9, 9>>}, Shapes, 3, {FALSE}) \union
  Outlines({<<0, 9>>}, AnyShape, 2, {FALSE}) \union Outlines({<<9, 0>>}, AnyShape, 2, {TRUE}) \union
  Outlines({<<9, 9>>}, {<<0, 1>>, <<1, 2>>}, 7, {FALSE}) \union
  {Outline(<<ContourOf(<<9, 9>>, [k \in 1..14 |-> IF k % 2 = r THEN <<1, 0>> ELSE <<0, 1>>], FALSE)>>) :
     r \in {0, 1}} \union
  {Outline(<<ContourOf(<<9, 9>>, <<a>>, TRUE), ContourOf(<<0, 9>>, <<b>>, TRUE)>>) :
     a \in Shapes, b \in Shapes}

-----------------------------------------------------------------------------
(* A closed contour and a triangle, with up to two stems in a direction, up to *)
(* two hint masks, in order of place, and a counter mask.                      *)

Drawing == <<ContourOf(<<9, 9>>, <<<<1, 2>>>>, TRUE), ContourOf(<<4, 9>>, <<<<1, 0>>, <<0, 1>>>>, FALSE)>>
Stems(n) == [k \in 1..n |-> [position |-> 10 * k + 1, width |-> 2 + k]]
Places == <<<<0, 0>>, <<0, 1>>, <<0, 2>>, <<0, 4>>, <<1, 0>>, <<1, 2>>>>
Mask(place, bit, n) ==
  [contoursBefore |-> Places[place][1], pointsBefore |-> Places[place][2],
   bits |-> [k \in 1..n |-> (k + bit) % 2]]
Hinted(h, v, hints, counters, width) ==
  [contours |-> Drawing, stemH |-> Stems(h), stemV |-> Stems(v),
   hintMasks |-> [k \in 1..Len(hints) |-> Mask(hints[k], k, h + v)],
   contourMasks |-> [k \in 1..Len(counters) |-> Mask(counters[k], 0, h + v)], width |-> width]

Orders == {<<>>} \union {<<p>> : p \in 1..6} \union {<<p, q>> : p \in 1..6, q \in 1..6}
MCHints ==
  {Hinted(h, v, hints, counters, width) :
     h \in 1..2, v \in 0..2, hints \in {o \in Orders : Len(o) = 2 => o[1] <= o[2]},
     counters \in {<<>>, <<1>>, <<3>>}, width \in {FALSE}}
  \union {Hinted(h, v, hints, <<>>, TRUE) :
            h \in 1..2, v \in 0..1, hints \in {o \in Orders : Len(o) = 2 => o[1] = 1}}
  \union {Hinted(0, v, hints, <<>>, width) :
            v \in 1..2, hints \in {<<>>, <<1>>, <<2>>, <<1, 3>>}, width \in BOOLEAN}
  \union {Hinted(0, 0, <<>>, <<>>, width) : width \in BOOLEAN}
  \union {[Bare EXCEPT !.width = TRUE]}

MCGlyphs == MCOutlines \union MCHints
===============================================================================
