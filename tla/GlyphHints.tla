----------------------------- MODULE GlyphHints -----------------------------
(***************************************************************************)
(* The stems and masks of a glyph of a CFF font: lib/table/glyf/glyf.c     *)
(* takes them from JSON and dumps them, lib/consolidate/consolidate.c      *)
(* sorts them, lib/libcff/charstring-il.c writes them into the charstring  *)
(* and lib/table/CFF.c takes them out of it.                               *)
(*                                                                         *)
(* A glyph is [stemH, stemV, hintMasks, contourMasks, contours]; a stem is *)
(* [position, width], a mask [contoursBefore, pointsBefore, maskH, maskV]  *)
(* with a bit for every stem.  Of a contour only the number of its points  *)
(* is kept, all on the curve and none empty: outlines and the rolling of   *)
(* operators are in CharstringIL.                                          *)
(***************************************************************************)
EXTENDS OtlGlyphSets

-----------------------------------------------------------------------------
(* From JSON and back. *)

ParseStems(l) == IF l = Junk THEN <<>> ELSE SelectSeq(l, LAMBDA s : s # Junk)

\* Without its bits a mask selects nothing.
ParseBits(bits, stems) == [k \in DOMAIN stems |-> bits # Junk /\ bits[k]]

ParseHints(js) ==
  LET h == ParseStems(js.stemH)
      v == ParseStems(js.stemV)
      masks(l) == IF l = Junk THEN <<>>
                  ELSE Mapped(SelectSeq(l, LAMBDA m : m # Junk),
                              LAMBDA m : [m EXCEPT !.maskH = ParseBits(@, h), !.maskV = ParseBits(@, v)])
  IN [stemH |-> h, stemV |-> v, hintMasks |-> masks(js.hintMasks),
      contourMasks |-> masks(js.contourMasks), contours |-> js.contours]

DumpHints(g) ==
  LET unlessEmpty(l) == IF l = <<>> THEN Junk ELSE l
  IN [stemH |-> unlessEmpty(g.stemH), stemV |-> unlessEmpty(g.stemV),
      hintMasks |-> unlessEmpty(g.hintMasks), contourMasks |-> unlessEmpty(g.contourMasks),
      contours |-> g.contours]

-----------------------------------------------------------------------------
(* consolidateGlyphHints *)

\* The stems by position, equal ones in their order: each place with the stem's old one.
StemOrder(stems) == SortedBy([j \in DOMAIN stems |-> j], LAMBDA j : stems[j].position)

\* hmap and vmap, from the old place of a stem to the new one, and the bits, which are
\* taken from where the map leads.
StemMap(stems) == [j \in DOMAIN stems |-> CHOOSE n \in DOMAIN stems : StemOrder(stems)[n] = j]
MovedBits(bits, stems) == [k \in DOMAIN stems |-> bits[StemMap(stems)[k]]]

Before(m, place) ==
  m.contoursBefore < place[1] \/ (m.contoursBefore = place[1] /\ m.pointsBefore <= place[2])
SortedMasks(masks) == SortedBy(masks, LAMBDA m : m.contoursBefore * 65536 + m.pointsBefore)

ConsolidateHints(g) ==
  LET sorted(stems) == Mapped(StemOrder(stems), LAMBDA j : stems[j])
      moved(m) == [m EXCEPT !.maskH = MovedBits(@, g.stemH), !.maskV = MovedBits(@, g.stemV)]
  IN [g EXCEPT !.stemH = sorted(@), !.stemV = sorted(@),
               !.hintMasks = Mapped(SortedMasks(@), moved),
               !.contourMasks = Mapped(SortedMasks(@), moved)]

-----------------------------------------------------------------------------
(* The charstring: stems, masks and points in the order they are written.  *)

CodeItem(op, operands) == [op |-> op, operands |-> operands]

\* _il_push_stemgroup: each stem from the edge where the one before ends.
StemItems(op, stems) ==
  LET edge(j) == IF j = 1 THEN 0 ELSE stems[j - 1].position + stems[j - 1].width
  IN IF stems = <<>> THEN <<>>
     ELSE <<CodeItem(op, FlattenSeq([j \in DOMAIN stems |-> <<stems[j].position - edge(j), stems[j].width>>]))>>

\* The bits of a mask, those of the horizontal stems first, in whole bytes.
MaskBytes(bits) ==
  LET bit(k) == IF k <= Len(bits) /\ bits[k] THEN 1 ELSE 0
      byte(b) == FoldLeft(LAMBDA n, i : 2 * n + bit(8 * b + i), 0, [i \in 1..8 |-> i])
  IN [b \in 1..((Len(bits) + 7) \div 8) |-> byte(b - 1)]
MaskItems(op, masks) == Mapped(masks, LAMBDA m : CodeItem(op, MaskBytes(m.maskH \o m.maskV)))

\* The places where masks can be written: before everything, and after each point.
Places(contours) ==
  <<<<0, 0>>>> \o FlattenSeq([c \in DOMAIN contours |-> [k \in 1..contours[c] |-> <<c - 1, k>>]])

\* il_push_masks: the masks due at the n-th place that were not due at the one before.
DueMasks(masks, places, n) ==
  SelectSeq(masks, LAMBDA m : Before(m, places[n]) /\ (n > 1 => ~Before(m, places[n - 1])))

BuildHints(g) ==
  LET places == Places(g.contours)
      stemless == g.stemH = <<>> /\ g.stemV = <<>>
      point(n) == IF n = 1 THEN <<>> ELSE <<CodeItem(IF places[n][2] = 1 THEN "moveto" ELSE "lineto", <<>>)>>
      masks(n) == MaskItems("cntrmask", DueMasks(g.contourMasks, places, n))
                    \o MaskItems("hintmask", DueMasks(g.hintMasks, places, n))
  IN StemItems("hstem", g.stemH) \o StemItems("vstem", g.stemV)
       \o FlattenSeq([n \in DOMAIN places |-> point(n) \o (IF stemless THEN <<>> ELSE masks(n))])

\* cff_parseOutline and its callbacks, item by item.
ReadStems(operands) ==
  LET sum(k) == FoldLeft(LAMBDA n, i : n + operands[i], 0, [i \in 1..k |-> i])
  IN [j \in 1..(Len(operands) \div 2) |-> [position |-> sum(2 * j - 1), width |-> operands[2 * j]]]

ReadMask(g, bytes) ==
  LET bit(k) == (bytes[((k - 1) \div 8) + 1] \div (2 ^ (7 - ((k - 1) % 8)))) % 2 = 1
  IN [contoursBefore |-> IF g.contours = <<>> THEN 0 ELSE Len(g.contours) - 1,
      pointsBefore |-> IF g.contours = <<>> THEN 0 ELSE Last(g.contours),
      maskH |-> [k \in DOMAIN g.stemH |-> bit(k)],
      maskV |-> [k \in DOMAIN g.stemV |-> bit(k + Len(g.stemH))]]

\* Of two masks at one place the later one stays.
Stacked(masks, m) ==
  IF masks # <<>> /\ Last(masks).contoursBefore = m.contoursBefore /\ Last(masks).pointsBefore = m.pointsBefore
  THEN [masks EXCEPT ![Len(masks)] = m] ELSE Append(masks, m)

ReadHints(file) ==
  LET step(g, item) ==
        CASE item.op = "hstem" -> [g EXCEPT !.stemH = @ \o ReadStems(item.operands)]
          [] item.op = "vstem" -> [g EXCEPT !.stemV = @ \o ReadStems(item.operands)]
          [] item.op = "hintmask" -> [g EXCEPT !.hintMasks = Stacked(@, ReadMask(g, item.operands))]
          [] item.op = "cntrmask" -> [g EXCEPT !.contourMasks = Stacked(@, ReadMask(g, item.operands))]
          [] item.op = "moveto" -> [g EXCEPT !.contours = Append(@, 1)]
          [] item.op = "lineto" -> [g EXCEPT !.contours[Len(g.contours)] = @ + 1]
  IN FoldLeft(step, [stemH |-> <<>>, stemV |-> <<>>, hintMasks |-> <<>>, contourMasks |-> <<>>,
                     contours |-> <<>>], file)

-----------------------------------------------------------------------------
(* What hints say: the stems, and for every line drawn the stems that the  *)
(* hint mask and the counter mask in force there select.                   *)

SelectedStems(m, g) ==
  {<<"h", g.stemH[k]>> : k \in {i \in DOMAIN g.stemH : m.maskH[i]}}
    \union {<<"v", g.stemV[k]>> : k \in {i \in DOMAIN g.stemV : m.maskV[i]}}

MaskInForce(masks, g, place) ==
  LET due == SelectSeq(SortedMasks(masks), LAMBDA m : Before(m, place))
  IN IF due = <<>> \/ (g.stemH = <<>> /\ g.stemV = <<>>) THEN {<<"none">>} ELSE SelectedStems(Last(due), g)

HintsOf(g) ==
  {<<"stemH", s>> : s \in ToSet(g.stemH)} \union {<<"stemV", s>> : s \in ToSet(g.stemV)}
    \union {<<place, MaskInForce(g.hintMasks, g, place), MaskInForce(g.contourMasks, g, place)>> :
              place \in {p \in ToSet(Places(g.contours)) : p[2] > 0}}

IntendedHints(js) == HintsOf(ParseHints(js))
=============================================================================
