----------------------------- MODULE CharstringIL -----------------------------
(***************************************************************************)
(* From a glyph to its Type 2 charstring and back.                         *)
(*                                                                         *)
(* lib/libcff/charstring-il.c compiles a glyph into a list of instructions *)
(* and rolls it: operators that draw a special case take fewer operands,   *)
(* and neighbouring operators become one.  cff_parseOutline and the        *)
(* drawing callbacks of lib/table/CFF.c read a charstring.                 *)
(*                                                                         *)
(* Coordinates are numbers that add up; the bytes of operands and masks    *)
(* are left out.  A mask is the sequence of its bits.                      *)
(***************************************************************************)
EXTENDS Integers, Sequences, FiniteSets, Functions, SequencesExt

CONSTANTS
  Glyphs,         \* the glyphs compiled
  ArgumentStack,  \* type2_argument_stack
  WidthOperand    \* what a width other than the default one is written as

ASSUME WidthIsANumber == WidthOperand \in Int
ASSUME StackIsNat == ArgumentStack \in Nat

\* A contour begins on the curve; its points are absolute.
IsContour(c) == c # <<>> /\ c[1].on /\ \A k \in 1..Len(c) : {c[k].x, c[k].y} \subseteq Int
IsMask(g, mask) == Len(mask.bits) = Len(g.stemH) + Len(g.stemV)
ASSUME GlyphsAreWellFormed ==
  \A g \in Glyphs :
    /\ \A k \in 1..Len(g.contours) : IsContour(g.contours[k])
    /\ \A k \in 1..Len(g.hintMasks) : IsMask(g, g.hintMasks[k])
    /\ \A k \in 1..Len(g.contourMasks) : IsMask(g, g.contourMasks[k])

VARIABLES
  glyph,  \* the glyph that is compiled
  il,     \* its instructions
  at      \* where the rolling is
vars == <<glyph, il, at>>

Sum(seq) == FoldLeft(LAMBDA x, y : x + y, 0, seq)

-----------------------------------------------------------------------------
(* Instructions. *)

Operand(d) == [type |-> "operand", value |-> d, arity |-> 0]
Operator(op, arity) == [type |-> "operator", value |-> op, arity |-> arity]
Special(bits) == [type |-> "special", value |-> bits, arity |-> 0]

\* cff_getStandardArity
StandardArity(op) ==
  CASE op \in {"hlineto", "vlineto"} -> 1
    [] op \in {"hhcurveto", "vvcurveto", "hvcurveto", "vhcurveto"} -> 4
    [] op = "rrcurveto" -> 6
    [] op \in {"hintmask", "cntrmask"} -> 0
    [] OTHER -> 2

Put(op, operands) ==
  [k \in 1..Len(operands) |-> Operand(operands[k])] \o <<Operator(op, StandardArity(op))>>

-----------------------------------------------------------------------------
(* cff_compileGlyphToIL *)

\* A contour that ends off the curve gets its first point once more.
Closed(c) == IF Len(c) > 2 /\ ~Last(c).on THEN Append(c, c[1]) ELSE c

\* The points of contour c as moves from the point before, across contours.
Deltas(g, c) ==
  LET points == Closed(g.contours[c])
      start == IF c = 1 THEN [x |-> 0, y |-> 0] ELSE Last(Closed(g.contours[c - 1]))
      before(j) == IF j = 1 THEN start ELSE points[j - 1]
  IN [j \in 1..Len(points) |->
        [on |-> points[j].on, x |-> points[j].x - before(j).x, y |-> points[j].y - before(j).y]]

\* The lines and curves through the moves p, and the points each takes.
RECURSIVE Strands(_)
Strands(p) ==
  IF p = <<>> THEN <<>>
  ELSE IF ~p[1].on /\ Len(p) >= 3 /\ ~p[2].on /\ p[3].on
       THEN <<[points |-> 3, code |-> Put("rrcurveto", <<p[1].x, p[1].y, p[2].x, p[2].y,
                                                         p[3].x, p[3].y>>)]>>
            \o Strands(SubSeq(p, 4, Len(p)))
       ELSE <<[points |-> 1, code |-> Put("rlineto", <<p[1].x, p[1].y>>)]>> \o Strands(Tail(p))

Due_Later(mask, contours, points) ==
  \/ mask.contoursBefore < contours
  \/ mask.contoursBefore = contours /\ mask.pointsBefore < points
Due(mask, contours, points) ==
  \/ mask.contoursBefore < contours
  \/ mask.contoursBefore = contours /\ mask.pointsBefore <= points

\* _il_push_maskgroup: the masks due after so many contours and points.
PendingMasks(masks, from, contours, points) ==
  LET ends == {k \in from..Len(masks) : \A h \in (from + 1)..k : Due(masks[h], contours, points)}
  IN SubSeq(masks, from + 1, CHOOSE k \in ends : \A h \in ends : h <= k)

MaskCode(op, masks) ==
  FlattenSeq([k \in 1..Len(masks) |-> <<Operator(op, 0), Special(masks[k].bits)>>])

\* il_push_masks: s holds the code so far and how many masks of each kind it has.
WithMasks(g, s, contours, points) ==
  LET cntr == PendingMasks(g.contourMasks, s.jh, contours, points)
      hint == PendingMasks(g.hintMasks, s.jm, contours, points)
  IN IF g.stemH = <<>> /\ g.stemV = <<>> THEN s
     ELSE [code |-> s.code \o MaskCode("cntrmask", cntr) \o MaskCode("hintmask", hint),
           jh |-> s.jh + Len(cntr), jm |-> s.jm + Len(hint)]

HasMask(g) == g.hintMasks # <<>> \/ g.contourMasks # <<>>

\* Where the stem before ends.
EdgeBefore_Start(stems, j) == IF j = 1 THEN 0 ELSE stems[j - 1].position
EdgeBefore(stems, j) == IF j = 1 THEN 0 ELSE stems[j - 1].position + stems[j - 1].width

\* _il_push_stemgroup: what is counted against the stack is stems, and a group that
\* is cut goes on as horizontal ones.
RECURSIVE StemsFrom(_, _, _, _, _)
StemsFrom(g, stems, j, nn, op) ==
  LET operands == <<Operand(stems[j].position - EdgeBefore(stems, j)), Operand(stems[j].width)>>
      cut == IF HasMask(g) THEN "hstemhm" ELSE "hstem"
  IN IF j > Len(stems) THEN <<Operator(op, nn)>>
     ELSE IF nn + 1 >= ArgumentStack
          THEN operands \o <<Operator(cut, nn + 1)>> \o StemsFrom(g, stems, j + 1, 0, op)
          ELSE operands \o StemsFrom(g, stems, j + 1, nn + 1, op)

StemCode(g, stems, op) ==
  IF stems = <<>> THEN <<>>
  ELSE StemsFrom(g, stems, 1, IF g.width THEN 1 ELSE 0, IF HasMask(g) THEN op[1] ELSE op[2])

\* One contour, after s, with the masks due on the way.
WithContour(g, s, c) ==
  LET p == Deltas(g, c)
      strands == Strands(Tail(p))
      begun == WithMasks(g, [s EXCEPT !.code = @ \o Put("rmoveto", <<p[1].x, p[1].y>>)], c - 1, 1)
      drawn(t, k) ==
        WithMasks(g, [t EXCEPT !.code = @ \o strands[k].code], c - 1,
                  1 + Sum([h \in 1..k |-> strands[h].points]))
  IN FoldLeft(drawn, begun, [k \in 1..Len(strands) |-> k])

Compile(g) ==
  LET width == IF g.width THEN <<Operand(WidthOperand)>> ELSE <<>>
      stems == StemCode(g, g.stemH, <<"hstemhm", "hstem">>)
               \o StemCode(g, g.stemV, <<"vstemhm", "vstem">>)
      begun == WithMasks(g, [code |-> width \o stems, jh |-> 0, jm |-> 0], 0, 0)
      drawn == FoldLeft(LAMBDA s, c : WithContour(g, s, c), begun,
                        [c \in 1..Len(g.contours) |-> c])
  IN Append(drawn.code, Operator("endchar", StandardArity("endchar")))

-----------------------------------------------------------------------------
(* Rolling: the positions of the list are counted from 0, as in the code.  *)

Instr(code, j) == code[j + 1]
IsOp(code, j, op) == Instr(code, j).type = "operator" /\ Instr(code, j).value = op
AllOperands(code, j, k) == k < Len(code) /\ \A m \in j..(k - 1) : Instr(code, m).type = "operand"
IsZero(code, j) == Instr(code, j).value = 0

\* code with the instructions at the places given gone to phantoms.
Phantom(code, places) ==
  [k \in 1..Len(code) |->
     IF k - 1 \in places
     THEN [code[k] EXCEPT !.type = IF @ = "operand" THEN "phantom operand" ELSE "phantom operator"]
     ELSE code[k]]
Renamed(code, j, op, arity) == [code EXCEPT ![j + 1] = Operator(op, arity)]

NoRoll(code) == [code |-> code, by |-> 0]

Fits_OneMore(arity) == arity <= ArgumentStack + 1
Fits(arity) == arity <= ArgumentStack

\* zroll: the operands at the places given are zero and may go.
ZRoll(code, j, op, op2, zeros) ==
  LET arity == StandardArity(op)
  IN IF /\ j + arity < Len(code)
        /\ j = 0 \/ Instr(code, IF j = 0 THEN 0 ELSE j - 1).type # "phantom operator"
        /\ IsOp(code, j + arity, op) /\ AllOperands(code, j, j + arity)
        /\ \A z \in zeros : IsZero(code, j + z)
     THEN [code |-> Renamed(Phantom(code, {j + z : z \in zeros}), j + arity, op2,
                            arity - Cardinality(zeros)),
           by |-> arity]
     ELSE NoRoll(code)

\* opop_roll: an operator and the next become one.
OpOpRoll(code, j, op1, arity, op2, result) ==
  LET k == j + 1 + arity
  IN IF /\ k < Len(code)
        /\ IsOp(code, j, op1) /\ AllOperands(code, j + 1, k) /\ IsOp(code, k, op2)
        /\ Fits(Instr(code, j).arity + Instr(code, k).arity)
     THEN [code |-> Renamed(Phantom(code, {j}), k, result,
                            Instr(code, j).arity + Instr(code, k).arity),
           by |-> arity + 1]
     ELSE NoRoll(code)

\* hvlineto_roll: alternating lines, horizontal and vertical.
HvLineRoll(code, j) ==
  LET now == Instr(code, j)
      zero == IF (now.arity % 2 = 1) # (now.value = "vlineto") THEN j + 1 ELSE j + 2
  IN IF /\ j + 3 < Len(code)
        /\ IsOp(code, j, "hlineto") \/ IsOp(code, j, "vlineto")
        /\ IsOp(code, j + 3, "rlineto") /\ AllOperands(code, j + 1, j + 3)
        /\ IsZero(code, zero) /\ Fits(now.arity + 1)
     THEN [code |-> Renamed(Phantom(code, {j, zero}), j + 3, now.value, now.arity + 1), by |-> 3]
     ELSE NoRoll(code)

\* hhvvcurve_roll: curves that start and end the same way.
HhCurveRoll(code, j) ==
  LET now == Instr(code, j)
      zeros == IF now.value = "hhcurveto" THEN {j + 2, j + 6} ELSE {j + 1, j + 5}
  IN IF /\ IsOp(code, j, "hhcurveto") \/ IsOp(code, j, "vvcurveto")
        /\ j + 7 < Len(code)
        /\ IsOp(code, j + 7, "rrcurveto") /\ AllOperands(code, j + 1, j + 7)
        /\ \A z \in zeros : IsZero(code, z)
        /\ Fits(now.arity + 4)
     THEN [code |-> Renamed(Phantom(code, {j} \union zeros), j + 7, now.value, now.arity + 4),
           by |-> 7]
     ELSE NoRoll(code)

\* hvvhcurve_roll: alternating curves; the last one may end in any direction.
TrailingSwap_Never(code, j, hvcase) == code
TrailingSwap(code, j, hvcase) ==
  IF hvcase THEN [code EXCEPT ![j + 6] = code[j + 7], ![j + 7] = code[j + 6]] ELSE code

HvCurveRoll(code, j) ==
  LET now == Instr(code, j)
      hvcase == ((now.arity \div 4) % 2 = 1) # (now.value = "hvcurveto")
      zero1 == IF hvcase THEN j + 2 ELSE j + 1
      zero2 == IF hvcase THEN j + 5 ELSE j + 6
  IN IF ~( /\ IsOp(code, j, "hvcurveto") \/ IsOp(code, j, "vhcurveto")
           /\ j + 7 < Len(code) /\ now.arity % 2 = 0
           /\ IsOp(code, j + 7, "rrcurveto") /\ AllOperands(code, j + 1, j + 7)
           /\ IsZero(code, zero1) )
     THEN NoRoll(code)
     ELSE IF IsZero(code, zero2) /\ Fits(now.arity + 4)
     THEN [code |-> Renamed(Phantom(code, {j, zero1, zero2}), j + 7, now.value, now.arity + 4),
           by |-> 7]
     ELSE IF Fits(now.arity + 5)
     THEN [code |-> TrailingSwap(Renamed(Phantom(code, {j, zero1}), j + 7, now.value, now.arity + 5),
                                 j, hvcase),
           by |-> 7]
     ELSE NoRoll(code)

\* nextstop: the operands from j on.
NextStop(code, j) ==
  LET ends == {k \in j..Len(code) : \A m \in j..(k - 1) : Instr(code, m).type = "operand"}
  IN [code |-> code, by |-> (CHOOSE k \in ends : \A h \in ends : h <= k) - j]

\* decideAdvance: the first of these that rolls.
Rolls(code, j) ==
  << ZRoll(code, j, "rlineto", "hlineto", {1}), ZRoll(code, j, "rlineto", "vlineto", {0}),
     ZRoll(code, j, "rmoveto", "hmoveto", {1}), ZRoll(code, j, "rmoveto", "vmoveto", {0}),
     ZRoll(code, j, "rrcurveto", "hvcurveto", {1, 4}), ZRoll(code, j, "rrcurveto", "vhcurveto", {0, 5}),
     ZRoll(code, j, "rrcurveto", "hhcurveto", {1, 5}), ZRoll(code, j, "rrcurveto", "vvcurveto", {0, 4}),
     OpOpRoll(code, j, "rrcurveto", 6, "rrcurveto", "rrcurveto"),
     OpOpRoll(code, j, "rrcurveto", 2, "rlineto", "rcurveline"),
     OpOpRoll(code, j, "rlineto", 6, "rrcurveto", "rlinecurve"),
     OpOpRoll(code, j, "rlineto", 2, "rlineto", "rlineto"),
     OpOpRoll(code, j, "hstemhm", 0, "hintmask", "hintmask"),
     OpOpRoll(code, j, "vstemhm", 0, "hintmask", "hintmask"),
     OpOpRoll(code, j, "hstemhm", 0, "cntrmask", "cntrmask"),
     OpOpRoll(code, j, "vstemhm", 0, "cntrmask", "cntrmask"),
     HvLineRoll(code, j), HhCurveRoll(code, j), HvCurveRoll(code, j), NextStop(code, j),
     [code |-> code, by |-> 1] >>

DecideAdvance(code, j) ==
  LET rolls == Rolls(code, j)
      rolled == {k \in 1..Len(rolls) : rolls[k].by > 0}
  IN rolls[CHOOSE k \in rolled : \A h \in rolled : k <= h]

-----------------------------------------------------------------------------
(* cff_parseOutline with the callbacks of CFF.c.  A charstring written here *)
(* holds no flex, no arithmetic and, before subroutines are made, no calls. *)

Move(on, x, y) == [on |-> on, x |-> x, y |-> y]
Line(x, y) == <<Move(TRUE, x, y)>>
Curve(x1, y1, x2, y2, x3, y3) ==
  <<Move(FALSE, x1, y1), Move(FALSE, x2, y2), Move(TRUE, x3, y3)>>
Six(s, k) == Curve(s[k + 1], s[k + 2], s[k + 3], s[k + 4], s[k + 5], s[k + 6])

\* op_rlineto ... op_hvcurveto: what is drawn with the stack s.
Drawn(op, s) ==
  LET n == Len(s)
      lines(upto) == FlattenSeq([k \in 1..(upto \div 2) |-> Line(s[2 * k - 1], s[2 * k])])
      curves(upto) == FlattenSeq([k \in 1..(upto \div 6) |-> Six(s, 6 * (k - 1))])
      extra == n % 4 = 1
      straight ==
        [k \in 1..(n \div 4) |->
           LET b == 4 * (k - 1) + IF extra THEN 1 ELSE 0
               lead == IF extra /\ k = 1 THEN s[1] ELSE 0
           IN IF op = "hhcurveto" THEN Curve(s[b + 1], lead, s[b + 2], s[b + 3], s[b + 4], 0)
              ELSE Curve(lead, s[b + 1], s[b + 2], s[b + 3], 0, s[b + 4])]
      turning ==
        [k \in 1..(n \div 4) |->
           LET b == 4 * (k - 1)
               last == IF extra /\ b + 5 = n THEN s[n] ELSE 0
           IN IF (k % 2 = 1) = (op = "hvcurveto")
              THEN Curve(s[b + 1], 0, s[b + 2], s[b + 3], last, s[b + 4])
              ELSE Curve(0, s[b + 1], s[b + 2], s[b + 3], s[b + 4], last)]
  IN CASE op = "rlineto" -> lines(n)
       [] op \in {"hlineto", "vlineto"} ->
            [k \in 1..n |-> IF (k % 2 = 1) = (op = "hlineto") THEN Move(TRUE, s[k], 0)
                            ELSE Move(TRUE, 0, s[k])]
       [] op = "rrcurveto" -> curves(n)
       [] op = "rcurveline" -> curves(n - 2) \o Line(s[n - 1], s[n])
       [] op = "rlinecurve" -> lines(n - 6) \o Six(s, n - 6)
       [] op \in {"hhcurveto", "vvcurveto"} -> FlattenSeq(straight)
       [] op \in {"hvcurveto", "vhcurveto"} -> FlattenSeq(turning)

\* A stem operator: the stems on the stack s, each from the end of the one before.
StemsOf(s) ==
  LET first == Len(s) % 2
      edge[k \in 0..(Len(s) - first)] == IF k = 0 THEN 0 ELSE edge[k - 1] + s[first + k]
  IN [k \in 1..(Len(s) \div 2) |->
        [position |-> edge[2 * k - 1], width |-> s[first + 2 * k]]]

\* callback_draw_setmask: a mask at the place of the last one replaces it.
SetMask(r, list, bits) ==
  LET mask == [contoursBefore |-> IF r.contours = <<>> THEN 0 ELSE Len(r.contours) - 1,
               pointsBefore |-> IF r.contours = <<>> THEN 0 ELSE Len(Last(r.contours)),
               bits |-> SubSeq(bits, 1, Len(r.stemH) + Len(r.stemV))]
      stacking == /\ list # <<>>
                  /\ Last(list).contoursBefore = mask.contoursBefore
                  /\ Last(list).pointsBefore = mask.pointsBefore
  IN IF stacking THEN Append(Front(list), mask) ELSE Append(list, mask)

WithStems(r, vertical, stems) ==
  IF vertical THEN [r EXCEPT !.stemV = @ \o stems] ELSE [r EXCEPT !.stemH = @ \o stems]

WidthIf(r, given, value) == IF given THEN [r EXCEPT !.width = <<value>>] ELSE r

\* One operator on the stack s; bits is what follows a mask operator.
Obey(r, op, s, bits) ==
  LET n == Len(s)
      headed == WidthIf(r, n % 2 = 1, IF n = 0 THEN 0 ELSE s[1])
      begun(arity, x, y) ==
        LET w == WidthIf(r, n > arity, IF n > arity THEN s[n - arity] ELSE 0)
        IN [w EXCEPT !.contours = Append(@, Line(x, y))]
  IN CASE op \in {"hstem", "vstem", "hstemhm", "vstemhm"} ->
            WithStems(headed, op \in {"vstem", "vstemhm"}, StemsOf(s))
       [] op \in {"hintmask", "cntrmask"} ->
            LET known == WithStems(headed, r.stemH \o r.stemV # <<>>, StemsOf(s))
            IN IF op = "hintmask"
               THEN [known EXCEPT !.hintMasks = SetMask(known, @, bits)]
               ELSE [known EXCEPT !.contourMasks = SetMask(known, @, bits)]
       [] op = "rmoveto" -> begun(2, s[n - 1], s[n])
       [] op = "hmoveto" -> begun(1, s[n], 0)
       [] op = "vmoveto" -> begun(1, 0, s[n])
       [] op = "endchar" -> WidthIf(r, n > 0, IF n > 0 THEN s[n] ELSE 0)
       [] OTHER -> IF r.contours = <<>> THEN r
                   ELSE [r EXCEPT !.contours = Append(Front(@), Last(@) \o Drawn(op, s))]

RECURSIVE Reading(_, _, _, _)
Reading(code, k, r, s) ==
  IF k > Len(code) THEN r
  ELSE CASE code[k].type = "operand" -> Reading(code, k + 1, r, Append(s, code[k].value))
         [] code[k].type = "operator" ->
              LET masked == code[k].value \in {"hintmask", "cntrmask"}
              IN Reading(code, k + 1,
                         Obey(r, code[k].value, s, IF masked THEN code[k + 1].value ELSE <<>>),
                         <<>>)
         [] OTHER -> Reading(code, k + 1, r, s)

\* buildOutline: absolute points, and the knot met twice removed.
RECURSIVE Placed(_, _)
Placed(contours, from) ==
  IF contours = <<>> THEN <<>>
  ELSE LET c == Head(contours)
           point[k \in 0..Len(c)] ==
             IF k = 0 THEN from
             ELSE LET before == point[k - 1] IN Move(c[k].on, before.x + c[k].x, before.y + c[k].y)
           points == [k \in 1..Len(c) |-> point[k]]
           twice == points[1] = Last(points) /\ points[1].on
       IN <<IF twice THEN Front(points) ELSE points>> \o Placed(Tail(contours), point[Len(c)])

Read(code) ==
  LET r == Reading(code, 1, [contours |-> <<>>, stemH |-> <<>>, stemV |-> <<>>, hintMasks |-> <<>>,
                             contourMasks |-> <<>>, width |-> <<>>], <<>>)
  IN [r EXCEPT !.contours = Placed(@, Move(TRUE, 0, 0))]

-----------------------------------------------------------------------------
Init == glyph \in Glyphs /\ il = Compile(glyph) /\ at = 0

\* One round of cff_optimizeIL; without cff_rollCharString there is none.
Roll ==
  /\ at < Len(il)
  /\ LET roll == DecideAdvance(il, at) IN il' = roll.code /\ at' = at + roll.by
  /\ UNCHANGED glyph

Next == Roll

Spec == Init /\ [][Next]_vars

-----------------------------------------------------------------------------
(* What is kept. *)

\* However far the rolling has come, a reader draws the contours of the glyph: no
\* point is lost, and every zero left out and every pair swapped is put back
\* (charstring-il.c:232-428 against cff-parser.c:423-606).
OutlineReadBack == Read(il).contours = glyph.contours

\* No operator meets more operands than an interpreter's stack holds
\* (type2_argument_stack, which every roll asks about).
OperandsFit ==
  LET live == SelectSeq(il, LAMBDA i : i.type \in {"operand", "operator"})
  IN \A k \in 1..(Len(live) - ArgumentStack) :
       \E h \in k..(k + ArgumentStack) : live[h].type = "operator"

\* The masks in force once n points of contour c are drawn.
InForce(g, masks, c, n) ==
  LET passed == {k \in 1..Len(masks) : \/ masks[k].contoursBefore < c
                                       \/ /\ masks[k].contoursBefore = c
                                          /\ masks[k].pointsBefore <= n}
  IN IF passed = {} THEN <<>>
     ELSE masks[CHOOSE k \in passed : \A h \in passed : h <= k].bits

\* Every line and curve is drawn under the hint mask and the counter mask it has in
\* the glyph, however the masks are moved, stacked and rolled into the stems
\* (charstring-il.c:58-106 and 411-414 against CFF.c:333-368).
MasksInForce ==
  LET back == Read(il)
      starts(c) ==  \* the points drawn where a line or a curve of contour c begins
        LET p == Closed(glyph.contours[c])
        IN {k \in 1..(Len(p) - 1) : p[k].on}
  IN \A c \in 1..Len(glyph.contours) : \A n \in starts(c) :
       /\ InForce(back, back.hintMasks, c - 1, n) = InForce(glyph, glyph.hintMasks, c - 1, n)
       /\ InForce(back, back.contourMasks, c - 1, n) = InForce(glyph, glyph.contourMasks, c - 1, n)

\* The stems come back in order, horizontal before vertical, and the width is the first
\* operand of whichever operator takes it (cff-parser.c:379, 393, 425, 449).
StemsAndWidthReadBack ==
  LET back == Read(il)
  IN /\ back.stemH \o back.stemV = glyph.stemH \o glyph.stemV
     /\ back.width = IF glyph.width THEN <<WidthOperand>> ELSE <<>>
===============================================================================
