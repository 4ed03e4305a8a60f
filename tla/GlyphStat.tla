------------------------------ MODULE GlyphStat ------------------------------
(***************************************************************************)
(* The bounding boxes and counts of glyphs (lib/otf-writer/stat.c, lines   *)
(* 10-157): statGlyf measures each glyph by walking its references and     *)
(* theirs, and statMaxp takes the largest counts.                          *)
(*                                                                         *)
(* The walk is a stack of the calls of stat_single_glyph that are open.    *)
(* Points have one coordinate, the transformation a scale and an offset:   *)
(* the other coordinate has the same code.                                 *)
(***************************************************************************)
EXTENDS Integers, Sequences, FiniteSets

CONSTANTS
  N,         \* how many glyphs there are
  Fonts,     \* the fonts measured
  MaxDepth,  \* 0xFF: how deep references are followed
  Far        \* POS_MAX: beyond every coordinate

Gids == 0..(N - 1)
IsFont(f) ==
  \A j \in Gids : /\ f[j].contours \in Seq(Seq(Int)) /\ f[j].references \in Seq([to : Gids, a : Int, x : Int])

ASSUME NIsNat == N \in Nat
ASSUME DepthIsNat == MaxDepth \in Nat \ {0}
ASSUME FarIsNat == Far \in Nat
ASSUME FontsAreFonts == \A f \in Fonts : IsFont(f)

VARIABLES
  font,    \* font->glyf
  at,      \* the glyph statGlyf is at
  stated,  \* the state of each glyph: not started, doing or completed
  stack,   \* the calls of stat_single_glyph that are open
  stats,   \* the stat of each glyph
  tables   \* what head and maxp get
vars == <<font, at, stated, stack, stats, tables>>

CONSTANT Unset

-----------------------------------------------------------------------------
(* Boxes and transformations. *)

Larger(a, b) == IF a > b THEN a ELSE b
Union(s, t) == [min |-> IF t.min < s.min THEN t.min ELSE s.min, max |-> Larger(s.max, t.max)]
Nowhere == [min |-> Far, max |-> -Far]

\* The box of the points, transformed.
BoxOf(points, tfm) ==
  LET box[k \in 0..Len(points)] ==
        IF k = 0 THEN Nowhere
        ELSE LET p == tfm.x + tfm.a * points[k] IN Union(box[k - 1], [min |-> p, max |-> p])
  IN box[Len(points)]

Flat(seqs) ==
  LET joined[k \in 0..Len(seqs)] == IF k = 0 THEN <<>> ELSE joined[k - 1] \o seqs[k]
  IN joined[Len(seqs)]

Identity == [a |-> 1, x |-> 0]

\* The transformation of a reference in a glyph that is itself transformed.
Composite(outer, r) == [a |-> outer.a * r.a, x |-> r.x + r.a * outer.x]

\* An empty stat.
Blank == [box |-> [min |-> 0, max |-> 0], nestDepth |-> 0, nPoints |-> 0, nContours |-> 0,
          nCompositePoints |-> 0, nCompositeContours |-> 0]

-----------------------------------------------------------------------------
(* stat_single_glyph *)

\* A call that begins: the glyph's own points are measured.
Opened(j, tfm) ==
  LET points == Flat(font[j].contours)
  IN [glyph |-> j, tfm |-> tfm, next |-> 1, box |-> BoxOf(points, tfm), nestDepth |-> 0,
      nCompositePoints |-> Len(points), nCompositeContours |-> Len(font[j].contours)]

\* A call takes in the stat of its next reference.
Absorb_Shallow(f, stat) ==
  [f EXCEPT !.next = @ + 1, !.box = Union(@, stat.box), !.nestDepth = Larger(@, stat.nestDepth),
            !.nCompositePoints = @ + stat.nCompositePoints,
            !.nCompositeContours = @ + stat.nCompositeContours]
Absorb_Own(f, stat) ==
  [f EXCEPT !.next = @ + 1, !.nestDepth = Larger(@, stat.nestDepth + 1),
            !.nCompositePoints = @ + stat.nCompositePoints,
            !.nCompositeContours = @ + stat.nCompositeContours]
Absorb_Again(f, stat) == IF stat = Blank THEN f ELSE [f EXCEPT !.next = @ + 1]
Absorb(f, stat) ==
  [f EXCEPT !.next = @ + 1, !.box = Union(@, stat.box), !.nestDepth = Larger(@, stat.nestDepth + 1),
            !.nCompositePoints = @ + stat.nCompositePoints,
            !.nCompositeContours = @ + stat.nCompositeContours]

\* What a call returns; a glyph without points is at the origin.
StatOf(f) ==
  [box |-> IF f.box.min > f.box.max THEN Blank.box ELSE f.box, nestDepth |-> f.nestDepth,
   nPoints |-> Len(Flat(font[f.glyph].contours)), nContours |-> Len(font[f.glyph].contours),
   nCompositePoints |-> f.nCompositePoints, nCompositeContours |-> f.nCompositeContours]

\* A stat goes to the call that asked for it or, if none is open, to statGlyf.
Deliver(open, stat) ==
  IF open = <<>>
  THEN stack' = <<>> /\ stats' = [stats EXCEPT ![at] = stat] /\ at' = at + 1
  ELSE stack' = [open EXCEPT ![Len(open)] = Absorb(@, stat)] /\ UNCHANGED <<stats, at>>

\* A call of stat_single_glyph, with its early returns.
Call_Open(j, tfm) ==
  IF stated[j] = "doing"
  THEN Deliver(stack, Blank) /\ stated' = [stated EXCEPT ![j] = "completed"]
  ELSE /\ stack' = Append(stack, Opened(j, tfm))
       /\ stated' = [stated EXCEPT ![j] = "doing"]
       /\ UNCHANGED <<stats, at>>
Call(j, tfm) ==
  IF Len(stack) >= MaxDepth
  THEN Deliver(stack, Blank) /\ UNCHANGED stated
  ELSE IF stated[j] = "doing"
  THEN Deliver(stack, Blank) /\ stated' = [stated EXCEPT ![j] = "completed"]
  ELSE /\ stack' = Append(stack, Opened(j, tfm))
       /\ stated' = [stated EXCEPT ![j] = "doing"]
       /\ UNCHANGED <<stats, at>>

Top == stack[Len(stack)]
TopReferences == font[Top.glyph].references

\* statGlyf comes to its next glyph.
Begin ==
  /\ stack = <<>> /\ at < N
  /\ Call(at, Identity)
  /\ UNCHANGED <<font, tables>>

\* The call on top comes to its next reference.
Refer ==
  /\ stack # <<>> /\ Top.next <= Len(TopReferences)
  /\ LET r == TopReferences[Top.next] IN Call(r.to, Composite(Top.tfm, r))
  /\ UNCHANGED <<font, tables>>

\* The call on top has met all its references.
Completed_Not(j) == stated
Completed(j) == [stated EXCEPT ![j] = "completed"]
Return ==
  /\ stack # <<>> /\ Top.next > Len(TopReferences)
  /\ stated' = Completed(Top.glyph)
  /\ Deliver(SubSeq(stack, 1, Len(stack) - 1), StatOf(Top))
  /\ UNCHANGED <<font, tables>>

-----------------------------------------------------------------------------
(* The rest of statGlyf, and statMaxp *)

Largest(S) == IF S = {} THEN 0 ELSE CHOOSE n \in S : \A m \in S : m <= n

\* A glyph with contours counts as a simple one, whatever it refers to.
Simple_Leaves == {j \in Gids : font[j].contours # <<>> /\ font[j].references = <<>>}
Simple == {j \in Gids : font[j].contours # <<>>}
Compound == {j \in Gids : font[j].contours = <<>> /\ font[j].references # <<>>}

Maxp ==
  [maxPoints |-> Largest({stats[j].nPoints : j \in Simple}),
   maxContours |-> Largest({stats[j].nContours : j \in Simple}),
   maxCompositePoints |-> Largest({stats[j].nCompositePoints : j \in Compound}),
   maxCompositeContours |-> Largest({stats[j].nCompositeContours : j \in Compound}),
   maxComponentDepth |-> Largest({stats[j].nestDepth : j \in Compound}),
   maxComponentElements |-> Largest({Len(font[j].references) : j \in Compound})]

HeadBox ==
  LET box[j \in 0..N] == IF j = 0 THEN Nowhere ELSE Union(box[j - 1], stats[j - 1].box) IN box[N]

Finish ==
  /\ at = N /\ tables = Unset
  /\ tables' = [head |-> HeadBox, maxp |-> Maxp]
  /\ UNCHANGED <<font, at, stated, stack, stats>>

Done == tables # Unset /\ UNCHANGED vars

Init ==
  /\ font \in Fonts
  /\ at = 0 /\ stack = <<>> /\ tables = Unset
  /\ stated = [j \in Gids |-> "not started"]
  /\ stats = [j \in Gids |-> Blank]

Next == Begin \/ Refer \/ Return \/ Finish \/ Done
Spec == Init /\ [][Next]_vars
FairSpec == Spec /\ WF_vars(Next)

-----------------------------------------------------------------------------
(* What a glyph is, followed through its references: what the stats are of. *)

\* A font whose references lead to no circle, within the depth followed.
Acyclic ==
  \E rank \in [Gids -> 0..(MaxDepth - 1)] :
    \A j \in Gids : \A k \in 1..Len(font[j].references) : rank[font[j].references[k].to] < rank[j]

\* The contours a rasterizer draws for glyph j, in the order it draws them.
Drawn(j) ==
  LET drawn[h \in Gids] ==
        LET part(r) == [c \in 1..Len(drawn[r.to]) |->
                          [p \in 1..Len(drawn[r.to][c]) |-> r.x + r.a * drawn[r.to][c][p]]]
        IN font[h].contours
           \o Flat([k \in 1..Len(font[h].references) |-> part(font[h].references[k])])
  IN drawn[j]
Height(j) ==
  LET height[h \in Gids] ==
        Largest({height[font[h].references[k].to] + 1 : k \in 1..Len(font[h].references)})
  IN height[j]

\* Scaled references are not nested: what they refer to has no references of its own, and
\* nothing refers to the glyph they are in.
ScalesApart ==
  \A j \in Gids : \A k \in 1..Len(font[j].references) :
    font[j].references[k].a # 1 =>
      /\ font[font[j].references[k].to].references = <<>>
      /\ \A h \in Gids : \A i \in 1..Len(font[h].references) : font[h].references[i].to # j

\* No glyph reached from j draws nothing.
NoBlank(j) ==
  LET solid[h \in Gids] == /\ Flat(font[h].contours) # <<>> \/ font[h].references # <<>>
                           /\ \A k \in 1..Len(font[h].references) : solid[font[h].references[k].to]
  IN solid[j]

-----------------------------------------------------------------------------
(* Properties *)

IsFrame(f) == f.glyph \in Gids /\ f.next \in 1..(Len(font[f.glyph].references) + 1)
TypeOK ==
  /\ IsFont(font) /\ at \in 0..N
  /\ stated \in [Gids -> {"not started", "doing", "completed"}]
  /\ Len(stack) <= MaxDepth /\ \A k \in 1..Len(stack) : IsFrame(stack[k])
  /\ DOMAIN stats = Gids

\* A glyph marked as being measured is on the stack: none stays marked when the walk
\* that met it ends, in circles too, so the walk of a later glyph does not take it for a
\* circle and drop it (stat.c:18-28 and 93).
DoingIsOpen ==
  \A j \in Gids : stated[j] = "doing" => \E k \in 1..Len(stack) : stack[k].glyph = j

\* The box of a measured glyph is the box of what is drawn for it (stat.c:37-82).
BoxExact ==
  Acyclic /\ ScalesApart =>
    \A j \in 0..(at - 1) : NoBlank(j) => stats[j].box = BoxOf(Flat(Drawn(j)), Identity)

\* The counts of a measured glyph are those of what is drawn for it, and its depth is
\* the longest way down its references (stat.c:53-77).
CountsExact ==
  Acyclic => \A j \in 0..(at - 1) :
    /\ stats[j].nCompositePoints = Len(Flat(Drawn(j)))
    /\ stats[j].nCompositeContours = Len(Drawn(j))
    /\ stats[j].nestDepth = Height(j)

\* head and maxp have room for every glyph the font is written with: a simple glyph for
\* one with contours, a composite one otherwise (stat.c:115-122 and 127-157 against
\* glyf/build.c:194-198).
TablesCover ==
  tables # Unset /\ Acyclic =>
    \A j \in Gids :
      /\ ScalesApart /\ NoBlank(j) => \A k \in 1..Len(Flat(Drawn(j))) :
           tables.head.min <= Flat(Drawn(j))[k] /\ Flat(Drawn(j))[k] <= tables.head.max
      /\ font[j].contours # <<>> => Len(Flat(font[j].contours)) <= tables.maxp.maxPoints
      /\ font[j].contours = <<>> => /\ Len(Flat(Drawn(j))) <= tables.maxp.maxCompositePoints
                                    /\ Len(Drawn(j)) <= tables.maxp.maxCompositeContours
                                    /\ Height(j) <= tables.maxp.maxComponentDepth

\* A font with circles is measured, too.
Terminates == <>(tables # Unset)
===============================================================================
