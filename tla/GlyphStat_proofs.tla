---------------------------- MODULE GlyphStat_proofs ----------------------------
(***************************************************************************)
(* The walk that measures glyphs, for every font: a glyph is marked as     *)
(* being measured only while a call of stat_single_glyph for it is open,   *)
(* circles included; and without circles the boxes and counts that come    *)
(* out are those of what is drawn.                                         *)
(*                                                                         *)
(* The second part first says what the recursive definitions of what is    *)
(* drawn come to: joined sequences, boxes of points, contours moved by     *)
(* references, heights.  Then it shows that every open call has measured   *)
(* what is drawn up to its next reference, under the transformation it was *)
(* called with, and that ranks go down along the open calls, so that no    *)
(* call returns before it has measured its glyph.                          *)
(***************************************************************************)
EXTENDS GlyphStat, OrderLemmas, TLAPS

IsSeq(s) == \E S : s \in Seq(S)

\* What a frame is made of.
Shaped(f) ==
  f = [glyph |-> f.glyph, tfm |-> f.tfm, next |-> f.next, box |-> f.box, nestDepth |-> f.nestDepth,
       nCompositePoints |-> f.nCompositePoints, nCompositeContours |-> f.nCompositeContours]

\* A call that waits for the stat of its next reference.
Waiting(f) == Shaped(f) /\ f.glyph \in Gids /\ f.next \in 1..Len(font[f.glyph].references)

\* Every open call but the last waits.
StackInv ==
  /\ IsSeq(stack) /\ Len(stack) <= MaxDepth
  /\ \A k \in 1..Len(stack) : Shaped(stack[k]) /\ IsFrame(stack[k])
  /\ \A k \in 1..Len(stack) : k < Len(stack) => Waiting(stack[k])

WalkInv ==
  /\ IsFont(font) /\ at \in 0..N /\ DOMAIN stats = Gids
  /\ stated \in [Gids -> {"not started", "doing", "completed"}]
  /\ StackInv
  /\ stack # <<>> => at < N

IInv == WalkInv /\ DoingIsOpen

\* An element of a sequence is in the set the sequence is of.
LEMMA ElementOf ==
  ASSUME NEW S, NEW s \in Seq(S), NEW k \in 1..Len(s)
  PROVE  s[k] \in S
  OBVIOUS

\* A call that takes in a stat is of the same glyph and has met one more reference.
LEMMA Absorbed ==
  ASSUME NEW f, NEW stat, Shaped(f)
  PROVE  /\ Shaped(Absorb(f, stat))
         /\ Absorb(f, stat).glyph = f.glyph /\ Absorb(f, stat).next = f.next + 1
<1>1. PICK glyph, tfm, next, box, depth, points, contours :
        f = [glyph |-> glyph, tfm |-> tfm, next |-> next, box |-> box, nestDepth |-> depth,
             nCompositePoints |-> points, nCompositeContours |-> contours]
  BY DEF Shaped
<1>2. Absorb(f, stat) =
        [glyph |-> glyph, tfm |-> tfm, next |-> next + 1, box |-> Union(box, stat.box),
         nestDepth |-> Larger(depth, stat.nestDepth + 1),
         nCompositePoints |-> points + stat.nCompositePoints,
         nCompositeContours |-> contours + stat.nCompositeContours]
  <2>1. /\ f.next = next /\ f.box = box /\ f.nestDepth = depth
        /\ f.nCompositePoints = points /\ f.nCompositeContours = contours
    BY <1>1
  <2>2. Absorb(f, stat) =
          [f EXCEPT !.next = next + 1, !.box = Union(box, stat.box),
                    !.nestDepth = Larger(depth, stat.nestDepth + 1),
                    !.nCompositePoints = points + stat.nCompositePoints,
                    !.nCompositeContours = contours + stat.nCompositeContours]
    BY <2>1 DEF Absorb
  <2> DEFINE n2 == next + 1
             b2 == Union(box, stat.box)
             d2 == Larger(depth, stat.nestDepth + 1)
             p2 == points + stat.nCompositePoints
             c2 == contours + stat.nCompositeContours
  <2>3. Absorb(f, stat) =
          [f EXCEPT !.next = n2, !.box = b2, !.nestDepth = d2, !.nCompositePoints = p2,
                    !.nCompositeContours = c2]
    BY <2>2
  <2> SUFFICES Absorb(f, stat) =
          [glyph |-> glyph, tfm |-> tfm, next |-> n2, box |-> b2, nestDepth |-> d2,
           nCompositePoints |-> p2, nCompositeContours |-> c2]
    OBVIOUS
  <2> HIDE DEF n2, b2, d2, p2, c2
  <2> QED
    BY <1>1, <2>3
<1> HIDE DEF Absorb
<1>3. f.glyph = glyph /\ f.next = next
  BY <1>1
<1> QED
  BY <1>2, <1>3 DEF Shaped

\* The references of a glyph are a sequence and lead to glyphs.
LEMMA ReferencesLead ==
  ASSUME IsFont(font), NEW j \in Gids
  PROVE  /\ Len(font[j].references) \in Nat
         /\ \A k \in 1..Len(font[j].references) : font[j].references[k].to \in Gids
<1>1. font[j].references \in Seq([to : Gids, a : Int, x : Int])
  BY DEF IsFont
<1> HIDE DEF Gids
<1>2. \A k \in 1..Len(font[j].references) : font[j].references[k] \in [to : Gids, a : Int, x : Int]
  BY <1>1, ElementOf
<1> QED
  BY <1>1, <1>2

\* A stat delivered to the calls that wait leaves them the calls of the same glyphs, the
\* last one with one more reference met; with no call open, statGlyf goes on.
LEMMA Delivered ==
  ASSUME NEW open, NEW stat, IsSeq(open), Len(open) <= MaxDepth,
         \A k \in 1..Len(open) : Waiting(open[k]),
         IsFont(font), at \in 0..N, at < N, DOMAIN stats = Gids, font' = font,
         Deliver(open, stat)
  PROVE  /\ StackInv'
         /\ Len(stack') = Len(open)
         /\ \A k \in 1..Len(open) : stack'[k].glyph = open[k].glyph
         /\ DOMAIN stats' = Gids /\ at' \in 0..N
         /\ stack' # <<>> => at' < N
<1>0. IsSeq(<<>>) /\ Len(<<>>) = 0
  <2>1. <<>> \in Seq({})
    OBVIOUS
  <2> QED
    BY <2>1 DEF IsSeq
<1>1. CASE open = <<>>
  <2>1. stack' = <<>> /\ stats' = [stats EXCEPT ![at] = stat] /\ at' = at + 1
    BY <1>1 DEF Deliver
  <2>2. StackInv'
    BY <2>1, <1>0, DepthIsNat DEF StackInv
  <2> QED
    BY <2>1, <2>2, <1>0, <1>1, NIsNat
<1>2. CASE open # <<>>
  <2> DEFINE n == Len(open)
             f == open[n]
             g == Absorb(f, stat)
  <2>1. stack' = [open EXCEPT ![n] = g] /\ UNCHANGED <<stats, at>>
    BY <1>2 DEF Deliver
  <2>2. PICK S : open \in Seq(S)
    BY DEF IsSeq
  <2>3. n \in Nat /\ n > 0 /\ n \in 1..n
    BY <2>2, <1>2
  <2>4. Waiting(f) /\ f.glyph \in Gids /\ Shaped(f)
    BY <2>3 DEF Waiting
  <2>5. Len(font[f.glyph].references) \in Nat
    BY <2>4, ReferencesLead
  <2>6. Shaped(g) /\ g.glyph = f.glyph /\ g.next = f.next + 1
    BY <2>4, Absorbed
  <2> HIDE DEF f, g
  <2>7. IsFrame(g)
    BY <2>4, <2>5, <2>6 DEF Waiting, IsFrame
  <2>8. /\ stack' \in Seq(S \cup {g}) /\ Len(stack') = n
        /\ stack'[n] = g /\ \A k \in 1..n : k # n => stack'[k] = open[k]
    BY <2>1, <2>2, <2>3
  <2>9. IsSeq(stack')
    BY <2>8 DEF IsSeq
  <2>10. \A k \in 1..n : IsFrame(open[k]) /\ Shaped(open[k])
    <3> TAKE k \in 1..n
    <3>1. Waiting(open[k]) /\ open[k].glyph \in Gids
      BY DEF Waiting
    <3>2. Len(font[open[k].glyph].references) \in Nat
      BY <3>1, ReferencesLead
    <3> QED
      BY <3>1, <3>2 DEF Waiting, IsFrame
  <2>11. \A k \in 1..n : Shaped(stack'[k]) /\ IsFrame(stack'[k])
    BY <2>6, <2>7, <2>8, <2>10
  <2>12. \A k \in 1..n : k < n => Waiting(stack'[k])
    BY <2>3, <2>8
  <2>14. StackInv'
    BY <2>8, <2>9, <2>11, <2>12, font' = font DEF StackInv, IsFrame, Waiting
  <2>15. \A k \in 1..n : stack'[k].glyph = open[k].glyph
    BY <2>6, <2>8 DEF f
  <2> QED
    BY <2>1, <2>8, <2>14, <2>15
<1> QED
  BY <1>1, <1>2

\* A call that begins is of its glyph and has met no reference.
LEMMA OpenedIsFrame ==
  ASSUME NEW j \in Gids, NEW tfm, IsFont(font)
  PROVE  Shaped(Opened(j, tfm)) /\ IsFrame(Opened(j, tfm)) /\ Opened(j, tfm).glyph = j
<1>1. PICK box, points, contours :
        Opened(j, tfm) = [glyph |-> j, tfm |-> tfm, next |-> 1, box |-> box, nestDepth |-> 0,
                          nCompositePoints |-> points, nCompositeContours |-> contours]
  BY DEF Opened
<1>2. Len(font[j].references) \in Nat
  BY ReferencesLead
<1> QED
  BY <1>1, <1>2 DEF Shaped, IsFrame

\* A call, made while every open one waits, keeps the invariant, its early returns
\* included: a circle completes the mark of the glyph it closes at, and a call below
\* that depth leaves the marks.
LEMMA CallKeeps ==
  ASSUME NEW j \in Gids, NEW tfm, IInv, at < N, font' = font,
         \A k \in 1..Len(stack) : Waiting(stack[k]),
         Call(j, tfm)
  PROVE  IInv'
<1>1. CASE Len(stack) >= MaxDepth \/ stated[j] = "doing"
  <2>1. Deliver(stack, Blank) /\ stated' \in {stated, [stated EXCEPT ![j] = "completed"]}
    BY <1>1 DEF Call
  <2> DEFINE Kept == /\ StackInv'
                     /\ Len(stack') = Len(stack)
                     /\ \A k \in 1..Len(stack) : stack'[k].glyph = stack[k].glyph
                     /\ DOMAIN stats' = Gids /\ at' \in 0..N
                     /\ stack' # <<>> => at' < N
  <2>2. Kept
    <3>1. IsSeq(stack) /\ Len(stack) <= MaxDepth /\ IsFont(font) /\ at \in 0..N /\ DOMAIN stats = Gids
      BY DEF IInv, WalkInv, StackInv
    <3> QED
      BY <2>1, <3>1, Delivered
  <2>3. stated' \in [Gids -> {"not started", "doing", "completed"}]
    BY <2>1 DEF IInv, WalkInv
  <2>4. \A h \in Gids : stated'[h] = "doing" => stated[h] = "doing"
    BY <2>1 DEF IInv, WalkInv
  <2>5. DoingIsOpen'
    BY <2>2, <2>4 DEF IInv, DoingIsOpen
  <2>6. IsFont(font')
    BY DEF IInv, WalkInv
  <2> QED
    BY <2>2, <2>3, <2>5, <2>6 DEF IInv, WalkInv
<1>2. CASE ~(Len(stack) >= MaxDepth) /\ stated[j] # "doing"
  <2> DEFINE f == Opened(j, tfm)
             n == Len(stack)
  <2>1. /\ stack' = Append(stack, f) /\ stated' = [stated EXCEPT ![j] = "doing"]
        /\ stats' = stats /\ at' = at
    BY <1>2 DEF Call
  <2>2. Shaped(f) /\ IsFrame(f) /\ f.glyph = j
    BY OpenedIsFrame DEF IInv, WalkInv
  <2> HIDE DEF f
  <2>3. PICK S : stack \in Seq(S)
    BY DEF IInv, WalkInv, StackInv, IsSeq
  <2>4. n \in Nat
    BY <2>3
  <2>5. /\ stack' \in Seq(S \cup {f}) /\ Len(stack') = n + 1
        /\ stack'[n + 1] = f /\ \A k \in 1..n : stack'[k] = stack[k]
    BY <2>1, <2>3
  <2>6. \A k \in 1..(n + 1) : Shaped(stack'[k]) /\ IsFrame(stack'[k])
    <3>1. \A k \in 1..n : Shaped(stack[k]) /\ IsFrame(stack[k])
      BY DEF IInv, WalkInv, StackInv
    <3>2. \A k \in 1..(n + 1) : k = n + 1 \/ k \in 1..n
      BY <2>4
    <3> QED
      BY <2>2, <2>5, <3>1, <3>2
  <2>7. \A k \in 1..(n + 1) : k < n + 1 => Waiting(stack'[k])
    BY <2>4, <2>5
  <2>8. n + 1 <= MaxDepth
    BY <1>2, <2>4, DepthIsNat
  <2>9. StackInv'
    BY <2>5, <2>6, <2>7, <2>8, font' = font DEF StackInv, IsSeq, IsFrame, Waiting
  <2>10. stated' \in [Gids -> {"not started", "doing", "completed"}]
    BY <2>1 DEF IInv, WalkInv
  <2>11. DoingIsOpen'
    <3> SUFFICES ASSUME NEW h \in Gids, stated'[h] = "doing"
                 PROVE  \E k \in 1..(n + 1) : stack'[k].glyph = h
      BY <2>5 DEF DoingIsOpen
    <3>1. CASE h = j
      <4>1. stack'[n + 1].glyph = h
        BY <2>2, <2>5, <3>1
      <4> QED
        BY <2>4, <4>1
    <3>2. CASE h # j
      <4>1. stated[h] = "doing"
        BY <2>1, <3>2 DEF IInv, WalkInv
      <4>2. PICK k \in 1..n : stack[k].glyph = h
        BY <4>1 DEF IInv, DoingIsOpen
      <4>3. k \in 1..(n + 1) /\ stack'[k].glyph = h
        BY <2>4, <2>5, <4>2
      <4> QED
        BY <4>3
    <3> QED
      BY <3>1, <3>2
  <2>12. IsFont(font') /\ at' \in 0..N /\ DOMAIN stats' = Gids /\ at' < N
    BY <2>1 DEF IInv, WalkInv
  <2> QED
    BY <2>9, <2>10, <2>11, <2>12 DEF IInv, WalkInv
<1> QED
  BY <1>1, <1>2

\* The start of the walk: nothing is marked, no call is open.
LEMMA InitIInv == Init => IInv
<1> SUFFICES ASSUME Init PROVE IInv
  OBVIOUS
<1>1. stack = <<>>
  BY DEF Init
<1>2. StackInv
  <2>1. <<>> \in Seq({}) /\ Len(<<>>) = 0
    OBVIOUS
  <2>2. IsSeq(stack) /\ Len(stack) = 0
    BY <1>1, <2>1 DEF IsSeq
  <2> QED
    BY <2>2, DepthIsNat DEF StackInv
<1>3. IsFont(font)
  BY FontsAreFonts DEF Init
<1>4. at \in 0..N /\ DOMAIN stats = Gids /\ stated \in [Gids -> {"not started", "doing", "completed"}]
  <2>1. at = 0 /\ stats = [j \in Gids |-> Blank] /\ stated = [j \in Gids |-> "not started"]
    BY DEF Init
  <2>2. 0 \in 0..N
    BY NIsNat
  <2> HIDE DEF Gids, Blank
  <2> QED
    BY <2>1, <2>2
<1>5. DoingIsOpen
  BY DEF Init, DoingIsOpen
<1> QED
  BY <1>1, <1>2, <1>3, <1>4, <1>5 DEF IInv, WalkInv

\* Every step keeps the invariant.
LEMMA NextIInv == IInv /\ [Next]_vars => IInv'
<1> SUFFICES ASSUME IInv, [Next]_vars PROVE IInv'
  OBVIOUS
<1>1. CASE Begin
  <2>1. stack = <<>> /\ at < N /\ Call(at, Identity) /\ font' = font
    BY <1>1 DEF Begin
  <2>2. at \in Gids
    <3>1. at \in 0..N
      BY DEF IInv, WalkInv
    <3> QED
      BY <2>1, <3>1, NIsNat DEF Gids
  <2>3. \A k \in 1..Len(stack) : Waiting(stack[k])
    BY <2>1
  <2> QED
    BY <2>1, <2>2, <2>3, CallKeeps
<1>2. CASE Refer
  <2> DEFINE n == Len(stack)
             r == TopReferences[Top.next]
  <2>1. stack # <<>> /\ Top.next <= Len(TopReferences) /\ font' = font
        /\ Call(r.to, Composite(Top.tfm, r))
    BY <1>2 DEF Refer
  <2>2. n \in Nat /\ n > 0
    <3>1. PICK S : stack \in Seq(S)
      BY DEF IInv, WalkInv, StackInv, IsSeq
    <3> QED
      BY <2>1, <3>1
  <2>3. Shaped(Top) /\ IsFrame(Top)
    <3>1. \A k \in 1..n : Shaped(stack[k]) /\ IsFrame(stack[k])
      BY DEF IInv, WalkInv, StackInv
    <3> QED
      BY <2>2, <3>1 DEF Top
  <2>4. Waiting(Top)
    <3>1. Len(font[Top.glyph].references) \in Nat
      BY <2>3, ReferencesLead DEF IInv, WalkInv, IsFrame
    <3> QED
      BY <2>1, <2>3, <3>1 DEF IsFrame, Waiting, TopReferences
  <2>5. \A k \in 1..n : Waiting(stack[k])
    <3>1. \A k \in 1..n : k < n => Waiting(stack[k])
      BY DEF IInv, WalkInv, StackInv
    <3> QED
      BY <2>2, <2>4, <3>1 DEF Top
  <2>6. r.to \in Gids
    BY <2>4, ReferencesLead DEF IInv, WalkInv, Waiting, TopReferences
  <2>7. at < N
    BY <2>1 DEF IInv, WalkInv
  <2> HIDE DEF r
  <2> QED
    BY <2>1, <2>5, <2>6, <2>7, CallKeeps
<1>3. CASE Return
  <2> DEFINE n == Len(stack)
             open == SubSeq(stack, 1, n - 1)
  <2>1. /\ stack # <<>> /\ font' = font
        /\ stated' = [stated EXCEPT ![Top.glyph] = "completed"]
        /\ Deliver(open, StatOf(Top))
    BY <1>3 DEF Return, Completed
  <2>2. PICK S : stack \in Seq(S)
    BY DEF IInv, WalkInv, StackInv, IsSeq
  <2>3. n \in Nat /\ n > 0
    BY <2>1, <2>2
  <2>4. open \in Seq(S) /\ Len(open) = n - 1 /\ \A k \in 1..(n - 1) : open[k] = stack[k]
    <3>1. n - 1 \in Nat /\ n - 1 <= n
      BY <2>3
    <3>2. open = [k \in 1..(n - 1) |-> stack[k]] /\ \A k \in 1..(n - 1) : stack[k] \in S
      BY <2>2, <3>1, ElementOf
    <3> HIDE DEF open
    <3> QED
      BY <3>1, <3>2
  <2> HIDE DEF open
  <2>5. \A k \in 1..Len(open) : Waiting(open[k])
    <3>1. \A k \in 1..n : k < n => Waiting(stack[k])
      BY DEF IInv, WalkInv, StackInv
    <3> QED
      BY <2>3, <2>4, <3>1
  <2>6. IsSeq(open) /\ Len(open) <= MaxDepth
    <3>1. n <= MaxDepth
      BY DEF IInv, WalkInv, StackInv
    <3> QED
      BY <2>3, <2>4, <3>1, DepthIsNat DEF IsSeq
  <2>7. IsFont(font) /\ at \in 0..N /\ at < N /\ DOMAIN stats = Gids
    BY <2>1 DEF IInv, WalkInv
  <2>8. /\ StackInv' /\ Len(stack') = Len(open)
        /\ \A k \in 1..Len(open) : stack'[k].glyph = open[k].glyph
        /\ DOMAIN stats' = Gids /\ at' \in 0..N
        /\ stack' # <<>> => at' < N
    BY <2>1, <2>5, <2>6, <2>7, Delivered
  <2>9. DoingIsOpen'
    <3> SUFFICES ASSUME NEW h \in Gids, stated'[h] = "doing"
                 PROVE  \E k \in 1..(n - 1) : stack'[k].glyph = h
      BY <2>4, <2>8 DEF DoingIsOpen
    <3>1. h # Top.glyph /\ stated[h] = "doing"
      BY <2>1 DEF IInv, WalkInv
    <3>2. PICK k \in 1..n : stack[k].glyph = h
      BY <3>1 DEF IInv, DoingIsOpen
    <3>3. k \in 1..(n - 1)
      BY <2>3, <3>1, <3>2 DEF Top
    <3> QED
      BY <2>4, <2>8, <3>2, <3>3
  <2>10. stated' \in [Gids -> {"not started", "doing", "completed"}] /\ IsFont(font')
    BY <2>1 DEF IInv, WalkInv
  <2> QED
    BY <2>8, <2>9, <2>10 DEF IInv, WalkInv
<1>4. CASE UNCHANGED <<font, at, stated, stack, stats>>
  BY <1>4 DEF IInv, WalkInv, StackInv, DoingIsOpen, IsFrame, Waiting
<1>5. (Finish \/ Done \/ UNCHANGED vars) => UNCHANGED <<font, at, stated, stack, stats>>
  BY DEF Finish, Done, vars
<1> QED
  BY <1>1, <1>2, <1>3, <1>4, <1>5 DEF Next

\* The invariant gives what the runs check.
LEMMA IInvGives == IInv => TypeOK /\ DoingIsOpen
  BY DEF IInv, WalkInv, StackInv, TypeOK

\* The walk of the references keeps its bounds, whatever the font: the stack within the
\* depth, and no call past the references of its glyph (stat.c:12-95).
THEOREM Typed == Spec => []TypeOK
<1> QED
  BY InitIInv, NextIInv, IInvGives, PTL DEF Spec

\* A glyph stays marked as being measured only while a call for it is open (stat.c:18-28
\* and 93), for every font, its circles of any length: a later walk drops no reference
\* for a mark left behind.
THEOREM NoMarkLeft == Spec => []DoingIsOpen
<1> QED
  BY InitIInv, NextIInv, IInvGives, PTL DEF Spec

-----------------------------------------------------------------------------
(* Sequences of sequences, joined. *)

\* What the recursion of Flat comes to.
Joins(j, s) == j[0] = <<>> /\ \A k \in 0..(Len(s) - 1) : j[k + 1] = j[k] \o s[k + 1]

\* The recursion of Flat has a solution, which is typed and is what Flat takes its value
\* from.
LEMMA FlatJoins ==
  ASSUME NEW S, NEW s \in Seq(Seq(S))
  PROVE  \E j \in [0..Len(s) -> Seq(S)] : Joins(j, s) /\ Flat(s) = j[Len(s)]
<1> DEFINE n == Len(s)
           R == Seq(S)
           Body(f) == [k \in 0..n |-> IF k = 0 THEN <<>> ELSE f[k - 1] \o s[k]]
           joined == CHOOSE f : f = Body(f)
           step == [p \in (1..n) \X R |-> p[2] \o s[p[1]]]
<1>1. Flat(s) = joined[n]
  BY DEF Flat
<1>2. n \in Nat /\ \A k \in 1..n : s[k] \in R
  BY ElementOfSeq, LenProperties
<1>3. <<>> \in R /\ \A r \in R, t \in R : r \o t \in R
  BY EmptySeq, ConcatProperties
<1> HIDE DEF n, R
<1>4. step \in [(1..n) \X R -> R]
  BY <1>2, <1>3
<1>5. PICK f \in [0..n -> R] : f[0] = <<>> /\ \A k \in 1..n : f[k] = step[<<k, f[k - 1]>>]
  <2> DEFINE base == <<>>
  <2>1. base \in R
    BY <1>3
  <2> HIDE DEF step, base
  <2>2. ClimbsTo(n, R, base, step)
    BY <1>2, <1>4, <2>1, ChainSolves
  <2> QED BY <2>2 DEF ClimbsTo, base
<1>6. \A k \in 0..n : k # 0 => k \in 1..n /\ k - 1 \in 0..n
  BY <1>2
<1>7. \A k \in 0..n : f[k] = IF k = 0 THEN <<>> ELSE f[k - 1] \o s[k]
  BY <1>5, <1>6
<1>8. f = Body(f)
  BY <1>7
<1>9. joined = Body(joined)
  <2> HIDE DEF Body
  <2> QED BY <1>8
<1> HIDE DEF joined
<1>10. \A k \in 0..n : joined[k] = IF k = 0 THEN <<>> ELSE joined[k - 1] \o s[k]
  BY <1>9
<1>11. joined[0] = <<>> /\ \A k \in 0..(n - 1) : joined[k + 1] = joined[k] \o s[k + 1]
  <2>1. joined[0] = <<>>
    BY <1>2, <1>10
  <2>2. ASSUME NEW k \in 0..(n - 1) PROVE joined[k + 1] = joined[k] \o s[k + 1]
    <3> DEFINE m == k + 1
    <3>1. m \in 0..n /\ m # 0 /\ m - 1 = k
      BY <1>2
    <3> HIDE DEF m
    <3>2. joined[m] = joined[m - 1] \o s[m]
      BY <1>10, <3>1
    <3>3. joined[m] = joined[k] \o s[m]
      BY <3>1, <3>2
    <3> QED BY <3>3 DEF m
  <2> QED BY <2>1, <2>2
<1>12. 0..n \subseteq {k \in 0..n : joined[k] \in R}
  <2> DEFINE G == {k \in 0..n : joined[k] \in R}
  <2>1. 0 \in G
    BY <1>2, <1>3, <1>11
  <2>2. \A k \in 0..(n - 1) : k \in G => k + 1 \in G
    <3> SUFFICES ASSUME NEW k \in 0..(n - 1), k \in G PROVE k + 1 \in G
      OBVIOUS
    <3>1. k + 1 \in 1..n /\ k + 1 \in 0..n
      BY <1>2
    <3>2. joined[k + 1] = joined[k] \o s[k + 1]
      BY <1>11
    <3> QED BY <1>2, <1>3, <3>1, <3>2
  <2> HIDE DEF G
  <2> QED
    <3>1. 0..n \subseteq G
      BY <1>2, <2>1, <2>2, InductionUpTo
    <3> QED BY <3>1 DEF G
<1>13. joined \in [0..n -> R]
  BY <1>9, <1>12
<1> QED BY <1>1, <1>11, <1>13 DEF Joins, n, R

\* Nothing joined is nothing; joined sequences are of the same elements.
LEMMA FlatIsSeq ==
  ASSUME NEW S, NEW s \in Seq(Seq(S))
  PROVE  Flat(s) \in Seq(S)
<1>1. PICK j \in [0..Len(s) -> Seq(S)] : Joins(j, s) /\ Flat(s) = j[Len(s)]
  BY FlatJoins
<1> QED BY <1>1, LenProperties

\* Nothing joined is nothing.
LEMMA FlatNone == Flat(<<>>) = <<>>
<1>1. <<>> \in Seq(Seq({})) /\ Len(<<>>) = 0
  OBVIOUS
<1>2. PICK j \in [0..0 -> Seq({})] : Joins(j, <<>>) /\ Flat(<<>>) = j[0]
  BY <1>1, FlatJoins
<1> QED BY <1>2 DEF Joins

\* A sequence more is joined at the end.
LEMMA FlatAppend ==
  ASSUME NEW S, NEW s \in Seq(Seq(S)), NEW e \in Seq(S)
  PROVE  Flat(Append(s, e)) = Flat(s) \o e
<1> DEFINE n == Len(s)
           t == Append(s, e)
<1>1. /\ n \in Nat /\ t \in Seq(Seq(S)) /\ Len(t) = n + 1
      /\ t[n + 1] = e /\ \A k \in 1..n : t[k] = s[k]
  <2> DEFINE Q == Seq(S)
  <2> HIDE DEF Q
  <2>1. s \in Seq(Q) /\ e \in Q
    BY DEF Q
  <2>2. /\ n \in Nat /\ t \in Seq(Q) /\ Len(t) = n + 1
        /\ t[n + 1] = e /\ \A k \in 1..n : t[k] = s[k]
    BY <2>1
  <2> QED BY <2>2 DEF Q
<1> HIDE DEF n, t
<1>2. PICK j \in [0..n -> Seq(S)] : Joins(j, s) /\ Flat(s) = j[n]
  BY FlatJoins DEF n
<1>3. PICK i \in [0..(n + 1) -> Seq(S)] : Joins(i, t) /\ Flat(t) = i[n + 1]
  BY <1>1, FlatJoins
<1> DEFINE G == {k \in 0..n : i[k] = j[k]}
<1>4. 0 \in G
  BY <1>1, <1>2, <1>3 DEF Joins
<1>5. \A k \in 0..(n - 1) : k \in G => k + 1 \in G
  <2> SUFFICES ASSUME NEW k \in 0..(n - 1), k \in G PROVE k + 1 \in G
    OBVIOUS
  <2>1. k + 1 \in 1..n /\ k + 1 \in 0..n /\ k \in 0..(Len(t) - 1)
    BY <1>1
  <2>2. j[k + 1] = j[k] \o s[k + 1]
    BY <1>2, <2>1 DEF Joins, n
  <2>3. i[k + 1] = i[k] \o t[k + 1]
    BY <1>1, <1>3, <2>1 DEF Joins
  <2> QED BY <1>1, <2>1, <2>2, <2>3
<1>6. n \in G
  <2> HIDE DEF G
  <2>1. 0..n \subseteq G
    BY <1>1, <1>4, <1>5, InductionUpTo
  <2> QED BY <1>1, <2>1
<1>7. i[n + 1] = i[n] \o e
  <2>1. n \in 0..(Len(t) - 1)
    BY <1>1
  <2> QED BY <1>1, <1>3, <2>1 DEF Joins
<1> QED BY <1>2, <1>3, <1>6, <1>7 DEF t

\* Joining goes through a concatenation.
LEMMA FlatConcat ==
  ASSUME NEW S, NEW s \in Seq(Seq(S)), NEW t \in Seq(Seq(S))
  PROVE  Flat(s \o t) = Flat(s) \o Flat(t)
<1> DEFINE Q == Seq(S)
           G == {u \in Seq(Q) : Flat(s \o u) = Flat(s) \o Flat(u)}
<1>1. <<>> \in G
  <2>1. <<>> \in Seq(Q) /\ s \o <<>> = s
    BY EmptySeq, ConcatEmptySeq
  <2>2. Flat(s) \o <<>> = Flat(s)
    BY FlatIsSeq, ConcatEmptySeq
  <2> QED BY <2>1, <2>2, FlatNone
<1>2. ASSUME NEW u \in Seq(Q), NEW e \in Q, u \in G
      PROVE  Append(u, e) \in G
  <2>1. s \o u \in Seq(Q) /\ Append(u, e) \in Seq(Q) /\ s \o Append(u, e) = Append(s \o u, e)
    <3> HIDE DEF Q
    <3>1. s \in Seq(Q)
      BY DEF Q
    <3> QED BY <3>1
  <2>2. Flat(Append(s \o u, e)) = Flat(s \o u) \o e
    BY <2>1, FlatAppend
  <2>3. Flat(Append(u, e)) = Flat(u) \o e
    BY FlatAppend
  <2>4. (Flat(s) \o Flat(u)) \o e = Flat(s) \o (Flat(u) \o e)
    <3> DEFINE a == Flat(s)
               b == Flat(u)
    <3>1. a \in Seq(S) /\ b \in Seq(S) /\ e \in Seq(S)
      BY FlatIsSeq
    <3> HIDE DEF a, b
    <3>2. (a \o b) \o e = a \o (b \o e)
      BY ONLY <3>1, ConcatAssociative
    <3> QED BY <3>2 DEF a, b
  <2> QED BY <1>2, <2>1, <2>2, <2>3, <2>4
<1>3. Seq(Q) \subseteq G
  <2> HIDE DEF G, Q
  <2> QED BY <1>1, <1>2, InductionOnSequences
<1> QED BY <1>3

(* Boxes: a box is the least and the largest coordinate met. *)

Box == [min : Int, max : Int]
Transformation == [a : Int, x : Int]

\* A box that a walk may have come to: it started from Nowhere.
InReach(b) == b \in Box /\ b.min <= Far /\ b.max >= -Far

\* Where a transformation puts a point, as a box.
Spot(t, p) == [min |-> t.x + t.a * p, max |-> t.x + t.a * p]

\* A point is moved to a box of one point.
LEMMA SpotIsBox ==
  ASSUME NEW t \in Transformation, NEW p \in Int
  PROVE  Spot(t, p) \in Box
<1>1. t.x + t.a * p \in Int
  BY DEF Transformation
<1> QED BY <1>1 DEF Spot, Box

\* Boxes unite in any order and grouping; Nowhere adds nothing.
LEMMA UnionOfBoxes ==
  ASSUME NEW b \in Box, NEW c \in Box
  PROVE  /\ Union(b, c) \in Box
         /\ InReach(b) => InReach(Union(b, c))
         /\ InReach(b) => Union(b, Nowhere) = b
  BY FarIsNat DEF Box, Union, Larger, InReach, Nowhere

\* Boxes may be grouped in any way when they are united.
LEMMA UnionAssociates ==
  ASSUME NEW b \in Box, NEW c \in Box, NEW d \in Box
  PROVE  Union(Union(b, c), d) = Union(b, Union(c, d))
  BY DEF Box, Union, Larger

\* What the recursion of BoxOf comes to.
Spans(b, points, t) ==
  b[0] = Nowhere /\ \A k \in 0..(Len(points) - 1) : b[k + 1] = Union(b[k], Spot(t, points[k + 1]))

\* A walk starts with a box within reach.
LEMMA NowhereIsBox == Nowhere \in Box /\ InReach(Nowhere)
  BY FarIsNat DEF Nowhere, Box, InReach

\* The recursion of BoxOf has a solution, which is typed and is what BoxOf takes its value
\* from.
LEMMA BoxSpans ==
  ASSUME NEW points \in Seq(Int), NEW t \in Transformation
  PROVE  \E b \in [0..Len(points) -> Box] :
           Spans(b, points, t) /\ BoxOf(points, t) = b[Len(points)]
<1> DEFINE n == Len(points)
           Body(f) == [k \in 0..n |-> IF k = 0 THEN Nowhere
                                      ELSE LET p == t.x + t.a * points[k]
                                           IN Union(f[k - 1], [min |-> p, max |-> p])]
           box == CHOOSE f : f = Body(f)
           step == [p \in (1..n) \X Box |-> Union(p[2], Spot(t, points[p[1]]))]
<1>1. BoxOf(points, t) = box[n]
  BY DEF BoxOf
<1>2. n \in Nat /\ \A k \in 1..n : points[k] \in Int
  BY ElementOfSeq, LenProperties
<1> HIDE DEF n
<1>3. \A k \in 1..n : Spot(t, points[k]) \in Box
  BY <1>2, SpotIsBox
<1>4. step \in [(1..n) \X Box -> Box]
  BY <1>3, UnionOfBoxes
<1>5. PICK f \in [0..n -> Box] :
        f[0] = Nowhere /\ \A k \in 1..n : f[k] = step[<<k, f[k - 1]>>]
  <2> HIDE DEF step
  <2>1. ClimbsTo(n, Box, Nowhere, step)
    BY <1>2, <1>4, NowhereIsBox, ChainSolves
  <2> QED BY <2>1 DEF ClimbsTo
<1>6. \A k \in 0..n : k # 0 => k \in 1..n /\ k - 1 \in 0..n
  BY <1>2
<1>7. \A k \in 0..n : f[k] = IF k = 0 THEN Nowhere ELSE Union(f[k - 1], Spot(t, points[k]))
  BY <1>5, <1>6
<1>8. f = Body(f)
  BY <1>7 DEF Spot
<1>9. box = Body(box)
  <2> HIDE DEF Body
  <2> QED BY <1>8
<1> HIDE DEF box
<1>10. \A k \in 0..n : box[k] = IF k = 0 THEN Nowhere ELSE Union(box[k - 1], Spot(t, points[k]))
  BY <1>9 DEF Spot
<1>11. box[0] = Nowhere /\ \A k \in 0..(n - 1) : box[k + 1] = Union(box[k], Spot(t, points[k + 1]))
  <2>1. box[0] = Nowhere
    BY <1>2, <1>10
  <2>2. ASSUME NEW k \in 0..(n - 1) PROVE box[k + 1] = Union(box[k], Spot(t, points[k + 1]))
    <3> DEFINE m == k + 1
    <3>1. m \in 0..n /\ m # 0 /\ m - 1 = k
      BY <1>2
    <3> HIDE DEF m
    <3>2. box[m] = Union(box[m - 1], Spot(t, points[m]))
      BY <1>10, <3>1
    <3>3. box[m] = Union(box[k], Spot(t, points[m]))
      BY <3>1, <3>2
    <3> QED BY <3>3 DEF m
  <2> QED BY <2>1, <2>2
<1> DEFINE G == {k \in 0..n : box[k] \in Box}
<1>12. 0 \in G
  BY <1>2, <1>11, NowhereIsBox
<1>13. \A k \in 0..(n - 1) : k \in G => k + 1 \in G
  <2> SUFFICES ASSUME NEW k \in 0..(n - 1), k \in G PROVE k + 1 \in G
    OBVIOUS
  <2>1. k + 1 \in 1..n /\ k + 1 \in 0..n
    BY <1>2
  <2>2. box[k + 1] = Union(box[k], Spot(t, points[k + 1]))
    BY <1>11
  <2> QED BY <1>3, <2>1, <2>2, UnionOfBoxes
<1>14. 0..n \subseteq G
  <2> HIDE DEF G
  <2> QED BY <1>2, <1>12, <1>13, InductionUpTo
<1>15. box \in [0..n -> Box]
  BY <1>9, <1>14
<1> QED BY <1>1, <1>11, <1>15 DEF Spans, n

\* No points, no place.
LEMMA BoxNone ==
  ASSUME NEW t \in Transformation
  PROVE  BoxOf(<<>>, t) = Nowhere
<1>1. <<>> \in Seq(Int) /\ Len(<<>>) = 0
  OBVIOUS
<1>2. PICK b \in [0..0 -> Box] : Spans(b, <<>>, t) /\ BoxOf(<<>>, t) = b[0]
  BY <1>1, BoxSpans
<1> QED BY <1>2 DEF Spans

\* A point more is one more box to unite with.
LEMMA BoxAppend ==
  ASSUME NEW s \in Seq(Int), NEW e \in Int, NEW t \in Transformation
  PROVE  BoxOf(Append(s, e), t) = Union(BoxOf(s, t), Spot(t, e))
<1> DEFINE n == Len(s)
           u == Append(s, e)
<1>1. /\ n \in Nat /\ u \in Seq(Int) /\ Len(u) = n + 1
      /\ u[n + 1] = e /\ \A k \in 1..n : u[k] = s[k]
  OBVIOUS
<1> HIDE DEF n, u
<1>2. PICK b \in [0..n -> Box] : Spans(b, s, t) /\ BoxOf(s, t) = b[n]
  BY BoxSpans DEF n
<1>3. PICK c \in [0..(n + 1) -> Box] : Spans(c, u, t) /\ BoxOf(u, t) = c[n + 1]
  BY <1>1, BoxSpans
<1> DEFINE G == {k \in 0..n : c[k] = b[k]}
<1>4. 0 \in G
  BY <1>1, <1>2, <1>3 DEF Spans
<1>5. \A k \in 0..(n - 1) : k \in G => k + 1 \in G
  <2> SUFFICES ASSUME NEW k \in 0..(n - 1), k \in G PROVE k + 1 \in G
    OBVIOUS
  <2>1. k + 1 \in 1..n /\ k + 1 \in 0..n /\ k \in 0..(Len(u) - 1)
    BY <1>1
  <2>2. b[k + 1] = Union(b[k], Spot(t, s[k + 1]))
    BY <1>2, <2>1 DEF Spans, n
  <2>3. c[k + 1] = Union(c[k], Spot(t, u[k + 1]))
    BY <1>1, <1>3, <2>1 DEF Spans
  <2> QED BY <1>1, <2>1, <2>2, <2>3
<1>6. n \in G
  <2> HIDE DEF G
  <2>1. 0..n \subseteq G
    BY <1>1, <1>4, <1>5, InductionUpTo
  <2> QED BY <1>1, <2>1
<1>7. c[n + 1] = Union(c[n], Spot(t, e))
  <2>1. n \in 0..(Len(u) - 1)
    BY <1>1
  <2> QED BY <1>1, <1>3, <2>1 DEF Spans
<1> QED BY <1>2, <1>3, <1>6, <1>7 DEF u

\* Boxes of points are within reach of where a walk starts.
LEMMA BoxInReach ==
  ASSUME NEW s \in Seq(Int), NEW t \in Transformation
  PROVE  InReach(BoxOf(s, t))
<1> DEFINE G == {u \in Seq(Int) : InReach(BoxOf(u, t))}
<1>1. <<>> \in G
  BY BoxNone, NowhereIsBox
<1>2. ASSUME NEW u \in Seq(Int), NEW e \in Int, u \in G
      PROVE  Append(u, e) \in G
  <2>1. BoxOf(Append(u, e), t) = Union(BoxOf(u, t), Spot(t, e))
    BY BoxAppend
  <2>2. InReach(BoxOf(u, t)) /\ BoxOf(u, t) \in Box
    BY <1>2 DEF InReach
  <2>3. Append(u, e) \in Seq(Int)
    OBVIOUS
  <2> QED BY <2>1, <2>2, <2>3, SpotIsBox, UnionOfBoxes
<1>3. Seq(Int) \subseteq G
  <2> HIDE DEF G
  <2> QED BY <1>1, <1>2, InductionOnSequences
<1> QED BY <1>3

\* The box of points and more points is the union of their boxes.
LEMMA BoxConcat ==
  ASSUME NEW s \in Seq(Int), NEW u \in Seq(Int), NEW t \in Transformation
  PROVE  BoxOf(s \o u, t) = Union(BoxOf(s, t), BoxOf(u, t))
<1> DEFINE G == {v \in Seq(Int) : BoxOf(s \o v, t) = Union(BoxOf(s, t), BoxOf(v, t))}
<1>0. \A v \in Seq(Int) : InReach(BoxOf(v, t)) /\ BoxOf(v, t) \in Box
  BY BoxInReach DEF InReach
<1>1. <<>> \in G
  <2>1. s \o <<>> = s /\ <<>> \in Seq(Int)
    BY EmptySeq, ConcatEmptySeq
  <2> QED BY <1>0, <2>1, BoxNone, UnionOfBoxes, NowhereIsBox
<1>2. ASSUME NEW v \in Seq(Int), NEW e \in Int, v \in G
      PROVE  Append(v, e) \in G
  <2>1. s \o v \in Seq(Int) /\ Append(v, e) \in Seq(Int) /\ s \o Append(v, e) = Append(s \o v, e)
    OBVIOUS
  <2>2. BoxOf(Append(s \o v, e), t) = Union(BoxOf(s \o v, t), Spot(t, e))
    BY <2>1, BoxAppend
  <2>3. BoxOf(Append(v, e), t) = Union(BoxOf(v, t), Spot(t, e))
    BY BoxAppend
  <2>4. Union(Union(BoxOf(s, t), BoxOf(v, t)), Spot(t, e))
          = Union(BoxOf(s, t), Union(BoxOf(v, t), Spot(t, e)))
    BY <1>0, SpotIsBox, UnionAssociates
  <2> QED BY <1>2, <2>1, <2>2, <2>3, <2>4
<1>3. Seq(Int) \subseteq G
  <2> HIDE DEF G
  <2> QED BY <1>1, <1>2, InductionOnSequences
<1> QED BY <1>3

\* A box holds its points, so that it is a proper one when there are any.
LEMMA BoxHolds ==
  ASSUME NEW s \in Seq(Int), NEW t \in Transformation
  PROVE  /\ \A k \in 1..Len(s) : BoxOf(s, t).min <= t.x + t.a * s[k] /\ t.x + t.a * s[k] <= BoxOf(s, t).max
         /\ s # <<>> => BoxOf(s, t).min <= BoxOf(s, t).max
<1> DEFINE Holds(v) == \A k \in 1..Len(v) : /\ BoxOf(v, t).min <= Spot(t, v[k]).min
                                            /\ Spot(t, v[k]).max <= BoxOf(v, t).max
           G == {v \in Seq(Int) : Holds(v)}
<1>0. \A v \in Seq(Int) : BoxOf(v, t) \in Box
  BY BoxInReach DEF InReach
<1>1. <<>> \in G
  OBVIOUS
<1>2. ASSUME NEW v \in Seq(Int), NEW e \in Int, v \in G
      PROVE  Append(v, e) \in G
  <2> DEFINE n == Len(v)
             w == Append(v, e)
             b == BoxOf(v, t)
             c == BoxOf(w, t)
  <2>1. /\ n \in Nat /\ w \in Seq(Int) /\ Len(w) = n + 1
        /\ w[n + 1] = e /\ \A k \in 1..n : w[k] = v[k] /\ v[k] \in Int
    BY ElementOfSeq
  <2>2. c = Union(b, Spot(t, e)) /\ b \in Box /\ Spot(t, e) \in Box
    BY <1>0, SpotIsBox, BoxAppend
  <2>3. \A k \in 1..n : b.min <= Spot(t, v[k]).min /\ Spot(t, v[k]).max <= b.max
    BY <1>2
  <2>4. \A k \in 1..n : Spot(t, v[k]) \in Box
    BY <2>1, SpotIsBox
  <2> HIDE DEF n, w, b, c
  <2>5. c.min <= Spot(t, e).min /\ Spot(t, e).max <= c.max /\ c.min <= b.min /\ b.max <= c.max
        /\ c.min \in Int /\ c.max \in Int
    BY <2>2 DEF Union, Larger, Box
  <2>6. \A k \in 1..n : c.min <= Spot(t, v[k]).min /\ Spot(t, v[k]).max <= c.max
    BY <2>2, <2>3, <2>4, <2>5 DEF Box
  <2>7. \A k \in 1..(n + 1) : k = n + 1 \/ k \in 1..n
    BY <2>1
  <2>8. \A k \in 1..Len(w) : c.min <= Spot(t, w[k]).min /\ Spot(t, w[k]).max <= c.max
    BY <2>1, <2>5, <2>6, <2>7
  <2> QED BY <2>1, <2>8 DEF c, w
<1>3. Seq(Int) \subseteq G
  <2> HIDE DEF G
  <2> QED BY <1>1, <1>2, InductionOnSequences
<1>4. \A k \in 1..Len(s) : BoxOf(s, t).min <= t.x + t.a * s[k] /\ t.x + t.a * s[k] <= BoxOf(s, t).max
  BY <1>3 DEF Spot
<1>5. ASSUME s # <<>> PROVE BoxOf(s, t).min <= BoxOf(s, t).max
  <2>1. 1 \in 1..Len(s) /\ s[1] \in Int
    BY <1>5, ElementOfSeq
  <2>2. t.x + t.a * s[1] \in Int
    BY <2>1 DEF Transformation
  <2>3. BoxOf(s, t).min \in Int /\ BoxOf(s, t).max \in Int
    BY <1>0 DEF Box
  <2> DEFINE v == t.x + t.a * s[1]
  <2>4. v \in Int /\ BoxOf(s, t).min <= v /\ v <= BoxOf(s, t).max
    BY <1>4, <2>1, <2>2
  <2> HIDE DEF v
  <2> QED BY <2>3, <2>4
<1> QED BY <1>4, <1>5

-----------------------------------------------------------------------------
(* What a reference draws. *)

\* Points, and contours, where a reference puts them.
Moved(r, points) == [p \in 1..Len(points) |-> r.x + r.a * points[p]]
Part(r, contours) == [c \in 1..Len(contours) |-> Moved(r, contours[c])]

\* Moving points leaves how many there are.
LEMMA MovedPoints ==
  ASSUME NEW r \in Transformation, NEW s \in Seq(Int)
  PROVE  Moved(r, s) \in Seq(Int) /\ Len(Moved(r, s)) = Len(s)
<1>1. Len(s) \in Nat /\ \A p \in 1..Len(s) : r.x + r.a * s[p] \in Int
  BY ElementOfSeq DEF Transformation
<1> QED BY <1>1 DEF Moved

\* Points are moved one by one.
LEMMA MovedAppend ==
  ASSUME NEW r \in Transformation, NEW s \in Seq(Int), NEW e \in Int
  PROVE  Moved(r, Append(s, e)) = Append(Moved(r, s), r.x + r.a * e)
<1> DEFINE n == Len(s)
           u == Append(s, e)
           v == r.x + r.a * e
           m == Moved(r, s)
           w == Moved(r, u)
<1>1. /\ n \in Nat /\ u \in Seq(Int) /\ Len(u) = n + 1
      /\ u[n + 1] = e /\ \A k \in 1..n : u[k] = s[k]
  OBVIOUS
<1>2. v \in Int
  BY DEF Transformation
<1>3. m \in Seq(Int) /\ Len(m) = n /\ w \in Seq(Int) /\ Len(w) = n + 1
  BY <1>1, MovedPoints
<1>4. \A k \in 1..n : m[k] = r.x + r.a * s[k]
  BY DEF Moved
<1>5. \A k \in 1..(n + 1) : w[k] = r.x + r.a * u[k]
  BY <1>1 DEF Moved
<1>6. \A k \in 1..n : w[k] = m[k]
  BY <1>1, <1>4, <1>5
<1>7. w[n + 1] = v
  BY <1>1, <1>5
<1> HIDE DEF m, w, v, u, n
<1>8. Append(m, v) \in Seq(Int) /\ Len(Append(m, v)) = Len(w)
  BY <1>2, <1>3
<1>9. \A k \in 1..Len(w) : w[k] = Append(m, v)[k]
  BY <1>1, <1>2, <1>3, <1>6, <1>7
<1>10. w = Append(m, v)
  <2> DEFINE q == Append(m, v)
  <2> HIDE DEF q
  <2>1. w = q
    BY <1>3, <1>8, <1>9, SeqEqual DEF q
  <2> QED BY <2>1 DEF q
<1> QED BY <1>10 DEF w, m, v, u

\* Points moved together are moved each on its own.
LEMMA MovedConcat ==
  ASSUME NEW r \in Transformation, NEW s \in Seq(Int), NEW u \in Seq(Int)
  PROVE  Moved(r, s \o u) = Moved(r, s) \o Moved(r, u)
<1> DEFINE a == Moved(r, s)
           b == Moved(r, u)
           c == Moved(r, s \o u)
<1>1. /\ s \o u \in Seq(Int) /\ Len(s \o u) = Len(s) + Len(u) /\ Len(s) \in Nat /\ Len(u) \in Nat
      /\ \A i \in 1..(Len(s) + Len(u)) : (s \o u)[i] = IF i <= Len(s) THEN s[i] ELSE u[i - Len(s)]
  BY ConcatProperties, LenProperties
<1>2. /\ a \in Seq(Int) /\ Len(a) = Len(s) /\ b \in Seq(Int) /\ Len(b) = Len(u)
      /\ c \in Seq(Int) /\ Len(c) = Len(s) + Len(u)
  BY <1>1, MovedPoints
<1>3. /\ \A i \in 1..Len(s) : a[i] = r.x + r.a * s[i]
      /\ \A i \in 1..Len(u) : b[i] = r.x + r.a * u[i]
      /\ \A i \in 1..(Len(s) + Len(u)) : c[i] = r.x + r.a * (s \o u)[i]
  BY <1>1 DEF Moved
<1>4. ASSUME NEW i \in 1..(Len(s) + Len(u)) PROVE c[i] = IF i <= Len(s) THEN a[i] ELSE b[i - Len(s)]
  <2>1. CASE i <= Len(s)
    BY <1>1, <1>3, <2>1
  <2>2. CASE ~(i <= Len(s))
    <3> DEFINE k == i - Len(s)
    <3>1. k \in 1..Len(u)
      BY <1>1, <2>2
    <3>2. (s \o u)[i] = u[k]
      BY <1>1, <2>2
    <3> HIDE DEF k
    <3>3. c[i] = r.x + r.a * u[k] /\ b[k] = r.x + r.a * u[k]
      BY <1>3, <3>1, <3>2
    <3>4. c[i] = b[k]
      BY <3>3
    <3> QED BY <2>2, <3>4 DEF k
  <2> QED BY <2>1, <2>2
<1> HIDE DEF a, b, c
<1> DEFINE q == a \o b
<1>8. /\ q \in Seq(Int) /\ Len(q) = Len(a) + Len(b)
      /\ \A i \in 1..(Len(a) + Len(b)) : q[i] = IF i <= Len(a) THEN a[i] ELSE b[i - Len(a)]
  <2>1. a \in Seq(Int) /\ b \in Seq(Int)
    BY <1>2
  <2>2. a \o b = q
    OBVIOUS
  <2> HIDE DEF q
  <2> QED BY ONLY <2>1, <2>2, ConcatProperties
<1> HIDE DEF q
<1>5. q \in Seq(Int) /\ Len(q) = Len(c) /\ \A i \in 1..Len(c) : c[i] = q[i]
  BY <1>1, <1>2, <1>4, <1>8
<1>6. q \in Seq(Int) /\ Len(c) = Len(q) /\ \A i \in 1..Len(c) : c[i] = q[i]
  BY <1>5
<1>7. c = q
  BY <1>2, <1>6, SeqEqual
<1> QED BY <1>7 DEF a, b, c, q

\* A reference draws as many contours as what it refers to.
LEMMA PartIsContours ==
  ASSUME NEW r \in Transformation, NEW d \in Seq(Seq(Int))
  PROVE  Part(r, d) \in Seq(Seq(Int)) /\ Len(Part(r, d)) = Len(d)
<1> DEFINE Q == Seq(Int)
<1>1. Len(d) \in Nat /\ \A c \in 1..Len(d) : Moved(r, d[c]) \in Q
  BY ElementOfSeq, MovedPoints
<1> HIDE DEF Q
<1>2. [c \in 1..Len(d) |-> Moved(r, d[c])] \in Seq(Q)
  BY <1>1
<1> QED BY <1>1, <1>2 DEF Part, Q

\* Contours are moved one by one.
LEMMA PartAppend ==
  ASSUME NEW r \in Transformation, NEW d \in Seq(Seq(Int)), NEW e \in Seq(Int)
  PROVE  Part(r, Append(d, e)) = Append(Part(r, d), Moved(r, e))
<1> DEFINE Q == Seq(Int)
           n == Len(d)
           u == Append(d, e)
           v == Moved(r, e)
           m == Part(r, d)
           w == Part(r, u)
<1>1. /\ n \in Nat /\ u \in Seq(Q) /\ Len(u) = n + 1
      /\ u[n + 1] = e /\ \A k \in 1..n : u[k] = d[k]
  <2> HIDE DEF Q
  <2>1. d \in Seq(Q) /\ e \in Q
    BY DEF Q
  <2> QED BY <2>1
<1>2. v \in Q
  BY MovedPoints
<1>3. m \in Seq(Q) /\ Len(m) = n /\ w \in Seq(Q) /\ Len(w) = n + 1
  BY <1>1, PartIsContours
<1>4. \A k \in 1..n : m[k] = Moved(r, d[k])
  BY DEF Part
<1>5. \A k \in 1..(n + 1) : w[k] = Moved(r, u[k])
  BY <1>1 DEF Part
<1>6. \A k \in 1..n : w[k] = m[k]
  <2> HIDE DEF w, m, n, u
  <2> SUFFICES ASSUME NEW k \in 1..n PROVE w[k] = m[k]
    OBVIOUS
  <2>1. k \in 1..(n + 1)
    BY <1>1
  <2>2. w[k] = Moved(r, u[k]) /\ u[k] = d[k] /\ m[k] = Moved(r, d[k])
    BY <1>1, <1>4, <1>5, <2>1
  <2> QED BY <2>2
<1>7. w[n + 1] = v
  BY <1>1, <1>5
<1> HIDE DEF m, w, v, u, n, Q
<1> DEFINE q == Append(m, v)
<1>8. q \in Seq(Q) /\ Len(q) = Len(w)
  BY <1>2, <1>3
<1>9. \A k \in 1..Len(w) : w[k] = q[k]
  BY <1>1, <1>2, <1>3, <1>6, <1>7
<1> HIDE DEF q
<1>10. w = q
  BY <1>3, <1>8, <1>9, SeqEqual
<1> QED BY <1>10 DEF w, m, v, u, q

\* The points of a part are the points, moved.
LEMMA PointsOfPart ==
  ASSUME NEW r \in Transformation, NEW d \in Seq(Seq(Int))
  PROVE  Flat(Part(r, d)) = Moved(r, Flat(d))
<1> DEFINE Q == Seq(Int)
           G == {u \in Seq(Q) : Flat(Part(r, u)) = Moved(r, Flat(u))}
<1>1. <<>> \in G
  <2>1. Part(r, <<>>) = <<>> /\ Moved(r, <<>>) = <<>> /\ <<>> \in Seq(Q)
    BY DEF Part, Moved
  <2> QED BY <2>1, FlatNone
<1>2. ASSUME NEW u \in Seq(Q), NEW e \in Q, u \in G
      PROVE  Append(u, e) \in G
  <2>1. Append(u, e) \in Seq(Q)
    <3> HIDE DEF Q
    <3> QED OBVIOUS
  <2>2. Part(r, Append(u, e)) = Append(Part(r, u), Moved(r, e))
    BY PartAppend
  <2>3. Flat(Append(Part(r, u), Moved(r, e))) = Flat(Part(r, u)) \o Moved(r, e)
    BY PartIsContours, MovedPoints, FlatAppend
  <2>4. Flat(Append(u, e)) = Flat(u) \o e /\ Flat(u) \in Seq(Int)
    BY FlatAppend, FlatIsSeq
  <2>5. Moved(r, Flat(u) \o e) = Moved(r, Flat(u)) \o Moved(r, e)
    BY <2>4, MovedConcat
  <2> QED BY <1>2, <2>1, <2>2, <2>3, <2>4, <2>5
<1>3. Seq(Q) \subseteq G
  <2> HIDE DEF G, Q
  <2> QED BY <1>1, <1>2, InductionOnSequences
<1> QED BY <1>3

\* A transformation after a reference's.
After(t, r) == [a |-> t.a * r.a, x |-> t.x + t.a * r.x]

\* Moving a point and then transforming it is one transformation.
LEMMA SpotMoved ==
  ASSUME NEW t \in Transformation, NEW r \in Transformation, NEW p \in Int
  PROVE  /\ After(t, r) \in Transformation
         /\ Spot(t, r.x + r.a * p) = Spot(After(t, r), p)
<1>1. t.a \in Int /\ t.x \in Int /\ r.a \in Int /\ r.x \in Int
  BY DEF Transformation
<1>2. \A ta, tx, ra, rx \in Int : tx + ta * (rx + ra * p) = (tx + ta * rx) + (ta * ra) * p
  OBVIOUS
<1>3. t.x + t.a * (r.x + r.a * p) = (t.x + t.a * r.x) + (t.a * r.a) * p
  BY <1>1, <1>2
<1>4. t.a * r.a \in Int /\ t.x + t.a * r.x \in Int
  BY <1>1
<1> QED BY <1>3, <1>4 DEF Spot, After, Transformation

\* The box of moved points is the box of the points under the transformation after the
\* move.
LEMMA BoxOfMoved ==
  ASSUME NEW t \in Transformation, NEW r \in Transformation, NEW s \in Seq(Int)
  PROVE  BoxOf(Moved(r, s), t) = BoxOf(s, After(t, r))
<1> DEFINE G == {u \in Seq(Int) : BoxOf(Moved(r, u), t) = BoxOf(u, After(t, r))}
<1>1. <<>> \in G
  <2>1. Moved(r, <<>>) = <<>> /\ <<>> \in Seq(Int)
    BY DEF Moved
  <2>2. After(t, r) \in Transformation
    BY SpotMoved, 0 \in Int
  <2> QED BY <2>1, <2>2, BoxNone
<1>2. ASSUME NEW u \in Seq(Int), NEW e \in Int, u \in G
      PROVE  Append(u, e) \in G
  <2> DEFINE v == r.x + r.a * e
  <2>1. Append(u, e) \in Seq(Int) /\ v \in Int
    BY DEF Transformation
  <2>2. Moved(r, Append(u, e)) = Append(Moved(r, u), v)
    BY MovedAppend
  <2>3. After(t, r) \in Transformation /\ Spot(t, v) = Spot(After(t, r), e)
    BY SpotMoved
  <2> HIDE DEF v
  <2>4. BoxOf(Append(Moved(r, u), v), t) = Union(BoxOf(Moved(r, u), t), Spot(t, v))
    BY <2>1, MovedPoints, BoxAppend
  <2>5. BoxOf(Append(u, e), After(t, r)) = Union(BoxOf(u, After(t, r)), Spot(After(t, r), e))
    BY <2>3, BoxAppend
  <2> QED BY <1>2, <2>1, <2>2, <2>3, <2>4, <2>5
<1>3. Seq(Int) \subseteq G
  <2> HIDE DEF G
  <2> QED BY <1>1, <1>2, InductionOnSequences
<1> QED BY <1>3

(* What is drawn *)

Refs(j) == font[j].references

\* The references of the first n of a glyph's, as the contours they draw.
Parts(f, j, n) == [k \in 1..n |-> Part(Refs(j)[k], f[Refs(j)[k].to])]

\* A rank that references go down in.
Down(rank) ==
  rank \in [Gids -> Nat] /\ \A j \in Gids : \A k \in 1..Len(Refs(j)) : rank[Refs(j)[k].to] < rank[j]

\* Without circles there is a rank, and it stays below the depth that is followed.
LEMMA RankDown ==
  ASSUME Acyclic
  PROVE  \E rank : Down(rank) /\ \A j \in Gids : rank[j] <= MaxDepth - 1
<1>1. PICK rank \in [Gids -> 0..(MaxDepth - 1)] :
        \A j \in Gids : \A k \in 1..Len(font[j].references) : rank[font[j].references[k].to] < rank[j]
  BY DEF Acyclic
<1>2. 0..(MaxDepth - 1) \subseteq Nat /\ \A n \in 0..(MaxDepth - 1) : n <= MaxDepth - 1
  BY DepthIsNat
<1> HIDE DEF Gids
<1>3. rank \in [Gids -> Nat] /\ \A j \in Gids : rank[j] <= MaxDepth - 1
  BY <1>1, <1>2
<1> QED BY <1>1, <1>3 DEF Down, Refs

\* Contours and references are what they should be.
LEMMA FontFacts ==
  ASSUME IsFont(font), NEW j \in Gids
  PROVE  /\ font[j].contours \in Seq(Seq(Int))
         /\ Len(Refs(j)) \in Nat
         /\ \A k \in 1..Len(Refs(j)) : /\ Refs(j)[k].to \in Gids
                                       /\ Refs(j)[k].a \in Int /\ Refs(j)[k].x \in Int
<1> DEFINE Q == [to : Gids, a : Int, x : Int]
<1>1. font[j].contours \in Seq(Seq(Int)) /\ Refs(j) \in Seq(Q)
  BY DEF IsFont, Refs
<1>2. \A q \in Q : q.to \in Gids /\ q.a \in Int /\ q.x \in Int
  OBVIOUS
<1> HIDE DEF Q, Gids
<1> QED BY <1>1, <1>2, ElementOfSeq, LenProperties

\* The transformation in a reference.
Tfm(r) == [a |-> r.a, x |-> r.x]
LEMMA PartOfTfm ==
  ASSUME NEW r, NEW d
  PROVE  Part(r, d) = Part(Tfm(r), d)
  BY DEF Part, Moved, Tfm

\* What references draw are contours when what they refer to is.
LEMMA PartsAreContours ==
  ASSUME IsFont(font), NEW j \in Gids, NEW n \in 0..Len(Refs(j)), NEW f,
         \A k \in 1..n : f[Refs(j)[k].to] \in Seq(Seq(Int))
  PROVE  /\ Parts(f, j, n) \in Seq(Seq(Seq(Int)))
         /\ \A k \in 1..n : Part(Refs(j)[k], f[Refs(j)[k].to]) \in Seq(Seq(Int))
<1> DEFINE Q == Seq(Seq(Int))
<1>1. n \in Nat /\ \A k \in 1..n : k \in 1..Len(Refs(j))
  BY FontFacts
<1>2. \A k \in 1..n : Tfm(Refs(j)[k]) \in Transformation
  BY <1>1, FontFacts DEF Tfm, Transformation
<1>3. ASSUME NEW k \in 1..n PROVE Part(Refs(j)[k], f[Refs(j)[k].to]) \in Q
  <2>1. f[Refs(j)[k].to] \in Q
    OBVIOUS
  <2>2. Part(Tfm(Refs(j)[k]), f[Refs(j)[k].to]) \in Q
    BY <1>2, <2>1, PartIsContours
  <2> QED BY <2>2, PartOfTfm
<1> HIDE DEF Q
<1>4. [k \in 1..n |-> Part(Refs(j)[k], f[Refs(j)[k].to])] \in Seq(Q)
  BY <1>1, <1>3
<1> QED BY <1>3, <1>4 DEF Parts, Q

\* The recursion of Drawn has a solution without circles: each glyph's own contours, and
\* those of its references.
LEMMA DrawnSolves ==
  ASSUME IsFont(font), Acyclic
  PROVE  \E drawn \in [Gids -> Seq(Seq(Int))] :
           \A j \in Gids : /\ Drawn(j) = drawn[j]
                           /\ drawn[j] = font[j].contours \o Flat(Parts(drawn, j, Len(Refs(j))))
<1> DEFINE R == Seq(Seq(Int))
           Body(f) == [h \in Gids |->
                         font[h].contours
                         \o Flat([k \in 1..Len(font[h].references) |->
                                    [c \in 1..Len(f[font[h].references[k].to]) |->
                                       [p \in 1..Len(f[font[h].references[k].to][c]) |->
                                          font[h].references[k].x
                                          + font[h].references[k].a * f[font[h].references[k].to][c][p]]]])]
           drawn == CHOOSE f : f = Body(f)
           Draw(f, h) == font[h].contours \o Flat(Parts(f, h, Len(Refs(h))))
           F == [f \in [Gids -> R] |-> [h \in Gids |-> Draw(f, h)]]
<1>1. \A j : Drawn(j) = drawn[j]
  BY DEF Drawn
<1>2. \A f : Body(f) = [h \in Gids |-> Draw(f, h)]
  BY DEF Parts, Part, Moved, Refs
<1> HIDE DEF Body
<1>3. PICK rank : Down(rank)
  BY RankDown
<1>4. ASSUME NEW f, NEW h \in Gids, \A k \in 1..Len(Refs(h)) : f[Refs(h)[k].to] \in R
      PROVE  Draw(f, h) \in R
  <2>1. Len(Refs(h)) \in 0..Len(Refs(h)) /\ font[h].contours \in R
    BY FontFacts
  <2>2. Parts(f, h, Len(Refs(h))) \in Seq(R)
    BY <1>4, <2>1, PartsAreContours
  <2>3. Flat(Parts(f, h, Len(Refs(h)))) \in R
    BY <2>2, FlatIsSeq
  <2> QED BY <2>1, <2>3, ConcatProperties
<1>5. ASSUME NEW f, NEW g, NEW h \in Gids,
             \A k \in 1..Len(Refs(h)) : f[Refs(h)[k].to] = g[Refs(h)[k].to]
      PROVE  Draw(f, h) = Draw(g, h)
  BY <1>5 DEF Parts
<1> HIDE DEF Draw
<1>6. F \in [[Gids -> R] -> [Gids -> R]]
  <2>1. \A f \in [Gids -> R] : \A h \in Gids : Draw(f, h) \in R
    <3> SUFFICES ASSUME NEW f \in [Gids -> R], NEW h \in Gids PROVE Draw(f, h) \in R
      OBVIOUS
    <3>1. \A k \in 1..Len(Refs(h)) : f[Refs(h)[k].to] \in R
      <4> HIDE DEF Gids, R
      <4> QED BY FontFacts
    <3> QED BY <1>4, <3>1
  <2> HIDE DEF Gids, R
  <2> QED BY <2>1
<1>7. GoesDown(F, Gids, R, rank)
  <2> SUFFICES ASSUME NEW f \in [Gids -> R], NEW g \in [Gids -> R], NEW h \in Gids,
                      \A e \in Gids : rank[e] < rank[h] => f[e] = g[e]
               PROVE  F[f][h] = F[g][h]
    BY DEF GoesDown
  <2>1. \A k \in 1..Len(Refs(h)) : f[Refs(h)[k].to] = g[Refs(h)[k].to]
    BY <1>3, FontFacts DEF Down
  <2>2. Draw(f, h) = Draw(g, h)
    BY <1>5, <2>1
  <2> HIDE DEF Gids, R
  <2> QED BY <2>2
<1>8. R # {} /\ rank \in [Gids -> Nat]
  BY <1>3, EmptySeq DEF Down
<1>9. PICK f \in [Gids -> R] : F[f] = f
  <2> HIDE DEF F, R, Gids
  <2>1. Solvable(F, Gids, R)
    BY <1>6, <1>7, <1>8, RecursionSolves
  <2> QED BY <2>1 DEF Solvable
<1>10. f = Body(f)
  BY <1>2, <1>9
<1>11. drawn = Body(drawn)
  BY <1>10
<1> HIDE DEF drawn
<1>12. drawn = [h \in Gids |-> Draw(drawn, h)]
  BY <1>2, <1>11
<1>13. \A h \in Gids : drawn[h] = Draw(drawn, h)
  BY <1>12
<1> DEFINE Good == {h \in Gids : drawn[h] \in R}
<1>14. \A h \in Gids : (\A e \in Gids : rank[e] < rank[h] => e \in Good) => h \in Good
  <2> SUFFICES ASSUME NEW h \in Gids, \A e \in Gids : rank[e] < rank[h] => e \in Good
               PROVE  h \in Good
    OBVIOUS
  <2>1. \A k \in 1..Len(Refs(h)) : drawn[Refs(h)[k].to] \in R
    BY <1>3, FontFacts DEF Down
  <2> QED BY <1>4, <1>13, <2>1
<1>15. Gids \subseteq Good
  <2> HIDE DEF Good, Gids
  <2> QED BY <1>8, <1>14, InductionOnRank
<1>16. drawn \in [Gids -> R]
  <2> HIDE DEF Gids, R
  <2> QED BY <1>12, <1>15
<1> QED BY <1>1, <1>13, <1>16 DEF Draw

-----------------------------------------------------------------------------
(* What is drawn up to a reference. *)

DrawnTo(j, n) ==
  font[j].contours \o Flat([k \in 1..n |-> Part(Refs(j)[k], Drawn(Refs(j)[k].to))])

\* What is drawn for a glyph begins with its contours and grows by a reference's part at a
\* time.
LEMMA DrawnByParts ==
  ASSUME IsFont(font), Acyclic, NEW j \in Gids
  PROVE  /\ Drawn(j) \in Seq(Seq(Int))
         /\ Drawn(j) = DrawnTo(j, Len(Refs(j)))
         /\ DrawnTo(j, 0) = font[j].contours
         /\ \A n \in 0..Len(Refs(j)) : DrawnTo(j, n) \in Seq(Seq(Int))
         /\ \A n \in 0..(Len(Refs(j)) - 1) :
              DrawnTo(j, n + 1) = DrawnTo(j, n) \o Part(Refs(j)[n + 1], Drawn(Refs(j)[n + 1].to))
<1> DEFINE R == Seq(Seq(Int))
           m == Len(Refs(j))
<1>1. PICK drawn \in [Gids -> R] :
        \A h \in Gids : /\ Drawn(h) = drawn[h]
                        /\ drawn[h] = font[h].contours \o Flat(Parts(drawn, h, Len(Refs(h))))
  BY DrawnSolves
<1>2. m \in Nat /\ font[j].contours \in R /\ \A k \in 1..m : Refs(j)[k].to \in Gids
  BY FontFacts
<1> HIDE DEF Gids
<1>3. ASSUME NEW n \in 0..m PROVE DrawnTo(j, n) = font[j].contours \o Flat(Parts(drawn, j, n))
  <2>1. \A k \in 1..n : Refs(j)[k].to \in Gids
    BY <1>2
  <2>2. [k \in 1..n |-> Part(Refs(j)[k], Drawn(Refs(j)[k].to))] = Parts(drawn, j, n)
    BY <1>1, <2>1 DEF Parts
  <2> QED BY <2>2 DEF DrawnTo
<1>4. ASSUME NEW n \in 0..m
      PROVE  /\ Parts(drawn, j, n) \in Seq(R) /\ Flat(Parts(drawn, j, n)) \in R
             /\ \A k \in 1..n : Part(Refs(j)[k], drawn[Refs(j)[k].to]) \in R
  <2>1. \A k \in 1..n : drawn[Refs(j)[k].to] \in R
    <3>1. \A k \in 1..n : k \in 1..m
      BY <1>2
    <3> HIDE DEF R
    <3> QED BY <1>1, <1>2, <3>1
  <2>2. /\ Parts(drawn, j, n) \in Seq(R)
        /\ \A k \in 1..n : Part(Refs(j)[k], drawn[Refs(j)[k].to]) \in R
    BY <2>1, PartsAreContours
  <2> QED BY <2>2, FlatIsSeq
<1>5. Drawn(j) \in R
  <2> HIDE DEF R
  <2> QED BY <1>1
<1>6. Drawn(j) = DrawnTo(j, m)
  <2>1. m \in 0..m
    BY <1>2
  <2>2. DrawnTo(j, m) = font[j].contours \o Flat(Parts(drawn, j, m))
    BY <1>3, <2>1
  <2> QED BY <1>1, <2>2
<1>7. DrawnTo(j, 0) = font[j].contours
  <2>1. Parts(drawn, j, 0) = <<>>
    BY DEF Parts
  <2>2. font[j].contours \o <<>> = font[j].contours
    BY <1>2, ConcatEmptySeq
  <2>3. DrawnTo(j, 0) = font[j].contours \o Flat(Parts(drawn, j, 0))
    BY <1>2, <1>3
  <2> QED BY <2>1, <2>2, <2>3, FlatNone
<1>8. \A n \in 0..m : DrawnTo(j, n) \in R
  BY <1>2, <1>3, <1>4, ConcatProperties
<1>9. ASSUME NEW n \in 0..(m - 1)
      PROVE  DrawnTo(j, n + 1) = DrawnTo(j, n) \o Part(Refs(j)[n + 1], Drawn(Refs(j)[n + 1].to))
  <2> DEFINE p == Part(Refs(j)[n + 1], drawn[Refs(j)[n + 1].to])
             P(k) == Parts(drawn, j, k)
  <2>1. n \in 0..m /\ n + 1 \in 0..m /\ n + 1 \in 1..m /\ n \in Nat /\ n + 1 \in 1..(n + 1)
    BY <1>2
  <2>2. p \in R /\ P(n) \in Seq(R) /\ P(n + 1) \in Seq(R) /\ Flat(P(n)) \in R
    BY <1>4, <2>1
  <2>3. P(n + 1) = Append(P(n), p)
    <3>1. Len(P(n)) = n /\ Len(P(n + 1)) = n + 1
      BY <2>1 DEF Parts
    <3>2. \A k \in 1..n : P(n + 1)[k] = P(n)[k]
      BY <2>1 DEF Parts
    <3>3. P(n + 1)[n + 1] = p
      BY <2>1 DEF Parts
    <3> DEFINE a == P(n)
               b == P(n + 1)
               q == Append(a, p)
    <3>4. /\ a \in Seq(R) /\ b \in Seq(R) /\ Len(a) = n /\ Len(b) = n + 1
          /\ b[n + 1] = p /\ \A k \in 1..n : b[k] = a[k]
      BY <2>2, <3>1, <3>2, <3>3
    <3> HIDE DEF a, b, p, P, R
    <3>5. q \in Seq(R) /\ Len(q) = n + 1 /\ q[n + 1] = p /\ \A k \in 1..n : q[k] = a[k]
      BY <2>1, <2>2, <3>4
    <3> HIDE DEF q
    <3>6. \A k \in 1..Len(b) : b[k] = q[k]
      <4>1. \A k \in 1..(n + 1) : k = n + 1 \/ k \in 1..n
        BY <2>1
      <4> QED BY <3>4, <3>5, <4>1
    <3>7. b = q
      BY <3>4, <3>5, <3>6, SeqEqual
    <3> QED BY <3>7 DEF a, b, q
  <2>4. Flat(P(n + 1)) = Flat(P(n)) \o p
    BY <2>2, <2>3, FlatAppend
  <2>5. DrawnTo(j, n + 1) = font[j].contours \o Flat(P(n + 1))
        /\ DrawnTo(j, n) = font[j].contours \o Flat(P(n))
    BY <1>3, <2>1
  <2>6. Drawn(Refs(j)[n + 1].to) = drawn[Refs(j)[n + 1].to]
    BY <1>1, <1>2, <2>1
  <2> HIDE DEF P
  <2>7. font[j].contours \o (Flat(P(n)) \o p) = (font[j].contours \o Flat(P(n))) \o p
    <3> DEFINE Q == Seq(Int)
               a == font[j].contours
               b == Flat(P(n))
    <3>1. a \in Seq(Q) /\ b \in Seq(Q) /\ p \in Seq(Q)
      BY <1>2, <2>2
    <3> HIDE DEF a, b, p, Q
    <3>2. (a \o b) \o p = a \o (b \o p)
      BY <3>1, ConcatAssociative
    <3> QED BY <3>2 DEF a, b
  <2> QED BY <2>4, <2>5, <2>6, <2>7
<1> QED BY <1>5, <1>6, <1>7, <1>8, <1>9

\* So do its counts and its box.
LEMMA MeasuresByParts ==
  ASSUME IsFont(font), Acyclic, NEW j \in Gids, NEW n \in 0..(Len(Refs(j)) - 1)
  PROVE  LET r == Refs(j)[n + 1] IN
         /\ Len(Flat(DrawnTo(j, n + 1))) = Len(Flat(DrawnTo(j, n))) + Len(Flat(Drawn(r.to)))
         /\ Len(DrawnTo(j, n + 1)) = Len(DrawnTo(j, n)) + Len(Drawn(r.to))
         /\ \A t \in Transformation :
              BoxOf(Flat(DrawnTo(j, n + 1)), t)
                = Union(BoxOf(Flat(DrawnTo(j, n)), t), BoxOf(Flat(Drawn(r.to)), After(t, Tfm(r))))
<1> DEFINE R == Seq(Seq(Int))
           r == Refs(j)[n + 1]
           a == DrawnTo(j, n)
           d == Drawn(r.to)
           p == Part(Tfm(r), d)
           b == DrawnTo(j, n + 1)
<1>1. n + 1 \in 1..Len(Refs(j)) /\ n \in 0..Len(Refs(j))
  BY FontFacts
<1>2. r.to \in Gids /\ Tfm(r) \in Transformation
  BY <1>1, FontFacts DEF Tfm, Transformation
<1>3. d \in R /\ a \in R
  BY <1>1, <1>2, DrawnByParts
<1>4. p \in R /\ Len(p) = Len(d) /\ Flat(p) = Moved(Tfm(r), Flat(d))
  BY <1>2, <1>3, PartIsContours, PointsOfPart
<1>5. b = a \o p
  <2>1. b = a \o Part(r, d)
    BY DrawnByParts
  <2> QED BY <2>1, PartOfTfm
<1> HIDE DEF a, b, d, p, r
<1>6. Flat(a) \in Seq(Int) /\ Flat(d) \in Seq(Int) /\ Flat(p) \in Seq(Int)
  BY <1>3, <1>4, FlatIsSeq
<1>7. Flat(b) = Flat(a) \o Flat(p)
  BY <1>3, <1>4, <1>5, FlatConcat
<1>8. Len(b) = Len(a) + Len(d)
  <2> DEFINE Q == Seq(Int)
  <2>1. a \in Seq(Q) /\ p \in Seq(Q)
    BY <1>3, <1>4
  <2> HIDE DEF Q
  <2> QED BY <1>4, <1>5, <2>1, ConcatProperties
<1>9. Len(Flat(b)) = Len(Flat(a)) + Len(Flat(d))
  BY <1>2, <1>4, <1>6, <1>7, MovedPoints, ConcatProperties
<1>10. ASSUME NEW t \in Transformation
       PROVE  BoxOf(Flat(b), t) = Union(BoxOf(Flat(a), t), BoxOf(Flat(d), After(t, Tfm(r))))
  <2>1. BoxOf(Flat(b), t) = Union(BoxOf(Flat(a), t), BoxOf(Flat(p), t))
    BY <1>6, <1>7, BoxConcat
  <2>2. BoxOf(Flat(p), t) = BoxOf(Flat(d), After(t, Tfm(r)))
    BY <1>2, <1>4, <1>6, BoxOfMoved
  <2> QED BY <2>1, <2>2
<1> QED BY <1>8, <1>9, <1>10 DEF a, b, d, r

-----------------------------------------------------------------------------
(* The largest of some numbers. *)

\* The values of a function on a finite set are finite in number.
LEMMA ImageIsFinite ==
  ASSUME NEW S, IsFiniteSet(S), NEW f
  PROVE  IsFiniteSet({f[x] : x \in S})
<1> DEFINE T == {f[x] : x \in S}
           g == [x \in S |-> f[x]]
<1>1. g \in Surjection(S, T)
  BY DEF Surjection
<1> HIDE DEF g
<1> QED BY <1>1, FS_Surjection

\* The largest of finitely many numbers is as large as each, and one of them.
LEMMA LargestBounds ==
  ASSUME NEW S, S \subseteq Nat, IsFiniteSet(S)
  PROVE  /\ Largest(S) \in Nat /\ \A n \in S : n <= Largest(S)
         /\ S # {} => Largest(S) \in S
<1>1. CASE S = {}
  BY <1>1 DEF Largest
<1>2. CASE S # {}
  <2>1. \E m \in S : \A n \in S : n <= m
    BY <1>2, MaxOfFinite
  <2>2. Largest(S) \in S /\ \A n \in S : n <= Largest(S)
    BY <1>2, <2>1 DEF Largest
  <2> QED BY <2>2
<1> QED BY <1>1, <1>2

\* With one more number the largest is the larger of the two.
LEMMA LargestOfMore ==
  ASSUME NEW S, S \subseteq Nat, IsFiniteSet(S), NEW n \in Nat
  PROVE  Largest(S \union {n}) = Larger(Largest(S), n)
<1> DEFINE T == S \union {n}
           a == Largest(S)
           b == Largest(T)
<1>1. T \subseteq Nat /\ IsFiniteSet(T) /\ T # {}
  BY FS_AddElement
<1>2. b \in T /\ b \in Nat /\ \A m \in T : m <= b
  <2> HIDE DEF T
  <2> QED BY <1>1, LargestBounds
<1>3. a \in Nat /\ (\A m \in S : m <= a) /\ (S # {} => a \in S) /\ (S = {} => a = 0)
  BY LargestBounds DEF Largest
<1> HIDE DEF a, b
<1>4. b = Larger(a, n)
  <2>1. CASE S = {}
    BY <1>2, <1>3, <2>1 DEF Larger
  <2>2. CASE S # {}
    <3>1. a \in T /\ n \in T /\ a <= b /\ n <= b
      BY <1>2, <1>3, <2>2
    <3>2. b = n \/ b <= a
      BY <1>2, <1>3
    <3> QED BY <1>2, <1>3, <3>1, <3>2 DEF Larger
  <2> QED BY <2>1, <2>2
<1> QED BY <1>4 DEF a, b

-----------------------------------------------------------------------------
(* How deep references go. *)

\* How deep those of the first n references go, given how deep glyphs go.
Depths(f, j, n) == {f[Refs(j)[k].to] + 1 : k \in 1..n}

\* The depths of a glyph's references are finitely many numbers.
LEMMA DepthsAreFinite ==
  ASSUME NEW j, NEW n \in Int, NEW f, \A k \in 1..n : f[Refs(j)[k].to] \in Nat
  PROVE  IsFiniteSet(Depths(f, j, n)) /\ Depths(f, j, n) \subseteq Nat
<1> DEFINE g == [k \in 1..n |-> f[Refs(j)[k].to] + 1]
<1>1. IsFiniteSet(1..n)
  BY FS_Interval
<1>2. Depths(f, j, n) = {g[k] : k \in 1..n}
  BY DEF Depths
<1> HIDE DEF g
<1>3. IsFiniteSet(Depths(f, j, n))
  BY <1>1, <1>2, ImageIsFinite
<1> QED BY <1>3 DEF Depths

\* The recursion of Height has a solution without circles.
LEMMA HeightSolves ==
  ASSUME IsFont(font), Acyclic
  PROVE  \E height \in [Gids -> Nat] :
           \A j \in Gids : /\ Height(j) = height[j]
                           /\ height[j] = Largest(Depths(height, j, Len(Refs(j))))
<1> DEFINE Body(f) == [h \in Gids |-> Largest({f[font[h].references[k].to] + 1 :
                                                 k \in 1..Len(font[h].references)})]
           height == CHOOSE f : f = Body(f)
           Deep(f, h) == Largest(Depths(f, h, Len(Refs(h))))
           F == [f \in [Gids -> Nat] |-> [h \in Gids |-> Deep(f, h)]]
<1>1. \A j : Height(j) = height[j]
  BY DEF Height
<1>2. \A f : Body(f) = [h \in Gids |-> Deep(f, h)]
  BY DEF Depths, Refs
<1> HIDE DEF Body
<1>3. PICK rank : Down(rank)
  BY RankDown
<1>4. ASSUME NEW f, NEW h \in Gids, \A k \in 1..Len(Refs(h)) : f[Refs(h)[k].to] \in Nat
      PROVE  Deep(f, h) \in Nat
  <2>1. Len(Refs(h)) \in Int
    BY FontFacts
  <2>2. IsFiniteSet(Depths(f, h, Len(Refs(h)))) /\ Depths(f, h, Len(Refs(h))) \subseteq Nat
    BY <1>4, <2>1, DepthsAreFinite
  <2> QED BY <2>2, LargestBounds
<1>5. ASSUME NEW f, NEW g, NEW h \in Gids,
             \A k \in 1..Len(Refs(h)) : f[Refs(h)[k].to] = g[Refs(h)[k].to]
      PROVE  Deep(f, h) = Deep(g, h)
  <2>1. Depths(f, h, Len(Refs(h))) = Depths(g, h, Len(Refs(h)))
    BY <1>5 DEF Depths
  <2> QED BY <2>1
<1> HIDE DEF Deep
<1>6. F \in [[Gids -> Nat] -> [Gids -> Nat]]
  <2>1. \A f \in [Gids -> Nat] : \A h \in Gids : Deep(f, h) \in Nat
    <3> SUFFICES ASSUME NEW f \in [Gids -> Nat], NEW h \in Gids PROVE Deep(f, h) \in Nat
      OBVIOUS
    <3>1. \A k \in 1..Len(Refs(h)) : f[Refs(h)[k].to] \in Nat
      <4> HIDE DEF Gids
      <4> QED BY FontFacts
    <3> QED BY <1>4, <3>1
  <2> HIDE DEF Gids
  <2> QED BY <2>1
<1>7. GoesDown(F, Gids, Nat, rank)
  <2> SUFFICES ASSUME NEW f \in [Gids -> Nat], NEW g \in [Gids -> Nat], NEW h \in Gids,
                      \A e \in Gids : rank[e] < rank[h] => f[e] = g[e]
               PROVE  F[f][h] = F[g][h]
    BY DEF GoesDown
  <2>1. \A k \in 1..Len(Refs(h)) : f[Refs(h)[k].to] = g[Refs(h)[k].to]
    BY <1>3, FontFacts DEF Down
  <2>2. Deep(f, h) = Deep(g, h)
    BY <1>5, <2>1
  <2> HIDE DEF Gids
  <2> QED BY <2>2
<1>8. Nat # {} /\ rank \in [Gids -> Nat]
  BY <1>3 DEF Down
<1>9. PICK f \in [Gids -> Nat] : F[f] = f
  <2> HIDE DEF F, Gids
  <2>1. Solvable(F, Gids, Nat)
    BY <1>6, <1>7, <1>8, RecursionSolves
  <2> QED BY <2>1 DEF Solvable
<1>10. f = Body(f)
  BY <1>2, <1>9
<1>11. height = Body(height)
  BY <1>10
<1> HIDE DEF height
<1>12. height = [h \in Gids |-> Deep(height, h)]
  BY <1>2, <1>11
<1>13. \A h \in Gids : height[h] = Deep(height, h)
  BY <1>12
<1> DEFINE Good == {h \in Gids : height[h] \in Nat}
<1>14. \A h \in Gids : (\A e \in Gids : rank[e] < rank[h] => e \in Good) => h \in Good
  <2> SUFFICES ASSUME NEW h \in Gids, \A e \in Gids : rank[e] < rank[h] => e \in Good
               PROVE  h \in Good
    OBVIOUS
  <2>1. \A k \in 1..Len(Refs(h)) : height[Refs(h)[k].to] \in Nat
    BY <1>3, FontFacts DEF Down
  <2> QED BY <1>4, <1>13, <2>1
<1>15. Gids \subseteq Good
  <2> HIDE DEF Good, Gids
  <2> QED BY <1>8, <1>14, InductionOnRank
<1>16. height \in [Gids -> Nat]
  <2> HIDE DEF Gids
  <2> QED BY <1>12, <1>15
<1> QED BY <1>1, <1>13, <1>16 DEF Deep

HeightTo(j, n) == Largest({Height(Refs(j)[k].to) + 1 : k \in 1..n})

\* A glyph's height grows with its references, one at a time.
LEMMA HeightByParts ==
  ASSUME IsFont(font), Acyclic, NEW j \in Gids
  PROVE  /\ Height(j) \in Nat
         /\ Height(j) = HeightTo(j, Len(Refs(j)))
         /\ HeightTo(j, 0) = 0
         /\ \A n \in 0..(Len(Refs(j)) - 1) :
              HeightTo(j, n + 1) = Larger(HeightTo(j, n), Height(Refs(j)[n + 1].to) + 1)
<1> DEFINE m == Len(Refs(j))
<1>1. PICK height \in [Gids -> Nat] :
        \A h \in Gids : /\ Height(h) = height[h]
                        /\ height[h] = Largest(Depths(height, h, Len(Refs(h))))
  BY HeightSolves
<1>2. m \in Nat /\ \A k \in 1..m : Refs(j)[k].to \in Gids
  BY FontFacts
<1> HIDE DEF Gids
<1>3. ASSUME NEW n \in 0..m PROVE HeightTo(j, n) = Largest(Depths(height, j, n))
  <2>1. \A k \in 1..n : Refs(j)[k].to \in Gids
    BY <1>2
  <2>2. {Height(Refs(j)[k].to) + 1 : k \in 1..n} = Depths(height, j, n)
    BY <1>1, <2>1 DEF Depths
  <2> QED BY <2>2 DEF HeightTo
<1>4. Height(j) \in Nat
  BY <1>1
<1>5. Height(j) = HeightTo(j, m)
  <2>1. m \in 0..m
    BY <1>2
  <2> QED BY <1>1, <1>3, <2>1
<1>6. HeightTo(j, 0) = 0
  <2>1. {Height(Refs(j)[k].to) + 1 : k \in 1..0} = {}
    OBVIOUS
  <2> QED BY <2>1 DEF HeightTo, Largest
<1>7. ASSUME NEW n \in 0..(m - 1)
      PROVE  HeightTo(j, n + 1) = Larger(HeightTo(j, n), Height(Refs(j)[n + 1].to) + 1)
  <2> DEFINE S == Depths(height, j, n)
             v == height[Refs(j)[n + 1].to] + 1
  <2>1. n \in 0..m /\ n + 1 \in 0..m /\ n + 1 \in 1..m /\ n \in Nat
    BY <1>2
  <2>2. \A k \in 1..n : height[Refs(j)[k].to] \in Nat
    <3>1. \A k \in 1..n : k \in 1..m
      BY <1>2, <2>1
    <3> QED BY <1>1, <1>2, <3>1
  <2>3. IsFiniteSet(S) /\ S \subseteq Nat
    BY <2>1, <2>2, DepthsAreFinite
  <2>4. v \in Nat
    BY <1>1, <1>2, <2>1
  <2>5. Depths(height, j, n + 1) = S \union {v}
    <3>1. \A k : k \in 1..(n + 1) <=> k = n + 1 \/ k \in 1..n
      BY <2>1
    <3> QED BY <3>1 DEF Depths
  <2> HIDE DEF S, v
  <2>6. Largest(S \union {v}) = Larger(Largest(S), v)
    BY <2>3, <2>4, LargestOfMore
  <2>7. v = Height(Refs(j)[n + 1].to) + 1
    BY <1>1, <1>2, <2>1 DEF v
  <2>8. HeightTo(j, n + 1) = Largest(Depths(height, j, n + 1)) /\ HeightTo(j, n) = Largest(S)
    BY <1>3, <2>1 DEF S
  <2> QED BY <2>5, <2>6, <2>7, <2>8
<1> QED BY <1>4, <1>5, <1>6, <1>7

-----------------------------------------------------------------------------
(* Glyphs without blanks *)

\* A glyph without blanks has points or references, and only such references.
LEMMA NoBlankByParts ==
  ASSUME IsFont(font), Acyclic, NEW j \in Gids
  PROVE  /\ NoBlank(j) => Flat(font[j].contours) # <<>> \/ Refs(j) # <<>>
         /\ NoBlank(j) => \A k \in 1..Len(Refs(j)) : NoBlank(Refs(j)[k].to)
<1> DEFINE Solid(f, h) == /\ Flat(font[h].contours) # <<>> \/ font[h].references # <<>>
                          /\ \A k \in 1..Len(font[h].references) : f[font[h].references[k].to]
           Body(f) == [h \in Gids |-> Solid(f, h)]
           solid == CHOOSE f : f = Body(f)
           F == [f \in [Gids -> BOOLEAN] |-> Body(f)]
<1>1. \A h : NoBlank(h) = solid[h]
  BY DEF NoBlank
<1>2. PICK rank : Down(rank)
  BY RankDown
<1>3. ASSUME NEW f, NEW g, NEW h \in Gids,
             \A k \in 1..Len(Refs(h)) : f[Refs(h)[k].to] = g[Refs(h)[k].to]
      PROVE  Solid(f, h) = Solid(g, h)
  BY <1>3 DEF Refs
<1>4. \A f : \A h \in Gids : Solid(f, h) \in BOOLEAN
  OBVIOUS
<1>5. \A h \in Gids : \A f : Solid(f, h) =>
        /\ Flat(font[h].contours) # <<>> \/ Refs(h) # <<>>
        /\ \A k \in 1..Len(Refs(h)) : f[Refs(h)[k].to]
  BY DEF Refs
<1> HIDE DEF Solid
<1>6. F \in [[Gids -> BOOLEAN] -> [Gids -> BOOLEAN]]
  <2> HIDE DEF Gids
  <2> QED BY <1>4
<1>7. GoesDown(F, Gids, BOOLEAN, rank)
  <2> SUFFICES ASSUME NEW f \in [Gids -> BOOLEAN], NEW g \in [Gids -> BOOLEAN], NEW h \in Gids,
                      \A e \in Gids : rank[e] < rank[h] => f[e] = g[e]
               PROVE  F[f][h] = F[g][h]
    BY DEF GoesDown
  <2>1. \A k \in 1..Len(Refs(h)) : f[Refs(h)[k].to] = g[Refs(h)[k].to]
    BY <1>2, FontFacts DEF Down
  <2>2. Solid(f, h) = Solid(g, h)
    BY <1>3, <2>1
  <2> HIDE DEF Gids
  <2> QED BY <2>2
<1>8. BOOLEAN # {} /\ rank \in [Gids -> Nat]
  BY <1>2 DEF Down
<1>9. PICK f \in [Gids -> BOOLEAN] : F[f] = f
  <2> HIDE DEF F, Gids
  <2>1. Solvable(F, Gids, BOOLEAN)
    BY <1>6, <1>7, <1>8, RecursionSolves
  <2> QED BY <2>1 DEF Solvable
<1>10. f = Body(f)
  BY <1>9
<1>11. solid = Body(solid)
  <2> HIDE DEF Body
  <2> QED BY <1>10
<1> HIDE DEF solid
<1>12. solid[j] = Solid(solid, j)
  BY <1>11
<1> QED BY <1>1, <1>5, <1>12

\* A glyph without blanks draws a point.
LEMMA NoBlankDraws ==
  ASSUME IsFont(font), Acyclic, NEW j \in Gids, NoBlank(j)
  PROVE  Flat(Drawn(j)) # <<>>
<1>1. PICK rank : Down(rank)
  BY RankDown
<1> DEFINE Good == {h \in Gids : NoBlank(h) => Len(Flat(Drawn(h))) > 0}
<1>0. \A h \in Gids : Flat(Drawn(h)) \in Seq(Int)
  BY DrawnByParts, FlatIsSeq
<1>2. ASSUME NEW h \in Gids, \A e \in Gids : rank[e] < rank[h] => e \in Good
      PROVE  h \in Good
  <2> SUFFICES ASSUME NoBlank(h) PROVE Len(Flat(Drawn(h))) > 0
    OBVIOUS
  <2> DEFINE m == Len(Refs(h))
  <2>1. m \in Nat /\ Flat(font[h].contours) \in Seq(Int)
    BY FontFacts, FlatIsSeq
  <2>2. CASE m = 0
    <3>1. Drawn(h) = font[h].contours
      BY <2>2, DrawnByParts
    <3>2. Refs(h) = <<>>
      BY <2>2 DEF IsFont, Refs
    <3>3. Flat(font[h].contours) # <<>>
      BY <3>2, NoBlankByParts
    <3> QED BY <2>1, <3>1, <3>3, LenProperties, EmptySeq
  <2>3. CASE m # 0
    <3> DEFINE n == m - 1
               r == Refs(h)[n + 1]
    <3>1. n \in 0..(m - 1) /\ n + 1 = m /\ n + 1 \in 1..m /\ n \in 0..m
      BY <2>1, <2>3
    <3>2. r.to \in Gids /\ rank[r.to] < rank[h] /\ NoBlank(r.to)
      BY <1>1, <3>1, FontFacts, NoBlankByParts DEF Down
    <3>3. Len(Flat(Drawn(r.to))) > 0
      BY <1>2, <3>2
    <3>4. Len(Flat(DrawnTo(h, n + 1))) = Len(Flat(DrawnTo(h, n))) + Len(Flat(Drawn(r.to)))
      BY <3>1, MeasuresByParts
    <3>5. Drawn(h) = DrawnTo(h, n + 1)
      BY <3>1, DrawnByParts
    <3>6. Flat(DrawnTo(h, n)) \in Seq(Int)
      BY <3>1, DrawnByParts, FlatIsSeq
    <3>7. Len(Flat(DrawnTo(h, n))) \in Nat /\ Len(Flat(Drawn(r.to))) \in Nat
      BY <1>0, <3>2, <3>6, LenProperties
    <3> HIDE DEF n, r
    <3> QED BY <3>3, <3>4, <3>5, <3>7
  <2> QED BY <2>2, <2>3
<1>3. \A h \in Gids : (\A e \in Gids : rank[e] < rank[h] => e \in Good) => h \in Good
  BY <1>2
<1>4. Gids \subseteq Good
  <2> HIDE DEF Good, Gids
  <2> QED BY <1>1, <1>3, InductionOnRank DEF Down
<1> QED BY <1>4, EmptySeq

-----------------------------------------------------------------------------
(* What the open calls have measured *)

\* Something refers to the glyph.
Referred(j) == \E h \in Gids : \E i \in 1..Len(Refs(h)) : Refs(h)[i].to = j

\* A transformation a glyph may be measured under when scaled references are apart.
Upright(j, t) == (t.a # 1 => Refs(j) = <<>>) /\ (t = Identity \/ Referred(j))

\* A call has measured what is drawn up to its next reference.
Measured(f) ==
  /\ f.tfm \in Transformation /\ f.box \in Box
  /\ f.nCompositePoints = Len(Flat(DrawnTo(f.glyph, f.next - 1)))
  /\ f.nCompositeContours = Len(DrawnTo(f.glyph, f.next - 1))
  /\ f.nestDepth = HeightTo(f.glyph, f.next - 1)
  /\ ScalesApart =>
       /\ Upright(f.glyph, f.tfm)
       /\ NoBlank(f.glyph) => f.box = BoxOf(Flat(DrawnTo(f.glyph, f.next - 1)), f.tfm)

\* A stat is that of what is drawn for glyph j under a transformation.
StatIs(s, j, t) ==
  /\ s.box \in Box
  /\ s.nPoints = Len(Flat(font[j].contours))
  /\ s.nCompositePoints = Len(Flat(Drawn(j)))
  /\ s.nCompositeContours = Len(Drawn(j))
  /\ s.nestDepth = Height(j)
  /\ ScalesApart /\ NoBlank(j) => s.box = BoxOf(Flat(Drawn(j)), t)

\* An open call waits for the one above it.
Asks(f, g) ==
  /\ g.glyph = Refs(f.glyph)[f.next].to
  /\ g.tfm = Composite(f.tfm, Refs(f.glyph)[f.next])

\* Calls each of which waits for the next, the first one made by statGlyf for a glyph.
Chained(open, j) ==
  /\ \A k \in 1..Len(open) : Measured(open[k])
  /\ open # <<>> => open[1].glyph = j /\ open[1].tfm = Identity
  /\ \A k \in 1..Len(open) : k < Len(open) => Asks(open[k], open[k + 1])

MeasureInv ==
  /\ Chained(stack, at)
  /\ \A j \in 0..(at - 1) : StatIs(stats[j], j, Identity)

\* The tables are filled once all glyphs have been measured.
TablesInv == tables # Unset => at = N /\ tables = [head |-> HeadBox, maxp |-> Maxp]

FullInv == IInv /\ (Acyclic => MeasureInv) /\ TablesInv

-----------------------------------------------------------------------------
(* One call *)

\* A call that begins has measured the contours of its glyph.
LEMMA OpenedMeasures ==
  ASSUME IsFont(font), Acyclic, NEW j \in Gids, NEW t \in Transformation,
         ScalesApart => Upright(j, t)
  PROVE  Measured(Opened(j, t))
<1> DEFINE points == Flat(font[j].contours)
<1>1. /\ Opened(j, t).glyph = j /\ Opened(j, t).tfm = t /\ Opened(j, t).next = 1
      /\ Opened(j, t).box = BoxOf(points, t) /\ Opened(j, t).nestDepth = 0
      /\ Opened(j, t).nCompositePoints = Len(points)
      /\ Opened(j, t).nCompositeContours = Len(font[j].contours)
  BY DEF Opened
<1>2. DrawnTo(j, 0) = font[j].contours /\ HeightTo(j, 0) = 0
  BY DrawnByParts, HeightByParts
<1>3. points \in Seq(Int)
  BY FontFacts, FlatIsSeq
<1>4. BoxOf(points, t) \in Box
  BY <1>3, BoxInReach DEF InReach
<1>5. Opened(j, t).next - 1 = 0
  BY <1>1
<1> HIDE DEF points
<1> DEFINE f == Opened(j, t)
<1> HIDE DEF f
<1>6. /\ f.glyph = j /\ f.tfm = t /\ f.next - 1 = 0
      /\ f.box = BoxOf(points, t) /\ f.nestDepth = 0
      /\ f.nCompositePoints = Len(points)
      /\ f.nCompositeContours = Len(font[j].contours)
  BY <1>1, <1>5 DEF f
<1>7. Measured(f)
  BY <1>2, <1>4, <1>6 DEF Measured, points
<1> QED BY <1>7 DEF f

\* What the other fields of a call become when it takes in a stat.
LEMMA AbsorbedFields ==
  ASSUME NEW f, NEW s, Shaped(f)
  PROVE  /\ Absorb(f, s).tfm = f.tfm /\ Absorb(f, s).box = Union(f.box, s.box)
         /\ Absorb(f, s).nestDepth = Larger(f.nestDepth, s.nestDepth + 1)
         /\ Absorb(f, s).nCompositePoints = f.nCompositePoints + s.nCompositePoints
         /\ Absorb(f, s).nCompositeContours = f.nCompositeContours + s.nCompositeContours
<1>1. PICK glyph, tfm, next, box, depth, points, contours :
        f = [glyph |-> glyph, tfm |-> tfm, next |-> next, box |-> box, nestDepth |-> depth,
             nCompositePoints |-> points, nCompositeContours |-> contours]
  BY DEF Shaped
<1> DEFINE n2 == f.next + 1
           b2 == Union(f.box, s.box)
           d2 == Larger(f.nestDepth, s.nestDepth + 1)
           p2 == f.nCompositePoints + s.nCompositePoints
           c2 == f.nCompositeContours + s.nCompositeContours
<1>2. Absorb(f, s) = [f EXCEPT !.next = n2, !.box = b2, !.nestDepth = d2,
                               !.nCompositePoints = p2, !.nCompositeContours = c2]
  BY DEF Absorb
<1> HIDE DEF n2, b2, d2, p2, c2
<1>3. Absorb(f, s) = [glyph |-> glyph, tfm |-> tfm, next |-> n2, box |-> b2, nestDepth |-> d2,
                      nCompositePoints |-> p2, nCompositeContours |-> c2]
  BY <1>1, <1>2
<1>4. f.tfm = tfm
  BY <1>1
<1>5. /\ Absorb(f, s).tfm = tfm /\ Absorb(f, s).box = b2 /\ Absorb(f, s).nestDepth = d2
      /\ Absorb(f, s).nCompositePoints = p2 /\ Absorb(f, s).nCompositeContours = c2
  BY <1>3
<1> QED BY <1>4, <1>5 DEF b2, d2, p2, c2

\* The code's order of composing transformations is of no consequence where scaled
\* references are apart; the transformation stays of that kind.
LEMMA CompositeUpright ==
  ASSUME IsFont(font), ScalesApart, NEW j \in Gids, NEW k \in 1..Len(Refs(j)),
         NEW t \in Transformation, Upright(j, t)
  PROVE  /\ Composite(t, Refs(j)[k]) = After(t, Tfm(Refs(j)[k]))
         /\ Upright(Refs(j)[k].to, Composite(t, Refs(j)[k]))
<1> DEFINE r == Refs(j)[k]
<1>1. r.to \in Gids /\ r.a \in Int /\ r.x \in Int
  BY FontFacts
<1>2. t.a \in Int /\ t.x \in Int
  BY DEF Transformation
<1>3. Refs(j) # <<>>
  BY EmptySeq
<1>4. t.a = 1
  BY <1>3 DEF Upright
<1>5. Referred(r.to)
  BY DEF Referred
<1>6. ASSUME r.a # 1 PROVE Refs(r.to) = <<>> /\ t.x = 0
  <2>1. Refs(r.to) = <<>> /\ ~Referred(j)
    BY <1>6 DEF ScalesApart, Refs, Referred
  <2>2. t = Identity
    BY <2>1 DEF Upright
  <2> QED BY <2>1, <2>2 DEF Identity
<1> DEFINE a == r.a
           x == r.x
           v == t.x
<1>7. Composite(t, r).a = 1 * a /\ Composite(t, r) = [a |-> 1 * a, x |-> x + a * v]
  BY <1>4 DEF Composite
<1>8. After(t, Tfm(r)) = [a |-> 1 * a, x |-> v + 1 * x]
  BY <1>4 DEF After, Tfm
<1>9. a \in Int /\ x \in Int /\ v \in Int /\ (a = 1 \/ v = 0)
  BY <1>1, <1>2, <1>6
<1> HIDE DEF a, x, v
<1>10. x + a * v = v + 1 * x /\ 1 * a = a
  BY <1>9
<1>11. Composite(t, r) = After(t, Tfm(r))
  BY <1>7, <1>8, <1>10
<1>12. Composite(t, r).a # 1 => Refs(r.to) = <<>>
  BY <1>6, <1>7, <1>10 DEF a
<1> QED BY <1>5, <1>11, <1>12 DEF Upright

\* Transformations are composed of whole numbers.
LEMMA CompositeIsTransformation ==
  ASSUME IsFont(font), NEW j \in Gids, NEW k \in 1..Len(Refs(j)), NEW t \in Transformation
  PROVE  Composite(t, Refs(j)[k]) \in Transformation
<1>1. Refs(j)[k].a \in Int /\ Refs(j)[k].x \in Int /\ t.a \in Int /\ t.x \in Int
  BY FontFacts DEF Transformation
<1>2. t.a * Refs(j)[k].a \in Int /\ Refs(j)[k].x + Refs(j)[k].a * t.x \in Int
  BY <1>1
<1> QED BY <1>2 DEF Composite, Transformation

\* A call that takes in the stat of what its reference draws has measured one reference
\* more.
LEMMA AbsorbMeasures ==
  ASSUME IsFont(font), Acyclic, NEW f, NEW s, Waiting(f), Measured(f),
         StatIs(s, Refs(f.glyph)[f.next].to, Composite(f.tfm, Refs(f.glyph)[f.next]))
  PROVE  Measured(Absorb(f, s))
<1> DEFINE j == f.glyph
           n == f.next - 1
           t == f.tfm
           r == Refs(j)[f.next]
           c == Composite(t, r)
           g == Absorb(f, s)
<1>1. j \in Gids /\ f.next \in 1..Len(Refs(j)) /\ Shaped(f)
  BY DEF Waiting, Refs
<1>2. Len(Refs(j)) \in Nat
  BY <1>1, FontFacts
<1>3. n \in 0..(Len(Refs(j)) - 1) /\ n + 1 = f.next
  BY <1>1, <1>2
<1>4. g.glyph = j /\ g.next = f.next + 1 /\ g.tfm = t
  BY <1>1, Absorbed, AbsorbedFields
<1>5. /\ g.box = Union(f.box, s.box) /\ g.nestDepth = Larger(f.nestDepth, s.nestDepth + 1)
      /\ g.nCompositePoints = f.nCompositePoints + s.nCompositePoints
      /\ g.nCompositeContours = f.nCompositeContours + s.nCompositeContours
  BY <1>1, AbsorbedFields
<1> HIDE DEF g
<1>6. g.next - 1 = n + 1
  BY <1>1, <1>4
<1>7. t \in Transformation /\ f.box \in Box /\ s.box \in Box
  BY DEF Measured, StatIs
<1>8. /\ Len(Flat(DrawnTo(j, n + 1))) = Len(Flat(DrawnTo(j, n))) + Len(Flat(Drawn(r.to)))
      /\ Len(DrawnTo(j, n + 1)) = Len(DrawnTo(j, n)) + Len(Drawn(r.to))
      /\ BoxOf(Flat(DrawnTo(j, n + 1)), t)
           = Union(BoxOf(Flat(DrawnTo(j, n)), t), BoxOf(Flat(Drawn(r.to)), After(t, Tfm(r))))
  <2>1. Refs(j)[n + 1] = r
    BY <1>3
  <2> HIDE DEF j, n, t, r
  <2> QED BY <1>1, <1>3, <1>7, <2>1, MeasuresByParts
<1>9. HeightTo(j, n + 1) = Larger(HeightTo(j, n), Height(r.to) + 1)
  <2>1. Refs(j)[n + 1] = r
    BY <1>3
  <2> HIDE DEF j, n, r
  <2> QED BY <1>1, <1>3, <2>1, HeightByParts
<1>10. /\ f.nCompositePoints = Len(Flat(DrawnTo(j, n))) /\ f.nCompositeContours = Len(DrawnTo(j, n))
       /\ f.nestDepth = HeightTo(j, n)
       /\ s.nCompositePoints = Len(Flat(Drawn(r.to))) /\ s.nCompositeContours = Len(Drawn(r.to))
       /\ s.nestDepth = Height(r.to)
  BY DEF Measured, StatIs
<1>11. ASSUME ScalesApart
       PROVE  /\ Upright(j, t)
              /\ NoBlank(j) => g.box = BoxOf(Flat(DrawnTo(j, n + 1)), t)
  <2>1. Upright(j, t) /\ (NoBlank(j) => f.box = BoxOf(Flat(DrawnTo(j, n)), t))
    BY <1>11 DEF Measured
  <2>2. c = After(t, Tfm(r))
    <3> HIDE DEF j, t
    <3> QED BY <1>1, <1>7, <1>11, <2>1, CompositeUpright
  <2>3. NoBlank(r.to) => s.box = BoxOf(Flat(Drawn(r.to)), c)
    BY <1>11 DEF StatIs
  <2>4. NoBlank(j) => NoBlank(r.to)
    <3> HIDE DEF j
    <3> QED BY <1>1, NoBlankByParts
  <2> QED BY <1>5, <1>8, <2>1, <2>2, <2>3, <2>4
<1>12. g.box \in Box
  BY <1>5, <1>7, UnionOfBoxes
<1> HIDE DEF j, n, t, r, c
<1>13. /\ g.nCompositePoints = Len(Flat(DrawnTo(j, n + 1)))
       /\ g.nCompositeContours = Len(DrawnTo(j, n + 1))
       /\ g.nestDepth = HeightTo(j, n + 1)
  BY <1>5, <1>8, <1>9, <1>10
<1>14. Measured(g)
  BY <1>4, <1>6, <1>7, <1>11, <1>12, <1>13 DEF Measured
<1> QED BY <1>14 DEF g

\* A call that has met all its references returns the stat of what its glyph draws.
LEMMA ReturnMeasures ==
  ASSUME IsFont(font), Acyclic, NEW f, IsFrame(f), Measured(f), f.next > Len(Refs(f.glyph))
  PROVE  StatIs(StatOf(f), f.glyph, f.tfm)
<1> DEFINE j == f.glyph
           n == f.next - 1
           s == StatOf(f)
<1>1. j \in Gids /\ f.next \in 1..(Len(Refs(j)) + 1)
  BY DEF IsFrame, Refs
<1>2. Len(Refs(j)) \in Nat
  BY <1>1, FontFacts
<1>3. n = Len(Refs(j))
  BY <1>1, <1>2
<1>4. Drawn(j) = DrawnTo(j, n) /\ Height(j) = HeightTo(j, n) /\ Flat(Drawn(j)) \in Seq(Int)
  BY <1>1, <1>3, DrawnByParts, HeightByParts, FlatIsSeq
<1>5. /\ s.box = IF f.box.min > f.box.max THEN [min |-> 0, max |-> 0] ELSE f.box
      /\ s.nestDepth = f.nestDepth
      /\ s.nPoints = Len(Flat(font[j].contours))
      /\ s.nCompositePoints = f.nCompositePoints /\ s.nCompositeContours = f.nCompositeContours
  BY DEF StatOf, Blank
<1>6. s.box \in Box
  BY <1>5 DEF Measured, Box
<1>7. ASSUME ScalesApart, NoBlank(j) PROVE s.box = BoxOf(Flat(Drawn(j)), f.tfm)
  <2>1. f.box = BoxOf(Flat(Drawn(j)), f.tfm) /\ f.tfm \in Transformation
    BY <1>4, <1>7 DEF Measured
  <2>2. Flat(Drawn(j)) # <<>>
    BY <1>1, <1>7, NoBlankDraws
  <2>3. f.box.min <= f.box.max /\ f.box \in Box
    BY <1>4, <2>1, <2>2, BoxHolds DEF Measured
  <2> QED BY <1>5, <2>1, <2>3 DEF Box
<1> HIDE DEF s
<1>8. StatIs(s, j, f.tfm)
  BY <1>4, <1>5, <1>6, <1>7 DEF StatIs, Measured
<1> QED BY <1>8 DEF s

-----------------------------------------------------------------------------
(* Steps leave the font, and with it what is drawn. *)

\* What is drawn depends on the font alone.
LEMMA DrawnStays ==
  ASSUME font' = font
  PROVE  /\ \A j : Drawn(j)' = Drawn(j) /\ Height(j)' = Height(j) /\ NoBlank(j)' = NoBlank(j)
         /\ \A j, n : DrawnTo(j, n)' = DrawnTo(j, n) /\ HeightTo(j, n)' = HeightTo(j, n)
<1>1. \A j : Drawn(j)' = Drawn(j)
  BY DEF Drawn
<1>2. \A j : Height(j)' = Height(j)
  BY DEF Height
<1>3. \A j : NoBlank(j)' = NoBlank(j)
  BY DEF NoBlank
<1>4. \A j, n : DrawnTo(j, n)' = DrawnTo(j, n)
  BY <1>1 DEF DrawnTo, Refs
<1>5. \A j, n : HeightTo(j, n)' = HeightTo(j, n)
  BY <1>2 DEF HeightTo, Refs
<1> QED BY <1>1, <1>2, <1>3, <1>4, <1>5

\* So does what it means that calls and stats are right.
LEMMA MeasuresStay ==
  ASSUME font' = font
  PROVE  /\ Acyclic' = Acyclic /\ ScalesApart' = ScalesApart
         /\ \A f : Measured(f)' = Measured(f)
         /\ \A s, j, t : StatIs(s, j, t)' = StatIs(s, j, t)
         /\ \A f, g : Asks(f, g)' = Asks(f, g)
         /\ \A open, j : Chained(open, j)' = Chained(open, j)
<1>1. Acyclic' = Acyclic
  BY DEF Acyclic
<1>2. ScalesApart' = ScalesApart
  BY DEF ScalesApart
<1>3. \A j, t : Upright(j, t)' = Upright(j, t)
  BY DEF Upright, Referred, Refs
<1>4. \A f : Measured(f)' = Measured(f)
  BY <1>2, <1>3, DrawnStays DEF Measured
<1>5. \A s, j, t : StatIs(s, j, t)' = StatIs(s, j, t)
  BY <1>2, DrawnStays DEF StatIs
<1>6. \A f, g : Asks(f, g)' = Asks(f, g)
  BY DEF Asks, Refs
<1>7. \A open, j : Chained(open, j)' = Chained(open, j)
  BY <1>4, <1>6 DEF Chained
<1> QED BY <1>1, <1>2, <1>4, <1>5, <1>6, <1>7

-----------------------------------------------------------------------------
(* Delivering a stat *)

\* A right stat, delivered to the call that waits for it or to statGlyf, leaves all calls
\* and stats right.
LEMMA DeliverMeasures ==
  ASSUME IsFont(font), Acyclic, font' = font, NEW open, NEW stat,
         IsSeq(open), at \in 0..N, at < N, DOMAIN stats = Gids,
         \A k \in 1..Len(open) : Waiting(open[k]),
         MeasureInv, Chained(open, at), Deliver(open, stat),
         open = <<>> => StatIs(stat, at, Identity),
         open # <<>> => LET f == open[Len(open)] IN
                        StatIs(stat, Refs(f.glyph)[f.next].to, Composite(f.tfm, Refs(f.glyph)[f.next]))
  PROVE  MeasureInv'
<1>1. CASE open = <<>>
  <2>1. stack' = <<>> /\ stats' = [stats EXCEPT ![at] = stat] /\ at' = at + 1
    BY <1>1 DEF Deliver
  <2>2. \A j \in 0..(at' - 1) : StatIs(stats'[j], j, Identity)
    <3> SUFFICES ASSUME NEW j \in 0..(at' - 1) PROVE StatIs(stats'[j], j, Identity)
      OBVIOUS
    <3>1. at \in Nat /\ at \in Gids /\ (j = at \/ j \in 0..(at - 1))
      BY <2>1, NIsNat DEF Gids
    <3>2. CASE j = at
      <4>1. stats'[j] = stat
        BY <2>1, <3>1, <3>2
      <4> QED BY <1>1, <3>2, <4>1
    <3>3. CASE j \in 0..(at - 1)
      <4>1. j # at
        BY <3>1, <3>3
      <4>2. stats'[j] = stats[j]
        <5>1. j \in Gids
          BY <3>1, <3>3, NIsNat DEF Gids
        <5> QED BY <2>1, <4>1, <5>1
      <4>3. StatIs(stats[j], j, Identity)
        BY <3>3 DEF MeasureInv
      <4> QED BY <4>2, <4>3
    <3> QED BY <3>1, <3>2, <3>3
  <2>3. Chained(<<>>, at')
    <3>1. Len(<<>>) = 0
      OBVIOUS
    <3> QED BY <3>1 DEF Chained
  <2> QED BY <2>1, <2>2, <2>3, MeasuresStay DEF MeasureInv
<1>2. CASE open # <<>>
  <2> DEFINE n == Len(open)
             f == open[n]
             g == Absorb(f, stat)
  <2>1. stack' = [open EXCEPT ![n] = g] /\ UNCHANGED <<stats, at>>
    BY <1>2 DEF Deliver
  <2>2. PICK S : open \in Seq(S)
    BY DEF IsSeq
  <2>3. n \in Nat /\ n > 0 /\ n \in 1..n
    BY <1>2, <2>2, EmptySeq, LenProperties
  <2>4. Waiting(f) /\ Shaped(f) /\ Measured(f)
    BY <2>3 DEF Waiting, Chained
  <2>5. Measured(g)
    <3>1. StatIs(stat, Refs(f.glyph)[f.next].to, Composite(f.tfm, Refs(f.glyph)[f.next]))
      BY <1>2
    <3> HIDE DEF f
    <3> QED BY <2>4, <3>1, AbsorbMeasures
  <2>6. g.glyph = f.glyph /\ g.tfm = f.tfm
    BY <2>4, Absorbed, AbsorbedFields
  <2> HIDE DEF f, g
  <2>7. /\ Len(stack') = n
        /\ stack'[n] = g /\ \A k \in 1..n : k # n => stack'[k] = open[k]
    BY <2>1, <2>2, <2>3
  <2>8. \A k \in 1..n : Measured(stack'[k])
    BY <2>5, <2>7 DEF Chained
  <2>9. stack'[1].glyph = at /\ stack'[1].tfm = Identity
    <3>1. open[1].glyph = at /\ open[1].tfm = Identity
      BY <1>2 DEF Chained
    <3>2. CASE n = 1
      BY <2>6, <2>7, <3>1, <3>2 DEF f
    <3>3. CASE n # 1
      <4>1. 1 \in 1..n
        BY <2>3
      <4> QED BY <2>7, <3>1, <3>3, <4>1
    <3> QED BY <3>2, <3>3
  <2>10. ASSUME NEW k \in 1..n, k < n PROVE Asks(stack'[k], stack'[k + 1])
    <3>1. Asks(open[k], open[k + 1]) /\ stack'[k] = open[k] /\ k + 1 \in 1..n
      BY <2>3, <2>7, <2>10 DEF Chained
    <3>2. stack'[k + 1].glyph = open[k + 1].glyph /\ stack'[k + 1].tfm = open[k + 1].tfm
      <4>1. CASE k + 1 = n
        BY <2>6, <2>7, <4>1 DEF f
      <4>2. CASE k + 1 # n
        BY <2>7, <3>1, <4>2
      <4> QED BY <4>1, <4>2
    <3> QED BY <3>1, <3>2 DEF Asks
  <2>11. Chained(stack', at)
    BY <2>7, <2>8, <2>9, <2>10 DEF Chained
  <2>12. \A j \in 0..(at - 1) : StatIs(stats[j], j, Identity)
    BY DEF MeasureInv
  <2>13. at' = at /\ stats' = stats
    BY <2>1
  <2> QED BY <2>11, <2>12, <2>13, MeasuresStay DEF MeasureInv
<1> QED BY <1>1, <1>2

-----------------------------------------------------------------------------
(* Without circles no call returns early. *)

\* Ranks go down along the open calls.
LEMMA RanksGoDown ==
  ASSUME IInv, Acyclic, MeasureInv, NEW rank, Down(rank)
  PROVE  \A k, m \in 1..Len(stack) : k <= m => rank[stack[m].glyph] + (m - k) <= rank[stack[k].glyph]
<1> DEFINE n == Len(stack)
           R(k) == rank[stack[k].glyph]
<1>0. n \in Nat /\ IsFont(font)
  BY LenProperties DEF IInv, WalkInv, StackInv, IsSeq
<1>1. \A k \in 1..n : stack[k].glyph \in Gids /\ R(k) \in Nat
  <2>1. \A k \in 1..n : stack[k].glyph \in Gids
    BY DEF IInv, WalkInv, StackInv, IsFrame
  <2> HIDE DEF Gids
  <2> QED BY <2>1 DEF Down
<1>2. ASSUME NEW k \in 1..n, k + 1 \in 1..n PROVE R(k + 1) < R(k)
  <2>1. k < n
    BY <1>0, <1>2
  <2>2. Asks(stack[k], stack[k + 1]) /\ Waiting(stack[k])
    BY <2>1 DEF MeasureInv, Chained, IInv, WalkInv, StackInv
  <2>3. stack[k].next \in 1..Len(Refs(stack[k].glyph))
        /\ stack[k + 1].glyph = Refs(stack[k].glyph)[stack[k].next].to
    BY <2>2 DEF Waiting, Asks, Refs
  <2> QED BY <1>1, <2>3 DEF Down
<1> HIDE DEF R
<1> SUFFICES ASSUME NEW k \in 1..n PROVE \A m \in 1..n : k <= m => R(m) + (m - k) <= R(k)
  BY DEF R
<1> DEFINE G == {d \in 0..(n - k) : R(k + d) + d <= R(k)}
<1>3. 0 \in G
  BY <1>0, <1>1
<1>4. \A d \in 0..(n - k - 1) : d \in G => d + 1 \in G
  <2> SUFFICES ASSUME NEW d \in 0..(n - k - 1), d \in G PROVE d + 1 \in G
    OBVIOUS
  <2>1. k + d \in 1..n /\ (k + d) + 1 \in 1..n /\ d + 1 \in 0..(n - k) /\ (k + d) + 1 = k + (d + 1)
    BY <1>0
  <2>2. R((k + d) + 1) < R(k + d)
    BY <1>2, <2>1
  <2>3. R((k + d) + 1) \in Nat /\ R(k + d) \in Nat /\ R(k) \in Nat
    BY <1>1, <2>1
  <2>4. R(k + (d + 1)) = R((k + d) + 1)
    BY <2>1
  <2> QED BY <2>1, <2>2, <2>3, <2>4
<1>5. 0..(n - k) \subseteq G
  <2> DEFINE b == n - k
  <2>1. b \in Nat /\ \A d \in 0..(b - 1) : d \in G => d + 1 \in G
    BY <1>0, <1>4
  <2> HIDE DEF G, b
  <2>2. 0..b \subseteq G
    BY <1>3, <2>1, InductionUpTo
  <2> QED BY <2>2 DEF b
<1>6. ASSUME NEW m \in 1..n, k <= m PROVE R(m) + (m - k) <= R(k)
  <2>1. m - k \in 0..(n - k) /\ k + (m - k) = m
    BY <1>0, <1>6
  <2>2. R(k + (m - k)) + (m - k) <= R(k)
    BY <1>5, <2>1
  <2>3. R(k + (m - k)) = R(m)
    BY <2>1
  <2> QED BY <2>2, <2>3
<1> QED BY <1>6

\* So neither the limit of depth nor a mark ends a call (stat.c:16-28).
LEMMA NoEarlyReturn ==
  ASSUME IInv, Acyclic, MeasureInv, NEW j \in Gids,
         stack # <<>> => LET f == Top IN Waiting(f) /\ j = Refs(f.glyph)[f.next].to
  PROVE  Len(stack) < MaxDepth /\ stated[j] # "doing"
<1> DEFINE n == Len(stack)
<1>0. n \in Nat /\ IsFont(font) /\ (stack # <<>> => n > 0)
  <2>1. PICK S : stack \in Seq(S)
    BY DEF IInv, WalkInv, StackInv, IsSeq
  <2>2. IsFont(font)
    BY DEF IInv, WalkInv
  <2> QED BY <2>1, <2>2, LenProperties, EmptySeq
<1>1. DoingIsOpen
  BY DEF IInv
<1>2. CASE stack = <<>>
  <2>1. n = 0
    BY <1>2
  <2> QED BY <1>1, <2>1, DepthIsNat DEF DoingIsOpen
<1>3. CASE stack # <<>>
  <2>1. PICK rank : Down(rank) /\ \A h \in Gids : rank[h] <= MaxDepth - 1
    BY RankDown
  <2>2. n \in 1..n /\ 1 \in 1..n
    BY <1>0, <1>3
  <2>3. \A k \in 1..n : stack[k].glyph \in Gids /\ rank[stack[k].glyph] \in Nat
                        /\ rank[stack[k].glyph] <= MaxDepth - 1
    <3>1. \A k \in 1..n : stack[k].glyph \in Gids
      BY DEF IInv, WalkInv, StackInv, IsFrame
    <3> HIDE DEF Gids
    <3> QED BY <2>1, <3>1 DEF Down
  <2>4. rank[j] < rank[stack[n].glyph] /\ rank[j] \in Nat
    <3>1. Waiting(Top) /\ j = Refs(Top.glyph)[Top.next].to
      BY <1>3
    <3>2. Top.next \in 1..Len(Refs(Top.glyph)) /\ Top.glyph \in Gids
      BY <3>1 DEF Waiting, Refs
    <3>3. rank[j] < rank[Top.glyph]
      BY <2>1, <3>1, <3>2 DEF Down
    <3>4. rank[j] \in Nat
      <4> HIDE DEF Gids
      <4> QED BY <2>1 DEF Down
    <3> QED BY <3>3, <3>4 DEF Top
  <2>5. \A k \in 1..n : rank[stack[n].glyph] + (n - k) <= rank[stack[k].glyph]
    <3>1. \A k \in 1..n : k <= n
      BY <1>0
    <3> QED BY <2>1, <2>2, <3>1, RanksGoDown
  <2>6. n < MaxDepth
    <3>1. rank[stack[n].glyph] + (n - 1) <= rank[stack[1].glyph]
      BY <2>2, <2>5
    <3>2. rank[stack[1].glyph] <= MaxDepth - 1 /\ rank[stack[1].glyph] \in Nat
          /\ rank[stack[n].glyph] \in Nat
      BY <2>2, <2>3
    <3> QED BY <1>0, <2>4, <3>1, <3>2, DepthIsNat
  <2>7. ASSUME stated[j] = "doing" PROVE FALSE
    <3>1. PICK k \in 1..n : stack[k].glyph = j
      BY <1>1, <2>7 DEF DoingIsOpen
    <3>2. rank[stack[n].glyph] + (n - k) <= rank[j] /\ rank[stack[n].glyph] \in Nat /\ n - k >= 0
      BY <1>0, <2>2, <2>3, <2>5, <3>1
    <3> QED BY <1>0, <2>4, <3>2
  <2> QED BY <2>6, <2>7
<1> QED BY <1>2, <1>3

\* So a call opens a frame.
LEMMA CallMeasures ==
  ASSUME IInv, Acyclic, MeasureInv, font' = font, at < N,
         NEW j \in Gids, NEW t \in Transformation, Call(j, t),
         ScalesApart => Upright(j, t),
         stack = <<>> => j = at /\ t = Identity,
         stack # <<>> => LET f == Top IN /\ Waiting(f) /\ j = Refs(f.glyph)[f.next].to
                                         /\ t = Composite(f.tfm, Refs(f.glyph)[f.next])
  PROVE  MeasureInv'
<1> DEFINE n == Len(stack)
           o == Opened(j, t)
<1>0. IsFont(font) /\ IsSeq(stack)
  BY DEF IInv, WalkInv, StackInv
<1>1. Len(stack) < MaxDepth /\ stated[j] # "doing"
  BY NoEarlyReturn
<1>2. PICK S : stack \in Seq(S)
  BY <1>0 DEF IsSeq
<1>3. n \in Nat /\ (stack = <<>> <=> n = 0)
  BY <1>2, LenProperties, EmptySeq
<1>4. stack' = Append(stack, o) /\ stats' = stats /\ at' = at
  BY <1>1, <1>3, DepthIsNat DEF Call
<1>5. Measured(o) /\ o.glyph = j /\ o.tfm = t
  BY <1>0, OpenedMeasures DEF Opened
<1> HIDE DEF o
<1>6. Len(stack') = n + 1 /\ stack'[n + 1] = o /\ \A k \in 1..n : stack'[k] = stack[k]
  BY <1>2, <1>4
<1>7. \A k \in 1..(n + 1) : k = n + 1 \/ k \in 1..n
  BY <1>3
<1>8. \A k \in 1..(n + 1) : Measured(stack'[k])
  BY <1>5, <1>6, <1>7 DEF MeasureInv, Chained
<1>9. stack'[1].glyph = at /\ stack'[1].tfm = Identity
  <2>1. CASE stack = <<>>
    BY <1>3, <1>5, <1>6, <2>1
  <2>2. CASE stack # <<>>
    <3>1. 1 \in 1..n
      BY <1>3, <2>2
    <3> QED BY <1>6, <2>2, <3>1 DEF MeasureInv, Chained
  <2> QED BY <2>1, <2>2
<1>10. ASSUME NEW k \in 1..(n + 1), k < n + 1 PROVE Asks(stack'[k], stack'[k + 1])
  <2>1. k \in 1..n /\ stack'[k] = stack[k]
    BY <1>3, <1>6, <1>10
  <2>2. CASE k = n
    <3>1. stack # <<>> /\ stack'[k] = Top
      BY <1>3, <2>1, <2>2 DEF Top
    <3>2. o.glyph = Refs(Top.glyph)[Top.next].to /\ o.tfm = Composite(Top.tfm, Refs(Top.glyph)[Top.next])
      BY <1>5, <3>1
    <3>3. stack'[k + 1] = o
      BY <1>6, <2>2
    <3> QED BY <3>1, <3>2, <3>3 DEF Asks
  <2>3. CASE k # n
    <3>1. k < n /\ k + 1 \in 1..n
      BY <1>3, <2>1, <2>3
    <3>2. Asks(stack[k], stack[k + 1])
      BY <2>1, <3>1 DEF MeasureInv, Chained
    <3> QED BY <1>6, <2>1, <3>1, <3>2
  <2> QED BY <2>2, <2>3
<1>11. Chained(stack', at)
  BY <1>6, <1>8, <1>9, <1>10 DEF Chained
<1>12. \A h \in 0..(at - 1) : StatIs(stats[h], h, Identity)
  BY DEF MeasureInv
<1> QED BY <1>4, <1>11, <1>12, MeasuresStay DEF MeasureInv

\* Every step measures what is drawn.
LEMMA NextMeasures ==
  ASSUME IInv, Acyclic, MeasureInv, [Next]_vars
  PROVE  MeasureInv'
<1>0. IsFont(font) /\ IsSeq(stack) /\ at \in 0..N /\ DOMAIN stats = Gids
  BY DEF IInv, WalkInv, StackInv
<1>1. CASE Begin
  <2>1. stack = <<>> /\ at < N /\ Call(at, Identity) /\ font' = font
    BY <1>1 DEF Begin
  <2>2. at \in Gids /\ Identity \in Transformation
    BY <1>0, <2>1, NIsNat DEF Gids, Identity, Transformation
  <2>3. Upright(at, Identity)
    BY DEF Upright, Identity
  <2> QED BY <2>1, <2>2, <2>3, CallMeasures
<1>2. CASE Refer
  <2> DEFINE n == Len(stack)
             r == Refs(Top.glyph)[Top.next]
             t == Composite(Top.tfm, r)
             j == r.to
  <2>1. stack # <<>> /\ Top.next <= Len(Refs(Top.glyph)) /\ font' = font /\ Call(j, t)
    BY <1>2 DEF Refer, TopReferences, Refs
  <2>2. n \in 1..n
    <3>1. PICK S : stack \in Seq(S)
      BY <1>0 DEF IsSeq
    <3> QED BY <2>1, <3>1, EmptySeq, LenProperties
  <2>3. Shaped(Top) /\ IsFrame(Top) /\ Measured(Top)
    BY <2>2 DEF IInv, WalkInv, StackInv, MeasureInv, Chained, Top
  <2>4. Waiting(Top) /\ Top.glyph \in Gids /\ Top.next \in 1..Len(Refs(Top.glyph))
    <3>1. Top.glyph \in Gids /\ Len(Refs(Top.glyph)) \in Nat
      BY <1>0, <2>3, FontFacts DEF IsFrame
    <3>2. Top.next \in 1..Len(Refs(Top.glyph))
      BY <2>1, <2>3, <3>1 DEF IsFrame, Refs
    <3> QED BY <2>3, <3>1, <3>2 DEF Waiting, Refs
  <2>5. j \in Gids
    BY <1>0, <2>4, FontFacts
  <2>6. Top.tfm \in Transformation /\ (ScalesApart => Upright(Top.glyph, Top.tfm))
    BY <2>3 DEF Measured
  <2>7. t \in Transformation
    BY <1>0, <2>4, <2>6, CompositeIsTransformation
  <2>8. ScalesApart => Upright(j, t)
    BY <1>0, <2>4, <2>6, CompositeUpright
  <2>9. at < N
    BY <2>1 DEF IInv, WalkInv
  <2>10. LET f == Top IN /\ Waiting(f) /\ j = Refs(f.glyph)[f.next].to
                         /\ t = Composite(f.tfm, Refs(f.glyph)[f.next])
    BY <2>4
  <2> HIDE DEF t, j, r
  <2> QED BY <2>1, <2>5, <2>7, <2>8, <2>9, <2>10, CallMeasures
<1>3. CASE Return
  <2> DEFINE n == Len(stack)
             open == SubSeq(stack, 1, n - 1)
             stat == StatOf(Top)
  <2>1. /\ stack # <<>> /\ font' = font /\ Top.next > Len(Refs(Top.glyph))
        /\ Deliver(open, stat)
    BY <1>3 DEF Return, TopReferences, Refs
  <2>2. PICK S : stack \in Seq(S)
    BY <1>0 DEF IsSeq
  <2>3. n \in Nat /\ n > 0 /\ n \in 1..n
    BY <2>1, <2>2, EmptySeq, LenProperties
  <2>4. open \in Seq(S) /\ Len(open) = n - 1 /\ \A k \in 1..(n - 1) : open[k] = stack[k]
    <3>1. n - 1 \in Nat /\ n - 1 <= n
      BY <2>3
    <3>2. open = [k \in 1..(n - 1) |-> stack[k]] /\ \A k \in 1..(n - 1) : stack[k] \in S
      BY <2>2, <3>1, ElementOf
    <3> HIDE DEF open
    <3> QED BY <3>1, <3>2
  <2>5. IsFrame(Top) /\ Measured(Top)
    BY <2>3 DEF IInv, WalkInv, StackInv, MeasureInv, Chained, Top
  <2>6. StatIs(stat, Top.glyph, Top.tfm)
    BY <1>0, <2>1, <2>5, ReturnMeasures
  <2> HIDE DEF open, stat
  <2>7. \A k \in 1..(n - 1) : k \in 1..n /\ k < n
    BY <2>3
  <2>8. \A k \in 1..Len(open) : Waiting(open[k])
    BY <2>4, <2>7 DEF IInv, WalkInv, StackInv
  <2>9. (open = <<>> => n = 1) /\ (open # <<>> => n > 1)
    BY <2>3, <2>4, EmptySeq
  <2>10. Chained(open, at)
    <3>1. \A k \in 1..Len(open) : Measured(open[k])
      BY <2>4, <2>7 DEF MeasureInv, Chained
    <3>2. open # <<>> => open[1].glyph = at /\ open[1].tfm = Identity
      <4>1. ASSUME open # <<>> PROVE 1 \in 1..(n - 1)
        BY <2>3, <2>9, <4>1
      <4> QED BY <2>1, <2>4, <4>1 DEF MeasureInv, Chained
    <3>3. ASSUME NEW k \in 1..Len(open), k < Len(open) PROVE Asks(open[k], open[k + 1])
      <4>1. k \in 1..(n - 1) /\ k + 1 \in 1..(n - 1)
        BY <2>3, <2>4, <3>3
      <4> QED BY <2>4, <2>7, <4>1 DEF MeasureInv, Chained
    <3> QED BY <3>1, <3>2, <3>3 DEF Chained
  <2>11. open = <<>> => StatIs(stat, at, Identity)
    <3> SUFFICES ASSUME open = <<>> PROVE StatIs(stat, at, Identity)
      OBVIOUS
    <3>1. Top = stack[1]
      BY <2>9 DEF Top
    <3> QED BY <2>1, <2>6, <3>1 DEF MeasureInv, Chained
  <2>12. open # <<>> => LET f == open[Len(open)] IN
           StatIs(stat, Refs(f.glyph)[f.next].to, Composite(f.tfm, Refs(f.glyph)[f.next]))
    <3> SUFFICES ASSUME open # <<>>
                 PROVE  LET f == open[Len(open)] IN
                        StatIs(stat, Refs(f.glyph)[f.next].to, Composite(f.tfm, Refs(f.glyph)[f.next]))
      OBVIOUS
    <3>0. n > 1
      BY <2>9
    <3>1. n - 1 \in 1..(n - 1) /\ (n - 1) + 1 = n
      BY <2>3, <3>0
    <3>2. open[Len(open)] = stack[n - 1]
      BY <2>4, <3>1
    <3>3. Asks(stack[n - 1], stack[n])
      <4>1. Asks(stack[n - 1], stack[(n - 1) + 1])
        BY <2>7, <3>1 DEF MeasureInv, Chained
      <4> QED BY <3>1, <4>1
    <3> QED BY <2>6, <3>2, <3>3 DEF Asks, Top
  <2>13. at < N /\ IsSeq(open)
    BY <2>1, <2>4 DEF IInv, WalkInv, IsSeq
  <2> QED BY <1>0, <2>1, <2>8, <2>10, <2>11, <2>12, <2>13, DeliverMeasures
<1>4. CASE UNCHANGED <<font, at, stated, stack, stats>>
  <2>1. font' = font /\ at' = at /\ stack' = stack /\ stats' = stats
    BY <1>4
  <2> QED BY <2>1, MeasuresStay DEF MeasureInv
<1>5. (Finish \/ Done \/ UNCHANGED vars) => UNCHANGED <<font, at, stated, stack, stats>>
  BY DEF Finish, Done, vars
<1> QED BY <1>1, <1>2, <1>3, <1>4, <1>5 DEF Next

\* The tables are filled at the end and stay.
LEMMA NextFills ==
  ASSUME IInv, TablesInv, [Next]_vars
  PROVE  TablesInv'
<1>1. CASE Begin \/ Refer \/ Return
  <2>1. tables' = tables /\ at < N
    BY <1>1 DEF Begin, Refer, Return, IInv, WalkInv
  <2>2. tables = Unset
    <3>0. at \in 0..N
      BY DEF IInv, WalkInv
    <3>1. at # N
      BY <2>1, <3>0, NIsNat
    <3> QED BY <3>1 DEF TablesInv
  <2> QED BY <2>1, <2>2 DEF TablesInv
<1>2. CASE Finish
  <2>1. at' = N /\ stats' = stats /\ font' = font /\ tables' = [head |-> HeadBox, maxp |-> Maxp]
    BY <1>2 DEF Finish
  <2>2. HeadBox' = HeadBox
    BY <2>1 DEF HeadBox
  <2>3. Maxp' = Maxp
    BY <2>1 DEF Maxp, Simple, Compound
  <2> QED BY <2>1, <2>2, <2>3 DEF TablesInv
<1>3. CASE UNCHANGED vars
  <2>1. at' = at /\ stats' = stats /\ font' = font /\ tables' = tables
    BY <1>3 DEF vars
  <2>2. HeadBox' = HeadBox
    BY <2>1 DEF HeadBox
  <2>3. Maxp' = Maxp
    BY <2>1 DEF Maxp, Simple, Compound
  <2> QED BY <2>1, <2>2, <2>3 DEF TablesInv
<1> QED BY <1>1, <1>2, <1>3 DEF Next, Done

\* Before the walk nothing is measured.
LEMMA InitFull == Init => FullInv
<1> SUFFICES ASSUME Init PROVE FullInv
  OBVIOUS
<1>1. IInv
  BY InitIInv
<1>2. at = 0 /\ stack = <<>> /\ tables = Unset
  BY DEF Init
<1>3. Chained(stack, at)
  <2>1. Len(stack) = 0
    BY <1>2
  <2> QED BY <1>2, <2>1 DEF Chained
<1>4. MeasureInv
  BY <1>2, <1>3 DEF MeasureInv
<1>5. TablesInv
  BY <1>2 DEF TablesInv
<1> QED BY <1>1, <1>4, <1>5 DEF FullInv

\* Every step keeps the full invariant.
LEMMA NextFull == FullInv /\ [Next]_vars => FullInv'
<1> SUFFICES ASSUME FullInv, [Next]_vars PROVE FullInv'
  OBVIOUS
<1>1. IInv /\ TablesInv /\ (Acyclic => MeasureInv)
  BY DEF FullInv
<1>2. IInv'
  BY <1>1, NextIInv
<1>3. TablesInv'
  BY <1>1, NextFills
<1>4. font' = font
  BY DEF Next, Begin, Refer, Return, Finish, Done, vars
<1>5. Acyclic' => MeasureInv'
  <2>1. Acyclic' = Acyclic
    BY <1>4, MeasuresStay
  <2>2. Acyclic => MeasureInv'
    BY <1>1, NextMeasures
  <2> QED BY <2>1, <2>2
<1> QED BY <1>2, <1>3, <1>5 DEF FullInv

\* The invariant gives the boxes,
LEMMA FullGivesBoxes == FullInv => BoxExact
<1> SUFFICES ASSUME FullInv, Acyclic, ScalesApart, NEW j \in 0..(at - 1), NoBlank(j)
             PROVE  stats[j].box = BoxOf(Flat(Drawn(j)), Identity)
  BY DEF BoxExact
<1>1. StatIs(stats[j], j, Identity)
  BY DEF FullInv, MeasureInv
<1> QED BY <1>1 DEF StatIs

\* the counts,
LEMMA FullGivesCounts == FullInv => CountsExact
<1> SUFFICES ASSUME FullInv, Acyclic, NEW j \in 0..(at - 1)
             PROVE  /\ stats[j].nCompositePoints = Len(Flat(Drawn(j)))
                    /\ stats[j].nCompositeContours = Len(Drawn(j))
                    /\ stats[j].nestDepth = Height(j)
  BY DEF CountsExact
<1>1. StatIs(stats[j], j, Identity)
  BY DEF FullInv, MeasureInv
<1> QED BY <1>1 DEF StatIs

-----------------------------------------------------------------------------
(* What the tables hold *)

Within(b, c) == c.min <= b.min /\ b.max <= c.max

\* The box of the font holds those of the glyphs.
LEMMA HeadHolds ==
  ASSUME NEW j \in Gids, \A h \in Gids : stats[h].box \in Box
  PROVE  Within(stats[j].box, HeadBox) /\ HeadBox \in Box
<1> DEFINE Body(f) == [k \in 0..N |-> IF k = 0 THEN Nowhere ELSE Union(f[k - 1], stats[k - 1].box)]
           box == CHOOSE f : f = Body(f)
           step == [p \in (1..N) \X Box |-> Union(p[2], stats[p[1] - 1].box)]
<1>1. HeadBox = box[N]
  BY DEF HeadBox
<1>2. \A k \in 1..N : k - 1 \in Gids /\ stats[k - 1].box \in Box
  BY NIsNat DEF Gids
<1>3. step \in [(1..N) \X Box -> Box]
  BY <1>2, UnionOfBoxes
<1>4. PICK f \in [0..N -> Box] : f[0] = Nowhere /\ \A k \in 1..N : f[k] = step[<<k, f[k - 1]>>]
  <2> HIDE DEF step
  <2>1. ClimbsTo(N, Box, Nowhere, step)
    BY <1>3, NIsNat, NowhereIsBox, ChainSolves
  <2> QED BY <2>1 DEF ClimbsTo
<1>5. \A k \in 0..N : k # 0 => k \in 1..N /\ k - 1 \in 0..N
  BY NIsNat
<1>6. \A k \in 0..N : f[k] = IF k = 0 THEN Nowhere ELSE Union(f[k - 1], stats[k - 1].box)
  BY <1>4, <1>5
<1>7. f = Body(f)
  BY <1>6
<1>8. box = Body(box)
  <2> HIDE DEF Body
  <2> QED BY <1>7
<1> HIDE DEF box
<1>9. \A k \in 0..N : box[k] = IF k = 0 THEN Nowhere ELSE Union(box[k - 1], stats[k - 1].box)
  BY <1>8
<1>10. box[0] = Nowhere /\ \A k \in 0..(N - 1) : box[k + 1] = Union(box[k], stats[k].box)
  <2>1. box[0] = Nowhere
    BY <1>9, NIsNat
  <2>2. ASSUME NEW k \in 0..(N - 1) PROVE box[k + 1] = Union(box[k], stats[k].box)
    <3> DEFINE m == k + 1
    <3>1. m \in 0..N /\ m # 0 /\ m - 1 = k
      BY NIsNat
    <3> HIDE DEF m
    <3>2. box[m] = Union(box[m - 1], stats[m - 1].box)
      BY <1>9, <3>1
    <3>3. box[m] = Union(box[k], stats[k].box)
      BY <3>1, <3>2
    <3> QED BY <3>3 DEF m
  <2> QED BY <2>1, <2>2
<1> DEFINE G == {k \in 0..N : box[k] \in Box /\ (k > j => Within(stats[j].box, box[k]))}
<1>11. 0 \in G
  BY <1>10, NIsNat, NowhereIsBox DEF Gids
<1>12. \A k \in 0..(N - 1) : k \in G => k + 1 \in G
  <2> SUFFICES ASSUME NEW k \in 0..(N - 1), k \in G PROVE k + 1 \in G
    OBVIOUS
  <2>1. k + 1 \in 0..N /\ k \in Gids /\ j \in Int /\ k \in Int
    BY NIsNat DEF Gids
  <2>2. box[k + 1] = Union(box[k], stats[k].box) /\ box[k] \in Box /\ stats[k].box \in Box
        /\ stats[j].box \in Box
    BY <1>10, <2>1
  <2>3. Within(box[k], box[k + 1]) /\ Within(stats[k].box, box[k + 1]) /\ box[k + 1] \in Box
    BY <2>2 DEF Union, Larger, Box, Within
  <2>4. k + 1 > j => Within(stats[j].box, box[k + 1])
    <3>1. CASE k = j
      BY <2>3, <3>1
    <3>2. CASE k # j
      <4>1. k + 1 > j => k > j
        BY <2>1, <3>2
      <4>2. k > j => Within(stats[j].box, box[k])
        OBVIOUS
      <4> QED BY <2>2, <2>3, <4>1, <4>2 DEF Within, Box
    <3> QED BY <3>1, <3>2
  <2> QED BY <2>1, <2>3, <2>4
<1>13. 0..N \subseteq G
  <2> HIDE DEF G
  <2> QED BY <1>11, <1>12, NIsNat, InductionUpTo
<1>14. N \in G /\ N > j
  BY <1>13, NIsNat DEF Gids
<1> QED BY <1>1, <1>14

\* The largest of the glyphs' counts is as large as each.
LEMMA LargestHolds ==
  ASSUME NEW S, S \subseteq Gids, NEW f, \A h \in S : f[h] \in Nat, NEW j \in S
  PROVE  f[j] <= Largest({f[h] : h \in S})
<1> DEFINE T == {f[h] : h \in S}
<1>1. IsFiniteSet(S)
  <2>1. IsFiniteSet(Gids)
    BY NIsNat, FS_Interval DEF Gids
  <2> QED BY <2>1, FS_Subset
<1>2. IsFiniteSet(T) /\ T \subseteq Nat /\ f[j] \in T
  BY <1>1, ImageIsFinite
<1> HIDE DEF T
<1>3. f[j] <= Largest(T)
  BY <1>2, LargestBounds
<1> QED BY <1>3 DEF T

\* The largest of the glyphs' counts is a number, of no glyphs too.
LEMMA LargestIsNat ==
  ASSUME NEW S, S \subseteq Gids, NEW f, \A h \in S : f[h] \in Nat
  PROVE  Largest({f[h] : h \in S}) \in Nat
<1>1. IsFiniteSet(S)
  <2>1. IsFiniteSet(Gids)
    BY NIsNat, FS_Interval DEF Gids
  <2> QED BY <2>1, FS_Subset
<1>2. IsFiniteSet({f[h] : h \in S}) /\ {f[h] : h \in S} \subseteq Nat
  BY <1>1, ImageIsFinite
<1> QED BY <1>2, LargestBounds

\* and what the tables hold.
LEMMA FullGivesTables == FullInv => TablesCover
<1> SUFFICES ASSUME FullInv, tables # Unset, Acyclic, NEW j \in Gids
             PROVE  /\ ScalesApart /\ NoBlank(j) => \A k \in 1..Len(Flat(Drawn(j))) :
                         tables.head.min <= Flat(Drawn(j))[k] /\ Flat(Drawn(j))[k] <= tables.head.max
                    /\ font[j].contours # <<>> =>
                         Len(Flat(font[j].contours)) <= tables.maxp.maxPoints
                    /\ font[j].contours = <<>> =>
                         /\ Len(Flat(Drawn(j))) <= tables.maxp.maxCompositePoints
                         /\ Len(Drawn(j)) <= tables.maxp.maxCompositeContours
                         /\ Height(j) <= tables.maxp.maxComponentDepth
  BY DEF TablesCover
<1>1. at = N /\ tables = [head |-> HeadBox, maxp |-> Maxp] /\ IsFont(font) /\ MeasureInv
  BY DEF FullInv, TablesInv, IInv, WalkInv
<1>2. \A h \in Gids : StatIs(stats[h], h, Identity)
  BY <1>1 DEF MeasureInv, Gids
<1>3. \A h \in Gids : /\ Flat(Drawn(h)) \in Seq(Int) /\ Drawn(h) \in Seq(Seq(Int))
                      /\ Flat(font[h].contours) \in Seq(Int) /\ Height(h) \in Nat
  BY <1>1, DrawnByParts, FontFacts, FlatIsSeq, HeightByParts
<1>4. \A h \in Gids : /\ Len(Flat(Drawn(h))) \in Nat /\ Len(Drawn(h)) \in Nat
                      /\ Len(Flat(font[h].contours)) \in Nat
  BY <1>3, LenProperties
<1>5. ASSUME ScalesApart, NoBlank(j), NEW k \in 1..Len(Flat(Drawn(j)))
      PROVE  tables.head.min <= Flat(Drawn(j))[k] /\ Flat(Drawn(j))[k] <= tables.head.max
  <2> DEFINE s == Flat(Drawn(j))
  <2>1. stats[j].box = BoxOf(s, Identity) /\ \A h \in Gids : stats[h].box \in Box
    BY <1>2, <1>5 DEF StatIs
  <2>2. Within(stats[j].box, HeadBox) /\ HeadBox \in Box
    BY <2>1, HeadHolds
  <2>3. Identity \in Transformation /\ s \in Seq(Int) /\ s[k] \in Int
    BY <1>3, ElementOfSeq DEF Identity, Transformation
  <2> HIDE DEF s
  <2>4. BoxOf(s, Identity).min <= Identity.x + Identity.a * s[k]
        /\ Identity.x + Identity.a * s[k] <= BoxOf(s, Identity).max
    BY <1>5, <2>3, BoxHolds DEF s
  <2>5. Identity.x + Identity.a * s[k] = s[k]
    BY <2>3 DEF Identity
  <2>6. stats[j].box.min <= s[k] /\ s[k] <= stats[j].box.max
    BY <2>1, <2>4, <2>5
  <2>7. HeadBox.min <= s[k] /\ s[k] <= HeadBox.max
    <3>1. stats[j].box \in Box
      BY <2>1
    <3> QED BY <2>2, <2>3, <2>6, <3>1 DEF Within, Box
  <2> QED BY <1>1, <2>7 DEF s
<1> DEFINE points == [h \in Gids |-> stats[h].nPoints]
           cpoints == [h \in Gids |-> stats[h].nCompositePoints]
           ccontours == [h \in Gids |-> stats[h].nCompositeContours]
           depth == [h \in Gids |-> stats[h].nestDepth]
<1>6. /\ tables.maxp.maxPoints = Largest({stats[h].nPoints : h \in Simple})
      /\ tables.maxp.maxCompositePoints = Largest({stats[h].nCompositePoints : h \in Compound})
      /\ tables.maxp.maxCompositeContours = Largest({stats[h].nCompositeContours : h \in Compound})
      /\ tables.maxp.maxComponentDepth = Largest({stats[h].nestDepth : h \in Compound})
  BY <1>1 DEF Maxp
<1>7. Simple \subseteq Gids /\ Compound \subseteq Gids
  BY DEF Simple, Compound
<1>8. /\ {stats[h].nPoints : h \in Simple} = {points[h] : h \in Simple}
      /\ {stats[h].nCompositePoints : h \in Compound} = {cpoints[h] : h \in Compound}
      /\ {stats[h].nCompositeContours : h \in Compound} = {ccontours[h] : h \in Compound}
      /\ {stats[h].nestDepth : h \in Compound} = {depth[h] : h \in Compound}
  <2> HIDE DEF Gids
  <2> QED BY <1>7
<1>9. \A h \in Gids : /\ points[h] = Len(Flat(font[h].contours)) /\ cpoints[h] = Len(Flat(Drawn(h)))
                      /\ ccontours[h] = Len(Drawn(h)) /\ depth[h] = Height(h)
  BY <1>2 DEF StatIs
<1> HIDE DEF points, cpoints, ccontours, depth
<1>10. \A h \in Gids : points[h] \in Nat /\ cpoints[h] \in Nat /\ ccontours[h] \in Nat /\ depth[h] \in Nat
  BY <1>3, <1>4, <1>9
<1>11. ASSUME font[j].contours # <<>>
       PROVE  Len(Flat(font[j].contours)) <= tables.maxp.maxPoints
  <2>1. j \in Simple
    BY <1>11 DEF Simple
  <2>2. points[j] <= Largest({points[h] : h \in Simple})
    BY <1>7, <1>10, <2>1, LargestHolds
  <2> QED BY <1>6, <1>8, <1>9, <2>2
<1>12. ASSUME font[j].contours = <<>>
       PROVE  /\ Len(Flat(Drawn(j))) <= tables.maxp.maxCompositePoints
              /\ Len(Drawn(j)) <= tables.maxp.maxCompositeContours
              /\ Height(j) <= tables.maxp.maxComponentDepth
  <2>1. CASE Refs(j) # <<>>
    <3>1. j \in Compound
      BY <1>12, <2>1 DEF Compound, Refs
    <3>2. /\ cpoints[j] <= Largest({cpoints[h] : h \in Compound})
          /\ ccontours[j] <= Largest({ccontours[h] : h \in Compound})
          /\ depth[j] <= Largest({depth[h] : h \in Compound})
      BY <1>7, <1>10, <3>1, LargestHolds
    <3> QED BY <1>6, <1>8, <1>9, <3>2
  <2>2. CASE Refs(j) = <<>>
    <3>1. Len(Refs(j)) = 0
      BY <2>2
    <3>2. Drawn(j) = <<>> /\ Height(j) = 0
      BY <1>1, <1>12, <3>1, DrawnByParts, HeightByParts
    <3>3. Len(Drawn(j)) = 0 /\ Len(Flat(Drawn(j))) = 0
      BY <3>2, FlatNone
    <3>4. /\ Largest({cpoints[h] : h \in Compound}) \in Nat
          /\ Largest({ccontours[h] : h \in Compound}) \in Nat
          /\ Largest({depth[h] : h \in Compound}) \in Nat
      BY <1>7, <1>10, LargestIsNat
    <3>5. \A n \in Nat : 0 <= n
      OBVIOUS
    <3>6. /\ tables.maxp.maxCompositePoints \in Nat
          /\ tables.maxp.maxCompositeContours \in Nat
          /\ tables.maxp.maxComponentDepth \in Nat
      BY <1>6, <1>8, <3>4
    <3> QED BY <3>2, <3>3, <3>5, <3>6
  <2> QED BY <2>1, <2>2
<1> QED BY <1>5, <1>11, <1>12

\* The box of a measured glyph is the box of the points a rasterizer draws for it
\* (stat.c:37-82), for every font without circles whose glyphs draw something and whose
\* scaled references are not nested: there the order in which the code composes
\* transformations (stat.c:65) is of no consequence.
THEOREM BoxesAreExact == Spec => []BoxExact
<1> QED BY InitFull, NextFull, FullGivesBoxes, PTL DEF Spec

\* The points and contours a measured glyph is said to have are those drawn for it, and
\* its depth is the longest way down its references (stat.c:53-77), for every font without
\* circles.
THEOREM CountsAreExact == Spec => []CountsExact
<1> QED BY InitFull, NextFull, FullGivesCounts, PTL DEF Spec

\* head and maxp have room for every glyph of a font without circles, written as a simple
\* one or as a composite one (stat.c:115-122 and 127-157).
THEOREM TablesHaveRoom == Spec => []TablesCover
<1> QED BY InitFull, NextFull, FullGivesTables, PTL DEF Spec
=================================================================================
