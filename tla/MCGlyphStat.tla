----------------------------- MODULE MCGlyphStat -----------------------------
(***************************************************************************)
(* Three glyphs with up to two references each, the first with one, in     *)
(* every way, circles included.  Glyph 0 has two contours, 1 has none, 2   *)
(* may have one.                                                           *)
(***************************************************************************)
EXTENDS GlyphStat

Ref(to, a, x) == [to |-> to, a |-> a, x |-> x]
Targets == UNION {[1..n -> Gids] : n \in 0..2}
Outline(j, own) == IF j = 0 THEN <<<<3, 9>>, <<5>>>> ELSE IF j = 2 /\ own THEN <<<<1, 30>>>> ELSE <<>>

\* A reference with nothing nested above or below it turns its component around.
Referred(targets, j) == \E h \in Gids : \E k \in 1..Len(targets[h]) : targets[h][k] = j
FontOf(targets, own) ==
  [j \in Gids |->
     [contours |-> Outline(j, own),
      references |-> [k \in 1..Len(targets[j]) |->
                        Ref(targets[j][k],
                            IF ~Referred(targets, j) /\ targets[targets[j][k]] = <<>> THEN -1 ELSE 1,
                            7 * k + 20 * j)]]]
MCFonts ==
  {FontOf(targets, own) : targets \in {t \in [Gids -> Targets] : Len(t[0]) <= 1}, own \in BOOLEAN}
===============================================================================
