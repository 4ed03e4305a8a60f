--------------------------- MODULE MCChainingLookup ---------------------------
(***************************************************************************)
(* Small lookups over few glyphs in which coverages overlap, repeat and    *)
(* disagree: up to four rules of one glyph, up to three of two glyphs,     *)
(* three with a backtrack of two, and four of both kinds, so that a scan   *)
(* can end inside a rule after a group is large enough to merge.           *)
(***************************************************************************)
EXTENDS ChainingLookup

CONSTANTS ga, gb, gc, gd, l0, l1, l2, l3, l4

MCOrder == <<ga, gb, gc, gd>>
MCLookupOrder == <<l0, l1, l2, l3, l4>>

Rule(match, begins, ends) == [match |-> match, inputBegins |-> begins, inputEnds |-> ends]
Coverages(S) == SUBSET S \ {{}}

OneGlyph == {Rule(<<x>>, 0, 1) : x \in Coverages(Glyphs)}

\* A glyph before or after the input glyph, or a second input glyph.
TwoGlyphs(S) ==
  {Rule(<<x, y>>, at[1], at[2]) : x \in S, y \in S, at \in {<<0, 2>>, <<1, 2>>, <<0, 1>>}}

MCLookups ==
  UNION {[1..n -> OneGlyph] : n \in 1..3}
    \union UNION {[1..n -> TwoGlyphs(Coverages({0, 1}))] : n \in 1..2}
    \union [1..3 -> TwoGlyphs({{0}, {0, 1}})]
    \union [1..3 -> {Rule(<<{0}, {1, 2}, {1}>>, 2, 3), Rule(<<{1, 2}, {0}, {1}, {1}>>, 2, 3),
                     Rule(<<{1}, {0}, {2}>>, 2, 3), Rule(<<{0}, {0}, {0, 2}>>, 2, 3)}]
    \union [1..4 -> {Rule(<<{0}>>, 0, 1), Rule(<<{1, 2}>>, 0, 1), Rule(<<{2}>>, 0, 1),
                     Rule(<<{1}, {0}>>, 0, 2), Rule(<<{0, 1}, {2}>>, 1, 2),
                     Rule(<<{1, 2}, {0}>>, 0, 1)}]
===============================================================================
