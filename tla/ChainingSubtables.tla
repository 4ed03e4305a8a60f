-------------------------- MODULE ChainingSubtables --------------------------
(***************************************************************************)
(* lib/table/otl/subtables/chaining/: the four tables that hold chaining   *)
(* rules, for substitution and positioning, with context or without.  A    *)
(* rule is                                                                 *)
(*   [match |-> coverages, inputBegins, inputEnds,                         *)
(*    apply |-> sequence of [at |-> position, lookup |-> handle]]          *)
(* and a classified subtable is [rules, bc, ic, fc], in whose rules a      *)
(* class number stands for each coverage.                                  *)
(***************************************************************************)
EXTENDS OtlGlyphSets

CONSTANT LookupOrder   \* the names of the lookups, lookup 0 first

ASSUME LookupsNamedOnce == IsInjective(LookupOrder) /\ LookupOrder # <<>>

-----------------------------------------------------------------------------
ParseApplication(js) ==
  IF js = Junk \/ js.lookup = Junk THEN [at |-> 0, lookup |-> Null] ELSE js

ParseChaining(js) ==
  IF js.match = Junk \/ js.apply = Junk THEN Null
  ELSE [match |-> Mapped(js.match, ParseCoverage),
        apply |-> Mapped(js.apply, ParseApplication),
        inputBegins |-> IF js.inputBegins = Junk THEN 0 ELSE js.inputBegins,
        inputEnds |-> IF js.inputEnds = Junk THEN Len(js.match) ELSE js.inputEnds]

DumpChaining(r) ==
  [r EXCEPT !.match = Mapped(@, DumpCoverage),
            !.apply = Mapped(@, LAMBDA a : [a EXCEPT !.lookup = LookupOrder[@ + 1]])]

KnownLookup(h) == h \in ToSet(LookupOrder) \/ h \in Nat
LookupIndex(h) ==
  IF h \notin Nat THEN (CHOOSE i \in DOMAIN LookupOrder : LookupOrder[i] = h) - 1
  ELSE IF h >= Len(LookupOrder) THEN 0 ELSE h

\* A rule that applies nothing is kept when it was written so: it stops later rules.
ConsolidateChaining(r) ==
  LET match == Mapped(r.match, LAMBDA c : ShrinkCoverage(c, TRUE))
      apply == Mapped(SelectSeq(r.apply, LAMBDA a : KnownLookup(a.lookup)),
                      LAMBDA a : [a EXCEPT !.lookup = LookupIndex(@)])
      atMost(n) == IF n > Len(match) THEN Len(match) ELSE n
  IN IF (r.apply # <<>> /\ apply = <<>>) \/ <<>> \in ToSet(match) THEN Null
     ELSE [match |-> match, apply |-> apply,
           inputBegins |-> atMost(r.inputBegins), inputEnds |-> atMost(r.inputEnds)]

-----------------------------------------------------------------------------
HasContext(r) == r.inputBegins # 0 \/ r.inputEnds # Len(r.match)

\* otfcc_chainingLookupIsContextualLookup
IsContextual(rules) == \A r \in ToSet(rules) : ~HasContext(r)

Applications_FromStart(r, origin) == Flattened(r.apply, LAMBDA a : Words(<<a.at, a.lookup>>))
Applications(r, origin) == Flattened(r.apply, LAMBDA a : Words(<<a.at - origin, a.lookup>>))

\* The cells of a rule, each position of which is written by cell(_); omitted
\* positions of the input are counted though not written.
RuleCells(r, contextual, omitted, cell(_)) ==
  LET match == Mapped(ReverseBacktracks(r.match, r.inputBegins), cell)
      part(first, last) == SubSeq(match, first, last)
      input == part(r.inputBegins + 1 + omitted, r.inputEnds)
      nInput == W(r.inputEnds - r.inputBegins)
      nApply == W(Len(r.apply))
  IN IF contextual THEN <<nInput, nApply>> \o input \o Applications(r, 0)
     ELSE <<W(r.inputBegins)>> \o part(1, r.inputBegins)
            \o <<nInput>> \o input
            \o <<W(Len(match) - r.inputEnds)>> \o part(r.inputEnds + 1, Len(match))
            \o <<nApply>> \o Applications(r, r.inputBegins)

\* Format 3.
BuildChainingCoverage(r, contextual) ==
  <<W(3)>> \o RuleCells(r, contextual, 0, LAMBDA c : P(BuildCoverage(c)))

\* Format 2: the rules in sets by the class of the first input glyph, in their order.
BuildChainingClasses(t, contextual) ==
  LET coverage == P(BuildCoverage(Mapped(t.ic.entries, LAMBDA e : e.g)))
      defs == Mapped(IF contextual THEN <<t.ic>> ELSE <<t.bc, t.ic, t.fc>>,
                     LAMBDA cd : P(BuildClassDef(cd)))
      startingAt(c) == Those(t.rules, LAMBDA r : r.match[r.inputBegins + 1] = c)
      set(c) == <<W(Len(startingAt(c)))>>
                  \o Mapped(startingAt(c), LAMBDA r : P(RuleCells(r, contextual, 1, W)))
  IN <<W(2), coverage>> \o defs \o <<W(t.ic.maxclass + 1)>>
       \o [n \in 1..(t.ic.maxclass + 1) |-> IF startingAt(n - 1) = <<>> THEN PNull ELSE P(set(n - 1))]

-----------------------------------------------------------------------------
\* GeneralReadChainingRule and GeneralReadContextualRule, of the cells of b from
\* the first on: start is the first input coverage where the cells leave it out,
\* and coverage(cell, side) reads the others.
ReadRuleCells(b, first, contextual, start, coverage(_, _)) ==
  LET omitted == Len(start)
      count(i) == IF contextual THEN 0 ELSE WordAt(b, i)
      nBack == count(first)
      atInput == IF contextual THEN first ELSE first + 1 + nBack
      nInput == WordAt(b, atInput)
      input == IF contextual THEN first + 2 ELSE atInput + 1
      afterInput == input + nInput - omitted
      nAhead == count(afterInput)
      atApply == IF contextual THEN first + 1 ELSE afterInput + 1 + nAhead
      apply == IF contextual THEN afterInput ELSE atApply + 1
      read(from, n, side) == [j \in 1..n |-> coverage(b[from + j - 1], side)]
      match == read(first + 1, nBack, "b") \o start \o read(input, nInput - omitted, "i")
                 \o read(afterInput + 1, nAhead, "f")
  IN [match |-> ReverseBacktracks(match, nBack), inputBegins |-> nBack, inputEnds |-> nBack + nInput,
      apply |-> [j \in 1..WordAt(b, atApply) |->
                   [at |-> (nBack + WordAt(b, apply + 2 * j - 2)) % 65536,
                    lookup |-> WordAt(b, apply + 2 * j - 1)]]]

\* classCoverage: class 0 is every glyph that no other class holds.
ClassCoverage(cd, c) ==
  LET others == {e.g : e \in {x \in ToSet(cd.entries) : x.c > 0}}
  IN IF c = 0 THEN InOrderOf(Gids \ others, LAMBDA g : g)
     ELSE Mapped(Those(cd.entries, LAMBDA e : e.c = c), LAMBDA e : e.g)

\* A rule of format 2 whose input starts with class c, by the classes of the sides.
ReadClassRule(b, contextual, cd, c) ==
  LET coverage(cell, side) == ClassCoverage(cd[side], cell.w)
  IN ReadRuleCells(b, 1, contextual, <<ClassCoverage(cd["i"], c)>>, coverage)

\* readChainingFormat2 and readContextualFormat2, which has the classes of the
\* input for every side.
ReadClassRules(b, contextual) ==
  LET def(i) == ReadClassDef(Follow(b, i))
      cd == [b |-> def(3), i |-> def(IF contextual THEN 3 ELSE 4),
             f |-> def(IF contextual THEN 3 ELSE 5)]
      atCount == IF contextual THEN 4 ELSE 6
      rules(c) ==
        LET set == Follow(b, atCount + 1 + c)
        IN IF IsNull(b, atCount + 1 + c) THEN <<>>
           ELSE [k \in 1..WordAt(set, 1) |-> ReadClassRule(Follow(set, 1 + k), contextual, cd, c)]
  IN FlattenSeq([n \in 1..WordAt(b, atCount) |-> rules(n - 1)])

\* otl_read_chaining and otl_read_contextual, the writer's formats.  Every rule
\* becomes a subtable of its own: unconsolidate_chaining.
ReadChaining(b, contextual) ==
  IF WordAt(b, 1) = 2 THEN ReadClassRules(b, contextual)
  ELSE <<ReadRuleCells(b, 2, contextual, <<>>, LAMBDA cell, side : ReadCoverage(Follow(<<cell>>, 1)))>>
=============================================================================
