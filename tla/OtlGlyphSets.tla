---------------------------- MODULE OtlGlyphSets ----------------------------
(***************************************************************************)
(* Coverages and class definitions, lib/table/otl/coverage.c and           *)
(* classdef.c, and the glyph handles and blocks every layout table is made *)
(* of.                                                                     *)
(*                                                                         *)
(* A table on its way to the file is a tree of blocks.  A block is a       *)
(* sequence of cells of 16 bits: a number, or a pointer to a block, which  *)
(* BkGraph turns into an offset.  A reader is given such a block and       *)
(* follows its pointers; blocks come from the writers below, so a reader   *)
(* checks counts but never meets the end of the file.                      *)
(*                                                                         *)
(* A glyph handle is a name, before consolidation of a table parsed from   *)
(* JSON, or an index.  Order is the glyph order that consolidation uses.   *)
(* JSON names its glyphs; a value of a type the parser does not expect is  *)
(* Junk.                                                                   *)
(***************************************************************************)
EXTENDS Integers, Sequences, FiniteSets, SequencesExt, JsonValues

CONSTANT Order  \* the names of the glyphs, glyph 0 first

NumGlyphs == Len(Order)
Gids == 0..(NumGlyphs - 1)

ASSUME OrderNamesOnce == Order \in Seq(ToSet(Order)) /\ IsInjective(Order) /\ NumGlyphs < 65536
ASSUME JunkIsNoName == Junk \notin ToSet(Order) /\ Null \notin ToSet(Order)

-----------------------------------------------------------------------------
(* Handles. *)

NameOf(g) == Order[g + 1]
Known(h) == h \in ToSet(Order) \/ h \in Gids

\* consolidateHandle, of a handle that is known.
Gid(h) == IF h \in Gids THEN h ELSE (CHOOSE i \in DOMAIN Order : Order[i] = h) - 1

\* What stands at these places of s, in its order.
AtPlaces(s, places) ==
  [n \in 1..Cardinality(places) |->
     s[CHOOSE i \in places : Cardinality({h \in places : h < i}) = n - 1]]

\* What of s passes the test.
Those(s, test(_)) == AtPlaces(s, {i \in DOMAIN s : test(s[i])})

\* The hash tables of the consolidation: the first entry of each key stays, and
\* the entries are sorted by the key.  HASH_SORT is a stable merge sort.
FirstOfEach(s, key(_)) ==
  AtPlaces(s, {i \in DOMAIN s : \A j \in 1..(i - 1) : key(s[j]) # key(s[i])})

SortedBy(s, key(_)) ==
  LET before(i, j) == key(s[i]) < key(s[j]) \/ (key(s[i]) = key(s[j]) /\ i < j)
  IN [n \in DOMAIN s |->
        s[CHOOSE j \in DOMAIN s : Cardinality({i \in DOMAIN s : before(i, j)}) = n - 1]]

ByKey(s, key(_)) == SortedBy(FirstOfEach(s, key), key)

\* The members of a set in the order of their keys.
InOrderOf(S, key(_)) ==
  [n \in 1..Cardinality(S) |-> CHOOSE e \in S : Cardinality({d \in S : key(d) < key(e)}) = n - 1]
Ascending(s) == SortedBy(s, LAMBDA g : g)

Mapped(s, f(_)) == [i \in DOMAIN s |-> f(s[i])]
Flattened(s, f(_)) == FlattenSeq(Mapped(s, f))

-----------------------------------------------------------------------------
(* Blocks. *)

W(n) == [w |-> n % 65536, p |-> <<>>]   \* bufwrite16b, b16
P(b) == [w |-> 0, p |-> <<b>>]          \* p16; a NULL block is written as 0
PNull == W(0)
Words(s) == Mapped(s, W)

WordAt(b, i) == b[i].w                                       \* read_16u
Signed(n) == IF n < 32768 THEN n ELSE n - 65536           \* read_16s
IsNull(b, i) == b[i].p = <<>>
Follow(b, i) == b[i].p[1]

\* The cells from first to last, as numbers.
Cells(b, first, last) == Mapped(SubSeq(b, first, last), LAMBDA c : c.w)

-----------------------------------------------------------------------------
(* Coverages: sequences of handles. *)

ParseCoverage(js) == IF js = Junk THEN <<>> ELSE SelectSeq(js, LAMBDA h : h # Junk)
DumpCoverage(cov) == Mapped(cov, NameOf)

\* consolidateCoverage, then shrinkCoverage.
ShrinkCoverage(cov, dosort) ==
  LET kept == Mapped(SelectSeq(cov, Known), Gid)
  IN IF dosort THEN ByKey(kept, LAMBDA g : g) ELSE kept

\* The maximal runs of consecutive members of S, as <<start, end>>.
Runs(S) ==
  LET ends == {b \in S : b + 1 \notin S}
      end(a) == CHOOSE b \in ends : a <= b /\ \A e \in ends : a <= e => b <= e
  IN {<<a, end(a)>> : a \in {g \in S : g - 1 \notin S}}

\* Ranges are written in the order of their starts.
RangeTable(R) ==
  Words(<<2, Cardinality(R)>>) \o Flattened(InOrderOf(R, LAMBDA q : q[1]), Words)

CoverageFormat1(r) == Words(<<1, Len(r)>> \o r)

\* The start index of a run counts the entries before it.
CoverageFormat2(r) ==
  LET upTo(g) == Len(Those(r, LAMBDA x : x <= g))
  IN RangeTable({<<q[1], q[2], upTo(q[2]) + q[1] - q[2] - 1>> : q \in Runs(ToSet(r))})

\* The shorter of the two formats, format 2 when they are equally long.
BuildCoverageFormat(cov, format) ==
  LET r == Ascending(cov)
      one == CoverageFormat1(r)
      two == CoverageFormat2(r)
  IN IF cov = <<>> THEN Words(<<2, 0>>)
     ELSE IF Len(r) < 2 \/ format = 1 THEN one
     ELSE IF format = 2 THEN two
     ELSE IF Len(one) < Len(two) THEN one ELSE two
BuildCoverage(cov) == BuildCoverageFormat(cov, 0)

\* The glyphs of the j-th range of format 2, or of a class definition of format 2,
\* with a key: the code adds the glyph to the start index, not its offset in the range.
RangeOf(b, j, key(_, _)) ==
  LET start == WordAt(b, 3 * j)
      last == WordAt(b, 3 * j + 1)
      value == WordAt(b, 3 * j + 2)
  IN [k \in 1..(last - start + 1) |-> [g |-> start + k - 1, c |-> key(value, start + k - 1)]]
RangeEntries(b, key(_, _)) ==
  FirstOfEach(FlattenSeq([j \in 1..WordAt(b, 2) |-> RangeOf(b, j, key)]), LAMBDA e : e.g)

ReadCoverage(b) ==
  IF WordAt(b, 1) = 1 THEN FirstOfEach(Cells(b, 3, WordAt(b, 2) + 2), LAMBDA g : g)
  ELSE IF WordAt(b, 1) = 2
  THEN Mapped(SortedBy(RangeEntries(b, LAMBDA x, g : x + g), LAMBDA e : e.c), LAMBDA e : e.g)
  ELSE <<>>

\* In the file the backtrack of a context is written from the input outwards.
ReverseBacktracks(match, n) == Reverse(SubSeq(match, 1, n)) \o SubSeq(match, n + 1, Len(match))

-----------------------------------------------------------------------------
(* Class definitions: sequences of [g |-> handle, c |-> class].  The greatest *)
(* class ever pushed is kept beside them: dropping a glyph does not lower it. *)

ClassDef(entries, maxclass) == [entries |-> entries, maxclass |-> maxclass]
MaxClass(entries) == IF entries = <<>> THEN 0 ELSE Max({e.c : e \in ToSet(entries)})
Pushed(entries) == ClassDef(entries, MaxClass(entries))

\* A class that is no number is class 0.
ParseClassDef(js) ==
  IF js = Junk THEN Null
  ELSE Pushed(Mapped(js, LAMBDA e : [e EXCEPT !.c = IF e.c = Junk THEN 0 ELSE e.c]))
DumpClassDef(cd) == Mapped(cd.entries, LAMBDA e : [g |-> NameOf(e.g), c |-> e.c])

\* consolidateClassDef, then shrinkClassDef.
ShrinkClassDef(cd) ==
  [cd EXCEPT !.entries =
     Mapped(SelectSeq(cd.entries, LAMBDA e : Known(e.g)), LAMBDA e : [g |-> Gid(e.g), c |-> e.c])]

\* Class 0 is not written; a run ends where the class changes.
BuildClassDef(cd) ==
  LET listed == {e \in ToSet(cd.entries) : e.c # 0}
      glyphs(c) == {e.g : e \in {x \in listed : x.c = c}}
  IN RangeTable(UNION {{<<q[1], q[2], c>> : q \in Runs(glyphs(c))} : c \in {e.c : e \in listed}})

ReadClassDef(b) ==
  IF WordAt(b, 1) = 1
  THEN Pushed([k \in 1..WordAt(b, 3) |-> [g |-> WordAt(b, 2) + k - 1, c |-> WordAt(b, 3 + k)]])
  ELSE IF WordAt(b, 1) = 2
  THEN Pushed(SortedBy(RangeEntries(b, LAMBDA x, g : x), LAMBDA e : e.c))
  ELSE Pushed(<<>>)

\* The glyphs of the coverage that no class lists are in class 0.
ExpandClassDef(cov, cd) ==
  Pushed(FirstOfEach(cd.entries \o Mapped(cov, LAMBDA h : [g |-> h, c |-> 0]), LAMBDA e : e.g))
=============================================================================
