---------------------------- MODULE GposSubtables ----------------------------
(***************************************************************************)
(* The positioning subtables that are not chaining:                        *)
(* lib/table/otl/subtables/gpos-{common,single,cursive,pair,               *)
(* mark-to-single,mark-to-ligature}.c, and lib/consolidate/otl/            *)
(* gpos-{single,cursive,pair}.c and mark.c.                                *)
(*                                                                         *)
(* A position value is <<dx, dy, dWidth, dHeight>>, an anchor <<x, y>>, or *)
(* <<>> when it is absent; both are whole numbers.  Marks attach by named  *)
(* classes; the names are numbers in the order of strcmp, and those dump.c *)
(* invents, "anchor0" or "ac_0" and so on, are in that order as long as    *)
(* there are no more than ten.                                             *)
(***************************************************************************)
EXTENDS GsubSubtables

-----------------------------------------------------------------------------
(* Position values. *)

Zero == <<0, 0, 0, 0>>
ParseValue(js) == IF js = Junk THEN Zero ELSE js

Bit(f, k) == (f \div 2^k) % 2 = 1

\* required_position_format, of every value of a set.
FormatOf(values) ==
  LET used(k) == IF \E v \in values : v[k] # 0 THEN 2^(k - 1) ELSE 0
  IN used(1) + used(2) + used(3) + used(4)

\* position_format_length, in cells; bk_gpos_value; read_gpos_value at cell i.
Width(f) == Cardinality({k \in 0..7 : Bit(f, k)})
BuildValue(v, f) ==
  Flattened(<<1, 2, 3, 4>>, LAMBDA k : IF Bit(f, k - 1) THEN <<W(v[k])>> ELSE <<>>)
ReadValue(b, i, f) ==
  [k \in 1..4 |-> IF Bit(f, k - 1)
                  THEN Signed(WordAt(b, i + Cardinality({j \in 0..(k - 2) : Bit(f, j)}))) ELSE 0]

-----------------------------------------------------------------------------
(* Anchors. *)

ParseAnchor(js) == IF js = Junk THEN <<>> ELSE js
AnchorCell(a) == IF a = <<>> THEN PNull ELSE P(Words(<<1, a[1], a[2]>>))
ReadAnchor(b, i) ==
  IF IsNull(b, i) THEN <<>>
  ELSE <<Signed(WordAt(Follow(b, i), 2)), Signed(WordAt(Follow(b, i), 3))>>

-----------------------------------------------------------------------------
(* Single: [target, value]. *)

ParseGposSingle(js) == SelectSeq(js, LAMBDA e : e.value # Junk)
DumpGposSingle(st) == Mapped(st, LAMBDA e : [e EXCEPT !.target = NameOf(@)])

\* The first entry of a glyph stays, as it does for cursive entries.
ConsolidateTargets(st) ==
  IfAny(ByKey(Mapped(SelectSeq(st, LAMBDA e : Known(e.target)),
                     LAMBDA e : [e EXCEPT !.target = Gid(@)]),
              LAMBDA e : e.target))

BuildGposSingle(st) ==
  LET values == {e.value : e \in ToSet(st)}
      f == FormatOf(values)
      cov == P(BuildCoverage(Mapped(st, LAMBDA e : e.target)))
  IN IF Cardinality(values) = 1 THEN <<W(1), cov, W(f)>> \o BuildValue(st[1].value, f)
     ELSE <<W(2), cov, W(f), W(Len(st))>> \o Flattened(st, LAMBDA e : BuildValue(e.value, f))

ReadGposSingle(b) ==
  LET targets == ReadCoverage(Follow(b, 2))
      f == WordAt(b, 3)
      value(k) == IF WordAt(b, 1) = 1 THEN ReadValue(b, 4, f)
                  ELSE ReadValue(b, 5 + (k - 1) * Width(f), f)
  IN IF targets = <<>> \/ (WordAt(b, 1) # 1 /\ WordAt(b, 4) # Len(targets)) THEN Null
     ELSE [k \in DOMAIN targets |-> [target |-> targets[k], value |-> value(k)]]

-----------------------------------------------------------------------------
(* Cursive: [target, enter, exit]; in JSON, [target, anchors].             *)

ParseCursive(js) ==
  Mapped(SelectSeq(js, LAMBDA e : e.anchors # Junk),
         LAMBDA e : [target |-> e.target, enter |-> ParseAnchor(e.anchors.enter),
                     exit |-> ParseAnchor(e.anchors.exit)])
DumpAnchor(a) == IF a = <<>> THEN Junk ELSE a
DumpCursive(st) ==
  Mapped(st, LAMBDA e : [target |-> NameOf(e.target),
                         anchors |-> [enter |-> DumpAnchor(e.enter), exit |-> DumpAnchor(e.exit)]])

BuildCursive(st) ==
  <<W(1), P(BuildCoverage(Mapped(st, LAMBDA e : e.target))), W(Len(st))>>
    \o Flattened(st, LAMBDA e : <<AnchorCell(e.enter), AnchorCell(e.exit)>>)

ReadCursive(b) ==
  LET targets == ReadCoverage(Follow(b, 2))
  IN IF targets = <<>> \/ WordAt(b, 3) # Len(targets) THEN Null
     ELSE [k \in DOMAIN targets |->
             [target |-> targets[k], enter |-> ReadAnchor(b, 2 + 2 * k),
              exit |-> ReadAnchor(b, 3 + 2 * k)]]

-----------------------------------------------------------------------------
(* Pair: class definitions first and second, and for each pair of classes  *)
(* the values of both glyphs, [first, second, v1, v2] with v1[c1][c2].     *)

Classes(cd) == 0..cd.maxclass
Matrix(first, second, v(_, _)) == [c1 \in Classes(first) |-> [c2 \in Classes(second) |-> v(c1, c2)]]

\* An item of the JSON matrix is <<first value, second value>>, a number standing for
\* the width of the first; rows and columns that are missing are zero.
ParsePair(js) ==
  LET first == ParseClassDef(js.first)
      second == ParseClassDef(js.second)
      item(c1, c2) == IF c1 + 1 \in DOMAIN js.matrix /\ js.matrix[c1 + 1] # Junk
                      THEN IF c2 + 1 \in DOMAIN js.matrix[c1 + 1]
                           THEN js.matrix[c1 + 1][c2 + 1] ELSE <<Zero, Zero>>
                      ELSE <<Zero, Zero>>
      value(c1, c2, n) == IF item(c1, c2) = Junk THEN Zero ELSE ParseValue(item(c1, c2)[n])
  IN IF js.matrix = Junk \/ first = Null \/ second = Null THEN Null
     ELSE [first |-> first, second |-> second,
           v1 |-> Matrix(first, second, LAMBDA c1, c2 : value(c1, c2, 1)),
           v2 |-> Matrix(first, second, LAMBDA c1, c2 : value(c1, c2, 2))]
DumpPair(st) ==
  [first |-> DumpClassDef(st.first), second |-> DumpClassDef(st.second),
   matrix |-> [r \in 1..(st.first.maxclass + 1) |->
                 [c \in 1..(st.second.maxclass + 1) |->
                    <<st.v1[r - 1][c - 1], st.v2[r - 1][c - 1]>>]]]

ConsolidatePair(st) ==
  LET first == ShrinkClassDef(st.first)
  IN IF first.entries = <<>> THEN Null
     ELSE [st EXCEPT !.first = first, !.second = ShrinkClassDef(st.second)]

Values(v) == UNION {{v[c1][c2] : c2 \in DOMAIN v[c1]} : c1 \in DOMAIN v}
Glyphs(cd) == Mapped(cd.entries, LAMBDA e : e.g)

\* The second glyphs of a pair set: those with a value that is not zero.
PairSet(st, c1) ==
  SortedBy(SelectSeq(st.second.entries,
                     LAMBDA e : st.v1[c1][e.c] # Zero \/ st.v2[c1][e.c] # Zero),
           LAMBDA e : e.g)

BuildPairIndividual(st) ==
  LET f1 == FormatOf(Values(st.v1))
      f2 == FormatOf(Values(st.v2))
      set(e) == <<W(Len(PairSet(st, e.c)))>>
                  \o Flattened(PairSet(st, e.c), LAMBDA x : <<W(x.g)>>
                        \o BuildValue(st.v1[e.c][x.c], f1) \o BuildValue(st.v2[e.c][x.c], f2))
  IN <<W(1), P(BuildCoverage(Glyphs(st.first))), W(f1), W(f2), W(Len(st.first.entries))>>
       \o Mapped(ByKey(st.first.entries, LAMBDA e : e.g), LAMBDA e : P(set(e)))

BuildPairClasses(st) ==
  LET f1 == FormatOf(Values(st.v1))
      f2 == FormatOf(Values(st.v2))
      rows == st.first.maxclass + 1
      columns == st.second.maxclass + 1
  IN <<W(2), P(BuildCoverage(Glyphs(st.first))), W(f1), W(f2), P(BuildClassDef(st.first)),
       P(BuildClassDef(st.second)), W(rows), W(columns)>>
       \o FlattenSeq([i \in 1..(rows * columns) |->
            LET c1 == (i - 1) \div columns
                c2 == (i - 1) % columns
            IN BuildValue(st.v1[c1][c2], f1) \o BuildValue(st.v2[c1][c2], f2)])

\* bk_estimateSizeOfGraph counts every block of the tree, merged or not.
CellsInAll(b) == Len(b) + FoldLeft(LAMBDA n, c : IF c.p = <<>> THEN n ELSE n + Len(c.p[1]), 0, b)

BuildPair(st) ==
  LET individual == BuildPairIndividual(st)
      classes == BuildPairClasses(st)
  IN IF CellsInAll(individual) > CellsInAll(classes) THEN classes ELSE individual

\* Every first glyph becomes a class, and every second glyph, in the order the pair
\* sets mention them.
ReadPairIndividual(b) ==
  LET cov == ReadCoverage(Follow(b, 2))
      f1 == WordAt(b, 3)
      f2 == WordAt(b, 4)
      size == 1 + Width(f1) + Width(f2)
      set(j) == Follow(b, 5 + j)
      pairs(j) == [k \in 1..WordAt(set(j), 1) |-> 2 + (k - 1) * size]
      seconds == FirstOfEach(FlattenSeq([j \in DOMAIN cov |->
                    Mapped(pairs(j), LAMBDA i : WordAt(set(j), i))]), LAMBDA g : g)
      first == ClassDef([j \in DOMAIN cov |-> [g |-> cov[j], c |-> j - 1]], Len(cov) - 1)
      second == ClassDef([n \in DOMAIN seconds |-> [g |-> seconds[n], c |-> n]], Len(seconds))
      found(c1, c2) == {i \in ToSet(pairs(c1 + 1)) : c2 # 0 /\ WordAt(set(c1 + 1), i) = seconds[c2]}
      value(c1, c2, shift, f) ==
        IF found(c1, c2) = {} THEN Zero
        ELSE ReadValue(set(c1 + 1), Max(found(c1, c2)) + shift, f)
  IN IF WordAt(b, 5) # Len(cov) THEN Null
     ELSE [first |-> first, second |-> second,
           v1 |-> Matrix(first, second, LAMBDA c1, c2 : value(c1, c2, 1, f1)),
           v2 |-> Matrix(first, second, LAMBDA c1, c2 : value(c1, c2, 1 + Width(f1), f2))]

ReadPairClasses(b) ==
  LET f1 == WordAt(b, 3)
      f2 == WordAt(b, 4)
      first == ExpandClassDef(ReadCoverage(Follow(b, 2)), ReadClassDef(Follow(b, 5)))
      second == ReadClassDef(Follow(b, 6))
      cell(c1, c2) == 9 + (c1 * WordAt(b, 8) + c2) * (Width(f1) + Width(f2))
  IN IF first.maxclass + 1 # WordAt(b, 7) \/ second.maxclass + 1 # WordAt(b, 8) THEN Null
     ELSE [first |-> first, second |-> second,
           v1 |-> Matrix(first, second, LAMBDA c1, c2 : ReadValue(b, cell(c1, c2), f1)),
           v2 |-> Matrix(first, second,
                         LAMBDA c1, c2 : ReadValue(b, cell(c1, c2) + Width(f1), f2))]

ReadPair(b) == IF WordAt(b, 1) = 1 THEN ReadPairIndividual(b) ELSE ReadPairClasses(b)

-----------------------------------------------------------------------------
(* Marks: [glyph, class, anchor], and the number of classes.  A mark whose *)
(* record is no good has no anchor.                                        *)

ClassNames(marks) == {e.class : e \in {x \in ToSet(marks) : x.class # Junk}}
ClassId_Descending(names, c) == Cardinality({d \in names : d > c})
ClassId(names, c) == Cardinality({d \in names : d < c})

ParseMarks(js) ==
  Mapped(js, LAMBDA e : IF e.class = Junk THEN [glyph |-> e.glyph, class |-> 0, anchor |-> <<>>]
                        ELSE [e EXCEPT !.class = ClassId(ClassNames(js), @)])

\* The anchors of one base or component: JSON gives [class, anchor] for some classes;
\* a class no mark is in is ignored, and the last one given for a class stays.
ParseAnchors(js, names) ==
  [k \in 1..Cardinality(names) |->
     LET given == IF js = Junk THEN <<>>
                  ELSE SelectSeq(js, LAMBDA a : a.class \in names /\ ClassId(names, a.class) = k - 1)
     IN IF given = <<>> THEN <<>> ELSE ParseAnchor(Last(given).anchor)]
DumpAnchors(anchors) ==
  SelectSeq([k \in DOMAIN anchors |-> [class |-> k - 1, anchor |-> anchors[k]]],
            LAMBDA a : a.anchor # <<>>)

\* A mark needs an anchor and a class the table has.
ConsolidateMarks(marks, classCount) ==
  LET valid == Mapped(SelectSeq(marks, LAMBDA e : Known(e.glyph) /\ e.anchor # <<>>
                                                    /\ e.class < classCount),
                      LAMBDA e : [e EXCEPT !.glyph = Gid(@)])
  IN ByKey(valid, LAMBDA e : e.glyph)

\* Bases and ligatures, [glyph, anchors].
ConsolidateBases(bases) ==
  ByKey(Mapped(SelectSeq(bases, LAMBDA e : Known(e.glyph)), LAMBDA e : [e EXCEPT !.glyph = Gid(@)]),
        LAMBDA e : e.glyph)

\* consolidate_mark_to_single, consolidate_mark_to_ligature.
ConsolidateMarkToAny(st) ==
  LET marks == ConsolidateMarks(st.marks, st.classCount)
      bases == ConsolidateBases(st.bases)
  IN IF marks = <<>> \/ bases = <<>> THEN Null ELSE [st EXCEPT !.marks = marks, !.bases = bases]

MarkArray(marks) ==
  <<W(Len(marks))>> \o Flattened(marks, LAMBDA e : <<W(e.class), AnchorCell(e.anchor)>>)
ReadMarks(b, cov) ==
  [j \in 1..WordAt(b, 1) |-> [glyph |-> cov[j], class |-> WordAt(b, 2 * j), anchor |-> ReadAnchor(b, 2 * j + 1)]]

\* The root of both kinds, around an array of marks and an array of what they attach to.
BuildMarkToAny(st, array) ==
  <<W(1), P(BuildCoverage(Mapped(st.marks, LAMBDA e : e.glyph))),
    P(BuildCoverage(Mapped(st.bases, LAMBDA e : e.glyph))), W(st.classCount),
    P(MarkArray(st.marks)), P(array)>>

ReadMarkToAny(b, anchors(_, _, _)) ==
  LET marks == ReadCoverage(Follow(b, 2))
      bases == ReadCoverage(Follow(b, 3))
      array == Follow(b, 6)
  IN IF marks = <<>> \/ bases = <<>> \/ WordAt(array, 1) # Len(bases) THEN Null
     ELSE [classCount |-> WordAt(b, 4), marks |-> ReadMarks(Follow(b, 5), marks),
           bases |-> [j \in DOMAIN bases |->
                        [glyph |-> bases[j], anchors |-> anchors(array, j, WordAt(b, 4))]]]

DumpMarkToAny(st, anchors(_)) ==
  [marks |-> Mapped(st.marks, LAMBDA e : [e EXCEPT !.glyph = NameOf(@)]),
   bases |-> Mapped(st.bases, LAMBDA e : [glyph |-> NameOf(e.glyph), anchors |-> anchors(e.anchors)])]

ParseMarkToAny(js, anchors(_, _)) ==
  LET names == ClassNames(js.marks)
  IN IF js.marks = Junk \/ js.bases = Junk THEN Null
     ELSE [classCount |-> Cardinality(names), marks |-> ParseMarks(js.marks),
           bases |-> Mapped(js.bases, LAMBDA e : [e EXCEPT !.anchors = anchors(@, names)])]

-----------------------------------------------------------------------------
(* Mark to base and mark to mark: a row of anchors for each base.          *)

ParseMarkToSingle(js) == ParseMarkToAny(js, ParseAnchors)
DumpMarkToSingle(st) == DumpMarkToAny(st, DumpAnchors)
BuildMarkToSingle(st) ==
  BuildMarkToAny(st, <<W(Len(st.bases))>> \o Flattened(st.bases, LAMBDA e : Mapped(e.anchors, AnchorCell)))
ReadMarkToSingle(b) ==
  ReadMarkToAny(b, LAMBDA array, j, n : [k \in 1..n |-> ReadAnchor(array, 1 + (j - 1) * n + k)])

-----------------------------------------------------------------------------
(* Mark to ligature: a row of anchors for each component of a ligature.    *)

ParseMarkToLigature(js) ==
  ParseMarkToAny(js, LAMBDA a, names : IF a = Junk THEN <<>>
                                       ELSE Mapped(a, LAMBDA row : ParseAnchors(row, names)))
DumpMarkToLigature(st) == DumpMarkToAny(st, LAMBDA a : Mapped(a, DumpAnchors))
BuildMarkToLigature(st) ==
  LET attach(e) == <<W(Len(e.anchors))>> \o Flattened(e.anchors, LAMBDA row : Mapped(row, AnchorCell))
  IN BuildMarkToAny(st, <<W(Len(st.bases))>> \o Mapped(st.bases, LAMBDA e : P(attach(e))))
ReadMarkToLigature(b) ==
  ReadMarkToAny(b, LAMBDA array, j, n :
    LET attach == Follow(array, 1 + j)
    IN [k \in 1..WordAt(attach, 1) |-> [m \in 1..n |-> ReadAnchor(attach, 1 + (k - 1) * n + m)]])
=============================================================================
