------------------------------ MODULE OtlTables ------------------------------
(***************************************************************************)
(* The two layout tables without lookups: GDEF, lib/table/GDEF.c and       *)
(* lib/consolidate/otl/GDEF.c, and BASE, lib/table/BASE.c.                 *)
(*                                                                         *)
(* GDEF is [glyphClassDef, markAttachClassDef, ligCarets]; a class         *)
(* definition may be absent, Null.  A caret is [format, at], where at is a *)
(* coordinate or, in format 2, the number of a point.                      *)
(* BASE has two axes, which may be absent; an axis is a sequence of        *)
(* scripts [tag, default, values] and a value is [tag, coordinate].  Tags  *)
(* are numbers in their order; 0 is no tag.                                *)
(***************************************************************************)
EXTENDS GposSubtables

-----------------------------------------------------------------------------
(* GDEF. *)

ParseGDEF(js) ==
  [glyphClassDef |-> ParseClassDef(js.glyphClassDef),
   markAttachClassDef |-> ParseClassDef(js.markAttachClassDef),
   ligCarets |-> IF js.ligCarets = Junk THEN <<>>
                 ELSE Mapped(SelectSeq(js.ligCarets, LAMBDA e : e.carets # Junk),
                             LAMBDA e : [e EXCEPT !.carets =
                               Mapped(@, LAMBDA c : IF c = Junk THEN [format |-> 1, at |-> 0] ELSE c)])]
DumpGDEF(t) ==
  LET dumped(cd) == IF cd = Null THEN Junk ELSE DumpClassDef(cd)
  IN [glyphClassDef |-> dumped(t.glyphClassDef),
      markAttachClassDef |-> dumped(t.markAttachClassDef),
      ligCarets |-> IF t.ligCarets = <<>> THEN Junk
                    ELSE Mapped(t.ligCarets, LAMBDA e : [e EXCEPT !.glyph = NameOf(@)])]

\* A class definition without glyphs is dropped; the first carets of a glyph stay.
ConsolidateGDEF(t) ==
  LET settled(cd) == IF cd = Null THEN Null
                     ELSE IF ShrinkClassDef(cd).entries = <<>> THEN Null ELSE ShrinkClassDef(cd)
  IN [glyphClassDef |-> settled(t.glyphClassDef),
      markAttachClassDef |-> settled(t.markAttachClassDef),
      ligCarets |-> ConsolidateBases(t.ligCarets)]

CaretRecord(carets) ==
  <<W(Len(carets))>> \o Mapped(carets, LAMBDA c : P(Words(<<c.format, c.at>>)))
LigCarets(list) ==
  <<P(BuildCoverage(Mapped(list, LAMBDA e : e.glyph))), W(Len(list))>>
    \o Mapped(list, LAMBDA e : P(CaretRecord(e.carets)))

BuildGDEF(t) ==
  LET built(cd) == IF cd = Null THEN PNull ELSE P(BuildClassDef(cd))
  IN Words(<<1, 0>>)
       \o <<built(t.glyphClassDef), PNull,
            IF t.ligCarets = <<>> THEN PNull ELSE P(LigCarets(t.ligCarets)),
            built(t.markAttachClassDef)>>

\* A coordinate is read unsigned, though it was written signed.
ReadCarets(b) ==
  [k \in 1..WordAt(b, 1) |-> LET c == Follow(b, 1 + k) IN [format |-> WordAt(c, 1), at |-> WordAt(c, 2)]]
ReadGDEF(b) ==
  LET list == Follow(b, 5)
      cov == ReadCoverage(Follow(list, 1))
      read(i) == IF IsNull(b, i) THEN Null ELSE ReadClassDef(Follow(b, i))
      carets == IF IsNull(b, 5) THEN <<>>
                ELSE [j \in DOMAIN cov |-> [glyph |-> cov[j], carets |-> ReadCarets(Follow(list, 2 + j))]]
  IN IF ~IsNull(b, 5) /\ Len(cov) # WordAt(list, 2) THEN Null
     ELSE [glyphClassDef |-> read(3), markAttachClassDef |-> read(6), ligCarets |-> carets]

-----------------------------------------------------------------------------
(* BASE. *)

\* A script that is no object is skipped; the scripts are sorted by their tags.
ParseAxis(js) ==
  IF js = Junk THEN Null
  ELSE SortedBy(Mapped(SelectSeq(js, LAMBDA e : e.script # Junk),
                       LAMBDA e : [tag |-> e.tag, default |-> e.script.default,
                                   values |-> IF e.script.values = Junk THEN <<>> ELSE e.script.values]),
                LAMBDA e : e.tag)
ParseBASE(js) == [horizontal |-> ParseAxis(js.horizontal), vertical |-> ParseAxis(js.vertical)]

DumpAxis(axis) ==
  IF axis = Null THEN Junk
  ELSE Mapped(SelectSeq(axis, LAMBDA e : e.tag # 0),
              LAMBDA e : [tag |-> e.tag, script |->
                 [default |-> e.default, values |-> SelectSeq(e.values, LAMBDA v : v.tag # 0)]])
DumpBASE(t) == [horizontal |-> DumpAxis(t.horizontal), vertical |-> DumpAxis(t.vertical)]

\* Every script has a value for every baseline of the axis.
BaseTags(axis) ==
  InOrderOf(({e.default : e \in ToSet(axis)} \ {0})
              \union UNION {{v.tag : v \in ToSet(e.values)} : e \in ToSet(axis)}, LAMBDA tag : tag)

BaseScript(e, tags) ==
  LET given(tag) == SelectSeq(e.values, LAMBDA v : v.tag = tag)
      coordinate(tag) == IF given(tag) = <<>> THEN 0 ELSE given(tag)[1].coordinate
      at == IF e.default \in ToSet(tags) THEN CHOOSE i \in DOMAIN tags : tags[i] = e.default ELSE 1
  IN <<P(Words(<<at - 1, Len(tags)>>) \o Mapped(tags, LAMBDA tag : P(Words(<<1, coordinate(tag)>>)))),
       PNull, W(0)>>

\* A tag takes two cells.
BuildAxis(axis) ==
  LET tags == BaseTags(axis)
      record(e) == Words(<<0, e.tag>>) \o <<P(BaseScript(e, tags))>>
  IN <<P(<<W(Len(tags))>> \o Flattened(tags, LAMBDA tag : Words(<<0, tag>>))),
       P(<<W(Len(axis))>> \o Flattened(axis, record))>>
BuildBASE(t) ==
  LET built(axis) == IF axis = Null THEN PNull ELSE P(BuildAxis(axis))
  IN Words(<<1, 0>>) \o <<built(t.horizontal), built(t.vertical)>>

ReadBaseScript(b, tags) ==
  LET v == Follow(b, 1)
      coordinate(j) == IF IsNull(v, 2 + j) THEN 0 ELSE Signed(WordAt(Follow(v, 2 + j), 2))
  IN IF IsNull(b, 1) \/ WordAt(v, 2) # Len(tags) THEN [default |-> 0, values |-> <<>>]
     ELSE [default |-> tags[1 + (WordAt(v, 1) % Len(tags))],
           values |-> [j \in DOMAIN tags |-> [tag |-> tags[j], coordinate |-> coordinate(j)]]]
ReadAxis(b) ==
  LET list == Follow(b, 1)
      scripts == Follow(b, 2)
      tags == [j \in 1..WordAt(list, 1) |-> WordAt(list, 1 + 2 * j)]
      script(j) == ReadBaseScript(Follow(scripts, 1 + 3 * j), tags)
  IN IF tags = <<>> THEN Null
     ELSE [j \in 1..WordAt(scripts, 1) |-> [tag |-> WordAt(scripts, 3 * j), default |-> script(j).default,
                                        values |-> script(j).values]]
ReadBASE(b) ==
  LET read(i) == IF IsNull(b, i) THEN Null ELSE ReadAxis(Follow(b, i))
  IN [horizontal |-> read(3), vertical |-> read(4)]
=============================================================================
