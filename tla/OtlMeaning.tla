------------------------------ MODULE OtlMeaning ------------------------------
(***************************************************************************)
(* What the layout tables mean: the facts about glyphs that a consolidated *)
(* table states, and those its JSON states.  The two are defined apart:    *)
(* neither uses the operations of the other modules.                       *)
(***************************************************************************)
EXTENDS OtlTables, ChainingSubtables

(* What a subtable says, as a set of facts about glyphs.                   *)

\* What the first of several entries for one key says, among those that count.
FirstFor(s, counts(_), key(_), fact(_)) ==
  {fact(s[i]) : i \in {j \in DOMAIN s :
     counts(s[j]) /\ \A h \in 1..(j - 1) : counts(s[h]) => key(s[h]) # key(s[j])}}

InOrder(h) == h \in ToSet(Order)
KnownOnly(js) == Mapped(SelectSeq(js, InOrder), Gid)

\* The first ligature that begins the text, and how much of the text it replaces.
Texts == UNION {[1..n -> 0..2] : n \in 1..3}
LigatureFacts(s, from(_), to(_)) ==
  {<<text, to(e)>> : <<text, e>> \in {<<x, y>> \in Texts \X ToSet(s) :
     \E i \in DOMAIN s : s[i] = y /\ IsPrefix(from(y), x)
                         /\ \A h \in 1..(i - 1) : ~IsPrefix(from(s[h]), x)}}

\* The context, and what becomes of each glyph of the input.
ReverseFacts(match, at, pairs) ==
  IF pairs = {} THEN {}
  ELSE {<<[i \in DOMAIN match |-> IF i = at + 1 THEN {} ELSE match[i]], at, pairs>>}

\* The pairs of glyphs that move, and how far.
PairFacts(firsts, seconds, value(_, _)) ==
  {<<g, h, value(g, h)>> : <<g, h>> \in {p \in firsts \X seconds : value(p[1], p[2]) # <<Zero, Zero>>}}

\* The marks that attach to each base, or to component k of a ligature, and where.
AttachFacts(marks, bases, components(_)) ==
  UNION {{<<m.glyph, b.glyph, a.component, m.anchor, a.anchor>> :
            a \in {x \in components(b) : x.class = m.class /\ x.anchor # <<>>}} :
         <<m, b>> \in marks \X bases}
RowFacts(row, component) ==
  {[component |-> component, class |-> k - 1, anchor |-> row[k]] : k \in DOMAIN row}
GivenFacts(row, component) ==
  IF row = Junk THEN {}
  ELSE {[component |-> component, class |-> a.class, anchor |-> ParseAnchor(a.anchor)] : a \in ToSet(row)}

ClassFacts(which, cd) ==
  IF cd = Null THEN {} ELSE {<<which, e.g, e.c>> : e \in {x \in ToSet(cd.entries) : x.c # 0}}

\* A script without a default has the first baseline of its axis for one, and a
\* baseline it does not mention is at 0; tag 0 stands for the default.
AxisFacts(which, scripts) ==
  LET tags == ({e.default : e \in scripts} \ {0}) \union UNION {{v.tag : v \in e.values} : e \in scripts}
      default(e) == IF e.default = 0 THEN Min(tags) ELSE e.default
  IN IF tags = {} THEN {}
     ELSE {<<which, e.tag, 0, default(e)>> : e \in scripts}
            \union UNION {{<<which, e.tag, v.tag, v.coordinate>> :
                             v \in {x \in e.values : x.coordinate # 0}} : e \in scripts}
ScriptsOf(axis) ==
  IF axis = Null THEN {}
  ELSE {[tag |-> e.tag, default |-> e.default, values |-> ToSet(e.values)] : e \in ToSet(axis)}

\* What a rule matches around the input glyph, and what it then applies where.
RuleFacts(match, begins, ends, apply) == {<<match, begins, ends, apply>>}

MeaningOf(k, t) ==
  LET classOf(g) == LET here == {e \in ToSet(t.second.entries) : e.g = g}
                    IN IF here = {} THEN 0 ELSE (CHOOSE e \in here : TRUE).c
      classOfFirst(g) == (CHOOSE e \in ToSet(t.first.entries) : e.g = g).c
  IN CASE k \in {"gsub_single", "gsub_vert", "gsub_multiple"} -> {<<e.from, e.to>> : e \in ToSet(t)}
       [] k = "gsub_ligature" -> LigatureFacts(t, LAMBDA e : e.from, LAMBDA e : <<e.to, Len(e.from)>>)
       [] k = "gsub_reverse" ->
            ReverseFacts(Mapped(t.match, ToSet), t.inputIndex,
                         {<<t.match[t.inputIndex + 1][i], t.to[i]>> : i \in DOMAIN t.to})
       [] k = "chaining" -> RuleFacts(Mapped(t.match, ToSet), t.inputBegins, t.inputEnds, t.apply)
       [] k = "gpos_single" -> {<<e.target, e.value>> : e \in ToSet(t)}
       [] k = "gpos_cursive" -> {<<e.target, e.enter, e.exit>> : e \in ToSet(t)}
       [] k = "gpos_pair" ->
            PairFacts(ToSet(Glyphs(t.first)), Gids,
                      LAMBDA g, h : <<t.v1[classOfFirst(g)][classOf(h)], t.v2[classOfFirst(g)][classOf(h)]>>)
       [] k = "gpos_mark_to_base" -> AttachFacts(ToSet(t.marks), ToSet(t.bases), LAMBDA b : RowFacts(b.anchors, 1))
       [] k = "gpos_mark_to_ligature" ->
            AttachFacts(ToSet(t.marks), ToSet(t.bases),
                        LAMBDA b : UNION {RowFacts(b.anchors[c], c) : c \in DOMAIN b.anchors})
       [] k = "GDEF" -> ClassFacts("class", t.glyphClassDef) \union ClassFacts("mark", t.markAttachClassDef)
                          \union {<<"caret", e.glyph, e.carets>> : e \in ToSet(t.ligCarets)}
       [] k = "BASE" -> AxisFacts("horizontal", ScriptsOf(t.horizontal))
                          \union AxisFacts("vertical", ScriptsOf(t.vertical))

-----------------------------------------------------------------------------
(* What JSON says.  A glyph the font has not is ignored wherever it occurs. *)

\* The value of the matrix of a pair subtable for two classes.
ItemOf(js, c1, c2) ==
  IF c1 + 1 \in DOMAIN js.matrix /\ js.matrix[c1 + 1] # Junk /\ c2 + 1 \in DOMAIN js.matrix[c1 + 1]
     /\ js.matrix[c1 + 1][c2 + 1] # Junk
  THEN js.matrix[c1 + 1][c2 + 1] ELSE <<Zero, Zero>>
ClassIn(list, g) ==
  LET here == {e.c : e \in {x \in ToSet(list) : x.g = NameOf(g)}} \ {Junk}
  IN IF here = {} THEN 0 ELSE CHOOSE c \in here : TRUE

ListedFacts(which, list) ==
  IF list = Junk THEN {}
  ELSE {<<which, Gid(e.g), e.c>> : e \in {x \in ToSet(list) : InOrder(x.g) /\ x.c \notin {0, Junk}}}

ScriptsIn(axis) ==
  IF axis = Junk THEN {}
  ELSE {[tag |-> e.tag, default |-> e.script.default,
         values |-> IF e.script.values = Junk THEN {} ELSE ToSet(e.script.values)] :
        e \in {x \in ToSet(axis) : x.script # Junk}}

IntendedPairs(js) ==
  IF js.first = Junk \/ js.second = Junk \/ js.matrix = Junk THEN {}
  ELSE PairFacts({Gid(e.g) : e \in {x \in ToSet(js.first) : InOrder(x.g)}}, Gids,
                 LAMBDA g, h : ItemOf(js, ClassIn(js.first, g), ClassIn(js.second, h)))

IntendedAttachments(js, components(_)) ==
  IF js.marks = Junk \/ js.bases = Junk THEN {}
  ELSE AttachFacts(
         FirstFor(js.marks, LAMBDA m : InOrder(m.glyph) /\ m.class # Junk,
                  LAMBDA m : m.glyph, LAMBDA m : [m EXCEPT !.glyph = Gid(@)]),
         FirstFor(js.bases, LAMBDA b : InOrder(b.glyph), LAMBDA b : b.glyph,
                  LAMBDA b : [b EXCEPT !.glyph = Gid(@)]),
         components)

IntendedReverse(js) ==
  LET at == Min({js.inputIndex, Len(js.match) - 1})
      names(list) == IF list = Junk THEN <<>> ELSE SelectSeq(list, LAMBDA h : h # Junk)
      from == names(js.match[at + 1])
      to == names(js.to)
  IN IF js.match = Junk \/ js.to = Junk THEN {}
     ELSE ReverseFacts([i \in DOMAIN js.match |-> ToSet(KnownOnly(names(js.match[i])))], at,
            FirstFor([i \in 1..Min({Len(from), Len(to)}) |-> <<from[i], to[i]>>],
                     LAMBDA e : InOrder(e[1]) /\ InOrder(e[2]), LAMBDA e : e[1],
                     LAMBDA e : <<Gid(e[1]), Gid(e[2])>>))

\* Applications of lookups the font has not are ignored, and a rule that is left
\* without any; one that never had any stays.
IntendedRule(js) ==
  LET glyphs(c) == IF c = Junk THEN {} ELSE ToSet(KnownOnly(SelectSeq(c, LAMBDA h : h # Junk)))
      applies == SelectSeq(js.apply, LAMBDA a : a # Junk /\ a.lookup \in ToSet(LookupOrder))
      given(n, otherwise) == IF n = Junk THEN otherwise ELSE Min({n, Len(js.match)})
      match == Mapped(js.match, glyphs)
  IN IF js.match = Junk \/ js.apply = Junk THEN {}
     ELSE IF {} \in ToSet(match) \/ (js.apply # <<>> /\ applies = <<>>) THEN {}
     ELSE RuleFacts(match, given(js.inputBegins, 0), given(js.inputEnds, Len(js.match)),
                    Mapped(applies, LAMBDA a : [a EXCEPT !.lookup = LookupIndex(@)]))

IntendedBy(k, js) ==
  CASE k \in {"gsub_single", "gsub_vert"} ->
         FirstFor(js, LAMBDA e : InOrder(e.from) /\ InOrder(e.to), LAMBDA e : e.from,
                  LAMBDA e : <<Gid(e.from), Gid(e.to)>>)
    [] k = "gsub_multiple" ->
         FirstFor(js, LAMBDA e : InOrder(e.from) /\ e.to # Junk /\ KnownOnly(e.to) # <<>>,
                  LAMBDA e : e.from, LAMBDA e : <<Gid(e.from), KnownOnly(e.to)>>)
    [] k = "gsub_ligature" ->
         LigatureFacts(SelectSeq(js, LAMBDA e : InOrder(e.to) /\ e.from # Junk /\ KnownOnly(e.from) # <<>>),
                       LAMBDA e : KnownOnly(e.from), LAMBDA e : <<Gid(e.to), Len(KnownOnly(e.from))>>)
    [] k = "gsub_reverse" -> IntendedReverse(js)
    [] k = "chaining" -> IntendedRule(js)
    [] k = "gpos_single" ->
         FirstFor(js, LAMBDA e : InOrder(e.target) /\ e.value # Junk, LAMBDA e : e.target,
                  LAMBDA e : <<Gid(e.target), e.value>>)
    [] k = "gpos_cursive" ->
         FirstFor(js, LAMBDA e : InOrder(e.target) /\ e.anchors # Junk, LAMBDA e : e.target,
                  LAMBDA e : <<Gid(e.target), ParseAnchor(e.anchors.enter), ParseAnchor(e.anchors.exit)>>)
    [] k = "gpos_pair" -> IntendedPairs(js)
    [] k = "gpos_mark_to_base" -> IntendedAttachments(js, LAMBDA b : GivenFacts(b.anchors, 1))
    [] k = "gpos_mark_to_ligature" ->
         IntendedAttachments(js, LAMBDA b : IF b.anchors = Junk THEN {}
           ELSE UNION {GivenFacts(b.anchors[c], c) : c \in DOMAIN b.anchors})
    [] k = "GDEF" -> ListedFacts("class", js.glyphClassDef) \union ListedFacts("mark", js.markAttachClassDef)
                       \union IF js.ligCarets = Junk THEN {}
                              ELSE FirstFor(js.ligCarets, LAMBDA e : InOrder(e.glyph) /\ e.carets # Junk,
                                            LAMBDA e : e.glyph, LAMBDA e : <<"caret", Gid(e.glyph),
                                              Mapped(e.carets, LAMBDA c : IF c = Junk THEN [format |-> 1, at |-> 0] ELSE c)>>)
    [] k = "BASE" -> AxisFacts("horizontal", ScriptsIn(js.horizontal))
                       \union AxisFacts("vertical", ScriptsIn(js.vertical))
=============================================================================
