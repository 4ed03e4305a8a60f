------------------------------ MODULE OtlLists ------------------------------
(***************************************************************************)
(* GSUB and GPOS as lists of lookups, features and languages:              *)
(* lib/table/otl/parse.c, build.c, read.c and dump.c.                      *)
(*                                                                         *)
(* A feature is named <<tag, rest>> and a language <<script, language>>,   *)
(* in numbers that are ordered like the texts they stand for; the table's  *)
(* own choice of lookup names is <<tag or type, number>>.  A subtable is   *)
(* [id, size], where a size of zero says that consolidation finds nothing  *)
(* in it.  The objects of JSON are sequences of [name, value], where a     *)
(* value is [alias], [list] or a lookup [type, flags, contextual,          *)
(* subtables]; contextual says that no rule looks before or after itself.  *)
(* In C a feature points to lookups and a language to features; these      *)
(* point here by their names, which are not given twice.                   *)
(***************************************************************************)
EXTENDS OtlGlyphSets

CONSTANTS
  LargeSubtables,   \* LARGE_SUBTABLE_LIMIT: 4096
  ListLimit,        \* no more than this is written without extensions: 0xFF00
  Dflt, dflt        \* the names of languages that are no language, "DFLT" and "dflt"

\* The kinds of lookups of a table that its lists tell apart.
TypeNumber(tag) ==
  IF tag = "GSUB" THEN [context |-> 5, chaining |-> 6, extend |-> 7, unknown |-> 16]
  ELSE [context |-> 7, chaining |-> 8, extend |-> 9, unknown |-> 32]

NamesIn(s) == {s[i].name : i \in DOMAIN s}
Named(s, n) == CHOOSE e \in ToSet(s) : e.name = n
Less(a, b) == a[1] < b[1] \/ (a[1] = b[1] /\ a[2] < b[2])
SortedByName(s) == SortSeq(s, LAMBDA a, b : Less(a.name, b.name))
IsAlias(v) == v # Junk /\ "alias" \in DOMAIN v
IsList(v) == v # Junk /\ "list" \in DOMAIN v

-----------------------------------------------------------------------------
(* From JSON.                                                              *)

\* figureOutLookupsFromJSON: entries [name, lookup, order].  A string is one more entry
\* for the lookup that it names; later lookups of a name are ignored.
LookupEntries(js) ==
  LET entry(n, l, s) == Append(s, [name |-> n, lookup |-> l, order |-> <<1, Len(s)>>])
      step(s, e) ==
        IF e.value = Junk THEN s
        ELSE IF IsAlias(e.value)
        THEN (IF e.value.alias \in NamesIn(s) THEN entry(e.name, Named(s, e.value.alias).lookup, s) ELSE s)
        ELSE IF e.name \in NamesIn(s) \/ e.value.subtables \in {Junk, <<>>} THEN s
        ELSE entry(e.name, [name |-> e.name, type |-> e.value.type, flags |-> e.value.flags,
                            contextual |-> e.value.contextual, subtables |-> e.value.subtables], s)
  IN FoldLeft(step, <<>>, js.lookups)

\* lookupOrder puts the lookups it names first.
Ordered(entries, order) ==
  LET forced(e) == {k \in DOMAIN order : order[k] = e.name}
      settled(e) == IF forced(e) = {} THEN e
                    ELSE [e EXCEPT !.order = <<0, CHOOSE k \in forced(e) : \A i \in forced(e) : i <= k>>]
  IN SortSeq(Mapped(entries, settled), LAMBDA a, b : Less(a.order, b.order))

\* feature_merger_activate: a list that is given again under the same tag becomes an alias.
Merged(features) ==
  LET same(j, k) == /\ features[j].name[1] = features[k].name[1]
                    /\ IsList(features[j].value) /\ features[j].value = features[k].value
      first(k) == CHOOSE j \in 1..k : same(j, k) /\ \A i \in 1..(j - 1) : ~same(i, k)
  IN [k \in DOMAIN features |->
        IF \E j \in 1..(k - 1) : same(j, k)
        THEN [features[k] EXCEPT !.value = [alias |-> features[first(k)].name]] ELSE features[k]]

\* figureOutFeaturesFromJSON: entries [name, alias, feature].
FeatureEntries(features, entries) ==
  LET known(list) == SelectSeq(list, LAMBDA n : n \in NamesIn(entries))
      lookups(list) == Mapped(known(list), LAMBDA n : Named(entries, n).lookup.name)
      step(s, e) ==
        CASE IsList(e.value) ->
               IF known(e.value.list) = <<>> \/ e.name \in NamesIn(s) THEN s
               ELSE Append(s, [name |-> e.name, alias |-> FALSE,
                               feature |-> [name |-> e.name, lookups |-> lookups(e.value.list)]])
          [] IsAlias(e.value) ->
               IF e.value.alias \notin NamesIn(s) THEN s
               ELSE Append(s, [name |-> e.name, alias |-> TRUE, feature |-> Named(s, e.value.alias).feature])
          [] OTHER -> s
  IN SortedByName(FoldLeft(step, <<>>, features))

\* figureOutLanguagesFromJson
LanguageEntries(languages, entries) ==
  LET feature(n) == IF n \in NamesIn(entries) THEN Named(entries, n).feature.name ELSE Null
      features(list) == SelectSeq(Mapped(IF list = Junk THEN <<>> ELSE list, feature), LAMBDA n : n # Null)
      step(s, e) ==
        IF e.value = Junk \/ e.name \in NamesIn(s) THEN s
        ELSE LET l == [name |-> e.name, required |-> feature(e.value.requiredFeature),
                       features |-> features(e.value.features)]
             IN IF l.required = Null /\ l.features = <<>> THEN s ELSE Append(s, l)
  IN SortedByName(FoldLeft(step, <<>>, languages))

ParseLists(js) ==
  LET features(s) == Mapped(SelectSeq(s, LAMBDA e : ~e.alias), LAMBDA e : e.feature)
      l == Ordered(LookupEntries(js), IF js.lookupOrder = Junk THEN <<>> ELSE js.lookupOrder)
      f == FeatureEntries(IF js.merge THEN Merged(js.features) ELSE js.features, l)
      g == LanguageEntries(js.languages, f)
  IN IF <<>> \in {l, f, g} THEN Null
     ELSE [tag |-> js.tag, merge |-> js.merge, lookups |-> Mapped(l, LAMBDA e : e.lookup),
           features |-> features(f), languages |-> g]

\* consolidateOTLTable, of lookups that apply no others: what has become empty goes.
ConsolidateLists(t) ==
  LET lookups == Mapped(t.lookups, LAMBDA l : [l EXCEPT !.subtables = SelectSeq(@, LAMBDA s : s.size > 0)])
      left == {l.name : l \in {m \in ToSet(lookups) : m.subtables # <<>>}}
      features == Mapped(t.features, LAMBDA f : [f EXCEPT !.lookups = SelectSeq(@, LAMBDA n : n \in left)])
      leftF == {f.name : f \in {e \in ToSet(features) : e.lookups # <<>>}}
  IN [t EXCEPT !.lookups = SelectSeq(lookups, LAMBDA l : l.name \in left),
               !.features = SelectSeq(features, LAMBDA f : f.name \in leftF),
               !.languages = Mapped(@, LAMBDA g : [g EXCEPT !.features = SelectSeq(@, LAMBDA n : n \in leftF)])]

DumpLists(t) ==
  LET named(e, v) == [name |-> e.name, value |-> v]
      lookup(l) == [type |-> l.type, flags |-> l.flags, contextual |-> l.contextual, subtables |-> l.subtables]
      required(n) == IF n = Null THEN Junk ELSE n
  IN IF <<>> \in {t.lookups, t.features, t.languages} THEN Null
     ELSE [tag |-> t.tag, merge |-> t.merge,
           lookups |-> Mapped(t.lookups, LAMBDA l : named(l, lookup(l))),
           lookupOrder |-> Mapped(t.lookups, LAMBDA l : l.name),
           features |-> Mapped(t.features, LAMBDA f : named(f, [list |-> f.lookups])),
           languages |-> Mapped(t.languages, LAMBDA g :
             named(g, [requiredFeature |-> required(g.required), features |-> g.features]))]

-----------------------------------------------------------------------------
(* The font.                                                               *)

NoFeatureIndex == 65535

\* The place of the first of that name, counted from 0, and no place of what is gone.
IndexIn(s, n) ==
  IF n \notin NamesIn(s) THEN NoFeatureIndex
  ELSE (CHOOSE i \in DOMAIN s : s[i].name = n /\ \A j \in 1..(i - 1) : s[j].name # n) - 1

\* writeOTLLookups: a lookup whose subtables are large is extended, and all are when
\* together they are too long.  A chaining lookup is never counted as large.
ExtendedLookups(t) ==
  LET number == TypeNumber(t.tag)
      size(l) == FoldLeft(LAMBDA n, s : n + s.size, 0, l.subtables)
      large(l) == l.type # number.chaining /\ size(l) > LargeSubtables
      counted(l) == IF large(l) THEN 8 * Len(l.subtables) ELSE size(l)
      header == 2 + FoldLeft(LAMBDA n, l : n + 8 + 2 * Len(l.subtables), 0, t.lookups)
      all == FoldLeft(LAMBDA n, l : n + counted(l), 0, t.lookups) >= ListLimit - header
  IN {l \in ToSet(t.lookups) : all \/ large(l)}

BuildLookup(t, l, extended) ==
  LET number == TypeNumber(t.tag)
      type == IF l.type = number.chaining /\ l.contextual THEN l.type - 1 ELSE l.type
      stub(s) == [type |-> type, subtable |-> s]
  IN [type |-> IF extended THEN number.extend ELSE type, flags |-> l.flags,
      subtables |-> IF extended THEN Mapped(l.subtables, stub) ELSE l.subtables]

WriteLanguage(t, g) ==
  [required |-> IndexIn(t.features, g.required), features |-> Mapped(g.features, LAMBDA n : IndexIn(t.features, n))]

\* writeOTLScriptAndLanguages: the scripts as the languages come upon them.  The last
\* language that is none is the default of its script.
WriteScripts(t) ==
  LET of(s) == SelectSeq(t.languages, LAMBDA g : g.name[1] = s)
      firsts == SelectSeq([i \in DOMAIN t.languages |-> i],
                  LAMBDA i : \A j \in 1..(i - 1) : t.languages[j].name[1] # t.languages[i].name[1])
      isDefault(g) == g.name[2] \in {Dflt, dflt}
      default(s) == SelectSeq(of(s), isDefault)
      others(s) == SelectSeq(of(s), LAMBDA g : ~isDefault(g))
      script(s) == [tag |-> s,
                    default |-> IF default(s) = <<>> THEN Null ELSE WriteLanguage(t, Last(default(s))),
                    languages |-> Mapped(others(s), LAMBDA g : [tag |-> g.name[2], language |-> WriteLanguage(t, g)])]
  IN Mapped(firsts, LAMBDA i : script(t.languages[i].name[1]))

BuildLists(t) ==
  LET extended == ExtendedLookups(t)
      feature(f) == [tag |-> f.name[1], lookups |-> Mapped(f.lookups, LAMBDA n : IndexIn(t.lookups, n))]
  IN [tag |-> t.tag, merge |-> t.merge, scripts |-> WriteScripts(t), features |-> Mapped(t.features, feature),
      lookups |-> Mapped(t.lookups, LAMBDA l : BuildLookup(t, l, l \in extended)),
      contextual |-> Mapped(t.lookups, LAMBDA l : l.contextual)]

-----------------------------------------------------------------------------
\* A lookup is named by the first feature that refers to it, and counted with the others
\* that features name; one that no feature refers to is named by its type.
LookupName(f, i) ==
  LET uses == FlattenSeq([k \in DOMAIN f.features |->
                Mapped(SelectSeq(f.features[k].lookups, LAMBDA n : n < Len(f.lookups)), LAMBDA n : <<n, f.features[k].tag>>)])
      firsts == SelectSeq([u \in DOMAIN uses |-> u], LAMBDA u : \A v \in 1..(u - 1) : uses[v][1] # uses[u][1])
      mine == {r \in DOMAIN firsts : uses[firsts[r]][1] = i - 1}
  IN IF mine = {} THEN <<f.lookups[i].type + TypeNumber(f.tag).unknown, i - 1>>
     ELSE LET r == CHOOSE r \in mine : TRUE IN <<uses[firsts[r]][2], r - 1>>

\* otfcc_readOtl_lookup: stubs are replaced by what they lead to.
ReadLookup(f, i) ==
  LET l == f.lookups[i]
      number == TypeNumber(f.tag)
      type == IF l.type = number.extend THEN l.subtables[1].type ELSE l.type
      subtables == IF l.type # number.extend THEN l.subtables
                   ELSE Mapped(SelectSeq(l.subtables, LAMBDA s : s.type = type), LAMBDA s : s.subtable)
  IN [name |-> LookupName(f, i), type |-> IF type = number.context THEN number.chaining ELSE type,
      flags |-> l.flags, contextual |-> f.contextual[i], subtables |-> subtables]

FeatureName(f, j) == <<f.features[j].tag, j - 1>>

\* parseLanguage: an index beyond the features is no feature.
ReadLanguage(f, name, l) ==
  LET feature(n) == IF n < Len(f.features) THEN FeatureName(f, n + 1) ELSE Null
  IN [name |-> name, required |-> feature(l.required),
      features |-> SelectSeq(Mapped(l.features, feature), LAMBDA n : n # Null)]

ReadLists(f) ==
  LET lookups(list) == Mapped(SelectSeq(list, LAMBDA n : n < Len(f.lookups)), LAMBDA n : LookupName(f, n + 1))
      script(s) == (IF s.default = Null THEN <<>> ELSE <<ReadLanguage(f, <<s.tag, Dflt>>, s.default)>>)
                     \o Mapped(s.languages, LAMBDA l : ReadLanguage(f, <<s.tag, l.tag>>, l.language))
  IN [tag |-> f.tag, merge |-> f.merge, lookups |-> [i \in DOMAIN f.lookups |-> ReadLookup(f, i)],
      features |-> [j \in DOMAIN f.features |-> [name |-> FeatureName(f, j), lookups |-> lookups(f.features[j].lookups)]],
      languages |-> Flattened(f.scripts, script)]

-----------------------------------------------------------------------------
(* What the lists say: in which order lookups come, and what each language *)
(* of a script asks for, by tag and lookups.  A language that asks for     *)
(* nothing is not written, and a default is a default by either name.      *)

Content(l) == [type |-> l.type, flags |-> l.flags, contextual |-> l.contextual,
               subtables |-> SelectSeq(l.subtables, LAMBDA s : s.size > 0)]

ListFacts(lookups, features, languages) ==
  LET asking == {g \in languages : g.required # Null \/ g.features # <<>>}
  IN IF asking = {} THEN {}
     ELSE {<<"order", lookups>>} \union {<<"feature", f>> : f \in features} \union {<<"language", g>> : g \in asking}

ListsOf(t) ==
  LET lookup(n) == Content(Named(t.lookups, n))
      feature(n) == <<n[1], Mapped(Named(t.features, n).lookups, lookup)>>
      default(g) == IF g = dflt THEN Dflt ELSE g
      language(g) == [script |-> g.name[1], language |-> default(g.name[2]),
                      required |-> IF g.required \in NamesIn(t.features) THEN feature(g.required) ELSE Null,
                      features |-> Mapped(g.features, feature)]
  IN ListFacts(Mapped(t.lookups, Content), {feature(f.name) : f \in ToSet(t.features)},
               {language(g) : g \in ToSet(t.languages)})

\* JSON: each name is the first valid thing it names.
FirstOf(things, n) ==
  LET mine == {k \in DOMAIN things : things[k] # Null /\ things[k].name = n}
  IN IF mine = {} THEN Null ELSE things[CHOOSE k \in mine : \A i \in mine : k <= i].is

IntendedLists(js) ==
  LET named(n, v) == IF v = Null THEN Null ELSE [name |-> n, is |-> v]
      lookup[k \in 0..Len(js.lookups)] ==
        IF k = 0 THEN <<>>
        ELSE LET before == lookup[k - 1]
                 n == js.lookups[k].name
                 v == js.lookups[k].value
             IN Append(before, named(n,
                  CASE v = Junk -> Null
                    [] IsAlias(v) -> FirstOf(before, v.alias)
                    [] OTHER -> IF FirstOf(before, n) # Null \/ v.subtables \in {Junk, <<>>} THEN Null ELSE Content(v)))
      lookups == lookup[Len(js.lookups)]
      known(list) == SelectSeq(Mapped(list, LAMBDA n : FirstOf(lookups, n)), LAMBDA l : l # Null)
      filled(list) == SelectSeq(list, LAMBDA l : l.subtables # <<>>)
      feature[k \in 0..Len(js.features)] ==
        IF k = 0 THEN <<>>
        ELSE LET before == feature[k - 1]
                 n == js.features[k].name
                 v == js.features[k].value
             IN Append(before, named(n,
                  CASE IsList(v) -> IF FirstOf(before, n) # Null \/ known(v.list) = <<>> THEN Null
                                    ELSE <<n[1], filled(known(v.list))>>
                    [] IsAlias(v) -> FirstOf(before, v.alias)
                    [] OTHER -> Null))
      features == feature[Len(js.features)]
      given(n) == LET f == FirstOf(features, n) IN IF f = Null \/ f[2] = <<>> THEN Null ELSE f
      all(list) == SelectSeq(Mapped(IF list = Junk THEN <<>> ELSE list, given), LAMBDA f : f # Null)
      language(g) == [script |-> g.name[1], language |-> IF g.name[2] = dflt THEN Dflt ELSE g.name[2],
                      required |-> given(g.value.requiredFeature), features |-> all(g.value.features)]
      \* Lookups in the order asked for, the others behind in the order of the file.
      order == IF js.lookupOrder = Junk THEN <<>> ELSE js.lookupOrder
      valid == SelectSeq([k \in DOMAIN lookups |-> k], LAMBDA k : lookups[k] # Null)
      asked == SelectSeq([p \in DOMAIN order |-> p], LAMBDA p :
                 order[p] \in {lookups[valid[i]].name : i \in DOMAIN valid} /\ \A q \in (p + 1)..Len(order) : order[q] # order[p])
      rest == SelectSeq(valid, LAMBDA k : lookups[k].name \notin ToSet(order))
      inOrder == Mapped(asked, LAMBDA p : FirstOf(lookups, order[p])) \o Mapped(rest, LAMBDA k : lookups[k].is)
  IN ListFacts(filled(inOrder),
               {given(e.name) : e \in {d \in ToSet(js.features) : IsList(d.value)}} \ {Null},
               {language(g) : g \in ToSet(SelectSeq(js.languages, LAMBDA h : h.value # Junk))})
=============================================================================
