----------------------------- MODULE MCFontTables -----------------------------
(***************************************************************************)
(* Tables of a font of eight glyphs n0 to n7, in JSON that also mentions a *)
(* glyph the font has not, x, and values of the wrong type.  Eight glyphs  *)
(* are the fewest for which a coverage of two ranges is worth writing as   *)
(* ranges.                                                                 *)
(***************************************************************************)
EXTENDS FontTables

CONSTANTS n0, n1, n2, n3, n4, n5, n6, n7, x, l0, l1, lx

MCOrder == <<n0, n1, n2, n3, n4, n5, n6, n7>>
UpTo(S, n) == UNION {[1..k -> S] : k \in 0..n}

\* Every subset of the glyphs, as a list in reverse order.
Subsets == {InOrderOf(S, LAMBDA g : 0 - g) : S \in SUBSET (1..8)}

Few == {n0, n1, x}
Singles ==
  UpTo([from : Few, to : {n0, n2, x, Junk}], 3)
    \union {[i \in DOMAIN s |-> [from |-> MCOrder[s[i]], to |-> MCOrder[(s[i] % 8) + 1]]] : s \in Subsets}

Multiples == UpTo([from : Few, to : {<<>>, <<n2>>, <<n2, x, n1>>, <<Junk, n3>>, <<x>>, Junk}], 2)

Ligatures ==
  UpTo([from : {<<n0>>, <<n0, n1>>, <<n0, n2>>, <<n1, x, n2>>, Junk}, to : {n3, n4}], 3)
    \union UpTo([from : {<<n0>>, <<n1, n2>>, <<x>>}, to : {n3, x}], 2)

Coverages == {<<n1>>, <<n2, n0>>, <<n1, Junk, n3, n1>>, <<>>}
Reverses ==
  {[match |-> Junk, inputIndex |-> 0, to |-> <<n1>>]}
    \union {[match |-> m, inputIndex |-> i, to |-> t] :
              <<m, i, t>> \in (UpTo(Coverages, 3) \ {<<>>}) \X (0..3) \X {<<n4, n5>>, <<n6, n5, n4>>, <<>>, Junk}}

\* A rule of up to three glyphs, that applies lookups the font has or has not.
MCLookupOrder == <<l0, l1>>
Applies == {Junk, <<>>, <<[at |-> 1, lookup |-> l1], [at |-> 0, lookup |-> l0]>>, <<Junk>>,
            <<[at |-> 0, lookup |-> lx]>>, <<[at |-> 0, lookup |-> lx], Junk, [at |-> 2, lookup |-> l0]>>}
Chainings ==
  {[match |-> Junk, apply |-> <<>>, inputBegins |-> 0, inputEnds |-> 1]}
    \union {[match |-> m, apply |-> a, inputBegins |-> ends[1], inputEnds |-> ends[2]] :
              <<m, a, ends>> \in UpTo(Coverages \union {<<x>>}, 3) \X Applies
                \X {<<0, Junk>>, <<Junk, 1>>, <<1, 2>>, <<2, 3>>, <<5, 9>>}}

SomeValues == {<<0, 0, 0, 0>>, <<0, 0, -3, 0>>, <<5, -1, 0, 0>>}
GposSingles ==
  UpTo([target : {n0, n3, x}, value : SomeValues \union {Junk}], 3)
    \union {[i \in DOMAIN s |-> [target |-> MCOrder[s[i]], value |-> v]] : <<s, v>> \in Subsets \X SomeValues}

SomeAnchors == {Junk, <<0, 0>>, <<7, -2>>}
Cursives == UpTo([target : {n0, n3, x}, anchors : [enter : SomeAnchors, exit : SomeAnchors] \union {Junk}], 2)

\* Classes of up to three glyphs.  A glyph the font has not is in no greater class
\* than the others; glyphs in no class of second glyphs do not move.
ClassLists == {Junk, <<>>} \union {
  <<[g |-> n1, c |-> 1]>>,
  <<[g |-> n5, c |-> 2], [g |-> n4, c |-> 1], [g |-> n3, c |-> 2]>>,
  <<[g |-> n2, c |-> 0], [g |-> n3, c |-> 1]>>,
  <<[g |-> x, c |-> 1], [g |-> n6, c |-> 1], [g |-> n0, c |-> Junk]>>,
  <<[g |-> n0, c |-> 1], [g |-> n1, c |-> 1], [g |-> n2, c |-> 1], [g |-> n3, c |-> 1],
    [g |-> n4, c |-> 2], [g |-> n5, c |-> 2]>>}
None == <<Zero, Zero>>
Kern(n) == <<<<0, 0, n, 0>>, Zero>>
Both == <<<<1, 0, -2, 0>>, <<0, 0, 9, 0>>>>
Matrices == {
  Junk,
  <<<<None, Kern(3)>>>>,
  <<<<None, Kern(-5), Kern(4)>>, <<None, Both, Junk>>, <<None, Kern(1), Kern(1)>>>>,
  <<Junk, <<None, Kern(-7), Kern(-7)>>, <<None, None, Both>>>>}
Pairs == [first : ClassLists, second : ClassLists, matrix : Matrices]

Marks == UpTo([glyph : {n0, n1, x}, class : {3, 5, Junk}, anchor : {<<1, 2>>, <<0, -3>>}], 2)
Rows == {Junk, <<>>, <<[class |-> 5, anchor |-> <<-4, 8>>]>>,
         <<[class |-> 5, anchor |-> Junk], [class |-> 3, anchor |-> <<6, 6>>], [class |-> 4, anchor |-> <<0, 0>>]>>}
MarksToBases ==
  {[marks |-> m, bases |-> b] :
     <<m, b>> \in (Marks \union {Junk}) \X (UpTo([glyph : {n7, n2, x}, anchors : Rows], 1) \union
       {Junk, <<[glyph |-> n7, anchors |-> <<[class |-> 3, anchor |-> <<1, 1>>]>>],
                [glyph |-> n2, anchors |-> <<[class |-> 5, anchor |-> <<2, 2>>], [class |-> 3, anchor |-> <<3, 3>>]>>]>>})}
MarksToLigatures ==
  {[marks |-> m, bases |-> <<[glyph |-> g, anchors |-> a]>>] :
     <<m, g, a>> \in Marks \X {n7, x} \X (UpTo(Rows, 2) \union {Junk})}

CaretLists == {Junk, <<>>, <<[format |-> 1, at |-> 30], [format |-> 2, at |-> 4]>>, <<Junk>>}
GDEFs == [glyphClassDef : ClassLists, markAttachClassDef : ClassLists,
          ligCarets : UpTo([glyph : {n6, n2, x}, carets : CaretLists], 2) \union {Junk}]

Baselines == {Junk, <<>>, <<[tag |-> 7, coordinate |-> -20]>>,
              <<[tag |-> 9, coordinate |-> 0], [tag |-> 7, coordinate |-> 15]>>}
Scripts == [default : {0, 7, 9}, values : Baselines] \union {Junk}
Axes == {Junk, <<>>} \union {<<[tag |-> 2, script |-> s], [tag |-> 1, script |-> t]>> : s, t \in Scripts}
BASEs == [horizontal : Axes, vertical : {Junk, <<[tag |-> 1, script |-> [default |-> 9, values |-> <<>>]]>>}]

\* Up to seven characters in a row: one is skipped, or goes on with the next glyph, or
\* goes back to the second.  The longest subtable of format 4 is chosen too short for
\* some of them.
Steps == {"skip", "next", "back"}
Alphabet(steps) ==
  LET step(r, i) ==
        LET g == IF steps[i] = "next" THEN r.glyph + 1 ELSE 1
        IN IF steps[i] = "skip" THEN r
           ELSE [glyph |-> g, list |-> Append(r.list, [c |-> 64 + i, g |-> MCOrder[(g % 8) + 1]])]
  IN FoldLeft(step, [glyph |-> 0, list |-> <<>>], [i \in DOMAIN steps |-> i]).list
Others == {
  <<>>,
  <<[c |-> 65535, g |-> n1], [c |-> 65536, g |-> n2], [c |-> 65537, g |-> n3]>>,
  <<[c |-> 65534, g |-> n1], [c |-> 70, g |-> n7], [c |-> 1114111, g |-> n0], [c |-> 300, g |-> x]>>,
  <<[c |-> 1114112, g |-> n1], [c |-> 0, g |-> n2], [c |-> 66, g |-> Junk], [c |-> Junk, g |-> n4]>>}
Selections == {
  Junk,
  <<[c |-> 65, s |-> 2, g |-> n1], [c |-> 65, s |-> 1, g |-> x], [c |-> 65, s |-> 2, g |-> n5]>>,
  [i \in 1..7 |-> [c |-> 64 + i, s |-> 3, g |-> MCOrder[i + 1]]] \o <<[c |-> 65, s |-> 1, g |-> n1]>>}
Cmaps ==
  {[cmap |-> Alphabet(steps) \o others, cmap_uvs |-> Junk] :
     <<steps, others>> \in [1..7 -> Steps] \X Others}
    \union {[cmap |-> Alphabet(steps) \o others, cmap_uvs |-> uvs] :
     <<steps, others, uvs>> \in [1..4 -> Steps] \X Others \X Selections}
    \union {[cmap |-> Junk, cmap_uvs |-> Junk]}

Layers == {Junk, [layer |-> Junk, paletteIndex |-> 1]} \union [layer : {n1, n2, x}, paletteIndex : {0, 7, Junk}]
Drawings == UpTo(Layers, 2) \union {Junk}
COLRs ==
  {<<[from |-> g, to |-> l]>> : <<g, l>> \in {n3, x, Junk} \X Drawings}
    \union {<<Junk, [from |-> n5, to |-> l], [from |-> n3, to |-> m], [from |-> n4, to |-> <<[layer |-> n6, paletteIndex |-> 2]>>]>> :
              <<l, m>> \in Drawings \X {<<d>> : d \in Layers}}

Colors == {Junk, [color |-> 5, label |-> 258], [color |-> 6, label |-> Junk]}
Palettes(types) == {Junk} \union [type : types, label : {Junk, 256}, colors : UpTo(Colors, 2) \union {Junk}]
CPALs == {[version |-> v, palettes |-> p] :
            <<v, p>> \in {0, Junk} \X (UpTo(Palettes({Junk, 2}), 2) \union {Junk})}

\* Characters of one, two and three bytes.
NameStrings == {Junk, <<>>, <<65>>, <<195, 169, 66>>, <<226, 130, 172>>}
Latin == {<<65, 66>>, <<195, 169>>}
Base64Texts == {<<>>, <<81, 81, 61, 61>>, <<81, 85, 69, 61>>, <<81, 85, 70, 66, 47, 119, 61, 61>>}
NameRecord(p, e, l, n, s) == [platformID |-> p, encodingID |-> e, languageID |-> l, nameID |-> n, nameString |-> s]
Names ==
  {Junk} \union
  {<<NameRecord(3, 1, 1033, 4, s), NameRecord(1, 0, 0, n, t), Junk, NameRecord(3, 3, 9, 1, u),
     NameRecord(3, 1, 1033, 1, t), NameRecord(0, 4, 0, Junk, s), NameRecord(2, 1, 0, 1, s)>> :
     <<s, t, u, n>> \in NameStrings \X Latin \X Base64Texts \X {1, Junk}}

Gasps == UpTo([rangeMaxPPEM : {8, Junk}, behavior : SUBSET Flags] \union {Junk}, 2) \union {Junk}

TextOf == {Junk, <<>>, <<1>>, <<2, 3>>, <<4, 5, 6>>, <<7, 7, 7, 7>>}
Entry(k, c) == [key |-> k, content |-> c]
GlyphTexts == {Junk} \union {<<Entry(n1, a), Entry(x, <<9>>), Entry(n0, b), Entry(n1, c)>> : a, b, c \in TextOf}
Extras == {Junk, <<Entry("reserved", <<8>>)>>}
            \union {<<Entry("fpgm", a), Entry("cvt", b), Entry("prep", c)>> : a, b, c \in TextOf}
TSI01s == {[glyphs |-> g, extra |-> e] : <<g, e>> \in GlyphTexts \X {Junk, <<Entry("fpgm", <<1, 2, 3>>), Entry("cvt", <<>>)>>}}
            \union {[glyphs |-> <<Entry(n2, a)>>, extra |-> e] : <<a, e>> \in TextOf \X Extras}
TSI23s == {[glyphs |-> g, extra |-> Junk] : g \in GlyphTexts}

\* Contours of three or four points, whole or cut in two, and glyphs with two references.
Walk(steps) ==
  LET at(i, d) == FoldLeft(LAMBDA n, j : n + steps[j][d], 0, [j \in 1..i |-> j])
  IN [i \in DOMAIN steps |-> [x |-> at(i, 1), y |-> at(i, 2), on |-> steps[i][1] >= 0]]
CutAt(s, k) == <<SubSeq(s, 1, k), SubSeq(s, k + 1, Len(s))>>
Drawn(contours, references, code) == [contours |-> contours, references |-> references, instructions |-> code]
Triangle == Drawn(<<Walk(<<<<0, 0>>, <<50, 0>>, <<0, 60>>>>)>>, Junk, <<>>)
Square == Drawn(<<Walk(<<<<7, 9>>, <<20, 0>>, <<0, -20>>, <<-20, 0>>>>)>>, Junk, <<176, 1>>)
Placed(g, x_, y_, m) == [glyph |-> g, x |-> x_, y |-> y_, m |-> m, anchored |-> FALSE, inner |-> 0, outer |-> 0,
                         round |-> FALSE, metrics |-> m = Unit]
Joint(g, m, outer, inner) == [glyph |-> g, x |-> 1, y |-> 0, m |-> m, anchored |-> TRUE, inner |-> inner, outer |-> outer,
                              round |-> TRUE, metrics |-> FALSE]
TheMatrices == {Unit, <<-2, 0, 0, 1>>, <<0, 1, -1, 0>>, <<1, 1, 0, 1>>}
Rest(k) == [i \in 1..k |-> Junk]
Glyfs ==
  {LET r == <<Placed(n3, 0, 0, Unit)>>
   IN <<Drawn(<<Walk(steps), <<>>>>, r, <<>>), Junk, Drawn(Junk, r, <<1>>)>> \o Rest(5) :
     steps \in [1..4 -> {<<0, 0>>, <<1, 0>>, <<-300, 2>>}]}
    \union
  {<<Drawn(CutAt(Walk(steps), 3), Junk, <<>>)>> \o Rest(7) : steps \in [1..4 -> {<<0, 0>>, <<1, 0>>, <<-300, 2>>}]}
    \union
  {<<Drawn(CutAt(Walk(steps), 1), Junk, code), Junk, Square>> \o Rest(5) :
     <<steps, code>> \in [1..3 -> {<<0, 0>>, <<-256, 255>>, <<255, -256>>}] \X {<<>>, <<7, 8, 9>>}}
    \union
  {<<Triangle, Square, Drawn(Junk, <<first, second>>, code), Drawn(<<Junk, <<Junk>>>>, Junk, <<>>)>> \o Rest(4) :
     <<first, second, code>> \in
       ({Placed(n1, p[1], p[2], m) : <<p, m>> \in {<<127, -128>>, <<128, -300>>} \X TheMatrices}
          \union {Junk, Placed(x, 0, 0, Unit)})
       \X ({Joint(g, m, outer, inner) : <<g, m, outer, inner>> \in {n0} \X TheMatrices \X {0, 3, 256} \X {0, 2}}
          \union {Joint(n3, Unit, 3, 2), Placed(n0, 5, 5, Unit), Placed(Junk, 0, 0, Unit)})
       \X {<<176, 0>>}}
    \union
  {<<Triangle, Square, Drawn(Junk, <<Placed(n0, a, 3, Unit), Joint(n1, Unit, 1, 2)>>, <<>>),
     Drawn(Junk, <<Placed(n2, 100, b, Unit), Joint(n1, m, outer, 1)>>, <<>>)>> \o Rest(4) :
     <<a, b, m, outer>> \in {0, 9} \X {0, -7} \X TheMatrices \X {0, 4, 6}}

\* Metrics of up to four glyphs.
MetricsOf4(w, h, a, v, y, box) ==
  [advanceWidth |-> w, horizontalOrigin |-> h, advanceHeight |-> a, verticalOrigin |-> v, yPel |-> y,
   xMin |-> box, yMax |-> box]
Fonts(glyphs) == [cff : BOOLEAN, shortVmtx : BOOLEAN, vertical : BOOLEAN, glyphs : glyphs]
Metricses ==
  Fonts({[j \in DOMAIN w |-> MetricsOf4(w[j], Junk, w[j], 5 - w[j], 1, 0)] : w \in UpTo({2, 3, 7}, 5) \ {<<>>}})
    \union
  Fonts({[j \in 1..4 |-> MetricsOf4(<<4, 5, 4, 4>>[j], h[j], Junk, v[j], y[j], 4 * j)] :
           <<h, v, y>> \in {<<0, 0, 0, 0>>, <<-3, Junk, 2, 0>>} \X [1..4 -> {3, -9, Junk}]
                             \X {<<1, 0, 1, 1>>, <<3, Junk, 1, 40>>}})

\* Up to three lookups, of which s is small, b is large, e is empty and c is chaining,
\* with another name of one; up to three features of two tags and four languages.
Lookup(type, flags, contextual, subtables) ==
  [type |-> type, flags |-> flags, contextual |-> contextual, subtables |-> subtables]
Small == Lookup(1, 0, FALSE, <<[id |-> 1, size |-> 6], [id |-> 2, size |-> 0]>>)
Big == Lookup(4, 9, FALSE, <<[id |-> 3, size |-> 20], [id |-> 4, size |-> 30]>>)
Empty == Lookup(2, 0, FALSE, <<[id |-> 5, size |-> 0]>>)
Chain == Lookup(6, 1, TRUE, <<[id |-> 6, size |-> 50]>>)
Item(n, v) == [name |-> n, value |-> v]
ls == <<200, 1>>
lb == <<200, 2>>
le == <<200, 3>>
lc == <<200, 4>>
LookupLists == {
  <<Item(lb, Big), Item(ls, Small)>>,
  <<Item(le, Empty), Item(lc, Chain), Item(ls, Small)>>,
  <<Item(lb, [alias |-> ls]), Item(ls, Small), Item(lc, [alias |-> ls]), Item(le, Big)>>,
  <<Item(lc, [Chain EXCEPT !.contextual = FALSE]), Item(lb, Big), Item(lc, Small), Item(ls, Lookup(1, 0, FALSE, <<>>)), Item(le, Junk)>>}
LookupOrders == {Junk, <<lc, ls>>, <<ls, lb, ls>>}
FeatureLists == {
  <<Item(<<101, 5>>, [list |-> <<lb>>]), Item(<<100, 7>>, [list |-> <<ls, lc>>]), Item(<<100, 0>>, [list |-> <<ls, lc>>])>>,
  <<Item(<<100, 1>>, [list |-> <<le, lb>>]), Item(<<101, 1>>, [alias |-> <<100, 1>>]), Item(<<101, 2>>, [list |-> <<ls>>])>>,
  <<Item(<<101, 0>>, [list |-> <<le>>]), Item(<<100, 0>>, [list |-> <<lc, lc, lb>>]), Item(<<101, 0>>, [list |-> <<ls>>]),
    Item(<<100, 3>>, Junk)>>}
LanguageSystem(r, fs) == [requiredFeature |-> r, features |-> fs]
LanguageValues == {LanguageSystem(Junk, <<<<101, 5>>, <<100, 0>>, <<101, 1>>>>), LanguageSystem(<<100, 7>>, <<<<101, 0>>>>),
                   LanguageSystem(<<101, 2>>, Junk)}
LanguageLists ==
  {<<Item(<<9, Dflt>>, v), Item(<<8, 3>>, w), Item(<<9, 3>>, Junk)>> : v, w \in LanguageValues}
    \union {<<Item(<<9, 5>>, v), Item(<<9, dflt>>, w), Item(<<10, Dflt>>, v)>> : v, w \in LanguageValues}
Listses ==
  {[tag |-> "GSUB", merge |-> m, lookups |-> l, lookupOrder |-> o, features |-> f, languages |-> g] :
     <<m, l, o, f, g>> \in BOOLEAN \X LookupLists \X LookupOrders \X FeatureLists \X LanguageLists}

\* CFF tables of one to four glyphs, by name or with up to three fonts, and numbers
\* that every length of an integer in a dictionary begins and ends with.  Charstrings
\* together are about as long as offsets of one byte reach.
MCNotdef == <<46>>
Text(c) == <<c, c>>
Integers2 == {-107, -108, -1131, 107, 108, 1131, 1132, 32767}
Integers4 == {32768, -32769, 100000}
CffFont(names, numbers, bbox, private) == [names |-> names, numbers |-> numbers, bbox |-> bbox, private |-> private]
PlainFont == CffFont(<<>>, <<>>, <<0, 0, 0, 0>>, Junk)
FontWith(n) == CffFont(1 :> Text(70) @@ 4 :> Text(71) @@ 3072 :> Text(70), 3075 :> n, <<0, -20, n, 300>>,
                       [arrays |-> 7 :> <<n, -20, 0>> @@ 8 :> <<>>, numbers |-> 10 :> n @@ 3082 :> 7])
Code(j, n) == [i \in 1..n |-> j] \o <<14>>
CffGlyphs(lengths, fds) ==
  [j \in DOMAIN lengths |-> [name |-> IF j = 1 THEN MCNotdef ELSE Text(64 + j), fd |-> fds[j], code |-> Code(j, lengths[j])]]
Cff(font, registry, fdArray, glyphs, forced, calls) ==
  [fontName |-> Text(90), font |-> font, cidRegistry |-> registry, cidOrdering |-> Junk, cidSupplement |-> 5,
   fdArray |-> fdArray, glyphs |-> glyphs, forceCid |-> forced, calls |-> [j \in DOMAIN glyphs |-> calls[j]]]
CallLists == {<<"none", "none", "none", "none">>, <<"local", "global", "none", "local">>, <<"global", "local", "local", "global">>}
Subfont(n, f) == [name |-> Text(n), font |-> f]
FdArrays == {<<Subfont(81, FontWith(108)), Subfont(70, PlainFont), Subfont(83, FontWith(-1131))>>,
             <<Subfont(81, PlainFont)>>}
FdChoices == {<<Text(70), Text(70), Junk, Text(83)>>, <<Text(81), Text(84), Text(70), Text(70)>>, <<Junk, Text(83), Text(83), Text(83)>>}
NoFds == [j \in 1..4 |-> Junk]
Cffs ==
  {Cff(FontWith(n), Junk, Junk, CffGlyphs(l, NoFds), forced, c) :
     <<n, l, forced, c>> \in (Integers2 \union Integers4) \X {<<1, 2, 3>>} \X BOOLEAN \X CallLists}
    \union
  {Cff(FontWith(20), r, f, CffGlyphs(l, fds), forced, c) :
     <<r, f, l, fds, forced, c>> \in {Junk, Text(70)} \X FdArrays \X {<<1>>, <<4, 80, 20, 100>>, <<100, 80, 50, 20>>, <<100, 80, 51, 20>>}
                                    \X FdChoices \X {FALSE} \X CallLists}
\* Numbers of the range of 16 bits below those of two bytes.
ShortIntegers(k) ==
  {Cff(FontWith(n), Junk, Junk, CffGlyphs(<<1, 2>>, NoFds), FALSE, c) : <<n, c>> \in {-32768, -1200, 1132} \X CallLists}

\* Up to three stems in an order that sorting undoes by exchanging two, or nine of which
\* two are exchanged, and up to two masks of each kind.
Stem(p, w) == [position |-> p, width |-> w]
NineStems == [j \in 1..9 |-> IF j = 2 THEN Stem(90, 4) ELSE IF j = 9 THEN Stem(15, 4) ELSE Stem(10 * j, 4)]
StemLists == {Junk, <<Stem(10, -20)>>, <<Stem(30, 5), Stem(10, 2)>>, <<Stem(0, 2), Junk, Stem(0, 7)>>,
              <<Stem(30, 5), Stem(20, 1), Stem(10, 2)>>, <<Stem(10, 1), Stem(40, 2), Stem(30, 5)>>, NineStems}
ManyStems == {Junk, <<Stem(30, 5), Stem(20, 1), Stem(10, 2)>>, NineStems}
MaskAt(place, h, v) == [contoursBefore |-> place[1], pointsBefore |-> place[2], maskH |-> h, maskV |-> v]
OneBit(k) == [j \in 1..9 |-> j = k]
MaskLists(places) ==
  {Junk, <<Junk, MaskAt(<<0, 2>>, OneBit(2), OneBit(1))>>}
    \union {<<MaskAt(p, h, Junk), MaskAt(q, OneBit(1), OneBit(9))>> :
              <<p, q, h>> \in {<<p, q, h>> \in places \X places \X {Junk, OneBit(3)} : p # q}}
Hintses ==
  [stemH : StemLists, stemV : ManyStems, hintMasks : MaskLists({<<0, 0>>, <<0, 7>>, <<1, 2>>}),
   contourMasks : {Junk, <<MaskAt(<<1, 1>>, OneBit(2), Junk), MaskAt(<<0, 0>>, OneBit(9), OneBit(3))>>}, contours : {<<2, 3>>}]

\* Documents long enough to be plain, or one byte short of it, or something else.
Plain == <<60, 115, 118, 103, 62>>
Documents == {Plain, <<60, 63, 120, 109, 108, 62>> \o Plain, Junk}
Assignments(formats, documents) ==
  UpTo([start : {1, 3}, end : {3}, format : formats, document : documents] \union {Junk}, 2)
SVGs == {Junk} \union {s \in Assignments({"plain", Junk}, Documents) :
                          Len(s) = 2 /\ Junk \notin ToSet(s) => s[1].start # s[2].start}

\* A document that only base64 can hold.
Base64Documents(k) == {<<[start |-> 1, end |-> 3, format |-> "base64", document |-> <<81, 85, 70, 66>>]>>}

MetaEntries == [tag : {"dlng", "appl", Junk}, string : {<<101, 110>>, Junk}, base64 : {<<81, 85, 69, 61>>, Junk}] \union {Junk}
Metas == UpTo(MetaEntries, 2) \union {Junk}

HeightLists == {Junk, <<>>, <<<<8, 9, -2>>, Junk, <<300, 310, -80>>>>, <<<<12, 12, -3>>, <<9, 9, -3>>>>}
VDMXs == UpTo([ratio : {<<0, 1, 1, 1>>, <<1, 4, 3, 2>>}, records : HeightLists] \union {Junk}, 2) \union {Junk}

\* A head of three to four words and up to three other tables, of two tags.
Repeated(n, b) == [i \in 1..n |-> b]
TableOf(t, b) == [tag |-> t, bytes |-> b]
Sfnts == {before \o <<TableOf(50, Repeated(n, 7))>> \o after :
            <<n, before, after>> \in (12..15) \X UpTo({TableOf(40, Junk), TableOf(40, <<>>), TableOf(60, Repeated(5, 15))}, 1)
              \X UpTo({TableOf(t, b) : <<t, b>> \in {40, 60, 50} \X {Repeated(3, 1), Repeated(4, 9), Repeated(6, 12)}}, 2)}

MCJsonOf(k) ==
  CASE k = "glyf" -> Glyfs
    [] k = "metrics" -> Metricses
    [] k = "lists" -> Listses
    [] k = "CFF" -> Cffs
    [] k = "SVG" -> SVGs
    [] k = "meta" -> Metas
    [] k = "VDMX" -> VDMXs
    [] k = "sfnt" -> Sfnts
    [] k = "hints" -> Hintses
    [] k = "cmap" -> Cmaps
    [] k = "COLR" -> COLRs
    [] k = "CPAL" -> CPALs
    [] k = "name" -> Names
    [] k = "gasp" -> Gasps
    [] k = "TSI_01" -> TSI01s
    [] k = "TSI_23" -> TSI23s
    [] k \in {"gsub_single", "gsub_vert"} -> Singles
    [] k = "gsub_multiple" -> Multiples
    [] k = "gsub_ligature" -> Ligatures
    [] k = "gsub_reverse" -> Reverses
    [] k = "chaining" -> Chainings
    [] k = "gpos_single" -> GposSingles
    [] k = "gpos_cursive" -> Cursives
    [] k = "gpos_pair" -> Pairs
    [] k = "gpos_mark_to_base" -> MarksToBases
    [] k = "gpos_mark_to_ligature" -> MarksToLigatures
    [] k = "GDEF" -> GDEFs
    [] k = "BASE" -> BASEs
=============================================================================
