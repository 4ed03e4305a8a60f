------------------------------ MODULE GlyphNames ------------------------------
(***************************************************************************)
(* How glyphs get their names and how names lead back to glyphs.           *)
(*                                                                         *)
(* otfccdump names every glyph of a font (createGlyphOrder of              *)
(* lib/otf-reader/unconsolidate.c: names from the font, from `post', from  *)
(* the characters it shows, from its number), settles what names are in    *)
(* use twice (otfcc_consolidateFont) and writes JSON in which glyphs are   *)
(* known by their names only.  otfccbuild numbers the glyphs again from    *)
(* that JSON (lib/json-reader/json-reader.c).  In between is the glyph     *)
(* order of lib/support/glyph-order.c, a map between glyphs and names.     *)
(*                                                                         *)
(* A name is a base and the numbers appended to it: "$$gid3", "x_2".  The  *)
(* prefix the user may ask for is taken to be part of the bases.           *)
(***************************************************************************)
EXTENDS Integers, Sequences, FiniteSets

CONSTANTS
  Fonts,    \* the fonts otfccdump may read
  NoName,   \* a glyph without a name of its own
  Aglfn     \* character -> the name the AGLFN list has for it

Name(base, numbers) == [base |-> base, numbers |-> numbers]
Suffixed(name, k) == Name(name.base, Append(name.numbers, k))
GidName(g) == Name("$$gid", <<g>>)
NotDef == Name(".notdef", <<>>)
Null == Name(".null", <<>>)

IsName(x) == x = Name(x.base, x.numbers) /\ x.numbers \in Seq(Nat)

\* How otfccdump is asked to name glyphs: --name-by-hash, --name-by-gid,
\* --ignore-glyph-order, or none of these.
Modes == {"names", "hash", "gid", "ignore"}

Glyphs(f) == 0..(f.length - 1)

\* own: glyph -> its name in the CFF charset; hash: glyph -> the name its outline
\* hashes to; post: the names `post' gives, by glyph; cmap: what characters show
\* which glyph; blank: whether glyph 1 has no outline.
IsFont(f) ==
  /\ f.length \in Nat
  /\ \A g \in Glyphs(f) : IsName(f.hash[g]) /\ (f.own[g] # NoName => IsName(f.own[g]))
  /\ \A i \in 1..Len(f.post) : f.post[i].gid \in Nat /\ IsName(f.post[i].name)
  /\ f.cmap \in Seq([gid : Nat, unicode : Nat])
  /\ f.blank \in BOOLEAN

ASSUME FontsAreWellFormed == \A f \in Fonts : IsFont(f)
ASSUME AglfnHasNames == \A u \in DOMAIN Aglfn : IsName(Aglfn[u])

VARIABLES
  pc,
  font, mode,
  i,        \* the loop variable of the pass that runs
  suffix,   \* the suffix otfcc_consolidateFont tries next
  order,    \* glyph_order of createGlyphOrder: gid -> name (kept here after it is freed)
  names,    \* glyph -> its name field
  gord,     \* font->glyph_order after consolidation: gid -> name
  json,     \* what otfccdump wrote
  built     \* the glyph order otfccbuild makes of it: name -> gid
vars == <<pc, font, mode, i, suffix, order, names, gord, json, built>>

-----------------------------------------------------------------------------
(* lib/support/glyph-order.c *)

Taken(go, name) == \E g \in DOMAIN go : go[g] = name

\* The map go with g's name added.
Entered(go, g, name) == [h \in DOMAIN go \union {g} |-> IF h = g THEN name ELSE go[h]]

\* otfcc_setGlyphOrderByGID: the first name stays; a name in use gives way.
SetByGID_Replaces(go, g, name) ==
  Entered(go, g, IF Taken(go, name) THEN GidName(g) ELSE name)
SetByGID(go, g, name) ==
  IF g \in DOMAIN go THEN go
  ELSE Entered(go, g, IF Taken(go, name) THEN GidName(g) ELSE name)

\* otfcc_setGlyphOrderByName accepts a name nobody has.
Accepts_Always(go, name) == TRUE
Accepts(go, name) == ~Taken(go, name)

-----------------------------------------------------------------------------
(* createGlyphOrder: four passes, one step for every name suggested.       *)

\* The name a hash gets: with a number from 2 when it is in use already.
HashName(go, name) ==
  IF ~Taken(go, name) THEN name
  ELSE LET n == CHOOSE k \in 2..(Cardinality(DOMAIN go) + 2) :
                  /\ ~Taken(go, Suffixed(name, k))
                  /\ \A h \in 2..(k - 1) : Taken(go, Suffixed(name, h))
       IN Suffixed(name, n)

OwnName ==
  /\ pc = "own" /\ i \in Glyphs(font)
  /\ order' = IF mode = "hash" THEN SetByGID(order, i, HashName(order, font.hash[i]))
              ELSE IF mode = "names" /\ font.own[i] # NoName THEN SetByGID(order, i, font.own[i])
              ELSE order
  /\ i' = i + 1
  /\ UNCHANGED <<pc, font, mode, suffix, names, gord, json, built>>

PostName ==
  /\ pc = "post" /\ i < Len(font.post)
  /\ order' = IF mode \in {"ignore", "gid"} THEN order
              ELSE SetByGID(order, font.post[i + 1].gid, font.post[i + 1].name)
  /\ i' = i + 1
  /\ UNCHANGED <<pc, font, mode, suffix, names, gord, json, built>>

CharName(u) == IF u \in DOMAIN Aglfn /\ u > 0 /\ u < 65535 THEN Aglfn[u] ELSE Name("uni", <<u>>)

CmapName ==
  /\ pc = "cmap" /\ i < Len(font.cmap)
  /\ LET c == font.cmap[i + 1]
     IN order' = IF mode = "gid" \/ c.gid = 0 THEN order
                 ELSE SetByGID(order, c.gid, CharName(c.unicode))
  /\ i' = i + 1
  /\ UNCHANGED <<pc, font, mode, suffix, names, gord, json, built>>

NumberName(g) ==
  IF g = 0 THEN NotDef ELSE IF g = 1 /\ font.blank THEN Null ELSE Name("glyph", <<g>>)

Numbered ==
  /\ pc = "number" /\ i \in Glyphs(font)
  /\ order' = SetByGID(order, i, NumberName(i))
  /\ i' = i + 1
  /\ UNCHANGED <<pc, font, mode, suffix, names, gord, json, built>>

\* The length of the pass, and the pass after it.
PassEnd == CASE pc = "own" -> font.length [] pc = "post" -> Len(font.post)
             [] pc = "cmap" -> Len(font.cmap) [] pc = "number" -> font.length
NextPass == CASE pc = "own" -> "post" [] pc = "post" -> "cmap"
              [] pc = "cmap" -> "number" [] pc = "number" -> "name"

EndPass ==
  /\ pc \in {"own", "post", "cmap", "number"} /\ i >= PassEnd
  /\ pc' = NextPass /\ i' = 0
  /\ UNCHANGED <<font, mode, suffix, order, names, gord, json, built>>

\* nameGlyphs; the glyph order is freed.
NamesOf == [g \in Glyphs(font) |-> order[g]]

NameGlyphs ==
  /\ pc = "name"
  /\ names' = NamesOf
  /\ pc' = "consolidate"
  /\ UNCHANGED <<font, mode, i, suffix, order, gord, json, built>>

-----------------------------------------------------------------------------
(* otfcc_consolidateFont makes a glyph order of the names. *)

AcceptName ==
  /\ pc = "consolidate" /\ i \in Glyphs(font) /\ suffix = 0
  /\ IF Accepts(gord, names[i])
     THEN gord' = Entered(gord, i, names[i]) /\ i' = i + 1 /\ suffix' = 0
     ELSE suffix' = 2 /\ UNCHANGED <<gord, i>>
  /\ UNCHANGED <<pc, font, mode, order, names, json, built>>

Renamed_OrderOnly(new) == names
Renamed(new) == [names EXCEPT ![i] = new]

NextSuffix_Same == suffix
NextSuffix_Skips == suffix + 2
NextSuffix == suffix + 1

TrySuffix ==
  /\ pc = "consolidate" /\ suffix > 0
  /\ LET new == Suffixed(names[i], suffix)
     IN IF Accepts(gord, new)
        THEN /\ gord' = Entered(gord, i, new)
             /\ names' = Renamed(new)
             /\ i' = i + 1 /\ suffix' = 0
        ELSE suffix' = NextSuffix /\ UNCHANGED <<gord, names, i>>
  /\ UNCHANGED <<pc, font, mode, order, json, built>>

-----------------------------------------------------------------------------
(* The JSON: a glyf object, the order unless it is ignored, a cmap object  *)
(* without the entries that lead to no glyph.  An entry keeps its place in *)
(* the font's map, so that the order of the places is the order written.   *)

\* otfcc_gordConsolidateHandle, of a handle that has an index.
NamedGlyph(c) == c.gid \in DOMAIN gord

Dump ==
  /\ pc = "consolidate" /\ i = font.length
  /\ json' = [glyf |-> names,
              ordered |-> mode # "ignore",
              cmap |-> [k \in {k \in 1..Len(font.cmap) : NamedGlyph(font.cmap[k])} |->
                         [unicode |-> font.cmap[k].unicode, name |-> gord[font.cmap[k].gid]]]]
  /\ pc' = "parse"
  /\ UNCHANGED <<font, mode, i, suffix, order, names, gord, built>>

\* The order otfccbuild gives an entry: its kind first, then its number.
Rank(kind, number) == [kind |-> kind, number |-> number]
Before(r, s) == r.kind < s.kind \/ (r.kind = s.kind /\ r.number < s.number)

\* placeOrderEntriesFromGlyf
FromGlyf(g) ==
  IF names[g] = NotDef THEN Rank(2, 0) ELSE IF names[g] = Null THEN Rank(2, 1) ELSE Rank(4, g)

\* placeOrderEntriesFromCmap: the first character of the object that shows it.
FromCmap(g) ==
  LET shows == {k \in DOMAIN json.cmap : json.cmap[k].name = names[g] /\ json.cmap[k].unicode > 0}
  IN IF FromGlyf(g).kind <= 3 \/ shows = {} THEN FromGlyf(g)
     ELSE Rank(3, json.cmap[CHOOSE k \in shows : \A h \in shows : k <= h].unicode)

\* placeOrderEntriesFromSubtable: the glyph order, or only its first entry.
FromOrder_Later(g, ignore) ==
  IF ~json.ordered \/ (ignore /\ g > 0) THEN FromCmap(g) ELSE Rank(3, g)
FromOrder(g, ignore) ==
  IF ~json.ordered \/ (ignore /\ g > 0) THEN FromCmap(g) ELSE Rank(1, g)

\* orderGlyphs: a stable sort numbers the glyphs.
Place(g, ignore) ==
  Cardinality({h \in Glyphs(font) :
                 \/ Before(FromOrder(h, ignore), FromOrder(g, ignore))
                 \/ FromOrder(h, ignore) = FromOrder(g, ignore) /\ h < g})

Parse ==
  /\ pc = "parse"
  /\ \E ignore \in BOOLEAN :
       /\ built' = [n \in {names[g] : g \in Glyphs(font)} |->
                      Place(CHOOSE g \in Glyphs(font) : names[g] = n, ignore)]
       /\ pc' = IF ignore THEN "reordered" ELSE "built"
  /\ UNCHANGED <<font, mode, i, suffix, order, names, gord, json>>

Done == pc \in {"built", "reordered"} /\ UNCHANGED vars

-----------------------------------------------------------------------------
Init ==
  /\ pc = "own"
  /\ font \in Fonts /\ mode \in Modes
  /\ i = 0 /\ suffix = 0
  /\ order = <<>> /\ names = <<>> /\ gord = <<>> /\ json = <<>> /\ built = <<>>

Next ==
  \/ OwnName \/ PostName \/ CmapName \/ Numbered \/ EndPass \/ NameGlyphs
  \/ AcceptName \/ TrySuffix \/ Dump \/ Parse \/ Done

Spec == Init /\ [][Next]_vars

\* The program runs on to the end.
FairSpec == Spec /\ WF_vars(Next)

-----------------------------------------------------------------------------

(* No two glyphs of the consolidated glyph order share a name, whatever    *)
(* names the font had and however often "$$gid" gave one away twice: a     *)
(* reference by name can mean one glyph only.                              *)
OneGlyphPerName ==
  \A g, h \in DOMAIN gord : gord[g] = gord[h] => g = h

(* The name a glyph bears is the name the glyph order has for it, so that  *)
(* what is written as the glyph's key is what references to it are written *)
(* with.                                                                   *)
OrderAgrees ==
  \A g \in DOMAIN gord : g \in DOMAIN names /\ gord[g] = names[g]

(* A font whose glyphs have names of their own, all different, keeps them  *)
(* through every pass.                                                     *)
OwnNamesKept ==
  LET own(g) == IF mode = "names" THEN font.own[g] ELSE font.hash[g]
  IN ( /\ pc \in {"consolidate", "parse", "built", "reordered"}
       /\ mode \in {"names", "hash"}
       /\ \A g \in Glyphs(font) : own(g) # NoName
       /\ \A g, h \in Glyphs(font) : own(g) = own(h) => g = h )
     => \A g \in Glyphs(font) : names[g] = own(g)

(* Dumping and building again gives every glyph its number back; when the  *)
(* order is to be ignored it is still a numbering, and the glyph the order *)
(* names first stays first.                                                *)
Renumbered ==
  /\ pc = "built" /\ json.ordered => \A g \in Glyphs(font) : built[names[g]] = g
  /\ pc \in {"built", "reordered"} =>
       /\ {built[names[g]] : g \in Glyphs(font)} = Glyphs(font)
       /\ json.ordered /\ font.length > 0 => built[names[0]] = 0

(* Clashes are settled glyph by glyph, with no more renaming than must be: *)
(* a glyph keeps the name createGlyphOrder gave it unless an earlier glyph *)
(* bears that name by now, as its first name or with a suffix, and is then *)
(* given the least suffix that no earlier glyph bears.  There is one up to *)
(* the number of glyphs so far and one more.                               *)
SettledInTurn ==
  \A g \in DOMAIN gord :
    LET borne == {gord[h] : h \in 0..(g - 1)}
    IN IF order[g] \in borne
       THEN \E k \in 2..(g + 1) :
              /\ gord[g] = Suffixed(order[g], k) /\ gord[g] \notin borne
              /\ \A j \in 2..(k - 1) : Suffixed(order[g], j) \in borne
       ELSE gord[g] = order[g]

(* The search for a free suffix ends.                                      *)
Terminates == <>(pc \in {"built", "reordered"})
===============================================================================
