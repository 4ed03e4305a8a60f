-------------------------- MODULE GlyphNames_proofs --------------------------
(***************************************************************************)
(* Theorems about GlyphNames, for every set of fonts, of every length and  *)
(* with every clash of names: otfcc_consolidateFont leaves each name to    *)
(* one glyph, the names it settles on are those of the glyph order, and    *)
(* no glyph is renamed but for an earlier one.                             *)
(*                                                                         *)
(* The strengthening says how far the loop of otfcc_consolidateFont has    *)
(* come: the glyph order holds the glyphs before i, so that a name entered *)
(* for i meets only names of other glyphs, and the suffixes tried so far   *)
(* for i are taken, each by another of them.                               *)
(***************************************************************************)
EXTENDS GlyphNames, OrderLemmas, SequenceTheorems

Naming == {"own", "post", "cmap", "number", "name"}
Named == {"consolidate", "parse", "built", "reordered"}

\* The glyphs before i have been entered.
EnteredBefore ==
  /\ i \in Nat
  /\ pc = "name" => i = 0
  /\ pc \in Naming => gord = <<>> /\ suffix = 0
  /\ pc = "consolidate" => DOMAIN gord = 0..(i - 1)

\* Every glyph has a name while the loop runs, and a suffix is sought for a glyph.
AllNamed ==
  /\ pc \in Naming \union Named
  /\ font \in Fonts
  /\ pc \in Named => names = [g \in Glyphs(font) |-> names[g]]
  /\ pc = "consolidate" /\ suffix # 0 => i \in Glyphs(font)

NamesInv == EnteredBefore /\ AllNamed /\ OneGlyphPerName /\ OrderAgrees

-----------------------------------------------------------------------------
(* What entering a name into a glyph order does.                           *)

(* A name that is accepted leaves the names of a glyph order distinct.     *)
LEMMA EnteredDistinct ==
  ASSUME NEW go, NEW g, NEW name,
         \A a, b \in DOMAIN go : go[a] = go[b] => a = b,
         g \notin DOMAIN go, Accepts(go, name)
  PROVE  \A a, b \in DOMAIN Entered(go, g, name) :
           Entered(go, g, name)[a] = Entered(go, g, name)[b] => a = b
  BY DEF Entered, Accepts, Taken

(* A suggestion never changes a glyph order's names (glyph-order.c, line   *)
(* 23: what is in the table already rejects it).                           *)
LEMMA SuggestionKeeps ==
  ASSUME NEW go, NEW g, NEW name
  PROVE  \A a \in DOMAIN go : a \in DOMAIN SetByGID(go, g, name) /\ SetByGID(go, g, name)[a] = go[a]
  BY DEF SetByGID, Entered

(* The loop of otfcc_consolidateFont enters a glyph's name: AcceptName and *)
(* TrySuffix both do.                                                      *)
LEMMA EnteringKeepsInv ==
  ASSUME NamesInv, pc = "consolidate", i \in Glyphs(font), NEW name, Accepts(gord, name),
         gord' = Entered(gord, i, name), names' = [names EXCEPT ![i] = name],
         i' = i + 1, suffix' = 0, UNCHANGED <<pc, font>>
  PROVE  NamesInv'
<1> USE DEF NamesInv, Glyphs, Naming, Named
<1>1. i \notin DOMAIN gord /\ i \in Nat /\ i \in DOMAIN names
  BY DEF EnteredBefore, AllNamed
<1>2. DOMAIN gord' = 0..i /\ DOMAIN names' = DOMAIN names
  BY <1>1 DEF Entered, EnteredBefore
<1>3. EnteredBefore'
  BY <1>1, <1>2 DEF EnteredBefore
<1>4. AllNamed'
  BY DEF AllNamed
<1>5. OneGlyphPerName'
  BY <1>1, EnteredDistinct DEF OneGlyphPerName
<1>6. OrderAgrees'
  BY <1>1, <1>2 DEF OrderAgrees, Entered, EnteredBefore
<1> QED BY <1>3, <1>4, <1>5, <1>6

-----------------------------------------------------------------------------
LEMMA InitInv == Init => NamesInv
  BY DEF Init, NamesInv, EnteredBefore, AllNamed, OneGlyphPerName, OrderAgrees, Naming, Named

(* A step of a pass changes nothing but the glyph order being made.        *)
LEMMA PassKeepsInv ==
  ASSUME NamesInv, pc \in {"own", "post", "cmap", "number"}, i' \in Nat,
         pc' \in Naming, pc' = "name" => i' = 0,
         UNCHANGED <<font, suffix, names, gord>>
  PROVE  NamesInv'
  BY DEF NamesInv, EnteredBefore, AllNamed, OneGlyphPerName, OrderAgrees, Naming, Named

LEMMA NextInv == NamesInv /\ [Next]_vars => NamesInv'
<1> SUFFICES ASSUME NamesInv, [Next]_vars PROVE NamesInv'
  OBVIOUS
<1> i \in Nat
  BY DEF NamesInv, EnteredBefore
<1>1. CASE OwnName
  BY <1>1, PassKeepsInv DEF OwnName, Naming
<1>2. CASE PostName
  BY <1>2, PassKeepsInv DEF PostName, Naming
<1>3. CASE CmapName
  BY <1>3, PassKeepsInv DEF CmapName, Naming
<1>4. CASE Numbered
  BY <1>4, PassKeepsInv DEF Numbered, Naming
<1>5. CASE EndPass
  BY <1>5, PassKeepsInv DEF EndPass, NextPass, Naming
<1>6. CASE NameGlyphs
  <2>1. gord = <<>> /\ i = 0 /\ suffix = 0 /\ font \in Fonts
    BY <1>6 DEF NameGlyphs, NamesInv, EnteredBefore, AllNamed, Naming
  <2>2. /\ pc' = "consolidate" /\ names' = [g \in Glyphs(font) |-> order[g]]
        /\ UNCHANGED <<font, i, suffix, gord>>
    BY <1>6 DEF NameGlyphs, NamesOf
  <2> QED
    BY <2>1, <2>2
    DEF NamesInv, EnteredBefore, AllNamed, OneGlyphPerName, OrderAgrees, Naming, Named
<1>7. CASE AcceptName
  <2>1. CASE Accepts(gord, names[i])
    <3>1. names' = [names EXCEPT ![i] = names[i]]
      BY <1>7 DEF AcceptName, NamesInv, AllNamed, Named
    <3> QED BY <1>7, <2>1, <3>1, EnteringKeepsInv DEF AcceptName
  <2>2. CASE ~Accepts(gord, names[i])
    BY <1>7, <2>2
    DEF AcceptName, NamesInv, EnteredBefore, AllNamed, OneGlyphPerName, OrderAgrees, Naming, Named
  <2> QED BY <2>1, <2>2
<1>8. CASE TrySuffix
  <2> DEFINE new == Suffixed(names[i], suffix)
  <2>1. i \in Glyphs(font)
    BY <1>8 DEF TrySuffix, NamesInv, AllNamed
  <2>2. CASE Accepts(gord, new)
    <3>1. /\ pc = "consolidate" /\ gord' = Entered(gord, i, new)
          /\ names' = [names EXCEPT ![i] = new] /\ i' = i + 1 /\ suffix' = 0
          /\ UNCHANGED <<pc, font>>
      BY <1>8, <2>2 DEF TrySuffix, Renamed
    <3> HIDE DEF new
    <3> QED BY <2>1, <2>2, <3>1, EnteringKeepsInv
  <2>3. CASE ~Accepts(gord, new)
    BY <1>8, <2>1, <2>3
    DEF TrySuffix, NamesInv, EnteredBefore, AllNamed, OneGlyphPerName, OrderAgrees, Naming, Named,
        Glyphs
  <2> QED BY <2>2, <2>3
<1>9. CASE Dump
  BY <1>9
  DEF Dump, NamesInv, EnteredBefore, AllNamed, OneGlyphPerName, OrderAgrees, Naming, Named
<1>10. CASE Parse
  BY <1>10
  DEF Parse, NamesInv, EnteredBefore, AllNamed, OneGlyphPerName, OrderAgrees, Naming, Named
<1>11. CASE UNCHANGED vars
  BY <1>11
  DEF vars, NamesInv, EnteredBefore, AllNamed, OneGlyphPerName, OrderAgrees, Naming, Named
<1> QED
  BY <1>1, <1>2, <1>3, <1>4, <1>5, <1>6, <1>7, <1>8, <1>9, <1>10, <1>11 DEF Next, Done

LEMMA SpecInv == Spec => []NamesInv
<1>1. Init => NamesInv
  BY InitInv
<1>2. NamesInv /\ [Next]_vars => NamesInv'
  BY NextInv
<1> QED BY <1>1, <1>2, PTL DEF Spec

LEMMA LengthIsNatural == NamesInv => font.length \in Nat
  BY FontsAreWellFormed DEF NamesInv, AllNamed, IsFont

LEMMA FontStays == [Next]_vars => font' = font /\ mode' = mode
<1> SUFFICES ASSUME [Next]_vars PROVE font' = font /\ mode' = mode
  OBVIOUS
<1>1. CASE OwnName \/ PostName \/ CmapName \/ Numbered
  BY <1>1 DEF OwnName, PostName, CmapName, Numbered
<1>2. CASE EndPass \/ NameGlyphs \/ AcceptName \/ TrySuffix
  BY <1>2 DEF EndPass, NameGlyphs, AcceptName, TrySuffix
<1>3. CASE Dump \/ Parse \/ UNCHANGED vars
  BY <1>3 DEF Dump, Parse, vars
<1> QED BY <1>1, <1>2, <1>3 DEF Next, Done

(* A name of the consolidated glyph order is the name of one glyph only,   *)
(* whatever the font's own names, `post', characters, hashes and "$$gid"   *)
(* names make of it.                                                       *)
THEOREM NamesAreUnique == Spec => []OneGlyphPerName
<1>1. NamesInv => OneGlyphPerName
  BY DEF NamesInv
<1> QED BY <1>1, SpecInv, PTL

(* What the glyph order calls a glyph is what the glyph calls itself.      *)
THEOREM OrderMatchesGlyphs == Spec => []OrderAgrees
<1>1. NamesInv => OrderAgrees
  BY DEF NamesInv
<1> QED BY <1>1, SpecInv, PTL

-----------------------------------------------------------------------------
(* The search for a suffix: one is free among as many as there are glyphs. *)

\* The names tried for a glyph: its own and, from 2, those with a suffix.
Try(name, j) == IF j = 1 THEN name ELSE Suffixed(name, j)

LEMMA TriesDiffer ==
  ASSUME NEW name, IsName(name), NEW j \in Nat, NEW k \in Nat
  PROVE  IsName(Try(name, k)) /\ (Try(name, j) = Try(name, k) => j = k)
<1> DEFINE s == name.numbers
<1>1. s \in Seq(Nat)
  BY DEF IsName
<1>2. /\ Append(s, k) \in Seq(Nat) /\ Len(Append(s, k)) = Len(s) + 1 /\ Append(s, k)[Len(s) + 1] = k
      /\ Append(s, j) \in Seq(Nat) /\ Len(Append(s, j)) = Len(s) + 1 /\ Append(s, j)[Len(s) + 1] = j
  BY <1>1, AppendProperties
<1>3. Len(s) \in Nat
  BY <1>1, LenProperties
<1>4. \A m : Suffixed(name, m).numbers = Append(s, m) /\ Suffixed(name, m).base = name.base
  BY DEF Suffixed, Name
<1>5. \A m : Suffixed(name, m) = Name(name.base, Append(s, m))
  BY DEF Suffixed
<1> HIDE DEF s
<1>6. IsName(Suffixed(name, k))
  BY <1>2, <1>4, <1>5 DEF IsName
<1>7. s = name.numbers
  BY DEF s
<1>8. Suffixed(name, j) = name => FALSE
  BY <1>2, <1>3, <1>4, <1>7
<1>9. Suffixed(name, k) = name => FALSE
  BY <1>2, <1>3, <1>4, <1>7
<1>10. Suffixed(name, j) = Suffixed(name, k) => j = k
  BY <1>2, <1>4
<1> QED BY <1>6, <1>8, <1>9, <1>10 DEF Try

\* Names tried and taken are the names of as many glyphs.
LEMMA TakenAreFew ==
  ASSUME NEW go, IsFiniteSet(DOMAIN go), NEW name, IsName(name), NEW a \in Nat, NEW n \in Nat,
         \A j \in a..n : Taken(go, Try(name, j))
  PROVE  n - a + 1 <= Cardinality(DOMAIN go)
<1> SUFFICES ASSUME Cardinality(DOMAIN go) < n - a + 1 PROVE FALSE
  BY FS_CardinalityType
<1> DEFINE S == a..n
           T == DOMAIN go
           f == [j \in S |-> CHOOSE g \in T : go[g] = Try(name, j)]
<1>1. IsFiniteSet(S) /\ Cardinality(S) = n - a + 1
  <2>1. Cardinality(T) \in Nat
    BY FS_CardinalityType
  <2>2. a \in Int /\ n \in Int /\ ~(a > n)
    BY <2>1
  <2>3. IsFiniteSet(a..n) /\ Cardinality(a..n) = IF a > n THEN 0 ELSE n - a + 1
    BY <2>2, FS_Interval
  <2> QED BY <2>2, <2>3
<1>2. \A j \in S : f[j] \in T /\ go[f[j]] = Try(name, j)
  BY DEF Taken
<1>3. f \in [S -> T]
  BY <1>2
<1>4. S \subseteq Nat /\ Cardinality(T) < Cardinality(S)
  BY <1>1
<1> HIDE DEF S, T, f
<1>5. PICK x \in S, y \in S : x # y /\ f[x] = f[y]
  BY <1>1, <1>3, <1>4, FS_PigeonHole DEF T
<1>6. Try(name, x) = Try(name, y)
  BY <1>2, <1>5
<1> QED BY <1>4, <1>5, <1>6, TriesDiffer

\* The name that createGlyphOrder makes of a hash is a name that nobody has: the
\* search for it (unconsolidate.c, line 160) ends.
LEMMA HashNameIsFree ==
  ASSUME NEW go, IsFiniteSet(DOMAIN go), NEW name, IsName(name)
  PROVE  IsName(HashName(go, name)) /\ ~Taken(go, HashName(go, name))
<1> DEFINE c == Cardinality(DOMAIN go)
           Free == {k \in 2..(c + 2) : ~Taken(go, Suffixed(name, k))}
           Least(k) == ~Taken(go, Suffixed(name, k)) /\ \A h \in 2..(k - 1) : Taken(go, Suffixed(name, h))
<1>1. CASE ~Taken(go, name)
  BY <1>1 DEF HashName
<1>2. CASE Taken(go, name)
  <2>1. c \in Nat
    BY FS_CardinalityType
  <2>2. Free # {}
    <3> SUFFICES ASSUME Free = {} PROVE FALSE
      OBVIOUS
    <3>1. \A j \in 2..(c + 2) : Taken(go, Try(name, j))
      BY <2>1 DEF Try
    <3>2. c + 2 \in Nat /\ 2 \in Nat
      BY <2>1
    <3>3. (c + 2) - 2 + 1 <= c
      BY <3>1, <3>2, TakenAreFew
    <3> QED BY <2>1, <3>3
  <2>3. Free \subseteq Nat
    BY <2>1
  <2>4. PICK k \in Free : \A h \in Free : k <= h
    BY <2>2, <2>3, LeastNatural
  <2>5. k \in 2..(c + 2) /\ Least(k)
    BY <2>1, <2>4
  <2> DEFINE n == CHOOSE m \in 2..(c + 2) : Least(m)
  <2>6. n \in 2..(c + 2) /\ Least(n)
    BY <2>5
  <2>7. HashName(go, name) = Suffixed(name, n)
    BY <1>2 DEF HashName
  <2> HIDE DEF n
  <2>8. n \in Nat /\ n # 1
    BY <2>1, <2>6
  <2>9. IsName(Suffixed(name, n))
    BY <2>8, TriesDiffer DEF Try
  <2> QED BY <2>6, <2>7, <2>9
<1> QED BY <1>1, <1>2

-----------------------------------------------------------------------------
(* How clashes are settled.                                                *)

\* A glyph in place g that was to be called `first' is called `now', when earlier
\* glyphs bear the names of a set.
SettledAs(borne, first, now, g) ==
  IF first \in borne
  THEN \E k \in 2..(g + 1) :
         /\ now = Suffixed(first, k) /\ now \notin borne
         /\ \A j \in 2..(k - 1) : Suffixed(first, j) \in borne
  ELSE now = first

\* The names of the glyphs before g.
Borne(go, g) == {go[h] : h \in 0..(g - 1)}

\* What SettledInTurn says of one glyph, of the glyph order go and the names od that
\* createGlyphOrder gave.
SettledAt(go, od, g) == SettledAs(Borne(go, g), od[g], go[g], g)

\* The passes give names that are names, finitely many, and the last to every glyph.
OrderInv ==
  /\ IsFiniteSet(DOMAIN order) /\ \A g \in DOMAIN order : IsName(order[g])
  /\ pc = "number" => 0..(i - 1) \subseteq DOMAIN order
  /\ pc \in Named \union {"name"} => Glyphs(font) \subseteq DOMAIN order

\* The glyphs still to come bear the names of the passes, and of the names tried for
\* the glyph in work each is another's.
SettleInv ==
  /\ \A g \in DOMAIN gord : SettledAt(gord, order, g)
  /\ suffix \in Nat
  /\ pc = "consolidate" =>
       /\ \A g \in Glyphs(font) : i <= g => names[g] = order[g]
       /\ suffix > 0 => suffix >= 2 /\ \A j \in 1..(suffix - 1) : Taken(gord, Try(names[i], j))

LEMMA SuggestionIsName ==
  ASSUME NEW go, IsFiniteSet(DOMAIN go), \A h \in DOMAIN go : IsName(go[h]),
         NEW g \in Nat, NEW name, IsName(name)
  PROVE  LET new == SetByGID(go, g, name)
         IN /\ IsFiniteSet(DOMAIN new) /\ DOMAIN new = DOMAIN go \union {g}
            /\ \A h \in DOMAIN new : IsName(new[h])
<1>1. IsName(GidName(g))
  BY DEF IsName, GidName, Name
<1>2. IsFiniteSet(DOMAIN go \union {g})
  BY FS_AddElement
<1> QED BY <1>1, <1>2 DEF SetByGID, Entered

\* Each pass suggests names.
LEMMA PassSuggests ==
  ASSUME NamesInv, OrderInv, OwnName \/ PostName \/ CmapName \/ Numbered
  PROVE  \/ order' = order /\ ~Numbered
         \/ \E g \in Nat : \E name : /\ IsName(name) /\ order' = SetByGID(order, g, name)
                                     /\ Numbered => g = i
<1>1. IsFont(font) /\ i \in Nat /\ Glyphs(font) \subseteq Nat
  BY FontsAreWellFormed DEF NamesInv, AllNamed, EnteredBefore, Glyphs
<1>2. CASE OwnName
  <2>1. i \in Glyphs(font) /\ pc = "own" /\ ~Numbered
    BY <1>2 DEF OwnName, Numbered
  <2>2. IsName(font.hash[i]) /\ (font.own[i] # NoName => IsName(font.own[i]))
    BY <1>1, <2>1 DEF IsFont
  <2>3. IsName(HashName(order, font.hash[i]))
    BY <2>2, HashNameIsFree DEF OrderInv
  <2> QED BY <1>1, <1>2, <2>1, <2>2, <2>3 DEF OwnName
<1>3. CASE PostName
  <2>1. i + 1 \in 1..Len(font.post) /\ ~Numbered
    BY <1>1, <1>3 DEF PostName, Numbered
  <2>2. font.post[i + 1].gid \in Nat /\ IsName(font.post[i + 1].name)
    BY <1>1, <2>1 DEF IsFont
  <2> QED BY <1>3, <2>1, <2>2 DEF PostName
<1>4. CASE CmapName
  <2> DEFINE c == font.cmap[i + 1]
             Entries == [gid : Nat, unicode : Nat]
  <2>1. font.cmap \in Seq(Entries)
    BY <1>1 DEF IsFont
  <2> HIDE DEF Entries
  <2>2. i + 1 \in 1..Len(font.cmap) /\ ~Numbered
    BY <1>1, <1>4, <2>1, LenProperties DEF CmapName, Numbered
  <2>3. c \in Entries
    BY <2>1, <2>2, ElementOfSeq
  <2> HIDE DEF c
  <2>4. c.gid \in Nat /\ c.unicode \in Nat
    BY <2>3 DEF Entries
  <2>5. IsName(Name("uni", <<c.unicode>>))
    BY <2>4 DEF IsName, Name
  <2>6. IsName(CharName(c.unicode))
    BY <2>5, AglfnHasNames DEF CharName
  <2>7. order' = order \/ order' = SetByGID(order, c.gid, CharName(c.unicode))
    BY <1>4 DEF CmapName, c
  <2> QED BY <2>2, <2>4, <2>6, <2>7
<1>5. CASE Numbered
  <2>1. IsName(NumberName(i))
    BY <1>1 DEF NumberName, NotDef, Null, IsName, Name
  <2>2. order' = SetByGID(order, i, NumberName(i))
    BY <1>5 DEF Numbered
  <2> QED BY <1>1, <2>1, <2>2
<1> QED BY <1>2, <1>3, <1>4, <1>5

LEMMA OrderStep == NamesInv /\ OrderInv /\ [Next]_vars => OrderInv'
<1> SUFFICES ASSUME NamesInv, OrderInv, [Next]_vars PROVE OrderInv'
  OBVIOUS
<1>1. i \in Nat /\ font' = font
  BY FontStays DEF NamesInv, EnteredBefore
<1>2. CASE OwnName \/ PostName \/ CmapName \/ Numbered
  <2>1. /\ pc' = pc /\ pc \in {"own", "post", "cmap", "number"} /\ i' = i + 1
        /\ pc = "number" => Numbered
    BY <1>2 DEF OwnName, PostName, CmapName, Numbered
  <2>2. CASE order' = order /\ ~Numbered
    BY <2>1, <2>2 DEF OrderInv, Named
  <2>3. CASE ~(order' = order /\ ~Numbered)
    <3>0. PICK g \in Nat : \E name : /\ IsName(name) /\ order' = SetByGID(order, g, name)
                                     /\ Numbered => g = i
      BY <1>2, <2>3, PassSuggests
    <3>1. PICK name : IsName(name) /\ order' = SetByGID(order, g, name) /\ (Numbered => g = i)
      BY <3>0
    <3>2. /\ IsFiniteSet(DOMAIN order') /\ DOMAIN order' = DOMAIN order \union {g}
          /\ \A h \in DOMAIN order' : IsName(order'[h])
      BY <3>1, SuggestionIsName DEF OrderInv
    <3>3. pc' = "number" => 0..(i' - 1) \subseteq DOMAIN order'
      BY <1>1, <2>1, <3>1, <3>2 DEF OrderInv
    <3> QED BY <2>1, <3>2, <3>3 DEF OrderInv, Named
  <2> QED BY <2>2, <2>3
<1>3. CASE EndPass
  <2>1. /\ order' = order /\ i' = 0 /\ pc' \notin Named
        /\ pc' = "name" => pc = "number" /\ i >= font.length
    BY <1>3 DEF EndPass, NextPass, PassEnd, Named
  <2>2. font.length \in Nat
    BY LengthIsNatural
  <2> QED BY <1>1, <2>1, <2>2 DEF OrderInv, Glyphs
<1>4. CASE NameGlyphs \/ AcceptName \/ TrySuffix \/ Dump \/ Parse
  <2>1. order' = order /\ pc \in Named \union {"name"} /\ pc' \in Named
    BY <1>4 DEF NameGlyphs, AcceptName, TrySuffix, Dump, Parse, Named
  <2> QED BY <1>1, <2>1 DEF OrderInv, Named, Glyphs
<1>5. CASE UNCHANGED vars
  BY <1>5 DEF vars, OrderInv, Glyphs
<1> QED BY <1>2, <1>3, <1>4, <1>5 DEF Next, Done

\* A glyph entered leaves what is settled of the glyphs before it.
LEMMA EnteringSettles ==
  ASSUME NEW n \in Nat, NEW go, DOMAIN go = 0..(n - 1), NEW od,
         \A g \in DOMAIN go : SettledAt(go, od, g),
         NEW name, SettledAt(Entered(go, n, name), od, n)
  PROVE  \A g \in DOMAIN Entered(go, n, name) : SettledAt(Entered(go, n, name), od, g)
<1> DEFINE new == Entered(go, n, name)
<1>1. DOMAIN new = 0..n /\ \A h \in 0..(n - 1) : new[h] = go[h]
  BY DEF Entered
<1> HIDE DEF new
<1>2. ASSUME NEW g \in 0..(n - 1) PROVE SettledAt(new, od, g)
  <2>1. SettledAt(go, od, g)
    OBVIOUS
  <2>2. g \in Nat /\ \A h \in 0..g : new[h] = go[h]
    BY <1>1
  <2>3. new[g] = go[g]
    BY <2>2
  <2>4. Borne(new, g) = Borne(go, g)
    <3>1. \A h \in 0..(g - 1) : new[h] = go[h]
      BY <2>2
    <3> QED BY <3>1 DEF Borne
  <2> QED BY <2>1, <2>3, <2>4 DEF SettledAt
<1>3. SettledAt(new, od, n)
  BY DEF new
<1>4. \A g \in 0..n : SettledAt(new, od, g)
  BY <1>2, <1>3
<1> QED BY <1>1, <1>4 DEF new

\* A glyph whose name the glyph order accepts is settled with it: the name of the
\* passes, or the first free one of those tried for it.
LEMMA EnteredIsSettled ==
  ASSUME NEW n \in Nat, NEW go, DOMAIN go = 0..(n - 1), NEW od, IsName(od[n]),
         NEW k \in Nat, k > 0, \A j \in 1..(k - 1) : Taken(go, Try(od[n], j)),
         Accepts(go, Try(od[n], k))
  PROVE  SettledAt(Entered(go, n, Try(od[n], k)), od, n)
<1> DEFINE name == Try(od[n], k)
           new == Entered(go, n, name)
           before == Borne(new, n)
<1>1. new[n] = name /\ \A h \in 0..(n - 1) : new[h] = go[h]
  BY DEF Entered
<1>2. \A x : x \in before <=> Taken(go, x)
  BY <1>1 DEF Taken, Borne
<1> HIDE DEF before
<1>3. name \notin before
  BY <1>2 DEF Accepts
<1>0. SettledAs(before, od[n], name, n) => SettledAt(new, od, n)
  BY <1>1 DEF SettledAt, before
<1>4. CASE k = 1
  <2>1. name = od[n]
    BY <1>4 DEF Try
  <2> QED BY <1>0, <1>3, <2>1 DEF SettledAs
<1>5. CASE k > 1
  <2>1. IsFiniteSet(DOMAIN go) /\ Cardinality(DOMAIN go) = n
    BY FS_Interval
  <2>2. k - 1 \in Nat /\ 1 \in Nat
    BY <1>5
  <2>3. (k - 1) - 1 + 1 <= n
    BY <2>1, <2>2, TakenAreFew
  <2>4. k \in 2..(n + 1)
    BY <1>5, <2>3
  <2>5. od[n] \in before
    <3>1. Taken(go, Try(od[n], 1))
      BY <1>5
    <3> QED BY <1>2, <3>1 DEF Try
  <2>6. \A j \in 2..(k - 1) : Suffixed(od[n], j) \in before
    <3> SUFFICES ASSUME NEW j \in 2..(k - 1) PROVE Suffixed(od[n], j) \in before
      OBVIOUS
    <3>1. j \in 1..(k - 1) /\ Try(od[n], j) = Suffixed(od[n], j)
      BY DEF Try
    <3> QED BY <1>2, <3>1
  <2>7. name = Suffixed(od[n], k)
    BY <1>5 DEF Try
  <2>8. SettledAs(before, od[n], name, n)
    <3> HIDE DEF name
    <3> QED BY <1>3, <2>4, <2>5, <2>6, <2>7 DEF SettledAs
  <2> QED BY <1>0, <2>8
<1> QED BY <1>4, <1>5

\* The loop of otfcc_consolidateFont enters the k-th name tried for a glyph.
LEMMA SettlingKeepsInv ==
  ASSUME NamesInv, OrderInv, SettleInv, pc = "consolidate", i \in Glyphs(font),
         NEW k \in Nat, k > 0, \A j \in 1..(k - 1) : Taken(gord, Try(names[i], j)),
         Accepts(gord, Try(names[i], k)),
         gord' = Entered(gord, i, Try(names[i], k)),
         \A g \in Glyphs(font) : g # i => names'[g] = names[g],
         i' = i + 1, suffix' = 0, UNCHANGED <<pc, font, order>>
  PROVE  SettleInv'
<1>1. i \in Nat /\ DOMAIN gord = 0..(i - 1) /\ Glyphs(font) \subseteq Nat
  BY DEF NamesInv, EnteredBefore, Glyphs
<1>2. names[i] = order[i] /\ IsName(order[i])
  BY <1>1 DEF SettleInv, OrderInv, Named
<1>3. SettledAt(gord', order, i)
  BY <1>1, <1>2, EnteredIsSettled
<1>4. \A g \in DOMAIN gord' : SettledAt(gord', order, g)
  BY <1>1, <1>3, EnteringSettles DEF SettleInv
<1>5. \A g \in Glyphs(font) : i' <= g => names'[g] = order[g]
  BY <1>1 DEF SettleInv
<1> QED BY <1>4, <1>5 DEF SettleInv, Glyphs

LEMMA SettleStep == NamesInv /\ OrderInv /\ SettleInv /\ [Next]_vars => SettleInv'
<1> SUFFICES ASSUME NamesInv, OrderInv, SettleInv, [Next]_vars PROVE SettleInv'
  OBVIOUS
<1>1. CASE OwnName \/ PostName \/ CmapName \/ Numbered \/ EndPass
  <2>1. pc \in Naming /\ gord' = gord /\ suffix' = suffix /\ pc' \notin Named
    BY <1>1 DEF OwnName, PostName, CmapName, Numbered, EndPass, NextPass, Naming, Named
  <2>2. gord = <<>> /\ suffix = 0
    BY <2>1 DEF NamesInv, EnteredBefore
  <2> QED BY <2>1, <2>2 DEF SettleInv, Named
<1>2. CASE NameGlyphs
  <2>1. /\ pc = "name" /\ gord' = gord /\ suffix' = suffix /\ order' = order /\ font' = font
        /\ names' = [g \in Glyphs(font) |-> order[g]]
    BY <1>2 DEF NameGlyphs, NamesOf
  <2>2. gord = <<>> /\ suffix = 0
    BY <2>1 DEF NamesInv, EnteredBefore, Naming
  <2> QED BY <2>1, <2>2 DEF SettleInv, Glyphs
<1>3. CASE AcceptName
  <2>1. /\ pc = "consolidate" /\ i \in Glyphs(font) /\ suffix = 0
        /\ UNCHANGED <<pc, font, order, names>>
    BY <1>3 DEF AcceptName
  <2>2. Try(names[i], 1) = names[i]
    BY DEF Try
  <2>3. CASE Accepts(gord, names[i])
    <3>1. gord' = Entered(gord, i, names[i]) /\ i' = i + 1 /\ suffix' = 0
      BY <1>3, <2>3 DEF AcceptName
    <3>2. \A j \in 1..(1 - 1) : Taken(gord, Try(names[i], j))
      OBVIOUS
    <3> QED BY <2>1, <2>2, <2>3, <3>1, <3>2, SettlingKeepsInv
  <2>4. CASE ~Accepts(gord, names[i])
    <3>1. suffix' = 2 /\ UNCHANGED <<gord, i>>
      BY <1>3, <2>4 DEF AcceptName
    <3>2. \A j \in 1..(2 - 1) : Taken(gord, Try(names[i], j))
      BY <2>2, <2>4 DEF Accepts
    <3> QED BY <2>1, <3>1, <3>2 DEF SettleInv, Glyphs
  <2> QED BY <2>3, <2>4
<1>4. CASE TrySuffix
  <2> DEFINE new == Suffixed(names[i], suffix)
  <2>1. pc = "consolidate" /\ suffix > 0 /\ UNCHANGED <<pc, font, order>>
    BY <1>4 DEF TrySuffix
  <2>2. i \in Glyphs(font) /\ i \in DOMAIN names
    BY <2>1 DEF NamesInv, AllNamed, Named
  <2>3. suffix \in Nat /\ suffix >= 2 /\ \A j \in 1..(suffix - 1) : Taken(gord, Try(names[i], j))
    BY <2>1 DEF SettleInv
  <2>4. Try(names[i], suffix) = new
    BY <2>3 DEF Try
  <2>5. CASE Accepts(gord, new)
    <3>1. /\ gord' = Entered(gord, i, new) /\ names' = [names EXCEPT ![i] = new]
          /\ i' = i + 1 /\ suffix' = 0
      BY <1>4, <2>5 DEF TrySuffix, Renamed
    <3>2. \A g \in Glyphs(font) : g # i => names'[g] = names[g]
      <4>1. Glyphs(font) = DOMAIN names
        BY <2>1 DEF NamesInv, AllNamed, Named
      <4> QED BY <3>1, <4>1
    <3> HIDE DEF new
    <3> QED BY <2>1, <2>2, <2>3, <2>4, <2>5, <3>1, <3>2, SettlingKeepsInv
  <2>6. CASE ~Accepts(gord, new)
    <3>1. suffix' = suffix + 1 /\ UNCHANGED <<gord, names, i>>
      BY <1>4, <2>6 DEF TrySuffix, NextSuffix
    <3>2. Taken(gord, Try(names[i], suffix))
      BY <2>4, <2>6 DEF Accepts
    <3> HIDE DEF new
    <3>3. \A j \in 1..suffix : Taken(gord, Try(names[i], j))
      <4> SUFFICES ASSUME NEW j \in 1..suffix PROVE Taken(gord, Try(names[i], j))
        OBVIOUS
      <4>1. j = suffix \/ j \in 1..(suffix - 1)
        BY <2>3
      <4> QED BY <2>3, <3>2, <4>1
    <3>4. (suffix + 1) - 1 = suffix
      BY <2>3
    <3>5. suffix' \in Nat /\ suffix' >= 2 /\ \A j \in 1..(suffix' - 1) : Taken(gord', Try(names'[i'], j))
      BY <2>3, <3>1, <3>3, <3>4
    <3>6. \A g \in Glyphs(font) : i' <= g => names'[g] = order[g]
      BY <2>1, <3>1 DEF SettleInv
    <3>7. \A g \in DOMAIN gord' : SettledAt(gord', order', g)
      BY <2>1, <3>1 DEF SettleInv
    <3> QED BY <2>1, <3>5, <3>6, <3>7 DEF SettleInv, Glyphs
  <2> QED BY <2>5, <2>6
<1>5. CASE Dump \/ Parse
  BY <1>5 DEF Dump, Parse, SettleInv
<1>6. CASE UNCHANGED vars
  BY <1>6 DEF vars, SettleInv, Glyphs
<1> QED BY <1>1, <1>2, <1>3, <1>4, <1>5, <1>6 DEF Next, Done

(* For every font: a glyph loses the name createGlyphOrder gave it only to *)
(* an earlier glyph, and gets the first suffix that is free, which is at   *)
(* most one more than its place: the search tries no more suffixes than    *)
(* there are glyphs before it.                                             *)
THEOREM ClashesSettleInTurn == Spec => []SettledInTurn
<1>1. Init => OrderInv /\ SettleInv
  <2> SUFFICES ASSUME Init PROVE OrderInv /\ SettleInv
    OBVIOUS
  <2>1. DOMAIN order = {} /\ DOMAIN gord = {} /\ suffix = 0 /\ pc = "own"
    BY DEF Init
  <2> QED BY <2>1, FS_EmptySet DEF OrderInv, SettleInv, Named
<1>2. SettleInv => SettledInTurn
  BY DEF SettleInv, SettledInTurn, SettledAt, SettledAs, Borne
<1> QED BY <1>1, <1>2, OrderStep, SettleStep, SpecInv, PTL DEF Spec

-----------------------------------------------------------------------------
(* A font that names its glyphs itself keeps those names.                  *)

Own(g) == IF mode = "names" THEN font.own[g] ELSE font.hash[g]

\* Every glyph has a name of its own, and no two the same.
HasOwnNames ==
  /\ mode \in {"names", "hash"}
  /\ \A g \in Glyphs(font) : Own(g) # NoName
  /\ \A g, h \in Glyphs(font) : Own(g) = Own(h) => g = h

\* The first pass enters them all, the later ones find every glyph named, and
\* the loop of otfcc_consolidateFont never has to try a suffix.
OwnInv ==
  HasOwnNames =>
    /\ pc = "own" => /\ DOMAIN order = 0..(i - 1) /\ i <= font.length
                     /\ \A g \in 0..(i - 1) : order[g] = Own(g)
    /\ pc \in Naming \ {"own"} => \A g \in Glyphs(font) : g \in DOMAIN order /\ order[g] = Own(g)
    /\ pc \in Named => \A g \in Glyphs(font) : names[g] = Own(g)
    /\ pc = "consolidate" => suffix = 0

LEMMA OwnStep == NamesInv /\ OwnInv /\ [Next]_vars => OwnInv'
<1> SUFFICES ASSUME NamesInv, OwnInv, [Next]_vars, HasOwnNames'
             PROVE  /\ pc' = "own" => /\ DOMAIN order' = 0..(i' - 1) /\ i' <= font.length
                                      /\ \A g \in 0..(i' - 1) : order'[g] = Own(g)
                    /\ pc' \in Naming \ {"own"} =>
                         \A g \in Glyphs(font) : g \in DOMAIN order' /\ order'[g] = Own(g)
                    /\ pc' \in Named => \A g \in Glyphs(font) : names'[g] = Own(g)
                    /\ pc' = "consolidate" => suffix' = 0
  BY FontStays DEF OwnInv, Own
<1>1. font' = font /\ mode' = mode
  BY FontStays
<1>2. HasOwnNames
  BY <1>1 DEF HasOwnNames, Own
<1>3. i \in Nat /\ font.length \in Nat
  BY LengthIsNatural DEF NamesInv, EnteredBefore
<1>4. CASE OwnName
  <2>1. pc = "own" /\ pc' = "own" /\ i \in Glyphs(font) /\ i' = i + 1 /\ DOMAIN order = 0..(i - 1)
        /\ \A g \in 0..(i - 1) : order[g] = Own(g)
    BY <1>2, <1>4 DEF OwnInv, OwnName
  <2>2. ~Taken(order, Own(i))
    BY <1>2, <1>3, <2>1 DEF Taken, HasOwnNames, Glyphs
  <2>3. order' = SetByGID(order, i, Own(i))
    BY <1>2, <1>4, <2>1, <2>2 DEF OwnName, HasOwnNames, Own, HashName
  <2>4. order' = [h \in DOMAIN order \union {i} |-> IF h = i THEN Own(i) ELSE order[h]]
    BY <1>3, <2>1, <2>2, <2>3 DEF SetByGID, Entered
  <2>5. DOMAIN order' = 0..i /\ \A g \in 0..i : order'[g] = Own(g)
    BY <1>3, <2>1, <2>4
  <2> QED BY <1>3, <2>1, <2>5 DEF Glyphs, Naming, Named
<1>5. CASE PostName \/ CmapName \/ Numbered
  <2>1. pc \in Naming \ {"own", "name"} /\ pc' = pc
    BY <1>5 DEF PostName, CmapName, Numbered, Naming
  <2>2. order' = order \/ \E g, name : order' = SetByGID(order, g, name)
    BY <1>5 DEF PostName, CmapName, Numbered
  <2>3. \A g \in DOMAIN order : g \in DOMAIN order' /\ order'[g] = order[g]
    BY <2>2, SuggestionKeeps
  <2> QED BY <1>2, <2>1, <2>3 DEF OwnInv, Naming, Named
<1>6. CASE EndPass
  <2>1. pc \in Naming \ {"name"} /\ pc' \in Naming \ {"own"} /\ order' = order
        /\ (pc = "own" => i >= font.length)
    BY <1>6 DEF EndPass, NextPass, PassEnd, Naming
  <2>2. \A g \in Glyphs(font) : g \in DOMAIN order /\ order[g] = Own(g)
    BY <1>2, <1>3, <2>1 DEF OwnInv, Naming, Glyphs
  <2> QED BY <2>1, <2>2 DEF Naming, Named
<1>7. CASE NameGlyphs
  <2>1. /\ pc = "name" /\ pc' = "consolidate" /\ suffix' = suffix
        /\ names' = [g \in Glyphs(font) |-> order[g]]
    BY <1>7 DEF NameGlyphs, NamesOf
  <2>2. suffix = 0 /\ \A g \in Glyphs(font) : order[g] = Own(g)
    BY <1>2, <2>1 DEF OwnInv, NamesInv, EnteredBefore, Naming
  <2> QED BY <2>1, <2>2 DEF Naming, Named
<1>8. CASE AcceptName
  <2>1. pc = "consolidate" /\ pc' = pc /\ names' = names /\ i \in Glyphs(font)
    BY <1>8 DEF AcceptName
  <2>2. \A g \in Glyphs(font) : names[g] = Own(g)
    BY <1>2, <2>1 DEF OwnInv, Named
  <2>3. Accepts(gord, names[i])
    <3>1. DOMAIN gord = 0..(i - 1) /\ \A g \in DOMAIN gord : gord[g] = names[g]
      BY <2>1 DEF NamesInv, EnteredBefore, OrderAgrees
    <3> QED BY <1>2, <1>3, <2>1, <2>2, <3>1 DEF Accepts, Taken, HasOwnNames, Glyphs
  <2>4. suffix' = 0
    BY <1>8, <2>3 DEF AcceptName
  <2> QED BY <2>1, <2>2, <2>4 DEF Naming, Named
<1>9. ASSUME TrySuffix PROVE FALSE
  BY <1>2, <1>3, <1>9 DEF TrySuffix, OwnInv
<1>10. CASE Dump \/ Parse
  <2>1. pc \in Named /\ pc' \in Named \ {"consolidate"} /\ names' = names
    BY <1>10 DEF Dump, Parse, Named
  <2> QED BY <1>2, <2>1 DEF OwnInv, Naming, Named
<1>11. CASE UNCHANGED vars
  BY <1>2, <1>11 DEF vars, OwnInv
<1> QED BY <1>4, <1>5, <1>6, <1>7, <1>8, <1>9, <1>10, <1>11 DEF Next, Done

(* When all names of the font, or all hashes of its outlines, are there    *)
(* and different, no pass and no suffix changes one.                       *)
THEOREM OwnNamesStay == Spec => []OwnNamesKept
<1>1. Init => OwnInv
  <2> SUFFICES ASSUME Init PROVE OwnInv
    OBVIOUS
  <2>1. font.length \in Nat
    BY FontsAreWellFormed DEF Init, IsFont
  <2> QED BY <2>1 DEF Init, OwnInv, Naming, Named
<1>2. OwnInv => OwnNamesKept
  BY DEF OwnInv, OwnNamesKept, HasOwnNames, Own, Named
<1> QED BY <1>1, <1>2, OwnStep, SpecInv, PTL DEF Spec

-----------------------------------------------------------------------------
(* The numbering otfccbuild makes.                                         *)

\* What otfccbuild finds: every glyph in the glyph order, and characters that are
\* numbers.
Dumped ==
  pc \in {"parse", "built", "reordered"} =>
    /\ DOMAIN gord = Glyphs(font)
    /\ json.ordered \in BOOLEAN
    /\ DOMAIN json.cmap \subseteq Nat
    /\ \A k \in DOMAIN json.cmap : json.cmap[k].unicode \in Nat

IsRank(r) == r = Rank(r.kind, r.number) /\ r.kind \in Nat /\ r.number \in Nat

\* The order by which otfccbuild sorts the glyphs.
SortOrder(ignore) ==
  {p \in Glyphs(font) \X Glyphs(font) :
     \/ Before(FromOrder(p[1], ignore), FromOrder(p[2], ignore))
     \/ FromOrder(p[1], ignore) = FromOrder(p[2], ignore) /\ p[1] < p[2]}

LEMMA RanksAreRanks ==
  ASSUME Dumped, pc = "parse", NEW g \in Nat, NEW ignore \in BOOLEAN
  PROVE  IsRank(FromOrder(g, ignore))
<1>1. IsRank(FromGlyf(g))
  BY DEF FromGlyf, IsRank, Rank
<1>2. IsRank(FromCmap(g))
  <2> DEFINE shows == {k \in DOMAIN json.cmap : json.cmap[k].name = names[g] /\ json.cmap[k].unicode > 0}
  <2>1. CASE FromGlyf(g).kind <= 3 \/ shows = {}
    BY <1>1, <2>1 DEF FromCmap
  <2>2. CASE ~(FromGlyf(g).kind <= 3 \/ shows = {})
    <3> DEFINE first == CHOOSE k \in shows : \A h \in shows : k <= h
    <3>1. shows \subseteq Nat /\ shows # {}
      BY <2>2 DEF Dumped
    <3>2. \E k \in shows : \A h \in shows : k <= h
      BY <3>1, LeastNatural
    <3>3. first \in shows
      BY <3>2
    <3>4. json.cmap[first].unicode \in Nat
      BY <3>3 DEF Dumped
    <3>5. FromCmap(g) = Rank(3, json.cmap[first].unicode)
      BY <2>2 DEF FromCmap
    <3> HIDE DEF first
    <3> QED BY <3>4, <3>5 DEF IsRank, Rank
  <2> QED BY <2>1, <2>2
<1>3. IsRank(Rank(1, g))
  BY DEF IsRank, Rank
<1> QED BY <1>2, <1>3 DEF FromOrder

LEMMA SortIsTotal ==
  ASSUME Dumped, pc = "parse", font.length \in Nat, NEW ignore \in BOOLEAN
  PROVE  StrictTotalOrder(SortOrder(ignore), Glyphs(font))
<1> DEFINE G == Glyphs(font)
           rk == [g \in G |-> FromOrder(g, ignore)]
           R == SortOrder(ignore)
<1>1. G \subseteq Nat
  BY DEF Glyphs
<1>2. \A g \in G : IsRank(rk[g])
  BY <1>1, RanksAreRanks
<1>4. \A g, h \in G : <<g, h>> \in R <=>
         Before(rk[g], rk[h]) \/ (rk[g] = rk[h] /\ g < h)
  <2> SUFFICES ASSUME NEW g \in G, NEW h \in G
               PROVE  <<g, h>> \in R <=> Before(rk[g], rk[h]) \/ (rk[g] = rk[h] /\ g < h)
    OBVIOUS
  <2>1. rk[g] = FromOrder(g, ignore) /\ rk[h] = FromOrder(h, ignore)
    OBVIOUS
  <2>2. <<g, h>> \in R <=> \/ Before(FromOrder(g, ignore), FromOrder(h, ignore))
                           \/ FromOrder(g, ignore) = FromOrder(h, ignore) /\ g < h
    BY DEF SortOrder
  <2> QED BY <2>1, <2>2
<1> HIDE DEF G, rk, R
<1>5. \A g, h \in G : rk[g] = rk[h] <=> rk[g].kind = rk[h].kind /\ rk[g].number = rk[h].number
  BY <1>2 DEF IsRank
<1>6. \A g \in G : rk[g].kind \in Nat /\ rk[g].number \in Nat
  BY <1>2 DEF IsRank
<1>7. \A g \in G : <<g, g>> \notin R
  BY <1>1, <1>4, <1>6 DEF Before
<1>8. \A g, h, k \in G : <<g, h>> \in R /\ <<h, k>> \in R => <<g, k>> \in R
  BY <1>1, <1>4, <1>5, <1>6 DEF Before
<1>9. ASSUME NEW g \in G, NEW h \in G PROVE g = h \/ <<g, h>> \in R \/ <<h, g>> \in R
  <2>1. CASE rk[g] = rk[h]
    BY <1>1, <1>4, <2>1
  <2>2. CASE rk[g] # rk[h]
    <3>1. rk[g].kind # rk[h].kind \/ rk[g].number # rk[h].number
      BY <1>5, <2>2
    <3>2. Before(rk[g], rk[h]) \/ Before(rk[h], rk[g])
      BY <1>6, <3>1 DEF Before
    <3> QED BY <1>4, <3>2
  <2> QED BY <2>1, <2>2
<1>10. StrictTotalOrder(R, G)
  BY <1>7, <1>8, <1>9 DEF StrictTotalOrder
<1> QED BY <1>10 DEF R, G

LEMMA PlaceIsRank ==
  ASSUME NEW g \in Glyphs(font), NEW ignore
  PROVE  Place(g, ignore) = RankIn(SortOrder(ignore), Glyphs(font), g)
<1> DEFINE before == {h \in Glyphs(font) :
                 \/ Before(FromOrder(h, ignore), FromOrder(g, ignore))
                 \/ FromOrder(h, ignore) = FromOrder(g, ignore) /\ h < g}
<1>1. before = {h \in Glyphs(font) : <<h, g>> \in SortOrder(ignore)}
  BY DEF SortOrder
<1> QED BY <1>1 DEF Place, RankIn

\* The numbers the glyphs get are the numbers there are.
LEMMA PlacesNumberGlyphs ==
  ASSUME Dumped, pc = "parse", font.length \in Nat, NEW ignore \in BOOLEAN
  PROVE  {Place(g, ignore) : g \in Glyphs(font)} = Glyphs(font)
<1> DEFINE G == Glyphs(font)
           R == SortOrder(ignore)
<1>1. IsFiniteSet(G) /\ Cardinality(G) = font.length
  <2> DEFINE n == font.length
  <2>1. n \in Nat /\ G = 0..(n - 1)
    BY DEF Glyphs
  <2> HIDE DEF n, G
  <2>2. IsFiniteSet(0..(n - 1)) /\ Cardinality(0..(n - 1)) = n
    BY <2>1, FS_Interval
  <2> QED BY <2>1, <2>2 DEF n
<1>2. RanksNumber(R, G)
  BY <1>1, SortIsTotal, TotalOrderNumbers
<1>3. \A g \in G : RankIn(R, G, g) \in G
  BY <1>1, <1>2 DEF RanksNumber, Glyphs
<1>4. \A k \in G : \E g \in G : RankIn(R, G, g) = k
  BY <1>1, <1>2 DEF RanksNumber, Glyphs
<1>5. \A g \in G : Place(g, ignore) = RankIn(R, G, g)
  BY PlaceIsRank
<1> HIDE DEF G, R
<1> QED BY <1>3, <1>4, <1>5 DEF G

\* With the order of the JSON every glyph gets its own number.
LEMMA PlaceOfOrdered ==
  ASSUME font.length \in Nat, json.ordered, NEW g \in Glyphs(font)
  PROVE  Place(g, FALSE) = g
<1>1. {h \in Glyphs(font) : \/ Before(FromOrder(h, FALSE), FromOrder(g, FALSE))
                            \/ FromOrder(h, FALSE) = FromOrder(g, FALSE) /\ h < g} = 0..(g - 1)
  BY DEF FromOrder, Before, Rank, Glyphs
<1>2. Cardinality(0..(g - 1)) = g
  BY FS_Interval DEF Glyphs
<1> QED BY <1>1, <1>2 DEF Place

\* The first of the order comes first, also when the rest of the order is ignored.
LEMMA FirstStaysFirst ==
  ASSUME font.length \in Nat, font.length > 0, Dumped, pc = "parse", json.ordered,
         NEW ignore \in BOOLEAN
  PROVE  Place(0, ignore) = 0
<1>1. FromOrder(0, ignore) = Rank(1, 0)
  BY DEF FromOrder
<1>2. \A h \in Nat : FromGlyf(h).kind \in {2, 4}
  BY DEF FromGlyf, Rank
<1>3. \A h \in Nat : FromCmap(h).kind \in {2, 3, 4}
  BY <1>2 DEF FromCmap, Rank
<1>4. \A h \in Nat : FromOrder(h, ignore).kind >= 1
                     /\ (FromOrder(h, ignore).kind = 1 => FromOrder(h, ignore) = Rank(1, h))
  BY <1>3 DEF FromOrder, Rank
<1>5. \A h \in Nat : ~Before(FromOrder(h, ignore), Rank(1, 0))
  BY <1>3 DEF FromOrder, Before, Rank
<1>6. {h \in Glyphs(font) : \/ Before(FromOrder(h, ignore), FromOrder(0, ignore))
                            \/ FromOrder(h, ignore) = FromOrder(0, ignore) /\ h < 0} = {}
  BY <1>1, <1>5 DEF Glyphs
<1> QED BY <1>6, FS_EmptySet DEF Place

LEMMA DumpedStep == NamesInv /\ Dumped /\ [Next]_vars => Dumped'
<1> SUFFICES ASSUME NamesInv, Dumped, [Next]_vars PROVE Dumped'
  OBVIOUS
<1>1. CASE OwnName \/ PostName \/ CmapName \/ Numbered
  BY <1>1 DEF OwnName, PostName, CmapName, Numbered, Dumped
<1>2. CASE EndPass \/ NameGlyphs
  BY <1>2 DEF EndPass, NextPass, NameGlyphs, Dumped
<1>3. CASE AcceptName \/ TrySuffix
  BY <1>3 DEF AcceptName, TrySuffix, Dumped
<1>4. CASE Dump
  <2>1. pc = "consolidate" /\ i = font.length /\ gord' = gord /\ font' = font
    BY <1>4 DEF Dump
  <2>2. DOMAIN gord' = Glyphs(font)
    BY <2>1 DEF NamesInv, EnteredBefore, Glyphs
  <2>3. font.cmap \in Seq([gid : Nat, unicode : Nat])
    BY FontsAreWellFormed DEF NamesInv, AllNamed, IsFont
  <2>4. /\ json'.ordered = (mode # "ignore")
        /\ json'.cmap = [k \in {k \in 1..Len(font.cmap) : NamedGlyph(font.cmap[k])} |->
                           [unicode |-> font.cmap[k].unicode, name |-> gord[font.cmap[k].gid]]]
    BY <1>4 DEF Dump
  <2>5. \A k \in 1..Len(font.cmap) : k \in Nat /\ font.cmap[k].unicode \in Nat
    <3> DEFINE n == Len(font.cmap)
    <3> DEFINE Entries == [gid : Nat, unicode : Nat]
    <3>1. font.cmap \in Seq(Entries)
      BY <2>3
    <3> HIDE DEF Entries
    <3>2. n \in Nat /\ \A k \in 1..n : font.cmap[k] \in Entries
      BY <3>1, LenProperties, ElementOfSeq
    <3> HIDE DEF n
    <3>3. \A k \in 1..n : k \in Nat /\ font.cmap[k].unicode \in Nat
      BY <3>2 DEF Entries
    <3> QED BY <3>3 DEF n
  <2>6. DOMAIN json'.cmap \subseteq Nat /\ \A k \in DOMAIN json'.cmap : json'.cmap[k].unicode \in Nat
    BY <2>4, <2>5
  <2> QED BY <2>1, <2>2, <2>4, <2>6 DEF Dumped, Glyphs
<1>5. CASE Parse
  BY <1>5 DEF Parse, Dumped, Glyphs
<1>6. CASE UNCHANGED vars
  BY <1>6 DEF vars, Dumped, Glyphs
<1> QED BY <1>1, <1>2, <1>3, <1>4, <1>5, <1>6 DEF Next, Done

LEMMA RenumberedStep == NamesInv /\ Dumped /\ Renumbered /\ [Next]_vars => Renumbered'
<1> SUFFICES ASSUME NamesInv, Dumped, Renumbered, [Next]_vars PROVE Renumbered'
  OBVIOUS
<1>1. CASE OwnName \/ PostName \/ CmapName \/ Numbered
  BY <1>1 DEF OwnName, PostName, CmapName, Numbered, Renumbered
<1>2. CASE EndPass \/ NameGlyphs
  BY <1>2 DEF EndPass, NextPass, NameGlyphs, Renumbered
<1>3. CASE AcceptName \/ TrySuffix \/ Dump
  BY <1>3 DEF AcceptName, TrySuffix, Dump, Renumbered
<1>4. CASE Parse
  <2> DEFINE G == Glyphs(font)
  <2>1. PICK ignore \in BOOLEAN :
          /\ built' = [n \in {names[g] : g \in G} |-> Place(CHOOSE g \in G : names[g] = n, ignore)]
          /\ pc' = IF ignore THEN "reordered" ELSE "built"
    BY <1>4 DEF Parse
  <2>2. pc = "parse" /\ UNCHANGED <<font, json, names>>
    BY <1>4 DEF Parse
  <2>3. DOMAIN gord = G
    BY <2>2 DEF Dumped
  <2>4. \A g, h \in G : names[g] = names[h] => g = h
    BY <2>3 DEF NamesInv, OneGlyphPerName, OrderAgrees
  <2>5. \A g \in G : (CHOOSE h \in G : names[h] = names[g]) = g
    BY <2>4
  <2>6. \A g \in G : built'[names'[g]] = Place(g, ignore)
    BY <2>1, <2>2, <2>5
  <2>7. font.length \in Nat
    BY LengthIsNatural
  <2>8. {Place(g, ignore) : g \in G} = G
    BY <2>2, <2>7, PlacesNumberGlyphs
  <2>9. {built'[names'[g]] : g \in G} = G
    BY <2>6, <2>8
  <2>10. pc' = "built" /\ json.ordered => \A g \in G : built'[names'[g]] = g
    BY <2>1, <2>6, <2>7, PlaceOfOrdered
  <2>11. json.ordered /\ font.length > 0 => built'[names'[0]] = 0
    BY <2>2, <2>6, <2>7, FirstStaysFirst DEF Glyphs
  <2> QED BY <2>2, <2>9, <2>10, <2>11 DEF Renumbered, Glyphs
<1>5. CASE UNCHANGED vars
  BY <1>5 DEF vars, Renumbered, Glyphs
<1> QED BY <1>1, <1>2, <1>3, <1>4, <1>5 DEF Next, Done

(* What otfccdump wrote, otfccbuild numbers as it was; and when it is told *)
(* to ignore the order, its stable sort still gives each number to one     *)
(* glyph.                                                                  *)
THEOREM NumbersComeBack == Spec => []Renumbered
<1>1. Init => Dumped /\ Renumbered
  BY DEF Init, Dumped, Renumbered
<1> QED BY <1>1, DumpedStep, RenumberedStep, SpecInv, PTL DEF Spec
===============================================================================
