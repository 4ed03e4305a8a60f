------------------------ MODULE ChainingLookup_proofs ------------------------
(***************************************************************************)
(* For every lookup, every set of glyphs and any number of rules: merging  *)
(* the rules of a chaining lookup into class subtables changes no match,   *)
(* and the rules read back from the file do to every text what the lookup  *)
(* does.                                                                   *)
(*                                                                         *)
(* A cell of the file is found by the place of its part in the rule; every *)
(* coverage and class comes back as the set of its glyphs (CoverageReadBack*)
(* and ClassDefReadBack).  So a written rule comes back saying the same    *)
(* (SaysAs).  A class subtable gives its rules back by the class they      *)
(* start with: two of them change places only when they are apart, so      *)
(* never when both match, and the first rule that matches stays the first. *)
(***************************************************************************)
EXTENDS ChainingLookup, OtlGlyphSets_proofs

-----------------------------------------------------------------------------
(* The classifier.                                                         *)

\* Where the scan stands.
Loop ==
  pc = "classify" =>
    /\ j <= Len(lookup) /\ k \in j..(Len(lookup) + 1)
    /\ k <= Len(lookup) => m \in 1..(Len(lookup[k].match) + 1)
    /\ count = IF k = j THEN 0 ELSE k - j - 1

\* The class a merged rule names at a position is the rule's coverage there.
Merged ==
  \A i \in DOMAIN written : written[i].format = "classes" =>
    \A n \in written[i].first..written[i].last : \A q \in DOMAIN lookup[n].match :
      LET h == written[i].class[Side(lookup[n], q)]
          x == written[i].rules[n - written[i].first + 1][q]
      IN x # 0 /\ \A g \in Glyphs : h[g] = x <=> g \in lookup[n].match[q]

IInv == TypeOK /\ Loop /\ ClassesExact /\ RulesInOrder /\ Merged

-----------------------------------------------------------------------------
LEMMA LookupFacts ==
  ASSUME lookup \in Lookups
  PROVE  /\ Len(lookup) \in Nat /\ DOMAIN lookup = 1..Len(lookup)
         /\ \A r \in 1..Len(lookup) :
              /\ IsRule(lookup[r])
              /\ Len(lookup[r].match) \in Nat
              /\ DOMAIN lookup[r].match = 1..Len(lookup[r].match)
              /\ \A q \in DOMAIN lookup[r].match :
                   lookup[r].match[q] # {} /\ lookup[r].match[q] \subseteq Glyphs
<1>1. lookup \in Seq({lookup[i] : i \in DOMAIN lookup})
  BY ClassifierConstants
<1>2. Len(lookup) \in Nat /\ DOMAIN lookup = 1..Len(lookup)
  BY <1>1
<1>3. \A r \in 1..Len(lookup) : IsRule(lookup[r])
  BY <1>2, ClassifierConstants
<1> QED
  BY <1>2, <1>3 DEF IsRule

LEMMA SideIsSide == ASSUME NEW r, NEW q PROVE Side(r, q) \in Sides
BY DEF Side, Sides

\* A coverage the classes accept without change is one class.
LEMMA AcceptedIsOneClass ==
  ASSUME NEW h, NEW cov, cov # {}, IsClass(h, cov)
  PROVE  OneClass(h, cov)
<1>1. FirstGlyph(cov) \in cov
  BY DEF FirstGlyph
<1> QED
  BY <1>1 DEF IsClass, OneClass

\* Taking a fresh coverage in as class n + 1 makes it one class, and leaves the
\* coverages that were one class so.
LEMMA FreshClass ==
  ASSUME NEW h \in [Glyphs -> Nat], NEW n \in Nat, \A g \in Glyphs : h[g] <= n,
         NEW cov \in SUBSET Glyphs, cov # {}, IsFresh(h, cov),
         NEW h1, h1 = [g \in Glyphs |-> IF g \in cov THEN n + 1 ELSE h[g]]
  PROVE  /\ OneClass(h1, cov)
         /\ \A old \in SUBSET Glyphs : OneClass(h, old) => OneClass(h1, old)
<1>1. OneClass(h1, cov)
  <2>1. PICK x \in cov : TRUE
    OBVIOUS
  <2>2. h1[x] = n + 1 /\ \A g \in Glyphs : h1[g] = n + 1 <=> g \in cov
    BY <2>1
  <2> QED
    BY <2>1, <2>2 DEF OneClass
<1>2. ASSUME NEW old \in SUBSET Glyphs, OneClass(h, old)
      PROVE  OneClass(h1, old)
  <2>1. PICK x \in old : h[x] # 0 /\ \A g \in Glyphs : h[g] = h[x] <=> g \in old
    BY <1>2 DEF OneClass
  <2>2. x \notin cov /\ h1[x] = h[x]
    BY <2>1 DEF IsFresh
  <2>3. \A g \in Glyphs : h1[g] = h1[x] <=> g \in old
    BY <2>1, <2>2 DEF IsFresh
  <2> QED
    BY <2>1, <2>2, <2>3 DEF OneClass
<1> QED
  BY <1>1, <1>2

-----------------------------------------------------------------------------
LEMMA InitHolds == Init => IInv
<1> SUFFICES ASSUME Init PROVE IInv
  OBVIOUS
<1>1. TypeOK
  BY DEF Init, TypeOK, Empty
<1>2. Loop /\ ClassesExact /\ Merged
  BY DEF Init, Loop, ClassesExact, Merged
<1>3. RulesInOrder
  BY DEF Init, RulesInOrder
<1> QED
  BY <1>1, <1>2, <1>3 DEF IInv

LEMMA BeginGroupKeeps == ASSUME IInv, BeginGroup PROVE IInv'
<1>1. TypeOK'
  BY DEF IInv, TypeOK, BeginGroup, Empty
<1>2. Loop'
  BY LookupFacts DEF IInv, TypeOK, BeginGroup, Loop
<1>3. ClassesExact'
  BY LookupFacts DEF IInv, TypeOK, BeginGroup, ClassesExact
<1>4. RulesInOrder' /\ Merged'
  BY DEF IInv, BeginGroup, RulesInOrder, Merged
<1> QED
  BY <1>1, <1>2, <1>3, <1>4 DEF IInv

LEMMA MatchPositionKeeps == ASSUME IInv, MatchPosition PROVE IInv'
<1> DEFINE cov == lookup[k].match[m]
           s == Side(lookup[k], m)
<1>1. /\ k \in 1..Len(lookup) /\ m \in DOMAIN lookup[k].match
      /\ cov # {} /\ cov \subseteq Glyphs /\ s \in Sides
      /\ m + 1 \in 1..(Len(lookup[k].match) + 1)
  BY LookupFacts, SideIsSide DEF IInv, TypeOK, Loop, MatchPosition
<1>2. CASE IsClass(class[s], cov)
  <2>1. UNCHANGED <<past, class, pc, lookup, j, k, count, written>> /\ m' = m + 1
    BY <1>1, <1>2 DEF MatchPosition
  <2>2. OneClass(class[s], cov)
    BY <1>1, <1>2, AcceptedIsOneClass
  <2>3. TypeOK' /\ Loop' /\ RulesInOrder' /\ Merged'
    BY <1>1, <2>1 DEF IInv, TypeOK, Loop, RulesInOrder, Merged
  <2>4. ClassesExact'
    <3> SUFFICES ASSUME NEW r \in j..k, r <= Len(lookup),
                        NEW q \in DOMAIN lookup[r].match, r < k \/ q < m + 1
                 PROVE  OneClass(class[Side(lookup[r], q)], lookup[r].match[q])
      BY <2>1 DEF ClassesExact
    <3>1. CASE r = k /\ q = m
      BY <3>1, <2>2
    <3>2. CASE ~(r = k /\ q = m)
      <4>1. r < k \/ q < m
        BY <3>2, <1>1, LookupFacts DEF IInv, TypeOK
      <4> QED
        BY <4>1 DEF IInv, ClassesExact, MatchPosition
    <3> QED
      BY <3>1, <3>2
  <2> QED
    BY <2>3, <2>4 DEF IInv
<1>3. CASE ~IsClass(class[s], cov)
  <2>1. /\ UNCHANGED <<pc, lookup, j, k, count, written>> /\ m' = m + 1
        /\ past' = [past EXCEPT ![s] = @ + 1]
        /\ class' = [class EXCEPT ![s] =
                       [g \in Glyphs |-> IF g \in cov THEN past[s] + 1 ELSE @[g]]]
        /\ IsFresh(class[s], cov)
    BY <1>1, <1>3 DEF MatchPosition, Compatible, MoreClasses
  <2> DEFINE h1 == [g \in Glyphs |-> IF g \in cov THEN past[s] + 1 ELSE class[s][g]]
  <2>2. /\ class' \in [Sides -> [Glyphs -> Nat]] /\ past' \in [Sides -> Nat]
        /\ class'[s] = h1 /\ past'[s] = past[s] + 1
        /\ \A z \in Sides \ {s} : class'[z] = class[z] /\ past'[z] = past[z]
    BY <1>1, <2>1 DEF IInv, TypeOK
  <2>3. \A z \in Sides : \A g \in Glyphs : class'[z][g] <= past'[z]
    <3> SUFFICES ASSUME NEW z \in Sides, NEW g \in Glyphs
                 PROVE  class'[z][g] <= past'[z]
      OBVIOUS
    <3>1. class[z][g] <= past[z] /\ class[z][g] \in Nat /\ past[z] \in Nat
      BY DEF IInv, TypeOK
    <3>2. CASE z = s
      BY <3>1, <3>2, <2>2
    <3>3. CASE z # s
      BY <3>1, <3>3, <2>2
    <3> QED
      BY <3>2, <3>3
  <2>4. TypeOK' /\ Loop' /\ RulesInOrder' /\ Merged'
    <3>1. TypeOK'
      BY <1>1, <2>1, <2>2, <2>3 DEF IInv, TypeOK
    <3>2. Loop'
      BY <1>1, <2>1, <2>2 DEF IInv, TypeOK, Loop
    <3>3. RulesInOrder' /\ Merged'
      BY <2>1 DEF IInv, RulesInOrder, Merged
    <3> QED BY <3>1, <3>2, <3>3
  <2>5. /\ OneClass(h1, cov)
        /\ \A old \in SUBSET Glyphs : OneClass(class[s], old) => OneClass(h1, old)
    <3>1. /\ class[s] \in [Glyphs -> Nat] /\ past[s] \in Nat
          /\ \A g \in Glyphs : class[s][g] <= past[s]
      BY <1>1 DEF IInv, TypeOK
    <3> DEFINE h == class[s]
               n == past[s]
    <3>2. h1 = [g \in Glyphs |-> IF g \in cov THEN n + 1 ELSE h[g]]
      OBVIOUS
    <3>3. h \in [Glyphs -> Nat] /\ n \in Nat /\ \A g \in Glyphs : h[g] <= n
      BY <3>1
    <3>4. cov \in SUBSET Glyphs /\ cov # {} /\ IsFresh(h, cov)
      BY <1>1, <2>1
    <3>5. OneClass(h1, cov) /\ \A old \in SUBSET Glyphs : OneClass(h, old) => OneClass(h1, old)
      <4> HIDE DEF h1, h, n, cov
      <4> QED
        BY <3>2, <3>3, <3>4, FreshClass
    <3> QED
      BY <3>5
  <2>6. ASSUME NEW r \in j..k, r <= Len(lookup), NEW q \in DOMAIN lookup[r].match,
               r < k \/ q < m + 1, pc = "classify"
        PROVE  OneClass(class'[Side(lookup[r], q)], lookup[r].match[q])
    <3>1. lookup[r].match[q] \in SUBSET Glyphs /\ Side(lookup[r], q) \in Sides
      BY <2>6, LookupFacts, SideIsSide DEF IInv, TypeOK
    <3>2. CASE r = k /\ q = m
      BY <3>2, <2>2, <2>5
    <3>3. CASE ~(r = k /\ q = m)
      <4>1. r < k \/ q < m
        BY <2>6, <3>3, <1>1, LookupFacts DEF IInv, TypeOK
      <4>2. OneClass(class[Side(lookup[r], q)], lookup[r].match[q])
        BY <2>6, <4>1 DEF IInv, ClassesExact
      <4> QED
        BY <4>2, <3>1, <2>2, <2>5
    <3> QED
      BY <3>2, <3>3
  <2>7. ClassesExact'
    BY <2>1, <2>6 DEF ClassesExact
  <2> QED
    BY <2>4, <2>7 DEF IInv
<1> QED
  BY <1>2, <1>3

LEMMA RuleFitsKeeps == ASSUME IInv, RuleFits PROVE IInv'
<1>1. k \in 1..Len(lookup) /\ Len(lookup) \in Nat /\ m > Len(lookup[k].match)
  BY LookupFacts DEF IInv, TypeOK, RuleFits
<1>2. TypeOK' /\ RulesInOrder' /\ Merged'
  BY <1>1 DEF IInv, TypeOK, RuleFits, RulesInOrder, Merged
<1>3. Loop'
  <2>1. k + 1 <= Len(lookup) => 1 \in 1..(Len(lookup[k + 1].match) + 1)
    BY <1>1, LookupFacts DEF IInv, TypeOK
  <2> QED
    BY <1>1, <2>1 DEF IInv, TypeOK, RuleFits, Loop
<1>4. ClassesExact'
  <2> SUFFICES ASSUME NEW r \in j..(k + 1), r <= Len(lookup),
                      NEW q \in DOMAIN lookup[r].match, r < k + 1 \/ q < 1
               PROVE  OneClass(class[Side(lookup[r], q)], lookup[r].match[q])
    BY DEF RuleFits, ClassesExact
  <2>1. r \in 1..Len(lookup) /\ q \in 1..Len(lookup[r].match)
    BY <1>1, LookupFacts DEF IInv, TypeOK
  <2>2. r \in j..k /\ (r < k \/ q < m)
    BY <1>1, <2>1, LookupFacts DEF IInv, TypeOK
  <2> QED
    BY <2>1, <2>2 DEF IInv, ClassesExact, RuleFits
<1> QED
  BY <1>2, <1>3, <1>4 DEF IInv

\* The rules of the group under way that the scan has passed.
LEMMA GroupIsExact ==
  ASSUME IInv, pc = "classify", count > 1
  PROVE  /\ j + count = k - 1 /\ j + count <= Len(lookup) /\ j < k
         /\ \A n \in j..(j + count) : \A q \in DOMAIN lookup[n].match :
              OneClass(class[Side(lookup[n], q)], lookup[n].match[q])
<1>1. Len(lookup) \in Nat
  BY LookupFacts DEF IInv, TypeOK
<1>2. j + count = k - 1 /\ j + count <= Len(lookup) /\ j < k
  BY <1>1 DEF IInv, TypeOK, Loop
<1>3. ASSUME NEW n \in j..(j + count), NEW q \in DOMAIN lookup[n].match
      PROVE  OneClass(class[Side(lookup[n], q)], lookup[n].match[q])
  <2>1. n \in j..k /\ n <= Len(lookup) /\ n < k
    BY <1>1, <1>2 DEF IInv, TypeOK
  <2> QED
    BY <2>1 DEF IInv, ClassesExact
<1> QED
  BY <1>2, <1>3

\* The class of the first glyph of a coverage that is one class.
LEMMA ClassOfFirst ==
  ASSUME NEW h, NEW cov \in SUBSET Glyphs, OneClass(h, cov)
  PROVE  LET x == h[FirstGlyph(cov)]
         IN x # 0 /\ \A g \in Glyphs : h[g] = x <=> g \in cov
<1>1. PICK y \in cov : h[y] # 0 /\ \A g \in Glyphs : h[g] = h[y] <=> g \in cov
  BY DEF OneClass
<1>2. FirstGlyph(cov) \in cov
  BY <1>1 DEF FirstGlyph
<1> QED
  BY <1>1, <1>2

LEMMA ClassRuleType ==
  ASSUME IInv, NEW n \in 1..Len(lookup)
  PROVE  ClassRule(lookup[n], class) \in Seq(Nat)
<1> DEFINE r == lookup[n]
<1>1. DOMAIN r.match = 1..Len(r.match) /\ Len(r.match) \in Nat
  BY LookupFacts DEF IInv, TypeOK
<1>2. ASSUME NEW q \in DOMAIN r.match
      PROVE  (IF r.match[q] = {} THEN 0 ELSE class[Side(r, q)][FirstGlyph(r.match[q])]) \in Nat
  <2>1. r.match[q] # {} /\ r.match[q] \subseteq Glyphs /\ Side(r, q) \in Sides
    BY LookupFacts, SideIsSide DEF IInv, TypeOK
  <2>2. FirstGlyph(r.match[q]) \in Glyphs
    BY <2>1 DEF FirstGlyph
  <2> QED
    BY <2>1, <2>2 DEF IInv, TypeOK
<1> QED
  BY <1>1, <1>2 DEF ClassRule

LEMMA WriteSubtableKeeps == ASSUME IInv, WriteSubtable PROVE IInv'
<1> DEFINE last == LastOfGroup
           merged == IF count > 1
                    THEN [i \in 1..(count + 1) |-> ClassRule(lookup[j + i - 1], class)]
                    ELSE <<>>
           new == [first |-> j, last |-> last,
                   format |-> IF count > 1 THEN "classes" ELSE "coverages",
                   class |-> class, rules |-> merged]
<1>1. /\ pc = "classify" /\ pc' = "next" /\ written' = Append(written, new)
      /\ j' = last + 1 /\ UNCHANGED <<lookup, k, m, class, past, count>>
  BY DEF WriteSubtable
<1>2. /\ Len(lookup) \in Nat /\ j \in 1..Len(lookup) /\ count \in Nat
      /\ last \in j..Len(lookup)
  BY <1>1, LookupFacts, GroupIsExact DEF IInv, TypeOK, Loop, LastOfGroup
<1>3. merged \in Seq(Seq(Nat))
  <2>1. CASE count > 1
    <3>1. \A i \in 1..(count + 1) : j + i - 1 \in 1..Len(lookup)
      BY <1>1, <1>2, <2>1, GroupIsExact
    <3>2. \A i \in 1..(count + 1) : ClassRule(lookup[j + i - 1], class) \in Seq(Nat)
      BY <3>1, ClassRuleType
    <3> DEFINE f == [i \in 1..(count + 1) |-> ClassRule(lookup[j + i - 1], class)]
    <3>3. f \in [1..(count + 1) -> Seq(Nat)] /\ merged = f
      BY <2>1, <3>2
    <3> HIDE DEF f, merged
    <3> QED
      BY <1>2, <3>3, SeqDef
  <2>2. CASE ~(count > 1)
    BY <2>2
  <2> QED
    BY <2>1, <2>2
<1>4. new \in Subtables
  <2> HIDE DEF merged
  <2> QED
    BY <1>2, <1>3 DEF IInv, TypeOK, Subtables
<1>5. /\ written \in Seq(Subtables) /\ written' \in Seq(Subtables)
      /\ Len(written) \in Nat /\ Len(written') = Len(written) + 1
      /\ DOMAIN written = 1..Len(written) /\ DOMAIN written' = 1..(Len(written) + 1)
      /\ \A i \in 1..Len(written) : written'[i] = written[i]
      /\ written'[Len(written) + 1] = new
  <2> HIDE DEF new
  <2> QED
    BY <1>1, <1>4 DEF IInv, TypeOK
<1>6. TypeOK'
  BY <1>1, <1>2, <1>5 DEF IInv, TypeOK
<1>7. Loop' /\ ClassesExact'
  BY <1>1 DEF Loop, ClassesExact
<1>8. new.first = j /\ new.last = last /\ new.class = class
  OBVIOUS
<1>9. RulesInOrder'
  <2> HIDE DEF new, last
  <2>1. written' # <<>> /\ j' = written'[Len(written')].last + 1
    BY <1>1, <1>5, <1>8
  <2>2. ASSUME NEW i \in DOMAIN written'
        PROVE  /\ written'[i].first = (IF i = 1 THEN 1 ELSE written'[i - 1].last + 1)
               /\ written'[i].first <= written'[i].last /\ written'[i].last <= Len(lookup')
    <3>1. CASE i \in 1..Len(written)
      BY <3>1, <1>1, <1>5 DEF IInv, RulesInOrder
    <3>2. CASE i = Len(written) + 1
      <4>1. j = (IF i = 1 THEN 1 ELSE written'[i - 1].last + 1)
        BY <3>2, <1>5 DEF IInv, RulesInOrder
      <4>2. written'[i] = new /\ lookup' = lookup /\ last \in Nat
        BY <3>2, <1>1, <1>2, <1>5
      <4>3. written'[i].first = j /\ written'[i].last = last
        BY <4>2, <1>8
      <4> HIDE DEF merged
      <4> QED
        BY <4>1, <4>2, <4>3, <1>2
    <3> QED
      BY <3>1, <3>2, <1>5
  <2> QED
    BY <1>1, <2>1, <2>2 DEF RulesInOrder
<1>10. Merged'
  <2>0. lookup' = lookup
    BY <1>1
  <2> HIDE DEF new, merged, last
  <2> SUFFICES ASSUME NEW i \in DOMAIN written', written'[i].format = "classes",
                      NEW n \in written'[i].first..written'[i].last,
                      NEW q \in DOMAIN lookup[n].match
               PROVE  LET h == written'[i].class[Side(lookup[n], q)]
                          x == written'[i].rules[n - written'[i].first + 1][q]
                      IN x # 0 /\ \A g \in Glyphs : h[g] = x <=> g \in lookup[n].match[q]
    BY <2>0 DEF Merged
  <2>1. CASE i \in 1..Len(written)
    BY <2>1, <1>5 DEF IInv, Merged
  <2>2. CASE i = Len(written) + 1
    <3>1. written'[i] = new /\ count > 1 /\ last = j + count
      <4>1. written'[i] = new
        BY <2>2, <1>5
      <4>2. new.format = IF count > 1 THEN "classes" ELSE "coverages"
        BY DEF new
      <4>3. count > 1
        BY <4>1, <4>2
      <4> QED
        BY <4>1, <4>3 DEF last, LastOfGroup
    <3>2. n \in j..(j + count) /\ n \in 1..Len(lookup)
      <4>1. written'[i].first = j /\ written'[i].last = j + count
        BY <3>1, <1>8
      <4> QED
        BY <4>1, <3>1, <1>2
    <3>3. written'[i].rules[n - j + 1] = ClassRule(lookup[n], class)
      <4>1. n - j + 1 \in 1..(count + 1) /\ j + (n - j + 1) - 1 = n
        BY <3>2, <1>2
      <4>2. merged[n - j + 1] = ClassRule(lookup[j + (n - j + 1) - 1], class)
        BY <4>1, <3>1 DEF merged
      <4>3. written'[i].rules = merged
        BY <3>1 DEF new
      <4> QED
        BY <4>1, <4>2, <4>3
    <3>4. lookup[n].match[q] # {} /\ lookup[n].match[q] \in SUBSET Glyphs
      BY <3>2, LookupFacts DEF IInv, TypeOK
    <3>5. ClassRule(lookup[n], class)[q] = class[Side(lookup[n], q)][FirstGlyph(lookup[n].match[q])]
      BY <3>4 DEF ClassRule
    <3>6. OneClass(class[Side(lookup[n], q)], lookup[n].match[q])
      BY <1>1, <3>1, <3>2, GroupIsExact
    <3>7. written'[i].class = class /\ written'[i].first = j
      BY <3>1, <1>8
    <3> QED
      BY <3>3, <3>4, <3>5, <3>6, <3>7, ClassOfFirst
  <2> QED
    BY <2>1, <2>2, <1>5
<1> QED
  BY <1>6, <1>7, <1>9, <1>10 DEF IInv

LEMMA FinishKeeps == ASSUME IInv, Finish PROVE IInv'
<1>1. /\ pc = "next" /\ pc' = "done" /\ j > Len(lookup)
      /\ UNCHANGED <<lookup, j, k, m, class, past, count, written>>
  BY DEF Finish
<1>2. TypeOK' /\ Loop' /\ ClassesExact' /\ Merged'
  BY <1>1 DEF IInv, TypeOK, Loop, ClassesExact, Merged
<1>3. j = Len(lookup) + 1
  <2>1. /\ Len(lookup) \in Nat /\ j \in Nat \ {0}
        /\ written \in Seq(Subtables) /\ Len(written) \in Nat
        /\ written # <<>> => Len(written) \in DOMAIN written
    BY LookupFacts DEF IInv, TypeOK
  <2>2. CASE written = <<>>
    BY <1>1, <2>1, <2>2 DEF IInv, RulesInOrder
  <2>3. CASE written # <<>>
    <3>1. written[Len(written)].last \in Nat
      <4>1. written[Len(written)] \in Subtables
        BY <2>1, <2>3, ElementOfSeq
      <4>2. \A x \in Subtables : x.last \in Nat
        BY DEF Subtables
      <4> QED
        BY <4>1, <4>2
    <3> QED
      BY <1>1, <2>1, <2>3, <3>1 DEF IInv, RulesInOrder
  <2> QED
    BY <2>2, <2>3
<1>4. RulesInOrder'
  BY <1>1, <1>3 DEF IInv, RulesInOrder
<1> QED
  BY <1>2, <1>4 DEF IInv

LEMMA StepHolds == IInv /\ [Next]_vars => IInv'
<1> SUFFICES ASSUME IInv, [Next]_vars PROVE IInv'
  OBVIOUS
<1>1. CASE BeginGroup
  BY <1>1, BeginGroupKeeps
<1>2. CASE MatchPosition
  BY <1>2, MatchPositionKeeps
<1>3. CASE RuleFits
  BY <1>3, RuleFitsKeeps
<1>4. CASE WriteSubtable
  BY <1>4, WriteSubtableKeeps
<1>5. CASE Finish
  BY <1>5, FinishKeeps
<1>6. CASE UNCHANGED vars
  BY <1>6 DEF vars, IInv, TypeOK, Loop, ClassesExact, RulesInOrder, Merged
<1> QED
  BY <1>1, <1>2, <1>3, <1>4, <1>5, <1>6 DEF Next, Done

\* A rule written as classes matches the texts its coverages match.
LEMMA MergedMatches == IInv => MatchPreserved
<1> SUFFICES ASSUME IInv, NEW i \in DOMAIN written,
                    NEW n \in written[i].first..written[i].last, NEW t \in Texts
             PROVE  MatchesWritten(written[i], n, t) <=> Matches(lookup[n], t)
  BY DEF MatchPreserved
<1>1. CASE written[i].format = "coverages"
  BY <1>1 DEF MatchesWritten
<1>2. CASE written[i].format # "coverages"
  <2>1. /\ written[i] \in Subtables /\ i \in 1..Len(written) /\ Len(written) \in Nat
        /\ \A z \in 1..Len(written) : written[z] \in Subtables
    BY ElementOfSeq DEF IInv, TypeOK
  <2>2. written[i].format = "classes" /\ written[i].first \in Nat /\ written[i].last \in Nat
    BY <1>2, <2>1 DEF Subtables
  <2>3. n \in 1..Len(lookup)
    <3>1. written[i].first >= 1
      <4>1. CASE i = 1
        BY <4>1 DEF IInv, RulesInOrder
      <4>2. CASE i # 1
        <5>1. i - 1 \in 1..Len(written)
          BY <2>1, <4>2
        <5>2. written[i - 1].last \in Nat
          BY <2>1, <5>1 DEF Subtables
        <5> QED
          BY <4>2, <5>2 DEF IInv, RulesInOrder
      <4> QED
        BY <4>1, <4>2
    <3>2. written[i].last <= Len(lookup) /\ Len(lookup) \in Nat
      BY LookupFacts DEF IInv, TypeOK, RulesInOrder
    <3> QED
      BY <2>2, <3>1, <3>2
  <2> DEFINE r == lookup[n]
             c(q) == written[i].class[Side(r, q)]
             x(q) == written[i].rules[n - written[i].first + 1][q]
  <2>4. \A q \in DOMAIN r.match :
           x(q) # 0 /\ \A g \in Glyphs : c(q)[g] = x(q) <=> g \in r.match[q]
    BY <2>2 DEF IInv, Merged
  <2>5. /\ r.inputBegins \in 0..Reach /\ r.inputEnds \in Nat /\ Reach \in Nat
        /\ r.inputBegins < r.inputEnds /\ r.inputEnds <= Len(r.match)
        /\ Len(r.match) <= r.inputBegins + 1 + Reach /\ Len(r.match) \in Nat
        /\ DOMAIN r.match = 1..Len(r.match)
    BY <2>3, LookupFacts, ClassifierConstants DEF IInv, TypeOK, IsRule
  <2>6. \A q \in DOMAIN r.match : t[At(r, q)] \in Glyphs
    <3>1. \A q \in DOMAIN r.match : At(r, q) \in (0 - Reach)..Reach
      BY <2>5 DEF At
    <3> QED
      BY <3>1 DEF Texts
  <2>7. (\A q \in DOMAIN r.match : c(q)[t[At(r, q)]] = x(q)) <=> Matches(r, t)
    <3> HIDE DEF r, c, x
    <3> QED
      BY <2>4, <2>6 DEF Matches
  <2>8. Matches(r, t) => written[i].class["i"][t[0]] # 0
    <3> DEFINE q == r.inputBegins + 1
    <3>1. q \in DOMAIN r.match /\ Side(r, q) = "i" /\ At(r, q) = 0
      BY <2>5 DEF Side, At
    <3>2. Matches(r, t) => c(q)[t[At(r, q)]] # 0
      BY <2>4, <2>7, <3>1
    <3> QED
      BY <3>1, <3>2
  <2> QED
    BY <1>2, <2>7, <2>8 DEF MatchesWritten
<1> QED
  BY <1>1, <1>2

-----------------------------------------------------------------------------
LEMMA Invariant == Spec => []IInv
BY InitHolds, StepHolds, PTL DEF Spec

(* The variables keep their types and no class number exceeds the count of *)
(* classes (classno_b, classno_i, classno_f).                              *)
THEOREM TypeIsCorrect == Spec => []TypeOK
<1>1. IInv => TypeOK
  BY DEF IInv
<1> QED
  BY <1>1, Invariant, PTL

(* tryClassifyAround never breaks a class it has handed out: all the       *)
(* coverages it accepted are exactly classes, also after a rule was given  *)
(* up half way.                                                            *)
THEOREM ClassesStayExact == Spec => []ClassesExact
<1>1. IInv => ClassesExact
  BY DEF IInv
<1> QED
  BY <1>1, Invariant, PTL

(* otfcc_classifiedBuildChaining writes every rule once and in order.      *)
THEOREM RulesStayInOrder == Spec => []RulesInOrder
<1>1. IInv => RulesInOrder
  BY DEF IInv
<1> QED
  BY <1>1, Invariant, PTL

(* A merged rule matches exactly the texts its source rule matches.        *)
THEOREM MatchIsPreserved == Spec => []MatchPreserved
BY MergedMatches, Invariant, PTL

-----------------------------------------------------------------------------
(* The classes of a side, on their way to the file and back.               *)

\* A hash from glyphs to classes; so many classes fit.
IsHash(h) == h \in [Glyphs -> Nat] /\ \A g \in Glyphs : IsWord(h[g])

Holds(entries, h) ==
  \A e : e \in ToSet(entries) <=> \E g \in Glyphs : h[g] # 0 /\ e = [g |-> g, c |-> h[g]]

LEMMA SortedHolds ==
  ASSUME NEW S, S \subseteq Nat, IsFiniteSet(S)
  PROVE  /\ Sorted(S) \in Seq(S) /\ Cardinality(S) \in Nat /\ Len(Sorted(S)) = Cardinality(S)
         /\ ToSet(Sorted(S)) = S
         /\ \A i, n \in 1..Len(Sorted(S)) : i < n => Sorted(S)[i] < Sorted(S)[n]
<1> DEFINE f == [n \in 1..Cardinality(S) |-> CHOOSE i \in S : Cardinality({h \in S : h < i}) = n - 1]
<1>1. Sorted(S) = f
  BY DEF Sorted, InOrderOf
<1>2. Picks(f, S)
  BY NumbersEnumerate
<1> HIDE DEF f
<1>3. f \in Seq(S)
  BY <1>2, NumbersEnumerate DEF f
<1>4. ToSet(f) = S
  BY <1>2 DEF Picks, ToSet
<1> QED BY <1>1, <1>2, <1>3, <1>4 DEF Picks

LEMMA ToClassHolds ==
  ASSUME NEW h, IsHash(h)
  PROVE  LET cd == ToClass(h)
         IN  /\ IsClassDef(cd.entries) /\ Holds(cd.entries, h)
             /\ cd.maxclass \in Nat
             /\ \A g \in Glyphs : h[g] <= cd.maxclass
             /\ \A n \in Nat : (\A g \in Glyphs : h[g] <= n) => cd.maxclass <= n
<1> DEFINE L == {g \in Glyphs : h[g] # 0}
           s == Sorted(L)
           w == Mapped(s, LAMBDA g : [g |-> g, c |-> h[g]])
           cd == ToClass(h)
<1>1. L \subseteq Gids /\ L \subseteq Nat /\ IsFiniteSet(L)
  <2>1. L \subseteq Gids
    BY GlyphsAreNumbers
  <2> HIDE DEF L
  <2> QED BY <2>1, GidsAreWords, GidsAreSmall DEF SmallSet
<1>2. \A g \in L : g \in Glyphs /\ h[g] # 0 /\ h[g] \in Nat /\ IsWord(h[g])
  BY DEF IsHash
<1>3. \A g \in Glyphs : h[g] # 0 => g \in L
  OBVIOUS
<1>4. cd = Pushed(w)
  BY DEF ToClass
<1> HIDE DEF L, cd
<1>5. s \in Seq(L) /\ ToSet(s) = L /\ Len(s) \in Nat /\ DOMAIN s = 1..Len(s)
  BY <1>1, SortedHolds, LenProperties
<1> HIDE DEF s
<1>6. \A i \in 1..Len(s) : s[i] \in L
  BY <1>5, ElementOfSeq
<1>7. w = [i \in 1..Len(s) |-> [g |-> s[i], c |-> h[s[i]]]]
  BY <1>5 DEF Mapped
<1> HIDE DEF w
<1>8. \A g \in L : [g |-> g, c |-> h[g]] \in Entries
  BY <1>1, <1>2 DEF Entries
<1>9. w \in [1..Len(s) -> Entries] /\ DOMAIN w = 1..Len(s)
  BY <1>6, <1>7, <1>8
<1>10. w \in Seq(Entries)
  BY <1>5, <1>9
<1>11. \A e : e \in ToSet(w) <=> \E g \in L : e = [g |-> g, c |-> h[g]]
  <2>1. \A e : e \in ToSet(w) <=> \E i \in 1..Len(s) : e = [g |-> s[i], c |-> h[s[i]]]
    BY <1>7, <1>9 DEF ToSet
  <2>2. \A g : g \in L <=> \E i \in 1..Len(s) : g = s[i]
    BY <1>5 DEF ToSet
  <2> QED BY <2>1, <2>2
<1>12. Holds(w, h)
  BY <1>2, <1>3, <1>11 DEF Holds
<1>13. IsClassDef(w)
  <2>1. \A e \in ToSet(w) : \E g \in L : e.g = g /\ e.c = h[g] /\ e = [g |-> g, c |-> h[g]]
    BY <1>11
  <2>2. \A e \in ToSet(w) : e.g \in Gids /\ IsWord(e.c)
    BY <1>1, <1>2, <2>1
  <2>3. \A d, e \in ToSet(w) : d.g = e.g => d = e
    BY <2>1
  <2> QED BY <1>10, <2>2, <2>3 DEF IsClassDef
<1>14. cd.entries = w /\ cd.maxclass = MaxClass(w)
  BY <1>4 DEF Pushed, ClassDef
<1> DEFINE M == MaxClass(w)
           C == {e.c : e \in ToSet(w)}
<1>15. /\ M \in Nat /\ (\A g \in L : h[g] <= M) /\ (M = 0 \/ \E g \in L : h[g] = M)
  <2>1. CASE w = <<>>
    <3>1. M = 0
      BY <2>1 DEF MaxClass
    <3>2. L = {}
      <4>1. ToSet(w) = {}
        BY <2>1 DEF ToSet
      <4> QED BY <1>11, <4>1
    <3> HIDE DEF M
    <3> QED BY <3>1, <3>2
  <2>2. CASE w # <<>>
    <3>1. M = Max(C)
      BY <2>2 DEF MaxClass
    <3>2. \A x : x \in C <=> \E g \in L : x = h[g]
      <4>1. \A g \in L : [g |-> g, c |-> h[g]].c = h[g]
        OBVIOUS
      <4>2. \A x : x \in C <=> \E e : e \in ToSet(w) /\ x = e.c
        OBVIOUS
      <4> HIDE DEF C, M
      <4>3. ASSUME NEW x, x \in C PROVE \E g \in L : x = h[g]
        <5>1. PICK e : e \in ToSet(w) /\ x = e.c
          BY <4>2, <4>3
        <5>2. PICK g \in L : e = [g |-> g, c |-> h[g]]
          BY <1>11, <5>1
        <5> QED BY <4>1, <5>1, <5>2
      <4>4. ASSUME NEW g \in L PROVE h[g] \in C
        BY <1>11, <4>1, <4>2
      <4> QED BY <4>3, <4>4
    <3>3. C # {}
      <4>1. Len(w) # 0 /\ Len(w) \in Nat /\ 1 \in 1..Len(w)
        BY <1>10, <2>2, EmptySeq, LenProperties
      <4>2. w[1] \in ToSet(w)
        BY <1>9, <1>10, <4>1, LenProperties DEF ToSet
      <4> QED BY <4>2
    <3>4. IsFiniteSet(C)
      <4> DEFINE f == [g \in L |-> h[g]]
      <4>1. f \in Surjection(L, C)
        <5>1. f \in [L -> C] /\ \A x \in C : \E g \in L : f[g] = x
          <6> HIDE DEF C
          <6> QED BY <3>2
        <5> HIDE DEF f, C
        <5> QED BY <5>1 DEF Surjection
      <4> HIDE DEF f, C
      <4> QED BY <1>1, <4>1, FS_Surjection
    <3> HIDE DEF C, M
    <3>5. C \subseteq Nat
      BY <1>2, <3>2
    <3>6. Max(C) \in C /\ \A n \in C : n <= Max(C)
      BY <3>3, <3>4, <3>5, MaxOfFinite
    <3> QED BY <3>1, <3>2, <3>5, <3>6
  <2> QED BY <2>1, <2>2
<1> HIDE DEF M
<1>16. \A g \in Glyphs : h[g] <= M
  <2> SUFFICES ASSUME NEW g \in Glyphs PROVE h[g] <= M
    OBVIOUS
  <2>1. CASE h[g] = 0
    BY <1>15, <2>1
  <2>2. CASE h[g] # 0
    BY <1>3, <1>15, <2>2
  <2> QED BY <2>1, <2>2
<1>17. \A n \in Nat : (\A g \in Glyphs : h[g] <= n) => M <= n
  BY <1>2, <1>15
<1>18. cd.maxclass = M
  BY <1>14 DEF M
<1> QED BY <1>12, <1>13, <1>14, <1>15, <1>16, <1>17, <1>18 DEF cd

\* A coverage of the glyphs in class c.
CoversClass(cov, h, c) == cov \in Seq(Nat) /\ ToSet(cov) = {g \in Glyphs : h[g] = c}

\* A class other than 0, as a coverage again.
LEMMA ClassCoverageHolds ==
  ASSUME NEW h, IsHash(h), NEW c, c # 0,
         NEW cd, IsClassDef(cd.entries), Holds(cd.entries, h)
  PROVE  CoversClass(ClassCoverage(cd, c), h, c)
<1> DEFINE s == cd.entries
           Q == {i \in DOMAIN s : s[i].c = c}
           u == AtPlaces(s, Q)
           w == Mapped(u, LAMBDA e : e.g)
<1>1. ClassCoverage(cd, c) = w
  BY DEF ClassCoverage, Those
<1>2. s \in Seq(Entries)
  BY DEF IsClassDef
<1>3. Holds(s, h)
  OBVIOUS
<1> HIDE DEF s
<1>4. Q \in SUBSET DOMAIN s /\ \A i : i \in Q <=> i \in DOMAIN s /\ s[i].c = c
  OBVIOUS
<1> HIDE DEF Q
<1>5. u \in Seq(Entries) /\ ToSet(u) = {s[i] : i \in Q}
  BY <1>2, <1>4, AtPlacesPicks, AtPlacesRange
<1>6. \A e : e \in ToSet(u) <=> e \in ToSet(s) /\ e.c = c
  BY <1>4, <1>5 DEF ToSet
<1> HIDE DEF u
<1>7. w \in Seq(Nat) /\ \A g : g \in ToSet(w) <=> \E e \in ToSet(u) : e.g = g
  BY <1>5, MappedGlyphs
<1> HIDE DEF w
<1>8. \A g : g \in ToSet(w) <=> g \in Glyphs /\ h[g] = c
  <2>1. \A g : g \in ToSet(w) <=> \E e : e \in ToSet(s) /\ e.c = c /\ e.g = g
    BY <1>6, <1>7
  <2>2. \A e : e \in ToSet(s) => \E g \in Glyphs : h[g] # 0 /\ e.g = g /\ e.c = h[g]
    BY <1>3 DEF Holds
  <2>3. ASSUME NEW g, g \in ToSet(w) PROVE g \in Glyphs /\ h[g] = c
    BY <2>1, <2>2, <2>3
  <2>4. ASSUME NEW g \in Glyphs, h[g] = c PROVE g \in ToSet(w)
    <3> DEFINE e == [g |-> g, c |-> h[g]]
    <3>1. e \in ToSet(s)
      BY <1>3, <2>4 DEF Holds
    <3>2. e.g = g /\ e.c = c
      BY <2>4
    <3> HIDE DEF e
    <3> QED BY <2>1, <3>1, <3>2
  <2> QED BY <2>3, <2>4
<1> QED BY <1>1, <1>7, <1>8 DEF CoversClass

\* The class definition of a side, read back.
LEMMA SideReadBack ==
  ASSUME NEW h, IsHash(h)
  PROVE  LET cd == ReadClassDef(BuildClassDef(ToClass(h)))
         IN  \A c : c # 0 => CoversClass(ClassCoverage(cd, c), h, c)
<1> DEFINE a == ToClass(h)
           cd == ReadClassDef(BuildClassDef(a))
<1>1. IsClassDef(a.entries) /\ Holds(a.entries, h)
  BY ToClassHolds
<1> HIDE DEF a
<1>2. IsClassDef(cd.entries) /\ ToSet(cd.entries) = {e \in ToSet(a.entries) : e.c # 0}
  BY <1>1, ClassDefReadBack
<1> HIDE DEF cd
<1>3. Holds(cd.entries, h)
  <2>1. \A e : e \in ToSet(cd.entries) <=> e \in ToSet(a.entries) /\ e.c # 0
    BY <1>2
  <2>2. \A e : e \in ToSet(a.entries) => e.c # 0
    BY <1>1 DEF Holds
  <2> QED BY <1>1, <2>1, <2>2 DEF Holds
<1>4. ASSUME NEW c, c # 0 PROVE CoversClass(ClassCoverage(cd, c), h, c)
  BY <1>2, <1>3, <1>4, ClassCoverageHolds
<1> QED BY <1>4 DEF cd, a

-----------------------------------------------------------------------------
(* Where the parts of a rule stand.                                        *)

\* s stands in w after the first o elements.
StandsAt(w, o, s) == \A i \in 1..Len(s) : o + i \in 1..Len(w) /\ w[o + i] = s[i]

LEMMA StandsAppended ==
  ASSUME NEW X, NEW w \in Seq(X), NEW v \in Seq(X)
  PROVE  /\ w \o v \in Seq(X) /\ Len(w \o v) = Len(w) + Len(v)
         /\ StandsAt(w \o v, Len(w), v) /\ StandsAt(w \o v, 0, w)
<1>1. /\ w \o v \in Seq(X) /\ Len(w \o v) = Len(w) + Len(v)
      /\ \A i \in 1..(Len(w) + Len(v)) : (w \o v)[i] = IF i <= Len(w) THEN w[i] ELSE v[i - Len(w)]
  BY ConcatProperties
<1>2. Len(w) \in Nat /\ Len(v) \in Nat
  BY LenProperties
<1> DEFINE u == w \o v
<1> HIDE DEF u
<1>3. ASSUME NEW i \in 1..Len(v) PROVE Len(w) + i \in 1..Len(u) /\ u[Len(w) + i] = v[i]
  <2>1. Len(w) + i \in 1..(Len(w) + Len(v)) /\ ~(Len(w) + i <= Len(w)) /\ (Len(w) + i) - Len(w) = i
    BY <1>2
  <2> QED BY <1>1, <2>1 DEF u
<1>4. ASSUME NEW i \in 1..Len(w) PROVE 0 + i \in 1..Len(u) /\ u[0 + i] = w[i]
  <2>1. 0 + i = i /\ i \in 1..(Len(w) + Len(v)) /\ i <= Len(w)
    BY <1>2
  <2>2. u[i] = w[i]
    BY <1>1, <2>1 DEF u
  <2> QED BY <1>1, <2>1, <2>2 DEF u
<1> QED BY <1>1, <1>3, <1>4 DEF StandsAt, u

LEMMA StandsThrough ==
  ASSUME NEW u, NEW w, NEW s, NEW p \in Nat, NEW o \in Nat, StandsAt(u, p, w), StandsAt(w, o, s)
  PROVE  StandsAt(u, p + o, s)
<1> SUFFICES ASSUME NEW i \in 1..Len(s) PROVE (p + o) + i \in 1..Len(u) /\ u[(p + o) + i] = s[i]
  BY DEF StandsAt
<1>1. o + i \in 1..Len(w) /\ w[o + i] = s[i]
  BY DEF StandsAt
<1> DEFINE x == o + i
<1>2. x \in 1..Len(w) /\ w[x] = s[i]
  BY <1>1
<1> HIDE DEF x
<1>3. p + x \in 1..Len(u) /\ u[p + x] = w[x]
  BY <1>2 DEF StandsAt
<1>4. p + x = (p + o) + i
  <2>1. i \in Int
    OBVIOUS
  <2> QED BY <2>1 DEF x
<1> QED BY <1>2, <1>3, <1>4

\* What stood in w stands in w \o v, and v after it.
LEMMA StandsOn ==
  ASSUME NEW X, NEW w \in Seq(X), NEW v \in Seq(X)
  PROVE  /\ w \o v \in Seq(X) /\ Len(w \o v) = Len(w) + Len(v) /\ Len(w \o v) \in Nat
         /\ StandsAt(w \o v, Len(w), v)
         /\ \A o \in Nat : \A s : StandsAt(w, o, s) => StandsAt(w \o v, o, s)
<1>1. /\ w \o v \in Seq(X) /\ Len(w \o v) = Len(w) + Len(v)
      /\ StandsAt(w \o v, Len(w), v) /\ StandsAt(w \o v, 0, w)
  BY StandsAppended
<1>2. ASSUME NEW o \in Nat, NEW s, StandsAt(w, o, s) PROVE StandsAt(w \o v, o, s)
  <2>1. StandsAt(w \o v, 0 + o, s)
    BY <1>1, <1>2, StandsThrough
  <2>2. 0 + o = o
    OBVIOUS
  <2> QED BY <2>1, <2>2
<1> QED BY <1>1, <1>2, LenProperties

\* A part of a sequence.
LEMMA PartHolds ==
  ASSUME NEW X, NEW M \in Seq(X), NEW a \in Nat, NEW z \in Nat, a <= z, z <= Len(M)
  PROVE  /\ SubSeq(M, a + 1, z) \in Seq(X) /\ Len(SubSeq(M, a + 1, z)) = z - a
         /\ \A i \in 1..(z - a) : SubSeq(M, a + 1, z)[i] = M[a + i]
<1>1. Len(M) \in Nat
  BY LenProperties
<1>2. \A i \in (a + 1)..z : M[i] \in X
  <2>1. \A i \in (a + 1)..z : i \in 1..Len(M)
    BY <1>1
  <2> QED BY <2>1, ElementOfSeq
<1>3. a + 1 \in Int /\ z \in Int /\ z - (a + 1) + 1 = z - a /\ (a + 1 <= z => z - (a + 1) + 1 = z - a)
      /\ (~(a + 1 <= z) => z - a = 0)
  OBVIOUS
<1>4. /\ SubSeq(M, a + 1, z) \in Seq(X)
      /\ Len(SubSeq(M, a + 1, z)) = IF a + 1 <= z THEN z - (a + 1) + 1 ELSE 0
      /\ \A i \in 1..(z - (a + 1) + 1) : SubSeq(M, a + 1, z)[i] = M[(a + 1) + i - 1]
  BY <1>2, <1>3, SubSeqProperties
<1>5. \A i \in 1..(z - a) : (a + 1) + i - 1 = a + i
  OBVIOUS
<1> DEFINE s == SubSeq(M, a + 1, z)
<1> HIDE DEF s
<1>6. Len(s) = z - a
  BY <1>3, <1>4 DEF s
<1>7. \A i \in 1..(z - a) : s[i] = M[a + i]
  BY <1>3, <1>4, <1>5 DEF s
<1> QED BY <1>4, <1>6, <1>7 DEF s

LEMMA OneCell ==
  ASSUME NEW X, NEW e \in X
  PROVE  <<e>> \in Seq(X) /\ Len(<<e>>) = 1 /\ \A w, o : StandsAt(w, o, <<e>>) => w[o + 1] = e
BY DEF StandsAt

-----------------------------------------------------------------------------
(* The lookups a rule applies.                                             *)

Actions == [at : Nat, lookup : Nat]

\* The cells of the actions A, at positions counted from the origin.
ActionCells(ap, A, origin) ==
  /\ ap \in Seq(Numbers) /\ Len(ap) = 2 * Len(A)
  /\ \A i \in 1..Len(A) : /\ ap[2 * i - 1].w = Word(A[i].at - origin)
                          /\ ap[2 * i].w = Word(A[i].lookup)
                          /\ 2 * i - 1 \in 1..Len(ap) /\ 2 * i \in 1..Len(ap)

LEMMA ApplicationsHold ==
  ASSUME NEW r, NEW A \in Seq(Actions), r.apply = A, NEW origin \in Nat
  PROVE  ActionCells(Applications(r, origin), A, origin)
<1> DEFINE n == Len(A)
           row(a) == Words(<<a.at - origin, a.lookup>>)
           ss == Mapped(A, row)
           at == [i \in 0..n |-> 2 * i]
           ap == Applications(r, origin)
<1>1. n \in Nat /\ DOMAIN A = 1..n /\ \A i \in 1..n : A[i] \in Actions
  BY LenProperties, ElementOfSeq
<1>2. ap = FlattenSeq(ss)
  BY DEF Applications, Flattened
<1>3. \A i \in 1..n : ss[i] = row(A[i])
  BY <1>1 DEF Mapped
<1>4. ASSUME NEW a \in Actions
      PROVE  /\ row(a) \in Seq(Numbers) /\ Len(row(a)) = 2
             /\ row(a)[1].w = Word(a.at - origin) /\ row(a)[2].w = Word(a.lookup)
  <2> DEFINE x == a.at - origin
             y == a.lookup
             s == <<x, y>>
  <2>1. x \in Int /\ y \in Int
    BY DEF Actions
  <2> HIDE DEF x, y
  <2>2. s \in Seq(Int) /\ Len(s) = 2 /\ s[1] = x /\ s[2] = y
    BY <2>1
  <2> HIDE DEF s
  <2>3. Words(s) \in Seq(Numbers) /\ Len(Words(s)) = 2 /\ Words(s)[1].w = Word(s[1]) /\ Words(s)[2].w = Word(s[2])
    BY <2>2, WordsHold
  <2> QED BY <2>2, <2>3 DEF s, x, y
<1>5. ss = [i \in 1..n |-> ss[i]]
  BY <1>1 DEF Mapped
<1> HIDE DEF ss, row, ap
<1>6. \A i \in 1..n : /\ ss[i] \in Seq(Numbers) /\ Len(ss[i]) = 2
                      /\ ss[i][1].w = Word(A[i].at - origin) /\ ss[i][2].w = Word(A[i].lookup)
  BY <1>1, <1>3, <1>4
<1> HIDE DEF n
<1>7. ss \in Seq(Seq(Numbers)) /\ Len(ss) = n
  <2>1. ss \in [1..n -> Seq(Numbers)]
    BY <1>5, <1>6
  <2> QED BY <1>1, <2>1
<1>8. at \in [0..n -> Nat] /\ at[0] = 0 /\ at[n] = 2 * n
      /\ \A i \in 1..n : at[i] = at[i - 1] + 2 /\ at[i - 1] + 1 = 2 * i - 1 /\ at[i - 1] + 2 = 2 * i
  BY <1>1
<1> HIDE DEF at
<1>9. Offsets(at, ss)
  BY <1>6, <1>7, <1>8 DEF Offsets
<1>10. Places(ap, Numbers, ss, at)
  BY <1>2, <1>7, <1>9, FlattenPlaces
<1>11. ap \in Seq(Numbers) /\ Len(ap) = 2 * n
  BY <1>7, <1>8, <1>10 DEF Places
<1>12. ASSUME NEW i \in 1..n
       PROVE  /\ ap[2 * i - 1].w = Word(A[i].at - origin) /\ ap[2 * i].w = Word(A[i].lookup)
              /\ 2 * i - 1 \in 1..Len(ap) /\ 2 * i \in 1..Len(ap)
  <2>1. 1 \in 1..Len(ss[i]) /\ 2 \in 1..Len(ss[i])
    BY <1>6
  <2>2. /\ at[i - 1] + 1 \in 1..Len(ap) /\ ap[at[i - 1] + 1] = ss[i][1]
        /\ at[i - 1] + 2 \in 1..Len(ap) /\ ap[at[i - 1] + 2] = ss[i][2]
    BY <1>7, <1>10, <2>1 DEF Places
  <2>3. at[i - 1] + 1 = 2 * i - 1 /\ at[i - 1] + 2 = 2 * i
    BY <1>8
  <2> QED BY <1>6, <2>2, <2>3
<1> QED BY <1>11, <1>12 DEF ActionCells, n, ap

-----------------------------------------------------------------------------
(* The cells of a rule.                                                    *)

\* A rule of n positions, its input from B + 1 to E, om of which are left out.
Shape(n, B, E, om) ==
  /\ n \in Nat /\ B \in Nat /\ E \in Nat /\ om \in {0, 1}
  /\ B < E /\ E <= n /\ IsWord(n)

\* The cells of a rule, of the cells M of its positions and those of its actions.
Layout(M, B, E, om, ap, nA, contextual) ==
  IF contextual
  THEN <<W(E - B), W(nA)>> \o SubSeq(M, B + 1 + om, E) \o ap
  ELSE <<W(B)>> \o SubSeq(M, 1, B)
         \o <<W(E - B)>> \o SubSeq(M, B + 1 + om, E)
         \o <<W(Len(M) - E)>> \o SubSeq(M, E + 1, Len(M))
         \o <<W(nA)>> \o ap

\* Where they stand, in a block b that has them after p cells.
Laid(b, p, M, B, E, om, ap, nA, contextual) ==
  IF contextual
  THEN /\ StandsAt(b, p + 0, <<W(E - B), W(nA)>>)
       /\ StandsAt(b, p + 2, SubSeq(M, B + 1 + om, E))
       /\ StandsAt(b, p + (2 + E - B - om), ap)
  ELSE /\ StandsAt(b, p + 0, <<W(B)>>)
       /\ StandsAt(b, p + 1, SubSeq(M, 1, B))
       /\ StandsAt(b, p + (1 + B), <<W(E - B)>>)
       /\ StandsAt(b, p + (2 + B), SubSeq(M, B + 1 + om, E))
       /\ StandsAt(b, p + (2 + E - om), <<W(Len(M) - E)>>)
       /\ StandsAt(b, p + (3 + E - om), SubSeq(M, E + 1, Len(M)))
       /\ StandsAt(b, p + (3 + Len(M) - om), <<W(nA)>>)
       /\ StandsAt(b, p + (4 + Len(M) - om), ap)

LEMMA PartsOfRule ==
  ASSUME NEW X, NEW M \in Seq(X), NEW B, NEW E, NEW om, Shape(Len(M), B, E, om)
  PROVE  /\ SubSeq(M, 1, B) \in Seq(X) /\ Len(SubSeq(M, 1, B)) = B
         /\ \A i \in 1..B : SubSeq(M, 1, B)[i] = M[i]
         /\ SubSeq(M, B + 1 + om, E) \in Seq(X) /\ Len(SubSeq(M, B + 1 + om, E)) = E - B - om
         /\ \A i \in 1..(E - B - om) : SubSeq(M, B + 1 + om, E)[i] = M[B + om + i]
         /\ SubSeq(M, E + 1, Len(M)) \in Seq(X) /\ Len(SubSeq(M, E + 1, Len(M))) = Len(M) - E
         /\ \A i \in 1..(Len(M) - E) : SubSeq(M, E + 1, Len(M))[i] = M[E + i]
<1> DEFINE n == Len(M)
<1>1. n \in Nat /\ B \in Nat /\ E \in Nat /\ om \in {0, 1} /\ B < E /\ E <= n
  BY DEF Shape
<1>2. /\ 0 + 1 = 1 /\ B - 0 = B /\ 0 \in Nat /\ 0 <= B /\ B <= n /\ \A i \in 1..B : 0 + i = i
      /\ B + om + 1 = B + 1 + om /\ B + om \in Nat /\ B + om <= E /\ E - (B + om) = E - B - om
      /\ n <= n
  BY <1>1
<1>3. /\ SubSeq(M, 0 + 1, B) \in Seq(X) /\ Len(SubSeq(M, 0 + 1, B)) = B - 0
      /\ \A i \in 1..(B - 0) : SubSeq(M, 0 + 1, B)[i] = M[0 + i]
  BY <1>1, <1>2, PartHolds
<1>4. /\ SubSeq(M, (B + om) + 1, E) \in Seq(X) /\ Len(SubSeq(M, (B + om) + 1, E)) = E - (B + om)
      /\ \A i \in 1..(E - (B + om)) : SubSeq(M, (B + om) + 1, E)[i] = M[(B + om) + i]
  BY <1>1, <1>2, PartHolds
<1>5. /\ SubSeq(M, E + 1, n) \in Seq(X) /\ Len(SubSeq(M, E + 1, n)) = n - E
      /\ \A i \in 1..(n - E) : SubSeq(M, E + 1, n)[i] = M[E + i]
  BY <1>1, <1>2, PartHolds
<1>6. /\ SubSeq(M, 1, B) \in Seq(X) /\ Len(SubSeq(M, 1, B)) = B
      /\ \A i \in 1..B : SubSeq(M, 1, B)[i] = M[i]
  BY <1>2, <1>3
<1>7. /\ SubSeq(M, B + 1 + om, E) \in Seq(X) /\ Len(SubSeq(M, B + 1 + om, E)) = E - B - om
      /\ \A i \in 1..(E - B - om) : SubSeq(M, B + 1 + om, E)[i] = M[B + om + i]
  BY <1>2, <1>4
<1> QED BY <1>5, <1>6, <1>7

LEMMA LayoutLaid ==
  ASSUME NEW X, Numbers \subseteq X, NEW M \in Seq(X), NEW ap \in Seq(X), NEW nA \in Nat,
         NEW B, NEW E, NEW om, Shape(Len(M), B, E, om), NEW contextual
  PROVE  /\ Layout(M, B, E, om, ap, nA, contextual) \in Seq(X)
         /\ Laid(Layout(M, B, E, om, ap, nA, contextual), 0, M, B, E, om, ap, nA, contextual)
<1> DEFINE n == Len(M)
           s1 == SubSeq(M, 1, B)
           s2 == SubSeq(M, B + 1 + om, E)
           s3 == SubSeq(M, E + 1, n)
           c1 == <<W(B)>>
           c2 == <<W(E - B)>>
           c3 == <<W(n - E)>>
           c4 == <<W(nA)>>
           c5 == <<W(E - B), W(nA)>>
<1>1. n \in Nat /\ B \in Nat /\ E \in Nat /\ om \in {0, 1} /\ B < E /\ E <= n
  BY DEF Shape
<1>2. /\ s1 \in Seq(X) /\ Len(s1) = B /\ s2 \in Seq(X) /\ Len(s2) = E - B - om
      /\ s3 \in Seq(X) /\ Len(s3) = n - E
  BY PartsOfRule
<1>3. W(B) \in X /\ W(E - B) \in X /\ W(n - E) \in X /\ W(nA) \in X
  <2>1. \A x \in Int : W(x) \in X
    BY DEF Numbers
  <2>2. B \in Int /\ E - B \in Int /\ n - E \in Int /\ nA \in Int
    BY <1>1
  <2> QED BY <2>1, <2>2
<1>4. /\ c1 \in Seq(X) /\ c2 \in Seq(X) /\ c3 \in Seq(X) /\ c4 \in Seq(X) /\ c5 \in Seq(X)
      /\ Len(c1) = 1 /\ Len(c2) = 1 /\ Len(c3) = 1 /\ Len(c4) = 1 /\ Len(c5) = 2
  BY <1>3
<1> HIDE DEF c1, c2, c3, c4, c5
<1>11. c1 \in Seq(X) /\ Len(c1) = 1
  BY <1>4
<1>12. c2 \in Seq(X) /\ Len(c2) = 1
  BY <1>4
<1>13. c3 \in Seq(X) /\ Len(c3) = 1
  BY <1>4
<1>14. c4 \in Seq(X) /\ Len(c4) = 1
  BY <1>4
<1>15. c5 \in Seq(X) /\ Len(c5) = 2
  BY <1>4
<1> USE DEF c1, c2, c3, c4, c5
<1>5. Layout(M, B, E, om, ap, nA, contextual) =
        IF contextual THEN (c5 \o s2) \o ap ELSE ((((((c1 \o s1) \o c2) \o s2) \o c3) \o s3) \o c4) \o ap
  BY DEF Layout
<1>6. \A o \in Nat : 0 + o = o
  OBVIOUS
<1>7. ASSUME contextual
      PROVE  /\ (c5 \o s2) \o ap \in Seq(X)
             /\ Laid((c5 \o s2) \o ap, 0, M, B, E, om, ap, nA, contextual)
  <2> HIDE DEF n, s1, s2, s3, c1, c2, c3, c4, c5
  <2> DEFINE w1 == c5 \o s2
             w2 == w1 \o ap
  <2>1. /\ w1 \in Seq(X) /\ Len(w1) = 2 + (E - B - om)
        /\ StandsAt(w1, 2, s2) /\ StandsAt(w1, 0, c5)
    <3>1. s2 \in Seq(X) /\ Len(s2) = E - B - om
      BY <1>2
    <3>2. /\ w1 \in Seq(X) /\ Len(w1) = Len(c5) + Len(s2)
          /\ StandsAt(w1, Len(c5), s2) /\ StandsAt(w1, 0, c5)
      BY <1>15, <3>1, StandsAppended
    <3> QED BY <1>15, <3>1, <3>2
  <2> HIDE DEF w1
  <2>2. /\ w2 \in Seq(X) /\ StandsAt(w2, Len(w1), ap)
        /\ \A o \in Nat : \A s : StandsAt(w1, o, s) => StandsAt(w2, o, s)
    BY <2>1, StandsOn
  <2> HIDE DEF w2
  <2>3. StandsAt(w2, 0, c5) /\ StandsAt(w2, 2, s2) /\ StandsAt(w2, 2 + (E - B - om), ap)
    BY <2>1, <2>2
  <2>4. 0 + 0 = 0 /\ 0 + 2 = 2 /\ 0 + (2 + E - B - om) = 2 + (E - B - om)
    BY <1>1
  <2>5. Laid(w2, 0, M, B, E, om, ap, nA, contextual)
    BY <1>7, <2>3, <2>4 DEF Laid, c5, s2
  <2> QED BY <2>2, <2>5 DEF w1, w2
<1>8. ASSUME ~contextual
      PROVE  /\ ((((((c1 \o s1) \o c2) \o s2) \o c3) \o s3) \o c4) \o ap \in Seq(X)
             /\ Laid(((((((c1 \o s1) \o c2) \o s2) \o c3) \o s3) \o c4) \o ap, 0, M, B, E, om, ap, nA, contextual)
  <2> HIDE DEF n, s1, s2, s3, c1, c2, c3, c4, c5
  <2> DEFINE w1 == c1 \o s1
             w2 == w1 \o c2
             w3 == w2 \o s2
             w4 == w3 \o c3
             w5 == w4 \o s3
             w6 == w5 \o c4
             w7 == w6 \o ap
             Kept(v, w) == \A o \in Nat : \A s : StandsAt(v, o, s) => StandsAt(w, o, s)
  <2>1. w1 \in Seq(X) /\ Len(w1) = 1 + B /\ StandsAt(w1, 1, s1) /\ StandsAt(w1, 0, c1)
    <3>1. s1 \in Seq(X) /\ Len(s1) = B
      BY <1>2
    <3>2. /\ w1 \in Seq(X) /\ Len(w1) = Len(c1) + Len(s1)
          /\ StandsAt(w1, Len(c1), s1) /\ StandsAt(w1, 0, c1)
      BY <1>11, <3>1, StandsAppended
    <3> QED BY <1>11, <3>1, <3>2
  <2> HIDE DEF w1
  <2>2. w2 \in Seq(X) /\ Len(w2) = (1 + B) + 1 /\ StandsAt(w2, 1 + B, c2) /\ Kept(w1, w2)
    BY <1>12, <2>1, StandsOn
  <2> HIDE DEF w2
  <2>3. w3 \in Seq(X) /\ Len(w3) = (1 + B) + 1 + (E - B - om) /\ StandsAt(w3, (1 + B) + 1, s2) /\ Kept(w2, w3)
    BY <1>2, <2>2, StandsOn
  <2> HIDE DEF w3
  <2>4. Len(w3) = 2 + E - om /\ (1 + B) + 1 = 2 + B
    BY <1>1, <2>3
  <2>5. w4 \in Seq(X) /\ Len(w4) = (2 + E - om) + 1 /\ StandsAt(w4, 2 + E - om, c3) /\ Kept(w3, w4)
    BY <1>13, <2>3, <2>4, StandsOn
  <2> HIDE DEF w4
  <2>6. Len(w4) = 3 + E - om
    BY <1>1, <2>5
  <2>7. w5 \in Seq(X) /\ Len(w5) = (3 + E - om) + (n - E) /\ StandsAt(w5, 3 + E - om, s3) /\ Kept(w4, w5)
    BY <1>2, <2>5, <2>6, StandsOn
  <2> HIDE DEF w5
  <2>8. Len(w5) = 3 + n - om
    BY <1>1, <2>7
  <2>9. w6 \in Seq(X) /\ Len(w6) = (3 + n - om) + 1 /\ StandsAt(w6, 3 + n - om, c4) /\ Kept(w5, w6)
    BY <1>14, <2>7, <2>8, StandsOn
  <2> HIDE DEF w6
  <2>10. Len(w6) = 4 + n - om
    BY <1>1, <2>9
  <2>11. w7 \in Seq(X) /\ StandsAt(w7, 4 + n - om, ap) /\ Kept(w6, w7)
    BY <2>9, <2>10, StandsOn
  <2> HIDE DEF w7
  <2>12. \A o \in Nat : \A s :
           /\ StandsAt(w6, o, s) => StandsAt(w7, o, s)
           /\ StandsAt(w5, o, s) => StandsAt(w6, o, s)
           /\ StandsAt(w4, o, s) => StandsAt(w5, o, s)
           /\ StandsAt(w3, o, s) => StandsAt(w4, o, s)
           /\ StandsAt(w2, o, s) => StandsAt(w3, o, s)
           /\ StandsAt(w1, o, s) => StandsAt(w2, o, s)
    BY <2>2, <2>3, <2>5, <2>7, <2>9, <2>11
  <2>13. /\ 0 \in Nat /\ 1 \in Nat /\ 1 + B \in Nat /\ 2 + B \in Nat /\ 2 + E - om \in Nat
         /\ 3 + E - om \in Nat /\ 3 + n - om \in Nat
    BY <1>1
  <2>14. /\ StandsAt(w7, 0, c1) /\ StandsAt(w7, 1, s1) /\ StandsAt(w7, 1 + B, c2)
         /\ StandsAt(w7, 2 + B, s2) /\ StandsAt(w7, 2 + E - om, c3) /\ StandsAt(w7, 3 + E - om, s3)
         /\ StandsAt(w7, 3 + n - om, c4) /\ StandsAt(w7, 4 + n - om, ap)
    BY <2>1, <2>2, <2>3, <2>4, <2>5, <2>7, <2>9, <2>11, <2>12, <2>13
  <2>15. /\ 0 + 0 = 0 /\ 0 + 1 = 1 /\ 0 + (1 + B) = 1 + B /\ 0 + (2 + B) = 2 + B
         /\ 0 + (2 + E - om) = 2 + E - om /\ 0 + (3 + E - om) = 3 + E - om
         /\ 0 + (3 + n - om) = 3 + n - om /\ 0 + (4 + n - om) = 4 + n - om
    BY <1>1
  <2>16. Laid(w7, 0, M, B, E, om, ap, nA, contextual)
    BY <1>8, <2>14, <2>15 DEF Laid, c1, c2, c3, c4, s1, s2, s3, n
  <2> QED BY <2>11, <2>16 DEF w1, w2, w3, w4, w5, w6, w7
<1> HIDE DEF n, s1, s2, s3, c1, c2, c3, c4, c5
<1>9. CASE contextual
  BY <1>5, <1>7, <1>9
<1>10. CASE ~contextual
  BY <1>5, <1>8, <1>10
<1> QED BY <1>9, <1>10

\* After a prefix the cells stand so much later.
LEMMA LaidAfter ==
  ASSUME NEW w, NEW b, NEW p \in Nat, StandsAt(b, p, w), NEW M, NEW B, NEW E, NEW om,
         Shape(Len(M), B, E, om), NEW ap, NEW nA, NEW contextual,
         Laid(w, 0, M, B, E, om, ap, nA, contextual)
  PROVE  Laid(b, p, M, B, E, om, ap, nA, contextual)
<1> DEFINE n == Len(M)
<1>1. n \in Nat /\ B \in Nat /\ E \in Nat /\ om \in {0, 1} /\ B < E /\ E <= n
  BY DEF Shape
<1>2. ASSUME NEW o \in Nat, NEW s, StandsAt(w, 0 + o, s) PROVE StandsAt(b, p + o, s)
  <2>1. 0 + o = o
    OBVIOUS
  <2> QED BY <1>2, <2>1, StandsThrough
<1>3. /\ 0 \in Nat /\ 1 \in Nat /\ 2 \in Nat /\ 1 + B \in Nat /\ 2 + B \in Nat /\ 2 + E - om \in Nat
      /\ 3 + E - om \in Nat /\ 3 + n - om \in Nat /\ 4 + n - om \in Nat /\ 2 + E - B - om \in Nat
  BY <1>1
<1>4. CASE contextual
  BY <1>2, <1>3, <1>4 DEF Laid
<1>5. CASE ~contextual
  BY <1>2, <1>3, <1>5 DEF Laid
<1> QED BY <1>4, <1>5

-----------------------------------------------------------------------------
(* A rule read from its cells.                                             *)

\* w is s with its first n elements turned around.
Turned(w, s, n) ==
  /\ Len(w) = Len(s)
  /\ \A q \in 1..n : w[q] = s[n + 1 - q]
  /\ \A q \in (n + 1)..Len(s) : w[q] = s[q]

LEMMA BacktracksTurned ==
  ASSUME NEW X, NEW s \in Seq(X), NEW n \in Nat, n <= Len(s)
  PROVE  ReverseBacktracks(s, n) \in Seq(X) /\ Turned(ReverseBacktracks(s, n), s, n)
<1> DEFINE a == SubSeq(s, 1, n)
           z == SubSeq(s, n + 1, Len(s))
           v == Reverse(a)
           w == v \o z
<1>1. Len(s) \in Nat /\ Len(s) <= Len(s) /\ 0 + 1 = 1 /\ n - 0 = n /\ 0 <= n /\ 0 \in Nat
  BY LenProperties
<1>2. /\ SubSeq(s, 0 + 1, n) \in Seq(X) /\ Len(SubSeq(s, 0 + 1, n)) = n - 0
      /\ \A i \in 1..(n - 0) : SubSeq(s, 0 + 1, n)[i] = s[0 + i]
  BY <1>1, PartHolds
<1>3. a \in Seq(X) /\ Len(a) = n /\ \A i \in 1..n : a[i] = s[i]
  <2>1. \A i \in 1..n : 0 + i = i
    OBVIOUS
  <2> QED BY <1>1, <1>2, <2>1
<1>4. z \in Seq(X) /\ Len(z) = Len(s) - n /\ \A i \in 1..(Len(s) - n) : z[i] = s[n + i]
  BY <1>1, PartHolds
<1> HIDE DEF a, z
<1>5. v \in Seq(X) /\ Len(v) = n /\ \A q \in 1..n : v[q] = s[n + 1 - q]
  <2>1. \A q \in 1..n : (n - q) + 1 \in 1..n /\ (n - q) + 1 = n + 1 - q
    OBVIOUS
  <2>2. \A q \in 1..n : a[(n - q) + 1] \in X
    BY <1>3, <2>1, ElementOfSeq
  <2>3. v = [q \in 1..n |-> a[(n - q) + 1]]
    BY <1>3 DEF Reverse
  <2>4. v \in [1..n -> X]
    BY <2>2, <2>3
  <2>5. \A q \in 1..n : v[q] = a[(n - q) + 1]
    BY <2>3
  <2>6. \A q \in 1..n : v[q] = s[n + 1 - q]
    BY <1>3, <2>1, <2>5
  <2> HIDE DEF v
  <2> QED BY <2>4, <2>6
<1> HIDE DEF v
<1>6. /\ w \in Seq(X) /\ Len(w) = Len(v) + Len(z)
      /\ StandsAt(w, Len(v), z) /\ StandsAt(w, 0, v)
  BY <1>4, <1>5, StandsAppended
<1> HIDE DEF w
<1>7. Len(w) = Len(s)
  BY <1>1, <1>4, <1>5, <1>6
<1>8. ASSUME NEW q \in 1..n PROVE w[q] = s[n + 1 - q]
  <2>1. w[0 + q] = v[q] /\ 0 + q = q
    BY <1>5, <1>6 DEF StandsAt
  <2> QED BY <1>5, <2>1
<1>9. ASSUME NEW q \in (n + 1)..Len(s) PROVE w[q] = s[q]
  <2> DEFINE i == q - n
  <2>1. i \in 1..(Len(s) - n) /\ n + i = q
    BY <1>1
  <2> HIDE DEF i
  <2>2. w[n + i] = z[i] /\ z[i] = s[n + i]
    BY <1>4, <1>5, <1>6, <2>1 DEF StandsAt
  <2> QED BY <2>1, <2>2
<1>10. w = ReverseBacktracks(s, n)
  BY DEF w, v, a, z, ReverseBacktracks
<1> QED BY <1>6, <1>7, <1>8, <1>9, <1>10 DEF Turned

\* The parts of a rule, put together again.
Rejoined(w, X, back, start, input, ahead, n, B, E, om) ==
  /\ w \in Seq(X) /\ Len(w) = n
  /\ \A q \in 1..B : w[q] = back[B + 1 - q]
  /\ \A q \in 1..om : w[B + q] = start[q]
  /\ \A i \in 1..(E - B - om) : w[B + om + i] = input[i]
  /\ \A i \in 1..(n - E) : w[E + i] = ahead[i]

LEMMA RuleRejoined ==
  ASSUME NEW X, NEW n, NEW B, NEW E, NEW om, Shape(n, B, E, om),
         NEW back \in Seq(X), Len(back) = B, NEW start \in Seq(X), Len(start) = om,
         NEW input \in Seq(X), Len(input) = E - B - om, NEW ahead \in Seq(X), Len(ahead) = n - E
  PROVE  Rejoined(ReverseBacktracks(back \o start \o input \o ahead, B),
                  X, back, start, input, ahead, n, B, E, om)
<1>1. n \in Nat /\ B \in Nat /\ E \in Nat /\ om \in {0, 1} /\ B < E /\ E <= n /\ om \in Nat
  BY DEF Shape
<1> DEFINE w1 == back \o start
           w2 == w1 \o input
           w3 == w2 \o ahead
           w == ReverseBacktracks(w3, B)
<1>2. w1 \in Seq(X) /\ Len(w1) = B + om /\ StandsAt(w1, B, start) /\ StandsAt(w1, 0, back)
  BY StandsAppended
<1> HIDE DEF w1
<1>3. /\ w2 \in Seq(X) /\ Len(w2) = Len(w1) + Len(input) /\ StandsAt(w2, Len(w1), input)
      /\ \A o \in Nat : \A s : StandsAt(w1, o, s) => StandsAt(w2, o, s)
  BY <1>2, StandsOn
<1> HIDE DEF w2
<1>4. Len(w2) = E
  BY <1>1, <1>2, <1>3
<1>5. /\ w3 \in Seq(X) /\ Len(w3) = Len(w2) + Len(ahead) /\ StandsAt(w3, Len(w2), ahead)
      /\ \A o \in Nat : \A s : StandsAt(w2, o, s) => StandsAt(w3, o, s)
  BY <1>3, StandsOn
<1> HIDE DEF w3
<1>6. /\ StandsAt(w3, 0, back) /\ StandsAt(w3, B, start) /\ StandsAt(w3, B + om, input)
      /\ StandsAt(w3, E, ahead) /\ Len(w3) = n
  <2>1. 0 \in Nat /\ B + om \in Nat
    BY <1>1
  <2>2. StandsAt(w2, 0, back) /\ StandsAt(w2, B, start) /\ StandsAt(w2, B + om, input)
    BY <1>1, <1>2, <1>3, <2>1
  <2>3. Len(w3) = n
    BY <1>1, <1>4, <1>5
  <2> QED BY <1>1, <1>4, <1>5, <2>1, <2>2, <2>3
<1>7. w \in Seq(X) /\ Turned(w, w3, B)
  <2>1. B <= Len(w3)
    BY <1>1, <1>6
  <2> QED BY <1>1, <1>5, <2>1, BacktracksTurned
<1> HIDE DEF w
<1>8. ASSUME NEW q \in 1..B PROVE w[q] = back[B + 1 - q]
  <2> DEFINE x == B + 1 - q
  <2>1. x \in 1..B /\ 0 + x = x
    BY <1>1
  <2>2. w[q] = w3[x]
    BY <1>7 DEF Turned
  <2> HIDE DEF x
  <2>3. w3[0 + x] = back[x]
    BY <1>6, <2>1 DEF StandsAt
  <2> QED BY <2>1, <2>2, <2>3 DEF x
<1>9. \A q \in (B + 1)..n : w[q] = w3[q]
  BY <1>6, <1>7 DEF Turned
<1>10. ASSUME NEW q \in 1..om PROVE w[B + q] = start[q]
  <2>1. B + q \in (B + 1)..n
    BY <1>1
  <2>2. w3[B + q] = start[q]
    BY <1>6 DEF StandsAt
  <2> QED BY <1>9, <2>1, <2>2
<1>11. ASSUME NEW i \in 1..(E - B - om) PROVE w[B + om + i] = input[i]
  <2>1. B + om + i \in (B + 1)..n
    BY <1>1
  <2>2. w3[(B + om) + i] = input[i]
    BY <1>6 DEF StandsAt
  <2> QED BY <1>9, <2>1, <2>2
<1>12. ASSUME NEW i \in 1..(n - E) PROVE w[E + i] = ahead[i]
  <2>1. E + i \in (B + 1)..n
    BY <1>1
  <2>2. w3[E + i] = ahead[i]
    BY <1>6 DEF StandsAt
  <2> QED BY <1>9, <2>1, <2>2
<1>13. Len(w) = n
  BY <1>6, <1>7 DEF Turned
<1>14. Rejoined(w, X, back, start, input, ahead, n, B, E, om)
  BY <1>7, <1>8, <1>10, <1>11, <1>12, <1>13 DEF Rejoined
<1> QED BY <1>14 DEF w, w1, w2, w3

\* What the reader counts and where it looks, of a rule laid from the cell first on.
Counted(b, first, contextual, om, M, B, E, ap, nA) ==
  LET counted(i) == IF contextual THEN 0 ELSE WordAt(b, i)
      nBack == counted(first)
      atInput == IF contextual THEN first ELSE first + 1 + nBack
      nInput == WordAt(b, atInput)
      input == IF contextual THEN first + 2 ELSE atInput + 1
      afterInput == input + nInput - om
      nAhead == counted(afterInput)
      atApply == IF contextual THEN first + 1 ELSE afterInput + 1 + nAhead
      apply == IF contextual THEN afterInput ELSE atApply + 1
  IN /\ nBack = B /\ nInput = E - B /\ nAhead = Len(M) - E /\ WordAt(b, atApply) = nA
     /\ \A q \in 1..B : b[first + 1 + q - 1] = M[q]
     /\ \A i \in 1..(E - B - om) : b[input + i - 1] = M[B + om + i]
     /\ \A i \in 1..(Len(M) - E) : b[afterInput + 1 + i - 1] = M[E + i]
     /\ \A i \in 1..nA : /\ b[apply + 2 * i - 2] = ap[2 * i - 1]
                         /\ b[apply + 2 * i - 1] = ap[2 * i]

LEMMA NumberCell ==
  ASSUME NEW b, NEW o, NEW n, IsWord(n), StandsAt(b, o, <<W(n)>>)
  PROVE  WordAt(b, o + 1) = n
<1>1. b[o + 1] = W(n)
  BY DEF StandsAt
<1>2. W(n).w = Word(n)
  BY DEF W, Word
<1> QED BY <1>1, <1>2, WordKept DEF WordAt

\* A contextual rule has an input only.
Fits(n, B, E, contextual) == contextual => B = 0 /\ E = n

LEMMA RuleCounted ==
  ASSUME NEW b, NEW p \in Nat, NEW first, first = p + 1,
         NEW X, NEW M \in Seq(X), NEW B, NEW E, NEW om, Shape(Len(M), B, E, om),
         NEW ap, NEW nA, IsWord(nA), Len(ap) = 2 * nA,
         NEW contextual \in BOOLEAN, Fits(Len(M), B, E, contextual),
         Laid(b, p, M, B, E, om, ap, nA, contextual)
  PROVE  Counted(b, first, contextual, om, M, B, E, ap, nA)
<1> DEFINE n == Len(M)
           s1 == SubSeq(M, 1, B)
           s2 == SubSeq(M, B + 1 + om, E)
           s3 == SubSeq(M, E + 1, n)
           counted(i) == IF contextual THEN 0 ELSE WordAt(b, i)
           nBack == counted(first)
           atInput == IF contextual THEN first ELSE first + 1 + nBack
           nInput == WordAt(b, atInput)
           input == IF contextual THEN first + 2 ELSE atInput + 1
           afterInput == input + nInput - om
           nAhead == counted(afterInput)
           atApply == IF contextual THEN first + 1 ELSE afterInput + 1 + nAhead
           apply == IF contextual THEN afterInput ELSE atApply + 1
<1>1. n \in Nat /\ B \in Nat /\ E \in Nat /\ om \in {0, 1} /\ B < E /\ E <= n /\ om \in Nat
      /\ IsWord(n) /\ nA \in Nat
  BY DEF Shape, IsWord
<1>2. /\ Len(s1) = B /\ \A i \in 1..B : s1[i] = M[i]
      /\ Len(s2) = E - B - om /\ \A i \in 1..(E - B - om) : s2[i] = M[B + om + i]
      /\ Len(s3) = n - E /\ \A i \in 1..(n - E) : s3[i] = M[E + i]
  <2>1. /\ Len(SubSeq(M, 1, B)) = B /\ \A i \in 1..B : SubSeq(M, 1, B)[i] = M[i]
    BY PartsOfRule
  <2>2. /\ Len(SubSeq(M, B + 1 + om, E)) = E - B - om
        /\ \A i \in 1..(E - B - om) : SubSeq(M, B + 1 + om, E)[i] = M[B + om + i]
    BY PartsOfRule
  <2>3. /\ Len(SubSeq(M, E + 1, Len(M))) = Len(M) - E
        /\ \A i \in 1..(Len(M) - E) : SubSeq(M, E + 1, Len(M))[i] = M[E + i]
    BY PartsOfRule
  <2> QED BY <2>1, <2>2, <2>3
<1>3. IsWord(B) /\ IsWord(E - B) /\ IsWord(n - E)
  <2>1. B <= n /\ E - B \in Nat /\ E - B <= n /\ n - E \in Nat /\ n - E <= n
    BY <1>1
  <2> QED BY <1>1, <2>1, SmallerIsWord
<1>4. ASSUME contextual
      PROVE  /\ B = 0 /\ E = n
             /\ StandsAt(b, p + 0, <<W(E - B), W(nA)>>) /\ StandsAt(b, p + 2, s2)
             /\ StandsAt(b, p + (2 + E - B - om), ap)
  BY <1>4 DEF Laid, Fits
<1>5. ASSUME ~contextual
      PROVE  /\ StandsAt(b, p + 0, <<W(B)>>) /\ StandsAt(b, p + 1, s1)
             /\ StandsAt(b, p + (1 + B), <<W(E - B)>>) /\ StandsAt(b, p + (2 + B), s2)
             /\ StandsAt(b, p + (2 + E - om), <<W(n - E)>>) /\ StandsAt(b, p + (3 + E - om), s3)
             /\ StandsAt(b, p + (3 + n - om), <<W(nA)>>) /\ StandsAt(b, p + (4 + n - om), ap)
  BY <1>5 DEF Laid
<1> HIDE DEF s1, s2, s3, n
<1>6. CASE contextual
  <2>1. nBack = 0 /\ atInput = first /\ input = first + 2 /\ nAhead = 0 /\ atApply = first + 1
        /\ apply = afterInput /\ afterInput = input + nInput - om /\ nInput = WordAt(b, atInput)
    BY <1>6
  <2> DEFINE two == <<W(E - B), W(nA)>>
  <2>2. Len(two) = 2 /\ two[1] = W(E - B) /\ two[2] = W(nA)
    OBVIOUS
  <2> HIDE DEF two
  <2>3. StandsAt(b, p + 0, two)
    BY <1>4, <1>6 DEF two
  <2>4. p + 0 + 1 = first /\ p + 0 + 2 = first + 1
    OBVIOUS
  <2>5. b[first] = W(E - B) /\ b[first + 1] = W(nA)
    <3>1. 1 \in 1..Len(two) /\ 2 \in 1..Len(two)
      BY <2>2
    <3>2. b[p + 0 + 1] = two[1] /\ b[p + 0 + 2] = two[2]
      BY <2>3, <3>1 DEF StandsAt
    <3> QED BY <2>2, <2>4, <3>2
  <2>6. WordAt(b, first) = E - B /\ WordAt(b, first + 1) = nA
    <3>1. W(E - B).w = Word(E - B) /\ W(nA).w = Word(nA)
      BY DEF W, Word
    <3> QED BY <1>3, <2>5, <3>1, WordKept DEF WordAt
  <2> HIDE DEF counted, nBack, atInput, nInput, input, afterInput, nAhead, atApply, apply
  <2>7. B = 0 /\ E = n
    BY <1>4, <1>6
  <2>8. nInput = E - B /\ afterInput = p + 3 + E - om
    BY <1>1, <2>1, <2>6, <2>7
  <2>9. ASSUME NEW i \in 1..(E - B - om) PROVE b[input + i - 1] = M[B + om + i]
    <3>1. (p + 2) + i = input + i - 1
      BY <1>1, <2>1
    <3>2. b[(p + 2) + i] = s2[i]
      BY <1>2, <1>4, <1>6 DEF StandsAt
    <3> QED BY <1>2, <3>1, <3>2
  <2>10. ASSUME NEW i \in 1..nA
         PROVE  b[apply + 2 * i - 2] = ap[2 * i - 1] /\ b[apply + 2 * i - 1] = ap[2 * i]
    <3> DEFINE o == p + (2 + E - B - om)
    <3>1. 2 * i - 1 \in 1..Len(ap) /\ 2 * i \in 1..Len(ap)
      BY <1>1
    <3>2. o + (2 * i - 1) = apply + 2 * i - 2 /\ o + 2 * i = apply + 2 * i - 1
      BY <1>1, <2>1, <2>7, <2>8
    <3>3. StandsAt(b, o, ap)
      BY <1>4, <1>6
    <3> HIDE DEF o
    <3>4. b[o + (2 * i - 1)] = ap[2 * i - 1] /\ b[o + 2 * i] = ap[2 * i]
      BY <3>1, <3>3 DEF StandsAt
    <3> QED BY <3>2, <3>4
  <2>11. \A q \in 1..B : b[first + 1 + q - 1] = M[q]
    BY <2>7
  <2>12. \A i \in 1..(n - E) : b[afterInput + 1 + i - 1] = M[E + i]
    BY <1>1, <2>7
  <2>13. nBack = B /\ nAhead = n - E /\ WordAt(b, atApply) = nA
    BY <1>1, <2>1, <2>6, <2>7
  <2> QED BY <2>8, <2>9, <2>10, <2>11, <2>12, <2>13
       DEF Counted, counted, nBack, atInput, nInput, input, afterInput, nAhead, atApply, apply, n
<1>7. CASE ~contextual
  <2>1. nBack = WordAt(b, first) /\ atInput = first + 1 + nBack /\ nInput = WordAt(b, atInput)
        /\ input = atInput + 1 /\ afterInput = input + nInput - om /\ nAhead = WordAt(b, afterInput)
        /\ atApply = afterInput + 1 + nAhead /\ apply = atApply + 1
    BY <1>7
  <2> HIDE DEF counted, nBack, atInput, nInput, input, afterInput, nAhead, atApply, apply
  <2>2. nBack = B
    <3>1. p + 0 + 1 = first
      OBVIOUS
    <3>2. WordAt(b, p + 0 + 1) = B
      BY <1>3, <1>5, <1>7, NumberCell
    <3> QED BY <2>1, <3>1, <3>2
  <2>3. nInput = E - B /\ atInput = p + (1 + B) + 1
    <3>1. atInput = p + (1 + B) + 1
      BY <1>1, <2>1, <2>2
    <3>2. WordAt(b, p + (1 + B) + 1) = E - B
      BY <1>3, <1>5, <1>7, NumberCell
    <3> QED BY <2>1, <3>1, <3>2
  <2>4. nAhead = n - E /\ afterInput = p + (2 + E - om) + 1
    <3>1. afterInput = p + (2 + E - om) + 1
      <4>1. input = p + B + 3
        <5>1. input = (p + (1 + B) + 1) + 1
          BY <2>1, <2>3
        <5> QED BY <1>1, <5>1
      <4>2. afterInput = (p + B + 3) + (E - B) - om
        BY <2>1, <2>3, <4>1
      <4> QED BY <1>1, <4>2
    <3>2. WordAt(b, p + (2 + E - om) + 1) = n - E
      BY <1>3, <1>5, <1>7, NumberCell
    <3> QED BY <2>1, <3>1, <3>2
  <2>5. WordAt(b, atApply) = nA /\ atApply = p + (3 + n - om) + 1
    <3>1. atApply = p + (3 + n - om) + 1
      <4>1. atApply = (p + (2 + E - om) + 1) + 1 + (n - E)
        BY <2>1, <2>4
      <4> QED BY <1>1, <4>1
    <3>2. WordAt(b, p + (3 + n - om) + 1) = nA
      BY <1>5, <1>7, NumberCell
    <3> QED BY <3>1, <3>2
  <2>6. ASSUME NEW q \in 1..B PROVE b[first + 1 + q - 1] = M[q]
    <3>1. (p + 1) + q = first + 1 + q - 1
      BY <1>1
    <3>2. b[(p + 1) + q] = s1[q]
      BY <1>2, <1>5, <1>7 DEF StandsAt
    <3> QED BY <1>2, <3>1, <3>2
  <2>7. ASSUME NEW i \in 1..(E - B - om) PROVE b[input + i - 1] = M[B + om + i]
    <3>1. (p + (2 + B)) + i = input + i - 1
      <4>1. input = (p + (1 + B) + 1) + 1
        BY <2>1, <2>3
      <4> QED BY <1>1, <4>1
    <3>2. b[(p + (2 + B)) + i] = s2[i]
      BY <1>2, <1>5, <1>7 DEF StandsAt
    <3> QED BY <1>2, <3>1, <3>2
  <2>8. ASSUME NEW i \in 1..(n - E) PROVE b[afterInput + 1 + i - 1] = M[E + i]
    <3>1. (p + (3 + E - om)) + i = afterInput + 1 + i - 1
      BY <1>1, <2>4
    <3>2. b[(p + (3 + E - om)) + i] = s3[i]
      BY <1>2, <1>5, <1>7 DEF StandsAt
    <3> QED BY <1>2, <3>1, <3>2
  <2>9. ASSUME NEW i \in 1..nA
        PROVE  b[apply + 2 * i - 2] = ap[2 * i - 1] /\ b[apply + 2 * i - 1] = ap[2 * i]
    <3> DEFINE o == p + (4 + n - om)
    <3>1. 2 * i - 1 \in 1..Len(ap) /\ 2 * i \in 1..Len(ap)
      BY <1>1
    <3>2. o + (2 * i - 1) = apply + 2 * i - 2 /\ o + 2 * i = apply + 2 * i - 1
      <4>1. apply = (p + (3 + n - om) + 1) + 1
        BY <2>1, <2>5
      <4> QED BY <1>1, <4>1
    <3>3. StandsAt(b, o, ap)
      BY <1>5, <1>7
    <3> HIDE DEF o
    <3>4. b[o + (2 * i - 1)] = ap[2 * i - 1] /\ b[o + 2 * i] = ap[2 * i]
      BY <3>1, <3>3 DEF StandsAt
    <3> QED BY <3>2, <3>4
  <2> QED BY <2>2, <2>3, <2>4, <2>5, <2>6, <2>7, <2>8, <2>9
       DEF Counted, counted, nBack, atInput, nInput, input, afterInput, nAhead, atApply, apply, n
<1> QED BY <1>6, <1>7

\* The lookups applied, read from their cells.
ActionsAt(b, from, origin, nA) ==
  [i \in 1..nA |-> [at |-> (origin + WordAt(b, from + 2 * i - 2)) % 65536,
                    lookup |-> WordAt(b, from + 2 * i - 1)]]
ActionsStand(b, from, ap, nA) ==
  \A i \in 1..nA : b[from + 2 * i - 2] = ap[2 * i - 1] /\ b[from + 2 * i - 1] = ap[2 * i]

WordActions(A, origin, nA) ==
  /\ A \in Seq(Actions) /\ nA = Len(A)
  /\ \A i \in 1..Len(A) : IsWord(A[i].at) /\ IsWord(A[i].lookup) /\ origin <= A[i].at

LEMMA ActionsRead ==
  ASSUME NEW A, NEW origin \in Nat, NEW nA, WordActions(A, origin, nA),
         NEW ap, ActionCells(ap, A, origin), NEW b, NEW from,
         ActionsStand(b, from, ap, nA)
  PROVE  ActionsAt(b, from, origin, nA) = A
<1> DEFINE e(i) == [at |-> Word(origin + WordAt(b, from + 2 * i - 2)),
                    lookup |-> WordAt(b, from + 2 * i - 1)]
           f == [i \in 1..nA |-> e(i)]
<1>1. nA \in Nat /\ A = [i \in 1..nA |-> A[i]] /\ \A i \in 1..nA : A[i] \in Actions
  BY LenProperties, ElementOfSeq DEF WordActions
<1>2. ASSUME NEW i \in 1..nA PROVE e(i) = A[i]
  <2> DEFINE a == A[i].at
             l == A[i].lookup
             x == WordAt(b, from + 2 * i - 2)
             y == WordAt(b, from + 2 * i - 1)
  <2>1. a \in Nat /\ IsWord(a) /\ IsWord(l) /\ origin <= a /\ A[i] = [at |-> a, lookup |-> l]
    BY <1>1 DEF Actions, WordActions
  <2>2. x = Word(a - origin) /\ y = Word(l)
    BY DEF ActionCells, ActionsStand, WordActions, WordAt
  <2> HIDE DEF a, l, x, y
  <2>3. a - origin \in Nat /\ a - origin <= a
    BY <2>1
  <2>4. x = a - origin
    BY <2>1, <2>2, <2>3, SmallerIsWord, WordKept
  <2>5. origin + x = a
    BY <2>1, <2>4
  <2>6. Word(origin + x) = a /\ y = l
    BY <2>1, <2>2, <2>5, WordKept
  <2> QED BY <2>1, <2>6 DEF x, y
<1> HIDE DEF e
<1>3. f = A
  BY <1>1, <1>2
<1> QED BY <1>3 DEF f, e, Word, ActionsAt

-----------------------------------------------------------------------------
(* A rule of the lookup.                                                   *)

\* Rule n of the lookup as the writer takes it.
Typed(r, n) ==
  LET s == lookup[n] IN
    /\ r.match \in Seq(Seq(Gids)) /\ Len(r.match) = Len(s.match)
    /\ \A q \in 1..Len(s.match) : /\ r.match[q] # <<>> /\ IsWord(Len(r.match[q]))
                                  /\ ToSet(r.match[q]) = s.match[q]
    /\ r.inputBegins = s.inputBegins /\ r.inputEnds = s.inputEnds
    /\ r.apply \in Seq(Actions) /\ Len(r.apply) = 2
    /\ \A i \in 1..2 : /\ IsWord(r.apply[i].at) /\ IsWord(r.apply[i].lookup)
                       /\ s.inputBegins <= r.apply[i].at

LEMMA RuleFacts ==
  ASSUME lookup \in Lookups, NEW n \in 1..Len(lookup)
  PROVE  LET s == lookup[n] IN
           /\ \A om \in {0, 1} : Shape(Len(s.match), s.inputBegins, s.inputEnds, om)
           /\ \A q \in 1..Len(s.match) : s.match[q] # {} /\ s.match[q] \subseteq Glyphs
           /\ Len(lookup) \in Nat /\ IsWord(Len(lookup))
           /\ Typed(RuleOf(n), n)
<1> DEFINE s == lookup[n]
           len == Len(s.match)
           B == s.inputBegins
           E == s.inputEnds
           r == RuleOf(n)
           acts == <<[at |-> B, lookup |-> n - 1], [at |-> E - 1, lookup |-> n]>>
<1>1. /\ Len(lookup) \in Nat /\ DOMAIN lookup = 1..Len(lookup) /\ IsRule(s) /\ len \in Nat
      /\ DOMAIN s.match = 1..len
      /\ \A q \in 1..len : s.match[q] # {} /\ s.match[q] \subseteq Glyphs
  BY LookupFacts
<1>2. IsWord(Len(lookup)) /\ IsWord(len)
  BY <1>1, CountsFitWords DEF IsWord
<1>3. B \in Nat /\ E \in Nat /\ B < E /\ E <= len
  BY <1>1, ClassifierConstants DEF IsRule
<1>4. \A om \in {0, 1} : Shape(len, B, E, om)
  BY <1>1, <1>2, <1>3 DEF Shape
<1>5. /\ r.match = [q \in DOMAIN s.match |-> Sorted(s.match[q])]
      /\ r.inputBegins = B /\ r.inputEnds = E /\ r.apply = acts
  BY DEF RuleOf, Mapped
<1> HIDE DEF r
<1>6. ASSUME NEW q \in 1..len
      PROVE  LET c == Sorted(s.match[q])
             IN  c \in Seq(Gids) /\ c # <<>> /\ IsWord(Len(c)) /\ ToSet(c) = s.match[q]
  <2> DEFINE S == s.match[q]
             c == Sorted(S)
  <2>1. S # {} /\ S \subseteq Gids
    BY <1>1, GlyphsAreNumbers
  <2> HIDE DEF S
  <2>2. S \subseteq Nat /\ SmallSet(S)
    BY <2>1, GidsAreWords, GidsAreSmall
  <2>3. c \in Seq(S) /\ Len(c) = Cardinality(S) /\ ToSet(c) = S
    BY <2>2, SortedHolds DEF SmallSet
  <2>4. IsWord(Len(c))
    BY <2>2, <2>3 DEF SmallSet
  <2> HIDE DEF c
  <2>5. c \in Seq(Gids)
    BY <2>1, <2>3, SeqMonotonic
  <2>6. c # <<>>
    <3>1. ToSet(<<>>) = {}
      BY DEF ToSet
    <3> QED BY <2>1, <2>3, <3>1
  <2> QED BY <2>3, <2>4, <2>5, <2>6 DEF c, S
<1>7. r.match \in Seq(Seq(Gids)) /\ Len(r.match) = len /\ \A q \in 1..len : r.match[q] = Sorted(s.match[q])
  <2> DEFINE f == [q \in 1..len |-> Sorted(s.match[q])]
  <2>1. r.match = f
    BY <1>1, <1>5
  <2>2. f \in [1..len -> Seq(Gids)]
    BY <1>6
  <2>3. \A q \in 1..len : f[q] = Sorted(s.match[q])
    OBVIOUS
  <2> HIDE DEF f, s
  <2>4. f \in Seq(Seq(Gids)) /\ Len(f) = len
    BY <1>1, <2>2
  <2> QED BY <2>1, <2>3, <2>4
<1>8. /\ acts \in Seq(Actions) /\ Len(acts) = 2
      /\ \A i \in 1..2 : IsWord(acts[i].at) /\ IsWord(acts[i].lookup) /\ B <= acts[i].at
  <2> DEFINE a == [at |-> B, lookup |-> n - 1]
             z == [at |-> E - 1, lookup |-> n]
  <2>1. B \in Nat /\ E - 1 \in Nat /\ n - 1 \in Nat /\ n \in Nat /\ B <= E - 1
        /\ B <= len /\ E - 1 <= len /\ n - 1 <= Len(lookup) /\ n <= Len(lookup) /\ B <= B
    BY <1>1, <1>3
  <2>2. IsWord(B) /\ IsWord(E - 1) /\ IsWord(n - 1) /\ IsWord(n)
    BY <1>2, <2>1, SmallerIsWord
  <2>3. a \in Actions /\ z \in Actions
    BY <2>1 DEF Actions
  <2>4. a.at = B /\ a.lookup = n - 1 /\ z.at = E - 1 /\ z.lookup = n
    OBVIOUS
  <2>5. acts = <<a, z>>
    OBVIOUS
  <2> HIDE DEF a, z, acts
  <2>6. acts \in Seq(Actions) /\ Len(acts) = 2 /\ acts[1] = a /\ acts[2] = z
    BY <2>3, <2>5
  <2>7. \A i \in 1..2 : i = 1 \/ i = 2
    OBVIOUS
  <2> QED BY <2>1, <2>2, <2>4, <2>6, <2>7
<1> HIDE DEF acts
<1>9. Typed(r, n)
  BY <1>5, <1>6, <1>7, <1>8 DEF Typed
<1> QED BY <1>1, <1>2, <1>4, <1>9 DEF r

ReadRules == [match : Seq(Seq(Nat)), inputBegins : Nat, inputEnds : Nat, apply : Seq(Actions)]

\* x says what rule n of the lookup says.
SaysAs(x, n) ==
  LET s == lookup[n] IN
    /\ x \in ReadRules
    /\ x.match \in Seq(Seq(Nat)) /\ Len(x.match) = Len(s.match)
    /\ \A q \in 1..Len(s.match) : ToSet(x.match[q]) = s.match[q]
    /\ x.inputBegins = s.inputBegins /\ x.inputEnds = s.inputEnds
    /\ x.apply = RuleOf(n).apply

LEMMA RuleSays ==
  ASSUME lookup \in Lookups, NEW n \in 1..Len(lookup)
  PROVE  SaysAs(RuleOf(n), n)
<1>1. Typed(RuleOf(n), n)
  BY RuleFacts
<1>2. Gids \subseteq Nat
  BY GidsAreWords
<1>3. Seq(Gids) \subseteq Seq(Nat)
  BY <1>2, SeqMonotonic
<1>4. Seq(Seq(Gids)) \subseteq Seq(Seq(Nat))
  BY <1>3, SeqMonotonic
<1>5. RuleOf(n) \in ReadRules
  <2> DEFINE r == RuleOf(n)
  <2>1. r = [match |-> r.match, inputBegins |-> r.inputBegins, inputEnds |-> r.inputEnds,
             apply |-> r.apply]
    BY DEF RuleOf
  <2>2. r.match \in Seq(Seq(Nat)) /\ r.apply \in Seq(Actions)
    BY <1>1, <1>4 DEF Typed
  <2>3. r.inputBegins \in Nat /\ r.inputEnds \in Nat
    <3>1. 0 \in {0, 1} /\ Shape(Len(lookup[n].match), lookup[n].inputBegins, lookup[n].inputEnds, 0)
      BY RuleFacts
    <3> QED BY <1>1, <3>1 DEF Typed, Shape
  <2> HIDE DEF r
  <2>4. r \in ReadRules
    BY <2>1, <2>2, <2>3 DEF ReadRules
  <2> QED BY <2>4 DEF r
<1> QED BY <1>1, <1>4, <1>5 DEF Typed, SaysAs

\* The coverages cv that the cells of a rule give, and those given with it, show the
\* coverages s.
Shows(cv, start, s, n, B, om) ==
  /\ cv \in Seq(Seq(Nat)) /\ Len(cv) = n /\ start \in Seq(Seq(Nat)) /\ Len(start) = om
  /\ \A q \in 1..B : ToSet(cv[q]) = s[B + 1 - q]
  /\ \A q \in 1..om : ToSet(start[q]) = s[B + q]
  /\ \A q \in (B + om + 1)..n : ToSet(cv[q]) = s[q]

Shown(w, s, n) == w \in Seq(Seq(Nat)) /\ Len(w) = n /\ \A q \in 1..n : ToSet(w[q]) = s[q]

LEMMA PiecesShown ==
  ASSUME NEW n, NEW B, NEW E, NEW om, Shape(n, B, E, om),
         NEW cv, NEW start, NEW s, Shows(cv, start, s, n, B, om),
         NEW back, back = [q \in 1..B |-> cv[q]],
         NEW input, input = [i \in 1..(E - B - om) |-> cv[B + om + i]],
         NEW ahead, ahead = [i \in 1..(n - E) |-> cv[E + i]]
  PROVE  Shown(ReverseBacktracks(back \o start \o input \o ahead, B), s, n)
<1> DEFINE X == Seq(Nat)
           w == ReverseBacktracks(back \o start \o input \o ahead, B)
<1>1. n \in Nat /\ B \in Nat /\ E \in Nat /\ om \in {0, 1} /\ B < E /\ E <= n /\ om \in Nat
  BY DEF Shape
<1>2. cv \in Seq(X) /\ Len(cv) = n /\ start \in Seq(X) /\ Len(start) = om /\ \A q \in 1..n : cv[q] \in X
  BY ElementOfSeq DEF Shows
<1> HIDE DEF X
<1>3. back \in Seq(X) /\ Len(back) = B
  <2>1. \A q \in 1..B : cv[q] \in X
    BY <1>1, <1>2
  <2>2. back \in [1..B -> X]
    BY <2>1
  <2> QED BY <1>1, <2>2
<1>4. input \in Seq(X) /\ Len(input) = E - B - om
  <2>1. \A i \in 1..(E - B - om) : B + om + i \in 1..n
    BY <1>1
  <2>2. input \in [1..(E - B - om) -> X]
    BY <1>2, <2>1
  <2>3. E - B - om \in Nat
    BY <1>1
  <2> QED BY <2>2, <2>3
<1>5. ahead \in Seq(X) /\ Len(ahead) = n - E
  <2>1. \A i \in 1..(n - E) : E + i \in 1..n
    BY <1>1
  <2>2. ahead \in [1..(n - E) -> X]
    BY <1>2, <2>1
  <2>3. n - E \in Nat
    BY <1>1
  <2> QED BY <2>2, <2>3
<1>6. Rejoined(w, X, back, start, input, ahead, n, B, E, om)
  BY <1>2, <1>3, <1>4, <1>5, RuleRejoined
<1> HIDE DEF w
<1>7. ASSUME NEW q \in 1..n PROVE ToSet(w[q]) = s[q]
  <2>1. CASE q \in 1..B
    <3> DEFINE x == B + 1 - q
    <3>1. x \in 1..B /\ B + 1 - x = q
      BY <1>1, <2>1
    <3>2. w[q] = back[x]
      BY <1>6, <2>1 DEF Rejoined
    <3> HIDE DEF x
    <3>3. back[x] = cv[x]
      BY <3>1
    <3>4. ToSet(cv[x]) = s[B + 1 - x]
      BY <3>1 DEF Shows
    <3> QED BY <3>1, <3>2, <3>3, <3>4
  <2>2. CASE q \in (B + 1)..(B + om)
    <3> DEFINE x == q - B
    <3>1. x \in 1..om /\ B + x = q
      BY <1>1, <2>2
    <3> HIDE DEF x
    <3>2. w[B + x] = start[x]
      BY <1>6, <3>1 DEF Rejoined
    <3>3. ToSet(start[x]) = s[B + x]
      BY <3>1 DEF Shows
    <3> QED BY <3>1, <3>2, <3>3
  <2>3. CASE q \in (B + om + 1)..E
    <3> DEFINE i == q - (B + om)
    <3>1. i \in 1..(E - B - om) /\ B + om + i = q
      BY <1>1, <2>3
    <3> HIDE DEF i
    <3>2. w[B + om + i] = input[i] /\ input[i] = cv[B + om + i]
      BY <1>6, <3>1 DEF Rejoined
    <3>3. ToSet(cv[q]) = s[q]
      <4>1. q \in (B + om + 1)..n
        BY <1>1, <2>3
      <4> QED BY <4>1 DEF Shows
    <3> QED BY <3>1, <3>2, <3>3
  <2>4. CASE q \in (E + 1)..n
    <3> DEFINE i == q - E
    <3>1. i \in 1..(n - E) /\ E + i = q
      BY <1>1, <2>4
    <3> HIDE DEF i
    <3>2. w[E + i] = ahead[i] /\ ahead[i] = cv[E + i]
      BY <1>6, <3>1 DEF Rejoined
    <3>3. ToSet(cv[q]) = s[q]
      <4>1. q \in (B + om + 1)..n
        BY <1>1, <2>4
      <4> QED BY <4>1 DEF Shows
    <3> QED BY <3>1, <3>2, <3>3
  <2>5. q \in 1..B \/ q \in (B + 1)..(B + om) \/ q \in (B + om + 1)..E \/ q \in (E + 1)..n
    BY <1>1
  <2> QED BY <2>1, <2>2, <2>3, <2>4, <2>5
<1>8. w \in Seq(X) /\ Len(w) = n
  BY <1>6 DEF Rejoined
<1> QED BY <1>7, <1>8 DEF w, X, Shown

-----------------------------------------------------------------------------
(* A rule written by its coverages.                                        *)

CoverageCells == {P(BuildCoverage(c)) : c \in Seq(Gids)}
CoverageOfCell(cell) == ReadCoverage(Follow(<<cell>>, 1))

LEMMA CellReadBack ==
  ASSUME NEW c \in Seq(Gids), c # <<>>, IsWord(Len(c))
  PROVE  /\ CoverageOfCell(P(BuildCoverage(c))) \in Seq(Nat)
         /\ ToSet(CoverageOfCell(P(BuildCoverage(c)))) = ToSet(c)
<1> DEFINE b == BuildCoverage(c)
<1>1. ReadCoverage(b) \in Seq(Nat) /\ ToSet(ReadCoverage(b)) = ToSet(c)
  BY CoverageReadBack
<1> HIDE DEF b
<1>2. Follow(<<P(b)>>, 1) = b
  BY DEF Follow, P
<1> QED BY <1>1, <1>2 DEF b, CoverageOfCell

LEMMA CoverageRuleRead ==
  ASSUME lookup \in Lookups, NEW n \in 1..Len(lookup), NEW contextual \in BOOLEAN,
         Fits(Len(lookup[n].match), lookup[n].inputBegins, lookup[n].inputEnds, contextual)
  PROVE  \E x : /\ ReadChaining(BuildChainingCoverage(RuleOf(n), contextual), contextual) = <<x>>
                /\ SaysAs(x, n)
<1> DEFINE s == lookup[n].match
           len == Len(s)
           B == lookup[n].inputBegins
           E == lookup[n].inputEnds
           r == RuleOf(n)
           t == ReverseBacktracks(r.match, B)
           X == Numbers \union CoverageCells
           M == Mapped(t, LAMBDA c : P(BuildCoverage(c)))
           ap == Applications(r, B)
           cells == RuleCells(r, contextual, 0, LAMBDA c : P(BuildCoverage(c)))
           b == <<W(3)>> \o cells
<1>1. /\ Shape(len, B, E, 0) /\ Typed(r, n) /\ Fits(len, B, E, contextual)
      /\ r.inputBegins = B /\ r.inputEnds = E
  BY RuleFacts DEF Typed
<1>2. len \in Nat /\ B \in Nat /\ E \in Nat /\ B < E /\ E <= len
  BY <1>1 DEF Shape
<1>3. /\ r.match \in Seq(Seq(Gids)) /\ Len(r.match) = len
      /\ \A q \in 1..len : r.match[q] # <<>> /\ IsWord(Len(r.match[q])) /\ ToSet(r.match[q]) = s[q]
  BY <1>1 DEF Typed
<1>4. ActionCells(ap, r.apply, B) /\ r.apply \in Seq(Actions) /\ Len(r.apply) = 2
      /\ \A i \in 1..2 : IsWord(r.apply[i].at) /\ IsWord(r.apply[i].lookup) /\ B <= r.apply[i].at
  <2>1. r.apply \in Seq(Actions) /\ Len(r.apply) = 2
        /\ \A i \in 1..2 : IsWord(r.apply[i].at) /\ IsWord(r.apply[i].lookup) /\ B <= r.apply[i].at
    BY <1>1 DEF Typed
  <2> QED BY <1>2, <2>1, ApplicationsHold
<1>5. cells = Layout(M, B, E, 0, ap, 2, contextual)
  <2>1. contextual => B = 0
    BY <1>1 DEF Fits
  <2> HIDE DEF r
  <2> QED BY <1>1, <1>4, <2>1 DEF RuleCells, Layout
<1> HIDE DEF r, ap, cells, s, B, E
<1>6. t \in Seq(Seq(Gids)) /\ Turned(t, r.match, B)
  <2>1. B <= len
    BY <1>2
  <2> QED BY <1>2, <1>3, <2>1, BacktracksTurned
<1> HIDE DEF t
<1>7. Len(t) = len /\ DOMAIN t = 1..len /\ \A q \in 1..len : t[q] \in Seq(Gids)
  <2>1. Len(t) = len
    BY <1>3, <1>6 DEF Turned
  <2> QED BY <1>6, <2>1, ElementOfSeq, LenProperties
<1>8. /\ \A q \in 1..B : t[q] = r.match[B + 1 - q]
      /\ \A q \in (B + 1)..len : t[q] = r.match[q]
  BY <1>3, <1>6 DEF Turned
<1>9. \A q \in 1..len : t[q] # <<>> /\ IsWord(Len(t[q]))
  <2> SUFFICES ASSUME NEW q \in 1..len PROVE t[q] # <<>> /\ IsWord(Len(t[q]))
    OBVIOUS
  <2>1. CASE q \in 1..B
    <3>1. B + 1 - q \in 1..len
      BY <1>2, <2>1
    <3> QED BY <1>3, <1>8, <2>1, <3>1
  <2>2. CASE q \in (B + 1)..len
    BY <1>3, <1>8, <2>2
  <2>3. q \in 1..B \/ q \in (B + 1)..len
    BY <1>2
  <2> QED BY <2>1, <2>2, <2>3
<1>10. /\ M \in Seq(X) /\ Len(M) = len /\ \A q \in 1..len : M[q] = P(BuildCoverage(t[q]))
  <2> DEFINE f == [q \in 1..len |-> P(BuildCoverage(t[q]))]
  <2>1. M = f
    BY <1>7 DEF Mapped
  <2>2. \A q \in 1..len : f[q] = P(BuildCoverage(t[q])) /\ f[q] \in X
    BY <1>7 DEF CoverageCells
  <2>3. f = [q \in 1..len |-> f[q]]
    OBVIOUS
  <2> HIDE DEF f, X, len
  <2>4. f \in Seq(X) /\ Len(f) = len
    BY <1>2, <2>2, <2>3
  <2> QED BY <2>1, <2>2, <2>4
<1>11. ap \in Seq(Numbers) /\ Len(ap) = 2 * 2 /\ Numbers \subseteq X /\ ap \in Seq(X)
  <2>1. ap \in Seq(Numbers) /\ Len(ap) = 2 * 2
    BY <1>4 DEF ActionCells
  <2>2. Numbers \subseteq X
    OBVIOUS
  <2> HIDE DEF X
  <2> QED BY <2>1, <2>2, SeqMonotonic
<1> HIDE DEF M, X, len
<1>12. cells \in Seq(X) /\ Laid(cells, 0, M, B, E, 0, ap, 2, contextual)
  BY <1>1, <1>5, <1>10, <1>11, LayoutLaid
<1>13. b \in Seq(X) /\ StandsAt(b, 1, cells) /\ b[1] = W(3)
  <2> DEFINE c == <<W(3)>>
  <2>1. W(3) \in X
    BY <1>11 DEF Numbers
  <2>2. c \in Seq(X) /\ Len(c) = 1 /\ c[1] = W(3)
    BY <2>1
  <2> HIDE DEF c
  <2>3. c \o cells \in Seq(X) /\ StandsAt(c \o cells, Len(c), cells) /\ StandsAt(c \o cells, 0, c)
    BY <1>12, <2>2, StandsAppended
  <2>4. (c \o cells)[0 + 1] = c[1]
    <3>1. 1 \in 1..Len(c)
      BY <2>2
    <3> QED BY <2>3, <3>1 DEF StandsAt
  <2> QED BY <2>2, <2>3, <2>4 DEF c
<1>14. BuildChainingCoverage(r, contextual) = b
  BY DEF BuildChainingCoverage, cells
<1> HIDE DEF b
<1>15. WordAt(b, 1) # 2
  <2>1. W(3).w = Word(3) /\ 3 \in 0..99 /\ 3 # 2
    BY DEF W, Word
  <2>2. Word(3) = 3
    BY <2>1, SmallIsWord, WordKept
  <2> QED BY <1>13, <2>1, <2>2 DEF WordAt
<1>16. Laid(b, 1, M, B, E, 0, ap, 2, contextual)
  BY <1>1, <1>10, <1>12, <1>13, LaidAfter
<1>17. Counted(b, 2, contextual, 0, M, B, E, ap, 2)
  <2>1. IsWord(2)
    BY SmallIsWord
  <2>2. 2 = 1 + 1 /\ 1 \in Nat
    OBVIOUS
  <2> QED BY <1>1, <1>10, <1>11, <1>16, <2>1, <2>2, RuleCounted
<1> DEFINE x == ReadRuleCells(b, 2, contextual, <<>>,
                              LAMBDA cell, side : ReadCoverage(Follow(<<cell>>, 1)))
           start == <<>>
           omitted == Len(start)
           counted(i) == IF contextual THEN 0 ELSE WordAt(b, i)
           nBack == counted(2)
           atInput == IF contextual THEN 2 ELSE 2 + 1 + nBack
           nInput == WordAt(b, atInput)
           input == IF contextual THEN 2 + 2 ELSE atInput + 1
           afterInput == input + nInput - omitted
           nAhead == counted(afterInput)
           atApply == IF contextual THEN 2 + 1 ELSE afterInput + 1 + nAhead
           apply == IF contextual THEN afterInput ELSE atApply + 1
           back == [q \in 1..nBack |-> CoverageOfCell(b[2 + 1 + q - 1])]
           inner == [q \in 1..(nInput - omitted) |-> CoverageOfCell(b[input + q - 1])]
           ahead == [q \in 1..nAhead |-> CoverageOfCell(b[afterInput + 1 + q - 1])]
           done == [q \in 1..WordAt(b, atApply) |->
                      [at |-> (nBack + WordAt(b, apply + 2 * q - 2)) % 65536,
                       lookup |-> WordAt(b, apply + 2 * q - 1)]]
           w == ReverseBacktracks(back \o start \o inner \o ahead, nBack)
<1>18. x = [match |-> w, inputBegins |-> nBack, inputEnds |-> nBack + nInput, apply |-> done]
  BY DEF ReadRuleCells, CoverageOfCell
<1>19. ReadChaining(b, contextual) = <<x>>
  BY <1>15 DEF ReadChaining
<1>20. omitted = 0
  OBVIOUS
<1> HIDE DEF omitted
<1>21. /\ nBack = B /\ nInput = E - B /\ nAhead = len - E /\ WordAt(b, atApply) = 2
       /\ \A q \in 1..B : b[2 + 1 + q - 1] = M[q]
       /\ \A i \in 1..(E - B - 0) : b[input + i - 1] = M[B + 0 + i]
       /\ \A i \in 1..(len - E) : b[afterInput + 1 + i - 1] = M[E + i]
       /\ \A i \in 1..2 : /\ b[apply + 2 * i - 2] = ap[2 * i - 1]
                          /\ b[apply + 2 * i - 1] = ap[2 * i]
  BY <1>10, <1>17, <1>20 DEF Counted
<1> DEFINE cv == [q \in 1..len |-> CoverageOfCell(M[q])]
<1>22. Shows(cv, start, s, len, B, 0)
  <2>1. \A q \in 1..len : cv[q] \in Seq(Nat) /\ ToSet(cv[q]) = ToSet(t[q])
    BY <1>7, <1>9, <1>10, CellReadBack
  <2>2. cv = [q \in 1..len |-> cv[q]]
    OBVIOUS
  <2> HIDE DEF cv
  <2>3. cv \in Seq(Seq(Nat)) /\ Len(cv) = len
    <3>1. cv \in [1..len -> Seq(Nat)]
      BY <2>1, <2>2
    <3>2. len \in Nat
      BY <1>2
    <3> HIDE DEF len
    <3> QED BY <3>1, <3>2
  <2>4. ASSUME NEW q \in 1..B PROVE ToSet(cv[q]) = s[B + 1 - q]
    <3>1. q \in 1..len /\ B + 1 - q \in 1..len
      BY <1>2
    <3> QED BY <1>3, <1>8, <2>1, <3>1
  <2>5. ASSUME NEW q \in (B + 0 + 1)..len PROVE ToSet(cv[q]) = s[q]
    <3>1. q \in 1..len /\ q \in (B + 1)..len
      BY <1>2
    <3> QED BY <1>3, <1>8, <2>1, <3>1
  <2>6. start \in Seq(Seq(Nat)) /\ Len(start) = 0
    OBVIOUS
  <2>7. \A q \in 1..0 : ToSet(start[q]) = s[B + q]
    OBVIOUS
  <2> HIDE DEF start
  <2> QED BY <2>3, <2>4, <2>5, <2>6, <2>7 DEF Shows
<1>23. back = [q \in 1..B |-> cv[q]]
  <2>1. \A q \in 1..B : q \in 1..len
    BY <1>2
  <2>2. \A q \in 1..B : CoverageOfCell(b[2 + 1 + q - 1]) = cv[q]
    BY <1>21, <2>1
  <2>3. back = [q \in 1..B |-> CoverageOfCell(b[2 + 1 + q - 1])]
    BY <1>21
  <2> HIDE DEF cv
  <2> QED BY <2>2, <2>3
<1>24. inner = [i \in 1..(E - B - 0) |-> cv[B + 0 + i]]
  <2>1. \A i \in 1..(E - B - 0) : B + 0 + i \in 1..len
    BY <1>2
  <2>2. \A i \in 1..(E - B - 0) : CoverageOfCell(b[input + i - 1]) = cv[B + 0 + i]
    BY <1>21, <2>1
  <2>3. inner = [i \in 1..(E - B - 0) |-> CoverageOfCell(b[input + i - 1])]
    BY <1>20, <1>21
  <2> HIDE DEF cv, input
  <2> QED BY <2>2, <2>3
<1>25. ahead = [i \in 1..(len - E) |-> cv[E + i]]
  <2>1. \A i \in 1..(len - E) : E + i \in 1..len
    BY <1>2
  <2>2. \A i \in 1..(len - E) : CoverageOfCell(b[afterInput + 1 + i - 1]) = cv[E + i]
    BY <1>21, <2>1
  <2>3. ahead = [i \in 1..(len - E) |-> CoverageOfCell(b[afterInput + 1 + i - 1])]
    BY <1>21
  <2> HIDE DEF cv, afterInput
  <2> QED BY <2>2, <2>3
<1>26. done = r.apply
  <2>1. done = ActionsAt(b, apply, B, 2)
    <3> HIDE DEF apply, atApply, nBack
    <3> QED BY <1>21 DEF ActionsAt
  <2>2. ActionsStand(b, apply, ap, 2)
    <3> HIDE DEF apply
    <3> QED BY <1>21 DEF ActionsStand
  <2> HIDE DEF done, apply
  <2> DEFINE A == r.apply
  <2>3. WordActions(A, B, 2) /\ ActionCells(ap, A, B)
    BY <1>4 DEF WordActions
  <2> HIDE DEF A
  <2>4. ActionsAt(b, apply, B, 2) = A
    BY <1>2, <2>2, <2>3, ActionsRead
  <2> QED BY <2>1, <2>4 DEF A
<1> HIDE DEF back, inner, ahead, done, nBack, nInput, cv, start
<1>27. Shown(w, s, len)
  <2>1. Shown(ReverseBacktracks(back \o start \o inner \o ahead, B), s, len)
    BY <1>1, <1>22, <1>23, <1>24, <1>25, PiecesShown
  <2> QED BY <1>21, <2>1
<1> HIDE DEF w
<1>28. x.match = w /\ x.inputBegins = B /\ x.inputEnds = E /\ x.apply = r.apply
  <2>1. nBack + nInput = E
    BY <1>2, <1>21
  <2> HIDE DEF x
  <2> QED BY <1>18, <1>21, <1>26, <2>1
<1>29. SaysAs(x, n)
  <2> HIDE DEF x
  <2>1. x = [match |-> w, inputBegins |-> B, inputEnds |-> E, apply |-> r.apply]
    BY <1>2, <1>18, <1>21, <1>26
  <2>2. x \in ReadRules
    BY <1>2, <1>4, <1>27, <2>1 DEF ReadRules, Shown
  <2> QED BY <1>27, <1>28, <2>2 DEF Shown, SaysAs, s, len, B, E, r
<1> QED BY <1>14, <1>19, <1>29 DEF r

-----------------------------------------------------------------------------
(* A rule written by its classes.                                          *)

\* The classes cr, of the hashes h, are the coverages of rule n.
ClassesOf(cr, n, h) ==
  LET s == lookup[n] IN
    /\ cr \in Seq(Nat) /\ Len(cr) = Len(s.match)
    /\ \A q \in 1..Len(cr) : /\ cr[q] # 0 /\ IsWord(cr[q])
                             /\ {g \in Glyphs : h[Side(s, q)][g] = cr[q]} = s.match[q]

\* The class definitions cd are those of h, on the sides that are written.
DefinesClasses(cd, h, contextual) ==
  \A side \in Sides : (contextual => side = "i") =>
    \A c : c # 0 => CoversClass(ClassCoverage(cd[side], c), h[side], c)

Classified(n, cr) == [RuleOf(n) EXCEPT !.match = cr]

LEMMA ClassRuleRead ==
  ASSUME lookup \in Lookups, NEW n \in 1..Len(lookup), NEW contextual \in BOOLEAN,
         Fits(Len(lookup[n].match), lookup[n].inputBegins, lookup[n].inputEnds, contextual),
         NEW cr, NEW h, ClassesOf(cr, n, h), NEW cd, DefinesClasses(cd, h, contextual),
         NEW c, c = cr[lookup[n].inputBegins + 1]
  PROVE  SaysAs(ReadClassRule(RuleCells(Classified(n, cr), contextual, 1, W), contextual, cd, c), n)
<1> DEFINE s == lookup[n].match
           len == Len(s)
           B == lookup[n].inputBegins
           E == lookup[n].inputEnds
           r == Classified(n, cr)
           side(q) == Side(lookup[n], q)
           t == ReverseBacktracks(cr, B)
           M == Mapped(t, W)
           ap == Applications(r, B)
           b == RuleCells(r, contextual, 1, W)
<1>1. /\ Shape(len, B, E, 1) /\ Typed(RuleOf(n), n) /\ Fits(len, B, E, contextual)
  BY RuleFacts
<1>2. len \in Nat /\ B \in Nat /\ E \in Nat /\ B < E /\ E <= len
  BY <1>1 DEF Shape
<1>3. /\ cr \in Seq(Nat) /\ Len(cr) = len
      /\ \A q \in 1..len : /\ cr[q] # 0 /\ IsWord(cr[q])
                           /\ {g \in Glyphs : h[side(q)][g] = cr[q]} = s[q]
  BY DEF ClassesOf
<1>4. /\ r.match = cr /\ r.inputBegins = B /\ r.inputEnds = E /\ r.apply = RuleOf(n).apply
  <2>1. RuleOf(n).inputBegins = B /\ RuleOf(n).inputEnds = E
    BY <1>1 DEF Typed
  <2>2. RuleOf(n) = [match |-> RuleOf(n).match, inputBegins |-> RuleOf(n).inputBegins,
                     inputEnds |-> RuleOf(n).inputEnds, apply |-> RuleOf(n).apply]
    BY DEF RuleOf
  <2> QED BY <2>1, <2>2 DEF Classified
<1>5. ActionCells(ap, r.apply, B) /\ WordActions(r.apply, B, 2)
  <2>1. r.apply \in Seq(Actions) /\ Len(r.apply) = 2
        /\ \A i \in 1..2 : IsWord(r.apply[i].at) /\ IsWord(r.apply[i].lookup) /\ B <= r.apply[i].at
    BY <1>1, <1>4 DEF Typed
  <2> HIDE DEF r
  <2>2. ActionCells(ap, r.apply, B)
    BY <1>2, <2>1, ApplicationsHold
  <2> QED BY <2>1, <2>2 DEF WordActions
<1> HIDE DEF r
<1>6. b = Layout(M, B, E, 1, ap, 2, contextual)
  <2>1. contextual => B = 0
    BY <1>1 DEF Fits
  <2>2. Len(r.apply) = 2
    BY <1>5 DEF WordActions
  <2> QED BY <1>4, <2>1, <2>2 DEF RuleCells, Layout
<1> HIDE DEF ap, b, s, B, E
<1>7. t \in Seq(Nat) /\ Turned(t, cr, B)
  <2>1. B <= len
    BY <1>2
  <2> QED BY <1>2, <1>3, <2>1, BacktracksTurned
<1> HIDE DEF t
<1>8. /\ Len(t) = len /\ DOMAIN t = 1..len
      /\ \A q \in 1..B : t[q] = cr[B + 1 - q]
      /\ \A q \in (B + 1)..len : t[q] = cr[q]
  <2>1. Len(t) = len
    BY <1>3, <1>7 DEF Turned
  <2> QED BY <1>3, <1>7, <2>1, LenProperties DEF Turned
<1>9. \A q \in 1..len : t[q] # 0 /\ IsWord(t[q]) /\ t[q] \in Int
  <2> SUFFICES ASSUME NEW q \in 1..len PROVE t[q] # 0 /\ IsWord(t[q]) /\ t[q] \in Int
    OBVIOUS
  <2>0. t[q] \in Int
    BY <1>7, <1>8, ElementOfSeq
  <2>1. CASE q \in 1..B
    <3>1. B + 1 - q \in 1..len
      BY <1>2, <2>1
    <3> QED BY <1>3, <1>8, <2>0, <2>1, <3>1
  <2>2. CASE q \in (B + 1)..len
    BY <1>3, <1>8, <2>0, <2>2
  <2>3. q \in 1..B \/ q \in (B + 1)..len
    BY <1>2
  <2> QED BY <2>1, <2>2, <2>3
<1>10. M \in Seq(Numbers) /\ Len(M) = len /\ \A q \in 1..len : M[q].w = t[q]
  <2> DEFINE f == [q \in 1..len |-> W(t[q])]
  <2>1. M = f
    BY <1>8 DEF Mapped
  <2>2. \A q \in 1..len : f[q] = W(t[q]) /\ f[q] \in Numbers
    BY <1>9 DEF Numbers
  <2>3. f = [q \in 1..len |-> f[q]]
    OBVIOUS
  <2> HIDE DEF f, len
  <2>4. f \in Seq(Numbers) /\ Len(f) = len
    BY <1>2, <2>2, <2>3
  <2>5. \A x : W(x).w = Word(x)
    BY DEF W, Word
  <2>6. \A q \in 1..len : f[q].w = t[q]
    BY <1>9, <2>2, <2>5, WordKept
  <2> QED BY <2>1, <2>4, <2>6
<1>11. ap \in Seq(Numbers) /\ Len(ap) = 2 * 2
  BY <1>5 DEF ActionCells, WordActions
<1> HIDE DEF M, len
<1>12. Laid(b, 0, M, B, E, 1, ap, 2, contextual)
  BY <1>1, <1>6, <1>10, <1>11, LayoutLaid
<1>13. Counted(b, 1, contextual, 1, M, B, E, ap, 2)
  <2>1. IsWord(2)
    BY SmallIsWord
  <2>2. 1 = 0 + 1 /\ 0 \in Nat
    OBVIOUS
  <2> QED BY <1>1, <1>10, <1>11, <1>12, <2>1, <2>2, RuleCounted
<1> DEFINE x == ReadClassRule(b, contextual, cd, c)
           start == <<ClassCoverage(cd["i"], c)>>
           omitted == Len(start)
           counted(i) == IF contextual THEN 0 ELSE WordAt(b, i)
           nBack == counted(1)
           atInput == IF contextual THEN 1 ELSE 1 + 1 + nBack
           nInput == WordAt(b, atInput)
           input == IF contextual THEN 1 + 2 ELSE atInput + 1
           afterInput == input + nInput - omitted
           nAhead == counted(afterInput)
           atApply == IF contextual THEN 1 + 1 ELSE afterInput + 1 + nAhead
           apply == IF contextual THEN afterInput ELSE atApply + 1
           back == [q \in 1..nBack |-> ClassCoverage(cd["b"], b[1 + 1 + q - 1].w)]
           inner == [q \in 1..(nInput - omitted) |-> ClassCoverage(cd["i"], b[input + q - 1].w)]
           ahead == [q \in 1..nAhead |-> ClassCoverage(cd["f"], b[afterInput + 1 + q - 1].w)]
           done == [q \in 1..WordAt(b, atApply) |->
                      [at |-> (nBack + WordAt(b, apply + 2 * q - 2)) % 65536,
                       lookup |-> WordAt(b, apply + 2 * q - 1)]]
           w == ReverseBacktracks(back \o start \o inner \o ahead, nBack)
<1>14. x = [match |-> w, inputBegins |-> nBack, inputEnds |-> nBack + nInput, apply |-> done]
  BY DEF ReadClassRule, ReadRuleCells
<1>15. omitted = 1
  OBVIOUS
<1> HIDE DEF omitted
<1>16. /\ nBack = B /\ nInput = E - B /\ nAhead = len - E /\ WordAt(b, atApply) = 2
       /\ \A q \in 1..B : b[1 + 1 + q - 1] = M[q]
       /\ \A i \in 1..(E - B - 1) : b[input + i - 1] = M[B + 1 + i]
       /\ \A i \in 1..(len - E) : b[afterInput + 1 + i - 1] = M[E + i]
       /\ \A i \in 1..2 : /\ b[apply + 2 * i - 2] = ap[2 * i - 1]
                          /\ b[apply + 2 * i - 1] = ap[2 * i]
  BY <1>10, <1>13, <1>15 DEF Counted
<1> DEFINE cv == [q \in 1..len |-> ClassCoverage(cd[side(q)], M[q].w)]
<1>17. \A q \in 1..len : side(q) \in Sides /\ (contextual => side(q) = "i")
  <2> SUFFICES ASSUME NEW q \in 1..len PROVE side(q) \in Sides /\ (contextual => side(q) = "i")
    OBVIOUS
  <2>1. contextual => B = 0 /\ E = len
    BY <1>1 DEF Fits
  <2>2. contextual => ~(q <= B) /\ q <= E
    BY <1>2, <2>1
  <2> QED BY <2>2 DEF Side, Sides, B, E
<1>18. \A q \in 1..len : q <= B => side(q) = "b" /\ side(B + 1 - q) = "b" /\ B + 1 - q \in 1..len
  <2> SUFFICES ASSUME NEW q \in 1..len, q <= B
               PROVE  side(q) = "b" /\ side(B + 1 - q) = "b" /\ B + 1 - q \in 1..len
    OBVIOUS
  <2>1. B + 1 - q <= B /\ B + 1 - q \in 1..len
    BY <1>2
  <2> QED BY <2>1 DEF Side, B
<1>19. \A q \in 1..len : B < q => side(q) = IF q <= E THEN "i" ELSE "f"
  <2> SUFFICES ASSUME NEW q \in 1..len, B < q PROVE side(q) = IF q <= E THEN "i" ELSE "f"
    OBVIOUS
  <2>1. ~(q <= B)
    BY <1>2
  <2> QED BY <2>1 DEF Side, B, E
<1> HIDE DEF side
<1>20. \A q \in 1..len : CoversClass(cv[q], h[side(q)], t[q])
  <2> SUFFICES ASSUME NEW q \in 1..len PROVE CoversClass(cv[q], h[side(q)], t[q])
    OBVIOUS
  <2>1. cv[q] = ClassCoverage(cd[side(q)], t[q])
    BY <1>10
  <2> HIDE DEF cv
  <2>2. side(q) \in Sides /\ (contextual => side(q) = "i") /\ t[q] # 0
    BY <1>9, <1>17
  <2>3. CoversClass(ClassCoverage(cd[side(q)], t[q]), h[side(q)], t[q])
    BY <2>2 DEF DefinesClasses
  <2> QED BY <2>1, <2>3
<1>21. CoversClass(ClassCoverage(cd["i"], c), h["i"], c) /\ B + 1 \in 1..len /\ side(B + 1) = "i"
  <2>1. B + 1 \in 1..len /\ side(B + 1) = "i"
    <3>1. B + 1 \in 1..len /\ B < B + 1 /\ B + 1 <= E
      BY <1>2
    <3> QED BY <1>19, <3>1
  <2>2. c # 0
    BY <1>3, <2>1 DEF B
  <2>3. "i" \in Sides
    BY DEF Sides
  <2> QED BY <2>1, <2>2, <2>3 DEF DefinesClasses
<1>22. Shows(cv, start, s, len, B, 1)
  <2>1. \A q \in 1..len : cv[q] \in Seq(Nat) /\ ToSet(cv[q]) = {g \in Glyphs : h[side(q)][g] = t[q]}
    BY <1>20 DEF CoversClass
  <2>2. cv = [q \in 1..len |-> cv[q]]
    OBVIOUS
  <2> HIDE DEF cv
  <2>3. cv \in Seq(Seq(Nat)) /\ Len(cv) = len
    <3>1. \A q \in 1..len : cv[q] \in Seq(Nat)
      BY <2>1
    <3> QED BY <1>2, <2>2, <3>1
  <2>4. ASSUME NEW q \in 1..B PROVE ToSet(cv[q]) = s[B + 1 - q]
    <3> DEFINE z == B + 1 - q
    <3>1. q \in 1..len /\ q <= B
      BY <1>2
    <3>2. z \in 1..len /\ side(q) = side(z) /\ t[q] = cr[z]
      BY <1>8, <1>18, <3>1
    <3> HIDE DEF z
    <3>3. {g \in Glyphs : h[side(z)][g] = cr[z]} = s[z]
      BY <1>3, <3>2 DEF side
    <3>4. ToSet(cv[q]) = {g \in Glyphs : h[side(z)][g] = cr[z]}
      BY <2>1, <3>1, <3>2
    <3> QED BY <3>3, <3>4 DEF z
  <2>5. ASSUME NEW q \in (B + 1 + 1)..len PROVE ToSet(cv[q]) = s[q]
    <3>1. q \in 1..len /\ q \in (B + 1)..len
      BY <1>2
    <3>2. t[q] = cr[q]
      BY <1>8, <3>1
    <3>3. {g \in Glyphs : h[side(q)][g] = cr[q]} = s[q]
      BY <1>3, <3>1 DEF side
    <3> QED BY <2>1, <3>1, <3>2, <3>3
  <2>6. start \in Seq(Seq(Nat)) /\ Len(start) = 1
    <3>1. ClassCoverage(cd["i"], c) \in Seq(Nat)
      BY <1>21 DEF CoversClass
    <3> QED BY <3>1
  <2>7. \A q \in 1..1 : ToSet(start[q]) = s[B + q]
    <3>1. ToSet(ClassCoverage(cd["i"], c)) = {g \in Glyphs : h["i"][g] = c}
      BY <1>21 DEF CoversClass
    <3>2. {g \in Glyphs : h[side(B + 1)][g] = cr[B + 1]} = s[B + 1]
      BY <1>3, <1>21 DEF side
    <3>3. c = cr[B + 1]
      BY DEF B
    <3>4. ToSet(ClassCoverage(cd["i"], c)) = s[B + 1]
      BY <1>21, <3>1, <3>2, <3>3
    <3>5. start[1] = ClassCoverage(cd["i"], c)
      OBVIOUS
    <3>6. \A q \in 1..1 : q = 1
      OBVIOUS
    <3> HIDE DEF start
    <3> QED BY <3>4, <3>5, <3>6
  <2> HIDE DEF start
  <2> QED BY <2>3, <2>4, <2>5, <2>6, <2>7 DEF Shows
<1>23. back = [q \in 1..B |-> cv[q]]
  <2>1. \A q \in 1..B : q \in 1..len /\ q <= B
    BY <1>2
  <2>2. \A q \in 1..B : ClassCoverage(cd["b"], b[1 + 1 + q - 1].w) = cv[q]
    BY <1>16, <1>18, <2>1
  <2>3. back = [q \in 1..B |-> ClassCoverage(cd["b"], b[1 + 1 + q - 1].w)]
    BY <1>16
  <2> HIDE DEF cv
  <2> QED BY <2>2, <2>3
<1>24. inner = [i \in 1..(E - B - 1) |-> cv[B + 1 + i]]
  <2>1. \A i \in 1..(E - B - 1) : B + 1 + i \in 1..len /\ B < B + 1 + i /\ B + 1 + i <= E
    BY <1>2
  <2>2. ASSUME NEW i \in 1..(E - B - 1)
        PROVE  ClassCoverage(cd["i"], b[input + i - 1].w) = cv[B + 1 + i]
    <3> DEFINE z == B + 1 + i
    <3>1. z \in 1..len /\ B < z /\ z <= E
      BY <2>1
    <3>2. b[input + i - 1] = M[z]
      BY <1>16
    <3> HIDE DEF z
    <3>3. side(z) = "i"
      BY <1>19, <3>1
    <3>4. cv[z] = ClassCoverage(cd["i"], M[z].w)
      BY <3>1, <3>3
    <3> HIDE DEF cv, input
    <3> QED BY <3>2, <3>4 DEF z
  <2>3. inner = [i \in 1..(E - B - 1) |-> ClassCoverage(cd["i"], b[input + i - 1].w)]
    BY <1>15, <1>16
  <2> HIDE DEF cv, input
  <2> QED BY <2>2, <2>3
<1>25. ahead = [i \in 1..(len - E) |-> cv[E + i]]
  <2>1. \A i \in 1..(len - E) : E + i \in 1..len /\ B < E + i /\ ~(E + i <= E)
    BY <1>2
  <2>2. ASSUME NEW i \in 1..(len - E)
        PROVE  ClassCoverage(cd["f"], b[afterInput + 1 + i - 1].w) = cv[E + i]
    <3> DEFINE z == E + i
    <3>1. z \in 1..len /\ B < z /\ ~(z <= E)
      BY <2>1
    <3>2. b[afterInput + 1 + i - 1] = M[z]
      BY <1>16
    <3> HIDE DEF z
    <3>3. side(z) = "f"
      BY <1>19, <3>1
    <3>4. cv[z] = ClassCoverage(cd["f"], M[z].w)
      BY <3>1, <3>3
    <3> HIDE DEF cv, afterInput
    <3> QED BY <3>2, <3>4 DEF z
  <2>3. ahead = [i \in 1..(len - E) |-> ClassCoverage(cd["f"], b[afterInput + 1 + i - 1].w)]
    BY <1>16
  <2> HIDE DEF cv, afterInput
  <2> QED BY <2>2, <2>3
<1>26. done = r.apply
  <2>1. done = ActionsAt(b, apply, B, 2)
    <3> HIDE DEF apply, atApply, nBack
    <3> QED BY <1>16 DEF ActionsAt
  <2>2. ActionsStand(b, apply, ap, 2)
    <3> HIDE DEF apply
    <3> QED BY <1>16 DEF ActionsStand
  <2> HIDE DEF done, apply
  <2> DEFINE A == r.apply
  <2>3. WordActions(A, B, 2) /\ ActionCells(ap, A, B)
    BY <1>5
  <2> HIDE DEF A
  <2>4. ActionsAt(b, apply, B, 2) = A
    BY <1>2, <2>2, <2>3, ActionsRead
  <2> QED BY <2>1, <2>4 DEF A
<1> HIDE DEF back, inner, ahead, done, nBack, nInput, cv, start
<1>27. Shown(w, s, len)
  <2>1. Shown(ReverseBacktracks(back \o start \o inner \o ahead, B), s, len)
    BY <1>1, <1>22, <1>23, <1>24, <1>25, PiecesShown
  <2> QED BY <1>16, <2>1
<1> HIDE DEF w
<1>28. SaysAs(x, n)
  <2> HIDE DEF x
  <2>1. nBack + nInput = E
    BY <1>2, <1>16
  <2>2. x = [match |-> w, inputBegins |-> B, inputEnds |-> E, apply |-> r.apply]
    BY <1>14, <1>16, <1>26, <2>1
  <2>3. x \in ReadRules
    <3>1. r.apply \in Seq(Actions)
      BY <1>5 DEF WordActions
    <3> QED BY <1>2, <1>27, <2>2, <3>1 DEF ReadRules, Shown
  <2>4. x.match = w /\ x.inputBegins = B /\ x.inputEnds = E /\ x.apply = RuleOf(n).apply
    BY <1>4, <2>2
  <2> QED BY <1>27, <2>3, <2>4 DEF Shown, SaysAs, s, len, B, E
<1> QED BY <1>28 DEF b, r

-----------------------------------------------------------------------------
(* Many rules, in an order that does not matter.                           *)

\* Two rules that cannot match at the same place.
StartOf(n) == lookup[n].match[lookup[n].inputBegins + 1]
Apart(u, n) == \A g \in StartOf(u) : g \notin StartOf(n)

\* The rules rs say what the rules S of the lookup say, p[y] the y-th of them; one
\* comes before an earlier one only when the two are apart.
Carries(rs, p, S) ==
  /\ rs \in Seq(ReadRules) /\ p \in [1..Len(rs) -> S]
  /\ \A y \in 1..Len(rs) : SaysAs(rs[y], p[y])
  /\ \A n \in S : \E y \in 1..Len(rs) : p[y] = n
  /\ \A y, z \in 1..Len(rs) : y < z => p[y] < p[z] \/ Apart(p[y], p[z])
Carried(rs, S) == \E p : Carries(rs, p, S)

Before(S, T) == \A u \in S, n \in T : u < n \/ Apart(u, n)

LEMMA NothingCarried == Carried(<<>>, {})
<1> DEFINE p == [y \in 1..0 |-> y]
           e == <<>>
<1>1. e \in Seq(ReadRules) /\ Len(e) = 0 /\ p \in [1..0 -> {}]
  OBVIOUS
<1> HIDE DEF e, p
<1>2. Carries(e, p, {})
  BY <1>1 DEF Carries
<1> QED BY <1>2 DEF Carried, e

LEMMA OneCarried ==
  ASSUME NEW x, NEW n, SaysAs(x, n)
  PROVE  Carried(<<x>>, {n})
<1> DEFINE p == [y \in 1..1 |-> n]
           s == <<x>>
<1>1. x \in ReadRules
  BY DEF SaysAs
<1>2. s \in Seq(ReadRules) /\ Len(s) = 1 /\ s[1] = x /\ p \in [1..1 -> {n}] /\ p[1] = n
  BY <1>1
<1>3. \A y \in 1..1 : y = 1
  OBVIOUS
<1> HIDE DEF s, p
<1>4. Carries(s, p, {n})
  <2>1. \A y \in 1..Len(s) : SaysAs(s[y], p[y])
    BY <1>2, <1>3
  <2>2. \A z \in {n} : \E y \in 1..Len(s) : p[y] = z
    BY <1>2
  <2>3. \A y, z \in 1..Len(s) : ~(y < z)
    BY <1>2
  <2> QED BY <1>2, <2>1, <2>2, <2>3 DEF Carries
<1> QED BY <1>4 DEF Carried, s

LEMMA CarriedTogether ==
  ASSUME NEW u, NEW v, NEW S, NEW T, Carried(u, S), Carried(v, T), Before(S, T)
  PROVE  Carried(u \o v, S \union T)
<1>1. PICK p : Carries(u, p, S)
  BY DEF Carried
<1>2. PICK q : Carries(v, q, T)
  BY DEF Carried
<1> DEFINE w == u \o v
           a == Len(u)
           z == Len(v)
           r == [y \in 1..(a + z) |-> IF y <= a THEN p[y] ELSE q[y - a]]
<1>3. /\ u \in Seq(ReadRules) /\ v \in Seq(ReadRules) /\ a \in Nat /\ z \in Nat
      /\ w \in Seq(ReadRules) /\ Len(w) = a + z
      /\ \A y \in 1..(a + z) : w[y] = IF y <= a THEN u[y] ELSE v[y - a]
  <2>1. u \in Seq(ReadRules) /\ v \in Seq(ReadRules)
    BY <1>1, <1>2 DEF Carries
  <2> QED BY <2>1, LenProperties, ConcatProperties
<1> HIDE DEF w
<1>4. /\ p \in [1..a -> S] /\ \A y \in 1..a : SaysAs(u[y], p[y])
      /\ \A n \in S : \E y \in 1..a : p[y] = n
      /\ \A y, x \in 1..a : y < x => p[y] < p[x] \/ Apart(p[y], p[x])
  BY <1>1 DEF Carries
<1>5. /\ q \in [1..z -> T] /\ \A y \in 1..z : SaysAs(v[y], q[y])
      /\ \A n \in T : \E y \in 1..z : q[y] = n
      /\ \A y, x \in 1..z : y < x => q[y] < q[x] \/ Apart(q[y], q[x])
  BY <1>2 DEF Carries
<1> HIDE DEF a, z
<1>6. \A y \in 1..(a + z) : (y <= a => y \in 1..a) /\ (~(y <= a) => y - a \in 1..z)
  BY <1>3
<1>7. /\ \A y \in 1..(a + z) : y <= a => r[y] = p[y] /\ w[y] = u[y]
      /\ \A y \in 1..(a + z) : ~(y <= a) => r[y] = q[y - a] /\ w[y] = v[y - a]
      /\ r = [y \in 1..(a + z) |-> r[y]]
  BY <1>3
<1> HIDE DEF r
<1>8. \A y \in 1..(a + z) : r[y] \in S \union T /\ SaysAs(w[y], r[y])
  <2> SUFFICES ASSUME NEW y \in 1..(a + z) PROVE r[y] \in S \union T /\ SaysAs(w[y], r[y])
    OBVIOUS
  <2>1. CASE y <= a
    BY <1>4, <1>6, <1>7, <2>1
  <2>2. CASE ~(y <= a)
    BY <1>5, <1>6, <1>7, <2>2
  <2> QED BY <2>1, <2>2
<1>9. \A n \in S \union T : \E y \in 1..(a + z) : r[y] = n
  <2>1. ASSUME NEW n \in S PROVE \E y \in 1..(a + z) : r[y] = n
    <3>1. PICK y \in 1..a : p[y] = n
      BY <1>4
    <3>2. y \in 1..(a + z) /\ y <= a
      BY <1>3
    <3> QED BY <1>7, <3>1, <3>2
  <2>2. ASSUME NEW n \in T PROVE \E y \in 1..(a + z) : r[y] = n
    <3>1. PICK y \in 1..z : q[y] = n
      BY <1>5
    <3>2. a + y \in 1..(a + z) /\ ~(a + y <= a) /\ (a + y) - a = y
      BY <1>3
    <3> QED BY <1>7, <3>1, <3>2
  <2> QED BY <2>1, <2>2
<1>10. \A y, x \in 1..(a + z) : y < x => r[y] < r[x] \/ Apart(r[y], r[x])
  <2> SUFFICES ASSUME NEW y \in 1..(a + z), NEW x \in 1..(a + z), y < x
               PROVE  r[y] < r[x] \/ Apart(r[y], r[x])
    OBVIOUS
  <2>1. CASE x <= a
    <3>1. y <= a
      BY <1>3, <2>1
    <3> QED BY <1>4, <1>6, <1>7, <2>1, <3>1
  <2>2. CASE ~(x <= a) /\ y <= a
    <3>1. r[y] \in S /\ r[x] \in T
      BY <1>4, <1>5, <1>6, <1>7, <2>2
    <3> QED BY <3>1 DEF Before
  <2>3. CASE ~(x <= a) /\ ~(y <= a)
    <3>1. y - a < x - a
      BY <1>3
    <3>2. y - a \in 1..z /\ x - a \in 1..z
      BY <1>6, <2>3
    <3> QED BY <1>5, <1>7, <2>3, <3>1, <3>2
  <2> QED BY <2>1, <2>2, <2>3
<1>11. Carries(w, r, S \union T)
  <2>1. r \in [1..(a + z) -> S \union T]
    BY <1>7, <1>8
  <2> QED BY <1>3, <1>8, <1>9, <1>10, <2>1 DEF Carries
<1> QED BY <1>11 DEF Carried, w

\* One part of the rules after the other.
InParts(ss, Sf) ==
  /\ \A i \in 1..Len(ss) : Carried(ss[i], Sf[i])
  /\ \A i, h \in 1..Len(ss) : i < h => Before(Sf[i], Sf[h])

LEMMA CarriedInTurn ==
  ASSUME NEW ss \in Seq(Seq(ReadRules)), NEW Sf, InParts(ss, Sf)
  PROVE  Carried(FlattenSeq(ss), UNION {Sf[i] : i \in 1..Len(ss)})
<1> DEFINE n == Len(ss)
           upTo(i) == UNION {Sf[h] : h \in 1..i}
<1>1. PICK g : Appends(g, ReadRules, ss)
  BY FlattenAppends
<1>2. n \in Nat /\ g[0] = <<>> /\ g[n] = FlattenSeq(ss) /\ \A i \in 1..n : g[i] = g[i - 1] \o ss[i]
  BY <1>1, LenProperties DEF Appends
<1> DEFINE K == {i \in 0..n : Carried(g[i], upTo(i))}
<1> HIDE DEF n
<1>3. 0 \in K
  <2>1. upTo(0) = {}
    OBVIOUS
  <2>2. 0 \in 0..n
    BY <1>2
  <2> QED BY <1>2, <2>1, <2>2, NothingCarried
<1>4. ASSUME NEW i \in 0..(n - 1), i \in K PROVE i + 1 \in K
  <2>1. i + 1 \in 1..n /\ (i + 1) - 1 = i /\ i + 1 \in 0..n /\ i \in Nat
    BY <1>2
  <2>2. upTo(i + 1) = upTo(i) \union Sf[i + 1]
    <3>1. \A h : h \in 1..(i + 1) <=> h \in 1..i \/ h = i + 1
      BY <2>1
    <3> QED BY <3>1
  <2>3. Before(upTo(i), Sf[i + 1])
    <3> SUFFICES ASSUME NEW h \in 1..i, NEW u \in Sf[h], NEW z \in Sf[i + 1]
                 PROVE  u < z \/ Apart(u, z)
      BY DEF Before
    <3>1. h \in 1..n /\ h < i + 1
      <4>1. h \in Int /\ 1 <= h /\ h <= i /\ i + 1 <= n
        BY <1>2, <2>1
      <4> QED BY <1>2, <2>1, <4>1
    <3>2. Before(Sf[h], Sf[i + 1])
      BY <2>1, <3>1 DEF InParts, n
    <3> QED BY <3>2 DEF Before
  <2>4. Carried(g[i], upTo(i)) /\ Carried(ss[i + 1], Sf[i + 1])
    BY <1>4, <2>1 DEF InParts, n
  <2>5. g[i + 1] = g[i] \o ss[i + 1]
    BY <1>2, <2>1
  <2> HIDE DEF upTo
  <2>6. Carried(g[i] \o ss[i + 1], upTo(i) \union Sf[i + 1])
    BY <2>3, <2>4, CarriedTogether
  <2>7. Carried(g[i + 1], upTo(i + 1))
    BY <2>2, <2>5, <2>6
  <2> QED BY <2>1, <2>7
<1>5. n \in K
  <2> HIDE DEF K
  <2>1. 0..n \subseteq K
    BY <1>2, <1>3, <1>4, InductionUpTo
  <2>2. n \in 0..n
    BY <1>2
  <2> QED BY <2>1, <2>2
<1> QED BY <1>2, <1>5 DEF n

-----------------------------------------------------------------------------
(* A subtable written by its classes.                                      *)

\* What the classifier promises of the subtable s.
ClassSubtable(s) ==
  /\ s.first \in 1..Len(lookup) /\ s.last \in s.first..Len(lookup)
  /\ s.rules \in Seq(Seq(Nat)) /\ Len(s.rules) = s.last - s.first + 1
  /\ \A side \in Sides : s.class[side] \in [Glyphs -> 0..Cardinality(Glyphs)]
  /\ \A i \in 1..Len(s.rules) : ClassesOf(s.rules[i], s.first + i - 1, s.class)

AllFit(contextual) ==
  \A n \in 1..Len(lookup) :
    Fits(Len(lookup[n].match), lookup[n].inputBegins, lookup[n].inputEnds, contextual)

MergedRules(s) == [i \in 1..Len(s.rules) |-> Classified(s.first + i - 1, s.rules[i])]
StartClass(s, i) == s.rules[i][lookup[s.first + i - 1].inputBegins + 1]
StartsAt(s, c) == {i \in 1..Len(s.rules) : StartClass(s, i) = c}
RulesStarting(s, c) == {s.first + i - 1 : i \in StartsAt(s, c)}

LEMMA SubtableFacts ==
  ASSUME lookup \in Lookups, NEW s, ClassSubtable(s)
  PROVE  /\ Len(s.rules) \in Nat /\ IsWord(Len(s.rules)) /\ DOMAIN s.rules = 1..Len(s.rules)
         /\ \A i \in 1..Len(s.rules) : s.first + i - 1 \in 1..Len(lookup)
         /\ \A n \in s.first..s.last : n - s.first + 1 \in 1..Len(s.rules)
                                       /\ s.first + (n - s.first + 1) - 1 = n
         /\ \A i \in 1..Len(s.rules) : s.first + i - 1 \in s.first..s.last
<1>1. Len(lookup) \in Nat /\ IsWord(Len(lookup))
  <2>1. s.first \in 1..Len(lookup)
    BY DEF ClassSubtable
  <2> QED BY <2>1, RuleFacts
<1>2. /\ s.first \in 1..Len(lookup) /\ s.last \in s.first..Len(lookup)
      /\ s.rules \in Seq(Seq(Nat)) /\ Len(s.rules) = s.last - s.first + 1
  BY DEF ClassSubtable
<1> DEFINE N == Len(s.rules)
           f == s.first
           l == s.last
<1>3. N \in Nat /\ DOMAIN s.rules = 1..N /\ N = l - f + 1 /\ f \in 1..Len(lookup) /\ l \in f..Len(lookup)
  BY <1>2, LenProperties
<1> HIDE DEF N, f, l
<1>4. N <= Len(lookup)
  BY <1>1, <1>3
<1>5. IsWord(N)
  BY <1>1, <1>3, <1>4, SmallerIsWord
<1>6. \A i \in 1..N : f + i - 1 \in 1..Len(lookup) /\ f + i - 1 \in f..l
  BY <1>1, <1>3
<1>7. \A n \in f..l : n - f + 1 \in 1..N /\ f + (n - f + 1) - 1 = n
  BY <1>1, <1>3
<1> QED BY <1>3, <1>5, <1>6, <1>7 DEF N, f, l

\* The merged rules whose input starts with the class c.
StartingRules(s, c) == Those(MergedRules(s), LAMBDA r : r.match[r.inputBegins + 1] = c)

LEMMA SetRead ==
  ASSUME lookup \in Lookups, NEW s, ClassSubtable(s), NEW contextual \in BOOLEAN, AllFit(contextual),
         NEW cd, DefinesClasses(cd, s.class, contextual), NEW c,
         NEW st, st = StartingRules(s, c)
  PROVE  /\ Len(st) \in Nat /\ IsWord(Len(st)) /\ DOMAIN st = 1..Len(st)
         /\ Carried([y \in 1..Len(st) |->
                       ReadClassRule(RuleCells(st[y], contextual, 1, W), contextual, cd, c)],
                    RulesStarting(s, c))
<1> DEFINE N == Len(s.rules)
           R == MergedRules(s)
           Q == {i \in DOMAIN R : R[i].match[R[i].inputBegins + 1] = c}
           X == {R[i] : i \in 1..N}
           first == s.first
<1>1. /\ N \in Nat /\ IsWord(N) /\ \A i \in 1..N : first + i - 1 \in 1..Len(lookup)
      /\ first \in Nat
  <2>1. first \in Nat
    BY DEF ClassSubtable
  <2> QED BY <2>1, SubtableFacts
<1>2. R = [i \in 1..N |-> R[i]] /\ \A i \in 1..N : R[i] = Classified(first + i - 1, s.rules[i])
  BY DEF MergedRules
<1>3. R \in Seq(X) /\ DOMAIN R = 1..N
  <2>1. R \in [1..N -> X]
    BY <1>2
  <2> HIDE DEF R, X
  <2> QED BY <1>1, <2>1
<1>4. \A i \in 1..N : R[i].match[R[i].inputBegins + 1] = StartClass(s, i)
  <2> SUFFICES ASSUME NEW i \in 1..N PROVE R[i].match[R[i].inputBegins + 1] = StartClass(s, i)
    OBVIOUS
  <2> DEFINE n == first + i - 1
  <2>1. n \in 1..Len(lookup)
    BY <1>1
  <2> HIDE DEF n
  <2>2. Typed(RuleOf(n), n)
    BY <2>1, RuleFacts
  <2>3. R[i] = Classified(n, s.rules[i])
    BY <1>2 DEF n
  <2>4. Classified(n, s.rules[i]).match = s.rules[i]
        /\ Classified(n, s.rules[i]).inputBegins = RuleOf(n).inputBegins
    BY DEF Classified, RuleOf
  <2>5. RuleOf(n).inputBegins = lookup[n].inputBegins
    BY <2>2 DEF Typed
  <2> QED BY <2>3, <2>4, <2>5 DEF StartClass, n
<1>5. Q = StartsAt(s, c)
  BY <1>3, <1>4 DEF StartsAt
<1>6. st = AtPlaces(R, Q)
  BY DEF StartingRules, Those
<1> HIDE DEF R, Q, X
<1>7. Q \in SUBSET DOMAIN R
  BY <1>3, <1>5 DEF StartsAt
<1>8. AtPlaces(R, Q) \in Seq(X)
  BY <1>3, <1>7, AtPlacesPicks
<1>9. PICK f : Picks(f, Q) /\ Len(st) = Len(f) /\ \A y \in DOMAIN f : st[y] = R[f[y]]
  <2>1. PICK f : Picks(f, Q) /\ Len(AtPlaces(R, Q)) = Len(f)
                 /\ \A n \in DOMAIN f : AtPlaces(R, Q)[n] = R[f[n]]
    BY <1>3, <1>7, AtPlacesPicks
  <2> QED BY <1>6, <2>1
<1> DEFINE L == Len(st)
<1>10. L \in Nat /\ DOMAIN st = 1..L
  BY <1>6, <1>8, LenProperties
<1>11. IsWord(L)
  <2>1. IsFiniteSet(1..N) /\ Cardinality(1..N) = N /\ Q \subseteq 1..N
    BY <1>1, <1>3, <1>7, UpToIsFinite
  <2>2. Cardinality(Q) <= N
    BY <2>1, PartIsFinite
  <2>3. L = Cardinality(Q)
    BY <1>9 DEF Picks
  <2> QED BY <1>1, <1>10, <2>2, <2>3, SmallerIsWord
<1>12. /\ DOMAIN f = 1..L /\ \A y \in 1..L : f[y] \in Q /\ f[y] \in 1..N /\ st[y] = R[f[y]]
       /\ \A y, z \in 1..L : y < z => f[y] < f[z]
       /\ \A i \in Q : \E y \in 1..L : f[y] = i
  <2>1. DOMAIN f = 1..L
    BY <1>9 DEF Picks
  <2>2. \A y \in 1..L : f[y] \in Q
    BY <1>9, <2>1 DEF Picks
  <2>3. Q \subseteq 1..N
    BY <1>3, <1>7
  <2> QED BY <1>9, <2>1, <2>2, <2>3 DEF Picks
<1> HIDE DEF L
<1> DEFINE x(y) == ReadClassRule(RuleCells(st[y], contextual, 1, W), contextual, cd, c)
           rs == [y \in 1..L |-> x(y)]
           p == [y \in 1..L |-> first + f[y] - 1]
           S == RulesStarting(s, c)
<1>13. ASSUME NEW y \in 1..L PROVE SaysAs(x(y), first + f[y] - 1)
  <2> DEFINE i == f[y]
             n == first + i - 1
             cr == s.rules[i]
  <2>1. i \in Q /\ i \in 1..N /\ st[y] = R[i]
    BY <1>12
  <2>2. n \in 1..Len(lookup) /\ R[i] = Classified(n, cr)
    BY <1>1, <1>2, <2>1
  <2>3. ClassesOf(cr, n, s.class)
    BY <2>1 DEF ClassSubtable
  <2>4. c = cr[lookup[n].inputBegins + 1]
    BY <1>5, <2>1 DEF StartsAt, StartClass
  <2> HIDE DEF i, n, cr
  <2>5. Fits(Len(lookup[n].match), lookup[n].inputBegins, lookup[n].inputEnds, contextual)
    BY <2>2 DEF AllFit
  <2> DEFINE h == s.class
  <2>6. ClassesOf(cr, n, h) /\ DefinesClasses(cd, h, contextual)
    BY <2>3
  <2> HIDE DEF h
  <2>7. SaysAs(ReadClassRule(RuleCells(Classified(n, cr), contextual, 1, W), contextual, cd, c), n)
    BY <2>2, <2>4, <2>5, <2>6, ClassRuleRead
  <2> QED BY <2>1, <2>2, <2>7 DEF n, i
<1> HIDE DEF x
<1>14. rs = [y \in 1..L |-> rs[y]] /\ \A y \in 1..L : rs[y] = x(y)
  OBVIOUS
<1>15. p = [y \in 1..L |-> p[y]] /\ \A y \in 1..L : p[y] = first + f[y] - 1
  OBVIOUS
<1> HIDE DEF rs, p
<1>16. rs \in Seq(ReadRules) /\ Len(rs) = L
  <2>1. \A y \in 1..L : rs[y] \in ReadRules
    BY <1>13, <1>14 DEF SaysAs
  <2>2. rs \in [1..L -> ReadRules]
    BY <1>14, <2>1
  <2> QED BY <1>10, <2>2
<1>17. \A n : n \in S <=> \E i \in Q : n = first + i - 1
  BY <1>5 DEF RulesStarting
<1> HIDE DEF S
<1>18. p \in [1..L -> S] /\ \A n \in S : \E y \in 1..L : p[y] = n
  <2>1. \A y \in 1..L : p[y] \in S
    BY <1>12, <1>15, <1>17
  <2>2. ASSUME NEW n \in S PROVE \E y \in 1..L : p[y] = n
    <3>1. PICK i \in Q : n = first + i - 1
      BY <1>17
    <3>2. PICK y \in 1..L : f[y] = i
      BY <1>12
    <3> QED BY <1>15, <3>1, <3>2
  <2> QED BY <1>15, <2>1, <2>2
<1>19. \A y, z \in 1..L : y < z => p[y] < p[z]
  <2> SUFFICES ASSUME NEW y \in 1..L, NEW z \in 1..L, y < z PROVE p[y] < p[z]
    OBVIOUS
  <2>1. f[y] < f[z] /\ f[y] \in 1..N /\ f[z] \in 1..N
    BY <1>12
  <2>2. first + f[y] - 1 < first + f[z] - 1
    BY <1>1, <2>1
  <2> QED BY <1>15, <2>2
<1>20. Carries(rs, p, S)
  BY <1>13, <1>14, <1>15, <1>16, <1>18, <1>19 DEF Carries
<1> QED BY <1>10, <1>11, <1>20 DEF Carried, rs, x, L, S

\* A table of two cells, the cells defs, a cell that counts, and what it counts.
HeadedBy(b, e1, e2, defs, e, sets) ==
  /\ b[1] = e1 /\ b[2] = e2
  /\ \A i \in 1..Len(defs) : b[2 + i] = defs[i]
  /\ b[3 + Len(defs)] = e
  /\ \A i \in 1..Len(sets) : b[3 + Len(defs) + i] = sets[i]

LEMMA HeadedCells ==
  ASSUME NEW X, NEW e1 \in X, NEW e2 \in X, NEW e \in X, NEW defs \in Seq(X), NEW sets \in Seq(X)
  PROVE  HeadedBy(<<e1, e2>> \o defs \o <<e>> \o sets, e1, e2, defs, e, sets)
<1> DEFINE c == <<e1, e2>>
           z == <<e>>
           w1 == c \o defs
           w2 == w1 \o z
           w3 == w2 \o sets
           d == Len(defs)
<1>1. c \in Seq(X) /\ Len(c) = 2 /\ c[1] = e1 /\ c[2] = e2 /\ z \in Seq(X) /\ Len(z) = 1 /\ z[1] = e
      /\ d \in Nat
  BY LenProperties
<1> HIDE DEF c, z
<1>2. w1 \in Seq(X) /\ Len(w1) = 2 + d /\ StandsAt(w1, 2, defs) /\ StandsAt(w1, 0, c)
  <2>1. /\ w1 \in Seq(X) /\ Len(w1) = Len(c) + Len(defs)
        /\ StandsAt(w1, Len(c), defs) /\ StandsAt(w1, 0, c)
    BY <1>1, StandsAppended
  <2> QED BY <1>1, <2>1
<1> HIDE DEF w1
<1>3. /\ w2 \in Seq(X) /\ Len(w2) = Len(w1) + Len(z) /\ StandsAt(w2, Len(w1), z)
      /\ \A o \in Nat : \A s : StandsAt(w1, o, s) => StandsAt(w2, o, s)
  BY <1>1, <1>2, StandsOn
<1> HIDE DEF w2
<1>4. Len(w2) = 3 + d /\ StandsAt(w2, 2 + d, z)
  BY <1>1, <1>2, <1>3
<1>5. /\ w3 \in Seq(X) /\ StandsAt(w3, Len(w2), sets)
      /\ \A o \in Nat : \A s : StandsAt(w2, o, s) => StandsAt(w3, o, s)
  BY <1>3, StandsOn
<1> HIDE DEF w3
<1>6. StandsAt(w3, 0, c) /\ StandsAt(w3, 2, defs) /\ StandsAt(w3, 2 + d, z) /\ StandsAt(w3, 3 + d, sets)
  <2>1. 0 \in Nat /\ 2 \in Nat /\ 2 + d \in Nat
    BY <1>1
  <2> QED BY <1>2, <1>3, <1>4, <1>5, <2>1
<1>7. w3[1] = e1 /\ w3[2] = e2
  <2>1. 1 \in 1..Len(c) /\ 2 \in 1..Len(c) /\ 0 + 1 = 1 /\ 0 + 2 = 2
    BY <1>1
  <2>2. w3[0 + 1] = c[1] /\ w3[0 + 2] = c[2]
    BY <1>6, <2>1 DEF StandsAt
  <2> QED BY <1>1, <2>1, <2>2
<1>8. w3[3 + d] = e
  <2>1. 1 \in 1..Len(z) /\ (2 + d) + 1 = 3 + d
    BY <1>1
  <2>2. w3[(2 + d) + 1] = z[1]
    BY <1>6, <2>1 DEF StandsAt
  <2> QED BY <1>1, <2>1, <2>2
<1>9. \A i \in 1..d : w3[2 + i] = defs[i]
  BY <1>6 DEF StandsAt
<1>10. \A i \in 1..Len(sets) : w3[3 + d + i] = sets[i]
  BY <1>6 DEF StandsAt
<1>11. HeadedBy(w3, e1, e2, defs, e, sets)
  BY <1>7, <1>8, <1>9, <1>10 DEF HeadedBy
<1> QED BY <1>11 DEF w3, w2, w1, c, z

\* The table of a merged subtable, as the writer takes it.
MergedTable(s) ==
  [rules |-> MergedRules(s), bc |-> ToClass(s.class["b"]), ic |-> ToClass(s.class["i"]),
   fc |-> ToClass(s.class["f"])]

\* The block of the rules st, and what the reader makes of the cell that points to it.
SetBlock(st, contextual) ==
  <<W(Len(st))>> \o Mapped(st, LAMBDA r : P(RuleCells(r, contextual, 1, W)))
SetCell(st, contextual) == IF st = <<>> THEN PNull ELSE P(SetBlock(st, contextual))
ReadSet(b, i, contextual, cd, c) ==
  LET set == Follow(b, i)
  IN IF IsNull(b, i) THEN <<>>
     ELSE [n \in 1..WordAt(set, 1) |-> ReadClassRule(Follow(set, 1 + n), contextual, cd, c)]

LEMMA SetCellRead ==
  ASSUME NEW st, Len(st) \in Nat, IsWord(Len(st)), DOMAIN st = 1..Len(st), NEW contextual,
         NEW cd, NEW c, NEW b, NEW i, b[i] = SetCell(st, contextual)
  PROVE  ReadSet(b, i, contextual, cd, c) =
           [y \in 1..Len(st) |-> ReadClassRule(RuleCells(st[y], contextual, 1, W), contextual, cd, c)]
<1> DEFINE L == Len(st)
           cell(y) == RuleCells(st[y], contextual, 1, W)
           x(y) == ReadClassRule(cell(y), contextual, cd, c)
<1>1. CASE st = <<>>
  <2>1. IsNull(b, i)
    BY <1>1 DEF IsNull, SetCell, PNull, W
  <2>2. L = 0
    BY <1>1
  <2>3. [y \in 1..0 |-> x(y)] = <<>>
    OBVIOUS
  <2> QED BY <2>1, <2>2, <2>3 DEF ReadSet
<1>2. CASE st # <<>>
  <2> DEFINE set == SetBlock(st, contextual)
             pts == Mapped(st, LAMBDA r : P(RuleCells(r, contextual, 1, W)))
  <2>1. b[i].p = <<set>>
    BY <1>2 DEF SetCell, P
  <2>2. ~IsNull(b, i) /\ Follow(b, i) = set
    <3> HIDE DEF set
    <3> QED BY <2>1 DEF IsNull, Follow
  <2>3. pts = [y \in 1..L |-> P(cell(y))]
    BY DEF Mapped
  <2>4. set = <<W(L)>> \o pts
    BY DEF SetBlock
  <2> DEFINE X == {W(L)} \union {P(cell(y)) : y \in 1..L}
  <2> HIDE DEF cell, pts, set, L
  <2>5. pts \in Seq(X) /\ Len(pts) = L /\ \A y \in 1..L : pts[y] = P(cell(y))
    <3>1. L \in Nat
      BY DEF L
    <3>2. pts \in [1..L -> X]
      BY <2>3
    <3>3. \A y \in 1..L : pts[y] = P(cell(y))
      BY <2>3
    <3> HIDE DEF X
    <3> QED BY <3>1, <3>2, <3>3
  <2>6. W(L) \in X
    OBVIOUS
  <2> HIDE DEF X
  <2> DEFINE one == <<W(L)>>
  <2>7. one \in Seq(X) /\ Len(one) = 1 /\ one[1] = W(L)
    BY <2>6
  <2> HIDE DEF one
  <2>8. StandsAt(one \o pts, Len(one), pts) /\ StandsAt(one \o pts, 0, one)
    BY <2>5, <2>7, StandsAppended
  <2>9. set[1] = W(L) /\ \A y \in 1..L : set[1 + y] = P(cell(y))
    <3>1. StandsAt(set, 1, pts) /\ StandsAt(set, 0, one)
      BY <2>4, <2>7, <2>8 DEF one
    <3>2. 1 \in 1..Len(one) /\ 0 + 1 = 1
      BY <2>7
    <3>3. set[0 + 1] = one[1]
      BY <3>1, <3>2 DEF StandsAt
    <3>4. \A y \in 1..L : set[1 + y] = pts[y]
      BY <2>5, <3>1 DEF StandsAt
    <3> QED BY <2>5, <2>7, <3>2, <3>3, <3>4
  <2>10. WordAt(set, 1) = L
    <3>1. W(L).w = Word(L)
      BY DEF W, Word
    <3> QED BY <2>9, <3>1, WordKept DEF WordAt, L
  <2>11. \A y \in 1..L : Follow(set, 1 + y) = cell(y)
    <3>1. \A z : P(z).p[1] = z
      BY DEF P
    <3> QED BY <2>9, <3>1 DEF Follow
  <2>12. ReadSet(b, i, contextual, cd, c) =
           [y \in 1..L |-> ReadClassRule(Follow(set, 1 + y), contextual, cd, c)]
    BY <2>2, <2>10 DEF ReadSet
  <2>13. ReadSet(b, i, contextual, cd, c) = [y \in 1..L |-> x(y)]
    BY <2>11, <2>12
  <2> QED BY <2>13 DEF L, cell
<1> QED BY <1>1, <1>2

\* Rules of different classes are apart.
LEMMA ClassesApart ==
  ASSUME lookup \in Lookups, NEW s, ClassSubtable(s), NEW c, NEW d, c # d
  PROVE  Before(RulesStarting(s, c), RulesStarting(s, d))
<1> SUFFICES ASSUME NEW i \in StartsAt(s, c), NEW h \in StartsAt(s, d)
             PROVE  Apart(s.first + i - 1, s.first + h - 1)
  BY DEF Before, RulesStarting
<1>1. \A z \in 1..Len(s.rules) : \A g :
        g \in StartOf(s.first + z - 1) => s.class["i"][g] = StartClass(s, z)
  <2> SUFFICES ASSUME NEW z \in 1..Len(s.rules), NEW g, g \in StartOf(s.first + z - 1)
               PROVE  s.class["i"][g] = StartClass(s, z)
    OBVIOUS
  <2> DEFINE n == s.first + z - 1
             B == lookup[n].inputBegins
             cr == s.rules[z]
  <2>1. n \in 1..Len(lookup)
    BY SubtableFacts
  <2>2. ClassesOf(cr, n, s.class)
    BY DEF ClassSubtable
  <2> HIDE DEF n
  <2>3. Shape(Len(lookup[n].match), B, lookup[n].inputEnds, 0)
    BY <2>1, RuleFacts
  <2>4. B + 1 \in 1..Len(lookup[n].match) /\ Side(lookup[n], B + 1) = "i"
    BY <2>3 DEF Shape, Side
  <2>5. {y \in Glyphs : s.class["i"][y] = cr[B + 1]} = lookup[n].match[B + 1]
    <3>1. {y \in Glyphs : s.class[Side(lookup[n], B + 1)][y] = cr[B + 1]} = lookup[n].match[B + 1]
      <4>1. B + 1 \in 1..Len(cr)
        BY <2>2, <2>4 DEF ClassesOf
      <4> QED BY <2>2, <4>1 DEF ClassesOf
    <3> QED BY <2>4, <3>1
  <2>6. g \in lookup[n].match[B + 1]
    BY DEF StartOf, n
  <2> QED BY <2>5, <2>6 DEF StartClass, n
<1>2. i \in 1..Len(s.rules) /\ StartClass(s, i) = c /\ h \in 1..Len(s.rules) /\ StartClass(s, h) = d
  BY DEF StartsAt
<1> QED BY <1>1, <1>2 DEF Apart

\* The definitions read for the three sides.
SidesRead(b, contextual) ==
  LET def(i) == ReadClassDef(Follow(b, i))
  IN [b |-> def(3), i |-> def(IF contextual THEN 3 ELSE 4), f |-> def(IF contextual THEN 3 ELSE 5)]

\* The cells of the definitions of the table t.
DefCells(t, contextual) ==
  Mapped(IF contextual THEN <<t.ic>> ELSE <<t.bc, t.ic, t.fc>>, LAMBDA cd : P(BuildClassDef(cd)))

LEMMA SidesReadBack ==
  ASSUME NEW s, ClassSubtable(s), NEW contextual \in BOOLEAN, NEW b,
         \A i \in 1..Len(DefCells(MergedTable(s), contextual)) :
           b[2 + i] = DefCells(MergedTable(s), contextual)[i]
  PROVE  /\ Len(DefCells(MergedTable(s), contextual)) = IF contextual THEN 1 ELSE 3
         /\ DefinesClasses(SidesRead(b, contextual), s.class, contextual)
<1> DEFINE t == MergedTable(s)
           defs == DefCells(t, contextual)
           cd == SidesRead(b, contextual)
           back(side) == ReadClassDef(BuildClassDef(ToClass(s.class[side])))
<1>1. t.bc = ToClass(s.class["b"]) /\ t.ic = ToClass(s.class["i"]) /\ t.fc = ToClass(s.class["f"])
  BY DEF MergedTable
<1> HIDE DEF t
<1>2. \A x : P(x).p[1] = x
  BY DEF P
<1>3. contextual => Len(defs) = 1 /\ defs[1] = P(BuildClassDef(t.ic))
  BY DEF DefCells, Mapped
<1>4. ~contextual => /\ Len(defs) = 3 /\ defs[1] = P(BuildClassDef(t.bc))
                     /\ defs[2] = P(BuildClassDef(t.ic)) /\ defs[3] = P(BuildClassDef(t.fc))
  <2> DEFINE q == <<t.bc, t.ic, t.fc>>
  <2>1. DOMAIN q = 1..3 /\ q[1] = t.bc /\ q[2] = t.ic /\ q[3] = t.fc
    OBVIOUS
  <2> HIDE DEF q
  <2>2. ~contextual => defs = [i \in 1..3 |-> P(BuildClassDef(q[i]))]
    BY <2>1 DEF DefCells, Mapped, q
  <2> QED BY <2>1, <2>2
<1>5. \A i \in 1..Len(defs) : b[2 + i] = defs[i]
  BY DEF t
<1> HIDE DEF defs
<1>6. contextual => cd["i"] = back("i")
  <2> SUFFICES ASSUME contextual PROVE cd["i"] = back("i")
    OBVIOUS
  <2>1. b[2 + 1] = P(BuildClassDef(t.ic)) /\ 2 + 1 = 3
    BY <1>3, <1>5
  <2>2. Follow(b, 3) = BuildClassDef(t.ic)
    BY <1>2, <2>1 DEF Follow
  <2>3. cd["i"] = ReadClassDef(Follow(b, 3))
    BY DEF SidesRead
  <2> QED BY <1>1, <2>2, <2>3
<1>7. ~contextual => cd["b"] = back("b") /\ cd["i"] = back("i") /\ cd["f"] = back("f")
  <2> SUFFICES ASSUME ~contextual
               PROVE  cd["b"] = back("b") /\ cd["i"] = back("i") /\ cd["f"] = back("f")
    OBVIOUS
  <2>1. /\ b[2 + 1] = P(BuildClassDef(t.bc)) /\ 2 + 1 = 3
        /\ b[2 + 2] = P(BuildClassDef(t.ic)) /\ 2 + 2 = 4
        /\ b[2 + 3] = P(BuildClassDef(t.fc)) /\ 2 + 3 = 5
    <3> DEFINE d == Len(defs)
    <3>0. d = 3
      BY <1>4
    <3> HIDE DEF d
    <3>1. 1 \in 1..d /\ 2 \in 1..d /\ 3 \in 1..d
      BY <3>0
    <3>2. b[2 + 1] = defs[1] /\ b[2 + 2] = defs[2] /\ b[2 + 3] = defs[3]
      BY <1>5, <3>1 DEF d
    <3> QED BY <1>4, <3>2
  <2>2. /\ Follow(b, 3) = BuildClassDef(t.bc) /\ Follow(b, 4) = BuildClassDef(t.ic)
        /\ Follow(b, 5) = BuildClassDef(t.fc)
    BY <1>2, <2>1 DEF Follow
  <2>3. /\ cd["b"] = ReadClassDef(Follow(b, 3)) /\ cd["i"] = ReadClassDef(Follow(b, 4))
        /\ cd["f"] = ReadClassDef(Follow(b, 5))
    BY DEF SidesRead
  <2> QED BY <1>1, <2>2, <2>3
<1> HIDE DEF cd, back
<1>8. \A side \in Sides : IsHash(s.class[side])
  <2> SUFFICES ASSUME NEW side \in Sides PROVE IsHash(s.class[side])
    OBVIOUS
  <2> DEFINE h == s.class[side]
             C == Cardinality(Glyphs)
  <2>1. h \in [Glyphs -> 0..C]
    BY DEF ClassSubtable
  <2>2. C \in Nat /\ IsWord(C)
    <3>1. Glyphs \subseteq Gids /\ IsFiniteSet(Gids)
      BY GlyphsAreNumbers, GidsAreFinite
    <3>2. C \in Nat
      BY <3>1, PartIsFinite
    <3> QED BY <3>2, CountsFitWords DEF IsWord
  <2> HIDE DEF h, C
  <2>3. h \in [Glyphs -> Nat] /\ \A g \in Glyphs : h[g] \in Nat /\ h[g] <= C
    BY <2>1, <2>2
  <2>4. \A g \in Glyphs : IsWord(h[g])
    BY <2>2, <2>3, SmallerIsWord
  <2> QED BY <2>3, <2>4 DEF IsHash, h
<1>9. \A side \in Sides : (contextual => side = "i") => cd[side] = back(side)
  BY <1>6, <1>7 DEF Sides
<1>10. ASSUME NEW side \in Sides, contextual => side = "i", NEW c, c # 0
       PROVE  CoversClass(ClassCoverage(cd[side], c), s.class[side], c)
  <2>1. cd[side] = back(side)
    BY <1>9, <1>10
  <2> DEFINE h == s.class[side]
  <2>2. IsHash(h)
    BY <1>8
  <2>3. back(side) = ReadClassDef(BuildClassDef(ToClass(h)))
    BY DEF back
  <2> HIDE DEF h
  <2>4. CoversClass(ClassCoverage(ReadClassDef(BuildClassDef(ToClass(h))), c), h, c)
    BY <1>10, <2>2, SideReadBack
  <2> QED BY <2>1, <2>3, <2>4 DEF h
<1>11. DefinesClasses(cd, s.class, contextual)
  BY <1>10 DEF DefinesClasses
<1> QED BY <1>3, <1>4, <1>11 DEF defs, cd, t

LEMMA ClassesRead ==
  ASSUME lookup \in Lookups, NEW s, ClassSubtable(s), NEW contextual \in BOOLEAN, AllFit(contextual)
  PROVE  Carried(ReadChaining(BuildChainingClasses(MergedTable(s), contextual), contextual),
                 s.first..s.last)
<1> DEFINE t == MergedTable(s)
           b == BuildChainingClasses(t, contextual)
           coverage == P(BuildCoverage(Mapped(t.ic.entries, LAMBDA e : e.g)))
           mx == t.ic.maxclass
           starting(c) == Those(t.rules, LAMBDA r : r.match[r.inputBegins + 1] = c)
           sets == [n \in 1..(mx + 1) |-> SetCell(starting(n - 1), contextual)]
           defs == DefCells(t, contextual)
           h == s.class["i"]
<1>1. t.rules = MergedRules(s) /\ t.ic = ToClass(h)
  BY DEF MergedTable
<1>2. h \in [Glyphs -> 0..Cardinality(Glyphs)]
  BY DEF ClassSubtable, Sides
<1>3. IsHash(h) /\ Cardinality(Glyphs) \in Nat
  <2> DEFINE C == Cardinality(Glyphs)
  <2>1. C \in Nat /\ IsWord(C)
    <3>1. Glyphs \subseteq Gids /\ IsFiniteSet(Gids)
      BY GlyphsAreNumbers, GidsAreFinite
    <3>2. C \in Nat
      BY <3>1, PartIsFinite
    <3> QED BY <3>2, CountsFitWords DEF IsWord
  <2> HIDE DEF h, C
  <2>2. h \in [Glyphs -> Nat] /\ \A g \in Glyphs : h[g] \in Nat /\ h[g] <= C
    BY <1>2, <2>1 DEF C
  <2>3. \A g \in Glyphs : IsWord(h[g])
    BY <2>1, <2>2, SmallerIsWord
  <2> QED BY <2>1, <2>2, <2>3 DEF IsHash, C
<1>4. mx \in Nat /\ (\A g \in Glyphs : h[g] <= mx) /\ IsWord(mx + 1)
  <2> DEFINE cd == ToClass(h)
  <2> HIDE DEF h
  <2>1. /\ cd.maxclass \in Nat /\ \A g \in Glyphs : h[g] <= cd.maxclass
        /\ \A n \in Nat : (\A g \in Glyphs : h[g] <= n) => cd.maxclass <= n
    BY <1>3, ToClassHolds
  <2>2. \A g \in Glyphs : h[g] <= Cardinality(Glyphs)
    BY <1>2, <1>3
  <2>3. cd.maxclass <= Cardinality(Glyphs)
    BY <1>3, <2>1, <2>2
  <2>4. cd.maxclass + 1 \in Nat /\ cd.maxclass + 1 < 65536
    BY <1>3, <2>1, <2>3, CountsFitWords
  <2> HIDE DEF t
  <2> QED BY <1>1, <2>1, <2>4 DEF IsWord
<1> HIDE DEF t, h
<1>5. b = <<W(2), coverage>> \o defs \o <<W(mx + 1)>> \o sets
  BY DEF BuildChainingClasses, SetCell, SetBlock, DefCells
<1> HIDE DEF b, coverage, mx, starting
<1>6. defs \in Seq({defs[i] : i \in DOMAIN defs})
  <2>1. defs = [i \in DOMAIN defs |-> defs[i]]
    BY DEF DefCells, Mapped
  <2>2. \E L \in Nat : DOMAIN defs = 1..L
    <3>1. contextual => DOMAIN defs = 1..1
      BY DEF DefCells, Mapped
    <3>2. ~contextual => DOMAIN defs = 1..3
      BY DEF DefCells, Mapped
    <3> QED BY <3>1, <3>2
  <2> HIDE DEF defs
  <2> QED BY <2>1, <2>2
<1> DEFINE X == {W(2), coverage, W(mx + 1)} \union {defs[i] : i \in DOMAIN defs}
                  \union {sets[n] : n \in 1..(mx + 1)}
<1>7. /\ W(2) \in X /\ coverage \in X /\ W(mx + 1) \in X /\ defs \in Seq(X)
      /\ sets \in Seq(X) /\ Len(sets) = mx + 1
  <2>1. W(2) \in X /\ coverage \in X /\ W(mx + 1) \in X /\ {defs[i] : i \in DOMAIN defs} \subseteq X
    OBVIOUS
  <2>2. sets \in [1..(mx + 1) -> X]
    <3>1. \A n \in 1..(mx + 1) : sets[n] \in X
      <4> HIDE DEF sets
      <4> QED OBVIOUS
    <3>2. sets = [n \in 1..(mx + 1) |-> sets[n]]
      OBVIOUS
    <3> HIDE DEF sets, X
    <3> QED BY <3>1, <3>2
  <2> HIDE DEF X, sets, defs
  <2>3. defs \in Seq(X)
    BY <1>6, <2>1, SeqMonotonic
  <2>4. mx + 1 \in Nat
    BY <1>4
  <2> QED BY <2>1, <2>2, <2>3, <2>4
<1>8. \A n \in 1..(mx + 1) : sets[n] = SetCell(starting(n - 1), contextual)
  OBVIOUS
<1> HIDE DEF X, sets
<1>9. HeadedBy(b, W(2), coverage, defs, W(mx + 1), sets)
  <2> HIDE DEF defs
  <2> QED BY <1>5, <1>7, HeadedCells
<1> DEFINE cd == SidesRead(b, contextual)
           d == Len(defs)
<1>10. d = (IF contextual THEN 1 ELSE 3) /\ DefinesClasses(cd, s.class, contextual)
  <2>1. \A i \in 1..Len(defs) : b[2 + i] = defs[i]
    BY <1>9 DEF HeadedBy
  <2> QED BY <2>1, SidesReadBack DEF t
<1> HIDE DEF defs, cd
<1> DEFINE atCount == IF contextual THEN 4 ELSE 6
           ss == [n \in 1..(mx + 1) |-> ReadSet(b, atCount + 1 + (n - 1), contextual, cd, n - 1)]
           Sf == [n \in 1..(mx + 1) |-> RulesStarting(s, n - 1)]
<1>11. /\ b[1] = W(2) /\ b[3 + d] = W(mx + 1)
       /\ \A i \in 1..(mx + 1) : b[3 + d + i] = sets[i]
  <2>1. Len(sets) = mx + 1
    BY <1>7
  <2> QED BY <1>9, <2>1 DEF HeadedBy
<1> HIDE DEF d
<1>12. atCount = 3 + d
  BY <1>10
<1>13. WordAt(b, 1) = 2 /\ WordAt(b, atCount) = mx + 1
  <2>1. \A x : W(x).w = Word(x)
    BY DEF W, Word
  <2>2. IsWord(2)
    BY SmallIsWord
  <2> QED BY <1>4, <1>11, <1>12, <2>1, <2>2, WordKept DEF WordAt
<1>14. ReadChaining(b, contextual) = FlattenSeq(ss)
  <2>1. ReadChaining(b, contextual) = ReadClassRules(b, contextual)
    BY <1>13 DEF ReadChaining
  <2>2. ReadClassRules(b, contextual) =
          FlattenSeq([n \in 1..WordAt(b, atCount) |->
                        ReadSet(b, atCount + 1 + (n - 1), contextual, cd, n - 1)])
    BY DEF ReadClassRules, ReadSet, cd, SidesRead
  <2> QED BY <1>13, <2>1, <2>2
<1>15. ASSUME NEW n \in 1..(mx + 1) PROVE Carried(ss[n], Sf[n])
  <2> DEFINE c == n - 1
             st == starting(c)
             i == atCount + 1 + c
  <2>1. i = 3 + d + n
    BY <1>10, <1>12
  <2>2. b[i] = SetCell(st, contextual)
    BY <1>8, <1>11, <2>1
  <2>3. ss[n] = ReadSet(b, i, contextual, cd, c) /\ Sf[n] = RulesStarting(s, c)
    OBVIOUS
  <2>4. st = StartingRules(s, c)
    BY <1>1 DEF starting, StartingRules
  <2> HIDE DEF ss, Sf, i, st, c, atCount
  <2>5. /\ Len(st) \in Nat /\ IsWord(Len(st)) /\ DOMAIN st = 1..Len(st)
        /\ Carried([y \in 1..Len(st) |->
                      ReadClassRule(RuleCells(st[y], contextual, 1, W), contextual, cd, c)],
                   RulesStarting(s, c))
    BY <1>10, <2>4, SetRead
  <2>6. ReadSet(b, i, contextual, cd, c) =
          [y \in 1..Len(st) |-> ReadClassRule(RuleCells(st[y], contextual, 1, W), contextual, cd, c)]
    BY <2>2, <2>5, SetCellRead
  <2> QED BY <2>3, <2>5, <2>6
<1>16. ss = [n \in 1..(mx + 1) |-> ss[n]] /\ \A n \in 1..(mx + 1) : Sf[n] = RulesStarting(s, n - 1)
  OBVIOUS
<1> HIDE DEF ss, Sf, atCount
<1>17. ss \in Seq(Seq(ReadRules)) /\ Len(ss) = mx + 1
  <2>1. \A n \in 1..(mx + 1) : ss[n] \in Seq(ReadRules)
    BY <1>15 DEF Carried, Carries
  <2>2. ss \in [1..(mx + 1) -> Seq(ReadRules)]
    BY <1>16, <2>1
  <2>3. mx + 1 \in Nat
    BY <1>4
  <2> QED BY <2>2, <2>3
<1>18. InParts(ss, Sf)
  <2>1. ASSUME NEW u \in 1..(mx + 1), NEW v \in 1..(mx + 1), u < v PROVE Before(Sf[u], Sf[v])
    <3> DEFINE x == u - 1
               y == v - 1
    <3>1. x # y
      BY <1>4, <2>1
    <3>2. Sf[u] = RulesStarting(s, x) /\ Sf[v] = RulesStarting(s, y)
      BY <1>16
    <3> HIDE DEF x, y
    <3> QED BY <3>1, <3>2, ClassesApart
  <2> QED BY <1>15, <1>17, <2>1 DEF InParts
<1>19. UNION {Sf[n] : n \in 1..(mx + 1)} = s.first..s.last
  <2>1. ASSUME NEW n \in 1..(mx + 1), NEW z \in Sf[n] PROVE z \in s.first..s.last
    <3>1. PICK i \in 1..Len(s.rules) : z = s.first + i - 1
      BY <1>16, <2>1 DEF RulesStarting, StartsAt
    <3> QED BY <3>1, SubtableFacts
  <2>2. ASSUME NEW z \in s.first..s.last PROVE \E n \in 1..(mx + 1) : z \in Sf[n]
    <3> DEFINE i == z - s.first + 1
               c == StartClass(s, i)
    <3>1. i \in 1..Len(s.rules) /\ s.first + i - 1 = z /\ z \in 1..Len(lookup)
      <4>1. i \in 1..Len(s.rules) /\ s.first + i - 1 = z
        BY SubtableFacts
      <4>2. s.first + i - 1 \in 1..Len(lookup)
        BY <4>1, SubtableFacts
      <4> QED BY <4>1, <4>2
    <3> HIDE DEF i
    <3>2. c \in 0..mx
      <4> DEFINE B == lookup[z].inputBegins
                 cr == s.rules[i]
      <4>1. ClassesOf(cr, z, s.class)
        BY <3>1 DEF ClassSubtable
      <4>2. Shape(Len(lookup[z].match), B, lookup[z].inputEnds, 0)
        BY <3>1, RuleFacts
      <4>3. B + 1 \in 1..Len(lookup[z].match) /\ Side(lookup[z], B + 1) = "i"
        BY <4>2 DEF Shape, Side
      <4>4. {g \in Glyphs : s.class[Side(lookup[z], B + 1)][g] = cr[B + 1]} = lookup[z].match[B + 1]
        <5>1. B + 1 \in 1..Len(cr)
          BY <4>1, <4>3 DEF ClassesOf
        <5> QED BY <4>1, <5>1 DEF ClassesOf
      <4>5. lookup[z].match[B + 1] # {}
        BY <3>1, <4>3, RuleFacts
      <4>6. PICK g \in Glyphs : h[g] = cr[B + 1]
        BY <4>3, <4>4, <4>5 DEF h
      <4>7. h[g] \in Nat /\ h[g] <= mx
        BY <1>3, <1>4 DEF IsHash
      <4>8. c = h[g]
        BY <3>1, <4>6 DEF StartClass
      <4> HIDE DEF c
      <4> QED BY <1>4, <4>7, <4>8
    <3>3. c + 1 \in 1..(mx + 1) /\ (c + 1) - 1 = c
      <4> HIDE DEF c
      <4> QED BY <1>4, <3>2
    <3>4. z \in RulesStarting(s, c)
      BY <3>1 DEF RulesStarting, StartsAt
    <3> HIDE DEF c
    <3>5. Sf[c + 1] = RulesStarting(s, c)
      BY <1>16, <3>3
    <3> QED BY <3>3, <3>4, <3>5
  <2> QED BY <2>1, <2>2
<1>20. Carried(FlattenSeq(ss), UNION {Sf[n] : n \in 1..Len(ss)})
  BY <1>17, <1>18, CarriedInTurn
<1> QED BY <1>14, <1>17, <1>19, <1>20 DEF b, t

-----------------------------------------------------------------------------
(* What a sequence of rules does to a text.                                *)

\* Rule n of the lookup matches the text t.
Hits(n, t) ==
  \A q \in 1..Len(lookup[n].match) : t[q - 1 - lookup[n].inputBegins] \in lookup[n].match[q]

\* What the lookup does to the text t.
Told(t) ==
  LET hits == {n \in 1..Len(lookup) : Hits(n, t)}
      a == RuleOf(Least(hits)).apply
  IN IF hits = {} THEN <<>>
     ELSE [i \in DOMAIN a |-> <<a[i].at - lookup[Least(hits)].inputBegins, a[i].lookup>>]

LEMMA LeastIsLeast ==
  ASSUME NEW S \in SUBSET Nat, S # {}
  PROVE  Least(S) \in S /\ \A y \in S : Least(S) <= y
<1>1. \E x \in S : \A y \in S : x <= y
  BY LeastNatural
<1> QED BY <1>1 DEF Least

\* A rule that says what rule n says matches the texts rule n matches.
LEMMA SayersMatch ==
  ASSUME lookup \in Lookups, NEW n \in 1..Len(lookup), NEW x, SaysAs(x, n), NEW t
  PROVE  (\A q \in DOMAIN x.match : t[q - 1 - x.inputBegins] \in ToSet(x.match[q])) <=> Hits(n, t)
<1> DEFINE len == Len(lookup[n].match)
<1>1. x.inputBegins = lookup[n].inputBegins /\ x.match \in Seq(Seq(Nat)) /\ Len(x.match) = len
  BY DEF SaysAs
<1>2. DOMAIN x.match = 1..len
  BY <1>1, LenProperties
<1>3. \A q \in 1..len : ToSet(x.match[q]) = lookup[n].match[q]
  BY DEF SaysAs
<1> QED BY <1>1, <1>2, <1>3 DEF Hits

\* Two rules that are apart do not match the same text.
LEMMA ApartMiss ==
  ASSUME lookup \in Lookups, NEW u \in 1..Len(lookup), NEW n \in 1..Len(lookup), Apart(u, n),
         NEW t, Hits(u, t), Hits(n, t)
  PROVE  FALSE
<1>1. ASSUME NEW z \in 1..Len(lookup), Hits(z, t) PROVE t[0] \in StartOf(z)
  <2> DEFINE B == lookup[z].inputBegins
  <2>1. Shape(Len(lookup[z].match), B, lookup[z].inputEnds, 0)
    BY RuleFacts
  <2>2. B + 1 \in 1..Len(lookup[z].match) /\ (B + 1) - 1 - B = 0
    BY <2>1 DEF Shape
  <2>3. t[(B + 1) - 1 - B] \in lookup[z].match[B + 1]
    BY <1>1, <2>2 DEF Hits
  <2> QED BY <2>2, <2>3 DEF StartOf
<1> QED BY <1>1 DEF Apart

\* Rules that carry the whole lookup do what the lookup does.
LEMMA CarriersTell ==
  ASSUME lookup \in Lookups, NEW rs, Carried(rs, 1..Len(lookup)), NEW t
  PROVE  EffectOf(rs, t) = Told(t)
<1> DEFINE N == Len(lookup)
           L == Len(rs)
           matches(r) == \A q \in DOMAIN r.match : t[q - 1 - r.inputBegins] \in ToSet(r.match[q])
           H1 == {y \in DOMAIN rs : matches(rs[y])}
           H2 == {n \in 1..N : Hits(n, t)}
           y0 == Least(H1)
           n0 == Least(H2)
           r0 == rs[y0]
           a == RuleOf(n0).apply
<1>1. PICK p : Carries(rs, p, 1..N)
  BY DEF Carried
<1>2. /\ rs \in Seq(ReadRules) /\ L \in Nat /\ DOMAIN rs = 1..L
      /\ p \in [1..L -> 1..N]
      /\ \A y \in 1..L : SaysAs(rs[y], p[y])
      /\ \A n \in 1..N : \E y \in 1..L : p[y] = n
      /\ \A y, z \in 1..L : y < z => p[y] < p[z] \/ Apart(p[y], p[z])
  <2>1. rs \in Seq(ReadRules)
    BY <1>1 DEF Carries
  <2>2. L \in Nat /\ DOMAIN rs = 1..L
    BY <2>1, LenProperties
  <2> QED BY <1>1, <2>1, <2>2 DEF Carries
<1>3. \A y \in 1..L : matches(rs[y]) <=> Hits(p[y], t)
  <2> SUFFICES ASSUME NEW y \in 1..L PROVE matches(rs[y]) <=> Hits(p[y], t)
    OBVIOUS
  <2>1. p[y] \in 1..N /\ SaysAs(rs[y], p[y])
    BY <1>2
  <2> QED BY <2>1, SayersMatch
<1>4. EffectOf(rs, t) = IF H1 = {} THEN <<>>
                        ELSE Mapped(r0.apply, LAMBDA x : <<x.at - r0.inputBegins, x.lookup>>)
  BY DEF EffectOf
<1>5. Told(t) = IF H2 = {} THEN <<>>
                ELSE [i \in DOMAIN a |-> <<a[i].at - lookup[n0].inputBegins, a[i].lookup>>]
  BY DEF Told
<1>6. /\ \A y \in 1..L : y \in H1 <=> Hits(p[y], t)
      /\ \A y \in H1 : y \in 1..L
      /\ \A n : n \in H2 <=> n \in 1..N /\ Hits(n, t)
      /\ N \in Nat
  <2>1. N \in Nat
    BY LookupFacts
  <2> HIDE DEF matches, L
  <2> QED BY <1>2, <1>3, <2>1
<1> HIDE DEF matches, H1, H2, L, N, a
<1>7. H1 = {} <=> H2 = {}
  BY <1>2, <1>6
<1>8. CASE H2 = {}
  BY <1>4, <1>5, <1>7, <1>8
<1>9. CASE H2 # {}
  <2>1. H1 \in SUBSET Nat /\ H1 # {} /\ H2 \in SUBSET Nat /\ H2 # {}
    BY <1>2, <1>6, <1>7, <1>9
  <2>2. y0 \in H1 /\ \A y \in H1 : y0 <= y
    BY <2>1, LeastIsLeast
  <2>3. n0 \in H2 /\ \A n \in H2 : n0 <= n
    BY <2>1, LeastIsLeast
  <2>4. y0 \in 1..L /\ p[y0] \in 1..N /\ Hits(p[y0], t) /\ p[y0] \in H2
    BY <1>2, <1>6, <2>2
  <2>5. n0 \in 1..N /\ Hits(n0, t)
    BY <1>6, <2>3
  <2> HIDE DEF y0, n0
  <2>6. PICK y1 \in 1..L : p[y1] = n0
    BY <1>2, <2>5
  <2>7. y1 \in H1 /\ y0 <= y1
    BY <1>6, <2>2, <2>5, <2>6
  <2>8. p[y0] = n0
    <3>1. CASE y0 = y1
      BY <2>6, <3>1
    <3>2. CASE y0 # y1
      <4>1. y0 < y1
        BY <1>2, <2>4, <2>6, <2>7, <3>2
      <4>2. p[y0] < n0 \/ Apart(p[y0], n0)
        BY <1>2, <2>4, <2>6, <4>1
      <4>3. ~Apart(p[y0], n0)
        BY <2>4, <2>5, ApartMiss DEF N
      <4>4. n0 <= p[y0]
        BY <2>3, <2>4
      <4> QED BY <1>6, <2>4, <2>5, <4>2, <4>3, <4>4
    <3> QED BY <3>1, <3>2
  <2>9. SaysAs(r0, n0)
    BY <1>2, <2>4, <2>8
  <2>10. r0.apply = a /\ r0.inputBegins = lookup[n0].inputBegins
    BY <2>9 DEF SaysAs, a
  <2>11. EffectOf(rs, t) = Mapped(r0.apply, LAMBDA x : <<x.at - r0.inputBegins, x.lookup>>)
    BY <1>4, <2>1
  <2>12. EffectOf(rs, t) = [i \in DOMAIN r0.apply |->
                              <<r0.apply[i].at - r0.inputBegins, r0.apply[i].lookup>>]
    BY <2>11 DEF Mapped
  <2> HIDE DEF r0
  <2> QED BY <1>5, <1>9, <2>10, <2>12
<1> QED BY <1>8, <1>9

\* So do the rules of the lookup themselves.
LEMMA SourceCarried ==
  ASSUME lookup \in Lookups
  PROVE  Carried([n \in DOMAIN lookup |-> RuleOf(n)], 1..Len(lookup))
<1> DEFINE N == Len(lookup)
           f == [n \in DOMAIN lookup |-> RuleOf(n)]
           p == [n \in 1..N |-> n]
<1>1. N \in Nat /\ DOMAIN lookup = 1..N
  BY LookupFacts
<1>2. \A n \in 1..N : f[n] = RuleOf(n) /\ SaysAs(f[n], n)
  BY <1>1, RuleSays
<1>3. f = [n \in 1..N |-> f[n]]
  BY <1>1
<1> HIDE DEF f
<1>4. f \in Seq(ReadRules) /\ Len(f) = N
  <2>1. \A n \in 1..N : f[n] \in ReadRules
    BY <1>2 DEF SaysAs
  <2>2. f \in [1..N -> ReadRules]
    BY <1>3, <2>1
  <2> QED BY <1>1, <2>2
<1>5. p \in [1..N -> 1..N] /\ \A n \in 1..N : p[n] = n
  OBVIOUS
<1> HIDE DEF N, p
<1>6. Carries(f, p, 1..N)
  BY <1>2, <1>4, <1>5 DEF Carries
<1> QED BY <1>6 DEF Carried, f, N

LEMMA CarriersHaveEffect ==
  ASSUME lookup \in Lookups, NEW rs, Carried(rs, 1..Len(lookup))
  PROVE  \A t : EffectOf(rs, t) = EffectOf([n \in DOMAIN lookup |-> RuleOf(n)], t)
<1> DEFINE source == [n \in DOMAIN lookup |-> RuleOf(n)]
<1>1. Carried(source, 1..Len(lookup))
  BY SourceCarried
<1> HIDE DEF source
<1>2. \A t : EffectOf(rs, t) = Told(t) /\ EffectOf(source, t) = Told(t)
  BY <1>1, CarriersTell
<1> QED BY <1>2 DEF source

-----------------------------------------------------------------------------
(* The subtables of the file, one after the other.                         *)

LEMMA ContextualFits ==
  ASSUME lookup \in Lookups
  PROVE  Contextual \in BOOLEAN /\ AllFit(Contextual)
<1> DEFINE source == [n \in DOMAIN lookup |-> RuleOf(n)]
<1>1. Contextual \in BOOLEAN
  BY DEF Contextual, IsContextual
<1>2. ASSUME Contextual, NEW n \in 1..Len(lookup)
      PROVE  lookup[n].inputBegins = 0 /\ lookup[n].inputEnds = Len(lookup[n].match)
  <2>1. DOMAIN lookup = 1..Len(lookup) /\ Typed(RuleOf(n), n)
    BY LookupFacts, RuleFacts
  <2>2. RuleOf(n) \in ToSet(source)
    BY <2>1 DEF ToSet
  <2>3. ~HasContext(RuleOf(n))
    BY <1>2, <2>2 DEF Contextual, IsContextual
  <2> QED BY <2>1, <2>3 DEF HasContext, Typed
<1>3. AllFit(Contextual)
  BY <1>2 DEF AllFit, Fits
<1> QED BY <1>1, <1>3

\* What the classifier hands to the writer.
Whole(s) ==
  \/ /\ s.format = "coverages" /\ s.first \in 1..Len(lookup) /\ s.last = s.first
  \/ /\ s.format = "classes" /\ ClassSubtable(s)

LEMMA SubtableRead ==
  ASSUME lookup \in Lookups, NEW s, Whole(s)
  PROVE  Carried(ReadChaining(SubtableOf(s), Contextual), s.first..s.last)
<1>1. Contextual \in BOOLEAN /\ AllFit(Contextual)
  BY ContextualFits
<1>2. CASE s.format = "coverages"
  <2> DEFINE n == s.first
             c == Contextual
  <2>1. n \in 1..Len(lookup) /\ s.last = n
    BY <1>2 DEF Whole
  <2>2. SubtableOf(s) = BuildChainingCoverage(RuleOf(n), c)
    BY <1>2 DEF SubtableOf
  <2>3. c \in BOOLEAN /\ Fits(Len(lookup[n].match), lookup[n].inputBegins, lookup[n].inputEnds, c)
    BY <1>1, <2>1 DEF AllFit
  <2> HIDE DEF n, c
  <2>4. PICK x : /\ ReadChaining(BuildChainingCoverage(RuleOf(n), c), c) = <<x>>
                 /\ SaysAs(x, n)
    BY <2>1, <2>3, CoverageRuleRead
  <2>5. Carried(<<x>>, {n})
    BY <2>4, OneCarried
  <2>6. n..n = {n}
    <3>1. n \in Int
      BY <2>1, LookupFacts
    <3> QED BY <3>1
  <2> QED BY <2>1, <2>2, <2>4, <2>5, <2>6 DEF n, c
<1>3. CASE s.format = "classes"
  <2> DEFINE c == Contextual
  <2>1. ClassSubtable(s)
    BY <1>3 DEF Whole
  <2>2. SubtableOf(s) = BuildChainingClasses(MergedTable(s), c)
    <3>1. DOMAIN s.rules = 1..Len(s.rules)
      BY <2>1, SubtableFacts
    <3> QED BY <1>3, <3>1 DEF SubtableOf, MergedTable, MergedRules, Classified
  <2>3. c \in BOOLEAN /\ AllFit(c)
    BY <1>1
  <2> HIDE DEF c
  <2>4. Carried(ReadChaining(BuildChainingClasses(MergedTable(s), c), c), s.first..s.last)
    BY <2>1, <2>3, ClassesRead
  <2> QED BY <2>2, <2>4 DEF c
<1> QED BY <1>2, <1>3 DEF Whole

FileRules == Flattened(file, LAMBDA b : ReadChaining(b, Contextual))

\* The subtables take the rules in turn: those of the first i subtables are the first rules.
LEMMA WrittenInTurn ==
  ASSUME IInv, pc = "done"
  PROVE  LET end(i) == IF i = 0 THEN 0 ELSE written[i].last
         IN /\ Len(written) \in Nat /\ DOMAIN written = 1..Len(written)
            /\ \A i \in 0..Len(written) : end(i) \in Nat
            /\ end(Len(written)) = Len(lookup)
            /\ \A i \in 1..Len(written) :
                 /\ written[i].first = end(i - 1) + 1 /\ written[i].first <= end(i)
                 /\ written[i].last = end(i)
<1> DEFINE n == Len(written)
           end(i) == IF i = 0 THEN 0 ELSE written[i].last
<1>1. written \in Seq(Subtables) /\ n \in Nat /\ DOMAIN written = 1..n
  BY LenProperties DEF IInv, TypeOK
<1>2. \A i \in 1..n : written[i].last \in Nat
  <2>1. \A i \in 1..n : written[i] \in Subtables
    BY <1>1, ElementOfSeq
  <2>2. \A x \in Subtables : x.last \in Nat
    BY DEF Subtables
  <2> QED BY <2>1, <2>2
<1>3. \A i \in 0..n : end(i) \in Nat
  <2> SUFFICES ASSUME NEW i \in 0..n PROVE end(i) \in Nat
    OBVIOUS
  <2>1. i = 0 \/ i \in 1..n
    BY <1>1
  <2> QED BY <1>2, <2>1
<1>4. \A i \in 1..n : /\ written[i].first = end(i - 1) + 1 /\ written[i].first <= end(i)
                      /\ written[i].last = end(i)
  <2> SUFFICES ASSUME NEW i \in 1..n
               PROVE  /\ written[i].first = end(i - 1) + 1 /\ written[i].first <= end(i)
                      /\ written[i].last = end(i)
    OBVIOUS
  <2>1. /\ written[i].first = (IF i = 1 THEN 1 ELSE written[i - 1].last + 1)
        /\ written[i].first <= written[i].last
    BY <1>1 DEF IInv, RulesInOrder
  <2>2. i # 0 /\ (i = 1 <=> i - 1 = 0)
    BY <1>1
  <2> QED BY <2>1, <2>2
<1>5. end(n) = Len(lookup)
  <2>1. j = Len(lookup) + 1 /\ j = (IF written = <<>> THEN 1 ELSE written[n].last + 1)
    BY DEF IInv, RulesInOrder
  <2>2. written = <<>> <=> n = 0
    BY <1>1
  <2>3. end(n) \in Nat /\ Len(lookup) \in Nat
    BY <1>1, <1>3, LookupFacts DEF IInv, TypeOK
  <2>4. j = end(n) + 1
    BY <2>1, <2>2
  <2> HIDE DEF end, n
  <2> QED BY <2>1, <2>3, <2>4
<1> QED BY <1>1, <1>3, <1>4, <1>5

LEMMA FileRead ==
  ASSUME IInv, pc = "done", \A i \in DOMAIN written : Whole(written[i]),
         file = [i \in DOMAIN written |-> SubtableOf(written[i])]
  PROVE  Carried(FileRules, 1..Len(lookup))
<1> DEFINE n == Len(written)
           N == Len(lookup)
           c == Contextual
           end(i) == IF i = 0 THEN 0 ELSE written[i].last
           ss == [i \in 1..n |-> ReadChaining(SubtableOf(written[i]), c)]
           Sf == [i \in 1..n |-> written[i].first..written[i].last]
           upTo(i) == UNION {Sf[h] : h \in 1..i}
<1>1. /\ n \in Nat /\ DOMAIN written = 1..n /\ end(n) = N
      /\ \A i \in 0..n : end(i) \in Nat
      /\ \A i \in 1..n : /\ written[i].first = end(i - 1) + 1 /\ written[i].first <= end(i)
                         /\ written[i].last = end(i)
  BY WrittenInTurn
<1>2. FileRules = FlattenSeq(ss)
  <2>1. DOMAIN file = 1..n /\ \A i \in 1..n : file[i] = SubtableOf(written[i])
    BY <1>1
  <2>2. FileRules = FlattenSeq([i \in DOMAIN file |-> ReadChaining(file[i], c)])
    BY DEF FileRules, Flattened, Mapped
  <2> QED BY <2>1, <2>2
<1>3. \A i \in 1..n : Carried(ss[i], Sf[i])
  <2> SUFFICES ASSUME NEW i \in 1..n PROVE Carried(ss[i], Sf[i])
    OBVIOUS
  <2> DEFINE s == written[i]
  <2>1. Whole(s) /\ lookup \in Lookups
    BY <1>1 DEF IInv, TypeOK
  <2> HIDE DEF s
  <2>2. Carried(ReadChaining(SubtableOf(s), c), s.first..s.last)
    BY <2>1, SubtableRead
  <2> QED BY <2>2 DEF s
<1>4. ss = [i \in 1..n |-> ss[i]] /\ \A i \in 1..n : Sf[i] = (end(i - 1) + 1)..end(i)
  <2>1. \A i \in 1..n : Sf[i] = written[i].first..written[i].last
    OBVIOUS
  <2> QED BY <1>1, <2>1
<1> HIDE DEF ss, Sf, end, n, c
<1>5. ss \in Seq(Seq(ReadRules)) /\ Len(ss) = n
  <2>1. \A i \in 1..n : ss[i] \in Seq(ReadRules)
    BY <1>3 DEF Carried, Carries
  <2>2. ss \in [1..n -> Seq(ReadRules)]
    BY <1>4, <2>1
  <2> QED BY <1>1, <2>2
<1>6. \A i \in 0..n : upTo(i) = 1..end(i)
  <2> DEFINE Good == {i \in 0..n : upTo(i) = 1..end(i)}
  <2>1. 0 \in Good
    <3>1. end(0) = 0
      BY DEF end
    <3>2. upTo(0) = {} /\ 1..0 = {}
      OBVIOUS
    <3> QED BY <1>1, <3>1, <3>2
  <2>2. ASSUME NEW i \in 0..(n - 1), i \in Good PROVE i + 1 \in Good
    <3>1. i + 1 \in 1..n /\ (i + 1) - 1 = i /\ i + 1 \in 0..n /\ i \in Nat
      BY <1>1
    <3>2. upTo(i + 1) = upTo(i) \union Sf[i + 1]
      <4>1. \A h : h \in 1..(i + 1) <=> h \in 1..i \/ h = i + 1
        BY <3>1
      <4> QED BY <4>1
    <3>3. Sf[i + 1] = (end(i) + 1)..end(i + 1)
      BY <1>4, <3>1
    <3>4. end(i) \in Nat /\ end(i + 1) \in Nat /\ end(i) + 1 <= end(i + 1)
      <4>1. written[i + 1].first = end((i + 1) - 1) + 1 /\ written[i + 1].first <= end(i + 1)
        BY <1>1, <3>1
      <4> QED BY <1>1, <3>1, <4>1
    <3>5. upTo(i) = 1..end(i)
      BY <2>2
    <3>6. 1..end(i + 1) = (1..end(i)) \union ((end(i) + 1)..end(i + 1))
      BY <3>4
    <3> HIDE DEF upTo
    <3> QED BY <3>1, <3>2, <3>3, <3>5, <3>6
  <2> HIDE DEF Good
  <2>3. 0..n \subseteq Good
    BY <1>1, <2>1, <2>2, InductionUpTo
  <2> QED BY <2>3 DEF Good
<1>7. InParts(ss, Sf)
  <2>1. ASSUME NEW i \in 1..n, NEW h \in 1..n, i < h PROVE Before(Sf[i], Sf[h])
    <3> SUFFICES ASSUME NEW u \in Sf[i], NEW z \in Sf[h] PROVE u < z
      BY DEF Before
    <3>1. h - 1 \in 0..n /\ i \in 1..(h - 1)
      BY <1>1, <2>1
    <3>2. u \in upTo(h - 1)
      BY <3>1
    <3>3. u \in 1..end(h - 1) /\ z \in (end(h - 1) + 1)..end(h) /\ end(h - 1) \in Nat
      BY <1>1, <1>4, <1>6, <3>1, <3>2
    <3> QED BY <3>3
  <2> QED BY <1>3, <1>5, <2>1 DEF InParts
<1>8. Carried(FlattenSeq(ss), UNION {Sf[i] : i \in 1..Len(ss)})
  BY <1>5, <1>7, CarriedInTurn
<1>9. UNION {Sf[i] : i \in 1..n} = 1..N
  BY <1>1, <1>6
<1> QED BY <1>2, <1>5, <1>8, <1>9

-----------------------------------------------------------------------------
(* The invariant of the whole way.                                         *)

\* Each class has a glyph of its own.
Room ==
  \A s \in Sides :
    past[s] + Cardinality({g \in Glyphs : class[s][g] = 0}) <= Cardinality(Glyphs)

Filed ==
  /\ \A i \in DOMAIN written : Whole(written[i])
  /\ file = [i \in DOMAIN written |-> SubtableOf(written[i])]

LookupInv == IInv /\ Room /\ Filed /\ SameEffect

LEMMA WholeStays == ASSUME lookup' = lookup, NEW CONSTANT s PROVE Whole(s)' <=> Whole(s)
BY DEF Whole, ClassSubtable, ClassesOf

LEMMA TableStays == ASSUME lookup' = lookup, NEW CONSTANT s PROVE SubtableOf(s)' = SubtableOf(s)
BY DEF SubtableOf, Contextual, RuleOf

LEMMA EffectStays == ASSUME lookup' = lookup, rules' = rules PROVE SameEffect' <=> SameEffect
BY DEF SameEffect, RuleOf

LEMMA GlyphsAreFinite ==
  /\ IsFiniteSet(Glyphs) /\ Cardinality(Glyphs) \in Nat /\ IsWord(Cardinality(Glyphs))
  /\ \A S \in SUBSET Glyphs : /\ IsFiniteSet(S) /\ Cardinality(S) \in Nat
                              /\ Cardinality(S) <= Cardinality(Glyphs)
<1>1. IsFiniteSet(Gids)
  BY GidsAreFinite
<1>2. IsFiniteSet(Glyphs) /\ Cardinality(Glyphs) \in Nat
  BY <1>1, GlyphsAreNumbers, PartIsFinite
<1>3. IsWord(Cardinality(Glyphs))
  BY <1>2, CountsFitWords DEF IsWord
<1>4. \A S \in SUBSET Glyphs : /\ IsFiniteSet(S) /\ Cardinality(S) \in Nat
                               /\ Cardinality(S) <= Cardinality(Glyphs)
  BY <1>2, PartIsFinite
<1> QED BY <1>2, <1>3, <1>4

\* A set without one of its elements has one element less.
LEMMA OneLess ==
  ASSUME NEW S \in SUBSET Glyphs, NEW T, T \subseteq S, NEW x \in S, x \notin T
  PROVE  Cardinality(T) + 1 <= Cardinality(S)
<1>1. IsFiniteSet(S) /\ Cardinality(S) \in Nat
  BY GlyphsAreFinite
<1>2. IsFiniteSet(S \ {x}) /\ Cardinality(S \ {x}) = Cardinality(S) - 1
  BY <1>1, FS_RemoveElement
<1>3. T \subseteq S \ {x}
  OBVIOUS
<1>4. Cardinality(T) <= Cardinality(S \ {x}) /\ Cardinality(T) \in Nat
  BY <1>2, <1>3, FS_Subset, FS_CardinalityType
<1> QED BY <1>1, <1>2, <1>4

LEMMA RoomStarts == ASSUME class = Empty, past = [s \in Sides |-> 0] PROVE Room
<1> SUFFICES ASSUME NEW s \in Sides
             PROVE  past[s] + Cardinality({g \in Glyphs : class[s][g] = 0}) <= Cardinality(Glyphs)
  BY DEF Room
<1>1. past[s] = 0 /\ {g \in Glyphs : class[s][g] = 0} = Glyphs
  BY DEF Empty
<1> QED BY <1>1, GlyphsAreFinite

LEMMA RoomKept == ASSUME IInv, Room, MatchPosition PROVE Room'
<1> DEFINE cov == lookup[k].match[m]
           z == Side(lookup[k], m)
           new == cov # {} /\ ~IsClass(class[z], cov)
           free(c, s) == {g \in Glyphs : c[s][g] = 0}
<1>1. cov # {} /\ cov \subseteq Glyphs /\ z \in Sides
  BY LookupFacts, SideIsSide DEF IInv, TypeOK, Loop, MatchPosition
<1>2. CASE IsClass(class[z], cov)
  <2>1. UNCHANGED <<past, class>>
    BY <1>2 DEF MatchPosition
  <2> QED BY <2>1 DEF Room
<1>3. CASE ~IsClass(class[z], cov)
  <2>1. /\ past' = [past EXCEPT ![z] = @ + 1]
        /\ class' = [class EXCEPT ![z] =
                       [g \in Glyphs |-> IF g \in cov THEN past[z] + 1 ELSE @[g]]]
        /\ IsFresh(class[z], cov)
    BY <1>1, <1>3 DEF MatchPosition, Compatible, MoreClasses
  <2>2. class \in [Sides -> [Glyphs -> Nat]] /\ past \in [Sides -> Nat]
    BY DEF IInv, TypeOK
  <2> SUFFICES ASSUME NEW s \in Sides
               PROVE  past'[s] + Cardinality(free(class', s)) <= Cardinality(Glyphs)
    BY DEF Room
  <2>3. past[s] + Cardinality(free(class, s)) <= Cardinality(Glyphs)
    BY DEF Room
  <2>4. CASE s # z
    <3>1. past'[s] = past[s] /\ class'[s] = class[s]
      BY <1>1, <2>1, <2>2, <2>4
    <3> QED BY <2>3, <3>1
  <2>5. CASE s = z
    <3>1. past'[s] = past[s] + 1
      BY <1>1, <2>1, <2>2, <2>5
    <3>2. \A g \in Glyphs : class'[s][g] = IF g \in cov THEN past[s] + 1 ELSE class[s][g]
      BY <1>1, <2>1, <2>2, <2>5
    <3>3. PICK x \in cov : x \in Glyphs /\ class[s][x] = 0
      BY <1>1, <2>1, <2>5 DEF IsFresh
    <3>4. past[s] \in Nat
      BY <2>2
    <3>5. free(class', s) \subseteq free(class, s)
      BY <3>2, <3>4
    <3>6. x \in free(class, s) /\ x \notin free(class', s)
      BY <3>2, <3>3, <3>4
    <3> DEFINE S == free(class, s)
               T == free(class', s)
               C == Cardinality(Glyphs)
    <3>7. S \in SUBSET Glyphs /\ T \in SUBSET Glyphs
      OBVIOUS
    <3>8. past[s] + Cardinality(S) <= C
      BY <2>3
    <3> HIDE DEF S, T, C
    <3>9. Cardinality(S) \in Nat /\ Cardinality(T) \in Nat /\ C \in Nat
      BY <3>7, GlyphsAreFinite DEF C
    <3>10. Cardinality(T) + 1 <= Cardinality(S)
      <4>1. T \subseteq S /\ x \in S /\ x \notin T
        BY <3>5, <3>6 DEF S, T
      <4> QED BY <3>7, <4>1, OneLess
    <3>11. (past[s] + 1) + Cardinality(T) <= C
      BY <3>4, <3>8, <3>9, <3>10
    <3> QED BY <3>1, <3>11 DEF T, C
  <2> QED BY <2>4, <2>5
<1> QED BY <1>2, <1>3

LEMMA ClassesAreFew ==
  ASSUME IInv, Room, NEW s \in Sides
  PROVE  class[s] \in [Glyphs -> 0..Cardinality(Glyphs)]
<1> DEFINE C == Cardinality(Glyphs)
           S == {g \in Glyphs : class[s][g] = 0}
<1>1. class[s] \in [Glyphs -> Nat] /\ past[s] \in Nat /\ \A g \in Glyphs : class[s][g] <= past[s]
  BY DEF IInv, TypeOK
<1>2. past[s] + Cardinality(S) <= C
  BY DEF Room
<1>3. S \in SUBSET Glyphs
  OBVIOUS
<1> HIDE DEF C, S
<1>4. C \in Nat /\ Cardinality(S) \in Nat
  BY <1>3, GlyphsAreFinite DEF C
<1>5. past[s] <= C
  BY <1>1, <1>2, <1>4
<1>6. \A g \in Glyphs : class[s][g] \in 0..C
  BY <1>1, <1>4, <1>5
<1> QED BY <1>1, <1>6 DEF C

\* A merged rule names, at every position, the class that is its coverage.
LEMMA ClassRuleNames ==
  ASSUME IInv, Room, NEW n \in 1..Len(lookup),
         \A q \in DOMAIN lookup[n].match : OneClass(class[Side(lookup[n], q)], lookup[n].match[q])
  PROVE  ClassesOf(ClassRule(lookup[n], class), n, class)
<1> DEFINE cr == ClassRule(lookup[n], class)
           len == Len(lookup[n].match)
<1>1. /\ len \in Nat /\ DOMAIN lookup[n].match = 1..len
      /\ \A q \in 1..len : lookup[n].match[q] # {} /\ lookup[n].match[q] \subseteq Glyphs
  BY LookupFacts DEF IInv, TypeOK
<1>2. cr \in Seq(Nat)
  BY ClassRuleType
<1>3. DOMAIN cr = 1..len
  BY <1>1 DEF ClassRule
<1>4. Len(cr) = len
  <2> HIDE DEF cr, len
  <2> QED BY <1>1, <1>2, <1>3
<1>5. ASSUME NEW q \in 1..len
      PROVE  /\ cr[q] # 0 /\ IsWord(cr[q])
             /\ {g \in Glyphs : class[Side(lookup[n], q)][g] = cr[q]} = lookup[n].match[q]
  <2> DEFINE side == Side(lookup[n], q)
             h == class[side]
             cov == lookup[n].match[q]
  <2>1. cov # {} /\ cov \in SUBSET Glyphs /\ OneClass(h, cov) /\ side \in Sides
    BY <1>1, SideIsSide
  <2>2. cr[q] = h[FirstGlyph(cov)]
    BY <1>1, <2>1 DEF ClassRule
  <2>3. h \in [Glyphs -> 0..Cardinality(Glyphs)]
    BY <2>1, ClassesAreFew
  <2> HIDE DEF cr, side, h, cov
  <2>4. cr[q] # 0 /\ \A g \in Glyphs : h[g] = cr[q] <=> g \in cov
    BY <2>1, <2>2, ClassOfFirst
  <2>5. FirstGlyph(cov) \in Glyphs
    BY <2>1 DEF FirstGlyph
  <2> DEFINE C == Cardinality(Glyphs)
  <2>6. C \in Nat /\ IsWord(C)
    BY GlyphsAreFinite
  <2>7. cr[q] \in 0..C
    BY <2>2, <2>3, <2>5
  <2> HIDE DEF C
  <2>8. cr[q] \in Nat /\ cr[q] <= C
    BY <2>6, <2>7
  <2>9. IsWord(cr[q])
    BY <2>6, <2>8, SmallerIsWord
  <2>10. {g \in Glyphs : h[g] = cr[q]} = cov
    BY <2>1, <2>4
  <2> QED BY <2>4, <2>9, <2>10 DEF cov, h, side
<1> HIDE DEF cr
<1> QED BY <1>2, <1>4, <1>5 DEF ClassesOf, cr

LEMMA WriteIsWhole ==
  ASSUME IInv, Room, WriteSubtable
  PROVE  \E new : Whole(new) /\ written' = Append(written, new)
<1> DEFINE last == LastOfGroup
           rules1 == IF count > 1
                     THEN [i \in 1..(count + 1) |-> ClassRule(lookup[j + i - 1], class)]
                     ELSE <<>>
           new == [first |-> j, last |-> last,
                   format |-> IF count > 1 THEN "classes" ELSE "coverages",
                   class |-> class, rules |-> rules1]
<1>1. pc = "classify" /\ written' = Append(written, new)
  BY DEF WriteSubtable
<1>2. /\ Len(lookup) \in Nat /\ j \in 1..Len(lookup) /\ count \in Nat
  BY <1>1, LookupFacts DEF IInv, TypeOK, Loop
<1>3. /\ new.first = j /\ new.last = last /\ new.class = class /\ new.rules = rules1
      /\ new.format = IF count > 1 THEN "classes" ELSE "coverages"
  OBVIOUS
<1> HIDE DEF new
<1>4. CASE ~(count > 1)
  <2>1. new.format = "coverages" /\ new.last = new.first
    BY <1>3, <1>4 DEF LastOfGroup
  <2> QED BY <1>1, <1>2, <1>3, <2>1 DEF Whole
<1>5. CASE count > 1
  <2>1. /\ last = j + count /\ j + count <= Len(lookup)
        /\ \A n \in j..(j + count) : \A q \in DOMAIN lookup[n].match :
             OneClass(class[Side(lookup[n], q)], lookup[n].match[q])
    BY <1>1, <1>5, GroupIsExact DEF LastOfGroup
  <2>2. \A i \in 1..(count + 1) : j + i - 1 \in 1..Len(lookup) /\ j + i - 1 \in j..(j + count)
    BY <1>2, <2>1
  <2>3. rules1 = [i \in 1..(count + 1) |-> ClassRule(lookup[j + i - 1], class)]
    BY <1>5
  <2>4. \A i \in 1..(count + 1) : rules1[i] = ClassRule(lookup[j + i - 1], class)
    BY <2>3
  <2> HIDE DEF rules1, last
  <2>5. \A i \in 1..(count + 1) : rules1[i] \in Seq(Nat) /\ ClassesOf(rules1[i], j + i - 1, class)
    <3> SUFFICES ASSUME NEW i \in 1..(count + 1)
                 PROVE  rules1[i] \in Seq(Nat) /\ ClassesOf(rules1[i], j + i - 1, class)
      OBVIOUS
    <3> DEFINE n == j + i - 1
    <3>1. n \in 1..Len(lookup)
          /\ \A q \in DOMAIN lookup[n].match : OneClass(class[Side(lookup[n], q)], lookup[n].match[q])
      BY <2>1, <2>2
    <3>2. rules1[i] = ClassRule(lookup[n], class)
      BY <2>4
    <3> HIDE DEF n
    <3>3. ClassesOf(ClassRule(lookup[n], class), n, class)
      BY <3>1, ClassRuleNames
    <3>4. ClassRule(lookup[n], class) \in Seq(Nat)
      BY <3>1, ClassRuleType
    <3> QED BY <3>2, <3>3, <3>4 DEF n
  <2>6. rules1 \in Seq(Seq(Nat)) /\ Len(rules1) = count + 1
    <3>1. rules1 \in [1..(count + 1) -> Seq(Nat)]
      BY <2>3, <2>4, <2>5
    <3>2. count + 1 \in Nat
      BY <1>2
    <3> QED BY <3>1, <3>2
  <2>7. \A side \in Sides : class[side] \in [Glyphs -> 0..Cardinality(Glyphs)]
    BY ClassesAreFew
  <2>8. last \in j..Len(lookup) /\ count + 1 = last - j + 1
    BY <1>2, <2>1
  <2>9. ClassSubtable(new)
    BY <1>2, <1>3, <2>5, <2>6, <2>7, <2>8 DEF ClassSubtable
  <2>10. new.format = "classes"
    BY <1>3, <1>5
  <2> QED BY <1>1, <2>9, <2>10 DEF Whole
<1> QED BY <1>4, <1>5

LEMMA WriteKeeps == ASSUME LookupInv, Write PROVE Filed'
<1> DEFINE n == Len(written)
<1>1. /\ WriteSubtable /\ lookup' = lookup
      /\ file' = Append(file, SubtableOf(written'[Len(written')]))
  BY DEF Write, WriteSubtable
<1>2. PICK new : Whole(new) /\ written' = Append(written, new)
  BY <1>1, WriteIsWhole DEF LookupInv
<1>3. /\ written \in Seq(Subtables) /\ n \in Nat /\ DOMAIN written = 1..n
  BY LenProperties DEF LookupInv, IInv, TypeOK
<1>4. /\ \A i \in 1..n : Whole(written[i])
      /\ file = [i \in 1..n |-> SubtableOf(written[i])]
  BY <1>3 DEF LookupInv, Filed
<1> DEFINE X == Subtables \union {new}
           Y == {SubtableOf(s) : s \in X}
           t == SubtableOf(new)
<1>5. /\ DOMAIN written' = 1..(n + 1) /\ Len(written') = n + 1 /\ written'[n + 1] = new
      /\ \A i \in 1..n : written'[i] = written[i]
  <2>1. written \in Seq(X) /\ new \in X
    BY <1>3, SeqMonotonic
  <2> HIDE DEF X
  <2> QED BY <1>2, <1>3, <2>1, AppendProperties, LenProperties
<1>6. file \in Seq(Y) /\ Len(file) = n /\ \A i \in 1..n : file[i] = SubtableOf(written[i])
  <2>1. \A i \in 1..n : written[i] \in X
    BY <1>3, ElementOfSeq
  <2>2. \A i \in 1..n : SubtableOf(written[i]) \in Y
    BY <2>1
  <2> HIDE DEF Y
  <2>3. file \in [1..n -> Y]
    BY <1>4, <2>2
  <2> QED BY <1>3, <1>4, <2>3
<1>7. t \in Y
  OBVIOUS
<1> HIDE DEF X, Y, t
<1>8. file' = Append(file, t)
  BY <1>1, <1>5 DEF t
<1>9. /\ file' \in Seq(Y) /\ DOMAIN file' = 1..(n + 1) /\ file'[n + 1] = t
      /\ \A i \in 1..n : file'[i] = file[i]
  <2> DEFINE w == Append(file, t)
  <2>1. w \in Seq(Y) /\ Len(w) = n + 1 /\ w[n + 1] = t /\ \A i \in 1..n : w[i] = file[i]
    BY <1>6, <1>7, AppendProperties
  <2> HIDE DEF w
  <2>2. DOMAIN w = 1..(n + 1)
    BY <2>1, LenProperties
  <2> QED BY <1>8, <2>1, <2>2 DEF w
<1>10. \A i \in 1..(n + 1) : Whole(written'[i]) /\ file'[i] = SubtableOf(written'[i])
  <2> SUFFICES ASSUME NEW i \in 1..(n + 1)
               PROVE  Whole(written'[i]) /\ file'[i] = SubtableOf(written'[i])
    OBVIOUS
  <2>1. CASE i \in 1..n
    BY <1>4, <1>5, <1>6, <1>9, <2>1
  <2>2. CASE i = n + 1
    BY <1>2, <1>5, <1>9, <2>2 DEF t
  <2> QED BY <1>3, <2>1, <2>2
<1>11. file' = [i \in 1..(n + 1) |-> file'[i]]
  <2> HIDE DEF n
  <2> QED BY <1>9, SeqDef
<1>12. \A s : (Whole(s)' <=> Whole(s)) /\ SubtableOf(s)' = SubtableOf(s)
  BY <1>1, WholeStays, TableStays
<1>13. \A i \in DOMAIN written' : Whole(written[i])' /\ file'[i] = SubtableOf(written[i])'
  BY <1>5, <1>10, <1>12
<1> QED BY <1>5, <1>11, <1>13 DEF Filed

LEMMA LookupInitHolds == LookupInit => LookupInv
<1> SUFFICES ASSUME LookupInit PROVE LookupInv
  OBVIOUS
<1>1. Init /\ file = <<>> /\ rules = Unread
  BY DEF LookupInit
<1>2. IInv
  BY <1>1, InitHolds
<1>3. Room
  BY <1>1, RoomStarts DEF Init
<1>4. Filed
  <2>1. written = <<>>
    BY <1>1 DEF Init
  <2> QED BY <1>1, <2>1 DEF Filed
<1>5. SameEffect
  BY <1>1 DEF SameEffect
<1> QED BY <1>2, <1>3, <1>4, <1>5 DEF LookupInv

LEMMA LookupStepHolds == LookupInv /\ [LookupNext]_lookupVars => LookupInv'
<1> SUFFICES ASSUME LookupInv, [LookupNext]_lookupVars PROVE LookupInv'
  OBVIOUS
<1>1. IInv'
  <2>1. [Next]_vars
    BY DEF LookupNext, Classify, Write, ReadLookup, LookupDone, lookupVars, vars, Next, Done
  <2> QED BY <2>1, StepHolds DEF LookupInv
<1>2. lookup' = lookup
  BY DEF LookupNext, Classify, Write, ReadLookup, LookupDone, lookupVars, vars, Done,
         BeginGroup, MatchPosition, RuleFits, WriteSubtable, Finish
<1>3. CASE Classify
  <2>1. file' = file /\ rules' = rules /\ written' = written
    BY <1>3 DEF Classify, BeginGroup, MatchPosition, RuleFits, Finish
  <2>2. Room'
    <3>1. CASE MatchPosition
      BY <3>1, RoomKept DEF LookupInv
    <3>2. CASE BeginGroup
      <4>1. class' = Empty /\ past' = [s \in Sides |-> 0]
        BY <3>2 DEF BeginGroup
      <4> SUFFICES ASSUME NEW s \in Sides
                   PROVE  past'[s] + Cardinality({g \in Glyphs : class'[s][g] = 0})
                            <= Cardinality(Glyphs)
        BY DEF Room
      <4>2. past'[s] = 0 /\ {g \in Glyphs : class'[s][g] = 0} = Glyphs
        BY <4>1 DEF Empty
      <4> QED BY <4>2, GlyphsAreFinite
    <3>3. CASE RuleFits \/ Finish
      <4>1. class' = class /\ past' = past
        BY <3>3 DEF RuleFits, Finish
      <4> QED BY <4>1 DEF LookupInv, Room
    <3> QED BY <1>3, <3>1, <3>2, <3>3 DEF Classify
  <2>3. Filed'
    BY <1>2, <2>1, WholeStays, TableStays DEF LookupInv, Filed
  <2>4. SameEffect'
    BY <1>2, <2>1, EffectStays DEF LookupInv
  <2> QED BY <1>1, <2>2, <2>3, <2>4 DEF LookupInv
<1>4. CASE Write
  <2>1. rules' = rules /\ class' = class /\ past' = past
    BY <1>4 DEF Write, WriteSubtable
  <2>2. Room'
    BY <2>1 DEF LookupInv, Room
  <2>3. SameEffect'
    BY <1>2, <2>1, EffectStays DEF LookupInv
  <2> QED BY <1>1, <1>4, <2>2, <2>3, WriteKeeps DEF LookupInv
<1>5. CASE ReadLookup
  <2>1. /\ pc = "done" /\ UNCHANGED <<vars, file>>
        /\ rules' = Null \/ rules' = FileRules
    BY <1>5 DEF ReadLookup, FileRules
  <2>2. UNCHANGED <<pc, lookup, class, past, written, file>>
    BY <2>1 DEF vars
  <2>3. Room'
    BY <2>2 DEF LookupInv, Room
  <2>4. Filed'
    BY <2>2, WholeStays, TableStays DEF LookupInv, Filed
  <2>5. SameEffect'
    <3>1. CASE rules' = Null
      BY <3>1 DEF SameEffect
    <3>2. CASE rules' = FileRules
      <4>1. Carried(FileRules, 1..Len(lookup)) /\ lookup \in Lookups
        BY <2>1, FileRead DEF LookupInv, Filed, IInv, TypeOK
      <4> DEFINE source == [n \in DOMAIN lookup |-> RuleOf(n)]
      <4>2. \A t : EffectOf(FileRules, t) = EffectOf(source, t)
        BY <4>1, CarriersHaveEffect
      <4>3. \A t : EffectOf(rules', t) = EffectOf(source, t)
        BY <3>2, <4>2
      <4>4. \A n : RuleOf(n)' = RuleOf(n)
        BY <2>2 DEF RuleOf
      <4> QED BY <2>2, <4>3, <4>4 DEF SameEffect
    <3> QED BY <2>1, <3>1, <3>2
  <2> QED BY <1>1, <2>3, <2>4, <2>5 DEF LookupInv
<1>6. CASE LookupDone \/ UNCHANGED lookupVars
  <2>1. UNCHANGED <<lookup, class, past, written, file, rules>>
    BY <1>6 DEF LookupDone, lookupVars, vars, Done
  <2>2. Room'
    BY <2>1 DEF LookupInv, Room
  <2>3. Filed'
    BY <2>1, WholeStays, TableStays DEF LookupInv, Filed
  <2>4. SameEffect'
    BY <2>1, EffectStays DEF LookupInv
  <2> QED BY <1>1, <2>2, <2>3, <2>4 DEF LookupInv
<1> QED BY <1>3, <1>4, <1>5, <1>6 DEF LookupNext

(* Seen without the file, a lookup on its way is a run of the classifier:   *)
(* what is proved of tryClassifyAround holds of every subtable written.     *)
THEOREM LookupClassifies == LookupSpec => Spec
<1>1. LookupInit => Init
  BY DEF LookupInit
<1>2. [LookupNext]_lookupVars => [Next]_vars
  BY DEF LookupNext, Classify, Write, ReadLookup, LookupDone, lookupVars, vars, Next, Done
<1> QED BY <1>1, <1>2, PTL DEF LookupSpec, Spec

(* The rules that otl_read_chaining and otl_read_contextual read from the   *)
(* subtables, unless the reader fails at the end of the table, do to every  *)
(* text what the rules of the lookup do, whichever of them the classifier   *)
(* merged and in whatever order the class sets give them back.              *)
THEOREM SameEffectHolds == LookupSpec => []SameEffect
<1>1. LookupInv => SameEffect
  BY DEF LookupInv
<1> QED BY <1>1, LookupInitHolds, LookupStepHolds, PTL DEF LookupSpec
=============================================================================
