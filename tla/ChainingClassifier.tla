-------------------------- MODULE ChainingClassifier --------------------------
(***************************************************************************)
(* lib/table/otl/subtables/chaining/classifier.c: the subtables of a       *)
(* chaining lookup, one rule each, are written as they are (format 3) or   *)
(* merged, three or more neighbours at a time, into one subtable whose     *)
(* rules name glyph classes (format 2).  Merging is right only if every    *)
(* coverage of every merged rule is exactly a class.                       *)
(*                                                                         *)
(* A coverage is the set of its glyphs: consolidation has sorted it and    *)
(* removed duplicates.  A hash from glyphs to classes is a function to Nat,*)
(* 0 for a glyph the hash does not hold.  Rules are known by their place in*)
(* the lookup, which stands for the lookups they apply.                    *)
(***************************************************************************)
EXTENDS Integers, Sequences, FiniteSets

CONSTANTS
  Glyphs,
  Lookups,   \* the lookups to write: sequences of rules
  Reach      \* how many glyphs a rule may look to either side

Sides == {"b", "i", "f"}   \* backtrack, input, lookahead: hb, hi and hf

\* otl_ChainingRule: match[1..inputBegins] is the backtrack, then the input up
\* to inputEnds, then the lookahead.
IsRule(r) ==
  /\ r.match \in Seq(SUBSET Glyphs)
  /\ r.inputBegins \in 0..Reach /\ r.inputEnds \in Nat
  /\ r.inputBegins < r.inputEnds /\ r.inputEnds <= Len(r.match)
  /\ Len(r.match) <= r.inputBegins + 1 + Reach
  /\ \A m \in DOMAIN r.match : r.match[m] # {}

ASSUME ClassifierConstants ==
  /\ Reach \in Nat
  /\ \A l \in Lookups : l \in Seq({l[i] : i \in DOMAIN l}) /\ \A i \in DOMAIN l : IsRule(l[i])

VARIABLES
  pc,        \* "next": the loop over subtables; "classify": tryClassifyAround
  lookup,
  j, k, m,   \* the loop variables: first rule of the group, rule, position
  class,     \* side -> glyph -> class
  past,      \* side -> the number of classes: classno_b, classno_i, classno_f
  count,     \* compatibleCount
  written    \* the subtables written so far
vars == <<pc, lookup, j, k, m, class, past, count, written>>

-----------------------------------------------------------------------------
Side(r, q) == IF q <= r.inputBegins THEN "b" ELSE IF q <= r.inputEnds THEN "i" ELSE "f"

\* glyphs[0] of a coverage.
FirstGlyph(cov) == CHOOSE g \in cov : TRUE

\* classCompatible, the two ways to succeed: the coverage is a class, glyph for
\* glyph, or none of its glyphs is in a class yet.
IsClass_NoReverseCheck(h, cov) ==
  LET c == h[FirstGlyph(cov)] IN c # 0 /\ \A g \in cov : h[g] = c
IsClass(h, cov) ==
  LET c == h[FirstGlyph(cov)] IN c # 0 /\ \A g \in Glyphs : h[g] = c <=> g \in cov
IsFresh(h, cov) == \A g \in cov : h[g] = 0

Compatible(h, cov) == cov = {} \/ IsClass(h, cov) \/ IsFresh(h, cov)

\* The count of classes after a fresh coverage was taken in.
MoreClasses_Forgotten(p, s) == p
MoreClasses(p, s) == [p EXCEPT ![s] = @ + 1]

\* buildRule: the class of its first glyph stands for a position.
ClassRule_InputSide(r, cl) ==
  [q \in DOMAIN r.match |->
     IF r.match[q] = {} THEN 0 ELSE cl["i"][FirstGlyph(r.match[q])]]
ClassRule(r, cl) ==
  [q \in DOMAIN r.match |->
     IF r.match[q] = {} THEN 0 ELSE cl[Side(r, q)][FirstGlyph(r.match[q])]]

Empty == [s \in Sides |-> [g \in Glyphs |-> 0]]

-----------------------------------------------------------------------------
\* otfcc_classifiedBuildChaining reaches subtable j.
BeginGroup ==
  /\ pc = "next" /\ j <= Len(lookup)
  /\ pc' = "classify"
  /\ k' = j /\ m' = 1
  /\ class' = Empty /\ past' = [s \in Sides |-> 0]
  /\ count' = 0
  /\ UNCHANGED <<lookup, j, written>>

\* One position of rule k fits the classes; a fresh coverage becomes a class.
\* What it added stays when a later position of the rule does not fit.
MatchPosition ==
  /\ pc = "classify" /\ k <= Len(lookup) /\ m <= Len(lookup[k].match)
  /\ LET cov == lookup[k].match[m]
         s   == Side(lookup[k], m)
     IN /\ Compatible(class[s], cov)
        /\ IF cov # {} /\ ~IsClass(class[s], cov)
           THEN /\ past' = MoreClasses(past, s)
                /\ class' = [class EXCEPT ![s] =
                     [g \in Glyphs |-> IF g \in cov THEN past[s] + 1 ELSE @[g]]]
           ELSE UNCHANGED <<past, class>>
  /\ m' = m + 1
  /\ UNCHANGED <<pc, lookup, j, k, count, written>>

\* Every position of rule k fits.
RuleFits ==
  /\ pc = "classify" /\ k <= Len(lookup) /\ m > Len(lookup[k].match)
  /\ k' = k + 1 /\ m' = 1
  /\ count' = IF k = j THEN 0 ELSE count + 1
  /\ UNCHANGED <<pc, lookup, j, class, past, written>>

\* The scan is over: at the end of the lookup, or at a position that does not fit.
ScanEnds ==
  k <= Len(lookup) =>
    /\ m <= Len(lookup[k].match)
    /\ ~Compatible(class[Side(lookup[k], m)], lookup[k].match[m])

\* The last rule merged into subtable j's.
LastOfGroup_CountsFailed == IF count > 1 THEN k ELSE j
LastOfGroup == IF count > 1 THEN j + count ELSE j

WriteSubtable ==
  /\ pc = "classify" /\ ScanEnds
  /\ written' = Append(written,
       [first |-> j, last |-> LastOfGroup,
        format |-> IF count > 1 THEN "classes" ELSE "coverages",
        class |-> class,
        rules |-> IF count > 1
                  THEN [i \in 1..(count + 1) |-> ClassRule(lookup[j + i - 1], class)]
                  ELSE <<>>])
  /\ j' = LastOfGroup + 1
  /\ pc' = "next"
  /\ UNCHANGED <<lookup, k, m, class, past, count>>

Finish ==
  /\ pc = "next" /\ j > Len(lookup)
  /\ pc' = "done"
  /\ UNCHANGED <<lookup, j, k, m, class, past, count, written>>

Done == pc = "done" /\ UNCHANGED vars

Init ==
  /\ pc = "next"
  /\ lookup \in Lookups
  /\ j = 1 /\ k = 1 /\ m = 1
  /\ class = Empty /\ past = [s \in Sides |-> 0]
  /\ count = 0
  /\ written = <<>>

Next == BeginGroup \/ MatchPosition \/ RuleFits \/ WriteSubtable \/ Finish \/ Done

Spec == Init /\ [][Next]_vars

-----------------------------------------------------------------------------
(* How a shaper reads the lookup.  A text is the glyphs around a position. *)

Texts == [(0 - Reach)..Reach -> Glyphs]

\* The place in the text of position q of rule r.
At(r, q) == q - 1 - r.inputBegins

Matches(r, t) == \A q \in DOMAIN r.match : t[At(r, q)] \in r.match[q]

\* Rule n, of the written subtable s: by coverages, or by classes for a first
\* glyph in the subtable's coverage, which holds the classified input glyphs.
MatchesWritten(s, n, t) ==
  IF s.format = "coverages" THEN Matches(lookup[n], t)
  ELSE /\ s.class["i"][t[0]] # 0
       /\ \A q \in DOMAIN lookup[n].match :
            s.class[Side(lookup[n], q)][t[At(lookup[n], q)]] = s.rules[n - s.first + 1][q]

-----------------------------------------------------------------------------
Subtables ==
  [first : Nat, last : Nat, format : {"classes", "coverages"},
   class : [Sides -> [Glyphs -> Nat]], rules : Seq(Seq(Nat))]

TypeOK ==
  /\ pc \in {"next", "classify", "done"}
  /\ lookup \in Lookups
  /\ j \in Nat \ {0} /\ k \in Nat \ {0} /\ m \in Nat \ {0} /\ count \in Nat
  /\ past \in [Sides -> Nat]
  /\ class \in [Sides -> [Glyphs -> Nat]]
  /\ \A s \in Sides : \A g \in Glyphs : class[s][g] <= past[s]
  /\ written \in Seq(Subtables)

\* The glyphs of cov, and no others, are in one class.
OneClass(h, cov) ==
  \E x \in cov : h[x] # 0 /\ \A g \in Glyphs : h[g] = h[x] <=> g \in cov

(* While a group grows, every coverage already accepted, of any rule of    *)
(* the group and on its own side, stays exactly one class, whatever later  *)
(* rules add and even when one of them is given up half way.               *)
ClassesExact ==
  pc = "classify" =>
    \A r \in j..k : r <= Len(lookup) =>
      \A q \in DOMAIN lookup[r].match :
        (r < k \/ q < m) => OneClass(class[Side(lookup[r], q)], lookup[r].match[q])

(* The written subtables take the rules in their order, none twice and     *)
(* none left out: `j += tryClassifyAround(...)' skips exactly the rules    *)
(* that were merged.                                                       *)
RulesInOrder ==
  /\ \A i \in DOMAIN written :
       /\ written[i].first = (IF i = 1 THEN 1 ELSE written[i - 1].last + 1)
       /\ written[i].first <= written[i].last /\ written[i].last <= Len(lookup)
  /\ j = (IF written = <<>> THEN 1 ELSE written[Len(written)].last + 1)
  /\ pc = "done" => j = Len(lookup) + 1

(* A merged rule matches a text exactly when the rule it was made from     *)
(* does: rewriting coverages as classes loses and adds nothing.            *)
MatchPreserved ==
  \A i \in DOMAIN written : \A n \in written[i].first..written[i].last : \A t \in Texts :
    MatchesWritten(written[i], n, t) <=> Matches(lookup[n], t)
===============================================================================
