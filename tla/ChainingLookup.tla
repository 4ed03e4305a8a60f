---------------------------- MODULE ChainingLookup ----------------------------
(***************************************************************************)
(* A chaining lookup on its way into the file and back: the classifier     *)
(* decides which rules go together, each group becomes a subtable, and the *)
(* reader makes of each subtable its rules again, one after the other.     *)
(* Here rule n of the lookup applies lookup n - 1 to the first glyph of    *)
(* its input and lookup n to the last, so that what was read shows whose   *)
(* rule it is.  Glyphs are numbers, in the glyph order.                    *)
(***************************************************************************)
EXTENDS ChainingClassifier, ChainingSubtables

ASSUME GlyphsAreNumbers == Glyphs \subseteq Gids

\* Rules, the positions of a rule and classes are counted in 16 bits.  Each class has a
\* glyph, so one glyph less than a font can have keeps their number, 0 included, small
\* enough.
ASSUME CountsFitWords ==
  /\ Cardinality(Glyphs) < 65535
  /\ \A l \in Lookups : Len(l) < 65536 /\ \A i \in DOMAIN l : Len(l[i].match) < 65536

VARIABLES
  file,    \* the subtables written
  rules    \* the rules read back; Null when the reader fails
lookupVars == <<vars, file, rules>>

Unread == Junk    \* rules, before the file is read

Sorted(cov) == InOrderOf(cov, LAMBDA g : g)
RuleOf(n) ==
  [match |-> Mapped(lookup[n].match, Sorted),
   inputBegins |-> lookup[n].inputBegins, inputEnds |-> lookup[n].inputEnds,
   apply |-> <<[at |-> lookup[n].inputBegins, lookup |-> n - 1],
               [at |-> lookup[n].inputEnds - 1, lookup |-> n]>>]

Contextual == IsContextual([n \in DOMAIN lookup |-> RuleOf(n)])

\* toClass: the classes of a side, in the order of the glyphs.
ToClass(h) ==
  Pushed(Mapped(Sorted({g \in Glyphs : h[g] # 0}), LAMBDA g : [g |-> g, c |-> h[g]]))

SubtableOf(s) ==
  IF s.format = "coverages" THEN BuildChainingCoverage(RuleOf(s.first), Contextual)
  ELSE BuildChainingClasses(
         [rules |-> [i \in DOMAIN s.rules |-> [RuleOf(s.first + i - 1) EXCEPT !.match = s.rules[i]]],
          bc |-> ToClass(s.class["b"]), ic |-> ToClass(s.class["i"]), fc |-> ToClass(s.class["f"])],
         Contextual)

\* The subtable goes into the file as soon as it is classified.
Write ==
  /\ WriteSubtable
  /\ file' = Append(file, SubtableOf(written'[Len(written')]))
  /\ UNCHANGED rules

Classify ==
  /\ BeginGroup \/ MatchPosition \/ RuleFits \/ Finish
  /\ UNCHANGED <<file, rules>>

\* The reader of a contextual rule that omits its first class asks for two more
\* bytes than the rule takes: a rule that ends the whole table is not read, and
\* unconsolidate_chaining then follows a null pointer.
ReadLookup ==
  /\ pc = "done" /\ rules = Unread /\ file # <<>>
  /\ \E endsTable \in BOOLEAN :
       rules' = IF endsTable /\ Contextual /\ WordAt(Last(file), 1) = 2 THEN Null
                ELSE Flattened(file, LAMBDA b : ReadChaining(b, Contextual))
  /\ UNCHANGED <<vars, file>>

LookupInit == Init /\ file = <<>> /\ rules = Unread
LookupDone == (rules # Unread \/ lookup = <<>>) /\ Done /\ UNCHANGED <<file, rules>>
LookupNext == Classify \/ Write \/ ReadLookup \/ LookupDone

LookupSpec == LookupInit /\ [][LookupNext]_lookupVars

-----------------------------------------------------------------------------
Least(S) == CHOOSE x \in S : \A y \in S : x <= y

\* What the rules do to a text: what the first that matches applies, and where.
EffectOf(rs, t) ==
  LET matches(r) == \A q \in DOMAIN r.match : t[q - 1 - r.inputBegins] \in ToSet(r.match[q])
      hits == {n \in DOMAIN rs : matches(rs[n])}
  IN IF hits = {} THEN <<>>
     ELSE LET r == rs[Least(hits)] IN Mapped(r.apply, LAMBDA a : <<a.at - r.inputBegins, a.lookup>>)

(* The rules read back from the file do to every text what the rules of    *)
(* the lookup do, unless the reader fails (EveryRuleReadBack): build.c,    *)
(* read.c and the classifier together, with no rule lost.  Rules of        *)
(* one class-based subtable come back in another order, and as coverages   *)
(* made from the classes.                                                  *)
SameEffect ==
  rules \notin {Unread, Null} =>
    LET source == [n \in DOMAIN lookup |-> RuleOf(n)]
    IN \A t \in [(0 - Reach)..Reach -> Gids] : EffectOf(rules, t) = EffectOf(source, t)

(* README.md: "Full support for OpenType features": the reader takes back  *)
(* every lookup the writer writes, wherever in the table it stands.        *)
EveryRuleReadBack == rules # Null
===============================================================================
