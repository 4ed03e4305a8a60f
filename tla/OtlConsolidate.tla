---------------------------- MODULE OtlConsolidate ----------------------------
(***************************************************************************)
(* consolidateOTLTable of lib/consolidate/consolidate.c, with the chaining *)
(* subtables' part of it (lib/consolidate/otl/chaining.c), and the index   *)
(* tables lib/table/otl/build.c writes from its result.                    *)
(*                                                                         *)
(* A GSUB or GPOS table is a list of lookups, a list of features that      *)
(* refer to lookups, and a list of languages that refer to features.       *)
(* Chaining rules refer to lookups too, by name or by position.            *)
(* Consolidation removes what is empty, round after round, until a round   *)
(* removes no lookup and no feature.                                       *)
(*                                                                         *)
(* Lookups, features and languages are numbered by their place in the      *)
(* source.  The code only ever filters its lists, in place, so a list is   *)
(* the set of its members and a position is a rank.  What the code         *)
(* disposes of is what no list holds any more.  Names of lookups are       *)
(* distinct, so a name is the number of the lookup that bears it.  A       *)
(* subtable that is not a chaining rule is one that applies nothing.       *)
(***************************************************************************)
EXTENDS Integers, FiniteSets

CONSTANTS
  Tables,    \* the tables a font may hold after parsing JSON or reading a font
  Nameless,  \* the name of a handle that has none
  Unknown,   \* a name no lookup of the table bears
  None       \* no required feature

\* A lookup_handle: from JSON a name, from a font an index; consolidated both.
Handle(state, name, index) == [state |-> state, name |-> name, index |-> index]
EmptyHandle == Handle("empty", Nameless, 0)

IsHandle(h, names) ==
  /\ h.name \in names \union {Nameless, Unknown}
  /\ h.index \in Nat
  /\ h.state = "index" => h.name = Nameless

IsSubtable(s, names) == s.possible \in BOOLEAN /\ \A h \in s.apply : IsHandle(h, names)

\* The index of no feature.
NoFeature == 65535

\* The references of a table lead to its own lookups and features, and a tableid_t
\* counts the features.
IsTable(t) ==
  /\ DOMAIN t.lookups \subseteq Nat /\ DOMAIN t.features \subseteq Nat
  /\ IsFiniteSet(DOMAIN t.lookups) /\ IsFiniteSet(DOMAIN t.features)
  /\ Cardinality(DOMAIN t.features) <= NoFeature
  /\ \A l \in DOMAIN t.lookups : \A s \in t.lookups[l] : IsSubtable(s, DOMAIN t.lookups)
  /\ \A f \in DOMAIN t.features : t.features[f] \subseteq DOMAIN t.lookups
  /\ \A l \in DOMAIN t.languages :
       /\ t.languages[l].features \subseteq DOMAIN t.features
       /\ t.languages[l].required \in DOMAIN t.features \union {None}

ASSUME TablesAreClosed == \A t \in Tables : IsTable(t)
ASSUME NamesAreNotNumbers == Nameless \notin Nat /\ None \notin Nat

VARIABLES
  pc,
  source,        \* the table before consolidation
  lookups,       \* otl->lookups
  subtables,     \* lookup -> its subtables
  features,      \* otl->features
  refs,          \* feature -> the lookups it refers to
  langFeatures,  \* language -> the features it refers to
  todo,          \* the lookups this round has still to consolidate
  lutN, featN,   \* how many there were when the round began
  table          \* what build.c writes
vars == <<pc, source, lookups, subtables, features, refs, langFeatures, todo, lutN, featN, table>>

-----------------------------------------------------------------------------
\* The place of x in the list S.
Position(x, S) == Cardinality({y \in S : y < x})
AtPosition(k, S) == CHOOSE x \in S : Position(x, S) = k

\* The handle of one application, consolidated.  A name must be that of a lookup
\* with subtables left; an index is taken for a position in the current list.
Resolved(h) ==
  IF h.name # Nameless
  THEN IF h.name \in lookups /\ subtables[h.name] # {}
       THEN Handle("consolidated", h.name, Position(h.name, lookups)) ELSE EmptyHandle
  ELSE IF h.state # "index" THEN h
  ELSE LET k == IF h.index >= Cardinality(lookups) THEN 0 ELSE h.index
       IN Handle("consolidated", AtPosition(k, lookups), k)

\* The applications left when those that lost their name are dropped.
Applied(s) == {h \in {Resolved(g) : g \in s.apply} : h.name # Nameless}

\* A subtable is removed when a coverage it needs is empty, or when all its
\* applications were dropped; one designed without any is kept.
Consolidated(s) == [possible |-> s.possible, apply |-> Applied(s)]
Survives_DropsIgnoring(s) == s.possible /\ Applied(s) # {}
Survives(s) == s.possible /\ (s.apply # {} => Applied(s) # {})

-----------------------------------------------------------------------------
BeginRound ==
  /\ pc = "begin"
  /\ lutN' = Cardinality(lookups) /\ featN' = Cardinality(features)
  /\ todo' = lookups
  /\ pc' = "lookups"
  /\ UNCHANGED <<source, lookups, subtables, features, refs, langFeatures, table>>

\* otfcc_consolidate_lookup, of the first lookup left.
ConsolidateLookup ==
  /\ pc = "lookups"
  /\ \E l \in todo :
       /\ \A m \in todo : l <= m
       /\ subtables' = [subtables EXCEPT ![l] =
            {Consolidated(s) : s \in {t \in subtables[l] : Survives(t)}}]
       /\ todo' = todo \ {l}
  /\ UNCHANGED <<pc, source, lookups, features, refs, langFeatures, lutN, featN, table>>

\* The lookups a feature keeps.
Kept_All(f) == refs[f]
Kept(f) == {l \in refs[f] : subtables[l] # {}}

FilterLookupRefs ==
  /\ pc = "lookups" /\ todo = {}
  /\ refs' = [f \in DOMAIN refs |-> IF f \in features THEN Kept(f) ELSE refs[f]]
  /\ pc' = "languages"
  /\ UNCHANGED <<source, lookups, subtables, features, langFeatures, todo, lutN, featN, table>>

\* The features a language keeps.
KeptFeatures(l) == {f \in langFeatures[l] : refs[f] # {}}

FilterFeatureRefs ==
  /\ pc = "languages"
  /\ langFeatures' = [l \in DOMAIN langFeatures |-> KeptFeatures(l)]
  /\ pc' = "dispose"
  /\ UNCHANGED <<source, lookups, subtables, features, refs, todo, lutN, featN, table>>

\* The two filters that own, and dispose of, what they drop.
DisposeEmpty ==
  /\ pc = "dispose"
  /\ lookups' = {l \in lookups : subtables[l] # {}}
  /\ features' = {f \in features : refs[f] # {}}
  /\ pc' = "check"
  /\ UNCHANGED <<source, subtables, refs, langFeatures, todo, lutN, featN, table>>

\* The round removed nothing.
Settled_LookupsOrFeatures ==
  Cardinality(features) >= featN \/ Cardinality(lookups) >= lutN
Settled_Grown == Cardinality(features) > featN /\ Cardinality(lookups) > lutN
Settled == Cardinality(features) >= featN /\ Cardinality(lookups) >= lutN

EndRound ==
  /\ pc = "check"
  /\ pc' = IF Settled THEN "consolidated" ELSE "begin"
  /\ UNCHANGED <<source, lookups, subtables, features, refs, langFeatures, todo, lutN, featN,
                 table>>

-----------------------------------------------------------------------------
(* writeOTLFeatures, writeLanguage: references as positions in the lists. *)

FeatureIndex_Source(f) == IF f = None THEN NoFeature ELSE Position(f, DOMAIN source.features)
FeatureIndex(f) == IF f \in features THEN Position(f, features) ELSE NoFeature

WriteTable ==
  /\ pc = "consolidated"
  /\ table' =
       [features |-> [f \in features |-> {Position(l, lookups) : l \in refs[f] \cap lookups}],
        languages |-> [l \in DOMAIN langFeatures |->
                         [required |-> FeatureIndex(source.languages[l].required),
                          features |-> {FeatureIndex(f) : f \in langFeatures[l]}]]]
  /\ pc' = "written"
  /\ UNCHANGED <<source, lookups, subtables, features, refs, langFeatures, todo, lutN, featN>>

Done == pc = "written" /\ UNCHANGED vars

Init ==
  /\ pc = "begin"
  /\ source \in Tables
  /\ lookups = DOMAIN source.lookups
  /\ subtables = source.lookups
  /\ features = DOMAIN source.features
  /\ refs = source.features
  /\ langFeatures = [l \in DOMAIN source.languages |-> source.languages[l].features]
  /\ todo = {} /\ lutN = 0 /\ featN = 0
  /\ table = <<>>

Next == \/ BeginRound \/ ConsolidateLookup \/ FilterLookupRefs \/ FilterFeatureRefs
        \/ DisposeEmpty \/ EndRound \/ WriteTable \/ Done

Spec == Init /\ [][Next]_vars

\* The program runs on to the end of the function.
FairSpec == Spec /\ WF_vars(Next)

-----------------------------------------------------------------------------
(* What consolidation promises, said of the source.                        *)

\* The lookup an application of the source means: an index out of range means the first.
Meant(h) ==
  IF h.state = "index"
  THEN LET k == IF h.index >= Cardinality(DOMAIN source.lookups) THEN 0 ELSE h.index
       IN AtPosition(k, DOMAIN source.lookups)
  ELSE h.name

\* The lookups of L that have a subtable which works when L are the lookups there are.
Supported(L) ==
  {l \in L : \E s \in source.lookups[l] :
     s.possible /\ (s.apply # {} => \E h \in s.apply : Meant(h) \in L)}

\* The lookups worth keeping: the largest set that supports itself.
Live == UNION {L \in SUBSET DOMAIN source.lookups : Supported(L) = L}

LiveFeatures == {f \in DOMAIN source.features : source.features[f] \cap Live # {}}

\* A rule of the source, as it must end.
Reduced(s) ==
  [possible |-> s.possible,
   apply |-> {Handle("consolidated", Meant(h), Position(Meant(h), Live)) :
                h \in {g \in s.apply : Meant(g) \in Live}}]

-----------------------------------------------------------------------------

(* A feature never refers to a lookup, nor a language to a feature, that   *)
(* was disposed of: the references are filtered before the lists that own  *)
(* the objects.                                                            *)
RefsAlive ==
  /\ \A f \in features : refs[f] \subseteq lookups
  /\ \A l \in DOMAIN langFeatures : langFeatures[l] \subseteq features

(* No lookup that a font needs is lost, in any round: the largest set of   *)
(* lookups that keep each other alive stays.                               *)
LiveKept == Live \subseteq lookups

(* At the end exactly what is live is left, and the positions rules hold   *)
(* are positions in the final list: no round after the last compaction     *)
(* would find anything to change.                                          *)
ExactResult ==
  pc \in {"consolidated", "written"} =>
    /\ lookups = Live
    /\ features = LiveFeatures
    /\ \A f \in features : refs[f] = source.features[f] \cap Live
    /\ \A l \in DOMAIN langFeatures : langFeatures[l] = source.languages[l].features \cap features
    /\ \A l \in lookups :
         subtables[l] = {Reduced(s) : s \in {t \in source.lookups[l] :
                           t.possible /\ (t.apply # {} => Reduced(t).apply # {})}}

(* A reader of the written table gets the consolidated one: positions are  *)
(* in range and lead back to the lookups and features they stand for, and  *)
(* a required feature that was removed reads as none.                      *)
ReadBack ==
  LET reads(K, S) == {x \in S : Position(x, S) \in K}
      inRange(K, S) == K \subseteq 0..(Cardinality(S) - 1)
  IN pc = "written" =>
       /\ \A f \in features :
            /\ inRange(table.features[f], lookups)
            /\ reads(table.features[f], lookups) = refs[f]
       /\ \A l \in DOMAIN langFeatures :
            LET lang == table.languages[l]
            IN /\ inRange(lang.features, features)
               /\ reads(lang.features, features) = langFeatures[l]
               /\ reads({lang.required}, features) = {source.languages[l].required} \cap features

(* The pointer a language keeps to its required feature stays good: the    *)
(* header declares it OWNING, and dump.c reads the feature's name by it.   *)
RequiredFeatureAlive ==
  \A l \in DOMAIN langFeatures :
    source.languages[l].required # None => source.languages[l].required \in features

(* Every round but the last removes something, so the loop ends.           *)
Terminates == <>(pc = "written")
================================================================================
