------------------------- MODULE OtlConsolidate_proofs -------------------------
(***************************************************************************)
(* Two safety theorems about consolidateOTLTable for every table: its      *)
(* references never dangle, and it never removes a lookup that the rest of *)
(* the table keeps in use.                                                 *)
(***************************************************************************)
EXTENDS OtlConsolidate, OrderLemmas

\* The lists stay within the source.
Shape ==
  /\ pc \in {"begin", "lookups", "languages", "dispose", "check", "consolidated", "written"}
  /\ lookups \subseteq DOMAIN source.lookups
  /\ todo \subseteq lookups /\ (pc # "lookups" => todo = {})
  /\ DOMAIN subtables = DOMAIN source.lookups
  /\ features \subseteq DOMAIN source.features
  /\ DOMAIN refs = DOMAIN source.features
  /\ DOMAIN langFeatures = DOMAIN source.languages

\* What the filters before the disposal leave, phase by phase.
Filtered ==
  /\ pc \in {"languages", "dispose"} =>
       \A f \in features : \A l \in refs[f] : subtables[l] # {}
  /\ pc = "dispose" =>
       \A g \in DOMAIN langFeatures : \A f \in langFeatures[g] : refs[f] # {}

RefsInv == Shape /\ RefsAlive /\ Filtered

\* The source is closed: what the initial lists refer to is in them.
LEMMA RefsInvInit == Init => RefsInv
<1> SUFFICES ASSUME Init PROVE RefsInv
    OBVIOUS
<1>1. IsTable(source)
    BY TablesAreClosed DEF Init
<1>2. Shape
    BY DEF Init, Shape
<1>3. RefsAlive
    BY <1>1 DEF Init, RefsAlive, IsTable
<1>4. Filtered
    BY DEF Init, Filtered
<1> QED
    BY <1>2, <1>3, <1>4 DEF RefsInv

\* Only DisposeEmpty shrinks the owning lists, and by then nothing refers to
\* what it drops.
LEMMA RefsInvStep == RefsInv /\ [Next]_vars => RefsInv'
<1> SUFFICES ASSUME RefsInv, [Next]_vars PROVE RefsInv'
    OBVIOUS
<1> USE DEF RefsInv
<1>1. CASE BeginRound
    BY <1>1 DEF BeginRound, Shape, RefsAlive, Filtered
<1>2. CASE ConsolidateLookup
  <2>1. Shape'
      BY <1>2 DEF ConsolidateLookup, Shape
  <2>2. RefsAlive'
      BY <1>2 DEF ConsolidateLookup, RefsAlive
  <2>3. Filtered'
      BY <1>2 DEF ConsolidateLookup, Filtered
  <2> QED
      BY <2>1, <2>2, <2>3
<1>3. CASE FilterLookupRefs
  <2>1. Shape'
      BY <1>3 DEF FilterLookupRefs, Shape
  <2>2. \A f \in features : refs'[f] = {l \in refs[f] : subtables[l] # {}}
      BY <1>3 DEF FilterLookupRefs, Kept, Shape
  <2>3. RefsAlive'
    <3>1. /\ features' = features /\ lookups' = lookups
          /\ langFeatures' = langFeatures
          BY <1>3 DEF FilterLookupRefs
    <3>2. \A f \in features : refs'[f] \subseteq lookups
          BY <2>2 DEF RefsAlive
    <3> QED
        BY <3>1, <3>2 DEF RefsAlive
  <2>4. Filtered'
    <3>1. /\ pc' = "languages" /\ features' = features /\ subtables' = subtables
          BY <1>3 DEF FilterLookupRefs
    <3> QED
        BY <2>2, <3>1 DEF Filtered
  <2> QED
      BY <2>1, <2>3, <2>4
<1>4. CASE FilterFeatureRefs
  <2>1. Shape'
      BY <1>4 DEF FilterFeatureRefs, Shape
  <2>2. \A g \in DOMAIN langFeatures :
          langFeatures'[g] = {f \in langFeatures[g] : refs[f] # {}}
      BY <1>4 DEF FilterFeatureRefs, KeptFeatures
  <2>3. DOMAIN langFeatures' = DOMAIN langFeatures
      BY <1>4 DEF FilterFeatureRefs
  <2>4. RefsAlive'
      BY <1>4, <2>2, <2>3 DEF FilterFeatureRefs, RefsAlive
  <2>5. Filtered'
      BY <1>4, <2>2, <2>3 DEF FilterFeatureRefs, Filtered
  <2> QED
      BY <2>1, <2>4, <2>5
<1>5. CASE DisposeEmpty
  <2>1. Shape'
      BY <1>5 DEF DisposeEmpty, Shape
  <2>2. RefsAlive'
      BY <1>5 DEF DisposeEmpty, RefsAlive, Filtered
  <2>3. Filtered'
      BY <1>5 DEF DisposeEmpty, Filtered
  <2> QED
      BY <2>1, <2>2, <2>3
<1>6. CASE EndRound
    BY <1>6 DEF EndRound, Shape, RefsAlive, Filtered
<1>7. CASE WriteTable
    BY <1>7 DEF WriteTable, Shape, RefsAlive, Filtered
<1>8. CASE Done \/ UNCHANGED vars
    BY <1>8 DEF Done, vars, Shape, RefsAlive, Filtered
<1> QED
    BY <1>1, <1>2, <1>3, <1>4, <1>5, <1>6, <1>7, <1>8 DEF Next

\* No reference of a feature or a language ever leads to a disposed object.
THEOREM ReferencesStayAlive == Spec => []RefsAlive
<1>1. RefsInv => RefsAlive
    BY DEF RefsInv
<1> QED
    BY RefsInvInit, RefsInvStep, <1>1, PTL DEF Spec

-----------------------------------------------------------------------------
(***************************************************************************)
(* LiveKept.  A live lookup has a rule that works with the live lookups.   *)
(* The rule survives every round, because what it applies is live too and  *)
(* so, by the same invariant, still in the list with subtables left.  A    *)
(* position in the source means the same lookup for as long as no lookup   *)
(* has been removed; every position is resolved in the first round, before *)
(* the first removal.                                                      *)
(***************************************************************************)

\* A rule that does something when the live lookups are there.
Works(s) == s.possible /\ (s.apply # {} => \E h \in s.apply : Meant(h) \in Live)

LiveWorks == \A l \in Live : l \in lookups /\ \E s \in subtables[l] : Works(s)

NoIndex(l) == \A s \in subtables[l] : \A h \in s.apply : h.state # "index"

\* An index handle has no name.
PlainIndices(l) ==
  \A s \in subtables[l] : \A h \in s.apply : h.state = "index" => h.name = Nameless

IndicesFirst ==
  /\ \A l \in lookups : PlainIndices(l)
  /\ \/ lookups = DOMAIN source.lookups /\ pc \in {"begin", "lookups"}
     \/ \A l \in lookups : NoIndex(l)
  /\ pc = "lookups" => \A l \in lookups \ todo : NoIndex(l)

LiveInv == Shape /\ IsTable(source) /\ LiveWorks /\ IndicesFirst

\* The live lookups support themselves.
LEMMA LiveIsSupported ==
  \A l \in Live : /\ l \in DOMAIN source.lookups
                  /\ \E s \in source.lookups[l] : Works(s)
<1> TAKE l \in Live
<1>1. PICK L \in SUBSET DOMAIN source.lookups : Supported(L) = L /\ l \in L
    BY DEF Live
<1>2. L \subseteq Live
    BY <1>1 DEF Live
<1>3. PICK s \in source.lookups[l] :
        s.possible /\ (s.apply # {} => \E h \in s.apply : Meant(h) \in L)
    BY <1>1 DEF Supported
<1> QED
    BY <1>1, <1>2, <1>3 DEF Works

LEMMA LiveInvInit == Init => LiveInv
<1> SUFFICES ASSUME Init PROVE LiveInv
    OBVIOUS
<1>1. IsTable(source)
    BY TablesAreClosed DEF Init
<1>2. Shape
    BY DEF Init, Shape
<1>3. LiveWorks
    BY LiveIsSupported DEF Init, LiveWorks
<1>4. \A l \in lookups : PlainIndices(l)
    BY <1>1 DEF Init, PlainIndices, IsTable, IsSubtable, IsHandle
<1>5. IndicesFirst
    BY <1>4 DEF Init, IndicesFirst
<1> QED
    BY <1>1, <1>2, <1>3, <1>5 DEF LiveInv

\* A handle that means a live lookup is resolved to it, whichever way it names it.
LEMMA LiveIsResolved ==
  ASSUME LiveInv, NEW h, Meant(h) \in Live,
         h.state = "index" => lookups = DOMAIN source.lookups /\ h.name = Nameless
  PROVE  Resolved(h).name = Meant(h) /\ Resolved(h).state # "index"
<1>1. /\ Meant(h) \in lookups /\ subtables[Meant(h)] # {}
      /\ Meant(h) # Nameless
  <2>1. Meant(h) \in lookups /\ subtables[Meant(h)] # {}
      BY DEF LiveInv, LiveWorks
  <2>2. DOMAIN source.lookups \subseteq Nat
      BY DEF LiveInv, IsTable
  <2> QED
      BY <2>1, <2>2, NamesAreNotNumbers DEF LiveInv, Shape
<1>2. CASE h.state = "index"
  <2>1. Meant(h) = AtPosition(IF h.index >= Cardinality(lookups) THEN 0 ELSE h.index, lookups)
      BY <1>2 DEF Meant
  <2> QED
      BY <1>1, <1>2, <2>1 DEF Resolved, Handle
<1>3. CASE h.state # "index"
  <2>1. Meant(h) = h.name
      BY <1>3 DEF Meant
  <2> QED
      BY <1>1, <2>1 DEF Resolved, Handle
<1> QED
    BY <1>2, <1>3

\* A working rule survives consolidation and still works.
LEMMA WorkingRuleSurvives ==
  ASSUME LiveInv, NEW s, Works(s),
         \A h \in s.apply : h.state = "index" =>
           lookups = DOMAIN source.lookups /\ h.name = Nameless
  PROVE  Survives(s) /\ Works(Consolidated(s))
<1>1. CASE s.apply = {}
  <2>1. Applied(s) = {}
      BY <1>1 DEF Applied
  <2> QED
      BY <1>1, <2>1 DEF Survives, Works, Consolidated
<1>2. CASE s.apply # {}
  <2>1. PICK h \in s.apply : Meant(h) \in Live
      BY <1>2 DEF Works
  <2>2. Resolved(h).name = Meant(h) /\ Resolved(h).state # "index"
      BY <2>1, LiveIsResolved
  <2>3. Meant(h) # Nameless
    <3>1. Meant(h) \in DOMAIN source.lookups /\ DOMAIN source.lookups \subseteq Nat
        BY <2>1, LiveIsSupported DEF LiveInv, IsTable
    <3> QED
        BY <3>1, NamesAreNotNumbers
  <2>4. Resolved(h) \in Applied(s)
      BY <2>1, <2>2, <2>3 DEF Applied
  <2>5. Meant(Resolved(h)) \in Live
      BY <2>1, <2>2 DEF Meant
  <2>6. Survives(s)
      BY <2>4 DEF Survives, Works
  <2> QED
      BY <2>4, <2>5, <2>6 DEF Works, Consolidated
<1> QED
    BY <1>1, <1>2

\* The handles that applications are left with are never bare positions.
LEMMA NoIndexAfter ==
  ASSUME NEW s, NEW h \in Applied(s)
  PROVE  h.state # "index"
<1>1. PICK g \in s.apply : h = Resolved(g)
    BY DEF Applied
<1> QED
    BY <1>1 DEF Resolved, Handle, EmptyHandle

\* What is live is said of the source, which no step changes.
LEMMA LiveIsFixed ==
  ASSUME source' = source
  PROVE  Live' = Live /\ \A s : Works(s)' <=> Works(s)
<1>1. \A h : Meant(h)' = Meant(h)
    BY DEF Meant
<1>2. \A L : Supported(L)' = Supported(L)
    BY <1>1 DEF Supported
<1>3. Live' = Live
    BY <1>2 DEF Live
<1> QED
    BY <1>1, <1>3 DEF Works

\* One lookup consolidated: its working rule stays, its positions are resolved.
LEMMA LiveInvConsolidate == LiveInv /\ ConsolidateLookup => LiveInv'
<1> SUFFICES ASSUME LiveInv, ConsolidateLookup PROVE LiveInv'
    OBVIOUS
<1>1. PICK l \in todo :
        /\ subtables' = [subtables EXCEPT ![l] =
             {Consolidated(s) : s \in {t \in subtables[l] : Survives(t)}}]
        /\ todo' = todo \ {l}
    BY DEF ConsolidateLookup
<1>2. /\ pc = "lookups" /\ pc' = pc /\ source' = source /\ lookups' = lookups
      /\ features' = features /\ refs' = refs /\ langFeatures' = langFeatures
    BY DEF ConsolidateLookup
<1>3. Live' = Live /\ \A s : Works(s)' <=> Works(s)
    BY <1>2, LiveIsFixed
<1>4. /\ l \in lookups /\ l \in DOMAIN subtables
      /\ subtables'[l] = {Consolidated(s) : s \in {t \in subtables[l] : Survives(t)}}
      /\ \A m \in lookups : m # l => subtables'[m] = subtables[m]
    BY <1>1 DEF LiveInv, Shape
<1>5. Shape'
    BY <1>1, <1>2 DEF LiveInv, Shape
<1>6. NoIndex(l)'
  <2> SUFFICES ASSUME NEW s \in subtables'[l], NEW h \in s.apply PROVE h.state # "index"
      BY DEF NoIndex
  <2>1. PICK t : s = Consolidated(t)
      BY <1>4
  <2>2. h \in Applied(t)
      BY <2>1 DEF Consolidated
  <2> QED
      BY <2>2, NoIndexAfter
<1>7. LiveWorks'
  <2> SUFFICES ASSUME NEW m \in Live
               PROVE  m \in lookups /\ \E s \in subtables'[m] : Works(s)
      BY <1>2, <1>3 DEF LiveWorks
  <2>1. m \in lookups /\ \E s \in subtables[m] : Works(s)
      BY DEF LiveInv, LiveWorks
  <2>2. CASE m # l
      BY <1>4, <2>1, <2>2
  <2>3. CASE m = l
    <3>1. PICK s \in subtables[l] : Works(s)
        BY <2>1, <2>3
    <3>2. \A h \in s.apply : h.state = "index" =>
            lookups = DOMAIN source.lookups /\ h.name = Nameless
      <4>1. PlainIndices(l) /\ (lookups = DOMAIN source.lookups \/ NoIndex(l))
          BY <1>4 DEF LiveInv, IndicesFirst
      <4> QED
          BY <3>1, <4>1 DEF PlainIndices, NoIndex
    <3>3. Survives(s) /\ Works(Consolidated(s))
        BY <3>1, <3>2, WorkingRuleSurvives
    <3> QED
        BY <1>4, <2>1, <2>3, <3>1, <3>3
  <2> QED
      BY <2>2, <2>3
<1>8. IndicesFirst'
  <2>1. \A m \in lookups : m # l => /\ NoIndex(m)' <=> NoIndex(m)
                                   /\ PlainIndices(m)' <=> PlainIndices(m)
      BY <1>4 DEF NoIndex, PlainIndices
  <2>2. PlainIndices(l)'
      BY <1>6 DEF NoIndex, PlainIndices
  <2>3. /\ \A m \in lookups : PlainIndices(m)
        /\ lookups = DOMAIN source.lookups \/ \A m \in lookups : NoIndex(m)
        /\ \A m \in lookups \ todo : NoIndex(m)
      BY <1>2 DEF LiveInv, IndicesFirst
  <2> QED
      BY <1>1, <1>2, <1>6, <2>1, <2>2, <2>3 DEF IndicesFirst
<1> QED
    BY <1>2, <1>5, <1>7, <1>8 DEF LiveInv

\* The other steps leave the subtables alone; DisposeEmpty drops only lookups that
\* have none, and a live one has its working rule.
LEMMA LiveInvStep == LiveInv /\ [Next]_vars => LiveInv'
<1> SUFFICES ASSUME LiveInv, [Next]_vars PROVE LiveInv'
    OBVIOUS
<1>1. CASE ConsolidateLookup
    BY <1>1, LiveInvConsolidate
<1>2. CASE ~ConsolidateLookup
  <2>1. source' = source /\ subtables' = subtables
      BY <1>2 DEF Next, BeginRound, FilterLookupRefs, FilterFeatureRefs, DisposeEmpty, EndRound,
                  WriteTable, Done, vars
  <2>2. Live' = Live /\ \A s : Works(s)' <=> Works(s)
      BY <2>1, LiveIsFixed
  <2>3. \A l : /\ NoIndex(l)' <=> NoIndex(l)
               /\ PlainIndices(l)' <=> PlainIndices(l)
      BY <2>1 DEF NoIndex, PlainIndices
  <2>4. CASE DisposeEmpty
    <3>1. /\ lookups' = {l \in lookups : subtables[l] # {}}
          /\ pc = "dispose" /\ pc' = "check"
        BY <2>4 DEF DisposeEmpty
    <3>2. LiveWorks'
        BY <2>1, <2>2, <3>1 DEF LiveInv, LiveWorks
    <3>3. IndicesFirst'
        BY <2>3, <3>1 DEF LiveInv, IndicesFirst
    <3>4. Shape'
        BY <2>4 DEF LiveInv, Shape, DisposeEmpty
    <3> QED
        BY <2>1, <3>2, <3>3, <3>4 DEF LiveInv
  <2>5. CASE ~DisposeEmpty
    <3>1. lookups' = lookups
        BY <1>2, <2>5 DEF Next, BeginRound, FilterLookupRefs, FilterFeatureRefs, EndRound,
                          WriteTable, Done, vars
    <3>2. LiveWorks'
        BY <2>1, <2>2, <3>1 DEF LiveInv, LiveWorks
    <3>3. Shape'
        BY <1>2, <2>5 DEF LiveInv, Shape, Next, BeginRound, FilterLookupRefs, FilterFeatureRefs,
                          EndRound, WriteTable, Done, vars
    <3>4. IndicesFirst'
      <4>1. \/ pc' = "lookups" /\ (todo' = lookups \/ (pc = "lookups" /\ todo' = todo))
            \/ pc' # "lookups"
          BY <1>2, <2>5 DEF Next, BeginRound, FilterLookupRefs, FilterFeatureRefs, EndRound,
                            WriteTable, Done, vars
      <4>2. pc' \notin {"begin", "lookups"} => \A l \in lookups : NoIndex(l)
          BY <1>2, <2>5 DEF LiveInv, IndicesFirst, Shape, Next, BeginRound, FilterLookupRefs,
                            FilterFeatureRefs, EndRound, WriteTable, Done, vars
      <4>3. /\ \A l \in lookups : PlainIndices(l)
            /\ lookups = DOMAIN source.lookups \/ \A l \in lookups : NoIndex(l)
            /\ pc = "lookups" => \A l \in lookups \ todo : NoIndex(l)
          BY DEF LiveInv, IndicesFirst
      <4>4. (\A l \in lookups : PlainIndices(l))'
          BY <2>3, <3>1, <4>3
      <4>5. (\/ lookups = DOMAIN source.lookups /\ pc \in {"begin", "lookups"}
             \/ \A l \in lookups : NoIndex(l))'
        <5>1. (lookups = DOMAIN source.lookups \/ \A l \in lookups : NoIndex(l))'
            BY <2>1, <2>3, <3>1, <4>3
        <5>2. CASE pc' \in {"begin", "lookups"}
            BY <5>1, <5>2
        <5>3. CASE pc' \notin {"begin", "lookups"}
            BY <2>3, <3>1, <4>2, <5>3
        <5> QED
            BY <5>2, <5>3
      <4>6. (pc = "lookups" => \A l \in lookups \ todo : NoIndex(l))'
          BY <2>3, <3>1, <4>1, <4>3
      <4> QED
          BY <4>4, <4>5, <4>6 DEF IndicesFirst
    <3> QED
        BY <2>1, <3>2, <3>3, <3>4 DEF LiveInv
  <2> QED
      BY <2>4, <2>5
<1> QED
    BY <1>1, <1>2

\* Consolidation never removes a lookup that the rest of the table keeps in use.
THEOREM NothingLiveIsLost == Spec => []LiveKept
<1>1. LiveInv => LiveKept
    BY DEF LiveInv, LiveWorks, LiveKept
<1> QED
    BY LiveInvInit, LiveInvStep, <1>1, PTL DEF Spec
-----------------------------------------------------------------------------
(***************************************************************************)
(* ReadBack.  A position is a rank, and the ranks of the members of a list *)
(* are the numbers below its length, each that of one member.              *)
(***************************************************************************)

PositionsNumber(S) ==
  /\ Cardinality(S) \in Nat
  /\ \A x \in S : Position(x, S) \in 0..(Cardinality(S) - 1)
  /\ \A x, y \in S : Position(x, S) = Position(y, S) => x = y
  /\ \A k \in 0..(Cardinality(S) - 1) : \E x \in S : Position(x, S) = k

LEMMA ListIsNumbered ==
  ASSUME NEW S, S \subseteq Nat, IsFiniteSet(S)
  PROVE  PositionsNumber(S)
<1>1. StrictTotalOrder(LessThan, S)
    BY DEF StrictTotalOrder, LessThan
<1>2. \A x \in S : Position(x, S) = RankIn(LessThan, S, x)
  <2> TAKE x \in S
  <2>1. {y \in S : y < x} = {y \in S : <<y, x>> \in LessThan}
      BY DEF LessThan
  <2> QED
      BY <2>1 DEF Position, RankIn
<1>3. RanksNumber(LessThan, S)
    BY <1>1, TotalOrderNumbers
<1> QED
    BY <1>2, <1>3 DEF RanksNumber, PositionsNumber

\* What is at a position is the member that has it.
LEMMA AtPositionIsThere ==
  ASSUME NEW S, S \subseteq Nat, IsFiniteSet(S), NEW k \in 0..(Cardinality(S) - 1)
  PROVE  AtPosition(k, S) \in S /\ Position(AtPosition(k, S), S) = k
  BY ListIsNumbered DEF AtPosition, PositionsNumber

\* The written table is the one that the lists make.
Written ==
  pc = "written" =>
    /\ \A f \in features :
         table.features[f] = {Position(l, lookups) : l \in refs[f] \cap lookups}
    /\ \A l \in DOMAIN langFeatures :
         /\ table.languages[l].required = FeatureIndex(source.languages[l].required)
         /\ table.languages[l].features = {FeatureIndex(f) : f \in langFeatures[l]}

WrittenInv == RefsInv /\ IsTable(source) /\ Written

LEMMA WrittenInvInit == Init => WrittenInv
<1> SUFFICES ASSUME Init PROVE WrittenInv
    OBVIOUS
<1>1. IsTable(source)
    BY TablesAreClosed DEF Init
<1>2. Written
    BY DEF Init, Written
<1> QED
    BY <1>1, <1>2, RefsInvInit DEF WrittenInv

LEMMA WrittenInvStep == WrittenInv /\ [Next]_vars => WrittenInv'
<1> SUFFICES ASSUME WrittenInv, [Next]_vars PROVE WrittenInv'
    OBVIOUS
<1>1. RefsInv'
    BY RefsInvStep DEF WrittenInv
<1>2. source' = source
    BY DEF Next, BeginRound, ConsolidateLookup, FilterLookupRefs, FilterFeatureRefs, DisposeEmpty,
           EndRound, WriteTable, Done, vars
<1>3. Written'
  <2>1. CASE WriteTable
    <3>1. UNCHANGED <<source, lookups, features, refs, langFeatures>>
        BY <2>1 DEF WriteTable
    <3>2. \A f : FeatureIndex(f)' = FeatureIndex(f)
        BY <3>1 DEF FeatureIndex
    <3> QED
        BY <2>1, <3>1, <3>2 DEF WriteTable, Written
  <2>2. CASE UNCHANGED vars
    <3>1. \A f : FeatureIndex(f)' = FeatureIndex(f)
        BY <2>2 DEF FeatureIndex, vars
    <3> QED
        BY <2>2, <3>1 DEF Written, WrittenInv, vars
  <2>3. CASE ~WriteTable /\ vars' # vars
      BY <2>3 DEF Next, BeginRound, ConsolidateLookup, FilterLookupRefs, FilterFeatureRefs,
                  DisposeEmpty, EndRound, Done, Written
  <2> QED
      BY <2>1, <2>2, <2>3 DEF vars
<1> QED
    BY <1>1, <1>2, <1>3 DEF WrittenInv

\* Positions of some of a list's members lead back to just these.
PositionsReadBack(X, S) ==
  /\ {Position(x, S) : x \in X} \subseteq 0..(Cardinality(S) - 1)
  /\ {x \in S : Position(x, S) \in {Position(y, S) : y \in X}} = X

LEMMA MembersReadBack ==
  ASSUME NEW S, S \subseteq Nat, IsFiniteSet(S), NEW X, X \subseteq S
  PROVE  PositionsReadBack(X, S)
<1>1. /\ \A x \in S : Position(x, S) \in 0..(Cardinality(S) - 1)
      /\ \A x, y \in S : Position(x, S) = Position(y, S) => x = y
    BY ListIsNumbered DEF PositionsNumber
<1>2. {Position(x, S) : x \in X} \subseteq 0..(Cardinality(S) - 1)
    BY <1>1
<1>3. ASSUME NEW x \in S
      PROVE  Position(x, S) \in {Position(y, S) : y \in X} <=> x \in X
    BY <1>1
<1> QED
    BY <1>2, <1>3 DEF PositionsReadBack

(* A reader of the written table gets the consolidated one, for tables     *)
(* whose features a tableid_t can count: the index that stands for no      *)
(* feature is then no feature's.                                           *)
THEOREM WrittenTableReadsBack == Spec => []ReadBack
<1>1. ASSUME WrittenInv, pc = "written" PROVE ReadBack
  <2> USE <1>1
  <2>1. /\ lookups \subseteq Nat /\ IsFiniteSet(lookups)
        /\ features \subseteq Nat /\ IsFiniteSet(features)
        /\ Cardinality(features) <= Cardinality(DOMAIN source.features)
        /\ Cardinality(features) \in Nat /\ Cardinality(DOMAIN source.features) \in Nat
      BY FS_Subset, FS_CardinalityType DEF WrittenInv, RefsInv, Shape, IsTable
  <2>2. ASSUME NEW f \in features
        PROVE  /\ table.features[f] \subseteq 0..(Cardinality(lookups) - 1)
               /\ {x \in lookups : Position(x, lookups) \in table.features[f]} = refs[f]
    <3>1. /\ refs[f] \subseteq lookups
          /\ table.features[f] = {Position(l, lookups) : l \in refs[f]}
        BY DEF WrittenInv, RefsInv, RefsAlive, Written
    <3>2. PositionsReadBack(refs[f], lookups)
        BY <2>1, <3>1, MembersReadBack
    <3> QED
        BY <3>1, <3>2 DEF PositionsReadBack
  <2>3. ASSUME NEW l \in DOMAIN langFeatures
        PROVE  LET lang == table.languages[l]
               IN /\ lang.features \subseteq 0..(Cardinality(features) - 1)
                  /\ {x \in features : Position(x, features) \in lang.features} = langFeatures[l]
                  /\ {x \in features : Position(x, features) \in {lang.required}}
                       = {source.languages[l].required} \cap features
    <3> DEFINE lang == table.languages[l]
               r == source.languages[l].required
    <3>1. langFeatures[l] \subseteq features
        BY DEF WrittenInv, RefsInv, RefsAlive
    <3>2. lang.features = {Position(f, features) : f \in langFeatures[l]}
        BY <3>1 DEF WrittenInv, Written, FeatureIndex
    <3>3. PositionsReadBack(langFeatures[l], features)
        BY <2>1, <3>1, MembersReadBack
    <3>4. lang.required = IF r \in features THEN Position(r, features) ELSE NoFeature
        BY DEF WrittenInv, Written, FeatureIndex
    <3>5. /\ \A x \in features : Position(x, features) \in 0..(Cardinality(features) - 1)
          /\ \A x, y \in features : Position(x, features) = Position(y, features) => x = y
        BY <2>1, ListIsNumbered DEF PositionsNumber
    <3>6. Cardinality(features) <= NoFeature /\ Cardinality(features) \in Nat /\ NoFeature \in Nat
        BY <2>1 DEF WrittenInv, IsTable, NoFeature
    <3>7. \A x \in features : Position(x, features) # NoFeature
        BY <3>5, <3>6
    <3>8. {x \in features : Position(x, features) \in {lang.required}} = {r} \cap features
      <4> HIDE DEF lang, r
      <4>1. CASE r \in features
          BY <3>4, <3>5, <4>1
      <4>2. CASE r \notin features
          BY <3>4, <3>7, <4>2
      <4> QED
          BY <4>1, <4>2
    <3> QED
        BY <3>2, <3>3, <3>8 DEF PositionsReadBack
  <2> QED
      BY <2>2, <2>3 DEF ReadBack
<1>2. WrittenInv => ReadBack
    BY <1>1 DEF ReadBack
<1> QED
    BY WrittenInvInit, WrittenInvStep, <1>2, PTL DEF Spec
-----------------------------------------------------------------------------
(***************************************************************************)
(* ExactResult.  What a lookup holds is at all times an image of its rules *)
(* in the source: those that can work with the applications not yet        *)
(* rejected, each application by name and position.  An application is     *)
(* rejected only when the lookup it means is gone or has no subtables      *)
(* left, which is for good.  A round that removes nothing has made every   *)
(* image with the list as it is, and such a list supports itself.          *)
(***************************************************************************)

\* The lookups of the list that have subtables left.
Alive == {m \in lookups : subtables[m] # {}}

Handles(l) == UNION {s.apply : s \in source.lookups[l]}

\* A rule of the source with the applications A, at their positions in the list P.
ImageOf(s, A, P) ==
  [possible |-> s.possible,
   apply |-> {Handle("consolidated", Meant(h), Position(Meant(h), P)) : h \in s.apply \cap A}]

WorksWith(s, A) == s.possible /\ (s.apply # {} => s.apply \cap A # {})

Image(l, A, P) == {ImageOf(s, A, P) : s \in {t \in source.lookups[l] : WorksWith(t, A)}}

\* Applications of l, none rejected that means a lookup with subtables.
Accepted(l, A) ==
  /\ A \subseteq Handles(l)
  /\ \A h \in A : Meant(h) \in DOMAIN source.lookups
  /\ \A h \in Handles(l) : Meant(h) \in Alive => h \in A

HasImage(l) == \E A, P : Accepted(l, A) /\ subtables[l] = Image(l, A, P)

\* The image was made with the list as it is.
Fresh(l) ==
  \E A : Accepted(l, A) /\ (\A h \in A : Meant(h) \in lookups) /\ subtables[l] = Image(l, A, lookups)

Untouched(l) ==
  /\ lookups = DOMAIN source.lookups /\ subtables[l] = source.lookups[l]
  /\ pc = "begin" \/ (pc = "lookups" /\ l \in todo)

Images == \A l \in lookups : HasImage(l) \/ Untouched(l)

Rounds ==
  /\ pc = "lookups" => \A l \in lookups \ todo : Fresh(l)
  /\ pc \in {"languages", "dispose", "consolidated", "written"} => \A l \in lookups : Fresh(l)
  /\ pc = "check" /\ Cardinality(lookups) >= lutN => \A l \in lookups : Fresh(l)
  /\ pc \in {"lookups", "languages", "dispose"} => lutN = Cardinality(lookups)
  /\ pc \in {"check", "consolidated", "written"} =>
       /\ \A l \in lookups : subtables[l] # {}
       /\ \A f \in features : refs[f] # {}

\* References are those of the source to what is still there.
RefsOfSource ==
  /\ \A f \in features : refs[f] \subseteq source.features[f]
  /\ \A f \in features : \A m \in source.features[f] : m \in Alive => m \in refs[f]
  /\ LiveFeatures \subseteq features
  /\ \A g \in DOMAIN langFeatures :
       /\ langFeatures[g] \subseteq source.languages[g].features
       /\ \A f \in source.languages[g].features :
            f \in features /\ refs[f] # {} => f \in langFeatures[g]

ExactInv == RefsInv /\ LiveInv /\ Images /\ Rounds /\ RefsOfSource

LEMMA ExactInvInit == Init => ExactInv
<1> SUFFICES ASSUME Init PROVE ExactInv
    OBVIOUS
<1>1. RefsInv /\ LiveInv
    BY RefsInvInit, LiveInvInit
<1>2. Images
    BY DEF Init, Images, Untouched
<1>3. Rounds
    BY DEF Init, Rounds
<1>4. RefsOfSource
    BY DEF Init, RefsOfSource, LiveFeatures
<1> QED
    BY <1>1, <1>2, <1>3, <1>4 DEF ExactInv

\* A consolidated application that is consolidated again: it stays, at its new
\* position, while the lookup it names has subtables.
LEMMA AppliedAgain ==
  ASSUME ExactInv, NEW l \in lookups, NEW A, Accepted(l, A), NEW P, NEW s \in source.lookups[l],
         NEW B, B = {h \in A : Meant(h) \in Alive}
  PROVE  Applied(ImageOf(s, A, P)) = ImageOf(s, B, lookups).apply
<1> DEFINE t == ImageOf(s, A, P)
           old(h) == Handle("consolidated", Meant(h), Position(Meant(h), P))
           new(h) == Handle("consolidated", Meant(h), Position(Meant(h), lookups))
<1>1. t.apply = {old(h) : h \in s.apply \cap A}
    BY DEF ImageOf
<1>2. ImageOf(s, B, lookups).apply = {new(h) : h \in s.apply \cap B}
    BY DEF ImageOf
<1>3. ASSUME NEW h \in A
      PROVE  /\ Meant(h) \in Alive => Resolved(old(h)) = new(h) /\ new(h).name # Nameless
             /\ Meant(h) \notin Alive => Resolved(old(h)).name = Nameless
  <2>1. Meant(h) # Nameless
      BY NamesAreNotNumbers DEF ExactInv, LiveInv, IsTable, Accepted
  <2> QED
      BY <2>1 DEF Resolved, Handle, EmptyHandle, Alive
<1>4. Applied(t) \subseteq {new(h) : h \in s.apply \cap B}
  <2> SUFFICES ASSUME NEW g \in t.apply, Resolved(g).name # Nameless
               PROVE  Resolved(g) \in {new(h) : h \in s.apply \cap B}
      BY DEF Applied
  <2>1. PICK h \in s.apply \cap A : g = old(h)
      BY <1>1
  <2>2. Meant(h) \in Alive /\ Resolved(g) = new(h)
      BY <1>3, <2>1
  <2> QED
      BY <2>1, <2>2
<1>5. {new(h) : h \in s.apply \cap B} \subseteq Applied(t)
  <2> SUFFICES ASSUME NEW h \in s.apply \cap B PROVE new(h) \in Applied(t)
      OBVIOUS
  <2>1. old(h) \in t.apply /\ Resolved(old(h)) = new(h) /\ new(h).name # Nameless
      BY <1>1, <1>3
  <2> QED
      BY <2>1 DEF Applied
<1> QED
    BY <1>2, <1>4, <1>5

LEMMA ConsolidatedAgain ==
  ASSUME ExactInv, NEW l \in lookups, NEW A, Accepted(l, A), NEW P, subtables[l] = Image(l, A, P),
         NEW B, B = {h \in A : Meant(h) \in Alive}
  PROVE  {Consolidated(t) : t \in {u \in subtables[l] : Survives(u)}} = Image(l, B, lookups)
<1>1. ASSUME NEW s \in source.lookups[l], WorksWith(s, A)
      PROVE  /\ Consolidated(ImageOf(s, A, P)) = ImageOf(s, B, lookups)
             /\ Survives(ImageOf(s, A, P)) <=> WorksWith(s, B)
  <2> DEFINE t == ImageOf(s, A, P)
  <2>1. Applied(t) = ImageOf(s, B, lookups).apply
      BY AppliedAgain
  <2>2. t.possible = s.possible /\ (t.apply = {} <=> s.apply \cap A = {})
      BY DEF ImageOf
  <2>3. Consolidated(t) = ImageOf(s, B, lookups)
      BY <2>1, <2>2 DEF Consolidated, ImageOf
  <2>4. ImageOf(s, B, lookups).apply = {} <=> s.apply \cap B = {}
      BY DEF ImageOf
  <2>5. s.apply # {} => t.apply # {}
      BY <1>1, <2>2 DEF WorksWith
  <2>6. s.apply = {} => t.apply = {}
      BY <2>2
  <2>7. Survives(t) <=> WorksWith(s, B)
      BY <2>1, <2>2, <2>4, <2>5, <2>6 DEF Survives, WorksWith
  <2> QED
      BY <2>3, <2>7
<1>2. \A s : WorksWith(s, B) => WorksWith(s, A)
    BY DEF WorksWith
<1>3. \A t : t \in subtables[l] <=> \E s \in source.lookups[l] : WorksWith(s, A) /\ t = ImageOf(s, A, P)
    BY DEF Image
<1>4. \A c : c \in Image(l, B, lookups) <=>
               \E s \in source.lookups[l] : WorksWith(s, B) /\ c = ImageOf(s, B, lookups)
    BY DEF Image
<1>5. ASSUME NEW c
      PROVE  (\E t \in subtables[l] : Survives(t) /\ c = Consolidated(t)) <=> c \in Image(l, B, lookups)
  <2>1. ASSUME NEW t \in subtables[l], Survives(t), c = Consolidated(t)
        PROVE  c \in Image(l, B, lookups)
      BY <1>1, <1>3, <1>4, <2>1
  <2>2. ASSUME c \in Image(l, B, lookups)
        PROVE  \E t \in subtables[l] : Survives(t) /\ c = Consolidated(t)
    <3>1. PICK s \in source.lookups[l] : WorksWith(s, B) /\ c = ImageOf(s, B, lookups)
        BY <1>4, <2>2
    <3>2. WorksWith(s, A)
        BY <1>2, <3>1
    <3> QED
        BY <1>1, <1>3, <3>1, <3>2
  <2> QED
      BY <2>1, <2>2
<1> QED
    BY <1>5

\* The first time around, a position is taken for what it means in the source,
\* whether that lookup has subtables left or not.
LEMMA AppliedFirst ==
  ASSUME ExactInv, NEW l \in lookups, Untouched(l), NEW s \in source.lookups[l],
         NEW B, B = {h \in Handles(l) : Meant(h) \in lookups /\ (h.state = "index" \/ Meant(h) \in Alive)}
  PROVE  Applied(s) = ImageOf(s, B, lookups).apply
<1> DEFINE new(h) == Handle("consolidated", Meant(h), Position(Meant(h), lookups))
<1>1. ImageOf(s, B, lookups).apply = {new(h) : h \in s.apply \cap B}
    BY DEF ImageOf
<1>2. /\ lookups = DOMAIN source.lookups /\ lookups \subseteq Nat /\ IsFiniteSet(lookups)
      /\ \A h \in s.apply : IsHandle(h, lookups)
    BY DEF Untouched, ExactInv, LiveInv, IsTable, IsSubtable
<1>3. s.apply \subseteq Handles(l)
    BY DEF Handles
<1>4. ASSUME NEW h \in s.apply
      PROVE  /\ h \in B => Resolved(h) = new(h) /\ new(h).name # Nameless
             /\ h \notin B => Resolved(h).name = Nameless
  <2>1. CASE h.state = "index"
    <3> DEFINE k == IF h.index >= Cardinality(lookups) THEN 0 ELSE h.index
    <3>1. h.name = Nameless /\ h.index \in Nat
        BY <1>2, <2>1 DEF IsHandle
    <3>2. Meant(h) = AtPosition(k, lookups) /\ Resolved(h) = Handle("consolidated", AtPosition(k, lookups), k)
        BY <1>2, <2>1, <3>1 DEF Meant, Resolved
    <3>3. k \in 0..(Cardinality(lookups) - 1)
      <4>1. Cardinality(lookups) \in Nat /\ Cardinality(lookups) # 0
          BY <1>2, FS_CardinalityType, FS_EmptySet
      <4> QED
          BY <3>1, <4>1
    <3>4. Meant(h) \in lookups /\ Position(Meant(h), lookups) = k
        BY <1>2, <3>2, <3>3, AtPositionIsThere
    <3>5. h \in B
        BY <1>3, <2>1, <3>4
    <3> QED
        BY <1>2, <3>2, <3>4, <3>5, NamesAreNotNumbers DEF Handle
  <2>2. CASE h.state # "index"
    <3>1. Meant(h) = h.name
        BY <2>2 DEF Meant
    <3>2. h \in B <=> h.name \in Alive
        BY <1>3, <2>2, <3>1 DEF Alive
    <3>3. h.name \in Alive => h.name # Nameless
        BY <1>2, NamesAreNotNumbers DEF Alive
    <3> QED
        BY <2>2, <3>1, <3>2, <3>3 DEF Resolved, Handle, EmptyHandle, Alive
  <2> QED
      BY <2>1, <2>2
<1>5. Applied(s) \subseteq {new(h) : h \in s.apply \cap B}
  <2> SUFFICES ASSUME NEW g \in s.apply, Resolved(g).name # Nameless
               PROVE  Resolved(g) \in {new(h) : h \in s.apply \cap B}
      BY DEF Applied
  <2>1. g \in B /\ Resolved(g) = new(g)
      BY <1>4
  <2> QED
      BY <2>1
<1>6. {new(h) : h \in s.apply \cap B} \subseteq Applied(s)
  <2> SUFFICES ASSUME NEW h \in s.apply \cap B PROVE new(h) \in Applied(s)
      OBVIOUS
  <2>1. Resolved(h) = new(h) /\ new(h).name # Nameless
      BY <1>4
  <2> QED
      BY <2>1 DEF Applied
<1> QED
    BY <1>1, <1>5, <1>6

LEMMA ConsolidatedFirst ==
  ASSUME ExactInv, NEW l \in lookups, Untouched(l),
         NEW B, B = {h \in Handles(l) : Meant(h) \in lookups /\ (h.state = "index" \/ Meant(h) \in Alive)}
  PROVE  {Consolidated(s) : s \in {u \in subtables[l] : Survives(u)}} = Image(l, B, lookups)
<1>1. ASSUME NEW s \in source.lookups[l]
      PROVE  /\ Consolidated(s) = ImageOf(s, B, lookups)
             /\ Survives(s) <=> WorksWith(s, B)
  <2>1. Applied(s) = ImageOf(s, B, lookups).apply
      BY AppliedFirst
  <2>2. Consolidated(s) = ImageOf(s, B, lookups)
      BY <2>1 DEF Consolidated, ImageOf
  <2>3. ImageOf(s, B, lookups).apply = {} <=> s.apply \cap B = {}
      BY DEF ImageOf
  <2> QED
      BY <2>1, <2>2, <2>3 DEF Survives, WorksWith
<1>2. subtables[l] = source.lookups[l]
    BY DEF Untouched
<1> QED
    BY <1>1, <1>2 DEF Image

\* No step changes the source, nor what is said of it alone.
LEMMA ImagesAreFixed ==
  ASSUME source' = source
  PROVE  /\ \A h : Meant(h)' = Meant(h)
         /\ \A l : Handles(l)' = Handles(l)
         /\ \A l, A, P : Image(l, A, P)' = Image(l, A, P)
         /\ LiveFeatures' = LiveFeatures
<1>1. \A h : Meant(h)' = Meant(h)
    BY DEF Meant
<1>2. \A s, A, P : ImageOf(s, A, P)' = ImageOf(s, A, P)
    BY <1>1 DEF ImageOf
<1>3. \A l, A, P : Image(l, A, P)' = Image(l, A, P)
    BY <1>2 DEF Image
<1>4. LiveFeatures' = LiveFeatures
    BY LiveIsFixed DEF LiveFeatures
<1> QED
    BY <1>1, <1>3, <1>4 DEF Handles

\* An image stays one when its lookup is left alone: what is rejected stays so.
LEMMA ImageStays ==
  ASSUME source' = source, Alive' \subseteq Alive, NEW l, subtables'[l] = subtables[l]
  PROVE  /\ \A A : Accepted(l, A) => Accepted(l, A)'
         /\ HasImage(l) => HasImage(l)'
         /\ lookups' = lookups /\ Fresh(l) => Fresh(l)'
<1>1. \A A : Accepted(l, A) => Accepted(l, A)'
    BY ImagesAreFixed DEF Accepted
<1>2. HasImage(l) => HasImage(l)'
    BY <1>1, ImagesAreFixed DEF HasImage
<1>3. lookups' = lookups /\ Fresh(l) => Fresh(l)'
  <2> SUFFICES ASSUME lookups' = lookups, Fresh(l) PROVE Fresh(l)'
      OBVIOUS
  <2>1. PICK A : Accepted(l, A) /\ (\A h \in A : Meant(h) \in lookups) /\ subtables[l] = Image(l, A, lookups)
      BY DEF Fresh
  <2>2. Image(l, A, lookups)' = Image(l, A, lookups)
      BY DEF Image, ImageOf, Meant
  <2>3. Accepted(l, A)' /\ (\A h \in A : Meant(h)' \in lookups')
      BY <1>1, <2>1, ImagesAreFixed
  <2> QED
      BY <2>1, <2>2, <2>3 DEF Fresh
<1> QED
    BY <1>1, <1>2, <1>3

\* A fresh image is one.
LEMMA FreshIsImage == \A l : Fresh(l) => HasImage(l)
    BY DEF Fresh, HasImage

\* A lookup without subtables gets none, and a lookup once gone is gone.
LEMMA AliveShrinks == ExactInv /\ [Next]_vars => Alive' \subseteq Alive
<1> SUFFICES ASSUME ExactInv, [Next]_vars PROVE Alive' \subseteq Alive
    OBVIOUS
<1>1. CASE ConsolidateLookup
  <2>1. PICK l \in todo :
          subtables' = [subtables EXCEPT ![l] =
            {Consolidated(s) : s \in {t \in subtables[l] : Survives(t)}}]
      BY <1>1 DEF ConsolidateLookup
  <2>2. lookups' = lookups
      BY <1>1 DEF ConsolidateLookup
  <2>3. lookups \subseteq DOMAIN subtables
      BY DEF ExactInv, RefsInv, Shape
  <2>4. \A m \in lookups : subtables[m] = {} => subtables'[m] = {}
      BY <2>1, <2>3
  <2> QED
      BY <2>2, <2>4 DEF Alive
<1>2. CASE ~ConsolidateLookup
  <2>1. subtables' = subtables /\ lookups' \subseteq lookups
      BY <1>2 DEF Next, BeginRound, FilterLookupRefs, FilterFeatureRefs, DisposeEmpty, EndRound,
                  WriteTable, Done, vars
  <2> QED
      BY <2>1 DEF Alive
<1> QED
    BY <1>1, <1>2

\* Consolidation of one lookup makes its image fresh.
LEMMA BecomesFresh ==
  ASSUME ExactInv, NEW l \in lookups, pc = "lookups", Alive' \subseteq Alive,
         source' = source, lookups' = lookups,
         subtables'[l] = {Consolidated(s) : s \in {t \in subtables[l] : Survives(t)}}
  PROVE  Fresh(l)'
<1>1. \A B : Image(l, B, lookups)' = Image(l, B, lookups)
    BY DEF Image, ImageOf, Meant
<1>2. ASSUME NEW B, B \subseteq Handles(l), \A h \in B : Meant(h) \in lookups,
             \A h \in Handles(l) : Meant(h) \in Alive => h \in B,
             subtables'[l] = Image(l, B, lookups)
      PROVE  Fresh(l)'
  <2>1. lookups \subseteq DOMAIN source.lookups
      BY DEF ExactInv, RefsInv, Shape
  <2>2. Accepted(l, B)'
      BY <1>2, <2>1, ImagesAreFixed DEF Accepted
  <2>3. \A h \in B : Meant(h)' \in lookups'
      BY <1>2, ImagesAreFixed
  <2> QED
      BY <1>1, <1>2, <2>2, <2>3 DEF Fresh
<1>3. CASE HasImage(l)
  <2>1. PICK A, P : Accepted(l, A) /\ subtables[l] = Image(l, A, P)
      BY <1>3 DEF HasImage
  <2> DEFINE B == {h \in A : Meant(h) \in Alive}
  <2>2. subtables'[l] = Image(l, B, lookups)
      BY <2>1, ConsolidatedAgain
  <2>3. /\ B \subseteq Handles(l) /\ \A h \in B : Meant(h) \in lookups
        /\ \A h \in Handles(l) : Meant(h) \in Alive => h \in B
      BY <2>1 DEF Accepted, Alive
  <2> QED
      BY <1>2, <2>2, <2>3
<1>4. CASE Untouched(l)
  <2> DEFINE B == {h \in Handles(l) : Meant(h) \in lookups /\ (h.state = "index" \/ Meant(h) \in Alive)}
  <2>1. subtables'[l] = Image(l, B, lookups)
      BY <1>4, ConsolidatedFirst
  <2>2. /\ B \subseteq Handles(l) /\ \A h \in B : Meant(h) \in lookups
        /\ \A h \in Handles(l) : Meant(h) \in Alive => h \in B
      BY DEF Alive
  <2> QED
      BY <1>2, <2>1, <2>2
<1> QED
    BY <1>3, <1>4 DEF ExactInv, Images

LEMMA ExactInvConsolidate == ExactInv /\ ConsolidateLookup => Images' /\ Rounds' /\ RefsOfSource'
<1> SUFFICES ASSUME ExactInv, ConsolidateLookup PROVE Images' /\ Rounds' /\ RefsOfSource'
    OBVIOUS
<1>1. PICK l \in todo :
        /\ subtables' = [subtables EXCEPT ![l] =
             {Consolidated(s) : s \in {t \in subtables[l] : Survives(t)}}]
        /\ todo' = todo \ {l}
    BY DEF ConsolidateLookup
<1>2. /\ pc = "lookups" /\ pc' = pc /\ source' = source /\ lookups' = lookups
      /\ features' = features /\ refs' = refs /\ langFeatures' = langFeatures /\ lutN' = lutN
    BY DEF ConsolidateLookup
<1>3. /\ l \in lookups
      /\ subtables'[l] = {Consolidated(s) : s \in {t \in subtables[l] : Survives(t)}}
      /\ \A m \in lookups : m # l => subtables'[m] = subtables[m]
    BY <1>1 DEF ExactInv, RefsInv, Shape
<1>4. Alive' \subseteq Alive
    BY AliveShrinks DEF Next
<1>5. Fresh(l)'
    BY <1>2, <1>3, <1>4, BecomesFresh
<1>6. Images'
  <2> SUFFICES ASSUME NEW m \in lookups PROVE HasImage(m)' \/ Untouched(m)'
      BY <1>2 DEF Images
  <2>1. CASE m = l
      BY <1>5, <2>1 DEF Fresh, HasImage
  <2>2. CASE m # l /\ HasImage(m)
      BY <1>2, <1>3, <1>4, <2>2, ImageStays
  <2>3. CASE m # l /\ Untouched(m)
      BY <1>1, <1>2, <1>3, <2>3 DEF Untouched
  <2> QED
      BY <2>1, <2>2, <2>3 DEF ExactInv, Images
<1>7. Rounds'
  <2>1. ASSUME NEW m \in lookups, m \notin todo' PROVE Fresh(m)'
    <3>1. CASE m = l
        BY <1>5, <3>1
    <3>2. CASE m # l
      <4>1. Fresh(m)
          BY <1>1, <1>2, <2>1, <3>2 DEF ExactInv, Rounds
      <4> QED
          BY <1>2, <1>3, <1>4, <3>2, <4>1, ImageStays
    <3> QED
        BY <3>1, <3>2
  <2>2. lutN = Cardinality(lookups)
      BY <1>2 DEF ExactInv, Rounds
  <2> QED
      BY <1>2, <2>1, <2>2 DEF Rounds
<1>8. RefsOfSource'
    BY <1>2, <1>4, ImagesAreFixed DEF ExactInv, RefsOfSource
<1> QED
    BY <1>6, <1>7, <1>8

\* The steps that leave lookups and subtables as they are.
LEMMA ExactInvOther ==
  ASSUME ExactInv, [Next]_vars, ~ConsolidateLookup, ~DisposeEmpty
  PROVE  Images' /\ Rounds' /\ RefsOfSource'
<1>1. source' = source /\ subtables' = subtables /\ lookups' = lookups /\ features' = features
    BY DEF Next, BeginRound, FilterLookupRefs, FilterFeatureRefs, EndRound, WriteTable, Done, vars
<1>2. Alive' \subseteq Alive
    BY AliveShrinks
<1>3. \A l : (HasImage(l) => HasImage(l)') /\ (Fresh(l) => Fresh(l)')
    BY <1>1, <1>2, ImageStays
<1>4. \A l : Untouched(l) /\ ((pc' = pc /\ todo' = todo) \/ (pc' = "lookups" /\ todo' = lookups))
               /\ l \in lookups => Untouched(l)'
    BY <1>1 DEF Untouched
<1>5. LiveFeatures' = LiveFeatures
    BY <1>1, ImagesAreFixed
<1> USE DEF ExactInv
<1>6. CASE BeginRound
  <2>1. pc = "begin" /\ pc' = "lookups" /\ todo' = lookups /\ lutN' = Cardinality(lookups)
        /\ refs' = refs /\ langFeatures' = langFeatures
      BY <1>6 DEF BeginRound
  <2>2. Images'
      BY <1>1, <1>3, <1>4, <2>1 DEF Images
  <2>3. Rounds'
      BY <1>1, <2>1 DEF Rounds
  <2>4. RefsOfSource'
      BY <1>1, <1>2, <1>5, <2>1 DEF RefsOfSource
  <2> QED
      BY <2>2, <2>3, <2>4
<1>7. CASE FilterLookupRefs
  <2>1. pc = "lookups" /\ pc' = "languages" /\ todo = {} /\ lutN' = lutN
        /\ langFeatures' = langFeatures
      BY <1>7 DEF FilterLookupRefs
  <2>2. Images'
      BY <1>1, <1>3, <2>1 DEF Images, Untouched
  <2>3. Rounds'
      BY <1>1, <1>3, <2>1 DEF Rounds
  <2>4. \A f \in features : refs'[f] = {m \in refs[f] : subtables[m] # {}}
      BY <1>7 DEF FilterLookupRefs, Kept, RefsInv, Shape
  <2>5. /\ \A f \in features : refs'[f] \subseteq source.features[f]
        /\ \A f \in features : \A m \in source.features[f] : m \in Alive => m \in refs'[f]
      BY <2>4 DEF RefsOfSource, Alive
  <2>6. \A f \in features : refs'[f] # {} => refs[f] # {}
      BY <2>4
  <2>7. RefsOfSource'
      BY <1>1, <1>2, <1>5, <2>1, <2>5, <2>6 DEF RefsOfSource
  <2> QED
      BY <2>2, <2>3, <2>7
<1>8. CASE FilterFeatureRefs
  <2>1. pc = "languages" /\ pc' = "dispose" /\ lutN' = lutN /\ refs' = refs
      BY <1>8 DEF FilterFeatureRefs
  <2>2. Images'
      BY <1>1, <1>3, <2>1 DEF Images, Untouched
  <2>3. Rounds'
      BY <1>1, <1>3, <2>1 DEF Rounds
  <2>4. /\ DOMAIN langFeatures' = DOMAIN langFeatures
        /\ \A g \in DOMAIN langFeatures : langFeatures'[g] = {f \in langFeatures[g] : refs[f] # {}}
      BY <1>8 DEF FilterFeatureRefs, KeptFeatures
  <2>5. RefsOfSource'
      BY <1>1, <1>2, <1>5, <2>1, <2>4 DEF RefsOfSource
  <2> QED
      BY <2>2, <2>3, <2>5
<1>9. CASE EndRound
  <2>1. pc = "check" /\ pc' = (IF Settled THEN "consolidated" ELSE "begin") /\ lutN' = lutN
        /\ refs' = refs /\ langFeatures' = langFeatures
      BY <1>9 DEF EndRound
  <2>2. Images'
      BY <1>1, <1>3, <2>1 DEF Images, Untouched
  <2>3. Rounds'
      BY <1>1, <1>3, <2>1 DEF Rounds, Settled
  <2>4. RefsOfSource'
      BY <1>1, <1>2, <1>5, <2>1 DEF RefsOfSource
  <2> QED
      BY <2>2, <2>3, <2>4
<1>10. CASE WriteTable
  <2>1. pc = "consolidated" /\ pc' = "written" /\ lutN' = lutN
        /\ refs' = refs /\ langFeatures' = langFeatures
      BY <1>10 DEF WriteTable
  <2>2. Images'
      BY <1>1, <1>3, <2>1 DEF Images, Untouched
  <2>3. Rounds'
      BY <1>1, <1>3, <2>1 DEF Rounds
  <2>4. RefsOfSource'
      BY <1>1, <1>2, <1>5, <2>1 DEF RefsOfSource
  <2> QED
      BY <2>2, <2>3, <2>4
<1>11. CASE UNCHANGED vars
  <2>1. pc' = pc /\ todo' = todo /\ lutN' = lutN /\ refs' = refs /\ langFeatures' = langFeatures
      BY <1>11 DEF vars
  <2>2. Images'
    <3> SUFFICES ASSUME NEW l \in lookups PROVE HasImage(l)' \/ Untouched(l)'
        BY <1>1 DEF Images
    <3>1. CASE HasImage(l)
        BY <1>3, <3>1
    <3>2. CASE Untouched(l)
        BY <1>1, <2>1, <3>2 DEF Untouched
    <3> QED
        BY <3>1, <3>2 DEF Images
  <2>3. Rounds'
      BY <1>1, <1>3, <2>1 DEF Rounds
  <2>4. RefsOfSource'
      BY <1>1, <1>2, <1>5, <2>1 DEF RefsOfSource
  <2> QED
      BY <2>2, <2>3, <2>4
<1> QED
    BY <1>6, <1>7, <1>8, <1>9, <1>10, <1>11 DEF Next, Done

\* The disposal drops lookups without subtables and features without lookups; when
\* there were none, the list is as it was when the images were made.
LEMMA ExactInvDispose == ExactInv /\ DisposeEmpty => Images' /\ Rounds' /\ RefsOfSource'
<1> SUFFICES ASSUME ExactInv, DisposeEmpty PROVE Images' /\ Rounds' /\ RefsOfSource'
    OBVIOUS
<1> USE DEF ExactInv
<1>1. /\ pc = "dispose" /\ pc' = "check" /\ lutN' = lutN
      /\ source' = source /\ subtables' = subtables /\ refs' = refs /\ langFeatures' = langFeatures
      /\ lookups' = {l \in lookups : subtables[l] # {}}
      /\ features' = {f \in features : refs[f] # {}}
    BY DEF DisposeEmpty
<1>2. Alive' \subseteq Alive
    BY AliveShrinks DEF Next
<1>3. \A l : (HasImage(l) => HasImage(l)') /\ (lookups' = lookups /\ Fresh(l) => Fresh(l)')
    BY <1>1, <1>2, ImageStays
<1>4. Images'
    BY <1>1, <1>3 DEF Images, Untouched
<1>5. Rounds'
  <2>1. lutN = Cardinality(lookups) /\ \A l \in lookups : Fresh(l)
      BY <1>1 DEF Rounds
  <2>2. IsFiniteSet(lookups)
      BY FS_Subset DEF LiveInv, IsTable, Shape
  <2>3. Cardinality(lookups') >= lutN => lookups' = lookups
    <3>1. lookups' \in SUBSET lookups
        BY <1>1
    <3>2. /\ Cardinality(lookups') <= Cardinality(lookups)
          /\ Cardinality(lookups') = Cardinality(lookups) => lookups = lookups'
          /\ IsFiniteSet(lookups')
        BY <2>2, <3>1, FS_Subset
    <3>3. Cardinality(lookups) \in Nat /\ Cardinality(lookups') \in Nat
        BY <2>2, <3>2, FS_CardinalityType
    <3> QED
        BY <2>1, <3>2, <3>3
  <2>4. Cardinality(lookups') >= lutN => \A l \in lookups' : Fresh(l)'
      BY <1>3, <2>1, <2>3
  <2> QED
      BY <1>1, <2>4 DEF Rounds
<1>6. RefsOfSource'
  <2>1. \A f \in LiveFeatures : f \in features'
    <3> TAKE f \in LiveFeatures
    <3>1. PICK m \in source.features[f] : m \in Live
        BY DEF LiveFeatures
    <3>2. m \in Alive
        BY <3>1 DEF LiveInv, LiveWorks, Alive
    <3> QED
        BY <1>1, <3>1, <3>2 DEF RefsOfSource
  <2>2. LiveFeatures' = LiveFeatures
      BY <1>1, ImagesAreFixed
  <2> QED
      BY <1>1, <1>2, <2>1, <2>2 DEF RefsOfSource
<1> QED
    BY <1>4, <1>5, <1>6

LEMMA ExactInvStep == ExactInv /\ [Next]_vars => ExactInv'
<1> SUFFICES ASSUME ExactInv, [Next]_vars PROVE ExactInv'
    OBVIOUS
<1>1. RefsInv' /\ LiveInv'
    BY RefsInvStep, LiveInvStep DEF ExactInv
<1>2. Images' /\ Rounds' /\ RefsOfSource'
    BY ExactInvConsolidate, ExactInvDispose, ExactInvOther
<1> QED
    BY <1>1, <1>2 DEF ExactInv

\* Lookups whose images were made with just these lookups support each other.
LEMMA FreshIsLive ==
  ASSUME ExactInv, pc \in {"consolidated", "written"}
  PROVE  lookups = Live
<1>1. \A l \in lookups : Fresh(l) /\ subtables[l] # {}
    BY DEF ExactInv, Rounds
<1>2. ASSUME NEW l \in lookups
      PROVE  \E s \in source.lookups[l] :
               s.possible /\ (s.apply # {} => \E h \in s.apply : Meant(h) \in lookups)
  <2>1. PICK A : (\A h \in A : Meant(h) \in lookups) /\ subtables[l] = Image(l, A, lookups)
      BY <1>1 DEF Fresh
  <2>2. PICK s \in source.lookups[l] : WorksWith(s, A)
      BY <1>1, <2>1 DEF Image
  <2> QED
      BY <2>1, <2>2 DEF WorksWith
<1>3. Supported(lookups) = lookups
    BY <1>2 DEF Supported
<1>4. lookups \in SUBSET DOMAIN source.lookups
    BY DEF ExactInv, RefsInv, Shape
<1>5. lookups \subseteq Live
    BY <1>3, <1>4 DEF Live
<1>6. Live \subseteq lookups
    BY DEF ExactInv, LiveInv, LiveWorks
<1> QED
    BY <1>5, <1>6

(* Consolidation ends with exactly what is live, whatever refers to what   *)
(* and however many rounds it takes, and every position it leaves in a     *)
(* rule is one in the final list.                                          *)
THEOREM ResultIsExact == Spec => []ExactResult
<1>1. ASSUME ExactInv, pc \in {"consolidated", "written"} PROVE ExactResult
  <2> USE <1>1
  <2>1. lookups = Live
      BY FreshIsLive
  <2>2. /\ \A l \in lookups : subtables[l] # {}
        /\ \A f \in features : refs[f] # {}
        /\ Alive = lookups
      BY DEF ExactInv, Rounds, Alive
  <2>3. \A f \in features : refs[f] = source.features[f] \cap Live
      BY <2>1, <2>2 DEF ExactInv, RefsOfSource, RefsInv, RefsAlive
  <2>4. features = LiveFeatures
      BY <2>2, <2>3 DEF ExactInv, RefsInv, Shape, RefsOfSource, LiveFeatures
  <2>5. \A g \in DOMAIN langFeatures :
          langFeatures[g] = source.languages[g].features \cap features
      BY <2>2 DEF ExactInv, RefsOfSource, RefsInv, RefsAlive
  <2>6. ASSUME NEW l \in lookups
        PROVE  subtables[l] = {Reduced(s) : s \in {t \in source.lookups[l] :
                                 t.possible /\ (t.apply # {} => Reduced(t).apply # {})}}
    <3>1. PICK A : /\ Accepted(l, A) /\ (\A h \in A : Meant(h) \in lookups)
                   /\ subtables[l] = Image(l, A, lookups)
        BY DEF ExactInv, Rounds, Fresh
    <3>2. ASSUME NEW s \in source.lookups[l]
          PROVE  /\ ImageOf(s, A, lookups) = Reduced(s)
                 /\ WorksWith(s, A) <=> s.possible /\ (s.apply # {} => Reduced(s).apply # {})
      <4>1. s.apply \cap A = {h \in s.apply : Meant(h) \in Live}
          BY <2>1, <2>2, <3>1 DEF Accepted, Handles
      <4>2. ImageOf(s, A, lookups) = Reduced(s)
          BY <2>1, <4>1 DEF ImageOf, Reduced
      <4>3. Reduced(s).apply = {} <=> s.apply \cap A = {}
          BY <4>1 DEF Reduced
      <4> QED
          BY <4>2, <4>3 DEF WorksWith
    <3> QED
        BY <3>1, <3>2 DEF Image
  <2> QED
      BY <2>1, <2>3, <2>4, <2>5, <2>6 DEF ExactResult
<1>2. ExactInv => ExactResult
    BY <1>1 DEF ExactResult
<1> QED
    BY ExactInvInit, ExactInvStep, <1>2, PTL DEF Spec
================================================================================
