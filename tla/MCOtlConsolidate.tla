--------------------------- MODULE MCOtlConsolidate ---------------------------
(***************************************************************************)
(* Small tables for OtlConsolidate.  Tables parsed from JSON refer to      *)
(* lookups by name, tables read from a font by position.                   *)
(***************************************************************************)
EXTENDS OtlConsolidate

CONSTANTS
  N,        \* the number of lookups
  Applies   \* how many lookups a rule may apply

Lists(S, n) == {T \in SUBSET S : Cardinality(T) <= n}

ByName == {Handle("name", l, 0) : l \in (1..N) \union {Unknown}} \union {EmptyHandle}
ByIndex == {Handle("index", Nameless, k) : k \in 0..N}

Rules(handles) ==
  {[possible |-> TRUE, apply |-> a] : a \in Lists(handles, Applies)}
    \union {[possible |-> FALSE, apply |-> {}]}

\* Up to two rules in the first lookup, up to one in the others.
LookupLists(handles) ==
  {s \in [1..N -> Lists(Rules(handles), 2)] : \A l \in 2..N : Cardinality(s[l]) <= 1}

\* Two features, of which one may lose all it refers to, and two languages, of
\* which one requires it.
FeatureLists == {<<{1, N}, {2}>>, <<{1}, {N}>>}
LanguageLists == {<<[required |-> 1, features |-> {1, 2}], [required |-> None, features |-> {1}]>>}

MCTables ==
  {[lookups |-> lk, features |-> ft, languages |-> lg] :
     lk \in LookupLists(ByName) \union LookupLists(ByIndex), ft \in FeatureLists,
     lg \in LanguageLists}
================================================================================
