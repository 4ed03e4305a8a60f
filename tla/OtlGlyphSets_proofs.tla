------------------------- MODULE OtlGlyphSets_proofs -------------------------
(***************************************************************************)
(* What the writer makes of a coverage or of a class definition is what    *)
(* the reader reads, for every glyph order.                                *)
(*                                                                         *)
(* Sorting keeps what it sorts, the ranges of a format are the runs of the *)
(* sorted glyphs, and the reader takes each range apart again.  Numbers    *)
(* come back from their 16-bit cells because glyphs are fewer than 65536.  *)
(***************************************************************************)
EXTENDS OtlGlyphSets, OrderLemmas, SequenceTheorems, TLAPS

-----------------------------------------------------------------------------
(* Sequences, and what stands where in them.                               *)

IsSeq(s) == \E X : s \in Seq(X)

\* The elements of S in the order R.
Enumerates(f, R, S) ==
  /\ Cardinality(S) \in Nat /\ Len(f) = Cardinality(S) /\ DOMAIN f = 1..Len(f) /\ f \in Seq(S)
  /\ \A n \in DOMAIN f : f[n] \in S
  /\ \A m, n \in DOMAIN f : m < n => <<f[m], f[n]>> \in R
  /\ \A e \in S : \E n \in DOMAIN f : f[n] = e

LEMMA RanksEnumerate ==
  ASSUME NEW S, IsFiniteSet(S), NEW R, StrictTotalOrder(R, S),
         NEW f, f = [n \in 1..Cardinality(S) |-> f[n]],
         \A n \in 1..Cardinality(S) : \A e \in S : RankIn(R, S, e) = n - 1 =>
           f[n] \in S /\ RankIn(R, S, f[n]) = n - 1
  PROVE  Enumerates(f, R, S)
<1> DEFINE c == Cardinality(S)
<1>1. RanksNumber(R, S)
  BY TotalOrderNumbers
<1>2. c \in Nat /\ \A e \in S : RankIn(R, S, e) \in 0..(c - 1)
  BY <1>1 DEF RanksNumber
<1>3. ASSUME NEW n \in 1..c PROVE f[n] \in S /\ RankIn(R, S, f[n]) = n - 1
  <2>1. n - 1 \in 0..(c - 1)
    BY <1>2
  <2>2. \E e \in S : RankIn(R, S, e) = n - 1
    BY <1>1, <2>1 DEF RanksNumber
  <2> QED BY <2>2
<1>4. f \in [1..c -> S]
  BY <1>3
<1>5. f \in Seq(S) /\ Len(f) = c /\ DOMAIN f = 1..Len(f)
  BY <1>2, <1>4
<1>6. ASSUME NEW m \in 1..c, NEW n \in 1..c, m < n PROVE <<f[m], f[n]>> \in R
  <2> DEFINE x == f[m]
             y == f[n]
  <2>1. x \in S /\ y \in S /\ RankIn(R, S, x) = m - 1 /\ RankIn(R, S, y) = n - 1
    BY <1>3
  <2> HIDE DEF x, y
  <2>2. x # y /\ (<<y, x>> \in R => n - 1 < m - 1)
    BY <1>1, <1>6, <2>1 DEF RanksNumber
  <2>3. <<x, y>> \in R
    BY <1>2, <1>6, <2>1, <2>2 DEF StrictTotalOrder
  <2> QED BY <2>3 DEF x, y
<1>7. ASSUME NEW e \in S PROVE \E n \in 1..c : f[n] = e
  <2> DEFINE n == RankIn(R, S, e) + 1
  <2>1. n \in 1..c /\ RankIn(R, S, e) = n - 1
    BY <1>2
  <2>2. f[n] \in S /\ RankIn(R, S, f[n]) = RankIn(R, S, e)
    BY <1>3, <2>1
  <2>3. f[n] = e
    BY <1>1, <2>2 DEF RanksNumber
  <2> QED BY <2>1, <2>3
<1> QED BY <1>2, <1>3, <1>5, <1>6, <1>7 DEF Enumerates

\* The order of numbers on S.
Below(S) == {p \in S \X S : p[1] < p[2]}

LEMMA NumbersAreOrdered ==
  ASSUME NEW S, S \subseteq Nat
  PROVE  StrictTotalOrder(Below(S), S)
BY DEF StrictTotalOrder, Below

\* f picks the places Q of a sequence, in their order.
Picks(f, Q) ==
  /\ Cardinality(Q) \in Nat /\ Len(f) = Cardinality(Q) /\ DOMAIN f = 1..Len(f)
  /\ \A n \in DOMAIN f : f[n] \in Q
  /\ \A m, n \in DOMAIN f : m < n => f[m] < f[n]
  /\ \A i \in Q : \E n \in DOMAIN f : f[n] = i

LEMMA NumbersEnumerate ==
  ASSUME NEW S, S \subseteq Nat, IsFiniteSet(S)
  PROVE  /\ Picks([n \in 1..Cardinality(S) |->
                     CHOOSE i \in S : Cardinality({h \in S : h < i}) = n - 1], S)
         /\ [n \in 1..Cardinality(S) |->
               CHOOSE i \in S : Cardinality({h \in S : h < i}) = n - 1] \in Seq(S)
<1> DEFINE R == Below(S)
           nth(n) == CHOOSE i \in S : Cardinality({h \in S : h < i}) = n - 1
           f == [n \in 1..Cardinality(S) |-> nth(n)]
<1>1. StrictTotalOrder(R, S)
  BY NumbersAreOrdered
<1>2. \A e \in S : RankIn(R, S, e) = Cardinality({h \in S : h < e})
  <2> SUFFICES ASSUME NEW e \in S PROVE {y \in S : <<y, e>> \in R} = {h \in S : h < e}
    BY DEF RankIn
  <2> QED BY DEF Below
<1>3. \A n \in 1..Cardinality(S) : \A e \in S : RankIn(R, S, e) = n - 1 =>
        f[n] \in S /\ RankIn(R, S, f[n]) = n - 1
  BY <1>2
<1>4. f = [n \in 1..Cardinality(S) |-> f[n]]
  <2> HIDE DEF nth
  <2> QED OBVIOUS
<1> HIDE DEF f
<1>5. Enumerates(f, R, S)
  BY <1>1, <1>3, <1>4, RanksEnumerate
<1>6. \A x, y : <<x, y>> \in R => x < y
  BY DEF Below
<1>7. Picks(f, S) /\ f \in Seq(S)
  BY <1>5, <1>6 DEF Enumerates, Picks
<1> QED BY <1>7 DEF f

LEMMA AtPlacesPicks ==
  ASSUME NEW X, NEW s \in Seq(X), NEW Q \in SUBSET DOMAIN s
  PROVE  /\ AtPlaces(s, Q) \in Seq(X)
         /\ \E f : Picks(f, Q) /\ Len(AtPlaces(s, Q)) = Len(f)
                   /\ \A n \in DOMAIN f : AtPlaces(s, Q)[n] = s[f[n]]
<1> DEFINE f == [n \in 1..Cardinality(Q) |-> CHOOSE i \in Q : Cardinality({h \in Q : h < i}) = n - 1]
           t == AtPlaces(s, Q)
<1>1. DOMAIN s = 1..Len(s) /\ Len(s) \in Nat
  BY LenProperties
<1>2. Q \subseteq Nat /\ IsFiniteSet(Q)
  <2>1. IsFiniteSet(1..Len(s))
    BY <1>1, FS_Interval
  <2>2. Q \subseteq 1..Len(s)
    BY <1>1
  <2> QED BY <1>1, <2>1, <2>2, FS_Subset
<1>3. Picks(f, Q)
  BY <1>2, NumbersEnumerate
<1>4. t = [n \in 1..Cardinality(Q) |-> s[f[n]]]
  BY DEF AtPlaces
<1> HIDE DEF f
<1>5. \A n \in 1..Cardinality(Q) : f[n] \in 1..Len(s) /\ s[f[n]] \in X
  BY <1>1, <1>3, ElementOfSeq DEF Picks
<1>6. t \in Seq(X) /\ Len(t) = Cardinality(Q)
  <2>1. t \in [1..Cardinality(Q) -> X] /\ Cardinality(Q) \in Nat
    BY <1>3, <1>4, <1>5 DEF Picks
  <2> HIDE DEF t
  <2> QED BY <2>1
<1> HIDE DEF t
<1>7. \A n \in DOMAIN f : t[n] = s[f[n]]
  BY <1>3, <1>4 DEF Picks
<1> QED BY <1>3, <1>6, <1>7 DEF Picks, t

\* What of s stands at places of Q.
LEMMA AtPlacesRange ==
  ASSUME NEW X, NEW s \in Seq(X), NEW Q \in SUBSET DOMAIN s
  PROVE  ToSet(AtPlaces(s, Q)) = {s[i] : i \in Q}
<1> DEFINE t == AtPlaces(s, Q)
<1>1. t \in Seq(X) /\ DOMAIN t = 1..Len(t)
  BY AtPlacesPicks, LenProperties
<1>2. PICK f : Picks(f, Q) /\ Len(t) = Len(f) /\ \A n \in DOMAIN f : t[n] = s[f[n]]
  BY AtPlacesPicks
<1> HIDE DEF t
<1>3. DOMAIN t = DOMAIN f
  BY <1>1, <1>2 DEF Picks
<1>4. {t[n] : n \in DOMAIN t} = {s[i] : i \in Q}
  BY <1>2, <1>3 DEF Picks
<1> QED BY <1>4 DEF t, ToSet

\* FlattenSeq appends one sequence after the other.
Appends(g, X, ss) ==
  /\ g \in [0..Len(ss) -> Seq(X)] /\ g[0] = <<>> /\ g[Len(ss)] = FlattenSeq(ss)
  /\ \A i \in 1..Len(ss) : g[i] = g[i - 1] \o ss[i]

LEMMA FlattenAppends ==
  ASSUME NEW X, NEW ss \in Seq(Seq(X))
  PROVE  \E g : Appends(g, X, ss)
<1> DEFINE n == Len(ss)
           step == [p \in (1..n) \X Seq(X) |-> p[2] \o ss[p[1]]]
<1>1. n \in Nat /\ DOMAIN ss = 1..n /\ \A i \in 1..n : ss[i] \in Seq(X)
  BY LenProperties, ElementOfSeq
<1>2. step \in [(1..n) \X Seq(X) -> Seq(X)]
  <2>1. \A p \in (1..n) \X Seq(X) : p[2] \o ss[p[1]] \in Seq(X)
    BY <1>1
  <2> QED BY <2>1
<1>3. PICK g \in [0..n -> Seq(X)] : g[0] = <<>> /\ \A i \in 1..n : g[i] = step[<<i, g[i - 1]>>]
  <2>1. <<>> \in Seq(X)
    OBVIOUS
  <2>2. ClimbsTo(n, Seq(X), <<>>, step)
    BY <1>1, <1>2, <2>1, ChainSolves
  <2> QED BY <2>2 DEF ClimbsTo
<1>4. \A i \in 1..n : g[i] = g[i - 1] \o ss[i]
  <2> SUFFICES ASSUME NEW i \in 1..n PROVE g[i] = g[i - 1] \o ss[i]
    OBVIOUS
  <2>0. i - 1 \in 0..n
    BY <1>1
  <2>1. g[i - 1] \in Seq(X)
    <3> HIDE DEF n
    <3> QED BY <2>0, <1>3
  <2>2. <<i, g[i - 1]>> \in (1..n) \X Seq(X)
    BY <2>1
  <2> QED BY <1>3, <2>2
<1> HIDE DEF step
<1>5. CASE n = 0
  <2>1. FlattenSeq(ss) = ss /\ ss = <<>>
    BY <1>5, EmptySeq DEF FlattenSeq
  <2> QED BY <1>3, <1>4, <1>5, <2>1 DEF Appends
<1>6. CASE n # 0
  <2> DEFINE Body(f) == [i \in 1..n |-> IF i = 1 THEN ss[i] ELSE f[i - 1] \o ss[i]]
             F == CHOOSE f : f = Body(f)
             G == [i \in 1..n |-> g[i]]
  <2>1. FlattenSeq(ss) = F[n]
    BY <1>6 DEF FlattenSeq
  <2>2. g[1] = ss[1]
    <3>1. 1 \in 1..n /\ ss[1] \in Seq(X)
      BY <1>1, <1>6
    <3>2. g[1] = g[1 - 1] \o ss[1]
      <4> HIDE DEF n
      <4> QED BY <1>4, <3>1
    <3>3. g[1 - 1] = <<>>
      <4>1. 1 - 1 = 0
        OBVIOUS
      <4> QED BY <1>3, <4>1
    <3>4. <<>> \o ss[1] = ss[1]
      BY <3>1, ConcatEmptySeq
    <3> QED BY <3>2, <3>3, <3>4
  <2>3. G = Body(G)
    <3>1. \A i \in 1..n : i # 1 => i - 1 \in 1..n
      BY <1>1
    <3> QED BY <1>4, <2>2, <3>1
  <2> HIDE DEF G
  <2>4. F = Body(F)
    BY <2>3
  <2> HIDE DEF F
  <2> DEFINE Good == {j \in 0..n : j = 0 \/ F[j] = g[j]}
  <2>5. 0 \in Good
    BY <1>1
  <2>6. ASSUME NEW j \in 0..(n - 1), j \in Good PROVE j + 1 \in Good
    <3>1. j + 1 \in 1..n /\ j + 1 \in 0..n /\ (j + 1) - 1 = j
      BY <1>1
    <3>2. F[j + 1] = IF j + 1 = 1 THEN ss[j + 1] ELSE F[(j + 1) - 1] \o ss[j + 1]
      BY <2>4, <3>1
    <3>3. F[j + 1] = g[j + 1]
      <4>1. CASE j = 0
        BY <2>2, <3>2, <4>1
      <4>2. CASE j # 0
        <5>1. F[j] = g[j] /\ j + 1 # 1
          BY <2>6, <4>2
        <5>2. g[j + 1] = g[j] \o ss[j + 1]
          BY <1>4, <3>1
        <5> QED BY <3>1, <3>2, <5>1, <5>2
      <4> QED BY <4>1, <4>2
    <3> QED BY <3>1, <3>3
  <2>7. n \in Good
    <3> HIDE DEF Good
    <3>1. 0..n \subseteq Good
      BY <1>1, <2>5, <2>6, InductionUpTo
    <3> QED BY <1>1, <3>1
  <2> QED BY <1>3, <1>4, <1>6, <2>1, <2>7 DEF Appends
<1> QED BY <1>5, <1>6

\* at counts what stands before each of the sequences.
Offsets(at, ss) ==
  /\ at \in [0..Len(ss) -> Nat] /\ at[0] = 0
  /\ \A i \in 1..Len(ss) : at[i] = at[i - 1] + Len(ss[i])

\* Where each of the sequences stands in the whole.
Places(w, X, ss, at) ==
  /\ w \in Seq(X) /\ Len(w) = at[Len(ss)]
  /\ \A i \in 1..Len(ss) : \A j \in 1..Len(ss[i]) :
       at[i - 1] + j \in 1..Len(w) /\ w[at[i - 1] + j] = ss[i][j]

LEMMA FlattenPlaces ==
  ASSUME NEW X, NEW ss \in Seq(Seq(X)), NEW at, Offsets(at, ss)
  PROVE  Places(FlattenSeq(ss), X, ss, at)
<1> USE DEF Offsets, Places
<1> DEFINE n == Len(ss)
<1>1. n \in Nat /\ DOMAIN ss = 1..n /\ \A i \in 1..n : ss[i] \in Seq(X) /\ Len(ss[i]) \in Nat
  BY LenProperties, ElementOfSeq
<1>2. PICK g : Appends(g, X, ss)
  BY FlattenAppends
<1> DEFINE Good == {k \in 0..n : /\ Len(g[k]) = at[k]
                                /\ \A i \in 1..k : \A j \in 1..Len(ss[i]) :
                                     at[i - 1] + j \in 1..Len(g[k]) /\ g[k][at[i - 1] + j] = ss[i][j]}
<1>3. 0 \in Good
  BY <1>1, <1>2 DEF Appends
<1>4. ASSUME NEW k \in 0..(n - 1), k \in Good PROVE k + 1 \in Good
  <2> DEFINE a == g[k]
             b == ss[k + 1]
  <2>1. k \in 0..n /\ k + 1 \in 1..n /\ (k + 1) - 1 = k
    BY <1>1
  <2>2. a \in Seq(X) /\ b \in Seq(X) /\ g[k + 1] = a \o b /\ at[k + 1] = at[k] + Len(b)
    BY <1>1, <1>2, <2>1 DEF Appends
  <2>3. Len(a) = at[k] /\ \A i \in 1..k : \A j \in 1..Len(ss[i]) :
          at[i - 1] + j \in 1..Len(a) /\ a[at[i - 1] + j] = ss[i][j]
    BY <1>4
  <2> HIDE DEF a
  <2>4. Len(a \o b) = Len(a) + Len(b) /\ \A x \in 1..(Len(a) + Len(b)) :
          (a \o b)[x] = IF x <= Len(a) THEN a[x] ELSE b[x - Len(a)]
    BY <2>2, ConcatProperties
  <2>5. Len(a) \in Nat /\ Len(b) \in Nat /\ at[k] \in Nat
    BY <1>1, <2>1, <2>2, LenProperties
  <2>6. ASSUME NEW i \in 1..k, NEW j \in 1..Len(ss[i])
        PROVE  at[i - 1] + j \in 1..Len(a \o b) /\ (a \o b)[at[i - 1] + j] = ss[i][j]
    <3>1. at[i - 1] + j \in 1..Len(a) /\ a[at[i - 1] + j] = ss[i][j]
      BY <2>3
    <3> DEFINE x == at[i - 1] + j
    <3>2. x \in 1..Len(a) /\ a[x] = ss[i][j]
      BY <3>1
    <3> HIDE DEF x
    <3>3. x \in 1..Len(a \o b) /\ (a \o b)[x] = ss[i][j]
      BY <2>4, <2>5, <3>2
    <3> QED BY <3>3 DEF x
  <2>7. ASSUME NEW j \in 1..Len(b)
        PROVE  at[k] + j \in 1..Len(a \o b) /\ (a \o b)[at[k] + j] = b[j]
    <3> DEFINE x == at[k] + j
    <3>1. x \in 1..(Len(a) + Len(b)) /\ ~(x <= Len(a)) /\ x - Len(a) = j
      BY <2>3, <2>5
    <3> HIDE DEF x
    <3> QED BY <2>4, <3>1 DEF x
  <2>8. \A i \in 1..(k + 1) : i \in 1..k \/ i = k + 1
    BY <2>1
  <2>9. Len(g[k + 1]) = at[k + 1]
    BY <2>2, <2>3, <2>4
  <2>10. \A i \in 1..(k + 1) : \A j \in 1..Len(ss[i]) :
           at[i - 1] + j \in 1..Len(g[k + 1]) /\ g[k + 1][at[i - 1] + j] = ss[i][j]
    <3> SUFFICES ASSUME NEW i \in 1..(k + 1), NEW j \in 1..Len(ss[i])
                 PROVE  at[i - 1] + j \in 1..Len(g[k + 1]) /\ g[k + 1][at[i - 1] + j] = ss[i][j]
      OBVIOUS
    <3>1. CASE i \in 1..k
      BY <2>2, <2>6, <3>1
    <3>2. CASE i = k + 1
      <4>1. j \in 1..Len(b) /\ i - 1 = k /\ ss[i][j] = b[j]
        BY <2>1, <3>2
      <4> HIDE DEF b
      <4> QED BY <2>2, <2>7, <4>1
    <3> QED BY <2>8, <3>1, <3>2
  <2> QED BY <2>1, <2>9, <2>10
<1>5. n \in Good
  <2> HIDE DEF Good
  <2>1. 0..n \subseteq Good
    BY <1>1, <1>3, <1>4, InductionUpTo
  <2> QED BY <1>1, <2>1
<1>6. FlattenSeq(ss) = g[n] /\ g[n] \in Seq(X)
  BY <1>1, <1>2 DEF Appends
<1> QED BY <1>5, <1>6

LEMMA ConcatHolds ==
  ASSUME NEW X, NEW s \in Seq(X), NEW t \in Seq(X)
  PROVE  ToSet(s \o t) = ToSet(s) \union ToSet(t)
<1>1. /\ Len(s) \in Nat /\ Len(t) \in Nat /\ s \o t \in Seq(X) /\ Len(s \o t) = Len(s) + Len(t)
      /\ DOMAIN s = 1..Len(s) /\ DOMAIN t = 1..Len(t) /\ DOMAIN (s \o t) = 1..(Len(s) + Len(t))
  BY LenProperties, ConcatProperties
<1>2. \A i \in 1..(Len(s) + Len(t)) : (s \o t)[i] = IF i <= Len(s) THEN s[i] ELSE t[i - Len(s)]
  BY ConcatProperties
<1> DEFINE u == s \o t
<1> HIDE DEF u
<1>3. \A i \in DOMAIN u : u[i] \in ToSet(s) \union ToSet(t)
  <2> SUFFICES ASSUME NEW i \in DOMAIN u PROVE u[i] \in ToSet(s) \union ToSet(t)
    OBVIOUS
  <2>1. CASE i <= Len(s)
    BY <1>1, <1>2, <2>1 DEF u, ToSet
  <2>2. CASE ~(i <= Len(s))
    <3>1. i - Len(s) \in DOMAIN t /\ u[i] = t[i - Len(s)]
      BY <1>1, <1>2, <2>2 DEF u
    <3> QED BY <3>1 DEF ToSet
  <2> QED BY <2>1, <2>2
<1>4. \A i \in DOMAIN s : s[i] \in ToSet(u)
  <2> SUFFICES ASSUME NEW i \in DOMAIN s PROVE i \in DOMAIN u /\ u[i] = s[i]
    BY DEF ToSet
  <2> QED BY <1>1, <1>2 DEF u
<1>5. \A i \in DOMAIN t : t[i] \in ToSet(u)
  <2> SUFFICES ASSUME NEW i \in DOMAIN t PROVE i + Len(s) \in DOMAIN u /\ u[i + Len(s)] = t[i]
    BY DEF ToSet
  <2>1. i + Len(s) \in DOMAIN u /\ ~(i + Len(s) <= Len(s)) /\ (i + Len(s)) - Len(s) = i
    BY <1>1 DEF u
  <2> QED BY <1>1, <1>2, <2>1 DEF u
<1> QED BY <1>3, <1>4, <1>5 DEF ToSet, u

\* What the whole holds.
LEMMA FlattenRange ==
  ASSUME NEW X, NEW ss \in Seq(Seq(X))
  PROVE  /\ FlattenSeq(ss) \in Seq(X)
         /\ ToSet(FlattenSeq(ss)) = UNION {ToSet(ss[i]) : i \in 1..Len(ss)}
<1> DEFINE n == Len(ss)
<1>1. n \in Nat /\ DOMAIN ss = 1..n /\ \A i \in 1..n : ss[i] \in Seq(X)
  BY LenProperties, ElementOfSeq
<1>2. PICK g : Appends(g, X, ss)
  BY FlattenAppends
<1> DEFINE Good == {k \in 0..n : \A e : e \in ToSet(g[k]) <=> \E i \in 1..k : e \in ToSet(ss[i])}
<1>3. 0 \in Good
  <2>1. g[0] = <<>> /\ ToSet(<<>>) = {}
    BY <1>2 DEF Appends, ToSet
  <2> QED BY <1>1, <2>1
<1>4. ASSUME NEW k \in 0..(n - 1), k \in Good PROVE k + 1 \in Good
  <2> DEFINE c == k + 1
  <2>1. k \in 0..n /\ c \in 1..n /\ c \in 0..n /\ c - 1 = k /\ \A i : i \in 1..c <=> i \in 1..k \/ i = c
    BY <1>1
  <2> HIDE DEF c
  <2>2. g[k] \in Seq(X) /\ ss[c] \in Seq(X) /\ g[c] = g[k] \o ss[c]
    BY <1>1, <1>2, <2>1 DEF Appends
  <2>3. ToSet(g[c]) = ToSet(g[k]) \union ToSet(ss[c])
    BY <2>2, ConcatHolds
  <2>4. \A e : e \in ToSet(g[c]) <=> \E i \in 1..c : e \in ToSet(ss[i])
    BY <1>4, <2>1, <2>3
  <2> QED BY <2>1, <2>4 DEF c
<1>5. n \in Good
  <2> HIDE DEF Good
  <2>1. 0..n \subseteq Good
    BY <1>1, <1>3, <1>4, InductionUpTo
  <2> QED BY <1>1, <2>1
<1>6. FlattenSeq(ss) = g[n] /\ g[n] \in Seq(X)
  BY <1>1, <1>2 DEF Appends
<1> QED BY <1>5, <1>6

LEMMA UpToIsFinite ==
  ASSUME NEW n \in Nat
  PROVE  IsFiniteSet(1..n) /\ Cardinality(1..n) = n
<1>1. 1 \in Int /\ n \in Int
  OBVIOUS
<1>2. IsFiniteSet(1..n) /\ Cardinality(1..n) = IF 1 > n THEN 0 ELSE n - 1 + 1
  BY <1>1, FS_Interval
<1> QED BY <1>2

LEMMA PartIsFinite ==
  ASSUME NEW S, IsFiniteSet(S), NEW T, T \subseteq S
  PROVE  IsFiniteSet(T) /\ Cardinality(T) \in Nat /\ Cardinality(S) \in Nat
         /\ Cardinality(T) <= Cardinality(S)
<1>1. IsFiniteSet(T) /\ Cardinality(T) <= Cardinality(S)
  BY FS_Subset
<1> QED BY <1>1, FS_CardinalityType

-----------------------------------------------------------------------------
(* What sorting and the removal of duplicates keep.                        *)

\* The places of a sequence, in the order of their keys k; equal keys keep theirs.
KeyOrder(k) ==
  {p \in (DOMAIN k) \X (DOMAIN k) : k[p[1]] < k[p[2]] \/ (k[p[1]] = k[p[2]] /\ p[1] < p[2])}

\* t is s in the order of the keys k: f gives the place of each of its elements.
Sorts(t, f, k, s) ==
  /\ f = [n \in DOMAIN s |-> f[n]]
  /\ \A n, i \in DOMAIN s : RankIn(KeyOrder(k), DOMAIN s, i) = n - 1 =>
       f[n] \in DOMAIN s /\ RankIn(KeyOrder(k), DOMAIN s, f[n]) = n - 1
  /\ t = [n \in DOMAIN s |-> s[f[n]]]

LEMMA SortHolds ==
  ASSUME NEW X, NEW s \in Seq(X), NEW k \in [DOMAIN s -> Nat], NEW f, NEW t, Sorts(t, f, k, s)
  PROVE  t \in Seq(X) /\ Len(t) = Len(s) /\ ToSet(t) = ToSet(s)
<1> DEFINE D == DOMAIN s
           R == KeyOrder(k)
<1> USE DEF Sorts
<1>1. D = 1..Len(s) /\ Len(s) \in Nat /\ IsFiniteSet(D) /\ Cardinality(D) = Len(s)
  <2>1. D = 1..Len(s) /\ Len(s) \in Nat
    BY LenProperties
  <2>2. IsFiniteSet(1..Len(s)) /\ Cardinality(1..Len(s)) = Len(s)
    BY <2>1, UpToIsFinite
  <2> QED BY <2>1, <2>2
<1>2. StrictTotalOrder(R, D)
  <2>1. DOMAIN k = D /\ D \subseteq Nat /\ \A i \in D : k[i] \in Nat
    BY <1>1
  <2> HIDE DEF D
  <2> QED BY <2>1 DEF StrictTotalOrder, KeyOrder
<1>3. 1..Cardinality(D) = D
  BY <1>1
<1> HIDE DEF R
<1>4. Enumerates(f, R, D)
  <2> HIDE DEF D
  <2> QED BY <1>1, <1>2, <1>3, RanksEnumerate DEF R, D
<1>5. DOMAIN f = D /\ (\A n \in D : f[n] \in D) /\ (\A i \in D : \E n \in D : f[n] = i)
  BY <1>1, <1>4 DEF Enumerates
<1>6. \A i \in D : s[i] \in X
  BY <1>1, ElementOfSeq
<1>7. t \in Seq(X) /\ Len(t) = Len(s)
  <2>1. t \in [1..Len(s) -> X]
    BY <1>1, <1>5, <1>6
  <2> QED BY <1>1, <2>1
<1>8. ToSet(t) = ToSet(s)
  <2>1. DOMAIN t = D
    OBVIOUS
  <2> HIDE DEF D
  <2>2. \A n \in D : t[n] = s[f[n]]
    BY DEF D
  <2>3. {t[n] : n \in D} = {s[i] : i \in D}
    BY <1>5, <2>2
  <2> QED BY <2>1, <2>3 DEF ToSet, D
<1> QED BY <1>7, <1>8

\* The first place of each key.
Firsts(k) == {i \in DOMAIN k : \A h \in 1..(i - 1) : k[h] # k[i]}

LEMMA FirstsCover ==
  ASSUME NEW n \in Nat, NEW k, DOMAIN k = 1..n
  PROVE  \A i \in 1..n : \E h \in Firsts(k) : k[h] = k[i]
<1> SUFFICES ASSUME NEW i \in 1..n PROVE \E h \in Firsts(k) : k[h] = k[i]
  OBVIOUS
<1> DEFINE S == {h \in 1..n : k[h] = k[i]}
<1>1. S \subseteq Nat /\ S # {}
  OBVIOUS
<1>2. PICK h \in S : \A m \in S : h <= m
  BY <1>1, LeastNatural
<1>3. \A m \in 1..(h - 1) : k[m] # k[h]
  <2> SUFFICES ASSUME NEW m \in 1..(h - 1), k[m] = k[h] PROVE FALSE
    OBVIOUS
  <2>1. m \in 1..n /\ m < h
    OBVIOUS
  <2>2. m \in S
    BY <2>1
  <2> QED BY <1>2, <2>1, <2>2
<1> QED BY <1>3 DEF Firsts

-----------------------------------------------------------------------------
(* Runs of consecutive numbers.                                            *)

LEMMA RunsCover ==
  ASSUME NEW S, S \subseteq Nat, IsFiniteSet(S)
  PROVE  /\ \A q \in Runs(S) : /\ q = <<q[1], q[2]>> /\ q[1] \in S /\ q[2] \in S /\ q[1] <= q[2]
                               /\ \A g \in q[1]..q[2] : g \in S
         /\ \A q, r \in Runs(S) : q[1] = r[1] => q = r
         /\ \A g \in S : \E q \in Runs(S) : g \in q[1]..q[2]
<1> DEFINE ends == {b \in S : b + 1 \notin S}
           end(a) == CHOOSE b \in ends : a <= b /\ \A e \in ends : a <= e => b <= e
           starts == {g \in S : g - 1 \notin S}
<1>1. Runs(S) = {<<a, end(a)>> : a \in starts}
  BY DEF Runs
<1>2. ASSUME NEW a \in S PROVE \E b \in ends : a <= b
  <2> DEFINE T == {g \in S : a <= g}
  <2>1. T \subseteq Nat /\ T # {} /\ IsFiniteSet(T)
    <3>1. T \subseteq S
      OBVIOUS
    <3>2. IsFiniteSet(T)
      <4> HIDE DEF T
      <4> QED BY <3>1, PartIsFinite
    <3>3. a \in Nat /\ a \in T
      OBVIOUS
    <3>4. T \subseteq Nat
      OBVIOUS
    <3> HIDE DEF T
    <3> QED BY <3>2, <3>3, <3>4
  <2>2. Max(T) \in T /\ \A n \in T : n <= Max(T)
    BY <2>1, MaxOfFinite
  <2> DEFINE b == Max(T)
  <2>3. b \in T /\ \A n \in T : n <= b
    BY <2>2
  <2> HIDE DEF b
  <2>4. b + 1 \notin S
    <3> SUFFICES ASSUME b + 1 \in S PROVE FALSE
      OBVIOUS
    <3>1. b + 1 \in T
      BY <2>3
    <3> QED BY <2>1, <2>3, <3>1
  <2> QED BY <2>3, <2>4
<1>3. ASSUME NEW a \in S
      PROVE  end(a) \in ends /\ a <= end(a) /\ \A e \in ends : a <= e => end(a) <= e
  <2> DEFINE T == {e \in ends : a <= e}
  <2>1. T \subseteq Nat /\ T # {}
    BY <1>2
  <2>2. PICK b \in T : \A e \in T : b <= e
    BY <2>1, LeastNatural
  <2>3. b \in ends /\ a <= b /\ \A e \in ends : a <= e => b <= e
    BY <2>2
  <2> HIDE DEF ends
  <2> QED BY <2>3
<1> HIDE DEF end
<1>4. ASSUME NEW a \in S, NEW g \in a..end(a) PROVE g \in S
  <2> DEFINE b == end(a)
             Good == {j \in 0..(b - a) : a + j \in S}
  <2>1. b \in S /\ b \in Nat /\ a \in Nat /\ a <= b /\ \A e \in ends : a <= e => b <= e
    BY <1>3
  <2> HIDE DEF b
  <2>2. 0 \in Good
    BY <2>1
  <2>3. ASSUME NEW j \in 0..((b - a) - 1), j \in Good PROVE j + 1 \in Good
    <3>1. a + j \in S /\ a <= a + j /\ ~(b <= a + j) /\ j + 1 \in 0..(b - a) /\ (a + j) + 1 = a + (j + 1)
      BY <2>1, <2>3
    <3>2. (a + j) + 1 \in S
      BY <2>1, <3>1
    <3> QED BY <3>1, <3>2
  <2>4. 0..(b - a) \subseteq Good
    <3>1. b - a \in Nat
      BY <2>1
    <3> HIDE DEF Good
    <3> QED BY <2>2, <2>3, <3>1, InductionUpTo
  <2>5. g - a \in 0..(b - a) /\ a + (g - a) = g
    BY <2>1 DEF b
  <2> QED BY <2>4, <2>5
<1>5. ASSUME NEW g \in S PROVE \E a \in starts : g \in a..end(a)
  <2> DEFINE T == {a \in S : a <= g /\ \A x \in a..g : x \in S}
  <2>1. T \subseteq Nat /\ T # {}
    <3>1. g \in T
      OBVIOUS
    <3> QED BY <3>1
  <2>2. PICK a \in T : \A m \in T : a <= m
    BY <2>1, LeastNatural
  <2>3. a \in S /\ a \in Nat /\ g \in Nat /\ a <= g /\ \A x \in a..g : x \in S
    BY <2>2
  <2>4. a - 1 \notin S
    <3> SUFFICES ASSUME a - 1 \in S PROVE FALSE
      OBVIOUS
    <3>1. \A x \in (a - 1)..g : x \in S
      <4>1. \A x \in (a - 1)..g : x = a - 1 \/ x \in a..g
        BY <2>3
      <4> QED BY <2>3, <4>1
    <3>2. a - 1 \in T
      BY <2>3, <3>1
    <3> QED BY <2>2, <2>3, <3>2
  <2>5. g <= end(a)
    <3> DEFINE b == end(a)
    <3>1. b \in S /\ b + 1 \notin S /\ a <= b /\ b \in Nat
      BY <1>3, <2>3
    <3> HIDE DEF b
    <3>2. ~(b < g)
      <4> SUFFICES ASSUME b < g PROVE FALSE
        OBVIOUS
      <4>1. b + 1 \in a..g
        BY <2>3, <3>1
      <4> QED BY <2>3, <3>1, <4>1
    <3> QED BY <2>3, <3>1, <3>2 DEF b
  <2>6. end(a) \in Nat
    BY <1>3, <2>3
  <2> QED BY <2>3, <2>4, <2>5, <2>6
<1>6. \A a \in starts : a \in S /\ end(a) \in S /\ a <= end(a)
  BY <1>3
<1>7. \A q \in Runs(S) : \E a \in starts : q = <<a, end(a)>>
  BY <1>1
<1> HIDE DEF starts
<1>8. \A q \in Runs(S) : /\ q = <<q[1], q[2]>> /\ q[1] \in S /\ q[2] \in S /\ q[1] <= q[2]
                         /\ \A g \in q[1]..q[2] : g \in S
  BY <1>4, <1>6, <1>7
<1>9. \A q, r \in Runs(S) : q[1] = r[1] => q = r
  BY <1>7
<1>10. \A g \in S : \E q \in Runs(S) : g \in q[1]..q[2]
  <2> SUFFICES ASSUME NEW g \in S PROVE \E q \in Runs(S) : g \in q[1]..q[2]
    OBVIOUS
  <2>1. PICK a \in starts : g \in a..end(a)
    BY <1>5
  <2>2. <<a, end(a)>> \in Runs(S)
    BY <1>1
  <2> QED BY <2>1, <2>2
<1> QED BY <1>8, <1>9, <1>10

Entries == [g : Nat, c : Nat]

LEMMA AscendingHolds ==
  ASSUME NEW s \in Seq(Nat)
  PROVE  Ascending(s) \in Seq(Nat) /\ Len(Ascending(s)) = Len(s) /\ ToSet(Ascending(s)) = ToSet(s)
<1> DEFINE D == DOMAIN s
           k == [i \in D |-> s[i]]
           before(i, j) == s[i] < s[j] \/ (s[i] = s[j] /\ i < j)
           nth(n) == CHOOSE j \in D : Cardinality({i \in D : before(i, j)}) = n - 1
           f == [n \in D |-> nth(n)]
<1>1. Ascending(s) = [n \in D |-> s[nth(n)]]
  BY DEF Ascending, SortedBy
<1>2. \A j \in D : RankIn(KeyOrder(k), D, j) = Cardinality({i \in D : before(i, j)})
  <2> SUFFICES ASSUME NEW j \in D PROVE {y \in D : <<y, j>> \in KeyOrder(k)} = {i \in D : before(i, j)}
    BY DEF RankIn
  <2> QED BY DEF KeyOrder
<1> HIDE DEF before
<1>3. \A n, i \in D : RankIn(KeyOrder(k), D, i) = n - 1 =>
        f[n] \in D /\ RankIn(KeyOrder(k), D, f[n]) = n - 1
  BY <1>2
<1>4. k \in [D -> Nat]
  BY LenProperties, ElementOfSeq
<1> HIDE DEF nth, k
<1>5. f = [n \in D |-> f[n]] /\ Ascending(s) = [n \in D |-> s[f[n]]]
  BY <1>1
<1> HIDE DEF f
<1>6. Sorts(Ascending(s), f, k, s)
  BY <1>3, <1>5 DEF Sorts
<1> QED BY <1>4, <1>6, SortHolds

LEMMA ByClassHolds ==
  ASSUME NEW s \in Seq(Entries)
  PROVE  LET t == SortedBy(s, LAMBDA e : e.c)
         IN  t \in Seq(Entries) /\ Len(t) = Len(s) /\ ToSet(t) = ToSet(s)
<1> DEFINE D == DOMAIN s
           k == [i \in D |-> s[i].c]
           before(i, j) == s[i].c < s[j].c \/ (s[i].c = s[j].c /\ i < j)
           nth(n) == CHOOSE j \in D : Cardinality({i \in D : before(i, j)}) = n - 1
           f == [n \in D |-> nth(n)]
           t == SortedBy(s, LAMBDA e : e.c)
<1>1. t = [n \in D |-> s[nth(n)]]
  BY DEF SortedBy
<1>2. \A j \in D : RankIn(KeyOrder(k), D, j) = Cardinality({i \in D : before(i, j)})
  <2> SUFFICES ASSUME NEW j \in D PROVE {y \in D : <<y, j>> \in KeyOrder(k)} = {i \in D : before(i, j)}
    BY DEF RankIn
  <2> QED BY DEF KeyOrder
<1> HIDE DEF before
<1>3. \A n, i \in D : RankIn(KeyOrder(k), D, i) = n - 1 =>
        f[n] \in D /\ RankIn(KeyOrder(k), D, f[n]) = n - 1
  BY <1>2
<1>4. k \in [D -> Nat]
  <2>1. \A i \in D : s[i] \in Entries
    BY LenProperties, ElementOfSeq
  <2> QED BY <2>1 DEF Entries
<1> HIDE DEF nth, k, t
<1>5. f = [n \in D |-> f[n]] /\ t = [n \in D |-> s[f[n]]]
  BY <1>1
<1> HIDE DEF f
<1>6. Sorts(t, f, k, s)
  BY <1>3, <1>5 DEF Sorts
<1>7. t \in Seq(Entries) /\ Len(t) = Len(s) /\ ToSet(t) = ToSet(s)
  BY <1>4, <1>6, SortHolds
<1> QED BY <1>7 DEF t

LEMMA FirstsHold ==
  ASSUME NEW s \in Seq(Nat)
  PROVE  LET t == FirstOfEach(s, LAMBDA g : g) IN t \in Seq(Nat) /\ ToSet(t) = ToSet(s)
<1> DEFINE D == DOMAIN s
           k == [i \in D |-> s[i]]
           Q == {i \in D : \A j \in 1..(i - 1) : s[j] # s[i]}
           t == FirstOfEach(s, LAMBDA g : g)
<1>1. t = AtPlaces(s, Q)
  BY DEF FirstOfEach
<1>2. D = 1..Len(s) /\ Len(s) \in Nat
  BY LenProperties
<1>3. Firsts(k) = Q
  <2>1. \A i \in D : \A h \in 1..(i - 1) : h \in D
    BY <1>2
  <2> QED BY <2>1 DEF Firsts
<1>4. \A i \in D : \E h \in Q : s[h] = s[i]
  <2>1. DOMAIN k = 1..Len(s)
    BY <1>2
  <2> HIDE DEF k
  <2>2. \A i \in 1..Len(s) : \E h \in Firsts(k) : k[h] = k[i]
    BY <1>2, <2>1, FirstsCover
  <2> QED BY <1>2, <1>3, <2>2 DEF k
<1>5. Q \in SUBSET DOMAIN s
  OBVIOUS
<1> HIDE DEF Q, t
<1>6. t \in Seq(Nat) /\ ToSet(t) = {s[i] : i \in Q}
  BY <1>1, <1>5, AtPlacesPicks, AtPlacesRange
<1>7. {s[i] : i \in Q} = {s[i] : i \in DOMAIN s}
  BY <1>4, <1>5
<1> QED BY <1>6, <1>7 DEF ToSet, t

\* Of the entries with one glyph, one stays.
LEMMA FirstEntriesHold ==
  ASSUME NEW s \in Seq(Entries)
  PROVE  LET t == FirstOfEach(s, LAMBDA e : e.g)
         IN  /\ t \in Seq(Entries) /\ ToSet(t) \subseteq ToSet(s)
             /\ \A d \in ToSet(s) : \E e \in ToSet(t) : e.g = d.g
<1> DEFINE D == DOMAIN s
           k == [i \in D |-> s[i].g]
           Q == {i \in D : \A j \in 1..(i - 1) : s[j].g # s[i].g}
           t == FirstOfEach(s, LAMBDA e : e.g)
<1>1. t = AtPlaces(s, Q)
  BY DEF FirstOfEach
<1>2. D = 1..Len(s) /\ Len(s) \in Nat
  BY LenProperties
<1>3. Firsts(k) = Q
  <2>1. \A i \in D : \A h \in 1..(i - 1) : h \in D
    BY <1>2
  <2> QED BY <2>1 DEF Firsts
<1>4. \A i \in D : \E h \in Q : s[h].g = s[i].g
  <2>1. DOMAIN k = 1..Len(s)
    BY <1>2
  <2> HIDE DEF k
  <2>2. \A i \in 1..Len(s) : \E h \in Firsts(k) : k[h] = k[i]
    BY <1>2, <2>1, FirstsCover
  <2> QED BY <1>2, <1>3, <2>2 DEF k
<1>5. Q \in SUBSET DOMAIN s
  OBVIOUS
<1> HIDE DEF Q, t
<1>6. t \in Seq(Entries) /\ ToSet(t) = {s[i] : i \in Q}
  BY <1>1, <1>5, AtPlacesPicks, AtPlacesRange
<1>7. ToSet(s) = {s[i] : i \in D}
  BY DEF ToSet
<1> HIDE DEF D
<1>8. ToSet(t) \subseteq ToSet(s) /\ \A d \in ToSet(s) : \E e \in ToSet(t) : e.g = d.g
  BY <1>4, <1>5, <1>6, <1>7 DEF D
<1> QED BY <1>6, <1>8 DEF t

-----------------------------------------------------------------------------
(* Ranges written and read back.                                           *)

Triples == Nat \X Nat \X Int

Ranges(R) ==
  /\ R \subseteq Triples /\ IsFiniteSet(R)
  /\ \A q, r \in R : q[1] = r[1] => q = r

LEMMA RangesInOrder ==
  ASSUME NEW R, Ranges(R)
  PROVE  LET t == InOrderOf(R, LAMBDA q : q[1])
         IN  t \in Seq(R) /\ Cardinality(R) \in Nat /\ Len(t) = Cardinality(R) /\ ToSet(t) = R
<1> DEFINE Q == {p \in R \X R : p[1][1] < p[2][1]}
           nth(n) == CHOOSE e \in R : Cardinality({d \in R : d[1] < e[1]}) = n - 1
           f == [n \in 1..Cardinality(R) |-> nth(n)]
           t == InOrderOf(R, LAMBDA q : q[1])
<1>1. StrictTotalOrder(Q, R)
  <2>1. \A q \in R : q[1] \in Nat
    BY DEF Ranges, Triples
  <2> QED BY <2>1 DEF StrictTotalOrder, Ranges
<1>2. \A e \in R : RankIn(Q, R, e) = Cardinality({d \in R : d[1] < e[1]})
  <2> SUFFICES ASSUME NEW e \in R PROVE {y \in R : <<y, e>> \in Q} = {d \in R : d[1] < e[1]}
    BY DEF RankIn
  <2> QED OBVIOUS
<1>3. \A n \in 1..Cardinality(R) : \A e \in R : RankIn(Q, R, e) = n - 1 =>
        f[n] \in R /\ RankIn(Q, R, f[n]) = n - 1
  BY <1>2
<1>4. t = f
  BY DEF InOrderOf
<1>5. f = [n \in 1..Cardinality(R) |-> f[n]]
  <2> HIDE DEF nth
  <2> QED OBVIOUS
<1> HIDE DEF f, t, Q
<1>6. Enumerates(f, Q, R)
  BY <1>1, <1>3, <1>5, RanksEnumerate DEF Ranges
<1>7. ToSet(f) = R
  BY <1>6 DEF Enumerates, ToSet
<1> QED BY <1>4, <1>6, <1>7 DEF Enumerates, t

\* Numbers that fit 16 bits, and what 16 bits keep of a number.
IsWord(n) == n \in Nat /\ n < 65536
Word(n) == n % 65536

LEMMA WordKept == ASSUME NEW n, IsWord(n) PROVE n \in Nat /\ Word(n) = n
BY DEF IsWord, Word

LEMMA SmallIsWord == ASSUME NEW n \in 0..99 PROVE IsWord(n)
BY DEF IsWord

Numbers == {W(n) : n \in Int}

LEMMA WordsHold ==
  ASSUME NEW s \in Seq(Int)
  PROVE  /\ Words(s) \in Seq(Numbers) /\ Len(Words(s)) = Len(s)
         /\ \A i \in 1..Len(s) : Words(s)[i].w = Word(s[i]) /\ Words(s)[i].p = <<>>
<1>1. DOMAIN s = 1..Len(s) /\ Len(s) \in Nat /\ \A i \in 1..Len(s) : s[i] \in Int
  BY LenProperties, ElementOfSeq
<1>2. Words(s) = [i \in 1..Len(s) |-> W(s[i])]
  BY <1>1 DEF Words, Mapped
<1>3. \A i \in 1..Len(s) : W(s[i]) \in Numbers
  BY <1>1 DEF Numbers
<1>4. [i \in 1..Len(s) |-> W(s[i])] \in [1..Len(s) -> Numbers]
  BY <1>3
<1>5. Words(s) \in Seq(Numbers) /\ Len(Words(s)) = Len(s)
  <2> DEFINE t == [i \in 1..Len(s) |-> W(s[i])]
  <2>1. t \in [1..Len(s) -> Numbers] /\ Words(s) = t
    BY <1>2, <1>4
  <2> HIDE DEF t
  <2> QED BY <1>1, <2>1
<1>6. \A i \in 1..Len(s) : W(s[i]).w = Word(s[i]) /\ W(s[i]).p = <<>>
  BY DEF W, Word
<1> QED BY <1>2, <1>5, <1>6

LEMMA TripleIsSeq ==
  ASSUME NEW q \in Triples
  PROVE  q \in Seq(Int) /\ Len(q) = 3
<1>1. q = <<q[1], q[2], q[3]>> /\ q[1] \in Nat /\ q[2] \in Nat /\ q[3] \in Int
  BY DEF Triples
<1> DEFINE a == q[1]
           b == q[2]
           c == q[3]
<1>2. a \in Nat /\ b \in Nat /\ c \in Int /\ q = <<a, b, c>>
  BY <1>1
<1> HIDE DEF a, b, c
<1>3. <<a, b, c>> \in Seq(Int) /\ Len(<<a, b, c>>) = 3
  BY <1>2
<1> QED BY <1>2, <1>3

TripleTable(t) == Words(<<2, Len(t)>>) \o Flattened(t, Words)

\* The cells of a table of triples.
TripleBlock(b, t) ==
  /\ Len(t) \in Nat /\ b \in Seq(Numbers) /\ Len(b) = 2 + 3 * Len(t)
  /\ b[1].w = 2 /\ b[2].w = Len(t)
  /\ \A i \in 1..Len(t) : b[3 * i].w = Word(t[i][1])
       /\ b[3 * i + 1].w = Word(t[i][2]) /\ b[3 * i + 2].w = Word(t[i][3])

LEMMA TripleCells ==
  ASSUME NEW t \in Seq(Triples), IsWord(Len(t))
  PROVE  TripleBlock(TripleTable(t), t)
<1> DEFINE n == Len(t)
           b == TripleTable(t)
<1>0. n \in Nat /\ IsWord(n)
  BY LenProperties
<1> HIDE DEF n
<1> USE <1>0
<1> DEFINE head == Words(<<2, n>>)
           ss == Mapped(t, Words)
           rest == FlattenSeq(ss)
           at == [i \in 0..n |-> 3 * i]
<1>1. b = head \o rest
  BY DEF Flattened, TripleTable, n
<1> HIDE DEF b
<1>2. DOMAIN t = 1..n /\ \A i \in 1..n : t[i] \in Triples
  BY LenProperties, ElementOfSeq DEF n
<1>3. head \in Seq(Numbers) /\ Len(head) = 2 /\ head[1].w = 2 /\ head[2].w = n
  <2> DEFINE s == <<2, n>>
  <2>1. s \in Seq(Int) /\ Len(s) = 2 /\ s[1] = 2 /\ s[2] = n
    OBVIOUS
  <2> HIDE DEF s
  <2>2. Words(s) \in Seq(Numbers) /\ Len(Words(s)) = 2 /\ Words(s)[1].w = Word(2) /\ Words(s)[2].w = Word(n)
    BY <2>1, WordsHold
  <2>3. Word(n) = n /\ Word(2) = 2
    BY SmallIsWord, WordKept
  <2> QED BY <2>2, <2>3 DEF s
<1> HIDE DEF head
<1>4. \A i \in 1..n : ss[i] = Words(t[i])
  BY <1>2 DEF Mapped
<1>5. \A i \in 1..n : /\ ss[i] \in Seq(Numbers) /\ Len(ss[i]) = 3
                      /\ \A x \in 1..3 : ss[i][x].w = Word(t[i][x])
  <2> SUFFICES ASSUME NEW i \in 1..n
               PROVE  ss[i] \in Seq(Numbers) /\ Len(ss[i]) = 3
                      /\ \A x \in 1..3 : ss[i][x].w = Word(t[i][x])
    OBVIOUS
  <2> DEFINE q == t[i]
  <2>0. q \in Triples /\ ss[i] = Words(q)
    BY <1>2, <1>4
  <2> HIDE DEF ss, at, q, rest
  <2>1. q \in Seq(Int) /\ Len(q) = 3 /\ ss[i] = Words(q)
    BY <2>0, TripleIsSeq
  <2>2. Words(q) \in Seq(Numbers) /\ Len(Words(q)) = 3 /\ \A x \in 1..3 : Words(q)[x].w = Word(q[x])
    BY <2>1, WordsHold
  <2> HIDE DEF ss
  <2> QED BY <2>1, <2>2 DEF q
<1>6. ss \in Seq(Seq(Numbers)) /\ Len(ss) = n
  <2>1. ss = [i \in 1..n |-> ss[i]]
    BY <1>2 DEF Mapped
  <2> HIDE DEF ss
  <2>2. ss \in [1..n -> Seq(Numbers)]
    BY <1>5, <2>1
  <2> QED BY <2>2
<1> HIDE DEF ss
<1>7. /\ at \in [0..Len(ss) -> Nat] /\ at[0] = 0
      /\ \A i \in 1..Len(ss) : at[i] = at[i - 1] + Len(ss[i])
  <2>1. \A i \in 1..n : i - 1 \in 0..n /\ i \in 0..n /\ 3 * i = 3 * (i - 1) + 3
    OBVIOUS
  <2>2. at \in [0..n -> Nat] /\ at[0] = 0
    OBVIOUS
  <2>3. \A i \in 1..n : at[i] = at[i - 1] + 3
    BY <2>1
  <2>4. \A i \in 1..n : Len(ss[i]) = 3
    BY <1>5
  <2> HIDE DEF at, rest
  <2> QED BY <1>6, <2>2, <2>3, <2>4
<1>8. \A i \in 1..n : at[i - 1] = 3 * (i - 1)
  OBVIOUS
<1>9. at[n] = 3 * n
  OBVIOUS
<1> HIDE DEF at
<1>10. rest \in Seq(Numbers) /\ Len(rest) = 3 * n
       /\ \A i \in 1..n : \A x \in 1..3 : rest[3 * (i - 1) + x] = ss[i][x] /\ 3 * (i - 1) + x \in 1..(3 * n)
  <2>1. /\ rest \in Seq(Numbers) /\ Len(rest) = at[n]
        /\ \A i \in 1..n : \A x \in 1..Len(ss[i]) :
             at[i - 1] + x \in 1..Len(rest) /\ rest[at[i - 1] + x] = ss[i][x]
    <3>1. Offsets(at, ss)
      BY <1>7 DEF Offsets
    <3>2. Places(rest, Numbers, ss, at)
      BY <1>6, <3>1, FlattenPlaces
    <3> HIDE DEF rest
    <3> QED BY <1>6, <3>2 DEF Places
  <2> HIDE DEF rest
  <2>2. \A i \in 1..n : Len(ss[i]) = 3
    BY <1>5
  <2> SUFFICES ASSUME NEW i \in 1..n, NEW x \in 1..3
               PROVE  rest[3 * (i - 1) + x] = ss[i][x] /\ 3 * (i - 1) + x \in 1..(3 * n)
    BY <1>9, <2>1
  <2>3. x \in 1..Len(ss[i]) /\ at[i - 1] = 3 * (i - 1) /\ Len(rest) = 3 * n
    BY <1>8, <1>9, <2>1, <2>2
  <2>4. at[i - 1] + x \in 1..Len(rest) /\ rest[at[i - 1] + x] = ss[i][x]
    BY <2>1, <2>3
  <2> QED BY <2>3, <2>4
<1> HIDE DEF rest
<1>11. b \in Seq(Numbers) /\ Len(b) = 2 + 3 * n /\ \A x \in 1..(2 + 3 * n) : b[x] = IF x <= 2 THEN head[x] ELSE rest[x - 2]
  <2>1. /\ head \o rest \in Seq(Numbers) /\ Len(head \o rest) = Len(head) + Len(rest)
        /\ \A x \in 1..(Len(head) + Len(rest)) :
             (head \o rest)[x] = IF x <= Len(head) THEN head[x] ELSE rest[x - Len(head)]
    BY <1>3, <1>10, ConcatProperties
  <2> QED BY <1>1, <1>3, <1>10, <2>1
<1>12. b[1].w = 2 /\ b[2].w = n
  <2>1. 1 \in 1..(2 + 3 * n) /\ 2 \in 1..(2 + 3 * n)
    OBVIOUS
  <2>2. b[1] = head[1] /\ b[2] = head[2]
    BY <1>11, <2>1
  <2> QED BY <1>3, <2>2
<1>13. ASSUME NEW i \in 1..n, NEW x \in 1..3 PROVE b[3 * i + x - 1].w = Word(t[i][x])
  <2> DEFINE y == 3 * (i - 1) + x
  <2>1. y \in 1..(3 * n) /\ rest[y] = ss[i][x]
    BY <1>10
  <2>2. 3 * i + x - 1 = y + 2
    OBVIOUS
  <2> HIDE DEF y
  <2>3. y + 2 \in 1..(2 + 3 * n) /\ ~(y + 2 <= 2) /\ (y + 2) - 2 = y
    BY <2>1
  <2>4. b[y + 2] = rest[y]
    BY <1>11, <2>3
  <2> QED BY <1>5, <2>1, <2>2, <2>4
<1>14. \A i \in 1..n : b[3 * i].w = Word(t[i][1])
         /\ b[3 * i + 1].w = Word(t[i][2]) /\ b[3 * i + 2].w = Word(t[i][3])
  <2> SUFFICES ASSUME NEW i \in 1..n
               PROVE b[3 * i].w = Word(t[i][1])
                     /\ b[3 * i + 1].w = Word(t[i][2]) /\ b[3 * i + 2].w = Word(t[i][3])
    OBVIOUS
  <2>1. 3 * i + 1 - 1 = 3 * i /\ 3 * i + 2 - 1 = 3 * i + 1 /\ 3 * i + 3 - 1 = 3 * i + 2
    OBVIOUS
  <2>2. 1 \in 1..3 /\ 2 \in 1..3 /\ 3 \in 1..3
    OBVIOUS
  <2>3. b[3 * i + 1 - 1].w = Word(t[i][1])
    BY <1>13, <2>2
  <2>4. b[3 * i + 2 - 1].w = Word(t[i][2])
    BY <1>13, <2>2
  <2>5. b[3 * i + 3 - 1].w = Word(t[i][3])
    BY <1>13, <2>2
  <2> QED BY <2>1, <2>3, <2>4, <2>5
<1> QED BY <1>11, <1>12, <1>14 DEF b, n, TripleBlock

\* The cells of a table of ranges.
LEMMA RangeTableCells ==
  ASSUME NEW R, Ranges(R), IsWord(Cardinality(R))
  PROVE  \E t \in Seq(R) : Len(t) = Cardinality(R) /\ ToSet(t) = R /\ TripleBlock(RangeTable(R), t)
<1> DEFINE t == InOrderOf(R, LAMBDA q : q[1])
           n == Cardinality(R)
           b == RangeTable(R)
<1>1. t \in Seq(R) /\ n \in Nat /\ Len(t) = n /\ ToSet(t) = R
  BY RangesInOrder
<1>2. b = TripleTable(t)
  <2>1. b = Words(<<2, n>>) \o Flattened(t, Words)
    BY DEF RangeTable
  <2> HIDE DEF b, t, n
  <2> QED BY <1>1, <2>1 DEF TripleTable
<1>3. t \in Seq(Triples)
  BY <1>1, SeqMonotonic DEF Ranges, Triples
<1> HIDE DEF t, b
<1>4. TripleBlock(b, t)
  BY <1>1, <1>2, <1>3, TripleCells
<1> QED BY <1>1, <1>4 DEF b

-----------------------------------------------------------------------------
(* What is read of a table of ranges.                                      *)

\* The rows ss hold an entry for each number of the ranges t, and for no other.
Rows(ss, t) ==
  /\ ss \in Seq(Seq(Entries)) /\ Len(ss) = Len(t)
  /\ \A i \in 1..Len(t) :
       /\ \A e \in ToSet(ss[i]) : e.g \in t[i][1]..t[i][2]
       /\ \A g \in t[i][1]..t[i][2] : \E e \in ToSet(ss[i]) : e.g = g

\* s holds what the rows hold, once for each number.
Gathers(s, ss, t) ==
  /\ s \in Seq(Entries)
  /\ \A e \in ToSet(s) : \E i \in 1..Len(t) : e \in ToSet(ss[i]) /\ e.g \in t[i][1]..t[i][2]
  /\ \A i \in 1..Len(t) : \A g \in t[i][1]..t[i][2] : \E e \in ToSet(s) : e.g = g

LEMMA RowsGather ==
  ASSUME NEW ss, NEW t, Rows(ss, t)
  PROVE  Gathers(FirstOfEach(FlattenSeq(ss), LAMBDA e : e.g), ss, t)
<1> DEFINE w == FlattenSeq(ss)
           s == FirstOfEach(w, LAMBDA e : e.g)
<1>1. w \in Seq(Entries) /\ \A e : e \in ToSet(w) <=> \E i \in 1..Len(ss) : e \in ToSet(ss[i])
  <2>1. w \in Seq(Entries) /\ ToSet(w) = UNION {ToSet(ss[i]) : i \in 1..Len(ss)}
    BY FlattenRange DEF Rows
  <2> HIDE DEF w
  <2> QED BY <2>1
<1> HIDE DEF w
<1>2. /\ s \in Seq(Entries) /\ ToSet(s) \subseteq ToSet(w)
      /\ \A d \in ToSet(w) : \E e \in ToSet(s) : e.g = d.g
  BY <1>1, FirstEntriesHold
<1> HIDE DEF s
<1>3. \A e \in ToSet(s) : \E i \in 1..Len(t) : e \in ToSet(ss[i]) /\ e.g \in t[i][1]..t[i][2]
  BY <1>1, <1>2 DEF Rows
<1>4. ASSUME NEW i \in 1..Len(t), NEW g \in t[i][1]..t[i][2] PROVE \E e \in ToSet(s) : e.g = g
  <2>1. PICK d \in ToSet(ss[i]) : d.g = g
    BY DEF Rows
  <2>2. d \in ToSet(w)
    BY <1>1 DEF Rows
  <2> QED BY <1>2, <2>1, <2>2
<1>5. Gathers(s, ss, t)
  BY <1>2, <1>3, <1>4 DEF Gathers
<1> QED BY <1>5 DEF s, w

RowOf(lo, hi, key) == [k \in 1..(hi - lo + 1) |-> [g |-> lo + k - 1, c |-> key[lo + k - 1]]]

\* An entry for each number from lo to hi, with its key.
IsRow(r, lo, hi, key) ==
  /\ r \in Seq(Entries)
  /\ \A e \in ToSet(r) : e.g \in lo..hi /\ e.c = key[e.g]
  /\ \A g \in lo..hi : \E e \in ToSet(r) : e.g = g

LEMMA RowHolds ==
  ASSUME NEW lo \in Nat, NEW hi \in Nat, lo <= hi, NEW key \in [lo..hi -> Nat]
  PROVE  IsRow(RowOf(lo, hi, key), lo, hi, key)
<1> DEFINE n == hi - lo + 1
           r == [k \in 1..n |-> [g |-> lo + k - 1, c |-> key[lo + k - 1]]]
<1>1. n \in Nat /\ \A k \in 1..n : lo + k - 1 \in lo..hi /\ lo + k - 1 \in Nat
  OBVIOUS
<1>2. \A x \in lo..hi : key[x] \in Nat
  OBVIOUS
<1>3. \A g \in lo..hi : g - lo + 1 \in 1..n /\ lo + (g - lo + 1) - 1 = g
  OBVIOUS
<1> HIDE DEF n
<1>4. \A k \in 1..n : r[k] = [g |-> lo + k - 1, c |-> key[lo + k - 1]] /\ r[k] \in Entries
  BY <1>1, <1>2 DEF Entries
<1>5. DOMAIN r = 1..n /\ \A k \in 1..n : r[k].g = lo + k - 1 /\ r[k].c = key[lo + k - 1]
  OBVIOUS
<1>6. r \in Seq(Entries)
  <2>1. r = [k \in 1..n |-> r[k]]
    OBVIOUS
  <2> HIDE DEF r
  <2>2. r \in [1..n -> Entries]
    BY <1>4, <2>1
  <2> QED BY <1>1, <2>2
<1> HIDE DEF r
<1>7. \A e \in ToSet(r) : e.g \in lo..hi /\ e.c = key[e.g]
  <2> SUFFICES ASSUME NEW k \in 1..n PROVE r[k].g \in lo..hi /\ r[k].c = key[r[k].g]
    BY <1>5 DEF ToSet
  <2>1. r[k].g = lo + k - 1 /\ r[k].c = key[lo + k - 1]
    BY <1>5
  <2> QED BY <1>1, <2>1
<1>8. ASSUME NEW g \in lo..hi PROVE \E e \in ToSet(r) : e.g = g
  <2> DEFINE k == g - lo + 1
  <2>1. k \in 1..n /\ lo + k - 1 = g
    BY <1>3
  <2> HIDE DEF k
  <2>2. r[k].g = g /\ r[k] \in ToSet(r)
    BY <1>4, <1>5, <2>1 DEF ToSet
  <2> QED BY <2>2
<1> QED BY <1>6, <1>7, <1>8 DEF r, n, RowOf, IsRow

\* Ranges that can be written: of words, none of them empty.
WordRanges(t) ==
  /\ t \in Seq(Triples)
  /\ \A i \in 1..Len(t) : IsWord(t[i][1]) /\ IsWord(t[i][2]) /\ t[i][1] <= t[i][2]

LEMMA RangeWords ==
  ASSUME NEW t, WordRanges(t), NEW b, TripleBlock(b, t)
  PROVE  /\ WordAt(b, 2) = Len(t) /\ Len(t) \in Nat
         /\ \A i \in 1..Len(t) :
              /\ WordAt(b, 3 * i) = t[i][1] /\ WordAt(b, 3 * i + 1) = t[i][2]
              /\ WordAt(b, 3 * i + 2) = Word(t[i][3])
              /\ t[i][1] \in Nat /\ t[i][2] \in Nat /\ t[i][1] <= t[i][2] /\ Word(t[i][3]) \in Nat
<1>1. \A i \in 1..Len(t) : t[i] \in Triples
  BY ElementOfSeq DEF WordRanges
<1>2. \A n \in Int : Word(n) \in Nat
  BY DEF Word
<1>3. \A i \in 1..Len(t) : Word(t[i][3]) \in Nat
  BY <1>1, <1>2 DEF Triples
<1> QED BY <1>3, WordKept DEF WordAt, TripleBlock, WordRanges

LEMMA CoverageEntries ==
  ASSUME NEW t, WordRanges(t), NEW b, TripleBlock(b, t)
  PROVE  LET s == RangeEntries(b, LAMBDA x, g : x + g)
         IN  /\ s \in Seq(Entries)
             /\ \A g : (\E e \in ToSet(s) : e.g = g) <=> (\E i \in 1..Len(t) : g \in t[i][1]..t[i][2])
<1> DEFINE n == Len(t)
           row(i) == RangeOf(b, i, LAMBDA x, g : x + g)
           ss == [i \in 1..n |-> row(i)]
           s == RangeEntries(b, LAMBDA x, g : x + g)
<1>1. /\ WordAt(b, 2) = n /\ n \in Nat
      /\ \A i \in 1..n :
              /\ WordAt(b, 3 * i) = t[i][1] /\ WordAt(b, 3 * i + 1) = t[i][2]
              /\ WordAt(b, 3 * i + 2) = Word(t[i][3])
              /\ t[i][1] \in Nat /\ t[i][2] \in Nat /\ t[i][1] <= t[i][2] /\ Word(t[i][3]) \in Nat
  BY RangeWords
<1>2. s = FirstOfEach(FlattenSeq(ss), LAMBDA e : e.g)
  BY <1>1 DEF RangeEntries
<1>3. ASSUME NEW i \in 1..n
      PROVE  /\ row(i) \in Seq(Entries)
             /\ \A e \in ToSet(row(i)) : e.g \in t[i][1]..t[i][2]
             /\ \A g \in t[i][1]..t[i][2] : \E e \in ToSet(row(i)) : e.g = g
  <2> DEFINE lo == t[i][1]
             hi == t[i][2]
             v == Word(t[i][3])
             key == [g \in lo..hi |-> v + g]
             r == RowOf(lo, hi, key)
  <2>1. /\ lo \in Nat /\ hi \in Nat /\ lo <= hi /\ v \in Nat
        /\ WordAt(b, 3 * i) = lo /\ WordAt(b, 3 * i + 1) = hi /\ WordAt(b, 3 * i + 2) = v
    BY <1>1
  <2> HIDE DEF lo, hi, v
  <2>2. row(i) = [k \in 1..(hi - lo + 1) |-> [g |-> lo + k - 1, c |-> v + (lo + k - 1)]]
    BY <2>1 DEF RangeOf
  <2>3. \A k \in 1..(hi - lo + 1) : key[lo + k - 1] = v + (lo + k - 1)
    BY <2>1
  <2>4. row(i) = r
    BY <2>2, <2>3 DEF RowOf
  <2>5. key \in [lo..hi -> Nat]
    BY <2>1
  <2> HIDE DEF key
  <2>6. IsRow(r, lo, hi, key)
    BY <2>1, <2>5, RowHolds
  <2> HIDE DEF row, r
  <2> QED BY <2>4, <2>6 DEF lo, hi, IsRow
<1> HIDE DEF row
<1>4. ss \in Seq(Seq(Entries)) /\ Len(ss) = n
  <2>1. ss \in [1..n -> Seq(Entries)]
    BY <1>3
  <2> HIDE DEF ss, n
  <2> QED BY <1>1, <2>1
<1>5. \A i \in 1..n : ss[i] = row(i)
  OBVIOUS
<1> HIDE DEF ss
<1>6. Rows(ss, t)
  BY <1>3, <1>4, <1>5 DEF Rows
<1> HIDE DEF s
<1>7. Gathers(s, ss, t)
  BY <1>2, <1>6, RowsGather
<1>8. s \in Seq(Entries)
      /\ \A g : (\E e \in ToSet(s) : e.g = g) <=> (\E i \in 1..Len(t) : g \in t[i][1]..t[i][2])
  BY <1>7 DEF Gathers
<1> QED BY <1>8 DEF s

LEMMA ClassEntries ==
  ASSUME NEW t, WordRanges(t), NEW b, TripleBlock(b, t)
  PROVE  LET s == RangeEntries(b, LAMBDA x, g : x)
         IN  /\ s \in Seq(Entries)
             /\ \A e \in ToSet(s) : \E i \in 1..Len(t) : e.g \in t[i][1]..t[i][2] /\ e.c = Word(t[i][3])
             /\ \A i \in 1..Len(t) : \A g \in t[i][1]..t[i][2] : \E e \in ToSet(s) : e.g = g
<1> DEFINE n == Len(t)
           row(i) == RangeOf(b, i, LAMBDA x, g : x)
           ss == [i \in 1..n |-> row(i)]
           s == RangeEntries(b, LAMBDA x, g : x)
<1>1. /\ WordAt(b, 2) = n /\ n \in Nat
      /\ \A i \in 1..n :
              /\ WordAt(b, 3 * i) = t[i][1] /\ WordAt(b, 3 * i + 1) = t[i][2]
              /\ WordAt(b, 3 * i + 2) = Word(t[i][3])
              /\ t[i][1] \in Nat /\ t[i][2] \in Nat /\ t[i][1] <= t[i][2] /\ Word(t[i][3]) \in Nat
  BY RangeWords
<1>2. s = FirstOfEach(FlattenSeq(ss), LAMBDA e : e.g)
  BY <1>1 DEF RangeEntries
<1>3. ASSUME NEW i \in 1..n
      PROVE  /\ row(i) \in Seq(Entries)
             /\ \A e \in ToSet(row(i)) : e.g \in t[i][1]..t[i][2] /\ e.c = Word(t[i][3])
             /\ \A g \in t[i][1]..t[i][2] : \E e \in ToSet(row(i)) : e.g = g
  <2> DEFINE lo == t[i][1]
             hi == t[i][2]
             v == Word(t[i][3])
             key == [g \in lo..hi |-> v]
             r == RowOf(lo, hi, key)
  <2>1. /\ lo \in Nat /\ hi \in Nat /\ lo <= hi /\ v \in Nat
        /\ WordAt(b, 3 * i) = lo /\ WordAt(b, 3 * i + 1) = hi /\ WordAt(b, 3 * i + 2) = v
    BY <1>1
  <2> HIDE DEF lo, hi, v
  <2>2. row(i) = [k \in 1..(hi - lo + 1) |-> [g |-> lo + k - 1, c |-> v]]
    BY <2>1 DEF RangeOf
  <2>3. \A k \in 1..(hi - lo + 1) : key[lo + k - 1] = v
    BY <2>1
  <2>4. row(i) = r
    BY <2>2, <2>3 DEF RowOf
  <2>5. key \in [lo..hi -> Nat] /\ \A g \in lo..hi : key[g] = v
    BY <2>1
  <2> HIDE DEF key
  <2>6. IsRow(r, lo, hi, key)
    BY <2>1, <2>5, RowHolds
  <2> HIDE DEF row, r
  <2> QED BY <2>4, <2>5, <2>6 DEF lo, hi, v, IsRow
<1> HIDE DEF row
<1>4. ss \in Seq(Seq(Entries)) /\ Len(ss) = n
  <2>1. ss \in [1..n -> Seq(Entries)]
    BY <1>3
  <2> HIDE DEF ss, n
  <2> QED BY <1>1, <2>1
<1>5. \A i \in 1..n : ss[i] = row(i)
  OBVIOUS
<1> HIDE DEF ss
<1>6. Rows(ss, t)
  BY <1>3, <1>4, <1>5 DEF Rows
<1> HIDE DEF s
<1>7. Gathers(s, ss, t)
  BY <1>2, <1>6, RowsGather
<1>8. \A e \in ToSet(s) : \E i \in 1..Len(t) : e.g \in t[i][1]..t[i][2] /\ e.c = Word(t[i][3])
  BY <1>3, <1>5, <1>7 DEF Gathers
<1>9. s \in Seq(Entries) /\ \A i \in 1..Len(t) : \A g \in t[i][1]..t[i][2] : \E e \in ToSet(s) : e.g = g
  BY <1>7 DEF Gathers
<1> QED BY <1>8, <1>9 DEF s

-----------------------------------------------------------------------------
(* A coverage, written and read back.                                      *)

LEMMA GidsAreWords == \A g \in Gids : g \in Nat /\ IsWord(g)
<1>1. NumGlyphs \in Nat
  BY OrderNamesOnce, LenProperties DEF NumGlyphs
<1> QED BY <1>1, OrderNamesOnce DEF Gids, IsWord

LEMMA GidsAreFinite == IsFiniteSet(Gids)
<1>1. NumGlyphs \in Nat
  BY OrderNamesOnce, LenProperties DEF NumGlyphs
<1>2. 0 \in Int /\ NumGlyphs - 1 \in Int
  BY <1>1
<1> QED BY <1>2, FS_Interval DEF Gids

\* A sequence has no more members than places.
LEMMA SetOfSeq ==
  ASSUME NEW X, NEW s \in Seq(X)
  PROVE  /\ IsFiniteSet(ToSet(s)) /\ Cardinality(ToSet(s)) \in Nat
         /\ Cardinality(ToSet(s)) <= Len(s) /\ ToSet(s) \subseteq X
<1> DEFINE T == ToSet(s)
<1>1. Len(s) \in Nat /\ DOMAIN s = 1..Len(s) /\ s \in [1..Len(s) -> X]
  BY LenProperties
<1>2. T = {s[i] : i \in 1..Len(s)}
  BY <1>1 DEF ToSet
<1> HIDE DEF T
<1>3. s \in Surjection(1..Len(s), T)
  BY <1>1, <1>2 DEF Surjection
<1>4. IsFiniteSet(1..Len(s)) /\ Cardinality(1..Len(s)) = Len(s)
  BY <1>1, UpToIsFinite
<1>5. IsFiniteSet(T) /\ Cardinality(T) <= Len(s)
  BY <1>3, <1>4, FS_Surjection
<1>6. T \subseteq X
  BY <1>1, <1>2
<1> QED BY <1>5, <1>6, FS_CardinalityType DEF T

\* Ranges with different starts in S are no more than S.
LEMMA StartsBound ==
  ASSUME NEW S, IsFiniteSet(S), NEW R, R \subseteq Triples,
         \A q \in R : q[1] \in S, \A q, r \in R : q[1] = r[1] => q = r
  PROVE  Ranges(R) /\ Cardinality(R) \in Nat /\ Cardinality(R) <= Cardinality(S)
<1> DEFINE f == [q \in R |-> q[1]]
<1>1. f \in Injection(R, S)
  <2>1. f \in [R -> S]
    OBVIOUS
  <2>2. \A q, r \in R : f[q] = f[r] => q = r
    OBVIOUS
  <2>3. DOMAIN f = R
    OBVIOUS
  <2> HIDE DEF f
  <2> QED BY <2>1, <2>2, <2>3 DEF Injection, IsInjective
<1> HIDE DEF f
<1>2. IsFiniteSet(R) /\ Cardinality(R) <= Cardinality(S)
  BY <1>1, FS_Injection
<1> QED BY <1>2, FS_CardinalityType DEF Ranges

\* A set of words small enough to be counted in one.
SmallSet(S) == IsFiniteSet(S) /\ IsWord(Cardinality(S)) /\ \A g \in S : IsWord(g)

LEMMA SmallerIsWord ==
  ASSUME NEW m, NEW n, m \in Nat, IsWord(n), m <= n
  PROVE  IsWord(m)
BY DEF IsWord

LEMMA CoverageTableHolds ==
  ASSUME NEW S, SmallSet(S), NEW v \in [Runs(S) -> Int],
         NEW R, R = {<<q[1], q[2], v[q]>> : q \in Runs(S)}
  PROVE  \E t : /\ WordRanges(t) /\ TripleBlock(RangeTable(R), t)
                /\ \A g : (\E i \in 1..Len(t) : g \in t[i][1]..t[i][2]) <=> g \in S
<1>0. S \subseteq Nat /\ IsFiniteSet(S) /\ IsWord(Cardinality(S)) /\ \A g \in S : IsWord(g)
  BY DEF SmallSet, IsWord
<1>1. /\ \A q \in Runs(S) : /\ q = <<q[1], q[2]>> /\ q[1] \in S /\ q[2] \in S /\ q[1] <= q[2]
                            /\ \A g \in q[1]..q[2] : g \in S
      /\ \A q, r \in Runs(S) : q[1] = r[1] => q = r
      /\ \A g \in S : \E q \in Runs(S) : g \in q[1]..q[2]
  BY <1>0, RunsCover
<1>2. R \subseteq Triples /\ (\A q \in R : q[1] \in S) /\ (\A q, r \in R : q[1] = r[1] => q = r)
  <2>1. \A r \in R : \E q \in Runs(S) :
          r = <<q[1], q[2], v[q]>> /\ r[1] = q[1] /\ r[2] = q[2] /\ q[1] \in Nat /\ q[2] \in Nat /\ v[q] \in Int
    BY <1>0, <1>1
  <2>2. R \subseteq Triples /\ \A q \in R : q[1] \in S
    BY <1>1, <2>1 DEF Triples
  <2>3. ASSUME NEW q \in R, NEW r \in R, q[1] = r[1] PROVE q = r
    <3>1. PICK x \in Runs(S) : q = <<x[1], x[2], v[x]>> /\ q[1] = x[1]
      BY <2>1
    <3>2. PICK y \in Runs(S) : r = <<y[1], y[2], v[y]>> /\ r[1] = y[1]
      BY <2>1
    <3>3. x = y
      BY <1>1, <2>3, <3>1, <3>2
    <3> QED BY <3>1, <3>2, <3>3
  <2> QED BY <2>2, <2>3
<1>3. \A q \in R : q[1] \in S /\ q[2] \in S /\ q[1] <= q[2] /\ \A g \in q[1]..q[2] : g \in S
  BY <1>1
<1>4. \A g \in S : \E q \in R : g \in q[1]..q[2]
  <2> SUFFICES ASSUME NEW g \in S PROVE \E q \in R : g \in q[1]..q[2]
    OBVIOUS
  <2>1. PICK p \in Runs(S) : g \in p[1]..p[2]
    BY <1>1
  <2> DEFINE q == <<p[1], p[2], v[p]>>
  <2>2. q \in R /\ q[1] = p[1] /\ q[2] = p[2]
    OBVIOUS
  <2> HIDE DEF q
  <2> QED BY <2>1, <2>2
<1>5. Ranges(R) /\ Cardinality(R) \in Nat /\ Cardinality(R) <= Cardinality(S)
  BY <1>0, <1>2, StartsBound
<1>6. IsWord(Cardinality(R))
  BY <1>0, <1>5, SmallerIsWord
<1>7. PICK t \in Seq(R) : Len(t) = Cardinality(R) /\ ToSet(t) = R /\ TripleBlock(RangeTable(R), t)
  BY <1>5, <1>6, RangeTableCells
<1>8. t \in Seq(Triples) /\ \A i \in 1..Len(t) : t[i] \in R
  BY <1>2, <1>7, SeqMonotonic, ElementOfSeq
<1>9. WordRanges(t)
  BY <1>0, <1>3, <1>8 DEF WordRanges
<1>10. \A q \in R : \E i \in 1..Len(t) : t[i] = q
  <2>1. DOMAIN t = 1..Len(t)
    BY <1>7, LenProperties
  <2> QED BY <1>7, <2>1 DEF ToSet
<1>11. ASSUME NEW i \in 1..Len(t), NEW g \in t[i][1]..t[i][2] PROVE g \in S
  BY <1>3, <1>8
<1>12. ASSUME NEW g \in S PROVE \E i \in 1..Len(t) : g \in t[i][1]..t[i][2]
  BY <1>4, <1>10
<1>13. TripleBlock(RangeTable(R), t)
  BY <1>7
<1> QED BY <1>9, <1>11, <1>12, <1>13

LEMMA MappedGlyphs ==
  ASSUME NEW s \in Seq(Entries)
  PROVE  LET t == Mapped(s, LAMBDA e : e.g)
         IN  t \in Seq(Nat) /\ Len(t) = Len(s) /\ \A g : g \in ToSet(t) <=> \E e \in ToSet(s) : e.g = g
<1> DEFINE t == Mapped(s, LAMBDA e : e.g)
<1>1. DOMAIN s = 1..Len(s) /\ Len(s) \in Nat /\ \A i \in 1..Len(s) : s[i] \in Entries
  BY LenProperties, ElementOfSeq
<1>2. t = [i \in 1..Len(s) |-> s[i].g]
  BY <1>1 DEF Mapped
<1>3. \A i \in 1..Len(s) : s[i].g \in Nat
  BY <1>1 DEF Entries
<1> HIDE DEF t
<1>4. t \in [1..Len(s) -> Nat] /\ DOMAIN t = 1..Len(s)
  BY <1>2, <1>3
<1>5. t \in Seq(Nat) /\ Len(t) = Len(s)
  BY <1>1, <1>4
<1>6. \A g : g \in ToSet(t) <=> \E e \in ToSet(s) : e.g = g
  BY <1>1, <1>2, <1>4 DEF ToSet
<1> QED BY <1>5, <1>6 DEF t

\* Format 2 is read back.
LEMMA RangesReadBack ==
  ASSUME NEW S, NEW t, WordRanges(t), NEW b, TripleBlock(b, t),
         \A g : (\E i \in 1..Len(t) : g \in t[i][1]..t[i][2]) <=> g \in S
  PROVE  ReadCoverage(b) \in Seq(Nat) /\ ToSet(ReadCoverage(b)) = S
<1> DEFINE s == RangeEntries(b, LAMBDA x, g : x + g)
           u == SortedBy(s, LAMBDA e : e.c)
           w == Mapped(u, LAMBDA e : e.g)
<1>1. ReadCoverage(b) = w
  <2>1. WordAt(b, 1) = 2
    BY DEF WordAt, TripleBlock
  <2>2. WordAt(b, 1) # 1
    BY <2>1
  <2> QED BY <2>1, <2>2 DEF ReadCoverage
<1>2. s \in Seq(Entries) /\ \A g : (\E e \in ToSet(s) : e.g = g) <=> g \in S
  BY CoverageEntries
<1> HIDE DEF s
<1>3. u \in Seq(Entries) /\ ToSet(u) = ToSet(s)
  BY <1>2, ByClassHolds
<1> HIDE DEF u
<1>4. w \in Seq(Nat) /\ \A g : g \in ToSet(w) <=> \E e \in ToSet(u) : e.g = g
  BY <1>3, MappedGlyphs
<1> HIDE DEF w
<1> QED BY <1>1, <1>2, <1>3, <1>4

\* Format 1 is read back.
LEMMA ListReadBack ==
  ASSUME NEW r \in Seq(Nat), r # <<>>, IsWord(Len(r)), \A i \in 1..Len(r) : IsWord(r[i])
  PROVE  LET b == CoverageFormat1(r)
         IN  ReadCoverage(b) \in Seq(Nat) /\ ToSet(ReadCoverage(b)) = ToSet(r)
<1> DEFINE n == Len(r)
           s == <<1, n>> \o r
           b == CoverageFormat1(r)
           w == SubSeq(b, 3, n + 2)
           c == Cells(b, 3, n + 2)
<1>1. n \in Nat /\ n >= 1
  BY LenProperties, EmptySeq
<1>2. s \in Seq(Int) /\ Len(s) = n + 2 /\ s[1] = 1 /\ s[2] = n /\ \A i \in 1..n : s[i + 2] = r[i]
  <2>1. r \in Seq(Int)
    BY SeqMonotonic
  <2> DEFINE h == <<1, n>>
  <2>2. h \in Seq(Int) /\ Len(h) = 2 /\ h[1] = 1 /\ h[2] = n
    BY <1>1
  <2> HIDE DEF h, n
  <2>3. h \o r \in Seq(Int) /\ Len(h \o r) = 2 + n
        /\ \A i \in 1..(2 + n) : (h \o r)[i] = IF i <= 2 THEN h[i] ELSE r[i - 2]
    <3>1. Len(r) = n
      BY DEF n
    <3>2. /\ h \o r \in Seq(Int) /\ Len(h \o r) = Len(h) + Len(r)
          /\ \A i \in 1..(Len(h) + Len(r)) : (h \o r)[i] = IF i <= Len(h) THEN h[i] ELSE r[i - Len(h)]
      BY <2>1, <2>2, ConcatProperties
    <3> QED BY <2>2, <3>1, <3>2
  <2>4. (h \o r)[1] = 1 /\ (h \o r)[2] = n
    <3>1. 1 \in 1..(2 + n) /\ 2 \in 1..(2 + n)
      BY <1>1
    <3>2. (h \o r)[1] = h[1] /\ (h \o r)[2] = h[2]
      BY <2>3, <3>1
    <3> QED BY <2>2, <3>2
  <2>5. \A i \in 1..n : i + 2 \in 1..(2 + n) /\ ~(i + 2 <= 2) /\ (i + 2) - 2 = i
    BY <1>1
  <2>6. \A i \in 1..n : (h \o r)[i + 2] = r[i]
    BY <2>3, <2>5
  <2> QED BY <2>3, <2>4, <2>6, <1>1 DEF h
<1> HIDE DEF s
<1>3. b \in Seq(Numbers) /\ Len(b) = n + 2 /\ \A i \in 1..(n + 2) : b[i].w = Word(s[i])
  <2>1. b = Words(s)
    BY DEF CoverageFormat1, s
  <2> HIDE DEF b
  <2> QED BY <1>2, <2>1, WordsHold
<1> HIDE DEF b, n
<1>4. b[1].w = 1 /\ b[2].w = n
  <2>1. 1 \in 1..(n + 2) /\ 2 \in 1..(n + 2) /\ 1 \in 0..99
    BY <1>1
  <2>2. Word(1) = 1 /\ Word(n) = n
    BY <2>1, SmallIsWord, WordKept DEF n
  <2>3. b[1].w = Word(s[1]) /\ b[2].w = Word(s[2])
    BY <1>3, <2>1
  <2> QED BY <1>2, <2>2, <2>3
<1>5. ASSUME NEW i \in 1..n PROVE b[i + 2].w = r[i] /\ i + 2 \in 1..(n + 2)
  <2>1. i + 2 \in 1..(n + 2)
    BY <1>1
  <2>2. Word(r[i]) = r[i]
    BY WordKept DEF n
  <2> QED BY <1>2, <1>3, <2>1, <2>2
<1>6. w \in Seq(Numbers) /\ Len(w) = n /\ \A i \in 1..n : w[i] = b[i + 2]
  <2>1. \A i \in 3..(n + 2) : i \in 1..Len(b)
    BY <1>1, <1>3
  <2>2. \A i \in 3..(n + 2) : b[i] \in Numbers
    BY <1>3, <2>1, ElementOfSeq
  <2>3. 3 \in Int /\ n + 2 \in Int /\ 3 <= n + 2 /\ (n + 2) - 3 + 1 = n /\ \A i \in 1..n : 3 + i - 1 = i + 2
    BY <1>1
  <2>4. /\ SubSeq(b, 3, n + 2) \in Seq(Numbers)
        /\ Len(SubSeq(b, 3, n + 2)) = (n + 2) - 3 + 1
        /\ \A i \in 1..((n + 2) - 3 + 1) : SubSeq(b, 3, n + 2)[i] = b[3 + i - 1]
    BY <2>2, <2>3, SubSeqProperties
  <2> QED BY <2>3, <2>4
<1>7. c = r
  <2>1. DOMAIN w = 1..n
    BY <1>6, LenProperties
  <2>2. c = [i \in 1..n |-> w[i].w]
    BY <2>1 DEF Cells, Mapped
  <2> HIDE DEF c, w
  <2>3. \A i \in 1..n : w[i].w = r[i]
    BY <1>5, <1>6
  <2>4. r = [i \in 1..n |-> r[i]]
    BY LenProperties DEF n
  <2> QED BY <2>2, <2>3, <2>4
<1>8. ReadCoverage(b) = FirstOfEach(r, LAMBDA g : g)
  BY <1>4, <1>7 DEF ReadCoverage, WordAt
<1>9. ReadCoverage(b) \in Seq(Nat) /\ ToSet(ReadCoverage(b)) = ToSet(r)
  <2> DEFINE t == FirstOfEach(r, LAMBDA g : g)
  <2>1. t \in Seq(Nat) /\ ToSet(t) = ToSet(r)
    BY FirstsHold
  <2> QED BY <1>8, <2>1
<1> QED BY <1>9 DEF b

(* What otl_build_coverage writes, in the shorter of its two formats,       *)
(* otl_read_coverage reads as the same glyphs, whatever their order, number *)
(* and repetitions.                                                         *)
THEOREM CoverageReadBack ==
  ASSUME NEW cov \in Seq(Gids), cov # <<>>, IsWord(Len(cov))
  PROVE  LET b == BuildCoverage(cov)
         IN  ReadCoverage(b) \in Seq(Nat) /\ ToSet(ReadCoverage(b)) = ToSet(cov)
<1> DEFINE r == Ascending(cov)
           S == ToSet(r)
           one == CoverageFormat1(r)
           two == CoverageFormat2(r)
           b == BuildCoverage(cov)
           Back(x) == ReadCoverage(x) \in Seq(Nat) /\ ToSet(ReadCoverage(x)) = ToSet(cov)
<1>1. cov \in Seq(Nat)
  BY GidsAreWords, SeqMonotonic
<1>2. r \in Seq(Nat) /\ Len(r) = Len(cov) /\ ToSet(r) = ToSet(cov)
  BY <1>1, AscendingHolds
<1>3. r # <<>>
  BY <1>1, <1>2, EmptySeq
<1>4. \A g \in S : g \in Nat /\ IsWord(g)
  <2>1. ToSet(cov) \subseteq Gids
    BY SetOfSeq
  <2> QED BY <1>2, <2>1, GidsAreWords
<1>5. b \in {one, two}
  BY DEF BuildCoverage, BuildCoverageFormat
<1> HIDE DEF r, b
<1>6. Back(one)
  <2>1. \A i \in 1..Len(r) : IsWord(r[i])
    <3>1. DOMAIN r = 1..Len(r)
      BY <1>2, LenProperties
    <3> QED BY <1>4, <3>1 DEF ToSet
  <2>2. IsWord(Len(r))
    BY <1>2
  <2>3. ReadCoverage(one) \in Seq(Nat) /\ ToSet(ReadCoverage(one)) = ToSet(r)
    BY <1>2, <1>3, <2>1, <2>2, ListReadBack
  <2> QED BY <1>2, <2>3
<1>7. Back(two)
  <2> DEFINE upTo(g) == Len(Those(r, LAMBDA x : x <= g))
             v == [q \in Runs(S) |-> upTo(q[2]) + q[1] - q[2] - 1]
             R == {<<q[1], q[2], v[q]>> : q \in Runs(S)}
  <2>1. two = RangeTable(R)
    BY DEF CoverageFormat2
  <2>2. SmallSet(S)
    <3>1. IsFiniteSet(S) /\ Cardinality(S) \in Nat /\ Cardinality(S) <= Len(r)
      BY <1>2, SetOfSeq
    <3>2. IsWord(Cardinality(S))
      BY <1>2, <3>1, SmallerIsWord
    <3> QED BY <1>4, <3>1, <3>2 DEF SmallSet
  <2>3. v \in [Runs(S) -> Int]
    <3>1. \A g : upTo(g) \in Nat
      <4> SUFFICES ASSUME NEW g PROVE upTo(g) \in Nat
        OBVIOUS
      <4> DEFINE Q == {i \in DOMAIN r : r[i] <= g}
      <4>1. Those(r, LAMBDA x : x <= g) = AtPlaces(r, Q)
        BY DEF Those
      <4>2. Q \in SUBSET DOMAIN r
        OBVIOUS
      <4> HIDE DEF Q
      <4>3. AtPlaces(r, Q) \in Seq(Nat)
        BY <1>2, <4>2, AtPlacesPicks
      <4> QED BY <4>1, <4>3, LenProperties
    <3>2. \A q \in Runs(S) : q[1] \in Nat /\ q[2] \in Nat
      <4>1. S \subseteq Nat /\ IsFiniteSet(S)
        BY <1>4, <2>2 DEF SmallSet
      <4>2. \A q \in Runs(S) : q[1] \in S /\ q[2] \in S
        <5> HIDE DEF S
        <5> QED BY <4>1, RunsCover
      <4> QED BY <4>1, <4>2
    <3> HIDE DEF upTo, S
    <3> QED BY <3>1, <3>2
  <2> HIDE DEF v, S, two
  <2>4. PICK t : /\ WordRanges(t) /\ TripleBlock(RangeTable(R), t)
                 /\ \A g : (\E i \in 1..Len(t) : g \in t[i][1]..t[i][2]) <=> g \in S
    BY <2>2, <2>3, CoverageTableHolds
  <2> HIDE DEF R
  <2>5. ReadCoverage(two) \in Seq(Nat) /\ ToSet(ReadCoverage(two)) = S
    BY <2>1, <2>4, RangesReadBack
  <2> QED BY <1>2, <2>5 DEF S
<1> HIDE DEF one, two
<1>8. Back(b)
  BY <1>5, <1>6, <1>7
<1> QED BY <1>8 DEF b

-----------------------------------------------------------------------------
(* A class definition, written and read back.                              *)

\* Each glyph is in one class.
IsClassDef(entries) ==
  /\ entries \in Seq(Entries)
  /\ \A e \in ToSet(entries) : e.g \in Gids /\ IsWord(e.c)
  /\ \A d, e \in ToSet(entries) : d.g = e.g => d = e

LEMMA GidsAreSmall ==
  ASSUME NEW S, S \subseteq Gids
  PROVE  SmallSet(S)
<1>1. NumGlyphs \in Nat /\ IsWord(NumGlyphs)
  BY OrderNamesOnce, LenProperties DEF NumGlyphs, IsWord
<1>2. IsFiniteSet(Gids) /\ Cardinality(Gids) <= NumGlyphs
  <2>1. 0 \in Int /\ NumGlyphs - 1 \in Int
    BY <1>1
  <2>2. Cardinality(0..(NumGlyphs - 1)) = IF 0 > NumGlyphs - 1 THEN 0 ELSE (NumGlyphs - 1) - 0 + 1
    BY <2>1, FS_Interval
  <2> QED BY <1>1, <2>2, GidsAreFinite DEF Gids
<1>3. IsFiniteSet(S) /\ Cardinality(S) \in Nat /\ Cardinality(S) <= Cardinality(Gids) /\ Cardinality(Gids) \in Nat
  BY <1>2, PartIsFinite
<1>4. Cardinality(S) <= NumGlyphs
  BY <1>1, <1>2, <1>3
<1>5. IsWord(Cardinality(S))
  BY <1>1, <1>3, <1>4, SmallerIsWord
<1> QED BY <1>3, <1>5, GidsAreWords DEF SmallSet

\* The ranges the writer makes of the classes.
ClassRanges(entries) ==
  LET listed == {e \in ToSet(entries) : e.c # 0}
      glyphs(c) == {e.g : e \in {x \in listed : x.c = c}}
  IN UNION {{<<q[1], q[2], c>> : q \in Runs(glyphs(c))} : c \in {e.c : e \in listed}}

LEMMA ClassRangesHold ==
  ASSUME NEW entries, IsClassDef(entries)
  PROVE  /\ Ranges(ClassRanges(entries)) /\ IsWord(Cardinality(ClassRanges(entries)))
         /\ \A q \in ClassRanges(entries) :
              /\ IsWord(q[1]) /\ IsWord(q[2]) /\ q[1] <= q[2] /\ IsWord(q[3]) /\ q[3] # 0
              /\ \A g \in q[1]..q[2] : \E e \in ToSet(entries) : e.g = g /\ e.c = q[3]
         /\ \A e \in ToSet(entries) : e.c # 0 =>
              \E q \in ClassRanges(entries) : e.g \in q[1]..q[2] /\ e.c = q[3]
<1> DEFINE listed == {e \in ToSet(entries) : e.c # 0}
           glyphs(c) == {e.g : e \in {x \in listed : x.c = c}}
           Cs == {e.c : e \in listed}
           R == ClassRanges(entries)
           G == {e.g : e \in ToSet(entries)}
<1>1. \A q : q \in R <=> \E c \in Cs : \E p \in Runs(glyphs(c)) : q = <<p[1], p[2], c>>
  <2>1. R = UNION {{<<p[1], p[2], c>> : p \in Runs(glyphs(c))} : c \in Cs}
    BY DEF ClassRanges
  <2> HIDE DEF R, Cs, glyphs
  <2> QED BY <2>1
<1>2. \A e \in ToSet(entries) : e \in Entries /\ e.g \in Gids /\ IsWord(e.c)
  <2>1. ToSet(entries) \subseteq Entries
    BY SetOfSeq DEF IsClassDef
  <2> QED BY <2>1 DEF IsClassDef
<1>3. G \subseteq Gids /\ SmallSet(G)
  <2>1. G \subseteq Gids
    BY <1>2
  <2> HIDE DEF G
  <2> QED BY <2>1, GidsAreSmall
<1>4. \A c \in Cs : c \in Nat /\ IsWord(c) /\ c # 0
  BY <1>2 DEF IsWord
<1>5. \A c : glyphs(c) \subseteq Gids /\ glyphs(c) \subseteq G
             /\ \A g \in glyphs(c) : \E e \in ToSet(entries) : e.g = g /\ e.c = c
  BY <1>2
<1>6. \A e \in ToSet(entries) : e.c # 0 => e.c \in Cs /\ e.g \in glyphs(e.c)
  OBVIOUS
<1>7. \A c : \A d : c # d => glyphs(c) \cap glyphs(d) = {}
  <2> SUFFICES ASSUME NEW c, NEW d, NEW g \in glyphs(c), g \in glyphs(d) PROVE c = d
    OBVIOUS
  <2>1. PICK x \in ToSet(entries) : x.g = g /\ x.c = c
    OBVIOUS
  <2>2. PICK y \in ToSet(entries) : y.g = g /\ y.c = d
    OBVIOUS
  <2>3. x = y
    BY <2>1, <2>2 DEF IsClassDef
  <2> QED BY <2>1, <2>2, <2>3
<1> HIDE DEF R, Cs, glyphs, G
<1>8. \A c :
        /\ \A q \in Runs(glyphs(c)) :
             /\ q[1] \in glyphs(c) /\ q[2] \in glyphs(c) /\ q[1] <= q[2]
             /\ \A g \in q[1]..q[2] : g \in glyphs(c)
        /\ \A q, r \in Runs(glyphs(c)) : q[1] = r[1] => q = r
        /\ \A g \in glyphs(c) : \E q \in Runs(glyphs(c)) : g \in q[1]..q[2]
  <2> SUFFICES ASSUME NEW S, S \subseteq Gids
               PROVE  /\ \A q \in Runs(S) :
                           /\ q[1] \in S /\ q[2] \in S /\ q[1] <= q[2]
                           /\ \A g \in q[1]..q[2] : g \in S
                      /\ \A q, r \in Runs(S) : q[1] = r[1] => q = r
                      /\ \A g \in S : \E q \in Runs(S) : g \in q[1]..q[2]
    BY <1>5
  <2>1. S \subseteq Nat /\ IsFiniteSet(S)
    BY GidsAreWords, GidsAreSmall DEF SmallSet
  <2> QED BY <2>1, RunsCover
<1>9. ASSUME NEW q \in R
      PROVE  \E c \in Cs : \E p \in Runs(glyphs(c)) :
               /\ q = <<p[1], p[2], c>> /\ q[1] = p[1] /\ q[2] = p[2] /\ q[3] = c
               /\ p[1] \in glyphs(c) /\ p[2] \in glyphs(c) /\ p[1] <= p[2]
               /\ \A g \in p[1]..p[2] : g \in glyphs(c)
  <2>1. PICK c \in Cs : \E p \in Runs(glyphs(c)) : q = <<p[1], p[2], c>>
    BY <1>1
  <2>2. PICK p \in Runs(glyphs(c)) : q = <<p[1], p[2], c>>
    BY <2>1
  <2>3. q[1] = p[1] /\ q[2] = p[2] /\ q[3] = c
    BY <2>2
  <2> QED BY <1>8, <2>2, <2>3
<1>10. ASSUME NEW q \in R
       PROVE  /\ q \in Triples /\ q[1] \in G
              /\ IsWord(q[1]) /\ IsWord(q[2]) /\ q[1] <= q[2] /\ IsWord(q[3]) /\ q[3] # 0
              /\ \A g \in q[1]..q[2] : \E e \in ToSet(entries) : e.g = g /\ e.c = q[3]
  <2>1. PICK c \in Cs : \E p \in Runs(glyphs(c)) :
               /\ q = <<p[1], p[2], c>> /\ q[1] = p[1] /\ q[2] = p[2] /\ q[3] = c
               /\ p[1] \in glyphs(c) /\ p[2] \in glyphs(c) /\ p[1] <= p[2]
               /\ \A g \in p[1]..p[2] : g \in glyphs(c)
    BY <1>9
  <2>2. PICK p \in Runs(glyphs(c)) :
               /\ q = <<p[1], p[2], c>> /\ q[1] = p[1] /\ q[2] = p[2] /\ q[3] = c
               /\ p[1] \in glyphs(c) /\ p[2] \in glyphs(c) /\ p[1] <= p[2]
               /\ \A g \in p[1]..p[2] : g \in glyphs(c)
    BY <2>1
  <2>3. p[1] \in Gids /\ p[2] \in Gids /\ p[1] \in G /\ c \in Nat /\ IsWord(c) /\ c # 0
    BY <1>4, <1>5, <2>2
  <2>4. p[1] \in Nat /\ p[2] \in Nat /\ IsWord(p[1]) /\ IsWord(p[2])
    BY <2>3, GidsAreWords
  <2>5. q \in Triples
    BY <2>2, <2>3, <2>4 DEF Triples
  <2>6. \A g \in q[1]..q[2] : \E e \in ToSet(entries) : e.g = g /\ e.c = q[3]
    BY <1>5, <2>2
  <2> QED BY <2>2, <2>3, <2>4, <2>5, <2>6
<1>11. ASSUME NEW q \in R, NEW r \in R, q[1] = r[1] PROVE q = r
  <2>1. PICK c \in Cs : \E p \in Runs(glyphs(c)) :
               q = <<p[1], p[2], c>> /\ q[1] = p[1] /\ p[1] \in glyphs(c)
    BY <1>9
  <2>2. PICK p \in Runs(glyphs(c)) : q = <<p[1], p[2], c>> /\ q[1] = p[1] /\ p[1] \in glyphs(c)
    BY <2>1
  <2>3. PICK d \in Cs : \E o \in Runs(glyphs(d)) :
               r = <<o[1], o[2], d>> /\ r[1] = o[1] /\ o[1] \in glyphs(d)
    BY <1>9
  <2>4. PICK o \in Runs(glyphs(d)) : r = <<o[1], o[2], d>> /\ r[1] = o[1] /\ o[1] \in glyphs(d)
    BY <2>3
  <2>5. c = d
    BY <1>7, <1>11, <2>2, <2>4
  <2>6. p = o
    BY <1>8, <1>11, <2>2, <2>4, <2>5
  <2> QED BY <2>2, <2>4, <2>5, <2>6
<1>12. Ranges(R) /\ Cardinality(R) \in Nat /\ Cardinality(R) <= Cardinality(G)
  <2>1. R \subseteq Triples /\ (\A q \in R : q[1] \in G) /\ (\A q, r \in R : q[1] = r[1] => q = r)
    BY <1>10, <1>11
  <2>2. IsFiniteSet(G)
    BY <1>3 DEF SmallSet
  <2> QED BY <2>1, <2>2, StartsBound
<1>13. IsWord(Cardinality(R))
  BY <1>3, <1>12, SmallerIsWord DEF SmallSet
<1>14. ASSUME NEW e \in ToSet(entries), e.c # 0
       PROVE  \E q \in R : e.g \in q[1]..q[2] /\ e.c = q[3]
  <2> DEFINE c == e.c
  <2>1. c \in Cs /\ e.g \in glyphs(c)
    BY <1>6, <1>14
  <2> HIDE DEF c
  <2>2. PICK p \in Runs(glyphs(c)) : e.g \in p[1]..p[2]
    BY <1>8, <2>1
  <2> DEFINE q == <<p[1], p[2], c>>
  <2>3. q \in R /\ q[1] = p[1] /\ q[2] = p[2] /\ q[3] = c
    BY <1>1, <2>1
  <2> HIDE DEF q
  <2> QED BY <2>2, <2>3 DEF c
<1> QED BY <1>10, <1>12, <1>13, <1>14 DEF R

(* What otl_build_class_def writes of a definition that puts no glyph in    *)
(* two classes, otl_read_class_def reads as the same definition, without    *)
(* the glyphs of class 0.                                                   *)
THEOREM ClassDefReadBack ==
  ASSUME NEW cd, IsClassDef(cd.entries)
  PROVE  LET read == ReadClassDef(BuildClassDef(cd)).entries
         IN  /\ IsClassDef(read)
             /\ ToSet(read) = {e \in ToSet(cd.entries) : e.c # 0}
<1> DEFINE entries == cd.entries
           R == ClassRanges(entries)
           b == BuildClassDef(cd)
           s == RangeEntries(b, LAMBDA x, g : x)
           u == SortedBy(s, LAMBDA e : e.c)
           read == ReadClassDef(b).entries
<1>1. b = RangeTable(R)
  BY DEF BuildClassDef, ClassRanges
<1> HIDE DEF b
<1>2. /\ Ranges(R) /\ IsWord(Cardinality(R))
      /\ \A q \in R :
              /\ IsWord(q[1]) /\ IsWord(q[2]) /\ q[1] <= q[2] /\ IsWord(q[3]) /\ q[3] # 0
              /\ \A g \in q[1]..q[2] : \E e \in ToSet(entries) : e.g = g /\ e.c = q[3]
      /\ \A e \in ToSet(entries) : e.c # 0 => \E q \in R : e.g \in q[1]..q[2] /\ e.c = q[3]
  BY ClassRangesHold
<1>3. \A e \in ToSet(entries) : e \in Entries /\ e.g \in Gids /\ IsWord(e.c)
  <2>1. ToSet(entries) \subseteq Entries
    BY SetOfSeq DEF IsClassDef
  <2> QED BY <2>1 DEF IsClassDef
<1>4. \A d, e \in ToSet(entries) : d.g = e.g => d = e
  BY DEF IsClassDef
<1> HIDE DEF R, entries
<1>5. PICK t \in Seq(R) : Len(t) = Cardinality(R) /\ ToSet(t) = R /\ TripleBlock(RangeTable(R), t)
  BY <1>2, RangeTableCells
<1>6. t \in Seq(Triples) /\ \A i \in 1..Len(t) : t[i] \in R
  BY <1>2, <1>5, SeqMonotonic, ElementOfSeq DEF Ranges
<1>7. WordRanges(t)
  BY <1>2, <1>6 DEF WordRanges
<1>8. \A q \in R : \E i \in 1..Len(t) : t[i] = q
  <2>1. DOMAIN t = 1..Len(t)
    BY <1>5, LenProperties
  <2> QED BY <1>5, <2>1 DEF ToSet
<1>9. TripleBlock(b, t)
  BY <1>1, <1>5
<1>10. read = u
  <2>1. WordAt(b, 1) = 2
    BY <1>9 DEF WordAt, TripleBlock
  <2>2. WordAt(b, 1) # 1
    BY <2>1
  <2>3. ReadClassDef(b) = Pushed(u)
    BY <2>1, <2>2 DEF ReadClassDef
  <2> HIDE DEF u
  <2> QED BY <2>3 DEF Pushed, ClassDef
<1>11. /\ s \in Seq(Entries)
       /\ \A e \in ToSet(s) : \E i \in 1..Len(t) : e.g \in t[i][1]..t[i][2] /\ e.c = Word(t[i][3])
       /\ \A i \in 1..Len(t) : \A g \in t[i][1]..t[i][2] : \E e \in ToSet(s) : e.g = g
  BY <1>7, <1>9, ClassEntries
<1> HIDE DEF s
<1>12. u \in Seq(Entries) /\ ToSet(u) = ToSet(s)
  BY <1>11, ByClassHolds
<1> HIDE DEF u
<1>13. \A e \in ToSet(s) : e \in Entries
  BY <1>11, SetOfSeq
<1>14. \A d, e \in Entries : d.g = e.g /\ d.c = e.c => d = e
  BY DEF Entries
<1>15. ASSUME NEW e \in ToSet(s) PROVE e \in ToSet(entries) /\ e.c # 0
  <2>1. PICK i \in 1..Len(t) : e.g \in t[i][1]..t[i][2] /\ e.c = Word(t[i][3])
    BY <1>11
  <2>2. t[i] \in R
    BY <1>6
  <2>3. e.c = t[i][3] /\ t[i][3] # 0
    BY <1>2, <2>1, <2>2, WordKept
  <2>4. PICK d \in ToSet(entries) : d.g = e.g /\ d.c = t[i][3]
    BY <1>2, <2>1, <2>2
  <2>5. d = e
    BY <1>3, <1>13, <1>14, <2>3, <2>4
  <2> QED BY <2>3, <2>5
<1>16. ASSUME NEW e \in ToSet(entries), e.c # 0 PROVE e \in ToSet(s)
  <2>1. PICK q \in R : e.g \in q[1]..q[2]
    BY <1>2, <1>16
  <2>2. PICK i \in 1..Len(t) : t[i] = q
    BY <1>8
  <2>3. PICK d \in ToSet(s) : d.g = e.g
    BY <1>11, <2>1, <2>2
  <2>4. d = e
    BY <1>4, <1>15, <2>3
  <2> QED BY <2>3, <2>4
<1>17. ToSet(read) = {e \in ToSet(entries) : e.c # 0}
  BY <1>10, <1>12, <1>15, <1>16
<1>18. IsClassDef(read)
  BY <1>3, <1>4, <1>10, <1>12, <1>17 DEF IsClassDef
<1> QED BY <1>17, <1>18 DEF entries, read, b
=============================================================================
