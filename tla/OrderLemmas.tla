---------------------------- MODULE OrderLemmas ----------------------------
(***************************************************************************)
(* Facts about numbers, finite orders and recursion that the proofs of the *)
(* components share.  Each is stated about sets and functions and takes no *)
(* operator as a parameter, so that it can be cited where it is needed:    *)
(* what is to be shown of every number is given as the set of the numbers  *)
(* of which it holds.                                                      *)
(***************************************************************************)
EXTENDS Integers, FiniteSets, FiniteSetsExt, Functions, FiniteSetTheorems, FunctionTheorems,
        SequenceTheorems, WellFoundedInduction, TLAPS

LessThan == {p \in Nat \X Nat : p[1] < p[2]}

(* A set of numbers that is not empty has a least one.                     *)
LEMMA LeastNatural ==
  ASSUME NEW S, S \subseteq Nat, S # {}
  PROVE  \E n \in S : \A m \in S : n <= m
<1>1. IsWellFoundedOn(LessThan, Nat)
  BY NatLessThanWellFounded DEF OpToRel, LessThan
<1>2. \E x \in S : \A y \in S : <<y, x>> \notin LessThan
  BY <1>1, WFMin
<1>3. \A x, y \in S : <<y, x>> \notin LessThan => x <= y
  BY DEF LessThan
<1> QED BY <1>2, <1>3

(* A bounded one has a largest, too.                                       *)
LEMMA LargestNatural ==
  ASSUME NEW S, S \subseteq Nat, S # {}, NEW b \in Nat, \A n \in S : n <= b
  PROVE  \E n \in S : \A m \in S : m <= n
<1> DEFINE T == {k \in Nat : b - k \in S}
<1>1. T # {}
  <2>1. PICK n \in S : TRUE
    OBVIOUS
  <2>2. b - n \in T
    BY <2>1
  <2> QED BY <2>2
<1>2. PICK k \in T : \A j \in T : k <= j
  BY <1>1, LeastNatural
<1>3. ASSUME NEW m \in S PROVE m <= b - k
  <2>1. b - m \in T
    OBVIOUS
  <2> QED BY <1>2, <2>1
<1> QED BY <1>2, <1>3

(* Induction, for the set of the things of which a fact holds: things that *)
(* have a number, in the order of their numbers.                           *)
LEMMA InductionOnRank ==
  ASSUME NEW D, NEW rank \in [D -> Nat], NEW S,
         \A d \in D : (\A e \in D : rank[e] < rank[d] => e \in S) => d \in S
  PROVE  D \subseteq S
<1> SUFFICES ASSUME ~(D \subseteq S) PROVE FALSE
  OBVIOUS
<1> DEFINE Bad == {rank[d] : d \in D \ S}
<1>1. PICK n \in Bad : \A m \in Bad : n <= m
  <2>1. Bad \subseteq Nat /\ Bad # {}
    OBVIOUS
  <2> QED BY <2>1, LeastNatural
<1>2. PICK d \in D \ S : rank[d] = n
  BY <1>1
<1>3. ASSUME NEW e \in D, rank[e] < rank[d], e \notin S PROVE FALSE
  <2>1. rank[e] \in Bad
    BY <1>3
  <2>2. n <= rank[e] /\ n \in Nat /\ rank[e] \in Nat
    BY <1>1, <1>2, <2>1
  <2> QED BY <1>2, <1>3, <2>2
<1> QED BY <1>2, <1>3

LEMMA InductionUpTo ==
  ASSUME NEW b \in Nat, NEW S, 0 \in S,
         \A n \in 0..(b - 1) : n \in S => n + 1 \in S
  PROVE  0..b \subseteq S
<1> DEFINE D == 0..b
           rank == [n \in D |-> n]
<1>1. ASSUME NEW d \in D, \A e \in D : rank[e] < rank[d] => e \in S
      PROVE  d \in S
  <2>1. CASE d = 0
    BY <2>1
  <2>2. CASE d # 0
    BY <1>1, <2>2, d - 1 \in 0..(b - 1)
  <2> QED BY <2>1, <2>2
<1>2. rank \in [D -> Nat]
  OBVIOUS
<1>3. \A d \in D : (\A e \in D : rank[e] < rank[d] => e \in S) => d \in S
  BY <1>1
<1> HIDE DEF rank, D
<1>4. D \subseteq S
  BY <1>2, <1>3, InductionOnRank
<1> QED BY <1>4 DEF D

-----------------------------------------------------------------------------
StrictTotalOrder(R, S) ==
  /\ \A x \in S : <<x, x>> \notin R
  /\ \A x, y, z \in S : <<x, y>> \in R /\ <<y, z>> \in R => <<x, z>> \in R
  /\ \A x, y \in S : x = y \/ <<x, y>> \in R \/ <<y, x>> \in R

RankIn(R, S, x) == Cardinality({y \in S : <<y, x>> \in R})

(* The ranks of the elements of S are the numbers below its size, each     *)
(* that of one element.                                                    *)
RanksNumber(R, S) ==
  /\ Cardinality(S) \in Nat
  /\ \A x \in S : RankIn(R, S, x) \in 0..(Cardinality(S) - 1)
  /\ \A x, y \in S : <<x, y>> \in R => RankIn(R, S, x) < RankIn(R, S, y)
  /\ \A x, y \in S : RankIn(R, S, x) = RankIn(R, S, y) => x = y
  /\ \A k \in 0..(Cardinality(S) - 1) : \E x \in S : RankIn(R, S, x) = k

(* A total order of a finite set numbers its elements.                     *)
LEMMA TotalOrderNumbers ==
  ASSUME NEW S, IsFiniteSet(S), NEW R, StrictTotalOrder(R, S)
  PROVE  RanksNumber(R, S)
<1> DEFINE before(x) == {y \in S : <<y, x>> \in R}
           f == [x \in S |-> RankIn(R, S, x)]
           Places == 0..(Cardinality(S) - 1)
<1>1. Cardinality(S) \in Nat
  BY FS_CardinalityType
<1>2. ASSUME NEW x \in S
      PROVE  IsFiniteSet(before(x)) /\ RankIn(R, S, x) \in Places
  <2>1. before(x) \in SUBSET S /\ before(x) # S
    BY DEF StrictTotalOrder
  <2>2. /\ IsFiniteSet(before(x)) /\ Cardinality(before(x)) <= Cardinality(S)
        /\ Cardinality(before(x)) # Cardinality(S)
    BY <2>1, FS_Subset
  <2>3. Cardinality(before(x)) \in Nat
    BY <2>2, FS_CardinalityType
  <2> QED BY <1>1, <2>2, <2>3 DEF RankIn
<1>3. \A x \in S : RankIn(R, S, x) \in Places
  BY <1>2
<1>4. ASSUME NEW x \in S, NEW y \in S, <<x, y>> \in R
      PROVE  RankIn(R, S, x) < RankIn(R, S, y)
  <2>1. before(x) \in SUBSET before(y) /\ before(x) # before(y)
    BY <1>4 DEF StrictTotalOrder
  <2>2. IsFiniteSet(before(y))
    BY <1>2
  <2>3. /\ Cardinality(before(x)) <= Cardinality(before(y))
        /\ Cardinality(before(x)) # Cardinality(before(y))
    BY <2>1, <2>2, FS_Subset
  <2>4. Cardinality(before(x)) \in Nat /\ Cardinality(before(y)) \in Nat
    BY <1>2, FS_CardinalityType
  <2> QED BY <2>3, <2>4 DEF RankIn
<1> HIDE DEF before
<1>5. ASSUME NEW x \in S, NEW y \in S, RankIn(R, S, x) = RankIn(R, S, y)
      PROVE  x = y
  <2>1. <<x, y>> \notin R /\ <<y, x>> \notin R
    BY <1>1, <1>3, <1>4, <1>5
  <2> QED BY <2>1 DEF StrictTotalOrder
<1>6. f \in Injection(S, Places)
  BY <1>3, <1>5, Fun_IsInj
<1>7. IsFiniteSet(Places) /\ Cardinality(Places) = Cardinality(S)
  BY <1>1, FS_Interval
<1>8. f \in Surjection(S, Places)
  BY <1>6, <1>7, FS_Injection
<1>9. \A k \in Places : \E x \in S : f[x] = k
  BY <1>8 DEF Surjection
<1> QED BY <1>1, <1>3, <1>4, <1>5, <1>9 DEF RanksNumber

-----------------------------------------------------------------------------
\* The functional F of a recursive definition on D: what it makes of f at d depends
\* on the values of f of lower rank only.
GoesDown(F, D, R, rank) ==
  \A f, g \in [D -> R] : \A d \in D :
    (\A e \in D : rank[e] < rank[d] => f[e] = g[e]) => F[f][d] = F[g][d]

Solvable(F, D, R) == \E f \in [D -> R] : F[f] = f

(* Such a definition defines something: the functional has a fixed point.  *)
LEMMA RecursionSolves ==
  ASSUME NEW D, NEW R, R # {}, NEW rank \in [D -> Nat],
         NEW F \in [[D -> R] -> [D -> R]], GoesDown(F, D, R, rank)
  PROVE  Solvable(F, D, R)
<1> DEFINE Fix(f, n) == \A d \in D : rank[d] < n => F[f][d] = f[d]
           Good == {n \in Nat : \E f \in [D -> R] : Fix(f, n)}
           sol(n) == CHOOSE f \in [D -> R] : Fix(f, n)
           all == [d \in D |-> sol(rank[d] + 1)[d]]
<1>1. 0 \in Good
  <2>1. PICK r \in R : TRUE
    OBVIOUS
  <2>2. [d \in D |-> r] \in [D -> R] /\ Fix([d \in D |-> r], 0)
    BY <2>1
  <2> QED BY <2>2
<1>2. ASSUME NEW n \in Good PROVE n + 1 \in Good
  <2>1. PICK f \in [D -> R] : Fix(f, n)
    OBVIOUS
  <2>2. F[f] \in [D -> R]
    OBVIOUS
  <2>3. ASSUME NEW d \in D, rank[d] < n + 1 PROVE F[F[f]][d] = F[f][d]
    <3>1. \A e \in D : rank[e] < rank[d] => F[f][e] = f[e]
      BY <2>1, <2>3
    <3> QED BY <2>2, <3>1 DEF GoesDown
  <2> QED BY <2>2, <2>3
<1>3. ASSUME NEW n \in Nat PROVE n \in Good
  <2>1. \A k \in 0..(n - 1) : k \in Good => k + 1 \in Good
    BY <1>2
  <2> HIDE DEF Good
  <2>2. 0..n \subseteq Good
    BY <1>1, <2>1, InductionUpTo
  <2> QED BY <2>2
<1>4. \A n \in Nat : sol(n) \in [D -> R] /\ Fix(sol(n), n)
  BY <1>3
<1> HIDE DEF sol
<1>5. ASSUME NEW n \in Nat, NEW m \in Nat
      PROVE  \A d \in D : rank[d] < n /\ rank[d] < m => sol(n)[d] = sol(m)[d]
  <2> DEFINE S == {d \in D : rank[d] < n /\ rank[d] < m => sol(n)[d] = sol(m)[d]}
  <2>1. ASSUME NEW d \in D, \A e \in D : rank[e] < rank[d] => e \in S
        PROVE  d \in S
    <3> SUFFICES ASSUME rank[d] < n, rank[d] < m PROVE sol(n)[d] = sol(m)[d]
      OBVIOUS
    <3>1. \A e \in D : rank[e] < rank[d] => sol(n)[e] = sol(m)[e]
      BY <2>1
    <3>2. F[sol(n)][d] = F[sol(m)][d]
      BY <1>4, <3>1 DEF GoesDown
    <3> QED BY <1>4, <3>2
  <2>2. \A d \in D : (\A e \in D : rank[e] < rank[d] => e \in S) => d \in S
    BY <2>1
  <2> HIDE DEF S
  <2>3. D \subseteq S
    BY <2>2, InductionOnRank
  <2> QED BY <2>3 DEF S
<1>6. all \in [D -> R]
  BY <1>4
<1>7. ASSUME NEW d \in D PROVE F[all][d] = all[d]
  <2> DEFINE s == sol(rank[d] + 1)
  <2>1. s \in [D -> R] /\ F[s][d] = s[d]
    BY <1>4
  <2>2. \A e \in D : rank[e] < rank[d] => all[e] = s[e]
    BY <1>5
  <2>3. F[all][d] = F[s][d]
    <3> HIDE DEF s, all
    <3> QED BY <1>6, <2>1, <2>2 DEF GoesDown
  <2> QED BY <2>1, <2>3
<1>8. F[all] = all
  <2>1. F[all] \in [D -> R]
    BY <1>6
  <2> HIDE DEF all
  <2> QED BY <1>6, <1>7, <2>1
<1> QED BY <1>6, <1>8 DEF Solvable

(* A finite set of numbers has a largest, and Max is it.                   *)
LEMMA MaxOfFinite ==
  ASSUME NEW S, S \subseteq Nat, S # {}, IsFiniteSet(S)
  PROVE  Max(S) \in S /\ \A n \in S : n <= Max(S)
<1> DEFINE D == SUBSET S
           card == [T \in D |-> Cardinality(T)]
           Good == {T \in D : T # {} => \E m \in T : \A n \in T : n <= m}
<1>1. \A T \in D : IsFiniteSet(T) /\ Cardinality(T) \in Nat
  BY FS_Subset, FS_CardinalityType
<1>2. ASSUME NEW T \in D, \A U \in D : card[U] < card[T] => U \in Good
      PROVE  T \in Good
  <2> SUFFICES ASSUME NEW x \in T PROVE \E m \in T : \A n \in T : n <= m
    OBVIOUS
  <2> DEFINE U == T \ {x}
  <2>1. card[U] < card[T]
    <3>1. IsFiniteSet(T) /\ Cardinality(U) = Cardinality(T) - 1
      BY <1>1, FS_RemoveElement
    <3> QED BY <1>1, <3>1
  <2>2. CASE U = {}
    BY <2>2
  <2>3. CASE U # {}
    <3>1. PICK m \in U : \A n \in U : n <= m
      BY <1>2, <2>1, <2>3
    <3>2. CASE x <= m
      BY <3>1, <3>2
    <3>3. CASE ~(x <= m)
      BY <3>1, <3>3
    <3> QED BY <3>2, <3>3
  <2> QED BY <2>2, <2>3
<1>3. \A T \in D : (\A U \in D : card[U] < card[T] => U \in Good) => T \in Good
  BY <1>2
<1>4. card \in [D -> Nat]
  BY <1>1
<1> HIDE DEF D, card, Good
<1>5. D \subseteq Good
  BY <1>3, <1>4, InductionOnRank
<1>6. \E m \in S : \A n \in S : m >= n
  BY <1>5 DEF D, Good
<1> QED BY <1>6 DEF Max

\* What the folds of the community modules compute when they take their elements
\* from the last: step[<<x, r>>] is the result with element x, when r is the result
\* without it.
FoldsBack(it, n, base, step) ==
  \A s \in SUBSET (1..n) :
    it[s] = IF s = {} THEN base ELSE step[<<Max(s), it[s \ {Max(s)}]>>]

(* A fold is defined when its step has a type.                             *)
LEMMA FoldSolves ==
  ASSUME NEW n \in Nat, NEW R, NEW base \in R, NEW step \in [(1..n) \X R -> R]
  PROVE  \E it \in [SUBSET (1..n) -> R] : FoldsBack(it, n, base, step)
<1> DEFINE D == SUBSET (1..n)
           card == [s \in D |-> Cardinality(s)]
           F == [f \in [D -> R] |->
                   [s \in D |-> IF s = {} THEN base ELSE step[<<Max(s), f[s \ {Max(s)}]>>]]]
<1>0. IsFiniteSet(1..n)
  BY FS_Interval
<1>1. \A s \in D : IsFiniteSet(s) /\ Cardinality(s) \in Nat
  BY <1>0, FS_Subset, FS_CardinalityType
<1>2. ASSUME NEW s \in D, s # {}
      PROVE  Max(s) \in s /\ s \ {Max(s)} \in D /\ card[s \ {Max(s)}] < card[s]
  <2>1. Max(s) \in s
    <3>1. s \subseteq Nat
      OBVIOUS
    <3> QED BY <1>1, <1>2, <3>1, MaxOfFinite
  <2>2. Cardinality(s \ {Max(s)}) = Cardinality(s) - 1
    <3>1. IsFiniteSet(s)
      BY <1>1
    <3> QED BY <2>1, <3>1, FS_RemoveElement
  <2>3. Cardinality(s) \in Nat /\ s \ {Max(s)} \in D
    BY <1>1
  <2> QED BY <2>1, <2>2, <2>3
<1>3. card \in [D -> Nat]
  BY <1>1
<1>4. ASSUME NEW f \in [D -> R] PROVE F[f] \in [D -> R]
  <2>1. \A s \in D : s # {} => f[s \ {Max(s)}] \in R /\ Max(s) \in 1..n
    BY <1>2
  <2> QED BY <2>1
<1>5. F \in [[D -> R] -> [D -> R]]
  <2>1. F = [f \in [D -> R] |-> F[f]]
    OBVIOUS
  <2> HIDE DEF F
  <2> QED BY <1>4, <2>1
<1>6. ASSUME NEW f \in [D -> R], NEW g \in [D -> R], NEW s \in D,
             \A t \in D : card[t] < card[s] => f[t] = g[t]
      PROVE  F[f][s] = F[g][s]
  BY <1>2, <1>6
<1>7. GoesDown(F, D, R, card)
  BY <1>6 DEF GoesDown
<1>8. R # {}
  OBVIOUS
<1>9. \A f \in [D -> R] : \A s \in D :
         F[f][s] = IF s = {} THEN base ELSE step[<<Max(s), f[s \ {Max(s)}]>>]
  OBVIOUS
<1> HIDE DEF F, card
<1>10. PICK f \in [D -> R] : F[f] = f
  <2> HIDE DEF D
  <2>1. Solvable(F, D, R)
    BY <1>3, <1>5, <1>7, <1>8, RecursionSolves
  <2> QED BY <2>1 DEF Solvable
<1> QED BY <1>9, <1>10 DEF FoldsBack

(* What the step of a fold keeps holds of its result.                      *)
LEMMA FoldStays ==
  ASSUME NEW n \in Nat, NEW R, NEW it, it[{}] \in R,
         \A s \in SUBSET (1..n) :
           s # {} /\ Max(s) \in 1..n /\ it[s \ {Max(s)}] \in R => it[s] \in R
  PROVE  it[1..n] \in R
<1> DEFINE Good == {j \in 0..n : it[1..j] \in R}
<1>1. 0 \in Good
  <2>1. 1..0 = {}
    OBVIOUS
  <2> QED BY <2>1
<1>2. ASSUME NEW j \in 0..(n - 1), j \in Good PROVE j + 1 \in Good
  <2> DEFINE s == 1..(j + 1)
  <2>1. s \in SUBSET (1..n) /\ j + 1 \in s /\ j + 1 \in 1..n /\ j + 1 \in 0..n
    OBVIOUS
  <2>2. Max(s) = j + 1
    <3>1. IsFiniteSet(s)
      BY FS_Interval
    <3>2. s \subseteq Nat /\ s # {}
      BY <2>1
    <3>3. Max(s) \in s /\ \A x \in s : x <= Max(s)
      <4> HIDE DEF s
      <4> QED BY <3>1, <3>2, MaxOfFinite
    <3> QED BY <2>1, <3>3
  <2>3. s \ {j + 1} = 1..j
    OBVIOUS
  <2>4. it[s \ {Max(s)}] \in R
    BY <1>2, <2>2, <2>3
  <2> HIDE DEF s
  <2>5. it[s] \in R
    BY <2>1, <2>2, <2>4
  <2> QED BY <2>1, <2>5 DEF s
<1>3. \A j \in 0..(n - 1) : j \in Good => j + 1 \in Good
  BY <1>2
<1> HIDE DEF Good
<1>4. 0..n \subseteq Good
  BY <1>1, <1>3, InductionUpTo
<1> QED BY <1>4 DEF Good

(* A recursion that goes up from 0 is solved by a function of the numbers  *)
(* up to its end.                                                          *)
ClimbsTo(n, R, base, step) ==
  \E f \in [0..n -> R] : f[0] = base /\ \A k \in 1..n : f[k] = step[<<k, f[k - 1]>>]

LEMMA ChainSolves ==
  ASSUME NEW n \in Nat, NEW R, NEW base \in R, NEW step \in [(1..n) \X R -> R]
  PROVE  ClimbsTo(n, R, base, step)
<1> DEFINE D == 0..n
           rank == [k \in D |-> k]
           Body(f) == [k \in D |-> IF k = 0 THEN base ELSE step[<<k, f[k - 1]>>]]
           F == [f \in [D -> R] |-> Body(f)]
<1>1. \A k \in D : k # 0 => k \in 1..n /\ k - 1 \in D
  OBVIOUS
<1>2. F \in [[D -> R] -> [D -> R]]
  <2>1. \A f \in [D -> R] : Body(f) \in [D -> R]
    BY <1>1
  <2> HIDE DEF Body
  <2> QED BY <2>1
<1>3. GoesDown(F, D, R, rank)
  <2> SUFFICES ASSUME NEW f \in [D -> R], NEW g \in [D -> R], NEW k \in D,
                      \A e \in D : rank[e] < rank[k] => f[e] = g[e]
               PROVE  F[f][k] = F[g][k]
    BY DEF GoesDown
  <2>1. CASE k = 0
    BY <2>1
  <2>2. CASE k # 0
    <3>1. k - 1 \in D /\ rank[k - 1] < rank[k]
      BY <1>1, <2>2
    <3>2. f[k - 1] = g[k - 1]
      BY <3>1
    <3> HIDE DEF rank
    <3> QED BY <3>2
  <2> QED BY <2>1, <2>2
<1>4. R # {} /\ rank \in [D -> Nat]
  OBVIOUS
<1>5. PICK f \in [D -> R] : F[f] = f
  <2> HIDE DEF F, D, rank
  <2>1. Solvable(F, D, R)
    BY <1>2, <1>3, <1>4, RecursionSolves
  <2> QED BY <2>1 DEF Solvable
<1>6. f = Body(f)
  BY <1>5
<1>7. \A k \in D : f[k] = IF k = 0 THEN base ELSE step[<<k, f[k - 1]>>]
  BY <1>6
<1>8. 0 \in D /\ \A k \in 1..n : k \in D /\ k # 0
  OBVIOUS
<1> QED BY <1>7, <1>8 DEF ClimbsTo

\* The recursion that goes up from base to n ends with e.
EndsAt(n, R, base, step, e) ==
  \E g \in [0..n -> R] :
    g[0] = base /\ e = g[n] /\ \A k \in 1..n : g[k] = step[<<k, g[k - 1]>>]

(* A fold that takes its elements from the last is such a recursion.       *)
LEMMA FoldClimbs ==
  ASSUME NEW n \in Nat, NEW R, NEW base \in R, NEW step \in [(1..n) \X R -> R],
         NEW it, it[{}] = base,
         \A s \in SUBSET (1..n) :
           s # {} /\ Max(s) \in 1..n /\ it[s \ {Max(s)}] \in R =>
             it[s] = step[<<Max(s), it[s \ {Max(s)}]>>]
  PROVE  EndsAt(n, R, base, step, it[1..n])
<1>1. PICK g \in [0..n -> R] : g[0] = base /\ \A k \in 1..n : g[k] = step[<<k, g[k - 1]>>]
  <2>1. ClimbsTo(n, R, base, step)
    BY ChainSolves
  <2> QED BY <2>1 DEF ClimbsTo
<1> DEFINE Good == {j \in 0..n : it[1..j] = g[j]}
<1>2. 0 \in Good
  <2>1. 1..0 = {}
    OBVIOUS
  <2> QED BY <1>1, <2>1
<1>3. ASSUME NEW j \in 0..(n - 1), j \in Good PROVE j + 1 \in Good
  <2> DEFINE s == 1..(j + 1)
             k == j + 1
  <2>1. s \in SUBSET (1..n) /\ k \in s /\ k \in 1..n /\ k \in 0..n /\ k - 1 = j /\ j \in 0..n
    OBVIOUS
  <2>2. Max(s) = k
    <3>1. IsFiniteSet(s)
      BY FS_Interval
    <3>2. s \subseteq Nat
      OBVIOUS
    <3>4. s # {}
      BY <2>1
    <3>3. Max(s) \in s /\ \A x \in s : x <= Max(s)
      <4> HIDE DEF s
      <4> QED BY <3>1, <3>2, <3>4, MaxOfFinite
    <3> QED BY <2>1, <3>3
  <2>3. s \ {k} = 1..j
    OBVIOUS
  <2>4. it[s \ {k}] = g[j] /\ g[j] \in R
    BY <1>1, <1>3, <2>1, <2>3
  <2>5. g[k] = step[<<k, g[k - 1]>>]
    BY <1>1, <2>1
  <2>6. s # {} /\ s = 1..k
    BY <2>1
  <2> HIDE DEF s, k
  <2>7. it[s] = step[<<k, g[j]>>]
    BY <2>1, <2>2, <2>4, <2>6
  <2>8. it[1..k] = g[k]
    BY <2>1, <2>5, <2>6, <2>7
  <2> QED BY <2>1, <2>8 DEF k
<1>4. \A j \in 0..(n - 1) : j \in Good => j + 1 \in Good
  BY <1>3
<1> HIDE DEF Good
<1>5. 0..n \subseteq Good
  BY <1>2, <1>4, InductionUpTo
<1>6. it[1..n] = g[n]
  BY <1>5 DEF Good
<1> QED BY <1>1, <1>6 DEF EndsAt

(* What every step of a recursion keeps holds at its end; what one of its  *)
(* steps brings about and every step keeps holds there too.                *)
LEMMA ChainStays ==
  ASSUME NEW n \in Nat, NEW g, NEW K, g[0] \in K,
         \A k \in 1..n : g[k - 1] \in K => g[k] \in K
  PROVE  g[n] \in K
<1> DEFINE Good == {j \in 0..n : g[j] \in K}
<1>1. 0 \in Good
  OBVIOUS
<1>2. ASSUME NEW j \in 0..(n - 1), j \in Good PROVE j + 1 \in Good
  <2> DEFINE k == j + 1
  <2>1. k \in 1..n /\ k \in 0..n /\ k - 1 = j
    OBVIOUS
  <2> HIDE DEF k
  <2>2. g[k] \in K
    BY <1>2, <2>1
  <2>3. k \in Good
    BY <2>1, <2>2
  <2> QED BY <2>3 DEF k
<1>3. \A j \in 0..(n - 1) : j \in Good => j + 1 \in Good
  BY <1>2
<1> HIDE DEF Good
<1>4. 0..n \subseteq Good
  BY <1>1, <1>3, InductionUpTo
<1> QED BY <1>4 DEF Good

LEMMA ChainBrings ==
  ASSUME NEW n \in Nat, NEW g, NEW K, NEW H, g[0] \in K,
         \A k \in 1..n : g[k - 1] \in K => g[k] \in K,
         \A k \in 1..n : g[k - 1] \in H => g[k] \in H,
         NEW m \in 1..n, g[m - 1] \in K => g[m] \in H
  PROVE  g[n] \in H
<1> DEFINE Good == {j \in 0..n : g[j] \in K /\ (j >= m => g[j] \in H)}
<1>1. 0 \in Good
  OBVIOUS
<1>2. ASSUME NEW j \in 0..(n - 1), j \in Good PROVE j + 1 \in Good
  <2> DEFINE k == j + 1
  <2>1. k \in 1..n /\ k \in 0..n /\ k - 1 = j /\ (k >= m => j >= m \/ k = m)
    OBVIOUS
  <2> HIDE DEF k
  <2>2. g[k] \in K /\ (k >= m => g[k] \in H)
    BY <1>2, <2>1
  <2>3. k \in Good
    BY <2>1, <2>2
  <2> QED BY <2>3 DEF k
<1>3. \A j \in 0..(n - 1) : j \in Good => j + 1 \in Good
  BY <1>2
<1> HIDE DEF Good
<1>4. 0..n \subseteq Good
  BY <1>1, <1>3, InductionUpTo
<1>5. n \in Good /\ n >= m
  BY <1>4
<1> QED BY <1>5 DEF Good

(* What grows with every step grows all along.                             *)
LEMMA ClimbsThroughout ==
  ASSUME NEW n \in Nat, NEW g \in [0..n -> Nat], \A k \in 1..n : g[k - 1] < g[k]
  PROVE  \A i, j \in 0..n : i < j => g[i] < g[j]
<1> DEFINE Good == {j \in 0..n : \A i \in 0..n : i < j => g[i] < g[j]}
<1>1. 0 \in Good
  OBVIOUS
<1>2. ASSUME NEW j \in 0..(n - 1), j \in Good PROVE j + 1 \in Good
  <2> DEFINE k == j + 1
  <2>1. k \in 1..n /\ k \in 0..n /\ k - 1 = j /\ j \in 0..n /\ \A i \in 0..n : i < k => i < j \/ i = j
    OBVIOUS
  <2> HIDE DEF k
  <2>2. g[j] < g[k] /\ g[j] \in Nat /\ g[k] \in Nat
    BY <2>1
  <2>3. ASSUME NEW i \in 0..n, i < k PROVE g[i] < g[k]
    <3>1. g[i] \in Nat
      OBVIOUS
    <3>2. i < j => g[i] < g[j]
      BY <1>2
    <3>3. i < j \/ i = j
      BY <2>1, <2>3
    <3> QED BY <2>2, <3>1, <3>2, <3>3
  <2>4. k \in Good
    BY <2>1, <2>3
  <2> QED BY <2>4 DEF k
<1>3. \A j \in 0..(n - 1) : j \in Good => j + 1 \in Good
  BY <1>2
<1> HIDE DEF Good
<1>4. 0..n \subseteq Good
  BY <1>1, <1>3, InductionUpTo
<1> QED BY <1>4 DEF Good

(* A sequence is empty or a shorter one with one element more, so that a   *)
(* set that has the empty sequence and grows with its elements has all.    *)
LEMMA InductionOnSequences ==
  ASSUME NEW X, NEW P, <<>> \in P,
         \A s \in Seq(X) : \A e \in X : s \in P => Append(s, e) \in P
  PROVE  Seq(X) \subseteq P
<1> DEFINE D == Seq(X)
           rank == [s \in D |-> Len(s)]
<1>1. ASSUME NEW s \in D, \A t \in D : rank[t] < rank[s] => t \in P
      PROVE  s \in P
  <2>1. CASE s = <<>>
    BY <2>1
  <2>2. CASE s # <<>>
    <3> DEFINE n == Len(s)
               t == SubSeq(s, 1, n - 1)
    <3>1. n \in Nat /\ n > 0 /\ s[n] \in X
      BY <2>2
    <3>2. t \in Seq(X) /\ Len(t) = n - 1 /\ \A i \in 1..(n - 1) : t[i] = s[i]
      <4>1. \A i \in 1..(n - 1) : s[i] \in X
        BY <3>1
      <4>2. 1 \in Int /\ n - 1 \in Int
        BY <3>1
      <4> HIDE DEF n
      <4>3. /\ SubSeq(s, 1, n - 1) \in Seq(X)
            /\ Len(SubSeq(s, 1, n - 1)) = IF 1 <= n - 1 THEN n - 1 - 1 + 1 ELSE 0
            /\ \A i \in 1..(n - 1 - 1 + 1) : SubSeq(s, 1, n - 1)[i] = s[1 + i - 1]
        BY <4>1, <4>2, SubSeqProperties
      <4> QED BY <3>1, <4>3
    <3> HIDE DEF t
    <3>3. t \in P
      BY <1>1, <3>1, <3>2
    <3>4. s = Append(t, s[n])
      <4>1. Append(t, s[n]) \in Seq(X) /\ Len(Append(t, s[n])) = n
        BY <3>1, <3>2
      <4>2. \A i \in 1..n : Append(t, s[n])[i] = s[i]
        BY <3>1, <3>2
      <4> DEFINE u == Append(t, s[n])
      <4> HIDE DEF u
      <4>3. u \in Seq(X) /\ Len(u) = Len(s) /\ \A i \in 1..Len(s) : s[i] = u[i]
        BY <4>1, <4>2 DEF u
      <4>4. s = u
        BY <4>3, SeqEqual
      <4> QED BY <4>4 DEF u
    <3> QED BY <3>1, <3>2, <3>3, <3>4
  <2> QED BY <2>1, <2>2
<1>2. rank \in [D -> Nat]
  BY LenProperties
<1>3. \A s \in D : (\A t \in D : rank[t] < rank[s] => t \in P) => s \in P
  BY <1>1
<1> QED
  <2> HIDE DEF D, rank
  <2>1. D \subseteq P
    BY <1>2, <1>3, InductionOnRank
  <2> QED BY <2>1 DEF D
============================================================================
