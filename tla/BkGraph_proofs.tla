---------------------------- MODULE BkGraph_proofs ----------------------------
(***************************************************************************)
(* Theorems about BkGraph, for every tree of blocks, every offset limit    *)
(* and every number of passes.                                             *)
(*                                                                         *)
(* The searches of lib/bk are recursive functions on the blocks.  They are *)
(* defined because a link always leads to a block of lower rank; the rank  *)
(* is the number of the block at first, its height while equal blocks are  *)
(* merged, and that of the block it was copied from once there are copies. *)
(*                                                                         *)
(* Then the bytes bk_build_Graph writes, which decode to the tree handed   *)
(* over.  dfs_attract_cells marks black what the root reaches, all of it,  *)
(* and sorts the root first.  A pass of try_untangle that copies nothing   *)
(* has looked at every 16-bit pointer of a black block, at the offsets the *)
(* layout then has.  Offsets are the sums of the sizes before, so no two   *)
(* cells are written over each other, and a reader finds each of them.  By *)
(* induction over the tree, from its last block on, he finds at the place  *)
(* of a block that `matches' pairs with x what x says.                     *)
(***************************************************************************)
EXTENDS BkGraph, OrderLemmas, SequenceTheorems

\* What an address and a cell of a heap are.
HeapTyped(h) ==
  /\ Len(h) \in Nat /\ DOMAIN h = 1..Len(h) /\ Root \in DOMAIN h
  /\ \A b \in DOMAIN h :
       /\ h[b] \in Seq(Cell(DOMAIN h))
       /\ Len(h[b]) \in Nat /\ DOMAIN h[b] = 1..Len(h[b])
       /\ \A i \in DOMAIN h[b] : h[b][i] \in Cell(DOMAIN h)
       /\ Targets(h[b]) \subseteq DOMAIN h

LEMMA LinkInCell ==
  ASSUME NEW B, NEW c \in Cell(B), IsLink(c)
  PROVE  c.p \in B
BY DEF Cell, IsLink, Integer, PtrTypes

LEMMA HeapIsTyped ==
  ASSUME NEW h, IsHeap(h)
  PROVE  HeapTyped(h)
<1> DEFINE C == Cell(DOMAIN h)
<1>1. h \in Seq(Seq(C)) /\ Root \in DOMAIN h
  BY DEF IsHeap
<1>2. \A c \in C : IsLink(c) => c.p \in DOMAIN h
  BY LinkInCell
<1> HIDE DEF C
<1>3. Len(h) \in Nat /\ DOMAIN h = 1..Len(h) /\ \A b \in DOMAIN h : h[b] \in Seq(C)
  BY <1>1, LenProperties, ElementOfSeq
<1>4. ASSUME NEW b \in DOMAIN h
      PROVE  /\ Len(h[b]) \in Nat /\ DOMAIN h[b] = 1..Len(h[b])
             /\ \A i \in DOMAIN h[b] : h[b][i] \in C
             /\ Targets(h[b]) \subseteq DOMAIN h
  <2>1. h[b] \in Seq(C)
    BY <1>3
  <2>2. /\ Len(h[b]) \in Nat /\ DOMAIN h[b] = 1..Len(h[b])
        /\ \A i \in DOMAIN h[b] : h[b][i] \in C
    BY <2>1, LenProperties, ElementOfSeq
  <2> QED BY <1>2, <2>2 DEF Targets
<1> QED BY <1>1, <1>3, <1>4 DEF HeapTyped, C

-----------------------------------------------------------------------------
(* The loop over a block's cells.                                          *)

\* The states g the loop of ForEachLink goes through.
IsLoop(g, visit, types, s0, q) ==
  /\ g[0] = s0
  /\ \A j \in 1..Len(q) :
       g[j] = IF IsLink(q[j]) /\ q[j].t \in types THEN visit[q[j].p][g[j - 1]] ELSE g[j - 1]
  /\ ForEachLink(visit, types, s0, q) = g[Len(q)]

(* The fold is the loop: one state after the other.                        *)
LEMMA LoopIsChain ==
  ASSUME NEW C, NEW q \in Seq(C), NEW St, NEW visit, NEW types, NEW s0 \in St,
         \A p \in Targets(q) : visit[p] \in [St -> St]
  PROVE  \E g \in [0..Len(q) -> St] : IsLoop(g, visit, types, s0, q)
<1> DEFINE n == Len(q)
           op(x, r) == IF IsLink(q[x]) /\ q[x].t \in types THEN visit[q[x].p][r] ELSE r
           step == [p \in (1..n) \X St |-> op(p[1], p[2])]
           Body(it) == [s \in SUBSET (1..n) |->
                          IF s = {} THEN s0 ELSE op(Max(s), it[s \ {Max(s)}])]
           iter == CHOOSE it : it = Body(it)
<1>1. n \in Nat /\ DOMAIN q = 1..n
  BY LenProperties
<1>2. \A x \in 1..n, r \in St : op(x, r) \in St
  BY <1>1 DEF Targets
<1>3. ForEachLink(visit, types, s0, q) = iter[1..n]
  BY <1>1 DEF ForEachLink, FoldLeft, MapThenFoldSet
<1>0. n \in Nat
  BY <1>1
<1> HIDE DEF op, n
<1>4. iter = Body(iter)
  <2>1. step \in [(1..n) \X St -> St]
    BY <1>2
  <2>2. \A x \in 1..n, r \in St : step[<<x, r>>] = op(x, r)
    OBVIOUS
  <2> HIDE DEF step
  <2>3. PICK it \in [SUBSET (1..n) -> St] : FoldsBack(it, n, s0, step)
    BY <1>0, <2>1, FoldSolves
  <2>4. ASSUME NEW s \in SUBSET (1..n), s # {}
        PROVE  Max(s) \in 1..n /\ s \ {Max(s)} \in SUBSET (1..n)
    <3>1. IsFiniteSet(s)
      <4>1. IsFiniteSet(1..n)
        BY <1>0, FS_Interval
      <4> QED BY <4>1, FS_Subset
    <3>2. s \subseteq Nat
      OBVIOUS
    <3>3. Max(s) \in s
      BY <2>4, <3>1, <3>2, MaxOfFinite
    <3> QED BY <3>3
  <2>5. it = Body(it)
    <3>1. it = [s \in SUBSET (1..n) |-> it[s]]
      OBVIOUS
    <3>2. ASSUME NEW s \in SUBSET (1..n)
          PROVE  it[s] = IF s = {} THEN s0 ELSE op(Max(s), it[s \ {Max(s)}])
      BY <2>2, <2>3, <2>4 DEF FoldsBack
    <3> QED BY <3>1, <3>2
  <2> QED BY <2>5
<1>5. iter[{}] = s0
  BY <1>4
<1> HIDE DEF iter
<1>6. ASSUME NEW j \in 1..n PROVE iter[1..j] = op(j, iter[1..(j - 1)])
  <2>1. Max(1..j) = j /\ (1..j) \ {j} = 1..(j - 1)
    <3>1. \A x \in 1..j : j >= x
      BY <1>1
    <3>2. \A m \in 1..j : (\A x \in 1..j : m >= x) => m = j
      BY <1>1
    <3>3. j \in 1..j
      BY <1>1
    <3> QED BY <1>1, <3>1, <3>2, <3>3 DEF Max
  <2>2. 1..j \in SUBSET (1..n) /\ 1..j # {}
    <3>1. j \in 1..j /\ 1..j \subseteq 1..n
      BY <1>0
    <3> QED BY <3>1
  <2> QED BY <1>4, <2>1, <2>2
<1> DEFINE g == [j \in 0..n |-> iter[1..j]]
           Good == {j \in 0..n : g[j] \in St}
<1>7. \A j \in 1..n : g[j] = op(j, g[j - 1])
  BY <1>1, <1>6
<1>8. g[0] = s0
  BY <1>1, <1>5
<1>9. 0..n \subseteq Good
  <2>1. 0 \in Good
    BY <1>1, <1>8
  <2>2. \A j \in 0..(n - 1) : j \in Good => j + 1 \in Good
    <3> SUFFICES ASSUME NEW j \in 0..(n - 1), j \in Good PROVE j + 1 \in Good
      OBVIOUS
    <3>1. j + 1 \in 1..n /\ j + 1 \in 0..n /\ (j + 1) - 1 = j
      BY <1>0
    <3>2. g[j + 1] = op(j + 1, g[j]) /\ g[j] \in St
      BY <1>7, <3>1
    <3> HIDE DEF g
    <3> QED BY <1>2, <3>1, <3>2
  <2> HIDE DEF Good
  <2> QED BY <1>1, <2>1, <2>2, InductionUpTo
<1>10. g \in [0..n -> St]
  BY <1>9
<1>11. IsLoop(g, visit, types, s0, q)
  <2>1. ForEachLink(visit, types, s0, q) = g[n]
    BY <1>0, <1>3
  <2> HIDE DEF g
  <2> QED BY <1>7, <1>8, <2>1 DEF IsLoop, op, n
<1> QED BY <1>10, <1>11 DEF n

(* What every step of the loop keeps holds at its end.                     *)
LEMMA LoopKeeps ==
  ASSUME NEW C, NEW q \in Seq(C), NEW St, NEW visit, NEW types,
         \A p \in Targets(q) : visit[p] \in [St -> St], NEW K \in SUBSET St, NEW s0 \in K,
         \A i \in DOMAIN q : IsLink(q[i]) /\ q[i].t \in types =>
           \A s \in K : visit[q[i].p][s] \in K
  PROVE  ForEachLink(visit, types, s0, q) \in K
<1>1. PICK g \in [0..Len(q) -> St] : IsLoop(g, visit, types, s0, q)
  BY LoopIsChain
<1> DEFINE n == Len(q)
           Good == {j \in 0..n : g[j] \in K}
<1>2. n \in Nat /\ DOMAIN q = 1..n
  BY LenProperties
<1>3. 0 \in Good
  BY <1>1, <1>2 DEF IsLoop
<1>4. ASSUME NEW j \in 0..(n - 1), j \in Good PROVE j + 1 \in Good
  <2>1. j + 1 \in 1..n /\ (j + 1) - 1 = j
    BY <1>2
  <2>2. g[j + 1] = IF IsLink(q[j + 1]) /\ q[j + 1].t \in types
                   THEN visit[q[j + 1].p][g[j]] ELSE g[j]
    BY <1>1, <2>1 DEF IsLoop
  <2> QED BY <1>2, <1>4, <2>1, <2>2
<1>5. ForEachLink(visit, types, s0, q) = g[n]
  BY <1>1 DEF IsLoop
<1>6. \A j \in 0..(n - 1) : j \in Good => j + 1 \in Good
  BY <1>4
<1> HIDE DEF n, Good
<1>7. 0..n \subseteq Good
  BY <1>2, <1>3, <1>6, InductionUpTo
<1> QED BY <1>2, <1>5, <1>7 DEF Good

LEMMA LoopIsTyped ==
  ASSUME NEW C, NEW q \in Seq(C), NEW St, NEW visit, NEW types, NEW s0 \in St,
         \A p \in Targets(q) : visit[p] \in [St -> St]
  PROVE  ForEachLink(visit, types, s0, q) \in St
<1>1. PICK g \in [0..Len(q) -> St] : IsLoop(g, visit, types, s0, q)
  BY LoopIsChain
<1>2. Len(q) \in Nat
  BY LenProperties
<1> QED BY <1>1, <1>2 DEF IsLoop

(* The loop asks of visit only what it does for the blocks pointed to.     *)
LEMMA LoopsAgree ==
  ASSUME NEW C, NEW q \in Seq(C), NEW St, NEW f, NEW g, NEW types, NEW s0 \in St,
         \A p \in Targets(q) : f[p] = g[p] /\ f[p] \in [St -> St]
  PROVE  ForEachLink(f, types, s0, q) = ForEachLink(g, types, s0, q)
<1>1. PICK a \in [0..Len(q) -> St] : IsLoop(a, f, types, s0, q)
  BY LoopIsChain
<1>2. PICK b \in [0..Len(q) -> St] : IsLoop(b, g, types, s0, q)
  BY LoopIsChain
<1> DEFINE n == Len(q)
           Good == {j \in 0..n : a[j] = b[j]}
<1>3. n \in Nat /\ DOMAIN q = 1..n
  BY LenProperties
<1>4. 0 \in Good
  BY <1>1, <1>2, <1>3 DEF IsLoop
<1>5. ASSUME NEW j \in 0..(n - 1), j \in Good PROVE j + 1 \in Good
  <2>1. j + 1 \in 1..n /\ (j + 1) - 1 = j
    BY <1>3
  <2>2. a[j + 1] = IF IsLink(q[j + 1]) /\ q[j + 1].t \in types
                   THEN f[q[j + 1].p][a[j]] ELSE a[j]
    BY <1>1, <2>1 DEF IsLoop
  <2>3. b[j + 1] = IF IsLink(q[j + 1]) /\ q[j + 1].t \in types
                   THEN g[q[j + 1].p][b[j]] ELSE b[j]
    BY <1>2, <2>1 DEF IsLoop
  <2>4. IsLink(q[j + 1]) => q[j + 1].p \in Targets(q)
    BY <1>3, <2>1 DEF Targets
  <2> QED BY <1>3, <1>5, <2>1, <2>2, <2>3, <2>4
<1>6. \A j \in 0..(n - 1) : j \in Good => j + 1 \in Good
  BY <1>5
<1> HIDE DEF Good
<1>7. 0..n \subseteq Good
  <2> HIDE DEF n
  <2> QED BY <1>3, <1>4, <1>6, InductionUpTo
<1>8. a[n] = b[n]
  BY <1>3, <1>7 DEF Good
<1> QED BY <1>1, <1>2, <1>8 DEF IsLoop

-----------------------------------------------------------------------------
(* dfs_insert_cells: which blocks the graph takes in.                      *)

Ranked(h, rk) ==
  rk \in [DOMAIN h -> Nat] /\ \A b \in DOMAIN h : \A p \in Targets(h[b]) : rk[p] < rk[b]

\* The blocks T lead from what was finished in s to what is finished in r: with a
\* block everything it points to, and nothing without a pointer to it.
Reaches(h, s, r, T) ==
  /\ ToSet(s) \union T \subseteq ToSet(r)
  /\ (\A x \in ToSet(s) : Targets(h[x]) \subseteq ToSet(s)) =>
        \A x \in ToSet(r) : Targets(h[x]) \subseteq ToSet(r)
  /\ \A x \in ToSet(r) \ ToSet(s) :
        x \in T \/ \E y \in ToSet(r) \ ToSet(s) : x \in Targets(h[y])

LEMMA ReachesNothing == \A h, s : Reaches(h, s, s, {})
  BY DEF Reaches

LEMMA ReachesComposes ==
  ASSUME NEW h, NEW s, NEW r, NEW u, NEW T, NEW U, Reaches(h, s, r, T), Reaches(h, r, u, U)
  PROVE  Reaches(h, s, u, T \union U)
  BY DEF Reaches

LEMMA AppendedSet ==
  ASSUME NEW S, NEW s \in Seq(S), NEW e \in S
  PROVE  ToSet(Append(s, e)) = ToSet(s) \union {e}
<1>1. Len(s) \in Nat /\ DOMAIN s = 1..Len(s)
  BY LenProperties
<1>2. /\ DOMAIN Append(s, e) = 1..(Len(s) + 1)
      /\ \A i \in 1..Len(s) : Append(s, e)[i] = s[i]
      /\ Append(s, e)[Len(s) + 1] = e
  BY <1>1
<1> QED BY <1>1, <1>2 DEF ToSet

LEMMA LoopReaches ==
  ASSUME NEW h, HeapTyped(h), NEW b \in DOMAIN h, NEW visit,
         \A p \in Targets(h[b]) : visit[p] \in [Seq(DOMAIN h) -> Seq(DOMAIN h)],
         \A p \in Targets(h[b]) : \A s \in Seq(DOMAIN h) : Reaches(h, s, visit[p][s], {p}),
         NEW s0 \in Seq(DOMAIN h)
  PROVE  Reaches(h, s0, ForEachLink(visit, PtrTypes, s0, h[b]), Targets(h[b]))
<1> DEFINE D == DOMAIN h
           q == h[b]
           n == Len(q)
           T(j) == {q[i].p : i \in {k \in 1..j : IsLink(q[k])}}
<1>1. q \in Seq(Cell(D)) /\ n \in Nat /\ DOMAIN q = 1..n
  BY DEF HeapTyped
<1>2. PICK g \in [0..n -> Seq(D)] : IsLoop(g, visit, PtrTypes, s0, q)
  BY <1>1, LoopIsChain
<1> DEFINE Good == {j \in 0..n : Reaches(h, s0, g[j], T(j))}
<1>3. 0 \in Good
  <2>1. T(0) = {}
    OBVIOUS
  <2>2. g[0] = s0 /\ 0 \in 0..n
    BY <1>1, <1>2 DEF IsLoop
  <2> HIDE DEF T, q, n
  <2> QED BY <2>1, <2>2, ReachesNothing
<1>4. ASSUME NEW j \in 0..(n - 1), j \in Good PROVE j + 1 \in Good
  <2>1. j + 1 \in 1..n /\ (j + 1) - 1 = j /\ j \in 0..n /\ j + 1 \in 0..n
    BY <1>1
  <2>2. Reaches(h, s0, g[j], T(j)) /\ g[j] \in Seq(D)
    BY <1>4, <2>1
  <2>3. CASE IsLink(q[j + 1])
    <3>1. q[j + 1].t \in PtrTypes /\ q[j + 1].p \in Targets(q)
      BY <1>1, <2>1, <2>3 DEF IsLink, Targets
    <3>2. g[j + 1] = visit[q[j + 1].p][g[j]]
      BY <1>2, <2>1, <2>3, <3>1 DEF IsLoop
    <3>3. Reaches(h, g[j], g[j + 1], {q[j + 1].p})
      BY <2>2, <3>1, <3>2
    <3>4. T(j + 1) = T(j) \union {q[j + 1].p}
      BY <2>1, <2>3
    <3> HIDE DEF T, q, n
    <3> QED BY <2>1, <2>2, <3>3, <3>4, ReachesComposes
  <2>4. CASE ~IsLink(q[j + 1])
    <3>1. g[j + 1] = g[j]
      BY <1>2, <2>1, <2>4 DEF IsLoop
    <3>2. {k \in 1..(j + 1) : IsLink(q[k])} = {k \in 1..j : IsLink(q[k])}
      BY <2>1, <2>4
    <3>3. T(j + 1) = T(j)
      BY <3>2
    <3> QED BY <2>1, <2>2, <3>1, <3>3
  <2> QED BY <2>3, <2>4
<1>5. ForEachLink(visit, PtrTypes, s0, q) = g[n]
  BY <1>2 DEF IsLoop
<1>6. \A j \in 0..(n - 1) : j \in Good => j + 1 \in Good
  BY <1>4
<1>7. T(n) = Targets(q)
  BY <1>1 DEF Targets
<1> HIDE DEF Good, T, n, q
<1>8. 0..n \subseteq Good
  BY <1>1, <1>3, <1>6, InductionUpTo
<1>9. n \in Good
  BY <1>1, <1>8
<1>10. Reaches(h, s0, g[n], T(n))
  BY <1>9 DEF Good
<1> QED BY <1>5, <1>7, <1>10 DEF q

\* The equation of dfs_insert_cells.
IsVisit(visit, h) ==
  \A b \in DOMAIN h : \A seen \in Seq(DOMAIN h) :
    visit[b][seen] = IF Contains(seen, b) THEN seen
                     ELSE Append(ForEachLink(visit, PtrTypes, seen, h[b]), b)

(* The search is defined, since links lead to lower ranks.                 *)
LEMMA VisitExists ==
  ASSUME NEW h, HeapTyped(h), NEW rk, Ranked(h, rk)
  PROVE  \E visit \in [DOMAIN h -> [Seq(DOMAIN h) -> Seq(DOMAIN h)]] :
           IsVisit(visit, h) /\ Finished(h) = visit[Root][<<>>]
<1> DEFINE D == DOMAIN h
           Sq == Seq(D)
           R == [Sq -> Sq]
           After(f, b, seen) == IF Contains(seen, b) THEN seen
                                ELSE Append(ForEachLink(f, PtrTypes, seen, h[b]), b)
           Body(f) == [b \in D |-> [seen \in Sq |-> After(f, b, seen)]]
           F == [f \in [D -> R] |-> Body(f)]
           visit == CHOOSE f : f = Body(f)
<1>1. Finished(h) = visit[Root][<<>>]
  BY DEF Finished
<1>2. \A b \in D : h[b] \in Seq(Cell(D)) /\ Targets(h[b]) \subseteq D
  BY DEF HeapTyped
<1>3. ASSUME NEW f, NEW b \in D, \A p \in Targets(h[b]) : f[p] \in R, NEW seen \in Sq
      PROVE  After(f, b, seen) \in Sq
  <2>1. ForEachLink(f, PtrTypes, seen, h[b]) \in Sq
    <3> HIDE DEF Sq
    <3> QED BY <1>2, <1>3, LoopIsTyped
  <2> DEFINE e == ForEachLink(f, PtrTypes, seen, h[b])
  <2> HIDE DEF e
  <2>2. Append(e, b) \in Sq
    BY <2>1 DEF e
  <2> QED BY <2>2 DEF e
<1>4. ASSUME NEW f \in [D -> R], NEW g \in [D -> R], NEW b \in D,
             \A p \in D : rk[p] < rk[b] => f[p] = g[p]
      PROVE  \A seen \in Sq : After(f, b, seen) = After(g, b, seen)
  <2>1. \A p \in Targets(h[b]) : f[p] = g[p] /\ f[p] \in R
    BY <1>2, <1>4 DEF Ranked
  <2>2. ASSUME NEW seen \in Sq
        PROVE  ForEachLink(f, PtrTypes, seen, h[b]) = ForEachLink(g, PtrTypes, seen, h[b])
    <3> HIDE DEF Sq
    <3> QED BY <1>2, <2>1, LoopsAgree
  <2> QED BY <2>2
<1> HIDE DEF After
<1>5. F \in [[D -> R] -> [D -> R]]
  <2>1. \A f \in [D -> R] : Body(f) \in [D -> R]
    BY <1>2, <1>3
  <2> HIDE DEF Body
  <2> QED BY <2>1
<1>6. GoesDown(F, D, R, rk)
  <2> SUFFICES ASSUME NEW f \in [D -> R], NEW g \in [D -> R], NEW b \in D,
                      \A p \in D : rk[p] < rk[b] => f[p] = g[p]
               PROVE  F[f][b] = F[g][b]
    BY DEF GoesDown
  <2>1. \A seen \in Sq : After(f, b, seen) = After(g, b, seen)
    BY <1>4
  <2> QED BY <2>1
<1>7. rk \in [D -> Nat]
  BY DEF Ranked
<1>8. R # {}
  <2>1. [s \in Sq |-> s] \in R
    OBVIOUS
  <2> QED BY <2>1
<1>9. PICK f \in [D -> R] : F[f] = f
  <2> HIDE DEF F, R, D
  <2>1. Solvable(F, D, R)
    BY <1>5, <1>6, <1>7, <1>8, RecursionSolves
  <2> QED BY <2>1 DEF Solvable
<1>10. f = Body(f)
  BY <1>9
<1>11. visit = Body(visit)
  <2> HIDE DEF Body
  <2> QED BY <1>10
<1> HIDE DEF visit
<1>12. \A b \in D : visit[b] = [seen \in Sq |-> After(visit, b, seen)]
  BY <1>11
<1> DEFINE Good == {b \in D : visit[b] \in R}
<1>13. ASSUME NEW b \in D, \A p \in D : rk[p] < rk[b] => p \in Good
       PROVE  b \in Good
  <2>1. \A p \in Targets(h[b]) : visit[p] \in R
    BY <1>2, <1>13 DEF Ranked
  <2>2. \A seen \in Sq : After(visit, b, seen) \in Sq
    BY <1>3, <2>1
  <2> QED BY <1>12, <2>2
<1>14. \A b \in D : (\A p \in D : rk[p] < rk[b] => p \in Good) => b \in Good
  BY <1>13
<1>15. D \subseteq Good
  <2> HIDE DEF Good, D
  <2> QED BY <1>7, <1>14, InductionOnRank
<1>16. visit \in [D -> R]
  BY <1>11, <1>15
<1>17. \A b \in D : \A seen \in Sq : visit[b][seen] = After(visit, b, seen)
  BY <1>12
<1> QED BY <1>1, <1>16, <1>17 DEF IsVisit, After

(* Starting from the root the search takes in the blocks the root reaches, *)
(* each after those it points to.                                          *)
LEMMA FinishedReaches ==
  ASSUME NEW h, HeapTyped(h), NEW rk, Ranked(h, rk)
  PROVE  Finished(h) \in Seq(DOMAIN h) /\ Reaches(h, <<>>, Finished(h), {Root})
<1> DEFINE D == DOMAIN h
           Sq == Seq(D)
<1>1. PICK visit \in [D -> [Sq -> Sq]] : IsVisit(visit, h) /\ Finished(h) = visit[Root][<<>>]
  BY VisitExists
<1> DEFINE Good == {b \in D : \A s \in Sq : Reaches(h, s, visit[b][s], {b})}
<1>2. ASSUME NEW b \in D, \A p \in D : rk[p] < rk[b] => p \in Good
      PROVE  b \in Good
  <2> SUFFICES ASSUME NEW s \in Sq PROVE Reaches(h, s, visit[b][s], {b})
    OBVIOUS
  <2>1. Contains(s, b) <=> b \in ToSet(s)
    <3>1. DOMAIN s = 1..Len(s)
      BY LenProperties
    <3> QED BY <3>1 DEF Contains, ToSet
  <2>2. CASE Contains(s, b)
    <3>1. visit[b][s] = s
      BY <1>1, <2>2 DEF IsVisit
    <3> QED BY <2>1, <2>2, <3>1 DEF Reaches
  <2>3. CASE ~Contains(s, b)
    <3> DEFINE u == ForEachLink(visit, PtrTypes, s, h[b])
    <3>1. visit[b][s] = Append(u, b)
      BY <1>1, <2>3 DEF IsVisit
    <3>2. Targets(h[b]) \subseteq D /\ \A p \in Targets(h[b]) : p \in Good
      BY <1>2 DEF HeapTyped, Ranked
    <3>3. h[b] \in Seq(Cell(D))
      BY DEF HeapTyped
    <3>4. \A p \in Targets(h[b]) :
             visit[p] \in [Sq -> Sq] /\ \A r \in Sq : Reaches(h, r, visit[p][r], {p})
      BY <3>2
    <3>5. u \in Sq
      <4> HIDE DEF Sq
      <4> QED BY <3>3, <3>4, LoopIsTyped
    <3>6. Reaches(h, s, u, Targets(h[b]))
      BY <3>4, LoopReaches
    <3> HIDE DEF u
    <3>7. ToSet(Append(u, b)) = ToSet(u) \union {b}
      BY <3>5, AppendedSet
    <3>8. b \notin ToSet(s)
      BY <2>1, <2>3
    <3>9. Reaches(h, s, Append(u, b), {b})
      BY <3>6, <3>7, <3>8 DEF Reaches
    <3> QED BY <3>1, <3>9
  <2> QED BY <2>2, <2>3
<1>3. \A b \in D : (\A p \in D : rk[p] < rk[b] => p \in Good) => b \in Good
  BY <1>2
<1>4. D \subseteq Good
  <2>1. rk \in [D -> Nat]
    BY DEF Ranked
  <2> HIDE DEF D, Good
  <2> QED BY <1>3, <2>1, InductionOnRank
<1>5. Root \in D /\ <<>> \in Sq
  BY DEF HeapTyped
<1> QED BY <1>1, <1>4, <1>5

-----------------------------------------------------------------------------
(* dfs_insert_cells: the heights.                                          *)

HeightsBelow(ht, s) == {0} \union {ht[p] + 1 : p \in Targets(s)}

\* The equation of the heights.
IsHeight(ht, h) ==
  /\ ht \in [DOMAIN h -> Nat]
  /\ \A b \in DOMAIN h : ht[b] = Max(HeightsBelow(ht, h[b]))

LEMMA TargetsAreFinite ==
  ASSUME NEW C, NEW q \in Seq(C)
  PROVE  IsFiniteSet(Targets(q))
<1> DEFINE I == {j \in DOMAIN q : IsLink(q[j])}
           to == [i \in I |-> q[i].p]
<1>1. IsFiniteSet(I)
  <2>1. Len(q) \in Nat /\ DOMAIN q = 1..Len(q)
    BY LenProperties
  <2>2. IsFiniteSet(1..Len(q))
    BY <2>1, FS_Interval
  <2> QED BY <2>1, <2>2, FS_Subset
<1>2. to \in Surjection(I, Targets(q))
  BY DEF Surjection, Targets
<1> QED BY <1>1, <1>2, FS_Surjection

LEMMA HeightIsMax ==
  ASSUME NEW h, HeapTyped(h), NEW b \in DOMAIN h, NEW ht,
         \A p \in Targets(h[b]) : ht[p] \in Nat
  PROVE  /\ Max(HeightsBelow(ht, h[b])) \in Nat
         /\ \A p \in Targets(h[b]) : ht[p] < Max(HeightsBelow(ht, h[b]))
<1> DEFINE T == Targets(h[b])
           S == HeightsBelow(ht, h[b])
           up == [p \in T |-> ht[p] + 1]
<1>1. IsFiniteSet(T)
  BY TargetsAreFinite DEF HeapTyped
<1>2. IsFiniteSet({ht[p] + 1 : p \in T})
  <2>1. up \in Surjection(T, {ht[p] + 1 : p \in T})
    BY DEF Surjection
  <2> HIDE DEF up, T
  <2> QED BY <1>1, <2>1, FS_Surjection
<1>3. IsFiniteSet(S)
  BY <1>2, FS_Singleton, FS_Union DEF HeightsBelow
<1>4. S \subseteq Nat /\ S # {}
  BY DEF HeightsBelow
<1>5. Max(S) \in S /\ \A n \in S : n <= Max(S)
  <2> HIDE DEF S
  <2> QED BY <1>3, <1>4, MaxOfFinite
<1>6. ASSUME NEW p \in T PROVE ht[p] < Max(S)
  <2>1. ht[p] + 1 \in S
    BY DEF HeightsBelow
  <2>2. ht[p] \in Nat
    OBVIOUS
  <2> HIDE DEF S, T
  <2>3. Max(S) \in Nat /\ ht[p] + 1 <= Max(S)
    BY <1>4, <1>5, <2>1
  <2> QED BY <2>2, <2>3
<1> QED BY <1>4, <1>5, <1>6

(* The heights are defined and satisfy their equation.                     *)
LEMMA HeightsAreHeights ==
  ASSUME NEW h, HeapTyped(h), NEW rk, Ranked(h, rk)
  PROVE  IsHeight(Heights(h), h)
<1> DEFINE D == DOMAIN h
           Up(f, b) == Max({0} \union {f[p] + 1 : p \in Targets(h[b])})
           Body(f) == [b \in D |-> Up(f, b)]
           F == [f \in [D -> Nat] |-> Body(f)]
           ht == CHOOSE f : f = Body(f)
<1>1. Heights(h) = ht
  BY DEF Heights
<1>2. \A b \in D : Targets(h[b]) \subseteq D /\ \A p \in Targets(h[b]) : rk[p] < rk[b]
  BY DEF HeapTyped, Ranked
<1>3. ASSUME NEW f, NEW b \in D, \A p \in Targets(h[b]) : f[p] \in Nat
      PROVE  Up(f, b) \in Nat
  BY <1>3, HeightIsMax DEF HeightsBelow
<1>4. ASSUME NEW f, NEW g, NEW b \in D, \A p \in Targets(h[b]) : f[p] = g[p]
      PROVE  Up(f, b) = Up(g, b)
  <2>1. {f[p] + 1 : p \in Targets(h[b])} = {g[p] + 1 : p \in Targets(h[b])}
    BY <1>4
  <2> QED BY <2>1
<1>5. \A f, b : HeightsBelow(f, h[b]) = {0} \union {f[p] + 1 : p \in Targets(h[b])}
  BY DEF HeightsBelow
<1> HIDE DEF Up
<1>6. F \in [[D -> Nat] -> [D -> Nat]]
  <2>1. \A f \in [D -> Nat] : Body(f) \in [D -> Nat]
    BY <1>2, <1>3
  <2> HIDE DEF Body
  <2> QED BY <2>1
<1>7. GoesDown(F, D, Nat, rk)
  BY <1>2, <1>4 DEF GoesDown
<1>8. rk \in [D -> Nat]
  BY DEF Ranked
<1>9. PICK f \in [D -> Nat] : F[f] = f
  <2> HIDE DEF F, D
  <2>1. Nat # {}
    OBVIOUS
  <2>2. Solvable(F, D, Nat)
    BY <1>6, <1>7, <1>8, <2>1, RecursionSolves
  <2> QED BY <2>2 DEF Solvable
<1>10. f = Body(f)
  BY <1>9
<1>11. ht = Body(ht)
  <2> HIDE DEF Body
  <2> QED BY <1>10
<1> HIDE DEF ht
<1> DEFINE Good == {b \in D : ht[b] \in Nat}
<1>12. \A b \in D : (\A p \in D : rk[p] < rk[b] => p \in Good) => b \in Good
  BY <1>2, <1>3, <1>11
<1>13. D \subseteq Good
  <2> HIDE DEF Good, D
  <2> QED BY <1>8, <1>12, InductionOnRank
<1>14. ht \in [D -> Nat]
  BY <1>11, <1>13
<1>15. \A b \in D : ht[b] = Max(HeightsBelow(ht, h[b]))
  BY <1>5, <1>11 DEF Up
<1> QED BY <1>1, <1>14, <1>15 DEF IsHeight

(* A block is higher than those it points to.                              *)
LEMMA HeightsGoDown ==
  ASSUME NEW h, HeapTyped(h), NEW ht, IsHeight(ht, h)
  PROVE  Ranked(h, ht)
<1> SUFFICES ASSUME NEW b \in DOMAIN h, NEW p \in Targets(h[b]) PROVE ht[p] < ht[b]
  BY DEF Ranked, IsHeight
<1>1. \A q \in Targets(h[b]) : ht[q] \in Nat
  BY DEF HeapTyped, IsHeight
<1>2. ht[p] < Max(HeightsBelow(ht, h[b]))
  BY <1>1, HeightIsMax
<1> QED BY <1>2 DEF IsHeight

-----------------------------------------------------------------------------
(* attract_bkgraph: what the search by depth sees.                         *)

LEMMA NumberedIsTyped ==
  ASSUME NEW B, NEW st \in Search(B), NEW b \in B
  PROVE  Numbered(st, b) \in Search(B) /\ Numbered(st, b).seen = st.seen
<1>1. [st.order EXCEPT ![b] = st.n + 1] \in [B -> Nat] /\ st.n + 1 \in Nat
  BY DEF Search
<1> QED BY <1>1 DEF Search, Numbered

LEMMA DeepenedIsTyped ==
  ASSUME NEW B, NEW st \in Search(B), NEW b \in B, NEW d \in Nat
  PROVE  Deepened(st, b, d) \in Search(B) /\ Deepened(st, b, d).seen = st.seen
<1>1. [st.depth EXCEPT ![b] = d] \in [B -> Nat]
  BY DEF Search
<1> QED BY <1>1 DEF Search, Deepened

\* What escalate_sppointers(b, d) makes of the state of the search.
IsEscalation(esc, h, d) ==
  \A b \in DOMAIN h : \A st \in Search(DOMAIN h) :
    esc[b][st] = Deepened(Numbered(ForEachLink(esc, SpPtr, st, h[b]), b), b, d)

IsEscalated(h, d) ==
  \E esc \in [DOMAIN h -> [Search(DOMAIN h) -> Search(DOMAIN h)]] :
    /\ IsEscalation(esc, h, d)
    /\ \A b, st : Escalated(h, st, b, d) = esc[b][st]

LEMMA EscalationExists ==
  ASSUME NEW h, HeapTyped(h), NEW rk, Ranked(h, rk), NEW d \in Nat
  PROVE  IsEscalated(h, d)
<1> DEFINE D == DOMAIN h
           Se == Search(D)
           R == [Se -> Se]
           After(f, b, st) ==
             Deepened(Numbered(ForEachLink(f, SpPtr, st, h[b]), b), b, d)
           Body(f) == [b \in D |-> [st \in Se |-> After(f, b, st)]]
           F == [f \in [D -> R] |-> Body(f)]
           esc == CHOOSE f : f = Body(f)
<1>1. \A b0, st0 : Escalated(h, st0, b0, d) = esc[b0][st0]
  BY DEF Escalated
<1>2. \A b \in D : /\ h[b] \in Seq(Cell(D)) /\ Targets(h[b]) \subseteq D
                   /\ \A p \in Targets(h[b]) : rk[p] < rk[b]
  BY DEF HeapTyped, Ranked
<1>4. ASSUME NEW f, NEW b \in D, NEW st \in Se, \A p \in Targets(h[b]) : f[p] \in R
      PROVE  After(f, b, st) \in Se
  <2> DEFINE e == ForEachLink(f, SpPtr, st, h[b])
  <2>1. e \in Se
    <3> HIDE DEF Se
    <3> QED BY <1>2, <1>4, LoopIsTyped
  <2> HIDE DEF e
  <2>2. Numbered(e, b) \in Se
    BY <2>1, NumberedIsTyped
  <2>3. Deepened(Numbered(e, b), b, d) \in Se
    BY <2>2, DeepenedIsTyped
  <2> QED BY <2>3 DEF e
<1>5. ASSUME NEW f, NEW g, NEW b \in D, \A p \in Targets(h[b]) : f[p] = g[p] /\ f[p] \in R
      PROVE  \A st \in Se : After(f, b, st) = After(g, b, st)
  <2>1. ASSUME NEW st \in Se
        PROVE  ForEachLink(f, SpPtr, st, h[b]) = ForEachLink(g, SpPtr, st, h[b])
    <3> HIDE DEF Se
    <3> QED BY <1>2, <1>5, LoopsAgree
  <2> QED BY <2>1
<1> HIDE DEF After
<1>6. F \in [[D -> R] -> [D -> R]]
  <2>1. \A f \in [D -> R] : Body(f) \in [D -> R]
    BY <1>2, <1>4
  <2> HIDE DEF Body
  <2> QED BY <2>1
<1>7. GoesDown(F, D, R, rk)
  <2> SUFFICES ASSUME NEW f \in [D -> R], NEW g \in [D -> R], NEW b \in D,
                      \A p \in D : rk[p] < rk[b] => f[p] = g[p]
               PROVE  F[f][b] = F[g][b]
    BY DEF GoesDown
  <2>1. \A st \in Se : After(f, b, st) = After(g, b, st)
    BY <1>2, <1>5
  <2> QED BY <2>1
<1>8. rk \in [D -> Nat]
  BY DEF Ranked
<1>9. R # {}
  <2>1. [s \in Se |-> s] \in R
    OBVIOUS
  <2> QED BY <2>1
<1>10. PICK f \in [D -> R] : F[f] = f
  <2> HIDE DEF F, R, D
  <2>1. Solvable(F, D, R)
    BY <1>6, <1>7, <1>8, <1>9, RecursionSolves
  <2> QED BY <2>1 DEF Solvable
<1>11. f = Body(f)
  BY <1>10
<1>12. esc = Body(esc)
  <2> HIDE DEF Body
  <2> QED BY <1>11
<1> HIDE DEF esc
<1>13. \A b \in D : esc[b] = [st \in Se |-> After(esc, b, st)]
  BY <1>12
<1> DEFINE Good == {b \in D : esc[b] \in R}
<1>14. ASSUME NEW b \in D, \A p \in D : rk[p] < rk[b] => p \in Good
       PROVE  b \in Good
  <2>1. \A p \in Targets(h[b]) : esc[p] \in R
    BY <1>2, <1>14
  <2>2. \A st \in Se : After(esc, b, st) \in Se
    BY <1>4, <2>1
  <2>3. esc[b] = [st \in Se |-> After(esc, b, st)]
    BY <1>13
  <2> HIDE DEF Se
  <2> QED BY <2>2, <2>3
<1>15. \A b \in D : (\A p \in D : rk[p] < rk[b] => p \in Good) => b \in Good
  BY <1>14
<1>16. D \subseteq Good
  <2> HIDE DEF Good, D
  <2> QED BY <1>8, <1>15, InductionOnRank
<1>17. esc \in [D -> R]
  BY <1>12, <1>16
<1>18. IsEscalation(esc, h, d)
  <2>1. \A b \in D : \A st \in Se : esc[b][st] = After(esc, b, st)
    BY <1>13
  <2> QED BY <2>1 DEF IsEscalation, After
<1> QED BY <1>1, <1>17, <1>18 DEF IsEscalated

(* States that numbering a block and setting its depth leave in T stay     *)
(* there in escalate_sppointers, which ends with the block it began with.  *)
LEMMA EscalatedStays ==
  ASSUME NEW h, HeapTyped(h), NEW rk, Ranked(h, rk), NEW d \in Nat,
         NEW T \in SUBSET Search(DOMAIN h),
         \A b \in DOMAIN h : \A st \in T : Deepened(Numbered(st, b), b, d) \in T,
         NEW b0 \in DOMAIN h, NEW st0 \in T
  PROVE  \E st \in T : Escalated(h, st0, b0, d) = Deepened(Numbered(st, b0), b0, d)
<1> DEFINE D == DOMAIN h
           Se == Search(D)
<1>1. PICK esc \in [D -> [Se -> Se]] :
        /\ IsEscalation(esc, h, d)
        /\ \A b, st : Escalated(h, st, b, d) = esc[b][st]
  <2>1. IsEscalated(h, d)
    BY EscalationExists
  <2> QED BY <2>1 DEF IsEscalated
<1>2. \A b \in D : /\ h[b] \in Seq(Cell(D)) /\ Targets(h[b]) \subseteq D
                   /\ \A p \in Targets(h[b]) : rk[p] < rk[b]
  BY DEF HeapTyped, Ranked
<1> DEFINE Good == {b \in D : \A st \in T : esc[b][st] \in T}
<1>3. ASSUME NEW b \in D, \A p \in Targets(h[b]) : p \in Good, NEW st \in T
      PROVE  /\ ForEachLink(esc, SpPtr, st, h[b]) \in T
             /\ esc[b][st] = Deepened(Numbered(ForEachLink(esc, SpPtr, st, h[b]), b), b, d)
  <2>1. \A p \in Targets(h[b]) : esc[p] \in [Se -> Se] /\ \A s \in T : esc[p][s] \in T
    BY <1>1, <1>2, <1>3
  <2>2. \A i \in DOMAIN h[b] : IsLink(h[b][i]) /\ h[b][i].t \in SpPtr =>
          \A s \in T : esc[h[b][i].p][s] \in T
    BY <2>1 DEF Targets
  <2>3. ForEachLink(esc, SpPtr, st, h[b]) \in T
    <3>1. T \in SUBSET Se
      OBVIOUS
    <3> HIDE DEF Se
    <3> QED BY <1>2, <2>1, <2>2, <3>1, LoopKeeps
  <2> QED BY <1>1, <2>3 DEF IsEscalation
<1>4. \A b \in D : (\A p \in D : rk[p] < rk[b] => p \in Good) => b \in Good
  <2> SUFFICES ASSUME NEW b \in D, \A p \in D : rk[p] < rk[b] => p \in Good, NEW st \in T
               PROVE  esc[b][st] \in T
    OBVIOUS
  <2>1. \A p \in Targets(h[b]) : p \in Good
    BY <1>2
  <2> QED BY <1>3, <2>1
<1>5. rk \in [D -> Nat]
  BY DEF Ranked
<1>6. D \subseteq Good
  <2> HIDE DEF Good, D
  <2> QED BY <1>4, <1>5, InductionOnRank
<1>7. \A p \in Targets(h[b0]) : p \in Good
  BY <1>2, <1>6
<1> QED BY <1>1, <1>3, <1>7

(* escalate_sppointers changes depths and the order of visits only.        *)
LEMMA EscalatedIsTyped ==
  ASSUME NEW h, HeapTyped(h), NEW rk, Ranked(h, rk), NEW st0 \in Search(DOMAIN h),
         NEW b0 \in DOMAIN h, NEW d \in Nat
  PROVE  Escalated(h, st0, b0, d) \in Search(DOMAIN h) /\ Escalated(h, st0, b0, d).seen = st0.seen
<1> DEFINE Se == Search(DOMAIN h)
           T == {s \in Se : s.seen = st0.seen}
<1>1. ASSUME NEW b \in DOMAIN h, NEW s \in T
      PROVE  Deepened(Numbered(s, b), b, d) \in T
  <2> DEFINE v == Numbered(s, b)
  <2>1. v \in Se /\ v.seen = s.seen
    BY NumberedIsTyped
  <2> HIDE DEF v
  <2>2. Deepened(v, b, d) \in Se /\ Deepened(v, b, d).seen = v.seen
    BY <2>1, DeepenedIsTyped
  <2> QED BY <2>1, <2>2 DEF v
<1>2. st0 \in T /\ T \in SUBSET Se
  OBVIOUS
<1>3. \A b \in DOMAIN h : \A s \in T : Deepened(Numbered(s, b), b, d) \in T
  BY <1>1
<1>4. PICK s \in T : Escalated(h, st0, b0, d) = Deepened(Numbered(s, b0), b0, d)
  <2> HIDE DEF T
  <2> QED BY <1>2, <1>3, EscalatedStays
<1> QED BY <1>1, <1>4

LEMMA ReversedCells ==
  ASSUME NEW C, NEW q \in Seq(C)
  PROVE  Reverse(q) \in Seq(C) /\ Targets(Reverse(q)) = Targets(q)
<1> DEFINE n == Len(q)
           r == Reverse(q)
<1>1. n \in Nat /\ DOMAIN q = 1..n /\ \A i \in 1..n : q[i] \in C
  BY LenProperties, ElementOfSeq
<1>2. r = [i \in 1..n |-> q[(n - i) + 1]]
  BY DEF Reverse
<1> HIDE DEF n, r
<1>3. \A i \in 1..n : (n - i) + 1 \in 1..n /\ n - ((n - i) + 1) + 1 = i
  BY <1>1
<1>4. r \in [1..n -> C]
  BY <1>1, <1>2, <1>3
<1>5. r \in Seq(C)
  BY <1>1, <1>4, SeqDef
<1>6. Targets(r) \subseteq Targets(q)
  BY <1>1, <1>2, <1>3 DEF Targets
<1>7. Targets(q) \subseteq Targets(r)
  <2> SUFFICES ASSUME NEW i \in 1..n, IsLink(q[i]) PROVE q[i].p \in Targets(r)
    BY <1>1 DEF Targets
  <2>1. (n - i) + 1 \in 1..n /\ r[(n - i) + 1] = q[i]
    BY <1>2, <1>3
  <2>2. DOMAIN r = 1..n
    BY <1>2
  <2> QED BY <2>1, <2>2 DEF Targets
<1> QED BY <1>5, <1>6, <1>7 DEF r

LEMMA MarkedIsTyped ==
  ASSUME NEW B, NEW st \in Search(B), NEW b \in B
  PROVE  /\ [st EXCEPT !.seen = @ \union {b}] \in Search(B)
         /\ [st EXCEPT !.seen = @ \union {b}].seen = st.seen \union {b}
<1>1. st.seen \union {b} \in SUBSET B
  BY DEF Search
<1> QED BY <1>1 DEF Search

\* The loop over the cells of a block that dfs_attract_cells reaches for the first
\* time, at depth d.
Below(att, h, b, d, st) ==
  ForEachLink([p \in DOMAIN h |-> att[p][d + 1]], PtrTypes,
              [st EXCEPT !.seen = @ \union {b}], Reverse(h[b]))

IsAttraction(att, h) ==
  \A b \in DOMAIN h : \A d \in Nat : \A st \in Search(DOMAIN h) :
    att[b][d][st] =
      IF b \in st.seen THEN IF st.depth[b] < d THEN Deepened(st, b, d) ELSE st
      ELSE Escalated(h, Numbered(Below(att, h, b, d, st), b), b, d)

\* The state in which the search begins.
Unseen(h) ==
  LET zero == [b \in DOMAIN h |-> 0]
  IN [seen |-> {}, depth |-> zero, order |-> zero, n |-> 0]

IsAttracted(h) ==
  \E att \in [DOMAIN h -> [Nat -> [Search(DOMAIN h) -> Search(DOMAIN h)]]] :
    /\ IsAttraction(att, h)
    /\ \A b : Attracted(h, b) = att[b][0][Unseen(h)]

LEMMA AttractionExists ==
  ASSUME NEW h, HeapTyped(h), NEW rk, Ranked(h, rk)
  PROVE  IsAttracted(h)
<1> DEFINE D == DOMAIN h
           Se == Search(D)
           R == [Nat -> [Se -> Se]]
           After(f, b, d, st) ==
             IF b \in st.seen THEN IF st.depth[b] < d THEN Deepened(st, b, d) ELSE st
             ELSE Escalated(h, Numbered(Below(f, h, b, d, st), b), b, d)
           Body(f) == [b \in D |-> [d \in Nat |-> [st \in Se |-> After(f, b, d, st)]]]
           F == [f \in [D -> R] |-> Body(f)]
           att == CHOOSE f : f = Body(f)
<1>1. \A b : Attracted(h, b) = att[b][0][Unseen(h)]
  BY DEF Attracted, Unseen, Below
<1>2. \A b \in D : /\ Reverse(h[b]) \in Seq(Cell(D)) /\ Targets(h[b]) \subseteq D
                   /\ Targets(Reverse(h[b])) = Targets(h[b])
                   /\ \A p \in Targets(h[b]) : rk[p] < rk[b]
  BY ReversedCells DEF HeapTyped, Ranked
<1>3. ASSUME NEW f, NEW b \in D, NEW d \in Nat, NEW st \in Se, \A p \in Targets(h[b]) : f[p] \in R
      PROVE  Below(f, h, b, d, st) \in Se
  <2> DEFINE v == [p \in D |-> f[p][d + 1]]
             s0 == [st EXCEPT !.seen = @ \union {b}]
  <2>1. \A p \in Targets(Reverse(h[b])) : v[p] \in [Se -> Se]
    BY <1>2, <1>3
  <2>2. s0 \in Se
    BY MarkedIsTyped
  <2> HIDE DEF Se, v, s0
  <2>3. ForEachLink(v, PtrTypes, s0, Reverse(h[b])) \in Se
    BY <1>2, <2>1, <2>2, LoopIsTyped
  <2> QED BY <2>3 DEF v, s0, Below
<1>6. ASSUME NEW f, NEW b \in D, NEW d \in Nat, NEW st \in Se, \A p \in Targets(h[b]) : f[p] \in R
      PROVE  After(f, b, d, st) \in Se
  <2> DEFINE e == Below(f, h, b, d, st)
             w == Numbered(e, b)
  <2>1. e \in Se
    BY <1>3, <1>6
  <2>2. Deepened(st, b, d) \in Se
    BY DeepenedIsTyped
  <2> HIDE DEF e
  <2>3. w \in Se
    BY <2>1, NumberedIsTyped
  <2> HIDE DEF w
  <2>4. Escalated(h, w, b, d) \in Se
    BY <2>3, EscalatedIsTyped
  <2> HIDE DEF Se
  <2> QED BY <2>2, <2>4 DEF e, w
<1>8. ASSUME NEW f, NEW g, NEW b \in D, \A p \in Targets(h[b]) : f[p] = g[p] /\ f[p] \in R
      PROVE  \A d \in Nat : \A st \in Se : After(f, b, d, st) = After(g, b, d, st)
  <2>1. ASSUME NEW d \in Nat, NEW st \in Se
        PROVE  Below(f, h, b, d, st) = Below(g, h, b, d, st)
    <3> DEFINE v == [p \in D |-> f[p][d + 1]]
               w == [p \in D |-> g[p][d + 1]]
               s0 == [st EXCEPT !.seen = @ \union {b}]
    <3>1. \A p \in Targets(Reverse(h[b])) : v[p] = w[p] /\ v[p] \in [Se -> Se]
      BY <1>2, <1>8
    <3>2. s0 \in Se
      BY MarkedIsTyped
    <3> HIDE DEF Se, v, w, s0
    <3>3. ForEachLink(v, PtrTypes, s0, Reverse(h[b])) = ForEachLink(w, PtrTypes, s0, Reverse(h[b]))
      BY <1>2, <3>1, <3>2, LoopsAgree
    <3> QED BY <3>3 DEF v, w, s0, Below
  <2> QED BY <2>1
<1> HIDE DEF After
<1>9. F \in [[D -> R] -> [D -> R]]
  <2>1. \A f \in [D -> R] : Body(f) \in [D -> R]
    BY <1>2, <1>6
  <2> HIDE DEF Body
  <2> QED BY <2>1
<1>10. GoesDown(F, D, R, rk)
  <2> SUFFICES ASSUME NEW f \in [D -> R], NEW g \in [D -> R], NEW b \in D,
                      \A p \in D : rk[p] < rk[b] => f[p] = g[p]
               PROVE  F[f][b] = F[g][b]
    BY DEF GoesDown
  <2>1. \A d \in Nat : \A st \in Se : After(f, b, d, st) = After(g, b, d, st)
    BY <1>2, <1>8
  <2> QED BY <2>1
<1>11. rk \in [D -> Nat]
  BY DEF Ranked
<1>12. R # {}
  <2>1. [d \in Nat |-> [s \in Se |-> s]] \in R
    OBVIOUS
  <2> QED BY <2>1
<1>13. PICK f \in [D -> R] : F[f] = f
  <2> HIDE DEF F, R, D
  <2>1. Solvable(F, D, R)
    BY <1>9, <1>10, <1>11, <1>12, RecursionSolves
  <2> QED BY <2>1 DEF Solvable
<1>14. f = Body(f)
  BY <1>13
<1>15. att = Body(att)
  <2> HIDE DEF Body
  <2> QED BY <1>14
<1> HIDE DEF att
<1>16. \A b \in D : att[b] = [d \in Nat |-> [st \in Se |-> After(att, b, d, st)]]
  BY <1>15
<1> DEFINE Good == {b \in D : att[b] \in R}
<1>17. ASSUME NEW b \in D, \A p \in D : rk[p] < rk[b] => p \in Good
       PROVE  b \in Good
  <2>1. \A p \in Targets(h[b]) : p \in Good
    BY <1>2, <1>17
  <2>2. \A d \in Nat : \A st \in Se : After(att, b, d, st) \in Se
    BY <1>6, <2>1
  <2> HIDE DEF Se
  <2>3. \A d \in Nat : [st \in Se |-> After(att, b, d, st)] \in [Se -> Se]
    BY <2>2
  <2>4. [d \in Nat |-> [st \in Se |-> After(att, b, d, st)]] \in R
    BY <2>3
  <2> QED BY <1>16, <2>4
<1>18. \A b \in D : (\A p \in D : rk[p] < rk[b] => p \in Good) => b \in Good
  BY <1>17
<1>19. D \subseteq Good
  <2> HIDE DEF Good, D
  <2> QED BY <1>11, <1>18, InductionOnRank
<1>20. att \in [D -> R]
  BY <1>15, <1>19
<1>21. IsAttraction(att, h)
  <2>1. ASSUME NEW b \in D, NEW d \in Nat, NEW st \in Se
        PROVE  att[b][d][st] = After(att, b, d, st)
    <3>1. att[b] = [c \in Nat |-> [s \in Se |-> After(att, b, c, s)]]
      BY <1>16
    <3> HIDE DEF Se
    <3>2. att[b][d] = [s \in Se |-> After(att, b, d, s)]
      BY <3>1
    <3> QED BY <3>2
  <2> QED BY <2>1 DEF IsAttraction, After
<1> QED BY <1>1, <1>20, <1>21 DEF IsAttracted

LEMMA UnseenIsTyped ==
  ASSUME NEW h
  PROVE  Unseen(h) \in Search(DOMAIN h) /\ Unseen(h).seen = {}
BY DEF Search, Unseen

(* States that a visit of a block of K leaves in T stay there in           *)
(* dfs_attract_cells, which ends with the root, while the blocks of K lead *)
(* only to blocks of K.                                                    *)
LEMMA AttractedStays ==
  ASSUME NEW h, HeapTyped(h), NEW rk, Ranked(h, rk), NEW root \in DOMAIN h,
         NEW K \in SUBSET DOMAIN h, root \in K, \A b \in K : Targets(h[b]) \subseteq K,
         NEW T \in SUBSET Search(DOMAIN h), Unseen(h) \in T,
         \A b \in K : \A st \in T :
           /\ [st EXCEPT !.seen = @ \union {b}] \in T
           /\ \A d \in Nat : Deepened(st, b, d) \in T /\ Escalated(h, Numbered(st, b), b, d) \in T
  PROVE  \E st \in T : Attracted(h, root) = Escalated(h, Numbered(st, root), root, 0)
<1> DEFINE D == DOMAIN h
           Se == Search(D)
<1>1. PICK att \in [D -> [Nat -> [Se -> Se]]] :
        IsAttraction(att, h) /\ \A b : Attracted(h, b) = att[b][0][Unseen(h)]
  <2>1. IsAttracted(h)
    BY AttractionExists
  <2> QED BY <2>1 DEF IsAttracted
<1>2. \A b \in D : /\ Reverse(h[b]) \in Seq(Cell(D)) /\ Targets(h[b]) \subseteq D
                   /\ Targets(Reverse(h[b])) = Targets(h[b])
                   /\ \A p \in Targets(h[b]) : rk[p] < rk[b]
  BY ReversedCells DEF HeapTyped, Ranked
<1> DEFINE Good == {b \in D : b \in K => \A d \in Nat : \A s \in T : att[b][d][s] \in T}
<1>3. ASSUME NEW b \in K, NEW d \in Nat, NEW st \in T, \A p \in Targets(h[b]) : p \in Good
      PROVE  Below(att, h, b, d, st) \in T
  <2> DEFINE v == [p \in D |-> att[p][d + 1]]
             s0 == [st EXCEPT !.seen = @ \union {b}]
             q == Reverse(h[b])
  <2>0. b \in D /\ Targets(h[b]) \subseteq K
    OBVIOUS
  <2>1. \A p \in Targets(q) : v[p] \in [Se -> Se] /\ \A s \in T : v[p][s] \in T
    <3>1. Targets(q) = Targets(h[b])
      BY <1>2, <2>0
    <3>2. \A p \in Targets(q) : p \in K /\ p \in Good
      BY <1>3, <2>0, <3>1
    <3>3. ASSUME NEW p \in Targets(q)
          PROVE  v[p] \in [Se -> Se] /\ \A s \in T : v[p][s] \in T
      <4>1. p \in D /\ d + 1 \in Nat /\ \A c \in Nat : \A s \in T : att[p][c][s] \in T
        BY <3>2, <3>3
      <4>2. v[p] = att[p][d + 1] /\ att[p] \in [Nat -> [Se -> Se]]
        BY <1>1, <4>1
      <4> HIDE DEF v, q, Se
      <4> QED BY <4>1, <4>2
    <3> QED BY <3>3
  <2>2. s0 \in T
    OBVIOUS
  <2>3. \A i \in DOMAIN q : IsLink(q[i]) /\ q[i].t \in PtrTypes => \A s \in T : v[q[i].p][s] \in T
    BY <2>1 DEF Targets
  <2>4. T \in SUBSET Se /\ q \in Seq(Cell(D))
    BY <1>2, <2>0
  <2> HIDE DEF Se, v, s0, q
  <2>5. ForEachLink(v, PtrTypes, s0, q) \in T
    BY <2>1, <2>2, <2>3, <2>4, LoopKeeps
  <2> QED BY <2>5 DEF v, s0, q, Below
<1>4. ASSUME NEW b \in K, NEW d \in Nat, NEW st \in T, \A p \in Targets(h[b]) : p \in Good
      PROVE  att[b][d][st] \in T
  <2> DEFINE e == Below(att, h, b, d, st)
  <2>1. e \in T
    BY <1>3, <1>4
  <2>2. att[b][d][st] = IF b \in st.seen THEN IF st.depth[b] < d THEN Deepened(st, b, d) ELSE st
                        ELSE Escalated(h, Numbered(e, b), b, d)
    BY <1>1 DEF IsAttraction
  <2> HIDE DEF e
  <2>3. Escalated(h, Numbered(e, b), b, d) \in T /\ Deepened(st, b, d) \in T
    BY <2>1
  <2> QED BY <2>2, <2>3
<1>5. \A b \in D : (\A p \in D : rk[p] < rk[b] => p \in Good) => b \in Good
  <2> SUFFICES ASSUME NEW b \in D, \A p \in D : rk[p] < rk[b] => p \in Good, b \in K
               PROVE  \A d \in Nat : \A s \in T : att[b][d][s] \in T
    OBVIOUS
  <2>1. \A p \in Targets(h[b]) : p \in Good
    BY <1>2
  <2> QED BY <1>4, <2>1
<1>6. rk \in [D -> Nat]
  BY DEF Ranked
<1>7. D \subseteq Good
  <2> HIDE DEF Good, D
  <2> QED BY <1>5, <1>6, InductionOnRank
<1>8. \A p \in Targets(h[root]) : p \in Good
  BY <1>2, <1>7
<1> DEFINE e == Below(att, h, root, 0, Unseen(h))
<1>9. e \in T
  BY <1>3, <1>8
<1>10. Attracted(h, root) = Escalated(h, Numbered(e, root), root, 0)
  BY <1>1, UnseenIsTyped DEF IsAttraction
<1> QED BY <1>9, <1>10

(* dfs_attract_cells stays among the blocks the root reaches: those of     *)
(* every K that the root is in and no link leaves.                         *)
LEMMA AttractedSees ==
  ASSUME NEW h, HeapTyped(h), NEW rk, Ranked(h, rk), NEW root \in DOMAIN h,
         NEW K \in SUBSET DOMAIN h, root \in K, \A b \in K : Targets(h[b]) \subseteq K
  PROVE  Attracted(h, root) \in Search(DOMAIN h) /\ Attracted(h, root).seen \subseteq K
<1> DEFINE Se == Search(DOMAIN h)
           T == {s \in Se : s.seen \subseteq K}
<1>1. ASSUME NEW b \in K, NEW st \in T, NEW d \in Nat
      PROVE  /\ [st EXCEPT !.seen = @ \union {b}] \in T
             /\ Deepened(st, b, d) \in T
             /\ Escalated(h, Numbered(st, b), b, d) \in T
  <2>1. [st EXCEPT !.seen = @ \union {b}] \in T
    <3> DEFINE m == [st EXCEPT !.seen = @ \union {b}]
    <3>1. m \in Se /\ m.seen = st.seen \union {b}
      BY MarkedIsTyped
    <3> HIDE DEF m
    <3>2. m \in T
      BY <3>1
    <3> QED BY <3>2 DEF m
  <2>2. Deepened(st, b, d) \in T
    BY DeepenedIsTyped
  <2> DEFINE w == Numbered(st, b)
  <2>3. w \in Se /\ w.seen = st.seen
    BY NumberedIsTyped
  <2> HIDE DEF w
  <2>4. Escalated(h, w, b, d) \in T
    BY <2>3, EscalatedIsTyped
  <2> QED BY <2>1, <2>2, <2>4 DEF w
<1>2. \A b \in K : \A st \in T :
        /\ [st EXCEPT !.seen = @ \union {b}] \in T
        /\ \A d \in Nat : Deepened(st, b, d) \in T /\ Escalated(h, Numbered(st, b), b, d) \in T
  BY <1>1
<1>3. Unseen(h) \in T /\ T \in SUBSET Se
  BY UnseenIsTyped
<1>4. PICK st \in T : Attracted(h, root) = Escalated(h, Numbered(st, root), root, 0)
  <2> HIDE DEF T
  <2> QED BY <1>2, <1>3, AttractedStays
<1> QED BY <1>1, <1>4

-----------------------------------------------------------------------------
(* bk_newGraphFromRootBlock and _by_height: the entries of the graph.      *)

Enumerates(es, S) ==
  /\ es \in Seq(S) /\ ToSet(es) = S
  /\ \A i, j \in DOMAIN es : es[i] = es[j] => i = j

LEMMA SortedByRank ==
  ASSUME NEW S, IsFiniteSet(S), NEW R, StrictTotalOrder(R, S), NEW es \in [1..Cardinality(S) -> S],
         \A i \in 1..Cardinality(S) : RankIn(R, S, es[i]) = i - 1
  PROVE  Enumerates(es, S) /\ \A i, j \in DOMAIN es : i < j => <<es[i], es[j]>> \in R
<1>1. RanksNumber(R, S)
  BY TotalOrderNumbers
<1> DEFINE n == Cardinality(S)
<1>2. n \in Nat
  BY <1>1 DEF RanksNumber
<1>3. es \in Seq(S)
  BY <1>2, SeqDef
<1>4. S \subseteq ToSet(es)
  <2> SUFFICES ASSUME NEW x \in S PROVE \E i \in 1..n : es[i] = x
    BY DEF ToSet
  <2>1. RankIn(R, S, x) \in 0..(n - 1)
    BY <1>1 DEF RanksNumber
  <2>2. RankIn(R, S, x) + 1 \in 1..n
    BY <1>2, <2>1
  <2>3. RankIn(R, S, es[RankIn(R, S, x) + 1]) = RankIn(R, S, x)
    BY <2>1, <2>2
  <2> QED BY <1>1, <2>2, <2>3 DEF RanksNumber
<1>5. ToSet(es) = S
  BY <1>4 DEF ToSet
<1>6. \A i, j \in 1..n : es[i] = es[j] => i = j
  BY <1>2
<1>7. ASSUME NEW i \in 1..n, NEW j \in 1..n, i < j
      PROVE  <<es[i], es[j]>> \in R
  <2>1. ~(<<es[j], es[i]>> \in R)
    <3>1. <<es[j], es[i]>> \in R => RankIn(R, S, es[j]) < RankIn(R, S, es[i])
      BY <1>1 DEF RanksNumber
    <3> QED BY <1>2, <1>7, <3>1
  <2>2. es[i] # es[j]
    BY <1>2, <1>6, <1>7
  <2> QED BY <2>1, <2>2 DEF StrictTotalOrder
<1> QED BY <1>3, <1>5, <1>6, <1>7 DEF Enumerates

LEMMA SameLength ==
  ASSUME NEW S, NEW a, NEW b, Enumerates(a, S), Enumerates(b, S)
  PROVE  Len(a) = Len(b)
<1>1. ASSUME NEW s, Enumerates(s, S) PROVE Cardinality(S) = Len(s)
  <2>1. Len(s) \in Nat /\ DOMAIN s = 1..Len(s) /\ s \in [1..Len(s) -> S]
    BY <1>1, LenProperties DEF Enumerates
  <2>2. IsFiniteSet(1..Len(s)) /\ Cardinality(1..Len(s)) = Len(s)
    <3>1. 1 \in Int /\ Len(s) \in Int
      BY <2>1
    <3> QED BY <2>1, <3>1, FS_Interval
  <2>3. s \in Bijection(1..Len(s), S)
    BY <1>1, <2>1 DEF Bijection, Injection, IsInjective, Surjection, Enumerates, ToSet
  <2>4. ExistsBijection(1..Len(s), S)
    BY <2>3 DEF ExistsBijection
  <2> QED BY <2>1, <2>2, <2>4, FS_Bijection
<1> QED BY <1>1

LEMMA ElementsAreFinite ==
  ASSUME NEW S, NEW s \in Seq(S)
  PROVE  IsFiniteSet(ToSet(s)) /\ ToSet(s) \subseteq S
<1>1. Len(s) \in Nat /\ DOMAIN s = 1..Len(s) /\ \A i \in DOMAIN s : s[i] \in S
  BY LenProperties, ElementOfSeq
<1>2. IsFiniteSet(1..Len(s))
  BY <1>1, FS_Interval
<1>3. s \in Surjection(1..Len(s), ToSet(s))
  <2>1. s \in [1..Len(s) -> ToSet(s)]
    BY <1>1 DEF ToSet
  <2> QED BY <1>1, <2>1 DEF Surjection, ToSet
<1>4. ToSet(s) \subseteq S
  BY <1>1 DEF ToSet
<1> QED BY <1>2, <1>3, <1>4, FS_Surjection

LEMMA IndexIsPlace ==
  ASSUME NEW es, NEW b \in ToSet(es)
  PROVE  IndexOf(es, b) \in DOMAIN es /\ es[IndexOf(es, b)] = b
BY DEF ToSet, IndexOf

(* The entries are the blocks that the root reaches, from the highest down. *)
LEMMA ByHeightEnumerates ==
  ASSUME NEW h, HeapTyped(h), NEW rk, Ranked(h, rk), NEW fin, fin = Finished(h),
         NEW ht, ht = Heights(h), NEW es, es = ByHeight(h)
  PROVE  /\ Enumerates(es, ToSet(fin))
         /\ \A i, j \in DOMAIN es : i < j => ht[es[i]] >= ht[es[j]]
<1> DEFINE S == ToSet(fin)
           Before(a, b) == IF ht[a] = ht[b] THEN IndexOf(fin, a) < IndexOf(fin, b)
                           ELSE ht[a] > ht[b]
           R == {p \in S \X S : Before(p[1], p[2])}
           n == Cardinality(S)
<1>1. fin \in Seq(DOMAIN h)
  BY FinishedReaches
<1>2. IsFiniteSet(S) /\ S \subseteq DOMAIN h
  BY <1>1, ElementsAreFinite
<1>3. ht \in [DOMAIN h -> Nat]
  BY HeightsAreHeights DEF IsHeight
<1>4. \A b \in S : IndexOf(fin, b) \in Nat /\ fin[IndexOf(fin, b)] = b /\ ht[b] \in Nat
  <2>1. DOMAIN fin \subseteq Nat
    BY <1>1, LenProperties
  <2> QED BY <1>2, <1>3, <2>1, IndexIsPlace
<1>5. es = [i \in 1..n |-> CHOOSE b \in S : Cardinality({c \in S : Before(c, b)}) = i - 1]
  BY DEF ByHeight, SortedBlocks
<1>6. StrictTotalOrder(R, S)
  <2> HIDE DEF S
  <2>1. \A a, b \in S : <<a, b>> \in R <=> Before(a, b)
    OBVIOUS
  <2> HIDE DEF R
  <2>2. \A x \in S : <<x, x>> \notin R
    BY <1>4, <2>1
  <2>3. \A x, y, z \in S : <<x, y>> \in R /\ <<y, z>> \in R => <<x, z>> \in R
    BY <1>4, <2>1
  <2>4. \A x, y \in S : x = y \/ <<x, y>> \in R \/ <<y, x>> \in R
    <3> SUFFICES ASSUME NEW x \in S, NEW y \in S, x # y PROVE Before(x, y) \/ Before(y, x)
      BY <2>1
    <3>1. IndexOf(fin, x) # IndexOf(fin, y)
      BY <1>4
    <3> QED BY <1>4, <3>1
  <2> QED BY <2>2, <2>3, <2>4 DEF StrictTotalOrder
<1>7. ASSUME NEW b \in S PROVE RankIn(R, S, b) = Cardinality({c \in S : Before(c, b)})
  <2>1. {c \in S : <<c, b>> \in R} = {c \in S : Before(c, b)}
    OBVIOUS
  <2> QED BY <2>1 DEF RankIn
<1>8. RanksNumber(R, S)
  BY <1>2, <1>6, TotalOrderNumbers
<1>9. ASSUME NEW i \in 1..n
      PROVE  es[i] \in S /\ RankIn(R, S, es[i]) = i - 1
  <2>1. n \in Nat
    BY <1>8 DEF RanksNumber
  <2>2. i - 1 \in 0..(n - 1)
    BY <2>1
  <2>3. \E b \in S : RankIn(R, S, b) = i - 1
    BY <1>8, <2>2 DEF RanksNumber
  <2>4. \E b \in S : Cardinality({c \in S : Before(c, b)}) = i - 1
    BY <1>7, <2>3
  <2>5. es[i] = CHOOSE b \in S : Cardinality({c \in S : Before(c, b)}) = i - 1
    BY <1>5
  <2> HIDE DEF Before, S
  <2>6. es[i] \in S /\ Cardinality({c \in S : Before(c, es[i])}) = i - 1
    BY <2>4, <2>5
  <2> QED BY <1>7, <2>6
<1>10. es \in [1..n -> S]
  <2> HIDE DEF Before, S
  <2> QED BY <1>5, <1>9
<1>11. Enumerates(es, S) /\ \A i, j \in DOMAIN es : i < j => <<es[i], es[j]>> \in R
  <2> HIDE DEF S, R
  <2> QED BY <1>2, <1>6, <1>9, <1>10, SortedByRank
<1>12. \A i \in DOMAIN es : es[i] \in S
  BY <1>10
<1>13. ASSUME NEW i \in DOMAIN es, NEW j \in DOMAIN es, i < j
       PROVE  ht[es[i]] >= ht[es[j]]
  <2>1. Before(es[i], es[j])
    <3>1. \A a, b : <<a, b>> \in R => Before(a, b)
      OBVIOUS
    <3> HIDE DEF R, S, Before
    <3>2. <<es[i], es[j]>> \in R
      BY <1>11, <1>13
    <3> QED BY <3>1, <3>2
  <2>2. ht[es[i]] \in Nat /\ ht[es[j]] \in Nat
    BY <1>4, <1>12
  <2>3. ht[es[i]] = ht[es[j]] \/ ht[es[i]] > ht[es[j]]
    BY <2>1
  <2> QED BY <2>2, <2>3
<1> QED BY <1>11, <1>13

(* The entries of a new graph: the root first, alone in its height.        *)
LEMMA NewEntries ==
  ASSUME NEW h, HeapTyped(h), NEW rk, Ranked(h, rk), NEW ht, ht = Heights(h),
         NEW es, es = ByHeight(h)
  PROVE  /\ es \in Seq(DOMAIN h) /\ Len(es) > 0
         /\ \A i, j \in DOMAIN es : es[i] = es[j] => i = j
         /\ \A b \in ToSet(es) : Targets(h[b]) \subseteq ToSet(es)
         /\ \A i, j \in DOMAIN es : i < j => ht[es[i]] >= ht[es[j]]
         /\ es[1] = Root
         /\ \A i \in DOMAIN es : i > 1 => ht[es[i]] < ht[Root]
<1> DEFINE fin == Finished(h)
           S == ToSet(fin)
<1>1. fin \in Seq(DOMAIN h) /\ Reaches(h, <<>>, fin, {Root})
  BY FinishedReaches
<1>2. Enumerates(es, S) /\ \A i, j \in DOMAIN es : i < j => ht[es[i]] >= ht[es[j]]
  BY ByHeightEnumerates
<1>3. S \subseteq DOMAIN h
  BY <1>1, ElementsAreFinite
<1>4. ToSet(<<>>) = {}
  BY DEF ToSet
<1>5. /\ Root \in S /\ \A x \in S : Targets(h[x]) \subseteq S
      /\ \A x \in S : x = Root \/ \E y \in S : x \in Targets(h[y])
  <2> HIDE DEF fin
  <2> QED BY <1>1, <1>4 DEF Reaches
<1>6. IsHeight(ht, h) /\ Ranked(h, ht)
  BY HeightsAreHeights, HeightsGoDown
<1>7. \A x \in S : x = Root \/ \E y \in S : ht[x] < ht[y]
  BY <1>3, <1>5, <1>6 DEF Ranked
<1>8. \A x \in S : ht[x] \in Nat
  BY <1>3, <1>6 DEF IsHeight
<1> HIDE DEF S
<1>9. /\ ToSet(es) = S /\ Len(es) \in Nat /\ DOMAIN es = 1..Len(es)
      /\ \A i \in DOMAIN es : es[i] \in S
  BY <1>2, LenProperties, ElementOfSeq DEF Enumerates
<1>10. PICK r \in DOMAIN es : es[r] = Root
  <2>1. Root \in ToSet(es)
    BY <1>5, <1>9
  <2> QED BY <2>1 DEF ToSet
<1>11. 1 \in DOMAIN es
  BY <1>9, <1>10
<1>12. \A i \in DOMAIN es : ht[es[1]] >= ht[es[i]]
  <2> SUFFICES ASSUME NEW i \in DOMAIN es PROVE ht[es[1]] >= ht[es[i]]
    OBVIOUS
  <2>1. CASE i = 1
    BY <1>8, <1>9, <2>1
  <2>2. CASE i # 1
    <3>1. 1 < i
      BY <1>9, <2>2
    <3> QED BY <1>2, <1>11, <3>1
  <2> QED BY <2>1, <2>2
<1>13. \A y \in S : ht[es[1]] >= ht[y]
  <2> SUFFICES ASSUME NEW y \in S PROVE ht[es[1]] >= ht[y]
    OBVIOUS
  <2>1. \E i \in DOMAIN es : es[i] = y
    <3>1. y \in ToSet(es)
      BY <1>9
    <3> QED BY <3>1 DEF ToSet
  <2> QED BY <1>12, <2>1
<1>14. es[1] = Root
  <2>1. es[1] \in S
    BY <1>9, <1>11
  <2> QED BY <1>7, <1>8, <1>13, <2>1
<1>15. ASSUME NEW i \in DOMAIN es, i > 1
       PROVE  ht[es[i]] < ht[Root]
  <2>1. es[i] # Root
    BY <1>2, <1>11, <1>14, <1>15 DEF Enumerates
  <2>2. PICK y \in S : ht[es[i]] < ht[y]
    BY <1>7, <1>9, <2>1
  <2>3. ht[Root] >= ht[y] /\ ht[Root] \in Nat /\ ht[y] \in Nat /\ ht[es[i]] \in Nat
    BY <1>5, <1>8, <1>9, <1>13, <1>14
  <2> QED BY <2>2, <2>3
<1>16. es \in Seq(DOMAIN h) /\ Len(es) > 0
  <2>1. es \in Seq(S)
    BY <1>2 DEF Enumerates, S
  <2> QED BY <1>3, <1>9, <1>11, <2>1, SeqDef
<1> QED BY <1>2, <1>5, <1>9, <1>14, <1>15, <1>16 DEF Enumerates

-----------------------------------------------------------------------------
(* attract_bkgraph and _by_order: the same entries, in the order of their  *)
(* depths.                                                                 *)

LEMMA OrderIsTotal ==
  ASSUME NEW B \in SUBSET Nat, NEW st \in Search(B), NEW S \in SUBSET B
  PROVE  StrictTotalOrder({p \in S \X S : FirstInOrder(st, p[1], p[2])}, S)
<1> DEFINE R == {p \in S \X S : FirstInOrder(st, p[1], p[2])}
<1>1. \A a \in S : st.depth[a] \in Nat /\ st.order[a] \in Nat /\ a \in Nat
  BY DEF Search
<1>2. \A a, b \in S : <<a, b>> \in R <=> FirstInOrder(st, a, b)
  OBVIOUS
<1> HIDE DEF R
<1>3. \A a \in S : <<a, a>> \notin R
  BY <1>1, <1>2 DEF FirstInOrder
<1>4. ASSUME NEW a \in S, NEW b \in S, NEW c \in S, <<a, b>> \in R, <<b, c>> \in R
      PROVE  <<a, c>> \in R
  <2>1. FirstInOrder(st, a, b) /\ FirstInOrder(st, b, c)
    BY <1>2, <1>4
  <2>2. FirstInOrder(st, a, c)
    BY <1>1, <2>1 DEF FirstInOrder
  <2> QED BY <1>2, <2>2
<1>5. ASSUME NEW a \in S, NEW b \in S, a # b
      PROVE  <<a, b>> \in R \/ <<b, a>> \in R
  <2>1. FirstInOrder(st, a, b) \/ FirstInOrder(st, b, a)
    BY <1>1, <1>5 DEF FirstInOrder
  <2> QED BY <1>2, <2>1
<1>6. StrictTotalOrder(R, S)
  BY <1>3, <1>4, <1>5 DEF StrictTotalOrder
<1> QED BY <1>6 DEF R

LEMMA ByOrderEnumerates ==
  ASSUME NEW h, HeapTyped(h), NEW rk, Ranked(h, rk), NEW old \in Seq(DOMAIN h), Len(old) > 0,
         NEW es, es = ByOrder(h, old)
  PROVE  Enumerates(es, ToSet(old)) /\ Len(es) > 0
<1> DEFINE S == ToSet(old)
           st == Attracted(h, old[1])
           R == {p \in S \X S : FirstInOrder(st, p[1], p[2])}
           n == Cardinality(S)
<1>1. Len(old) \in Nat /\ DOMAIN old = 1..Len(old) /\ \A i \in DOMAIN old : old[i] \in DOMAIN h
  BY LenProperties, ElementOfSeq
<1>2. IsFiniteSet(S) /\ S \subseteq DOMAIN h /\ DOMAIN h \subseteq Nat
  BY ElementsAreFinite DEF HeapTyped
<1>3. st \in Search(DOMAIN h)
  <2>1. old[1] \in DOMAIN h
    BY <1>1
  <2>2. \A b \in DOMAIN h : Targets(h[b]) \subseteq DOMAIN h
    BY DEF HeapTyped
  <2> QED BY <2>1, <2>2, AttractedSees
<1>4. es = [i \in 1..n |-> CHOOSE b \in S : Cardinality({c \in S : FirstInOrder(st, c, b)}) = i - 1]
  BY DEF ByOrder, SortedBlocks
<1> HIDE DEF st
<1>5. StrictTotalOrder(R, S)
  BY <1>2, <1>3, OrderIsTotal
<1>6. ASSUME NEW b \in S PROVE RankIn(R, S, b) = Cardinality({c \in S : FirstInOrder(st, c, b)})
  <2>1. {c \in S : <<c, b>> \in R} = {c \in S : FirstInOrder(st, c, b)}
    OBVIOUS
  <2> QED BY <2>1 DEF RankIn
<1>7. RanksNumber(R, S)
  BY <1>2, <1>5, TotalOrderNumbers
<1>8. ASSUME NEW i \in 1..n
      PROVE  es[i] \in S /\ RankIn(R, S, es[i]) = i - 1
  <2>1. n \in Nat
    BY <1>7 DEF RanksNumber
  <2>2. i - 1 \in 0..(n - 1)
    BY <2>1
  <2>3. \E b \in S : RankIn(R, S, b) = i - 1
    BY <1>7, <2>2 DEF RanksNumber
  <2>4. \E b \in S : Cardinality({c \in S : FirstInOrder(st, c, b)}) = i - 1
    BY <1>6, <2>3
  <2>5. es[i] = CHOOSE b \in S : Cardinality({c \in S : FirstInOrder(st, c, b)}) = i - 1
    BY <1>4
  <2> HIDE DEF S
  <2>6. es[i] \in S /\ Cardinality({c \in S : FirstInOrder(st, c, es[i])}) = i - 1
    BY <2>4, <2>5
  <2> QED BY <1>6, <2>6
<1>9. es \in [1..n -> S]
  <2> HIDE DEF S
  <2> QED BY <1>4, <1>8
<1>10. Enumerates(es, S)
  <2> HIDE DEF S, R
  <2> QED BY <1>2, <1>5, <1>8, <1>9, SortedByRank
<1>11. Len(es) > 0
  <2>1. old[1] \in S
    BY <1>1 DEF ToSet
  <2>2. Len(es) \in Nat /\ DOMAIN es = 1..Len(es) /\ S = ToSet(es)
    BY <1>10, LenProperties DEF Enumerates
  <2>3. \E i \in DOMAIN es : es[i] = old[1]
    <3>1. old[1] \in ToSet(es)
      BY <2>1, <2>2
    <3> QED BY <3>1 DEF ToSet
  <2> QED BY <2>2, <2>3
<1> QED BY <1>10, <1>11

-----------------------------------------------------------------------------
(* The inductive invariant.                                                *)

\* What the graph is made of.  Links lead to lower ranks, so that the searches end.
Typed ==
  /\ pc \in {"new", "minimize", "attract", "untangle", "build", "done"}
  /\ IsHeap(input)
  /\ IsHeap(cells) /\ DOMAIN input \subseteq DOMAIN cells
  /\ \E rk : Ranked(cells, rk)
  /\ DOMAIN from = DOMAIN cells
  /\ entries \in Seq(DOMAIN cells) /\ black \subseteq DOMAIN cells
  /\ \A i, j \in DOMAIN entries : entries[i] = entries[j] => i = j
  /\ DOMAIN alias \subseteq DOMAIN entries
  /\ passes \in 0..MaxPasses /\ tangled \in BOOLEAN
  /\ pc # "new" => Len(entries) > 0
  /\ pc = "untangle" => passes < MaxPasses

\* The entries before a copy is made: with a block what it points to, from the root
\* down, which alone is as high as it is.
ByLevel ==
  /\ \A b \in ToSet(entries) : Targets(cells[b]) \subseteq ToSet(entries)
  /\ IsHeight(height, cells)
  /\ \A i, j \in DOMAIN entries : i < j => height[entries[i]] >= height[entries[j]]
  /\ entries[1] = Root
  /\ \A i \in DOMAIN entries : i > 1 => height[entries[i]] < height[Root]

\* The levels behind `rear' are merged: equal blocks there have one alias, which is
\* one of them, and no entry points to any other of them.
Merged ==
  /\ alias \in [DOMAIN entries -> DOMAIN entries] /\ rear \in DOMAIN entries
  /\ \A k \in DOMAIN entries : k <= rear => alias[k] = k
  /\ \A k \in DOMAIN entries : k > rear =>
       /\ alias[k] > rear /\ alias[alias[k]] = alias[k]
       /\ cells[entries[alias[k]]] = cells[entries[k]]
       /\ height[entries[k]] < height[entries[rear]]
  /\ \A i, j \in DOMAIN entries :
       i > rear /\ j > rear /\ cells[entries[i]] = cells[entries[j]] => alias[i] = alias[j]
  /\ \A k, j \in DOMAIN entries :
       j > rear /\ entries[j] \in Targets(cells[entries[k]]) => alias[j] = j

NotCopied == from = [b \in DOMAIN cells |-> b]

IInv ==
  /\ Typed
  /\ pc \in {"new", "minimize"} => passes = 0
  /\ pc = "new" => NotCopied
  /\ pc \in {"minimize", "attract"} /\ passes = 0 => NotCopied /\ ByLevel /\ Merged

(* A tree that its caller built has a rank: the blocks are numbered from   *)
(* the root down.                                                          *)
LEMMA InitKeepsInv ==
  ASSUME Init
  PROVE  IInv
<1>1. input \in Heaps /\ IsHeap(input) /\ LeadsDown(input) /\ cells = input
  BY HeapsAreClosed DEF Init
<1>2. HeapTyped(input)
  BY <1>1, HeapIsTyped
<1> DEFINE rk == [b \in DOMAIN input |-> Len(input) - b]
<1>3. Ranked(input, rk)
  <2>1. \A b \in DOMAIN input : b \in 1..Len(input)
    BY <1>2 DEF HeapTyped
  <2>2. rk \in [DOMAIN input -> Nat]
    BY <1>2, <2>1 DEF HeapTyped
  <2>3. ASSUME NEW b \in DOMAIN input, NEW p \in Targets(input[b])
        PROVE  rk[p] < rk[b]
    <3>1. p \in DOMAIN input /\ p > b
      BY <1>1, <1>2 DEF HeapTyped, LeadsDown
    <3> QED BY <1>2, <2>1, <3>1 DEF HeapTyped
  <2> QED BY <2>2, <2>3 DEF Ranked
<1>4. <<>> \in Seq(DOMAIN cells) /\ DOMAIN <<>> = {}
  OBVIOUS
<1>5. 0 \in 0..MaxPasses
  BY BkConstants
<1>6. Typed
  <2> HIDE DEF rk
  <2> QED BY <1>1, <1>3, <1>4, <1>5 DEF Init, Typed
<1>7. NotCopied
  BY DEF Init, NotCopied
<1> QED BY <1>6, <1>7 DEF Init, IInv

LEMMA NewGraphKeepsInv ==
  ASSUME IInv, NewGraph
  PROVE  IInv'
<1>1. pc = "new" /\ Typed /\ NotCopied /\ passes = 0
  BY DEF IInv, NewGraph
<1>2. HeapTyped(cells)
  BY <1>1, HeapIsTyped DEF Typed
<1>3. PICK rk : Ranked(cells, rk)
  BY <1>1 DEF Typed
<1>4. entries' = ByHeight(cells) /\ height' = Heights(cells) /\ cells' = cells
  BY DEF NewGraph
<1>5. /\ entries' \in Seq(DOMAIN cells) /\ Len(entries') > 0
      /\ \A i, j \in DOMAIN entries' : entries'[i] = entries'[j] => i = j
      /\ \A b \in ToSet(entries') : Targets(cells[b]) \subseteq ToSet(entries')
      /\ \A i, j \in DOMAIN entries' : i < j => height'[entries'[i]] >= height'[entries'[j]]
      /\ entries'[1] = Root
      /\ \A i \in DOMAIN entries' : i > 1 => height'[entries'[i]] < height'[Root]
  BY <1>2, <1>3, <1>4, NewEntries
<1>6. Len(entries') \in Nat /\ DOMAIN entries' = 1..Len(entries')
  BY <1>5, LenProperties
<1>7. Typed'
  <2>1. black' \subseteq DOMAIN cells
    BY <1>5, ElementsAreFinite DEF NewGraph
  <2>2. DOMAIN alias' \subseteq DOMAIN entries'
    BY DEF NewGraph
  <2> QED BY <1>1, <1>4, <1>5, <2>1, <2>2 DEF NewGraph, Typed
<1>8. ByLevel'
  <2>1. IsHeight(height', cells)
    BY <1>2, <1>3, <1>4, HeightsAreHeights
  <2> QED BY <1>4, <1>5, <2>1 DEF ByLevel
<1>9. Merged'
  <2>1. rear' = Len(entries') /\ alias' = [i \in DOMAIN entries' |-> i]
    BY DEF NewGraph
  <2>2. \A k \in DOMAIN entries' : ~(k > rear')
    BY <1>6, <2>1
  <2>3. rear' \in DOMAIN entries'
    BY <1>5, <1>6, <2>1
  <2>4. alias' \in [DOMAIN entries' -> DOMAIN entries']
    BY <2>1
  <2> QED BY <2>1, <2>2, <2>3, <2>4 DEF Merged
<1>10. NotCopied'
  BY <1>1, <1>4 DEF NotCopied, NewGraph
<1>11. pc' # "new" /\ passes' = 0
  BY <1>1 DEF NewGraph
<1> QED BY <1>7, <1>8, <1>9, <1>10, <1>11 DEF IInv

LEMMA MinimizeDoneKeepsInv ==
  ASSUME IInv, MinimizeDone
  PROVE  IInv'
<1>1. pc = "minimize" /\ pc' = "attract"
  BY DEF MinimizeDone
<1>2. UNCHANGED <<input, cells, from, entries, height, black, alias, rear, passes, tangled>>
  BY DEF MinimizeDone
<1>3. Typed'
  BY <1>1, <1>2 DEF IInv, Typed
<1>4. NotCopied' /\ ByLevel' /\ Merged'
  BY <1>1, <1>2 DEF IInv, NotCopied, ByLevel, Merged
<1> QED BY <1>1, <1>2, <1>3, <1>4 DEF IInv

(* attract_bkgraph reorders the entries.                                   *)
LEMMA AttractKeepsInv ==
  ASSUME IInv, Attract
  PROVE  IInv'
<1>1. pc = "attract" /\ Typed
  BY DEF IInv, Attract
<1>2. HeapTyped(cells)
  BY <1>1, HeapIsTyped DEF Typed
<1>3. PICK rk : Ranked(cells, rk)
  BY <1>1 DEF Typed
<1>4. entries \in Seq(DOMAIN cells) /\ Len(entries) > 0
  BY <1>1 DEF Typed
<1>5. Enumerates(entries', ToSet(entries)) /\ Len(entries') > 0
  BY <1>2, <1>3, <1>4, ByOrderEnumerates DEF Attract
<1>6. ToSet(entries) \subseteq DOMAIN cells
  BY <1>4, ElementsAreFinite
<1>7. entries' \in Seq(DOMAIN cells)
  <2>1. entries' \in Seq(ToSet(entries))
    BY <1>5 DEF Enumerates
  <2> QED BY <1>6, <2>1, SeqDef
<1>8. black' \subseteq DOMAIN cells
  <2>1. entries[1] \in DOMAIN cells
    BY <1>4, LenProperties, ElementOfSeq
  <2>2. \A b \in DOMAIN cells : Targets(cells[b]) \subseteq DOMAIN cells
    BY <1>2 DEF HeapTyped
  <2>3. Attracted(cells, entries[1]).seen \subseteq DOMAIN cells
    BY <1>2, <1>3, <2>1, <2>2, AttractedSees
  <2> QED BY <2>3 DEF Attract
<1>9. DOMAIN entries' = DOMAIN entries
  <2>1. Enumerates(entries, ToSet(entries))
    <3>1. entries \in Seq(ToSet(entries))
      <4>1. Len(entries) \in Nat /\ DOMAIN entries = 1..Len(entries)
        BY <1>4, LenProperties
      <4>2. entries \in [1..Len(entries) -> ToSet(entries)]
        BY <1>4, <4>1 DEF ToSet
      <4> QED BY <4>1, <4>2, SeqDef
    <3> QED BY <1>1, <3>1 DEF Enumerates, Typed
  <2>2. Len(entries') = Len(entries)
    BY <1>5, <2>1, SameLength
  <2> QED BY <1>4, <1>7, <2>2, LenProperties
<1>10. Typed'
  BY <1>1, <1>5, <1>7, <1>8, <1>9 DEF Typed, Attract, Enumerates, MorePasses
<1>11. passes' # 0 \/ pc' \notin {"minimize", "attract", "new"}
  BY DEF Attract
<1> QED BY <1>10, <1>11 DEF IInv, Attract

-----------------------------------------------------------------------------
(* bk_minimizeGraph.                                                       *)

LEMMA LevelFrontFound ==
  ASSUME NEW r \in Nat, r > 1
  PROVE  /\ LevelFront(r) \in 2..r
         /\ LevelFront(r) = 2 \/ height[entries[LevelFront(r) - 1]] # height[entries[r]]
         /\ \A j \in LevelFront(r)..r : height[entries[j]] = height[entries[r]]
<1> DEFINE Stop(f) == f = 1 \/ height[entries[f]] # height[entries[r]]
           Found(f) == Stop(f) /\ \A j \in (f + 1)..r : height[entries[j]] = height[entries[r]]
           S == {f \in 1..(r - 1) : Stop(f)}
<1>1. S \subseteq Nat /\ 1 \in S /\ \A f \in S : f <= r
  OBVIOUS
<1>2. PICK m \in S : \A f \in S : f <= m
  <2> HIDE DEF S
  <2>1. S # {}
    BY <1>1
  <2> QED BY <1>1, <2>1, LargestNatural
<1>3. m \in 1..(r - 1) /\ Stop(m)
  OBVIOUS
<1>4. ASSUME NEW j \in (m + 1)..r PROVE height[entries[j]] = height[entries[r]]
  <2>1. CASE j = r
    BY <2>1
  <2>2. CASE j # r
    <3>1. j \in 1..(r - 1) /\ ~(j <= m)
      BY <1>3, <2>2
    <3>2. ~Stop(j)
      BY <1>2, <3>1
    <3> QED BY <3>2
  <2> QED BY <2>1, <2>2
<1>5. \E f \in 1..(r - 1) : Found(f)
  BY <1>3, <1>4
<1> DEFINE c == CHOOSE f \in 1..(r - 1) : Found(f)
<1>6. LevelFront(r) = 1 + c
  BY DEF LevelFront
<1>7. c \in 1..(r - 1) /\ Found(c)
  <2> HIDE DEF Found
  <2> QED BY <1>5
<1> HIDE DEF c
<1> QED BY <1>6, <1>7

\* What one iteration does to the aliases of the level front..rear.
LevelMerged(front) ==
  /\ front \in 2..rear /\ rear' = front - 1
  /\ alias' \in [DOMAIN entries -> DOMAIN entries]
  /\ \A k \in DOMAIN entries : k \notin front..rear => alias'[k] = alias[k]
  /\ \A k \in front..rear :
       /\ k \in DOMAIN entries /\ alias'[k] \in front..k
       /\ cells[entries[alias'[k]]] = cells[entries[k]]
       /\ \A i \in front..(alias'[k] - 1) : cells[entries[i]] # cells[entries[k]]
  /\ \A k \in front..rear : height[entries[k]] = height[entries[rear]]
  /\ \A k \in DOMAIN entries : k >= front => height[entries[k]] < height[entries[front - 1]]

LEMMA LevelIsMerged ==
  ASSUME IInv, MinimizeLevel, NEW front, front = LevelFront(rear)
  PROVE  LevelMerged(front)
<1>1. Typed /\ ByLevel /\ Merged /\ rear > 1
  BY DEF IInv, MinimizeLevel
<1>2. /\ entries \in Seq(DOMAIN cells) /\ Len(entries) \in Nat /\ DOMAIN entries = 1..Len(entries)
      /\ \A k \in DOMAIN entries : entries[k] \in DOMAIN cells
  BY <1>1, LenProperties, ElementOfSeq DEF Typed
<1>3. rear \in 1..Len(entries) /\ alias \in [DOMAIN entries -> DOMAIN entries]
  BY <1>1, <1>2 DEF Merged
<1>4. /\ front \in 2..rear
      /\ front = 2 \/ height[entries[front - 1]] # height[entries[rear]]
      /\ \A j \in front..rear : height[entries[j]] = height[entries[rear]]
  <2>1. rear \in Nat /\ rear > 1
    BY <1>1, <1>2, <1>3
  <2> QED BY <2>1, LevelFrontFound
<1>5. alias' = LevelAlias(front) /\ rear' = front - 1
  BY DEF MinimizeLevel
<1>6. ASSUME NEW k \in front..rear
      PROVE  /\ k \in DOMAIN entries /\ alias'[k] \in front..k
             /\ cells[entries[alias'[k]]] = cells[entries[k]]
             /\ \A i \in front..(alias'[k] - 1) : cells[entries[i]] # cells[entries[k]]
  <2> DEFINE Same(j) == cells[entries[j]] = cells[entries[k]]
             Least(j) == Same(j) /\ \A i \in front..(j - 1) : ~Same(i)
             S == {j \in front..k : Same(j)}
             c == CHOOSE j \in front..k : Least(j)
  <2>1. k \in DOMAIN entries /\ k \in Nat /\ front \in Nat
    BY <1>2, <1>3, <1>4
  <2>2. alias'[k] = c
    BY <1>5, <2>1 DEF LevelAlias, SameBlock
  <2>3. S \subseteq Nat /\ k \in S
    BY <2>1
  <2>4. PICK m \in S : \A j \in S : m <= j
    <3> HIDE DEF S
    <3> QED BY <2>3, LeastNatural
  <2>5. m \in front..k /\ Same(m)
    OBVIOUS
  <2>6. ASSUME NEW i \in front..(m - 1) PROVE ~Same(i)
    <3>1. i \in front..k /\ ~(m <= i)
      BY <2>1, <2>5
    <3> QED BY <2>4, <3>1
  <2>7. \E j \in front..k : Least(j)
    BY <2>5, <2>6
  <2>8. c \in front..k /\ Least(c)
    <3> HIDE DEF Least
    <3> QED BY <2>7
  <2> HIDE DEF c
  <2> QED BY <2>1, <2>2, <2>8
<1>7. \A k \in DOMAIN entries : k \notin front..rear => alias'[k] = alias[k]
  BY <1>5 DEF LevelAlias
<1>8. alias' \in [DOMAIN entries -> DOMAIN entries]
  <2>1. DOMAIN alias' = DOMAIN entries /\ alias' = [k \in DOMAIN entries |-> alias'[k]]
    BY <1>5 DEF LevelAlias
  <2>2. ASSUME NEW k \in DOMAIN entries PROVE alias'[k] \in DOMAIN entries
    <3>1. CASE k \in front..rear
      BY <1>2, <1>3, <1>4, <1>6, <3>1
    <3>2. CASE k \notin front..rear
      BY <1>3, <1>7, <3>2
    <3> QED BY <3>1, <3>2
  <2> QED BY <2>1, <2>2
<1>9. ASSUME NEW k \in DOMAIN entries, k >= front
      PROVE  height[entries[k]] < height[entries[front - 1]]
  <2>1. front - 1 \in DOMAIN entries /\ rear \in DOMAIN entries /\ front - 1 < rear
    BY <1>2, <1>3, <1>4
  <2>2. \A j \in DOMAIN entries : height[entries[j]] \in Nat
    BY <1>1, <1>2 DEF ByLevel, IsHeight
  <2>3. CASE front = 2
    <3>1. k > 1 /\ front - 1 = 1
      BY <1>2, <1>9, <2>3
    <3> QED BY <1>1, <3>1 DEF ByLevel
  <2>4. CASE front # 2
    <3>1. height[entries[front - 1]] >= height[entries[rear]]
      BY <1>1, <2>1 DEF ByLevel
    <3>2. height[entries[rear]] < height[entries[front - 1]]
      BY <1>4, <2>1, <2>2, <2>4, <3>1
    <3>3. CASE k <= rear
      BY <1>2, <1>3, <1>4, <1>9, <3>2, <3>3
    <3>4. CASE k > rear
      <4>1. height[entries[k]] < height[entries[rear]]
        BY <1>1, <3>4 DEF Merged
      <4> QED BY <2>1, <2>2, <3>2, <4>1
    <3> QED BY <1>2, <1>3, <3>3, <3>4
  <2> QED BY <2>3, <2>4
<1> QED BY <1>4, <1>5, <1>6, <1>7, <1>8, <1>9 DEF LevelMerged

\* The cells q with every pointer moved to the alias of the block it led to.
Redirected(q, r) ==
  /\ DOMAIN r = DOMAIN q
  /\ \A i \in DOMAIN q :
       /\ ~IsLink(q[i]) => r[i] = q[i]
       /\ IsLink(q[i]) =>
            /\ IsLink(r[i]) /\ r[i].t = q[i].t /\ r[i] \in Cell(DOMAIN cells)
            /\ \E j \in DOMAIN entries : entries[j] = q[i].p /\ r[i].p = entries[alias'[j]]

LEMMA LevelIsRedirected ==
  ASSUME IInv, MinimizeLevel, NEW front, front = LevelFront(rear)
  PROVE  /\ DOMAIN cells' = DOMAIN cells /\ cells' \in Seq(Seq(Cell(DOMAIN cells)))
         /\ \A b \in DOMAIN cells : b \notin ToSet(entries) => cells'[b] = cells[b]
         /\ \A k \in DOMAIN entries : k >= front => cells'[entries[k]] = cells[entries[k]]
         /\ \A k \in DOMAIN entries : k < front => Redirected(cells[entries[k]], cells'[entries[k]])
         /\ \A k \in DOMAIN entries : cells[entries[alias'[k]]] = cells[entries[k]]
<1> DEFINE D == DOMAIN cells
           C == Cell(D)
<1>1. Typed /\ ByLevel /\ Merged /\ LevelMerged(front)
  BY LevelIsMerged DEF IInv, MinimizeLevel
<1>2. /\ Len(entries) \in Nat /\ DOMAIN entries = 1..Len(entries)
      /\ \A k \in DOMAIN entries : entries[k] \in D
  BY <1>1, LenProperties, ElementOfSeq DEF Typed
<1>3. HeapTyped(cells)
  BY <1>1, HeapIsTyped DEF Typed
<1>4. cells' = [b \in D |-> IF \E j \in 1..(front - 1) : entries[j] = b
                            THEN Redirect(cells, alias', b) ELSE cells[b]]
  BY DEF MinimizeLevel
<1>5. front \in 2..rear /\ rear \in DOMAIN entries /\ alias' \in [DOMAIN entries -> DOMAIN entries]
  BY <1>1 DEF LevelMerged, Merged
<1>6. ASSUME NEW b \in D, b \notin ToSet(entries) PROVE cells'[b] = cells[b]
  <2>1. ~\E j \in 1..(front - 1) : entries[j] = b
    BY <1>2, <1>5, <1>6 DEF ToSet
  <2> QED BY <1>4, <2>1
<1>7. ASSUME NEW k \in DOMAIN entries, k >= front PROVE cells'[entries[k]] = cells[entries[k]]
  <2>1. ~\E j \in 1..(front - 1) : entries[j] = entries[k]
    <3> SUFFICES ASSUME NEW j \in 1..(front - 1), entries[j] = entries[k] PROVE FALSE
      OBVIOUS
    <3>1. j \in DOMAIN entries /\ j # k
      BY <1>2, <1>5, <1>7
    <3> QED BY <1>1, <3>1 DEF Typed
  <2> QED BY <1>2, <1>4, <2>1
<1>8. ASSUME NEW k \in DOMAIN entries, k < front
      PROVE  Redirected(cells[entries[k]], cells'[entries[k]])
  <2> DEFINE b == entries[k]
             q == cells[b]
             r == cells'[b]
  <2>1. b \in D /\ b \in ToSet(entries) /\ q \in Seq(C) /\ Targets(q) \subseteq ToSet(entries)
    <3>1. b \in D /\ b \in ToSet(entries)
      BY <1>2 DEF ToSet
    <3> QED BY <1>1, <1>3, <3>1 DEF ByLevel, HeapTyped
  <2>2. k \in 1..(front - 1)
    BY <1>2, <1>5, <1>8
  <2>3. r = [i \in DOMAIN q |-> IF IsLink(q[i])
                               THEN [q[i] EXCEPT !.p = entries[alias'[IndexOf(entries, q[i].p)]]]
                               ELSE q[i]]
    BY <1>4, <2>1, <2>2 DEF Redirect
  <2>4. ASSUME NEW i \in DOMAIN q, IsLink(q[i])
        PROVE  /\ IsLink(r[i]) /\ r[i].t = q[i].t /\ r[i] \in C
               /\ \E j \in DOMAIN entries : entries[j] = q[i].p /\ r[i].p = entries[alias'[j]]
    <3> DEFINE j == IndexOf(entries, q[i].p)
    <3>1. q[i].p \in ToSet(entries)
      BY <2>1, <2>4 DEF Targets
    <3>2. j \in DOMAIN entries /\ entries[j] = q[i].p
      BY <3>1, IndexIsPlace
    <3>3. r[i] = [q[i] EXCEPT !.p = entries[alias'[j]]]
      BY <2>3, <2>4
    <3> HIDE DEF j, q, r
    <3>4. q[i] \in C
      BY <2>1, LenProperties, ElementOfSeq
    <3>5. q[i] \in [t : PtrTypes, p : {Null} \union D]
      BY <2>4, <3>4 DEF Cell, IsLink, Integer, PtrTypes
    <3>6. entries[alias'[j]] \in D
      BY <1>2, <1>5, <3>2
    <3>7. r[i] \in [t : PtrTypes, p : {Null} \union D] /\ r[i].t = q[i].t /\ r[i].p = entries[alias'[j]]
      BY <3>3, <3>5, <3>6
    <3>8. IsLink(r[i])
      <4>1. r[i].p \in Nat
        BY <1>3, <3>6, <3>7 DEF HeapTyped
      <4> QED BY <3>7, <4>1, NullIsNoBlock DEF IsLink
    <3>9. r[i] \in C
      BY <3>7 DEF Cell
    <3> QED BY <3>2, <3>7, <3>8, <3>9
  <2>5. \A i \in DOMAIN q : ~IsLink(q[i]) => r[i] = q[i]
    BY <2>3
  <2>6. DOMAIN r = DOMAIN q
    BY <2>3
  <2> HIDE DEF q, r
  <2>7. Redirected(q, r)
    BY <2>4, <2>5, <2>6 DEF Redirected
  <2> QED BY <2>7 DEF q, r
<1>9. DOMAIN cells' = D
  BY <1>4
<1>10. ASSUME NEW b \in D PROVE cells'[b] \in Seq(C)
  <2>1. cells[b] \in Seq(C) /\ Len(cells[b]) \in Nat /\ DOMAIN cells[b] = 1..Len(cells[b])
        /\ \A i \in DOMAIN cells[b] : cells[b][i] \in C
    BY <1>3 DEF HeapTyped
  <2>2. CASE cells'[b] = cells[b]
    BY <2>1, <2>2
  <2>3. CASE Redirected(cells[b], cells'[b]) /\ \E k \in DOMAIN entries : entries[k] = b /\ k < front
    <3>1. \A i \in DOMAIN cells[b] : cells'[b][i] \in C
      BY <2>1, <2>3 DEF Redirected
    <3>2. cells'[b] = [i \in DOMAIN cells[b] |-> cells'[b][i]]
      <4> DEFINE q == cells[b]
      <4>1. PICK k \in DOMAIN entries : entries[k] = b /\ k < front
        BY <2>3
      <4>2. cells'[b] = Redirect(cells, alias', b)
        BY <1>2, <1>4, <1>5, <4>1
      <4> QED BY <4>2 DEF Redirect
    <3> HIDE DEF C
    <3>3. cells'[b] \in [1..Len(cells[b]) -> C]
      BY <2>1, <3>1, <3>2
    <3> QED BY <2>1, <3>3, SeqDef
  <2>4. b \in ToSet(entries) => \E k \in DOMAIN entries : entries[k] = b
    BY DEF ToSet
  <2> QED BY <1>2, <1>5, <1>6, <1>7, <1>8, <2>2, <2>3, <2>4
<1>11. cells' \in Seq(Seq(C))
  <2>1. Len(cells) \in Nat /\ D = 1..Len(cells)
    BY <1>3 DEF HeapTyped
  <2>2. cells' = [b \in D |-> cells'[b]]
    BY <1>4
  <2> HIDE DEF C
  <2>3. cells' \in [1..Len(cells) -> Seq(C)]
    BY <1>10, <2>1, <2>2
  <2> QED BY <2>1, <2>3, SeqDef
<1>12. ASSUME NEW k \in DOMAIN entries PROVE cells[entries[alias'[k]]] = cells[entries[k]]
  <2>1. CASE k \in front..rear
    BY <1>1, <2>1 DEF LevelMerged
  <2>2. CASE k \notin front..rear
    <3>1. alias'[k] = alias[k]
      BY <1>1, <2>2 DEF LevelMerged
    <3>2. k > rear \/ k <= rear
      BY <1>2, <1>5
    <3> QED BY <1>1, <3>1, <3>2 DEF Merged
  <2> QED BY <2>1, <2>2
<1> QED BY <1>6, <1>7, <1>8, <1>9, <1>11, <1>12

LEMMA RedirectedTargets ==
  ASSUME NEW q, NEW r, Redirected(q, r)
  PROVE  /\ \A p \in Targets(r) : \E j \in DOMAIN entries :
              entries[j] \in Targets(q) /\ p = entries[alias'[j]]
         /\ \A p \in Targets(q) : \E j \in DOMAIN entries :
              entries[j] = p /\ entries[alias'[j]] \in Targets(r)
<1>1. ASSUME NEW p \in Targets(r)
      PROVE  \E j \in DOMAIN entries : entries[j] \in Targets(q) /\ p = entries[alias'[j]]
  <2>1. PICK i \in DOMAIN r : IsLink(r[i]) /\ p = r[i].p
    BY DEF Targets
  <2>2. i \in DOMAIN q /\ IsLink(q[i])
    BY <2>1 DEF Redirected
  <2>3. q[i].p \in Targets(q)
    BY <2>2 DEF Targets
  <2> QED BY <2>1, <2>2, <2>3 DEF Redirected
<1>2. ASSUME NEW p \in Targets(q)
      PROVE  \E j \in DOMAIN entries : entries[j] = p /\ entries[alias'[j]] \in Targets(r)
  <2>1. PICK i \in DOMAIN q : IsLink(q[i]) /\ p = q[i].p
    BY DEF Targets
  <2>2. i \in DOMAIN r /\ IsLink(r[i])
    BY <2>1 DEF Redirected
  <2>3. r[i].p \in Targets(r)
    BY <2>2 DEF Targets
  <2> QED BY <2>1, <2>3 DEF Redirected
<1> QED BY <1>1, <1>2

(* Merging a level leaves every block as high as it was.                   *)
LEMMA LevelKeepsHeights ==
  ASSUME IInv, MinimizeLevel
  PROVE  IsHeight(height, cells')
<1> DEFINE front == LevelFront(rear)
<1> HIDE DEF front
<1>1. Typed /\ ByLevel
  BY DEF IInv, MinimizeLevel
<1>2. /\ DOMAIN cells' = DOMAIN cells
      /\ \A b \in DOMAIN cells : b \notin ToSet(entries) => cells'[b] = cells[b]
      /\ \A k \in DOMAIN entries : k >= front => cells'[entries[k]] = cells[entries[k]]
      /\ \A k \in DOMAIN entries : k < front => Redirected(cells[entries[k]], cells'[entries[k]])
      /\ \A k \in DOMAIN entries : cells[entries[alias'[k]]] = cells[entries[k]]
  BY LevelIsRedirected DEF front
<1>3. LevelMerged(front)
  BY LevelIsMerged DEF front
<1>4. Len(entries) \in Nat /\ DOMAIN entries = 1..Len(entries) /\ \A k \in DOMAIN entries : entries[k] \in DOMAIN cells
  BY <1>1, LenProperties, ElementOfSeq DEF Typed
<1>5. IsHeight(height, cells)
  BY <1>1 DEF ByLevel
<1>6. \A a, b \in DOMAIN cells : cells[a] = cells[b] => height[a] = height[b]
  BY <1>5 DEF IsHeight
<1>7. \A j \in DOMAIN entries : height[entries[alias'[j]]] = height[entries[j]]
  <2>1. \A j \in DOMAIN entries : alias'[j] \in DOMAIN entries
    BY <1>3 DEF LevelMerged
  <2> QED BY <1>2, <1>4, <1>6, <2>1
<1>8. ASSUME NEW b \in DOMAIN cells
      PROVE  HeightsBelow(height, cells'[b]) = HeightsBelow(height, cells[b])
  <2>1. CASE cells'[b] = cells[b]
    BY <2>1
  <2>2. CASE Redirected(cells[b], cells'[b])
    <3> DEFINE q == cells[b]
               r == cells'[b]
    <3>1. /\ \A p \in Targets(r) : \E j \in DOMAIN entries :
                entries[j] \in Targets(q) /\ p = entries[alias'[j]]
          /\ \A p \in Targets(q) : \E j \in DOMAIN entries :
                entries[j] = p /\ entries[alias'[j]] \in Targets(r)
      <4> HIDE DEF q, r
      <4>1. Redirected(q, r)
        BY <2>2 DEF q, r
      <4> QED BY <4>1, RedirectedTargets
    <3> HIDE DEF q, r
    <3>2. \A p \in Targets(r) : \E x \in Targets(q) : height[p] = height[x]
      BY <1>7, <3>1
    <3>3. \A x \in Targets(q) : \E p \in Targets(r) : height[p] = height[x]
      BY <1>7, <3>1
    <3>4. {height[p] + 1 : p \in Targets(r)} = {height[p] + 1 : p \in Targets(q)}
      BY <3>2, <3>3
    <3> QED BY <3>4 DEF HeightsBelow, q, r
  <2>3. b \in ToSet(entries) => \E k \in DOMAIN entries : entries[k] = b
    BY DEF ToSet
  <2>4. front \in Nat
    BY <1>3, <1>4 DEF LevelMerged
  <2> QED BY <1>2, <1>4, <2>1, <2>2, <2>3, <2>4
<1> QED BY <1>2, <1>5, <1>8 DEF IsHeight

LEMMA MinimizeLevelMerges ==
  ASSUME IInv, MinimizeLevel
  PROVE  Merged'
<1> DEFINE front == LevelFront(rear)
<1> HIDE DEF front
<1>1. Typed /\ ByLevel /\ Merged /\ entries' = entries /\ height' = height
  BY DEF IInv, MinimizeLevel
<1>2. /\ DOMAIN cells' = DOMAIN cells
      /\ \A k \in DOMAIN entries : k >= front => cells'[entries[k]] = cells[entries[k]]
      /\ \A k \in DOMAIN entries : k < front => Redirected(cells[entries[k]], cells'[entries[k]])
      /\ \A k \in DOMAIN entries : cells[entries[alias'[k]]] = cells[entries[k]]
  BY LevelIsRedirected DEF front
<1>3. LevelMerged(front)
  BY LevelIsMerged DEF front
<1>4. Len(entries) \in Nat /\ DOMAIN entries = 1..Len(entries) /\ \A k \in DOMAIN entries : entries[k] \in DOMAIN cells
  BY <1>1, LenProperties, ElementOfSeq DEF Typed
<1>5. /\ front \in 2..rear /\ rear' = front - 1 /\ rear \in 1..Len(entries)
      /\ alias' \in [DOMAIN entries -> DOMAIN entries]
      /\ alias \in [DOMAIN entries -> DOMAIN entries]
  BY <1>1, <1>3, <1>4 DEF LevelMerged, Merged
<1>6. \A k \in DOMAIN entries : k \notin front..rear => alias'[k] = alias[k]
  BY <1>3 DEF LevelMerged
<1>7. \A k \in front..rear :
        /\ k \in DOMAIN entries /\ alias'[k] \in front..k
        /\ \A i \in front..(alias'[k] - 1) : cells[entries[i]] # cells[entries[k]]
        /\ height[entries[k]] = height[entries[rear]]
  BY <1>3 DEF LevelMerged
<1>8. \A k \in DOMAIN entries : k < front => alias'[k] = k
  BY <1>1, <1>4, <1>5, <1>6 DEF Merged
<1>9. \A k \in DOMAIN entries : k > rear =>
        /\ alias'[k] = alias[k] /\ alias[k] > rear /\ alias[alias[k]] = alias[k]
        /\ height[entries[k]] < height[entries[rear]]
  BY <1>1, <1>4, <1>5, <1>6 DEF Merged
<1>10. \A a, b \in DOMAIN cells : cells[a] = cells[b] => height[a] = height[b]
  BY <1>1 DEF ByLevel, IsHeight
<1>11. \A k \in DOMAIN entries : height[entries[k]] \in Nat
  BY <1>1, <1>4 DEF ByLevel, IsHeight
<1>12. ASSUME NEW k \in DOMAIN entries, k >= front
       PROVE  alias'[k] >= front /\ alias'[alias'[k]] = alias'[k]
  <2>1. CASE k \in front..rear
    <3> DEFINE m == alias'[k]
    <3> HIDE DEF m
    <3>1. m \in front..k /\ m \in front..rear /\ m \in DOMAIN entries
      BY <1>4, <1>5, <1>7, <2>1 DEF m
    <3>2. alias'[m] \in front..m /\ alias'[m] \in DOMAIN entries
      BY <1>5, <1>7, <3>1
    <3>3. cells[entries[alias'[m]]] = cells[entries[k]]
      BY <1>2, <1>4, <3>1 DEF m
    <3>4. ~(alias'[m] \in front..(m - 1))
      BY <1>7, <2>1, <3>3 DEF m
    <3>5. alias'[m] = m
      BY <1>5, <3>1, <3>2, <3>4
    <3> QED BY <1>5, <3>1, <3>5 DEF m
  <2>2. CASE k > rear
    <3>1. alias[k] \in DOMAIN entries
      BY <1>5
    <3> QED BY <1>4, <1>5, <1>9, <2>2, <3>1
  <2> QED BY <1>4, <1>5, <1>12, <2>1, <2>2
<1>13. ASSUME NEW i \in DOMAIN entries, NEW j \in DOMAIN entries, i >= front, j >= front,
              cells[entries[i]] = cells[entries[j]]
       PROVE  alias'[i] = alias'[j]
  <2>1. height[entries[i]] = height[entries[j]]
    BY <1>4, <1>10, <1>13
  <2>2. CASE i \in front..rear /\ j \in front..rear
    <3>1. alias'[i] \in front..i /\ alias'[j] \in front..j
      BY <1>7, <2>2
    <3>2. cells[entries[alias'[i]]] = cells[entries[j]] /\ cells[entries[alias'[j]]] = cells[entries[i]]
      BY <1>2, <1>13
    <3>3. ~(alias'[i] \in front..(alias'[j] - 1)) /\ ~(alias'[j] \in front..(alias'[i] - 1))
      BY <1>7, <2>2, <3>2
    <3> QED BY <1>4, <1>5, <3>1, <3>3
  <2>3. CASE i > rear /\ j > rear
    BY <1>1, <1>9, <1>13, <2>3 DEF Merged
  <2>4. ~(i \in front..rear /\ j > rear) /\ ~(j \in front..rear /\ i > rear)
    BY <1>7, <1>9, <1>11, <2>1
  <2> QED BY <1>4, <1>5, <1>13, <2>2, <2>3, <2>4
<1>14. ASSUME NEW k \in DOMAIN entries, NEW j \in DOMAIN entries, j >= front,
              entries[j] \in Targets(cells'[entries[k]])
       PROVE  alias'[j] = j
  <2>1. CASE k < front
    <3>1. Redirected(cells[entries[k]], cells'[entries[k]])
      BY <1>2, <2>1
    <3>2. PICK i \in DOMAIN entries : entries[j] = entries[alias'[i]]
      BY <1>14, <3>1, RedirectedTargets
    <3>3. alias'[i] \in DOMAIN entries
      BY <1>5
    <3>4. j = alias'[i]
      BY <1>1, <3>2, <3>3 DEF Typed
    <3>5. i >= front \/ i < front
      BY <1>4, <1>5
    <3>6. CASE i >= front
      BY <1>12, <3>4, <3>6
    <3>7. CASE i < front
      BY <1>8, <3>4, <3>7
    <3> QED BY <3>5, <3>6, <3>7
  <2>2. CASE k >= front
    <3>1. entries[j] \in Targets(cells[entries[k]])
      BY <1>2, <1>14, <2>2
    <3>2. height[entries[j]] < height[entries[k]]
      <4>1. HeapTyped(cells)
        BY <1>1, HeapIsTyped DEF Typed
      <4>2. Ranked(cells, height)
        BY <1>1, <4>1, HeightsGoDown DEF ByLevel
      <4> QED BY <1>4, <3>1, <4>2 DEF Ranked
    <3>3. k \in front..rear \/ k > rear
      BY <1>4, <1>5, <2>2
    <3>4. height[entries[k]] <= height[entries[rear]]
      <4>1. rear \in DOMAIN entries
        BY <1>4, <1>5
      <4>2. height[entries[k]] = height[entries[rear]] \/ height[entries[k]] < height[entries[rear]]
        BY <1>7, <1>9, <3>3
      <4> QED BY <1>11, <4>1, <4>2
    <3>5. j \notin front..rear
      <4>1. rear \in DOMAIN entries
        BY <1>4, <1>5
      <4>2. height[entries[j]] # height[entries[rear]]
        BY <1>11, <3>2, <3>4, <4>1
      <4> QED BY <1>7, <4>2
    <3>6. j > rear
      BY <1>4, <1>5, <1>14, <3>5
    <3> QED BY <1>1, <1>9, <3>1, <3>6 DEF Merged
  <2> QED BY <1>4, <1>5, <2>1, <2>2
<1>15. rear' \in DOMAIN entries
  BY <1>4, <1>5
<1>16. \A k \in DOMAIN entries : k <= rear' => alias'[k] = k
  BY <1>4, <1>5, <1>8
<1>17. ASSUME NEW k \in DOMAIN entries, k > rear'
       PROVE  /\ alias'[k] > rear' /\ alias'[alias'[k]] = alias'[k]
              /\ cells'[entries[alias'[k]]] = cells'[entries[k]]
              /\ height[entries[k]] < height[entries[rear']]
  <2>1. k >= front /\ alias'[k] \in DOMAIN entries
    BY <1>4, <1>5, <1>17
  <2>2. alias'[k] >= front /\ alias'[alias'[k]] = alias'[k]
    BY <1>12, <2>1
  <2>3. alias'[k] > rear'
    BY <1>4, <1>5, <2>1, <2>2
  <2>4. cells'[entries[alias'[k]]] = cells'[entries[k]]
    BY <1>2, <2>1, <2>2
  <2>5. height[entries[k]] < height[entries[rear']]
    BY <1>3, <1>5, <2>1 DEF LevelMerged
  <2> QED BY <2>2, <2>3, <2>4, <2>5
<1>18. ASSUME NEW i \in DOMAIN entries, NEW j \in DOMAIN entries, i > rear', j > rear',
              cells'[entries[i]] = cells'[entries[j]]
       PROVE  alias'[i] = alias'[j]
  <2>1. i >= front /\ j >= front
    BY <1>4, <1>5, <1>18
  <2> QED BY <1>2, <1>13, <1>18, <2>1
<1>19. ASSUME NEW k \in DOMAIN entries, NEW j \in DOMAIN entries, j > rear',
              entries[j] \in Targets(cells'[entries[k]])
       PROVE  alias'[j] = j
  <2>1. j >= front
    BY <1>4, <1>5, <1>19
  <2> QED BY <1>14, <1>19, <2>1
<1> QED BY <1>1, <1>5, <1>15, <1>16, <1>17, <1>18, <1>19 DEF Merged

LEMMA MinimizeLevelKeepsInv ==
  ASSUME IInv, MinimizeLevel
  PROVE  IInv'
<1> DEFINE front == LevelFront(rear)
<1> HIDE DEF front
<1>1. Typed /\ ByLevel /\ Merged /\ NotCopied /\ pc = "minimize" /\ passes = 0
  BY DEF IInv, MinimizeLevel
<1>2. UNCHANGED <<pc, input, from, entries, height, black, passes, tangled>>
  BY DEF MinimizeLevel
<1>3. DOMAIN cells' = DOMAIN cells /\ cells' \in Seq(Seq(Cell(DOMAIN cells)))
  BY LevelIsRedirected DEF front
<1>4. IsHeap(cells')
  BY <1>1, <1>3 DEF Typed, IsHeap
<1>5. IsHeight(height, cells')
  BY LevelKeepsHeights
<1>6. Ranked(cells', height)
  BY <1>4, <1>5, HeapIsTyped, HeightsGoDown
<1>7. DOMAIN alias' \subseteq DOMAIN entries
  BY LevelIsMerged DEF front, LevelMerged
<1>8. Typed'
  <2>1. \E rk : Ranked(cells', rk)
    BY <1>6
  <2> QED BY <1>1, <1>2, <1>3, <1>4, <1>7, <2>1 DEF Typed
<1>9. \A b \in ToSet(entries) : Targets(cells'[b]) \subseteq ToSet(entries)
  <2> SUFFICES ASSUME NEW k \in DOMAIN entries
               PROVE  Targets(cells'[entries[k]]) \subseteq ToSet(entries)
    BY DEF ToSet
  <2>1. Len(entries) \in Nat /\ DOMAIN entries = 1..Len(entries)
    BY <1>1, LenProperties DEF Typed
  <2>2. LevelMerged(front)
    BY LevelIsMerged DEF front
  <2>3. entries[k] \in ToSet(entries)
    BY DEF ToSet
  <2>4. CASE k >= front
    <3>1. cells'[entries[k]] = cells[entries[k]]
      BY <2>4, LevelIsRedirected DEF front
    <3> QED BY <1>1, <2>3, <3>1 DEF ByLevel
  <2>5. CASE k < front
    <3>1. Redirected(cells[entries[k]], cells'[entries[k]])
      BY <2>5, LevelIsRedirected DEF front
    <3>2. \A p \in Targets(cells'[entries[k]]) : \E j \in DOMAIN entries : p = entries[alias'[j]]
      BY <3>1, RedirectedTargets
    <3> QED BY <2>2, <3>2 DEF LevelMerged, ToSet
  <2>6. front \in Nat /\ k \in Nat
    BY <1>1, <2>1, <2>2 DEF LevelMerged, Merged
  <2> QED BY <2>4, <2>5, <2>6
<1>10. ByLevel'
  BY <1>1, <1>2, <1>5, <1>9 DEF ByLevel
<1>11. NotCopied'
  BY <1>1, <1>2, <1>3 DEF NotCopied
<1>12. Merged'
  BY MinimizeLevelMerges
<1> QED BY <1>1, <1>2, <1>8, <1>10, <1>11, <1>12 DEF IInv

-----------------------------------------------------------------------------
(* try_untangle.                                                           *)

\* The cells q are a copy of the cells s: they lead to the blocks s leads to, or to
\* copies of them.
CopiedCells(q, s, fr) ==
  /\ DOMAIN q = DOMAIN s
  /\ \A i \in DOMAIN q :
       /\ Meaning!SameCell(q[i], s[i])
       /\ IsLink(q[i]) => fr[q[i].p] = s[i].p

\* What the accumulator of try_untangle holds: every block, with the one it is a copy
\* of, and every entry.
IsCopying(g) ==
  /\ IsHeap(g.cells) /\ Len(g.from) = Len(g.cells) /\ Len(cells) <= Len(g.cells)
  /\ \A b \in DOMAIN cells : g.from[b] = b
  /\ g.entries \in Seq(DOMAIN g.cells) /\ Len(entries) <= Len(g.entries)
  /\ \A i, j \in DOMAIN g.entries : g.entries[i] = g.entries[j] => i = j
  /\ \A b \in DOMAIN g.cells : CopiedCells(g.cells[b], cells[g.from[b]], g.from)

Copying ==
  {g \in [cells : Seq(Seq(Cell(Nat))), entries : Seq(Nat), from : Seq(DOMAIN cells)] :
     IsCopying(g)}

LEMMA MoreElements ==
  ASSUME NEW B, NEW A \in SUBSET B, NEW s \in Seq(A)
  PROVE  s \in Seq(B)
BY SeqDef

LEMMA MoreCells ==
  ASSUME NEW B, NEW D \in SUBSET B, NEW q \in Seq(Cell(D))
  PROVE  q \in Seq(Cell(B))
<1>1. Cell(D) \subseteq Cell(B)
  BY DEF Cell
<1> HIDE DEF Cell
<1> QED BY <1>1, SeqDef

LEMMA HeapIsSeq ==
  ASSUME NEW h, NEW n \in Nat, n >= Root, h = [b \in 1..n |-> h[b]],
         \A b \in 1..n : h[b] \in Seq(Cell(1..n))
  PROVE  IsHeap(h) /\ DOMAIN h = 1..n /\ Len(h) = n
<1> DEFINE C == Cell(1..n)
<1>1. DOMAIN h = 1..n
  OBVIOUS
<1> HIDE DEF C
<1>2. h \in [1..n -> Seq(C)]
  BY DEF C
<1>3. h \in Seq(Seq(C))
  BY <1>2, SeqDef
<1>4. Len(h) = n
  BY <1>1, <1>3, LenProperties
<1> QED BY <1>1, <1>3, <1>4 DEF C, IsHeap, Root

\* A link means the same in the promise and in the graph.
LEMMA SameLink == \A c : Meaning!IsLink(c) = IsLink(c)
  BY DEF Meaning!IsLink, IsLink, Meaning!PtrTypes, PtrTypes

\* A cell redirected to a copy.
LEMMA CopiedLink ==
  ASSUME NEW c, NEW s, NEW n \in Nat, Meaning!SameCell(c, s), c.t \in Ptr16, IsLink(c)
  PROVE  /\ IsLink([t |-> "sp16", p |-> n])
         /\ Meaning!SameCell([t |-> "sp16", p |-> n], s)
<1>1. IsLink([t |-> "sp16", p |-> n])
  BY NullIsNoBlock DEF IsLink, PtrTypes
<1>2. Meaning!Wide(c.t) = Meaning!Wide("sp16")
  BY DEF Meaning!Wide, Ptr16
<1>3. IsLink([t |-> "sp16", p |-> n]) = IsLink(s)
  BY <1>1, SameLink DEF Meaning!SameCell
<1>4. [t |-> "sp16", p |-> n].t = "sp16"
  OBVIOUS
<1> QED BY <1>1, <1>2, <1>3, <1>4, SameLink DEF Meaning!SameCell

\* What try_untabgle_block does at a pointer that does not fit: the pointer leads to
\* a new block N, with the cells of the one it led to.
Tangled(g, r, b, i) ==
  LET c == g.cells[b][i]
      N == Len(g.cells) + 1
  IN /\ N \in Nat /\ DOMAIN g.cells = 1..Len(g.cells)
     /\ i \in DOMAIN g.cells[b] /\ c.t \in Ptr16 /\ IsLink(c) /\ c.p \in DOMAIN g.cells
     /\ r.cells = [x \in 1..N |-> r.cells[x]]
     /\ r.cells[b] = [g.cells[b] EXCEPT ![i] = [t |-> "sp16", p |-> N]]
     /\ r.cells[N] = g.cells[c.p]
     /\ \A x \in 1..Len(g.cells) : x # b => r.cells[x] = g.cells[x]
     /\ r.entries = Append(g.entries, N) /\ r.from = Append(g.from, g.from[c.p])

LEMMA UntangleCellTangles ==
  ASSUME IsHeap(cells), NEW g \in Copying, NEW b \in DOMAIN cells, NEW i \in DOMAIN cells[b],
         NEW off, Unfit(g.cells[b][i], b, off)
  PROVE  Tangled(g, UntangleCell(g, b, i, off), b, i)
<1> DEFINE n == Len(g.cells)
           N == n + 1
           c == g.cells[b][i]
           link == [t |-> "sp16", p |-> N]
           row == [g.cells[b] EXCEPT ![i] = link]
           changed == [g.cells EXCEPT ![b][i] = link]
           h == Append(changed, CopyOf(g.cells[c.p]))
           r == [cells |-> h, entries |-> Append(g.entries, N), from |-> Append(g.from, g.from[c.p])]
<1>1. IsCopying(g) /\ g.cells \in Seq(Seq(Cell(Nat)))
  BY DEF Copying
<1>2. HeapTyped(g.cells) /\ HeapTyped(cells)
  BY <1>1, HeapIsTyped DEF IsCopying
<1>3. /\ n \in Nat /\ DOMAIN g.cells = 1..n /\ N \in Nat
      /\ DOMAIN cells = 1..Len(cells) /\ Len(cells) \in Nat /\ Len(cells) <= n
  BY <1>1, <1>2 DEF HeapTyped, IsCopying
<1>4. b \in 1..n /\ g.from[b] = b
  BY <1>1, <1>3 DEF IsCopying
<1>5. DOMAIN g.cells[b] = DOMAIN cells[b]
  BY <1>1, <1>3, <1>4 DEF IsCopying, CopiedCells
<1>6. c.t \in Ptr16 /\ IsLink(c)
  BY DEF Unfit, IsLink, Ptr16, PtrTypes
<1>7. c.p \in 1..n
  <2>1. c.p \in Targets(g.cells[b])
    BY <1>5, <1>6 DEF Targets
  <2> QED BY <1>2, <1>3, <1>4, <2>1 DEF HeapTyped
<1>8. /\ h = [x \in 1..N |-> h[x]]
      /\ h[b] = row /\ h[N] = g.cells[c.p]
      /\ \A x \in 1..n : x # b => h[x] = g.cells[x]
  <2>1. /\ DOMAIN changed = 1..n /\ changed[b] = row
        /\ \A x \in 1..n : x # b => changed[x] = g.cells[x]
    BY <1>3, <1>4
  <2>2. Len(changed) = n /\ changed \in Seq(Seq(Cell(Nat)) \union {row})
    <3>1. \A x \in 1..n : changed[x] \in Seq(Cell(Nat)) \union {row}
      <4>1. \A x \in 1..n : g.cells[x] \in Seq(Cell(Nat))
        BY <1>1, <1>3, ElementOfSeq
      <4> QED BY <2>1, <4>1
    <3> DEFINE T == Seq(Cell(Nat)) \union {row}
    <3>2. changed = [x \in 1..n |-> changed[x]]
      BY <1>3
    <3> HIDE DEF changed, row, T
    <3>3. changed \in [1..n -> T]
      BY <3>1, <3>2 DEF T
    <3>4. changed \in Seq(T)
      BY <1>3, <3>3, SeqDef
    <3> QED BY <1>3, <2>1, <3>4, LenProperties DEF T
  <2> HIDE DEF changed, row
  <2>3. /\ h = [x \in 1..N |-> h[x]] /\ h[N] = CopyOf(g.cells[c.p])
        /\ \A x \in 1..n : h[x] = changed[x]
    BY <1>3, <2>2
  <2> QED BY <1>3, <1>4, <2>1, <2>3 DEF CopyOf
<1>9. UntangleCell(g, b, i, off) = r
  BY DEF UntangleCell
<1> DEFINE es == Append(g.entries, N)
           fr == Append(g.from, g.from[c.p])
<1> HIDE DEF h, es, fr
<1>10. r.cells = h /\ r.entries = es /\ r.from = fr
  BY DEF es, fr
<1> HIDE DEF r
<1> QED BY <1>3, <1>5, <1>6, <1>7, <1>8, <1>9, <1>10 DEF Tangled, es, fr

LEMMA UntangleCellCopies ==
  ASSUME IsHeap(cells), NEW g \in Copying, NEW b \in DOMAIN cells, NEW i \in DOMAIN cells[b],
         NEW off
  PROVE  UntangleCell(g, b, i, off) \in Copying
<1> DEFINE n == Len(g.cells)
           N == n + 1
           c == g.cells[b][i]
           link == [t |-> "sp16", p |-> N]
           row == [g.cells[b] EXCEPT ![i] = link]
           h == Append([g.cells EXCEPT ![b][i] = link], CopyOf(g.cells[c.p]))
           es == Append(g.entries, N)
           fr == Append(g.from, g.from[c.p])
<1>1. IsCopying(g) /\ g.from \in Seq(DOMAIN cells) /\ g.cells \in Seq(Seq(Cell(Nat)))
  BY DEF Copying
<1>2. HeapTyped(g.cells) /\ HeapTyped(cells)
  BY <1>1, HeapIsTyped DEF IsCopying
<1>3. /\ n \in Nat /\ DOMAIN g.cells = 1..n /\ N \in Nat
      /\ DOMAIN g.from = 1..n /\ \A x \in 1..n : g.from[x] \in DOMAIN cells
      /\ DOMAIN cells = 1..Len(cells) /\ Len(cells) \in Nat /\ Len(cells) <= n
  <2>1. /\ n \in Nat /\ DOMAIN g.cells = 1..n
        /\ DOMAIN cells = 1..Len(cells) /\ Len(cells) \in Nat
    BY <1>2 DEF HeapTyped
  <2>2. Len(g.from) = n /\ Len(cells) <= n
    BY <1>1 DEF IsCopying
  <2>3. DOMAIN g.from = 1..n
    BY <1>1, <2>2, LenProperties
  <2> HIDE DEF n
  <2>4. \A x \in 1..n : g.from[x] \in DOMAIN cells
    BY <1>1, <2>2, ElementOfSeq
  <2> QED BY <2>1, <2>2, <2>3, <2>4
<1>4. b \in 1..n /\ g.from[b] = b
  BY <1>1, <1>3 DEF IsCopying
<1>5. DOMAIN g.cells[b] = DOMAIN cells[b]
  BY <1>1, <1>3, <1>4 DEF IsCopying, CopiedCells
<1>6. CASE ~Unfit(c, b, off)
  BY <1>6 DEF UntangleCell
<1>7. CASE Unfit(c, b, off)
  <2>1. UntangleCell(g, b, i, off) = [cells |-> h, entries |-> es, from |-> fr]
    BY <1>7 DEF UntangleCell
  <2>2. c.t \in Ptr16 /\ IsLink(c)
    BY <1>7 DEF Unfit, IsLink, Ptr16, PtrTypes
  <2>3. c.p \in 1..n
    <3>1. c.p \in Targets(g.cells[b])
      BY <1>5, <2>2 DEF Targets
    <3> QED BY <1>2, <1>3, <1>4, <3>1 DEF HeapTyped
  <2>4. Meaning!SameCell(c, cells[b][i]) /\ g.from[c.p] = cells[b][i].p
    <3>1. CopiedCells(g.cells[b], cells[b], g.from)
      <4>1. CopiedCells(g.cells[b], cells[g.from[b]], g.from)
        BY <1>1, <1>3, <1>4 DEF IsCopying
      <4> QED BY <4>1, <1>4
    <3>2. i \in DOMAIN g.cells[b]
      BY <1>5
    <3>3. \A x \in DOMAIN g.cells[b] :
            /\ Meaning!SameCell(g.cells[b][x], cells[b][x])
            /\ IsLink(g.cells[b][x]) => g.from[g.cells[b][x].p] = cells[b][x].p
      BY <3>1 DEF CopiedCells
    <3> HIDE DEF n, N, row, h, es, fr
    <3> QED BY <2>2, <3>2, <3>3
  <2>5. IsLink(link) /\ Meaning!SameCell(link, cells[b][i])
    <3> HIDE DEF c
    <3> QED BY <1>3, <2>2, <2>4, CopiedLink
  <2>6. /\ h = [x \in 1..N |-> h[x]]
        /\ h[b] = row /\ h[N] = g.cells[c.p]
        /\ \A x \in 1..n : x # b => h[x] = g.cells[x]
    <3>1. Tangled(g, UntangleCell(g, b, i, off), b, i)
      BY <1>7, UntangleCellTangles
    <3>2. UntangleCell(g, b, i, off).cells = h
      BY <2>1
    <3> HIDE DEF h
    <3> QED BY <3>1, <3>2 DEF Tangled
  <2> HIDE DEF h
  <2>7. \A x \in 1..n : g.cells[x] \in Seq(Cell(1..N))
    <3>1. \A x \in 1..n : g.cells[x] \in Seq(Cell(1..n))
      BY <1>2, <1>3 DEF HeapTyped
    <3>2. 1..n \in SUBSET (1..N)
      BY <1>3
    <3> QED BY <3>1, <3>2, MoreCells
  <2>8. row \in Seq(Cell(1..N))
    <3> DEFINE C == Cell(1..N)
               q == g.cells[b]
    <3>1. q \in Seq(C)
      BY <1>4, <2>7
    <3>2. link \in C
      <4>1. N \in 1..N
        BY <1>3
      <4> HIDE DEF N
      <4> QED BY <4>1 DEF Cell, PtrTypes
    <3> HIDE DEF C, link, q
    <3>3. Len(q) \in Nat /\ DOMAIN q = 1..Len(q) /\ q \in [1..Len(q) -> C]
      BY <3>1, LenProperties
    <3>4. [q EXCEPT ![i] = link] \in [1..Len(q) -> C]
      BY <3>2, <3>3
    <3>5. [q EXCEPT ![i] = link] \in Seq(C)
      BY <3>3, <3>4, SeqDef
    <3> QED BY <3>5 DEF q, C
  <2>9. \A x \in 1..N : h[x] \in Seq(Cell(1..N))
    <3> SUFFICES ASSUME NEW x \in 1..N PROVE h[x] \in Seq(Cell(1..N))
      OBVIOUS
    <3>1. CASE x = N
      BY <2>3, <2>6, <2>7, <3>1
    <3>2. CASE x = b
      BY <2>6, <2>8, <3>2
    <3>3. CASE x # N /\ x # b
      <4>1. x \in 1..n
        BY <1>3, <3>3
      <4> QED BY <2>6, <2>7, <3>3, <4>1
    <3> QED BY <3>1, <3>2, <3>3
  <2>10. IsHeap(h) /\ DOMAIN h = 1..N /\ Len(h) = N
    <3>1. N \in Nat /\ N >= Root
      BY <1>3 DEF Root
    <3> HIDE DEF N
    <3> QED BY <2>6, <2>9, <3>1, HeapIsSeq
  <2>11. /\ fr \in Seq(DOMAIN cells) /\ Len(fr) = N /\ fr[N] = g.from[c.p]
         /\ \A x \in 1..n : fr[x] = g.from[x]
    <3>1. g.from[c.p] \in DOMAIN cells /\ Len(g.from) = n
      BY <1>1, <1>3, <2>3 DEF IsCopying
    <3> DEFINE e == g.from[c.p]
    <3> HIDE DEF e, n
    <3>2. e \in DOMAIN cells
      BY <3>1 DEF e
    <3> DEFINE old == g.from
               D == DOMAIN cells
    <3>3. old \in Seq(D) /\ Len(old) = n /\ e \in D /\ n \in Nat
      BY <1>1, <1>3, <3>1, <3>2
    <3> HIDE DEF old, D
    <3>4. /\ Append(old, e) \in Seq(D) /\ Len(Append(old, e)) = n + 1
          /\ Append(old, e)[n + 1] = e
          /\ \A x \in 1..n : Append(old, e)[x] = old[x]
      BY <3>3
    <3> QED BY <3>4 DEF e, old, D
  <2> HIDE DEF fr
  <2>12. /\ es \in Seq(1..N) /\ Len(entries) <= Len(es)
         /\ \A k, j \in DOMAIN es : es[k] = es[j] => k = j
    <3> DEFINE old == g.entries
    <3>1. old \in Seq(1..n) /\ Len(entries) <= Len(old)
          /\ \A k, j \in DOMAIN old : old[k] = old[j] => k = j
      BY <1>1, <1>3 DEF IsCopying
    <3>2. Len(old) \in Nat /\ DOMAIN old = 1..Len(old) /\ \A k \in DOMAIN old : old[k] \in 1..n
      BY <3>1, LenProperties, ElementOfSeq
    <3> HIDE DEF old, n
    <3>3. old \in Seq(1..N) /\ N \in 1..N
      <4>1. 1..n \subseteq 1..N
        BY <1>3
      <4> QED BY <1>3, <3>1, <4>1, SeqDef
    <3> DEFINE e == Append(old, N)
    <3>4. /\ e \in Seq(1..N) /\ Len(e) = Len(old) + 1 /\ e[Len(old) + 1] = N
          /\ DOMAIN e = 1..(Len(old) + 1) /\ \A k \in 1..Len(old) : e[k] = old[k]
      BY <3>2, <3>3
    <3> HIDE DEF e
    <3>5. \A k, j \in DOMAIN e : e[k] = e[j] => k = j
      <4>1. \A k \in 1..Len(old) : e[k] # N
        BY <1>3, <3>2, <3>4
      <4>2. \A k \in DOMAIN e : k \in 1..Len(old) \/ k = Len(old) + 1
        BY <3>2, <3>4
      <4> QED BY <3>1, <3>2, <3>4, <4>1, <4>2
    <3>6. Len(entries) <= Len(e)
      <4>1. Len(entries) \in Nat \/ Len(entries) \notin Nat
        OBVIOUS
      <4> QED BY <3>1, <3>2, <3>4
    <3> QED BY <3>4, <3>5, <3>6 DEF e, old
  <2> HIDE DEF es
  <2>13. \A x \in DOMAIN cells : fr[x] = x
    <3>1. \A x \in DOMAIN cells : x \in 1..n
      BY <1>3
    <3> QED BY <1>1, <2>11, <3>1 DEF IsCopying
  <2>14. ASSUME NEW x \in 1..N PROVE CopiedCells(h[x], cells[fr[x]], fr)
    <3>1. \A y \in 1..n : CopiedCells(g.cells[y], cells[g.from[y]], g.from)
      BY <1>1, <1>3 DEF IsCopying
    <3>2. \A y \in 1..n : Targets(g.cells[y]) \subseteq 1..n
      BY <1>2, <1>3 DEF HeapTyped
    <3>3. ASSUME NEW y \in 1..n PROVE CopiedCells(g.cells[y], cells[fr[y]], fr)
      BY <2>11, <3>1, <3>2 DEF CopiedCells, Targets
    <3>4. CASE x = N
      <4>1. fr[x] = fr[c.p]
        BY <2>3, <2>11, <3>4
      <4> QED BY <2>3, <2>6, <3>3, <3>4, <4>1
    <3>5. CASE x = b
      <4>1. fr[b] = b /\ CopiedCells(g.cells[b], cells[b], fr)
        BY <1>4, <2>13, <3>3
      <4>2. DOMAIN row = DOMAIN cells[b] /\ row[i] = link
            /\ \A k \in DOMAIN row : k # i => row[k] = g.cells[b][k]
        BY <1>5
      <4>3. fr[link.p] = cells[b][i].p
        BY <2>4, <2>11
      <4> HIDE DEF row, link
      <4>4. CopiedCells(row, cells[b], fr)
        BY <1>5, <2>5, <4>1, <4>2, <4>3 DEF CopiedCells
      <4> QED BY <2>6, <3>5, <4>1, <4>4
    <3>6. CASE x # N /\ x # b
      <4>1. x \in 1..n
        BY <1>3, <3>6
      <4> QED BY <2>6, <3>3, <3>6, <4>1
    <3> QED BY <3>4, <3>5, <3>6
  <2> DEFINE u == [cells |-> h, entries |-> es, from |-> fr]
  <2>15. IsCopying(u)
    <3>1. Len(cells) <= N
      BY <1>3
    <3> HIDE DEF N
    <3> QED BY <2>10, <2>11, <2>12, <2>13, <2>14, <3>1 DEF IsCopying
  <2>16. h \in Seq(Seq(Cell(Nat))) /\ es \in Seq(Nat)
    <3>1. 1..N \in SUBSET Nat
      BY <1>3
    <3>2. \A x \in 1..N : h[x] \in Seq(Cell(Nat))
      BY <2>9, <3>1, MoreCells
    <3> DEFINE C == Seq(Cell(Nat))
    <3> HIDE DEF C, N
    <3>3. h \in [1..N -> C]
      BY <2>6, <3>2 DEF C
    <3>4. h \in Seq(C)
      BY <1>3, <3>3, SeqDef
    <3>5. es \in Seq(Nat)
      <4> DEFINE B == 1..N
      <4>1. es \in Seq(B) /\ B \subseteq Nat
        BY <2>12, <3>1
      <4> HIDE DEF B, es
      <4> QED BY <4>1, MoreElements
    <3> QED BY <3>4, <3>5 DEF C
  <2> QED BY <2>1, <2>11, <2>15, <2>16 DEF Copying
<1> QED BY <1>6, <1>7

LEMMA MaxIsIn ==
  ASSUME NEW n \in Nat, NEW s \in SUBSET (1..n), s # {}
  PROVE  Max(s) \in 1..n /\ s \ {Max(s)} \in SUBSET (1..n)
<1>1. IsFiniteSet(s)
  <2>1. IsFiniteSet(1..n)
    BY FS_Interval
  <2> QED BY <2>1, FS_Subset
<1>2. s \subseteq Nat
  OBVIOUS
<1>3. Max(s) \in s
  BY <1>1, <1>2, MaxOfFinite
<1> QED BY <1>3

\* What try_untangle begins with.
NothingCopied == [cells |-> cells, entries |-> entries, from |-> [b \in DOMAIN cells |-> b]]

LEMMA NothingCopiedCopies ==
  ASSUME Typed
  PROVE  NothingCopied \in Copying
<1>1. Len(entries) \in Nat
  BY LenProperties DEF Typed
<1>2. HeapTyped(cells) /\ IsHeap(cells)
  BY HeapIsTyped DEF Typed
<1>3. Len(cells) \in Nat /\ DOMAIN cells = 1..Len(cells)
  BY <1>2 DEF HeapTyped
<1> DEFINE fr == [b \in DOMAIN cells |-> b]
<1>4. fr \in Seq(DOMAIN cells) /\ Len(fr) = Len(cells)
  <2>1. fr \in [1..Len(cells) -> DOMAIN cells]
    BY <1>3
  <2>2. DOMAIN fr = 1..Len(cells)
    BY <1>3
  <2> HIDE DEF fr
  <2>3. fr \in Seq(DOMAIN cells)
    BY <1>3, <2>1, SeqDef
  <2> QED BY <1>3, <2>2, <2>3, LenProperties
<1>5. ASSUME NEW b \in DOMAIN cells PROVE CopiedCells(cells[b], cells[fr[b]], fr)
  <2>1. \A i \in DOMAIN cells[b] : IsLink(cells[b][i]) => cells[b][i].p \in DOMAIN cells
    BY <1>2 DEF HeapTyped, Targets
  <2>2. fr[b] = b /\ \A p \in DOMAIN cells : fr[p] = p
    OBVIOUS
  <2> HIDE DEF fr
  <2> QED BY <2>1, <2>2 DEF CopiedCells, Meaning!SameCell
<1>6. IsCopying(NothingCopied)
  <2>1. \A b \in DOMAIN cells : fr[b] = b
    OBVIOUS
  <2>2. Len(entries) <= Len(entries) /\ Len(cells) <= Len(cells)
    BY <1>1, <1>3
  <2> HIDE DEF fr
  <2>3. NothingCopied = [cells |-> cells, entries |-> entries, from |-> fr]
    BY DEF fr, NothingCopied
  <2> QED BY <1>2, <1>4, <1>5, <2>1, <2>2, <2>3 DEF IsCopying, Typed
<1>7. cells \in Seq(Seq(Cell(Nat)))
  <2> DEFINE C == Seq(Cell(Nat))
  <2>1. \A b \in DOMAIN cells : cells[b] \in C
    <3>1. DOMAIN cells \in SUBSET Nat
      BY <1>3
    <3> QED BY <1>2, <3>1, MoreCells DEF HeapTyped
  <2>2. cells = [b \in DOMAIN cells |-> cells[b]]
    <3>1. cells \in Seq(Seq(Cell(DOMAIN cells)))
      BY <1>2 DEF IsHeap
    <3> QED BY <1>3, <3>1, LenProperties
  <2> HIDE DEF C
  <2>3. cells \in [1..Len(cells) -> C]
    BY <1>3, <2>1, <2>2
  <2>4. cells \in Seq(C)
    BY <1>3, <2>3, SeqDef
  <2> QED BY <2>4 DEF C
<1>8. entries \in Seq(Nat)
  <2>1. DOMAIN cells \in SUBSET Nat
    BY <1>3
  <2> QED BY <2>1, MoreElements DEF Typed
<1> HIDE DEF fr
<1>9. NothingCopied = [cells |-> cells, entries |-> entries, from |-> fr]
  BY DEF fr, NothingCopied
<1> QED BY <1>4, <1>6, <1>7, <1>8, <1>9 DEF Copying

\* The states u that try_untabgle_block goes through.
BlockSteps(u, g, b, off) ==
  /\ u[0] = g /\ UntangleBlock(g, b, off) = u[Len(cells[b])]
  /\ \A i \in DOMAIN cells[b] : u[i] = UntangleCell(u[i - 1], b, i, off)

LEMMA BlockIsChain ==
  ASSUME IsHeap(cells), NEW g \in Copying, NEW b \in DOMAIN cells, b \in black, NEW off
  PROVE  \E u \in [0..Len(cells[b]) -> Copying] : BlockSteps(u, g, b, off)
<1> DEFINE n == Len(cells[b])
           seq == [i \in DOMAIN cells[b] |-> i]
           op(x, r) == UntangleCell(r, b, seq[x], off)
           step == [p \in (1..n) \X Copying |-> op(p[1], p[2])]
           Body(it) == [s \in SUBSET (1..n) |->
                          IF s = {} THEN g ELSE op(Max(s), it[s \ {Max(s)}])]
           iter == CHOOSE it : it = Body(it)
<1>1. n \in Nat /\ DOMAIN cells[b] = 1..n /\ DOMAIN seq = 1..n
  BY HeapIsTyped DEF HeapTyped
<1>2. \A x \in 1..n, r \in Copying : op(x, r) \in Copying
  <2>1. \A x \in 1..n : seq[x] \in DOMAIN cells[b]
    BY <1>1
  <2> HIDE DEF seq
  <2> QED BY <2>1, UntangleCellCopies
<1>3. UntangleBlock(g, b, off) = iter[1..n]
  <2> HIDE DEF n
  <2> QED BY <1>1 DEF UntangleBlock, FoldLeftDomain, FoldLeft, MapThenFoldSet
<1>4. n \in Nat
  BY <1>1
<1>5. \A x \in 1..n : \A r : op(x, r) = UntangleCell(r, b, x, off)
  BY <1>1
<1> HIDE DEF op, n
<1>6. step \in [(1..n) \X Copying -> Copying]
  BY <1>2
<1>7. \A x \in 1..n, r \in Copying : step[<<x, r>>] = op(x, r)
  OBVIOUS
<1> HIDE DEF step
<1>8. iter = Body(iter)
  <2>1. PICK it \in [SUBSET (1..n) -> Copying] : FoldsBack(it, n, g, step)
    BY <1>4, <1>6, FoldSolves
  <2>2. it = Body(it)
    <3>1. it = [s \in SUBSET (1..n) |-> it[s]]
      OBVIOUS
    <3>2. ASSUME NEW s \in SUBSET (1..n)
          PROVE  it[s] = IF s = {} THEN g ELSE op(Max(s), it[s \ {Max(s)}])
      <4>1. s # {} => Max(s) \in 1..n /\ s \ {Max(s)} \in SUBSET (1..n)
        BY <1>4, MaxIsIn
      <4> QED BY <1>7, <2>1, <4>1 DEF FoldsBack
    <3> QED BY <3>1, <3>2
  <2> QED BY <2>2
<1>9. /\ iter[{}] = g
      /\ \A s \in SUBSET (1..n) :
           s # {} /\ Max(s) \in 1..n /\ iter[s \ {Max(s)}] \in Copying =>
             iter[s] = step[<<Max(s), iter[s \ {Max(s)}]>>]
  BY <1>7, <1>8
<1> HIDE DEF iter
<1>10. EndsAt(n, Copying, g, step, iter[1..n])
  BY <1>4, <1>6, <1>9, FoldClimbs
<1>11. PICK u \in [0..n -> Copying] :
         u[0] = g /\ iter[1..n] = u[n] /\ \A k \in 1..n : u[k] = step[<<k, u[k - 1]>>]
  BY <1>10 DEF EndsAt
<1>12. \A k \in 1..n : u[k] = UntangleCell(u[k - 1], b, k, off)
  <2> SUFFICES ASSUME NEW k \in 1..n PROVE u[k] = UntangleCell(u[k - 1], b, k, off)
    OBVIOUS
  <2>1. u[k - 1] \in Copying
    BY <1>4
  <2> QED BY <1>5, <1>7, <1>11, <2>1
<1>13. BlockSteps(u, g, b, off)
  BY <1>1, <1>3, <1>11, <1>12 DEF BlockSteps, n
<1>14. n = Len(cells[b])
  BY DEF n
<1> QED BY <1>13, <1>14

(* Whatever the offsets were, try_untabgle_block makes copies and moves    *)
(* pointers to them; what a cell keeps is kept.                            *)
LEMMA UntangleBlockStays ==
  ASSUME IsHeap(cells), NEW b \in DOMAIN cells, NEW off, NEW K \in SUBSET Copying,
         b \in black => \A g \in K : \A i \in DOMAIN cells[b] : UntangleCell(g, b, i, off) \in K,
         NEW g \in K
  PROVE  UntangleBlock(g, b, off) \in K
<1>1. CASE b \notin black
  BY <1>1 DEF UntangleBlock
<1>2. CASE b \in black
  <2> DEFINE n == Len(cells[b])
  <2>1. n \in Nat /\ DOMAIN cells[b] = 1..n
    BY HeapIsTyped DEF HeapTyped
  <2>2. PICK u \in [0..n -> Copying] : BlockSteps(u, g, b, off)
    BY <1>2, BlockIsChain
  <2>3. u[0] \in K /\ \A k \in 1..n : u[k - 1] \in K => u[k] \in K
    BY <1>2, <2>1, <2>2 DEF BlockSteps
  <2>4. UntangleBlock(g, b, off) = u[n]
    BY <2>2 DEF BlockSteps
  <2> HIDE DEF n
  <2>5. u[n] \in K
    BY <2>1, <2>3, ChainStays
  <2> QED BY <2>4, <2>5
<1> QED BY <1>1, <1>2

LEMMA UntangleBlockCopies ==
  ASSUME IsHeap(cells), NEW g \in Copying, NEW b \in DOMAIN cells, NEW off
  PROVE  UntangleBlock(g, b, off) \in Copying
<1>1. \A r \in Copying : \A i \in DOMAIN cells[b] : UntangleCell(r, b, i, off) \in Copying
  BY UntangleCellCopies
<1> QED BY <1>1, UntangleBlockStays

\* The states that try_untangle goes through.
PassSteps(u, off) ==
  /\ u[0] = NothingCopied /\ Untangled(off) = u[Len(entries)]
  /\ \A k \in DOMAIN entries : u[k] = UntangleBlock(u[k - 1], entries[k], off)

LEMMA PassIsChain ==
  ASSUME Typed, NEW off
  PROVE  \E u \in [0..Len(entries) -> Copying] : PassSteps(u, off)
<1> DEFINE n == Len(entries)
           base == NothingCopied
           op(x, r) == UntangleBlock(r, entries[x], off)
           step == [p \in (1..n) \X Copying |-> op(p[1], p[2])]
           Body(it) == [s \in SUBSET (1..n) |->
                          IF s = {} THEN base ELSE op(Max(s), it[s \ {Max(s)}])]
           iter == CHOOSE it : it = Body(it)
<1>1. n \in Nat /\ DOMAIN entries = 1..n /\ \A i \in 1..n : entries[i] \in DOMAIN cells
  BY LenProperties, ElementOfSeq DEF Typed
<1>2. base \in Copying
  BY NothingCopiedCopies
<1>3. \A x \in 1..n, r \in Copying : op(x, r) \in Copying
  BY <1>1, UntangleBlockCopies DEF Typed
<1>4. Untangled(off) = iter[1..n]
  <2> HIDE DEF n
  <2> QED BY <1>1 DEF Untangled, FoldLeft, MapThenFoldSet, NothingCopied
<1>5. n \in Nat /\ \A x, r : op(x, r) = UntangleBlock(r, entries[x], off)
  BY <1>1
<1> HIDE DEF op, n, base
<1>6. step \in [(1..n) \X Copying -> Copying]
  BY <1>3
<1>7. \A x \in 1..n, r \in Copying : step[<<x, r>>] = op(x, r)
  OBVIOUS
<1> HIDE DEF step
<1>8. iter = Body(iter)
  <2>1. PICK it \in [SUBSET (1..n) -> Copying] : FoldsBack(it, n, base, step)
    BY <1>2, <1>5, <1>6, FoldSolves
  <2>2. it = Body(it)
    <3>1. it = [s \in SUBSET (1..n) |-> it[s]]
      OBVIOUS
    <3>2. ASSUME NEW s \in SUBSET (1..n)
          PROVE  it[s] = IF s = {} THEN base ELSE op(Max(s), it[s \ {Max(s)}])
      <4>1. s # {} => Max(s) \in 1..n /\ s \ {Max(s)} \in SUBSET (1..n)
        BY <1>5, MaxIsIn
      <4> QED BY <1>7, <2>1, <4>1 DEF FoldsBack
    <3> QED BY <3>1, <3>2
  <2> QED BY <2>2
<1>9. /\ iter[{}] = base
      /\ \A s \in SUBSET (1..n) :
           s # {} /\ Max(s) \in 1..n /\ iter[s \ {Max(s)}] \in Copying =>
             iter[s] = step[<<Max(s), iter[s \ {Max(s)}]>>]
  BY <1>7, <1>8
<1> HIDE DEF iter
<1>10. EndsAt(n, Copying, base, step, iter[1..n])
  BY <1>2, <1>5, <1>6, <1>9, FoldClimbs
<1>11. PICK u \in [0..n -> Copying] :
         u[0] = base /\ iter[1..n] = u[n] /\ \A k \in 1..n : u[k] = step[<<k, u[k - 1]>>]
  BY <1>10 DEF EndsAt
<1>12. \A k \in 1..n : u[k] = UntangleBlock(u[k - 1], entries[k], off)
  <2> SUFFICES ASSUME NEW k \in 1..n PROVE u[k] = UntangleBlock(u[k - 1], entries[k], off)
    OBVIOUS
  <2>1. u[k - 1] \in Copying
    BY <1>5
  <2> QED BY <1>5, <1>7, <1>11, <2>1
<1>13. PassSteps(u, off)
  BY <1>1, <1>4, <1>11, <1>12 DEF PassSteps, n, base
<1>14. n = Len(entries)
  BY DEF n
<1> QED BY <1>13, <1>14

(* What every cell of a block that is laid out keeps, try_untangle keeps.  *)
LEMMA UntangledStays ==
  ASSUME Typed, NEW off, NEW K \in SUBSET Copying, NothingCopied \in K,
         \A b \in ToSet(entries) \intersect black : \A g \in K :
           \A i \in DOMAIN cells[b] : UntangleCell(g, b, i, off) \in K
  PROVE  Untangled(off) \in K
<1> DEFINE n == Len(entries)
<1>1. n \in Nat /\ DOMAIN entries = 1..n /\ \A i \in 1..n : entries[i] \in DOMAIN cells
  BY LenProperties, ElementOfSeq DEF Typed
<1>2. PICK u \in [0..n -> Copying] : PassSteps(u, off)
  BY PassIsChain
<1>3. ASSUME NEW k \in 1..n, u[k - 1] \in K PROVE u[k] \in K
  <2>1. entries[k] \in ToSet(entries) /\ entries[k] \in DOMAIN cells
    BY <1>1 DEF ToSet
  <2>2. UntangleBlock(u[k - 1], entries[k], off) \in K
    BY <1>3, <2>1, UntangleBlockStays DEF Typed
  <2> QED BY <1>1, <1>2, <2>2 DEF PassSteps
<1>4. u[0] \in K /\ Untangled(off) = u[n]
  BY <1>2 DEF PassSteps
<1> HIDE DEF n
<1>5. u[n] \in K
  BY <1>1, <1>3, <1>4, ChainStays
<1> QED BY <1>4, <1>5

LEMMA UntangledCopies ==
  ASSUME Typed, pc # "new", NEW off
  PROVE  Untangled(off) \in Copying
<1>1. ToSet(entries) \subseteq DOMAIN cells
  BY ElementsAreFinite DEF Typed
<1>2. \A b \in DOMAIN cells : \A g \in Copying : \A i \in DOMAIN cells[b] :
        UntangleCell(g, b, i, off) \in Copying
  BY UntangleCellCopies DEF Typed
<1> QED BY <1>1, <1>2, NothingCopiedCopies, UntangledStays

\* What try_untangle leaves behind.
LEMMA TryUntangleCopies ==
  ASSUME IInv, TryUntangle
  PROVE  /\ IsHeap(cells') /\ HeapTyped(cells') /\ DOMAIN cells \subseteq DOMAIN cells'
         /\ from' \in [DOMAIN cells' -> DOMAIN cells]
         /\ \A b \in DOMAIN cells : from'[b] = b
         /\ \A b \in DOMAIN cells' : CopiedCells(cells'[b], cells[from'[b]], from')
         /\ entries' \in Seq(DOMAIN cells') /\ DOMAIN entries \subseteq DOMAIN entries'
         /\ \A i, j \in DOMAIN entries' : entries'[i] = entries'[j] => i = j
<1>1. Typed /\ pc # "new"
  BY DEF IInv, TryUntangle
<1> DEFINE g == Untangled(Offsets(cells, entries, black))
<1>2. g \in Copying
  BY <1>1, UntangledCopies
<1>3. cells' = g.cells /\ entries' = g.entries /\ from' = g.from
  BY DEF TryUntangle
<1> HIDE DEF g
<1>4. IsCopying(g) /\ g.from \in Seq(DOMAIN cells)
  BY <1>2 DEF Copying
<1>5. HeapTyped(cells') /\ HeapTyped(cells)
  BY <1>1, <1>3, <1>4, HeapIsTyped DEF IsCopying, Typed
<1>6. DOMAIN cells \subseteq DOMAIN cells'
  BY <1>3, <1>4, <1>5 DEF IsCopying, HeapTyped
<1>7. from' \in [DOMAIN cells' -> DOMAIN cells]
  <2>1. from' \in Seq(DOMAIN cells) /\ Len(from') = Len(cells')
    BY <1>3, <1>4 DEF IsCopying
  <2>2. DOMAIN cells' = 1..Len(cells')
    <3>1. cells' \in Seq(Seq(Cell(DOMAIN cells')))
      BY <1>3, <1>4 DEF IsCopying, IsHeap
    <3> QED BY <3>1, LenProperties
  <2>3. from' \in [1..Len(from') -> DOMAIN cells]
    BY <2>1, LenProperties
  <2> QED BY <2>1, <2>2, <2>3
<1>8. DOMAIN entries \subseteq DOMAIN entries'
  <2>1. entries \in Seq(DOMAIN cells) /\ entries' \in Seq(DOMAIN cells')
    BY <1>1, <1>3, <1>4 DEF IsCopying, Typed
  <2>2. Len(entries) <= Len(entries')
    BY <1>3, <1>4 DEF IsCopying
  <2>3. /\ Len(entries) \in Nat /\ DOMAIN entries = 1..Len(entries)
        /\ Len(entries') \in Nat /\ DOMAIN entries' = 1..Len(entries')
    BY <2>1, LenProperties
  <2> QED BY <2>2, <2>3
<1> QED BY <1>3, <1>4, <1>5, <1>6, <1>7, <1>8 DEF IsCopying

LEMMA TryUntangleKeepsInv ==
  ASSUME IInv, TryUntangle
  PROVE  IInv'
<1>1. Typed /\ pc = "untangle"
  BY DEF IInv, TryUntangle
<1>2. /\ IsHeap(cells') /\ HeapTyped(cells') /\ DOMAIN cells \subseteq DOMAIN cells'
      /\ from' \in [DOMAIN cells' -> DOMAIN cells]
      /\ \A b \in DOMAIN cells' : CopiedCells(cells'[b], cells[from'[b]], from')
      /\ entries' \in Seq(DOMAIN cells') /\ DOMAIN entries \subseteq DOMAIN entries'
      /\ \A i, j \in DOMAIN entries' : entries'[i] = entries'[j] => i = j
  BY TryUntangleCopies
<1>3. PICK rk : Ranked(cells, rk)
  BY <1>1 DEF Typed
<1> DEFINE up == [b \in DOMAIN cells' |-> rk[from'[b]]]
<1>4. Ranked(cells', up)
  <2>1. up \in [DOMAIN cells' -> Nat]
    BY <1>2, <1>3 DEF Ranked
  <2>2. ASSUME NEW b \in DOMAIN cells', NEW p \in Targets(cells'[b]) PROVE up[p] < up[b]
    <3>1. PICK i \in DOMAIN cells'[b] : IsLink(cells'[b][i]) /\ p = cells'[b][i].p
      BY DEF Targets
    <3>2. /\ i \in DOMAIN cells[from'[b]] /\ from'[p] = cells[from'[b]][i].p
          /\ IsLink(cells[from'[b]][i])
      BY <1>2, <3>1, SameLink DEF CopiedCells, Meaning!SameCell
    <3>3. from'[p] \in Targets(cells[from'[b]])
      BY <3>2 DEF Targets
    <3>4. from'[b] \in DOMAIN cells /\ p \in DOMAIN cells'
      BY <1>2 DEF HeapTyped
    <3> QED BY <1>3, <3>3, <3>4 DEF Ranked
  <2> QED BY <2>1, <2>2 DEF Ranked
<1>5. \E r : Ranked(cells', r)
  BY <1>4
<1>6. Len(entries') > 0
  <2>1. Len(entries) > 0 /\ entries \in Seq(DOMAIN cells)
    BY <1>1 DEF Typed
  <2>2. 1 \in DOMAIN entries
    BY <2>1, LenProperties
  <2>3. 1 \in DOMAIN entries' /\ Len(entries') \in Nat /\ DOMAIN entries' = 1..Len(entries')
    BY <1>2, <2>2, LenProperties
  <2> QED BY <2>3
<1>7. passes \in Nat /\ passes < MaxPasses /\ passes' = passes + 1
  BY <1>1 DEF Typed, TryUntangle
<1>8. passes' \in 0..MaxPasses /\ passes' # 0
  BY <1>7, BkConstants
<1>9. tangled' \in BOOLEAN
  BY DEF TryUntangle
<1>10. pc' \in {"attract", "build"} /\ UNCHANGED <<input, black, alias>>
  BY DEF TryUntangle
<1>11. Typed'
  BY <1>1, <1>2, <1>5, <1>6, <1>8, <1>9, <1>10 DEF Typed
<1> QED BY <1>8, <1>10, <1>11 DEF IInv

-----------------------------------------------------------------------------
(* The invariant, and what follows from it.                                *)

LEMMA StepKeepsInv ==
  ASSUME IInv, [Next]_vars
  PROVE  IInv'
<1>1. CASE NewGraph
  BY <1>1, NewGraphKeepsInv
<1>2. CASE MinimizeLevel
  BY <1>2, MinimizeLevelKeepsInv
<1>3. CASE MinimizeDone
  BY <1>3, MinimizeDoneKeepsInv
<1>4. CASE Attract
  BY <1>4, AttractKeepsInv
<1>5. CASE TryUntangle
  BY <1>5, TryUntangleKeepsInv
<1>6. CASE Build
  <2>1. pc = "build" /\ pc' = "done"
    BY <1>6 DEF Build
  <2>2. UNCHANGED <<input, cells, from, entries, height, black, alias, rear, passes, tangled>>
    BY <1>6 DEF Build
  <2>3. Typed'
    BY <2>1, <2>2 DEF IInv, Typed
  <2> QED BY <2>1, <2>3 DEF IInv
<1>7. CASE UNCHANGED vars
  <2>1. UNCHANGED <<pc, input, cells, from, entries, height, black, alias, rear, passes, tangled>>
    BY <1>7 DEF vars
  <2>2. Typed'
    BY <2>1 DEF IInv, Typed
  <2>3. NotCopied' = NotCopied /\ ByLevel' = ByLevel /\ Merged' = Merged
    BY <2>1 DEF NotCopied, ByLevel, Merged
  <2> QED BY <2>1, <2>2, <2>3 DEF IInv
<1> QED BY <1>1, <1>2, <1>3, <1>4, <1>5, <1>6, <1>7 DEF Next, Done

(* The invariant holds of every step of the pipeline.                      *)
THEOREM Invariant == Spec => []IInv
<1>1. Init => IInv
  BY InitKeepsInv
<1>2. IInv /\ [Next]_vars => IInv'
  BY StepKeepsInv
<1> QED BY <1>1, <1>2, PTL DEF Spec

(* At every step the graph is closed: bk_graph_free, the sorts and the     *)
(* layout find every block a cell points to, every entry and every alias   *)
(* where they look for it, and bk_untangleGraph stops at its limit.        *)
THEOREM TypeCorrect == Spec => []GraphTypeOK
<1>1. IInv => GraphTypeOK
  <2> SUFFICES ASSUME IInv PROVE GraphTypeOK
    OBVIOUS
  <2>1. Typed
    BY DEF IInv
  <2>2. ToSet(entries) \subseteq DOMAIN cells
    BY <2>1, ElementsAreFinite DEF Typed
  <2> QED BY <2>1, <2>2 DEF Typed, GraphTypeOK
<1> QED BY <1>1, Invariant, PTL

(* Once every level is merged, no two different blocks that the root       *)
(* reaches have the same cells: a table that can be shared is shared.      *)
THEOREM MinimizeIsComplete == Spec => []MinimalAfterMinimize
<1>1. IInv => MinimalAfterMinimize
  <2> SUFFICES ASSUME IInv, pc = "attract", passes = 0, rear = 1,
                      NEW a \in Attracted(cells, Root).seen, NEW b \in Attracted(cells, Root).seen,
                      cells[a] = cells[b]
               PROVE  a = b
    BY DEF MinimalAfterMinimize
  <2> DEFINE K == {Root} \union {entries[k] : k \in {j \in DOMAIN entries : j > 1 /\ alias[j] = j}}
  <2>1. Typed /\ ByLevel /\ Merged
    BY DEF IInv
  <2>2. HeapTyped(cells)
    BY <2>1, HeapIsTyped DEF Typed
  <2>3. /\ DOMAIN entries = 1..Len(entries) /\ Len(entries) \in Nat
        /\ \A k \in DOMAIN entries : entries[k] \in DOMAIN cells
    BY <2>1, LenProperties, ElementOfSeq DEF Typed
  <2>4. K \in SUBSET DOMAIN cells /\ Root \in K
    BY <2>2, <2>3 DEF HeapTyped
  <2>5. \A x \in K : \E k \in DOMAIN entries : x = entries[k]
    <3>1. 1 \in DOMAIN entries /\ entries[1] = Root
      BY <2>1 DEF ByLevel, Merged
    <3> QED BY <3>1
  <2>6. ASSUME NEW x \in K, NEW p \in Targets(cells[x]) PROVE p \in K
    <3>1. PICK k \in DOMAIN entries : x = entries[k]
      BY <2>5
    <3>2. x \in ToSet(entries)
      BY <3>1 DEF ToSet
    <3>3. p \in ToSet(entries)
      BY <2>1, <3>2 DEF ByLevel
    <3>4. PICK j \in DOMAIN entries : p = entries[j]
      BY <3>3 DEF ToSet
    <3>5. CASE j = 1
      BY <2>1, <3>4, <3>5 DEF ByLevel
    <3>6. CASE j # 1
      <4>1. j > 1
        BY <2>3, <3>6
      <4>2. alias[j] = j
        BY <2>1, <3>1, <3>4, <4>1 DEF Merged
      <4> QED BY <3>4, <4>1, <4>2
    <3> QED BY <3>5, <3>6
  <2>7. Attracted(cells, Root).seen \subseteq K
    <3>1. PICK rk : Ranked(cells, rk)
      BY <2>1 DEF Typed
    <3>2. \A x \in K : Targets(cells[x]) \subseteq K
      BY <2>6
    <3>3. Root \in DOMAIN cells
      BY <2>4
    <3> HIDE DEF K
    <3> QED BY <2>2, <2>4, <3>1, <3>2, <3>3, AttractedSees
  <2>8. \A x, y \in DOMAIN cells : cells[x] = cells[y] => height[x] = height[y]
    BY <2>1 DEF ByLevel, IsHeight
  <2>9. \A k \in DOMAIN entries : k > 1 => cells[entries[k]] # cells[Root]
    <3>1. \A k \in DOMAIN entries : height[entries[k]] \in Nat /\ height[Root] \in Nat
      BY <2>1, <2>2, <2>3 DEF ByLevel, IsHeight, HeapTyped
    <3>2. Root \in DOMAIN cells
      BY <2>4
    <3>3. \A k \in DOMAIN entries : k > 1 => height[entries[k]] # height[Root]
      BY <2>1, <3>1 DEF ByLevel
    <3> QED BY <2>3, <2>8, <3>2, <3>3
  <2>10. a \in K /\ b \in K
    BY <2>7
  <2>11. ASSUME NEW k \in DOMAIN entries, NEW j \in DOMAIN entries, k > 1, j > 1,
                alias[k] = k, alias[j] = j, cells[entries[k]] = cells[entries[j]]
         PROVE  k = j
    BY <2>1, <2>11 DEF Merged
  <2> QED BY <2>9, <2>10, <2>11
<1> QED BY <1>1, Invariant, PTL

-----------------------------------------------------------------------------
(* What BlockMeaning promises: rewriting a block graph keeps its meaning,  *)
(* for every heap, every number of passes and every choice of merged and   *)
(* copied blocks.                                                          *)

\* The root stays a block and every matched pair is a pair of blocks.
Paired ==
  /\ Meaning!Root \in DOMAIN cells
  /\ matches \subseteq (DOMAIN cells) \X (DOMAIN input)

MeaningInv == Paired /\ Meaning!MeaningPreserved

\* Cells that are alike compose: what a copy is alike to is alike to the input.
LEMMA AlikeComposes ==
  ASSUME NEW s, NEW t, NEW u, NEW R, NEW T, NEW RT,
         Meaning!Alike(s, t, R), Meaning!Alike(t, u, T),
         \A p, q, r : <<p, q>> \in R /\ <<q, r>> \in T => <<p, r>> \in RT
  PROVE  Meaning!Alike(s, u, RT)
<1> SUFFICES ASSUME NEW i \in DOMAIN s
             PROVE  /\ Meaning!SameCell(s[i], u[i])
                    /\ Meaning!IsLink(s[i]) => <<s[i].p, u[i].p>> \in RT
  BY DEF Meaning!Alike
<1>1. Meaning!SameCell(s[i], t[i]) /\ Meaning!SameCell(t[i], u[i])
  BY DEF Meaning!Alike
<1>2. Meaning!SameCell(s[i], u[i])
  BY <1>1 DEF Meaning!SameCell
<1>3. Meaning!IsLink(s[i]) => <<s[i].p, t[i].p>> \in R /\ <<t[i].p, u[i].p>> \in T
  BY <1>1 DEF Meaning!Alike, Meaning!SameCell
<1> QED
  BY <1>2, <1>3

\* The links of a heap lead to its blocks.
LEMMA HeapIsClosed ==
  ASSUME NEW h, Meaning!IsHeap(h), NEW b \in DOMAIN h, NEW i \in DOMAIN h[b], Meaning!IsLink(h[b][i])
  PROVE  h[b][i].p \in DOMAIN h
<1> DEFINE C == Meaning!Cell(DOMAIN h)
<1>1. h \in Seq(Seq(C))
  BY DEF Meaning!IsHeap
<1> HIDE DEF C
<1>2. h[b] \in Seq(C)
  BY <1>1, LenProperties, ElementOfSeq
<1>3. h[b][i] \in C
  BY <1>2, LenProperties, ElementOfSeq
<1> QED
  BY <1>3 DEF C, Meaning!Cell, Meaning!IsLink, Meaning!Integer, Meaning!PtrTypes

LEMMA AlikeReflexive ==
  ASSUME NEW s, NEW R, \A i \in DOMAIN s : Meaning!IsLink(s[i]) => <<s[i].p, s[i].p>> \in R
  PROVE  Meaning!Alike(s, s, R)
BY DEF Meaning!Alike, Meaning!SameCell

LEMMA InComposition ==
  ASSUME NEW R, NEW T, NEW a, NEW b, NEW c, <<a, b>> \in R, <<b, c>> \in T
  PROVE  <<a, c>> \in Meaning!Compose(R, T)
<1> DEFINE p == <<<<a, b>>, <<b, c>>>>
<1>1. p \in {q \in R \X T : q[1][2] = q[2][1]}
  OBVIOUS
<1> QED
  BY <1>1 DEF Meaning!Compose

(* The induction step: through a rewriting step every pair of the composed *)
(* relation is still alike.                                                *)
LEMMA RewriteKeepsMeaning ==
  ASSUME MeaningInv, Meaning!Rewrite
  PROVE  MeaningInv'
<1>1. Paired'
  <2>1. Meaning!Root \in DOMAIN cells'
    BY DEF Meaning!Rewrite
  <2>2. matches' \subseteq (DOMAIN cells') \X (DOMAIN input)
    BY DEF Meaning!Rewrite, Meaning!Compose, Meaning!StandsFor, MeaningInv, Paired
  <2> QED
    BY <2>1, <2>2 DEF Meaning!Rewrite, Paired
<1>2. <<Meaning!Root, Meaning!Root>> \in matches'
  <2>1. <<Meaning!Root, Meaning!Root>> \in Meaning!StandsFor
    BY DEF Meaning!Rewrite, Meaning!StandsFor, MeaningInv, Paired
  <2> QED
    BY <2>1, InComposition DEF Meaning!Rewrite, MeaningInv, Meaning!MeaningPreserved
<1>3. ASSUME NEW m \in matches'
      PROVE  Meaning!Alike(cells'[m[1]], input[m[2]], matches')
  <2>1. PICK q \in Meaning!StandsFor \X matches :
          q[1][2] = q[2][1] /\ m = <<q[1][1], q[2][2]>>
    BY DEF Meaning!Rewrite, Meaning!Compose
  <2> DEFINE b == q[1][1]
             p == q[2][1]
  <2>2. /\ b \in DOMAIN cells' /\ m[1] = b /\ m[2] = q[2][2]
        /\ cells[from'[b]] = cells[p]
    BY <2>1 DEF Meaning!StandsFor
  <2>3. Meaning!Alike(cells'[b], cells[p], Meaning!StandsFor)
    BY <2>2 DEF Meaning!Rewrite
  <2>4. Meaning!Alike(cells[p], input[m[2]], matches)
    BY <2>1, <2>2 DEF MeaningInv, Meaning!MeaningPreserved
  <2>5. \A x, y, z : <<x, y>> \in Meaning!StandsFor /\ <<y, z>> \in matches => <<x, z>> \in matches'
    BY InComposition DEF Meaning!Rewrite
  <2> QED
    BY <2>2, <2>3, <2>4, <2>5, AlikeComposes
<1> QED
  BY <1>1, <1>2, <1>3 DEF MeaningInv, Meaning!MeaningPreserved, Meaning!Rewrite

LEMMA MeaningAtInit ==
  ASSUME Meaning!Init
  PROVE  MeaningInv
<1>1. Meaning!IsHeap(input)
  BY HeapsAreClosed DEF Meaning!Init, Meaning!IsHeap, IsHeap, Meaning!IsLink, IsLink, Meaning!PtrTypes, PtrTypes,
    Meaning!Cell, Cell, Meaning!Integer, Integer, Meaning!Root, Root
<1>2. Paired
  BY <1>1 DEF Meaning!Init, Meaning!Identity, Paired, Meaning!IsHeap
<1>3. <<Meaning!Root, Meaning!Root>> \in matches
  BY <1>1 DEF Meaning!Init, Meaning!Identity, Meaning!IsHeap
<1>4. ASSUME NEW m \in matches
      PROVE  Meaning!Alike(cells[m[1]], input[m[2]], matches)
  <2>1. m[1] = m[2] /\ m[1] \in DOMAIN input
    BY DEF Meaning!Init, Meaning!Identity
  <2>2. \A i \in DOMAIN input[m[1]] : Meaning!IsLink(input[m[1]][i]) =>
          <<input[m[1]][i].p, input[m[1]][i].p>> \in matches
    <3>1. \A i \in DOMAIN input[m[1]] : Meaning!IsLink(input[m[1]][i]) => input[m[1]][i].p \in DOMAIN input
      BY <1>1, <2>1, HeapIsClosed
    <3> QED
      BY <3>1 DEF Meaning!Init, Meaning!Identity
  <2> QED
    BY <2>1, <2>2, AlikeReflexive DEF Meaning!Init
<1> QED
  BY <1>2, <1>3, <1>4 DEF MeaningInv, Meaning!MeaningPreserved

(* Merging equal blocks and copying blocks, in any order and any number of *)
(* times, never changes what the graph stands for: the serializer of       *)
(* lib/bk/bkgraph.c, whose passes are such steps, cannot alter a table.    *)
THEOREM MeaningIsPreserved == Meaning!Spec => []Meaning!MeaningPreserved
<1>1. Meaning!Init => MeaningInv
  BY MeaningAtInit
<1>2. MeaningInv /\ [Meaning!Rewrite]_(Meaning!vars) => MeaningInv'
  <2>1. CASE Meaning!Rewrite
    BY <2>1, RewriteKeepsMeaning
  <2>2. CASE UNCHANGED Meaning!vars
    BY <2>2 DEF Meaning!vars, MeaningInv, Paired, Meaning!MeaningPreserved
  <2> QED
    BY <2>1, <2>2
<1>3. MeaningInv => Meaning!MeaningPreserved
  BY DEF MeaningInv
<1> QED
  BY <1>1, <1>2, <1>3, PTL DEF Meaning!Spec

-----------------------------------------------------------------------------
(* The pipeline implements BlockMeaning.                                   *)

LEMMA MinimizeLevelRewrites ==
  ASSUME IInv, MinimizeLevel
  PROVE  Meaning!Rewrite
<1> DEFINE front == LevelFront(rear)
<1> HIDE DEF front
<1>1. Typed /\ NotCopied
  BY DEF IInv, MinimizeLevel
<1>2. from' = from /\ UNCHANGED input /\ matches' = Meaning!Compose(Meaning!StandsFor, matches)
  BY DEF MinimizeLevel
<1>3. HeapTyped(cells)
  BY <1>1, HeapIsTyped DEF Typed
<1>4. /\ DOMAIN cells' = DOMAIN cells
      /\ \A b \in DOMAIN cells : b \notin ToSet(entries) => cells'[b] = cells[b]
      /\ \A k \in DOMAIN entries : k >= front => cells'[entries[k]] = cells[entries[k]]
      /\ \A k \in DOMAIN entries : k < front => Redirected(cells[entries[k]], cells'[entries[k]])
      /\ \A k \in DOMAIN entries : cells[entries[alias'[k]]] = cells[entries[k]]
  BY LevelIsRedirected DEF front
<1>5. /\ \A k \in DOMAIN entries : k \in Nat /\ entries[k] \in DOMAIN cells
      /\ front \in Nat /\ alias' \in [DOMAIN entries -> DOMAIN entries]
  <2>1. LevelMerged(front)
    BY LevelIsMerged DEF front
  <2>2. Len(entries) \in Nat /\ DOMAIN entries = 1..Len(entries)
    BY <1>1, LenProperties DEF Typed
  <2>3. \A k \in DOMAIN entries : entries[k] \in DOMAIN cells
    BY <1>1, ElementOfSeq, <2>2 DEF Typed
  <2>4. alias' \in [DOMAIN entries -> DOMAIN entries] /\ front \in 2..rear
    BY <2>1 DEF LevelMerged
  <2> QED BY <2>2, <2>3, <2>4
<1>6. \A b \in DOMAIN cells : from'[b] = b
  BY <1>1, <1>2 DEF NotCopied
<1>7. \A x, y \in DOMAIN cells : cells[x] = cells[y] => <<x, y>> \in Meaning!StandsFor
  BY <1>4, <1>6 DEF Meaning!StandsFor
<1>8. ASSUME NEW b \in DOMAIN cells PROVE Meaning!Alike(cells'[b], cells[b], Meaning!StandsFor)
  <2>1. CASE cells'[b] = cells[b]
    <3>1. \A i \in DOMAIN cells[b] : IsLink(cells[b][i]) => cells[b][i].p \in DOMAIN cells
      BY <1>3 DEF HeapTyped, Targets
    <3> QED BY <1>7, <2>1, <3>1, SameLink DEF Meaning!Alike, Meaning!SameCell
  <2>2. CASE Redirected(cells[b], cells'[b])
    <3> SUFFICES ASSUME NEW i \in DOMAIN cells[b]
                 PROVE  /\ Meaning!SameCell(cells'[b][i], cells[b][i])
                        /\ IsLink(cells'[b][i]) =>
                             <<cells'[b][i].p, cells[b][i].p>> \in Meaning!StandsFor
      BY <2>2, SameLink DEF Meaning!Alike, Redirected
    <3>1. CASE ~IsLink(cells[b][i])
      <4>1. cells'[b][i] = cells[b][i]
        BY <2>2, <3>1 DEF Redirected
      <4> QED BY <3>1, <4>1 DEF Meaning!SameCell
    <3>2. CASE IsLink(cells[b][i])
      <4>1. IsLink(cells'[b][i]) /\ cells'[b][i].t = cells[b][i].t
        BY <2>2, <3>2 DEF Redirected
      <4>2. PICK j \in DOMAIN entries : entries[j] = cells[b][i].p /\ cells'[b][i].p = entries[alias'[j]]
        BY <2>2, <3>2 DEF Redirected
      <4>3. <<entries[alias'[j]], entries[j]>> \in Meaning!StandsFor
        BY <1>4, <1>5, <1>7
      <4>4. Meaning!SameCell(cells'[b][i], cells[b][i])
        <5>1. IsLink(cells'[b][i]) = IsLink(cells[b][i])
          BY <3>2, <4>1 DEF IsLink
        <5> QED BY <3>2, <4>1, <5>1, SameLink DEF Meaning!SameCell
      <4> QED BY <4>2, <4>3, <4>4
    <3> QED BY <3>1, <3>2
  <2>3. b \in ToSet(entries) => \E k \in DOMAIN entries : entries[k] = b
    BY DEF ToSet
  <2> QED BY <1>4, <1>5, <2>1, <2>2, <2>3
<1>9. from' \in [DOMAIN cells' -> DOMAIN cells]
  BY <1>1, <1>2, <1>4 DEF NotCopied
<1>10. Root \in DOMAIN cells
  BY <1>3 DEF HeapTyped
<1> QED BY <1>2, <1>4, <1>6, <1>8, <1>9, <1>10 DEF Meaning!Rewrite, Meaning!Root, Root

LEMMA TryUntangleRewrites ==
  ASSUME IInv, TryUntangle
  PROVE  Meaning!Rewrite
<1>1. /\ HeapTyped(cells') /\ DOMAIN cells \subseteq DOMAIN cells'
      /\ from' \in [DOMAIN cells' -> DOMAIN cells]
      /\ \A b \in DOMAIN cells : from'[b] = b
      /\ \A b \in DOMAIN cells' : CopiedCells(cells'[b], cells[from'[b]], from')
  BY TryUntangleCopies
<1>2. UNCHANGED input /\ matches' = Meaning!Compose(Meaning!StandsFor, matches)
  BY DEF TryUntangle
<1>3. \A x \in DOMAIN cells' : <<x, from'[x]>> \in Meaning!StandsFor
  BY <1>1 DEF Meaning!StandsFor
<1>4. ASSUME NEW b \in DOMAIN cells'
      PROVE  Meaning!Alike(cells'[b], cells[from'[b]], Meaning!StandsFor)
  <2>1. \A i \in DOMAIN cells'[b] : IsLink(cells'[b][i]) => cells'[b][i].p \in DOMAIN cells'
    BY <1>1 DEF HeapTyped, Targets
  <2>2. CopiedCells(cells'[b], cells[from'[b]], from')
    BY <1>1
  <2> QED BY <1>3, <2>1, <2>2, SameLink DEF CopiedCells, Meaning!Alike
<1>5. Root \in DOMAIN cells
  BY HeapIsTyped DEF IInv, Typed, HeapTyped
<1> QED BY <1>1, <1>2, <1>4, <1>5 DEF Meaning!Rewrite, Meaning!Root, Root

(* Merging equal blocks and copying those a 16-bit pointer cannot reach    *)
(* are steps that BlockMeaning allows; the rest of the pipeline leaves the *)
(* cells alone.                                                            *)
THEOREM PipelineKeepsMeaning == Spec => MeaningKept
<1>1. Init => Meaning!Init
  BY DEF Init, Meaning!Init
<1>2. ASSUME IInv, [Next]_vars PROVE [Meaning!Rewrite]_(Meaning!vars)
  <2>1. CASE MinimizeLevel
    BY <2>1, <1>2, MinimizeLevelRewrites
  <2>2. CASE TryUntangle
    BY <2>2, <1>2, TryUntangleRewrites
  <2>3. CASE NewGraph \/ MinimizeDone \/ Attract \/ Build \/ UNCHANGED vars
    BY <2>3 DEF NewGraph, MinimizeDone, Attract, Build, vars, Meaning!vars
  <2> QED BY <1>2, <2>1, <2>2, <2>3 DEF Next, Done
<1> QED BY <1>1, <1>2, Invariant, PTL DEF Spec, MeaningKept, Meaning!Spec

(* So the graph means what the tree handed over meant: the pairs of        *)
(* `matches', the root with the root of the tree among them, have the same *)
(* cells, pointer for pointer down to the leaves.                          *)
THEOREM GraphMeansTree == Spec => []Meaning!MeaningPreserved
<1>1. Spec => Meaning!Spec
  BY PipelineKeepsMeaning DEF MeaningKept
<1> QED BY <1>1, MeaningIsPreserved

-----------------------------------------------------------------------------
(* dfs_attract_cells: the blocks it sees are all that the root reaches, and *)
(* the root comes first in their order.                                     *)

\* A part of the search that begins with the blocks s seen and ends with r has seen
\* the blocks T, and all that its own ones lead to.
Grown(h, s, r, T) ==
  s \union T \subseteq r /\ \A x \in r \ s : Targets(h[x]) \subseteq r

LEMMA GrownComposes ==
  ASSUME NEW h, NEW s, NEW r, NEW u, NEW T, NEW U, Grown(h, s, r, T), Grown(h, r, u, U)
  PROVE  Grown(h, s, u, T \union U)
BY DEF Grown

LEMMA LoopGrows ==
  ASSUME NEW h, NEW C, NEW q \in Seq(C), NEW St, NEW visit, NEW s0 \in St,
         \A p \in Targets(q) : visit[p] \in [St -> St],
         \A p \in Targets(q) : \A s \in St : Grown(h, s.seen, visit[p][s].seen, {p})
  PROVE  Grown(h, s0.seen, ForEachLink(visit, PtrTypes, s0, q).seen, Targets(q))
<1> DEFINE n == Len(q)
           T(j) == {q[i].p : i \in {k \in 1..j : IsLink(q[k])}}
<1>1. n \in Nat /\ DOMAIN q = 1..n
  BY LenProperties
<1>2. PICK g \in [0..n -> St] : IsLoop(g, visit, PtrTypes, s0, q)
  BY LoopIsChain
<1> DEFINE Good == {j \in 0..n : Grown(h, s0.seen, g[j].seen, T(j))}
<1>3. 0 \in Good
  <2>1. T(0) = {}
    OBVIOUS
  <2>2. g[0] = s0 /\ 0 \in 0..n
    BY <1>1, <1>2 DEF IsLoop
  <2> HIDE DEF T, n
  <2> QED BY <2>1, <2>2 DEF Grown
<1>4. ASSUME NEW j \in 0..(n - 1), j \in Good PROVE j + 1 \in Good
  <2>1. j + 1 \in 1..n /\ (j + 1) - 1 = j /\ j \in 0..n /\ j + 1 \in 0..n
    BY <1>1
  <2>2. Grown(h, s0.seen, g[j].seen, T(j)) /\ g[j] \in St
    BY <1>4, <2>1
  <2>3. CASE IsLink(q[j + 1])
    <3>1. q[j + 1].t \in PtrTypes /\ q[j + 1].p \in Targets(q)
      BY <1>1, <2>1, <2>3 DEF IsLink, Targets
    <3>2. g[j + 1] = visit[q[j + 1].p][g[j]]
      BY <1>2, <2>1, <2>3, <3>1 DEF IsLoop
    <3>3. Grown(h, g[j].seen, g[j + 1].seen, {q[j + 1].p})
      BY <2>2, <3>1, <3>2
    <3>4. T(j + 1) = T(j) \union {q[j + 1].p}
      BY <2>1, <2>3
    <3> HIDE DEF T, n
    <3> QED BY <2>1, <2>2, <3>3, <3>4, GrownComposes
  <2>4. CASE ~IsLink(q[j + 1])
    <3>1. g[j + 1] = g[j]
      BY <1>2, <2>1, <2>4 DEF IsLoop
    <3>2. {k \in 1..(j + 1) : IsLink(q[k])} = {k \in 1..j : IsLink(q[k])}
      BY <2>1, <2>4
    <3>3. T(j + 1) = T(j)
      BY <3>2
    <3> QED BY <2>1, <2>2, <3>1, <3>3
  <2> QED BY <2>3, <2>4
<1>5. ForEachLink(visit, PtrTypes, s0, q) = g[n]
  BY <1>2 DEF IsLoop
<1>6. \A j \in 0..(n - 1) : j \in Good => j + 1 \in Good
  BY <1>4
<1>7. T(n) = Targets(q)
  BY <1>1 DEF Targets
<1> HIDE DEF Good, T, n
<1>8. 0..n \subseteq Good
  BY <1>1, <1>3, <1>6, InductionUpTo
<1>9. n \in Good
  BY <1>1, <1>8
<1>10. Grown(h, s0.seen, g[n].seen, T(n))
  BY <1>9 DEF Good
<1> QED BY <1>5, <1>7, <1>10

LEMMA AttractedCloses ==
  ASSUME NEW h, HeapTyped(h), NEW rk, Ranked(h, rk), NEW root \in DOMAIN h,
         NEW live, live = Attracted(h, root).seen
  PROVE  root \in live /\ \A b \in live : Targets(h[b]) \subseteq live
<1> DEFINE D == DOMAIN h
           Se == Search(D)
<1>1. PICK att \in [D -> [Nat -> [Se -> Se]]] :
        IsAttraction(att, h) /\ \A b : Attracted(h, b) = att[b][0][Unseen(h)]
  <2>1. IsAttracted(h)
    BY AttractionExists
  <2> QED BY <2>1 DEF IsAttracted
<1>2. \A b \in D : /\ Reverse(h[b]) \in Seq(Cell(D)) /\ Targets(h[b]) \subseteq D
                   /\ Targets(Reverse(h[b])) = Targets(h[b])
                   /\ \A p \in Targets(h[b]) : rk[p] < rk[b]
  BY ReversedCells DEF HeapTyped, Ranked
<1> DEFINE Good == {b \in D : \A d \in Nat : \A s \in Se : Grown(h, s.seen, att[b][d][s].seen, {b})}
<1>3. ASSUME NEW b \in D, NEW d \in Nat, NEW st \in Se, \A p \in Targets(h[b]) : p \in Good
      PROVE  Grown(h, st.seen, att[b][d][st].seen, {b})
  <2> DEFINE v == [p \in D |-> att[p][d + 1]]
             s0 == [st EXCEPT !.seen = @ \union {b}]
             q == Reverse(h[b])
             e == ForEachLink(v, PtrTypes, s0, q)
             w == Numbered(e, b)
  <2>1. ASSUME NEW p \in Targets(q)
        PROVE  v[p] \in [Se -> Se] /\ \A s \in Se : Grown(h, s.seen, v[p][s].seen, {p})
    <3>1. p \in D /\ d + 1 \in Nat
      BY <1>2
    <3>2. \A c \in Nat : \A s \in Se : Grown(h, s.seen, att[p][c][s].seen, {p})
      BY <1>2, <1>3
    <3>3. v[p] = att[p][d + 1] /\ att[p] \in [Nat -> [Se -> Se]]
      BY <1>1, <3>1
    <3> HIDE DEF v, q, Se
    <3> QED BY <3>1, <3>2, <3>3
  <2>2. s0 \in Se /\ s0.seen = st.seen \union {b}
    BY MarkedIsTyped
  <2>3. att[b][d][st] =
          IF b \in st.seen THEN IF st.depth[b] < d THEN Deepened(st, b, d) ELSE st
          ELSE Escalated(h, w, b, d)
    BY <1>1 DEF IsAttraction, Below
  <2>4. CASE b \in st.seen
    <3>1. att[b][d][st].seen = st.seen
      BY <2>3, <2>4, DeepenedIsTyped
    <3> QED BY <2>4, <3>1 DEF Grown
  <2>5. CASE b \notin st.seen
    <3>1. Grown(h, s0.seen, e.seen, Targets(h[b])) /\ e \in Se
      <4>1. q \in Seq(Cell(D)) /\ Targets(q) = Targets(h[b])
        BY <1>2
      <4> HIDE DEF v, s0, q, Se
      <4>2. Grown(h, s0.seen, ForEachLink(v, PtrTypes, s0, q).seen, Targets(q))
        BY <2>1, <2>2, <4>1, LoopGrows
      <4>3. ForEachLink(v, PtrTypes, s0, q) \in Se
        BY <2>1, <2>2, <4>1, LoopIsTyped
      <4> QED BY <4>1, <4>2, <4>3
    <3> HIDE DEF e
    <3>2. w \in Se /\ w.seen = e.seen
      BY <3>1, NumberedIsTyped
    <3> HIDE DEF w
    <3>3. Escalated(h, w, b, d).seen = w.seen
      BY <3>2, EscalatedIsTyped
    <3>4. att[b][d][st].seen = e.seen
      BY <2>3, <2>5, <3>2, <3>3
    <3> HIDE DEF s0
    <3> QED BY <2>2, <3>1, <3>4 DEF Grown
  <2> QED BY <2>4, <2>5
<1>4. \A b \in D : (\A p \in D : rk[p] < rk[b] => p \in Good) => b \in Good
  <2> SUFFICES ASSUME NEW b \in D, \A p \in D : rk[p] < rk[b] => p \in Good
               PROVE  \A d \in Nat : \A s \in Se : Grown(h, s.seen, att[b][d][s].seen, {b})
    OBVIOUS
  <2>1. \A p \in Targets(h[b]) : p \in Good
    BY <1>2
  <2> QED BY <1>3, <2>1
<1>5. rk \in [D -> Nat]
  BY DEF Ranked
<1>6. D \subseteq Good
  <2> HIDE DEF Good, D
  <2> QED BY <1>4, <1>5, InductionOnRank
<1>7. Grown(h, Unseen(h).seen, att[root][0][Unseen(h)].seen, {root})
  BY <1>6, UnseenIsTyped
<1>8. live = att[root][0][Unseen(h)].seen /\ Unseen(h).seen = {}
  BY <1>1, UnseenIsTyped
<1> QED BY <1>7, <1>8 DEF Grown

\* Every visit has a number, and none is above the count.
Counted(B) == {st \in Search(B) : \A x \in B : st.order[x] <= st.n}

(* The visit of b is the last: it has the greatest number of all.          *)
LEMMA VisitIsCounted ==
  ASSUME NEW B, NEW st \in Counted(B), NEW b \in B, NEW d \in Nat,
         NEW r, r = Deepened(Numbered(st, b), b, d)
  PROVE  /\ r \in Counted(B) /\ r.depth[b] = d
         /\ \A x \in B : x # b => r.order[x] < r.order[b]
<1>1. /\ st.order \in [B -> Nat] /\ st.depth \in [B -> Nat] /\ st.n \in Nat
      /\ \A x \in B : st.order[x] <= st.n
  BY DEF Counted, Search
<1>2. Numbered(st, b) \in Search(B)
  BY NumberedIsTyped DEF Counted
<1>3. r \in Search(B)
  BY <1>2, DeepenedIsTyped
<1>4. /\ r.n = st.n + 1 /\ r.order = [st.order EXCEPT ![b] = st.n + 1]
      /\ r.depth = [st.depth EXCEPT ![b] = d]
  BY DEF Deepened, Numbered, Counted, Search
<1> QED BY <1>1, <1>3, <1>4 DEF Counted

LEMMA RootIsFirst ==
  ASSUME NEW h, HeapTyped(h), NEW rk, Ranked(h, rk), NEW root \in DOMAIN h,
         NEW st, st = Attracted(h, root)
  PROVE  \A b \in DOMAIN h : b # root => FirstInOrder(st, root, b)
<1> DEFINE D == DOMAIN h
           T == Counted(D)
<1>1. ASSUME NEW b \in D, NEW d \in Nat, NEW s \in T
      PROVE  /\ Escalated(h, s, b, d) \in T /\ Escalated(h, s, b, d).depth[b] = d
             /\ \A x \in D : x # b => Escalated(h, s, b, d).order[x] < Escalated(h, s, b, d).order[b]
  <2>1. \A c \in D : \A u \in T : Deepened(Numbered(u, c), c, d) \in T
    BY VisitIsCounted
  <2>2. T \in SUBSET Search(D)
    BY DEF Counted
  <2>3. PICK u \in T : Escalated(h, s, b, d) = Deepened(Numbered(u, b), b, d)
    BY <2>1, <2>2, EscalatedStays
  <2> QED BY <2>3, VisitIsCounted
<1>2. ASSUME NEW b \in D, NEW s \in T
      PROVE  Numbered(s, b) \in T
  <2>1. /\ s \in Search(D) /\ s.order \in [D -> Nat] /\ s.n \in Nat /\ \A x \in D : s.order[x] <= s.n
    BY DEF Counted, Search
  <2>2. Numbered(s, b) \in Search(D)
    BY <2>1, NumberedIsTyped
  <2>3. /\ Numbered(s, b).n = s.n + 1
        /\ Numbered(s, b).order = [s.order EXCEPT ![b] = s.n + 1]
    BY <2>1 DEF Numbered, Search
  <2> QED BY <2>1, <2>2, <2>3 DEF Counted
<1>3. ASSUME NEW b \in D, NEW s \in T, NEW d \in Nat
      PROVE  [s EXCEPT !.seen = @ \union {b}] \in T /\ Deepened(s, b, d) \in T
  <2>1. s \in Search(D) /\ \A x \in D : s.order[x] <= s.n
    BY DEF Counted
  <2> DEFINE m == [s EXCEPT !.seen = @ \union {b}]
             e == Deepened(s, b, d)
  <2>2. m \in Search(D) /\ m.order = s.order /\ m.n = s.n
    BY <2>1, MarkedIsTyped DEF Search
  <2>3. e \in Search(D) /\ e.order = s.order /\ e.n = s.n
    BY <2>1, DeepenedIsTyped DEF Search, Deepened
  <2> HIDE DEF m, e
  <2>4. m \in T /\ e \in T
    BY <2>1, <2>2, <2>3 DEF Counted
  <2> QED BY <2>4 DEF m, e
<1>4. Unseen(h) \in T
  BY UnseenIsTyped DEF Counted, Unseen
<1>5. PICK s \in T : st = Escalated(h, Numbered(s, root), root, 0)
  <2>1. T \in SUBSET Search(D) /\ \A b \in D : Targets(h[b]) \subseteq D
    BY DEF Counted, HeapTyped
  <2>2. \A b \in D : \A u \in T :
          /\ [u EXCEPT !.seen = @ \union {b}] \in T
          /\ \A d \in Nat : Deepened(u, b, d) \in T /\ Escalated(h, Numbered(u, b), b, d) \in T
    BY <1>1, <1>2, <1>3
  <2> HIDE DEF T
  <2>3. \E u \in T : Attracted(h, root) = Escalated(h, Numbered(u, root), root, 0)
    BY <1>4, <2>1, <2>2, AttractedStays
  <2> QED BY <2>3
<1>6. /\ st \in T /\ st.depth[root] = 0
      /\ \A x \in D : x # root => st.order[x] < st.order[root]
  BY <1>1, <1>2, <1>5
<1>7. root \in st.seen
  BY AttractedCloses
<1>8. st.depth \in [D -> Nat] /\ st.order \in [D -> Nat]
  BY <1>6 DEF Counted, Search
<1> QED BY <1>6, <1>7, <1>8 DEF FirstInOrder

-----------------------------------------------------------------------------
(* try_untangle: a pass that adds no entry found every pointer to fit.     *)

LEMMA TangledGrows ==
  ASSUME IsHeap(cells), NEW g \in Copying, NEW b \in DOMAIN cells, NEW i \in DOMAIN cells[b],
         NEW off, Unfit(g.cells[b][i], b, off)
  PROVE  Len(UntangleCell(g, b, i, off).entries) = Len(g.entries) + 1 /\ Len(g.entries) \in Nat
<1>1. Tangled(g, UntangleCell(g, b, i, off), b, i)
  BY UntangleCellTangles
<1>2. g.entries \in Seq(Nat)
  BY DEF Copying
<1> DEFINE N == Len(g.cells) + 1
           es == g.entries
<1>3. N \in Nat /\ UntangleCell(g, b, i, off).entries = Append(es, N)
  BY <1>1 DEF Tangled
<1> HIDE DEF N
<1>4. Len(es) \in Nat /\ Len(Append(es, N)) = Len(es) + 1
  <2>1. es \in Seq(Nat)
    BY <1>2
  <2> HIDE DEF es
  <2> QED BY <1>3, <2>1, LenProperties, AppendProperties
<1> QED BY <1>3, <1>4

\* The copies made so far: none, or one at least.
Settled(g) == g = NothingCopied \/ Len(g.entries) > Len(entries)
Grew == {g \in Copying : Len(g.entries) > Len(entries)}
Settling == {g \in Copying : Settled(g)}

LEMMA CellSettles ==
  ASSUME Typed, NEW b \in DOMAIN cells, NEW i \in DOMAIN cells[b], NEW off, NEW g \in Copying
  PROVE  LET r == UntangleCell(g, b, i, off)
         IN /\ g \in Settling => r \in Settling
            /\ g \in Grew => r \in Grew
            /\ g \in Settling /\ Unfit(cells[b][i], b, off) => r \in Grew
<1> DEFINE r == UntangleCell(g, b, i, off)
<1>1. r \in Copying
  BY UntangleCellCopies DEF Typed
<1>2. Len(entries) <= Len(g.entries) /\ Len(entries) \in Nat
  BY LenProperties DEF Copying, IsCopying, Typed
<1>3. CASE ~Unfit(g.cells[b][i], b, off)
  <2>1. r = g
    BY <1>3 DEF UntangleCell
  <2>2. g = NothingCopied => ~Unfit(cells[b][i], b, off)
    BY <1>3 DEF NothingCopied
  <2> HIDE DEF r
  <2> QED BY <2>1, <2>2 DEF Settling, Settled, Grew, r
<1>4. CASE Unfit(g.cells[b][i], b, off)
  <2>1. Len(r.entries) = Len(g.entries) + 1 /\ Len(g.entries) \in Nat
    BY <1>4, TangledGrows DEF Typed
  <2> HIDE DEF r
  <2>2. Len(r.entries) > Len(entries)
    BY <1>2, <2>1
  <2>3. r \in Grew /\ r \in Settling
    BY <1>1, <2>2 DEF Settling, Settled, Grew
  <2> QED BY <2>3 DEF r
<1> QED BY <1>3, <1>4

LEMMA BlockSettles ==
  ASSUME Typed, NEW b \in DOMAIN cells, NEW off, NEW g \in Copying
  PROVE  LET r == UntangleBlock(g, b, off)
         IN /\ g \in Settling => r \in Settling
            /\ g \in Grew => r \in Grew
            /\ g \in Settling /\ b \in black /\ (\E i \in DOMAIN cells[b] : Unfit(cells[b][i], b, off)) =>
                 r \in Grew
<1>1. Settling \in SUBSET Copying /\ Grew \in SUBSET Copying /\ IsHeap(cells)
  BY DEF Settling, Grew, Typed
<1>2. \A u \in Settling : \A i \in DOMAIN cells[b] : UntangleCell(u, b, i, off) \in Settling
  BY <1>1, CellSettles
<1>3. \A u \in Grew : \A i \in DOMAIN cells[b] : UntangleCell(u, b, i, off) \in Grew
  BY <1>1, CellSettles
<1>4. g \in Settling => UntangleBlock(g, b, off) \in Settling
  BY <1>1, <1>2, UntangleBlockStays
<1>5. g \in Grew => UntangleBlock(g, b, off) \in Grew
  BY <1>1, <1>3, UntangleBlockStays
<1>6. ASSUME g \in Settling, b \in black, NEW i \in DOMAIN cells[b], Unfit(cells[b][i], b, off)
      PROVE  UntangleBlock(g, b, off) \in Grew
  <2> DEFINE n == Len(cells[b])
  <2>1. n \in Nat /\ DOMAIN cells[b] = 1..n
    BY <1>1, HeapIsTyped DEF HeapTyped
  <2>2. PICK u \in [0..n -> Copying] : BlockSteps(u, g, b, off)
    BY <1>1, <1>6, BlockIsChain
  <2>3. u[0] = g /\ UntangleBlock(g, b, off) = u[n] /\
        \A k \in 1..n : u[k] = UntangleCell(u[k - 1], b, k, off)
    BY <2>1, <2>2 DEF BlockSteps
  <2>4. \A k \in 1..n : u[k - 1] \in Copying
    BY <2>1
  <2>5. \A k \in 1..n : /\ u[k - 1] \in Settling => u[k] \in Settling
                        /\ u[k - 1] \in Grew => u[k] \in Grew
    <3> SUFFICES ASSUME NEW k \in 1..n
                 PROVE  /\ u[k - 1] \in Settling => u[k] \in Settling
                        /\ u[k - 1] \in Grew => u[k] \in Grew
      OBVIOUS
    <3>1. u[k] = UntangleCell(u[k - 1], b, k, off) /\ u[k - 1] \in Copying /\ k \in DOMAIN cells[b]
      BY <2>1, <2>3, <2>4
    <3> QED BY <3>1, CellSettles
  <2>6. i \in 1..n /\ (u[i - 1] \in Settling => u[i] \in Grew)
    BY <1>6, <2>1, <2>3, <2>4, CellSettles
  <2>7. u[0] \in Settling
    BY <1>6, <2>3
  <2> HIDE DEF n
  <2>8. u[n] \in Grew
    BY <2>1, <2>5, <2>6, <2>7, ChainBrings
  <2> QED BY <2>3, <2>8
<1> QED BY <1>4, <1>5, <1>6

LEMMA NothingTangled ==
  ASSUME Typed, NEW off, Untangled(off).entries = entries
  PROVE  /\ Untangled(off) = NothingCopied
         /\ \A b \in ToSet(entries) \intersect black : \A i \in DOMAIN cells[b] :
              ~Unfit(cells[b][i], b, off)
<1> DEFINE n == Len(entries)
<1>1. n \in Nat /\ DOMAIN entries = 1..n /\ \A k \in 1..n : entries[k] \in DOMAIN cells
  BY LenProperties, ElementOfSeq DEF Typed
<1>2. PICK u \in [0..n -> Copying] : PassSteps(u, off)
  BY PassIsChain
<1>3. /\ u[0] = NothingCopied /\ Untangled(off) = u[n]
      /\ \A k \in 1..n : u[k] = UntangleBlock(u[k - 1], entries[k], off) /\ u[k - 1] \in Copying
  BY <1>1, <1>2 DEF PassSteps
<1>4. u[0] \in Settling
  BY <1>3, NothingCopiedCopies DEF Settling, Settled
<1>5. \A k \in 1..n : /\ u[k - 1] \in Settling => u[k] \in Settling
                      /\ u[k - 1] \in Grew => u[k] \in Grew
  BY <1>1, <1>3, BlockSettles
<1>6. u[n] \notin Grew
  <2>1. ~(n > n) /\ u[n].entries = entries
    BY <1>1, <1>3
  <2> QED BY <2>1 DEF Grew
<1>7. u[n] \in Settling
  <2> HIDE DEF n
  <2> QED BY <1>1, <1>4, <1>5, ChainStays
<1>8. Untangled(off) = NothingCopied
  BY <1>3, <1>6, <1>7 DEF Settling, Settled, Grew
<1>9. ASSUME NEW b \in ToSet(entries) \intersect black, NEW i \in DOMAIN cells[b],
             Unfit(cells[b][i], b, off)
      PROVE  FALSE
  <2>1. PICK m \in 1..n : entries[m] = b
    BY <1>1 DEF ToSet
  <2>2. u[m - 1] \in Settling => u[m] \in Grew
    BY <1>1, <1>3, <1>9, <2>1, BlockSettles
  <2> HIDE DEF n
  <2>3. u[n] \in Grew
    BY <1>1, <1>4, <1>5, <2>2, ChainBrings
  <2> QED BY <1>6, <2>3
<1> QED BY <1>8, <1>9

\* The entries es of the heap h: the root first, and with a block what it points to.
RootedIn(es, h) ==
  /\ es[1] = Root
  /\ \A b \in ToSet(es) : Targets(h[b]) \subseteq ToSet(es)

Rooted == {g \in Copying : RootedIn(g.entries, g.cells) /\ ToSet(entries) \subseteq ToSet(g.entries)}

LEMMA CellStaysRooted ==
  ASSUME Typed, NEW g \in Rooted, NEW b \in ToSet(entries), NEW i \in DOMAIN cells[b], NEW off
  PROVE  UntangleCell(g, b, i, off) \in Rooted
<1> DEFINE r == UntangleCell(g, b, i, off)
           E == ToSet(g.entries)
           n == Len(g.cells)
           N == n + 1
           c == g.cells[b][i]
<1>1. /\ g \in Copying /\ g.entries[1] = Root /\ ToSet(entries) \subseteq E
      /\ \A x \in E : Targets(g.cells[x]) \subseteq E
  BY DEF Rooted, RootedIn
<1>2. ToSet(entries) \subseteq DOMAIN cells
  BY ElementsAreFinite DEF Typed
<1>3. r \in Copying
  BY <1>1, <1>2, UntangleCellCopies DEF Typed
<1>4. CASE ~Unfit(c, b, off)
  BY <1>4 DEF UntangleCell
<1>5. CASE Unfit(c, b, off)
  <2>1. Tangled(g, r, b, i)
    BY <1>1, <1>2, <1>5, UntangleCellTangles DEF Typed
  <2>2. /\ n \in Nat /\ N \in Nat /\ i \in DOMAIN g.cells[b] /\ IsLink(c)
        /\ r.cells[b] = [g.cells[b] EXCEPT ![i] = [t |-> "sp16", p |-> N]]
        /\ r.cells[N] = g.cells[c.p]
        /\ \A x \in 1..n : x # b => r.cells[x] = g.cells[x]
        /\ r.entries = Append(g.entries, N)
    <3>1. n \in Nat
      BY <1>1, HeapIsTyped DEF Copying, IsCopying, HeapTyped
    <3> QED BY <2>1, <3>1 DEF Tangled
  <2>3. g.entries \in Seq(1..n) /\ Len(g.entries) > 0 /\ E \subseteq 1..n
    <3>1. DOMAIN g.cells = 1..n
      BY <1>1, HeapIsTyped DEF Copying, IsCopying, HeapTyped
    <3>2. g.entries \in Seq(1..n)
      BY <1>1, <3>1 DEF Copying, IsCopying
    <3>3. b \in E
      BY <1>1
    <3>4. Len(g.entries) \in Nat /\ DOMAIN g.entries = 1..Len(g.entries)
      BY <3>2, LenProperties
    <3>5. Len(g.entries) > 0
      BY <3>3, <3>4 DEF ToSet
    <3> QED BY <3>2, <3>5, ElementsAreFinite
  <2> DEFINE es == g.entries
             link == [t |-> "sp16", p |-> N]
  <2>4. /\ Append(es, N)[1] = es[1] /\ ToSet(Append(es, N)) = E \union {N}
    <3>1. 1..n \subseteq 1..N /\ N \in 1..N
      BY <2>2
    <3>2. es \in Seq(1..N)
      BY <2>3, <3>1, SeqDef
    <3> HIDE DEF N
    <3>3. ToSet(Append(es, N)) = ToSet(es) \union {N}
      BY <3>1, <3>2, AppendedSet
    <3>4. Len(es) \in Nat /\ Len(es) > 0
      BY <2>3, LenProperties
    <3>5. Append(es, N)[1] = es[1]
      <4> DEFINE s == es
      <4>1. s \in Seq(1..N) /\ Len(s) \in Nat /\ Len(s) > 0
        BY <3>2, <3>4
      <4> HIDE DEF s
      <4>2. Append(s, N)[1] = s[1]
        BY <3>1, <4>1, AppendProperties
      <4> QED BY <4>2 DEF s
    <3> QED BY <3>3, <3>5
  <2>5. c.p \in E
    <3>1. c.p \in Targets(g.cells[b])
      BY <2>2 DEF Targets
    <3> QED BY <1>1, <3>1
  <2>6. Targets(r.cells[b]) \subseteq Targets(g.cells[b]) \union {N}
    <3> DEFINE q == g.cells[b]
               row == [q EXCEPT ![i] = link]
    <3>1. DOMAIN row = DOMAIN q /\ row[i] = link /\ \A k \in DOMAIN q : k # i => row[k] = q[k]
      BY <2>2
    <3>2. r.cells[b] = row /\ link.p = N
      BY <2>2
    <3> HIDE DEF row, q, link
    <3>3. Targets(row) \subseteq Targets(q) \union {N}
      BY <3>1, <3>2 DEF Targets
    <3> QED BY <3>2, <3>3 DEF q
  <2>7. ASSUME NEW x \in E \union {N} PROVE Targets(r.cells[x]) \subseteq E \union {N}
    <3>1. CASE x = N
      BY <1>1, <2>2, <2>5, <3>1
    <3>2. CASE x = b
      BY <1>1, <2>6, <3>2
    <3>3. CASE x # N /\ x # b
      <4>1. x \in E /\ x \in 1..n
        BY <2>3, <3>3
      <4> QED BY <1>1, <2>2, <3>3, <4>1
    <3> QED BY <3>1, <3>2, <3>3
  <2> HIDE DEF r, E
  <2> QED BY <1>1, <1>3, <2>2, <2>4, <2>7 DEF Rooted, RootedIn, r
<1> QED BY <1>1, <1>4, <1>5

LEMMA UntangledIsRooted ==
  ASSUME Typed, Len(entries) > 0, RootedIn(entries, cells), NEW off
  PROVE  RootedIn(Untangled(off).entries, Untangled(off).cells)
<1>1. NothingCopied \in Rooted
  BY NothingCopiedCopies DEF Rooted, NothingCopied
<1>2. Rooted \in SUBSET Copying
  BY DEF Rooted
<1>3. \A b \in ToSet(entries) \intersect black : \A g \in Rooted :
        \A i \in DOMAIN cells[b] : UntangleCell(g, b, i, off) \in Rooted
  BY CellStaysRooted
<1>4. Untangled(off) \in Rooted
  BY <1>1, <1>2, <1>3, UntangledStays
<1> QED BY <1>4 DEF Rooted

-----------------------------------------------------------------------------
(* _by_order leaves the root in front.                                     *)

LEMMA RootStaysFirst ==
  ASSUME NEW h, HeapTyped(h), NEW rk, Ranked(h, rk), NEW old \in Seq(DOMAIN h), Len(old) > 0,
         NEW es, es = ByOrder(h, old)
  PROVE  es[1] = old[1]
<1> DEFINE S == ToSet(old)
           st == Attracted(h, old[1])
           n == Cardinality(S)
           ahead(b) == {c \in S : FirstInOrder(st, c, b)}
<1>1. /\ old[1] \in S /\ old[1] \in DOMAIN h /\ IsFiniteSet(S) /\ S \subseteq DOMAIN h
      /\ DOMAIN h \subseteq Nat
  <2>1. 1 \in DOMAIN old /\ old[1] \in DOMAIN h
    BY LenProperties, ElementOfSeq
  <2> QED BY <2>1, ElementsAreFinite DEF ToSet, HeapTyped
<1>2. es = [i \in 1..n |-> CHOOSE b \in S : Cardinality({c \in S : FirstInOrder(st, c, b)}) = i - 1]
  BY DEF ByOrder, SortedBlocks
<1>3. 1 \in 1..n
  <2>1. Len(es) > 0 /\ Enumerates(es, S)
    BY ByOrderEnumerates
  <2>2. 1 \in DOMAIN es
    BY <2>1, LenProperties DEF Enumerates
  <2>3. DOMAIN es = 1..n
    BY <1>2
  <2> QED BY <2>2, <2>3
<1>4. es[1] = CHOOSE b \in S : Cardinality({c \in S : FirstInOrder(st, c, b)}) = 1 - 1
  <2> HIDE DEF st, S
  <2> QED BY <1>2, <1>3
<1>5. \A b \in S : b # old[1] => FirstInOrder(st, old[1], b)
  BY <1>1, RootIsFirst
<1>6. st \in Search(DOMAIN h)
  <2>1. \A b \in DOMAIN h : Targets(h[b]) \subseteq DOMAIN h
    BY DEF HeapTyped
  <2> QED BY <1>1, <2>1, AttractedSees
<1> HIDE DEF st
<1>7. StrictTotalOrder({p \in S \X S : FirstInOrder(st, p[1], p[2])}, S)
  BY <1>1, <1>6, OrderIsTotal
<1>8. ahead(old[1]) = {}
  <2> DEFINE R == {p \in S \X S : FirstInOrder(st, p[1], p[2])}
  <2>1. \A a, b \in S : <<a, b>> \in R <=> FirstInOrder(st, a, b)
    OBVIOUS
  <2> HIDE DEF R, S
  <2>2. StrictTotalOrder(R, S)
    BY <1>7 DEF R
  <2> QED BY <1>1, <1>5, <2>1, <2>2 DEF StrictTotalOrder
<1>9. Cardinality(ahead(old[1])) = 0
  BY <1>8, FS_EmptySet
<1>10. es[1] \in S /\ Cardinality(ahead(es[1])) = 0
  <2>1. Cardinality({c \in S : FirstInOrder(st, c, old[1])}) = 1 - 1
    BY <1>9
  <2>2. \E b \in S : Cardinality({c \in S : FirstInOrder(st, c, b)}) = 1 - 1
    BY <1>1, <2>1
  <2> HIDE DEF S
  <2>3. es[1] \in S /\ Cardinality({c \in S : FirstInOrder(st, c, es[1])}) = 1 - 1
    BY <1>4, <2>2
  <2> QED BY <2>3
<1>11. ahead(es[1]) = {}
  <2>1. IsFiniteSet(ahead(es[1]))
    <3>1. ahead(es[1]) \subseteq S
      OBVIOUS
    <3> HIDE DEF S
    <3> QED BY <1>1, <3>1, FS_Subset
  <2> QED BY <1>10, <2>1, FS_EmptySet
<1> QED BY <1>1, <1>5, <1>10, <1>11

-----------------------------------------------------------------------------
(* What holds when the graph is written: the blocks laid out are those the *)
(* root reaches, and if the last pass copied nothing every 16-bit pointer  *)
(* fits at the offsets of the layout.                                      *)

\* The offsets at which the blocks are laid out.
Layout == Offsets(cells, entries, black)

\* What is laid out is an entry, and with a block what it points to.
Live ==
  /\ Root \in black /\ black \subseteq ToSet(entries)
  /\ \A b \in black : Targets(cells[b]) \subseteq black

\* Every 16-bit pointer that is laid out fits.
Fits == \A b \in black : \A i \in DOMAIN cells[b] : ~Unfit(cells[b][i], b, Layout)

\* What Build writes at the offsets off.
Places == UNION {{<<b, i>> : i \in DOMAIN cells[b]} : b \in black}
PlaceOf(x, off) == off[x[1]] + CellStart(cells[x[1]], x[2])
WrittenAt(off) ==
  [o \in {PlaceOf(x, off) : x \in Places} |->
     LET x == CHOOSE y \in Places : PlaceOf(y, off) = o
     IN Written(cells[x[1]][x[2]], off[x[1]], off)]

\* The inductive invariant of the layout, beside that of the pipeline.
LayoutInv ==
  /\ input \in Heaps
  /\ pc # "new" => RootedIn(entries, cells)
  /\ pc \in {"untangle", "build", "done"} => Live
  /\ pc = "attract" /\ passes > 0 => tangled
  /\ pc \in {"build", "done"} /\ ~tangled => Fits
  /\ pc = "done" => out = WrittenAt(Layout)

LEMMA NewGraphLays ==
  ASSUME IInv, IInv', LayoutInv, NewGraph \/ MinimizeLevel \/ MinimizeDone
  PROVE  LayoutInv'
<1>1. pc' \in {"minimize", "attract"} /\ passes' = 0 /\ input' = input
  BY DEF NewGraph, MinimizeLevel, MinimizeDone, IInv
<1>2. ByLevel'
  BY <1>1 DEF IInv
<1>3. RootedIn(entries', cells')
  BY <1>2 DEF ByLevel, RootedIn
<1> QED BY <1>1, <1>3 DEF LayoutInv

LEMMA AttractLays ==
  ASSUME IInv, LayoutInv, Attract
  PROVE  LayoutInv'
<1>1. pc = "attract" /\ Typed /\ RootedIn(entries, cells)
  BY DEF IInv, Attract, LayoutInv
<1>2. HeapTyped(cells) /\ entries \in Seq(DOMAIN cells) /\ Len(entries) > 0
  BY <1>1, HeapIsTyped DEF Typed
<1>3. PICK rk : Ranked(cells, rk)
  BY <1>1 DEF Typed
<1>4. entries' = ByOrder(cells, entries) /\ cells' = cells /\ input' = input
      /\ black' = Attracted(cells, Root).seen
  BY <1>1 DEF Attract, RootedIn
<1>5. ToSet(entries') = ToSet(entries)
  BY <1>2, <1>3, <1>4, ByOrderEnumerates DEF Enumerates
<1>6. RootedIn(entries', cells')
  <2>1. entries'[1] = Root
    BY <1>1, <1>2, <1>3, <1>4, RootStaysFirst DEF RootedIn
  <2> QED BY <1>1, <1>4, <1>5, <2>1 DEF RootedIn
<1>7. Live'
  <2>1. Root \in DOMAIN cells /\ Root \in ToSet(entries) /\ ToSet(entries) \subseteq DOMAIN cells
    <3>1. 1 \in DOMAIN entries
      BY <1>2, LenProperties
    <3>2. Root \in ToSet(entries)
      BY <1>1, <3>1 DEF RootedIn, ToSet
    <3> QED BY <1>2, <3>2, ElementsAreFinite
  <2>2. Root \in black' /\ \A b \in black' : Targets(cells[b]) \subseteq black'
    <3> DEFINE live == Attracted(cells, Root).seen
    <3>1. Root \in live /\ \A b \in live : Targets(cells[b]) \subseteq live
      BY <1>2, <1>3, <2>1, AttractedCloses
    <3> QED BY <1>4, <3>1
  <2>3. black' \subseteq ToSet(entries)
    <3>1. \A b \in ToSet(entries) : Targets(cells[b]) \subseteq ToSet(entries)
      BY <1>1 DEF RootedIn
    <3> QED BY <1>2, <1>3, <1>4, <2>1, <3>1, AttractedSees
  <2> QED BY <1>4, <1>5, <2>2, <2>3 DEF Live
<1>8. pc' = IF passes < MaxPasses THEN "untangle" ELSE "build"
  BY DEF Attract, MorePasses
<1>9. passes \in Nat /\ MaxPasses \in Nat \ {0} /\ tangled' = tangled
  BY <1>1, BkConstants DEF Typed, Attract
<1>10. pc' = "build" => tangled'
  <2>1. pc' = "build" => passes > 0
    BY <1>8, <1>9
  <2> QED BY <1>1, <1>9, <2>1 DEF LayoutInv
<1>11. pc' \in {"untangle", "build"}
  BY <1>8
<1> QED BY <1>4, <1>6, <1>7, <1>10, <1>11 DEF LayoutInv

LEMMA TryUntangleLays ==
  ASSUME IInv, LayoutInv, TryUntangle
  PROVE  LayoutInv'
<1> DEFINE g == Untangled(Layout)
<1>1. pc = "untangle" /\ Typed /\ RootedIn(entries, cells) /\ Len(entries) > 0 /\ Live
  BY DEF IInv, TryUntangle, LayoutInv, Typed
<1>2. /\ cells' = g.cells /\ entries' = g.entries /\ tangled' = (g.entries # entries)
      /\ pc' = IF tangled' THEN "attract" ELSE "build"
      /\ black' = black /\ input' = input
  BY DEF TryUntangle, Layout
<1>3. RootedIn(entries', cells')
  BY <1>1, <1>2, UntangledIsRooted
<1>4. CASE g.entries # entries
  BY <1>2, <1>3, <1>4 DEF LayoutInv
<1>5. CASE g.entries = entries
  <2>1. /\ g = NothingCopied
        /\ \A b \in ToSet(entries) \intersect black : \A i \in DOMAIN cells[b] :
             ~Unfit(cells[b][i], b, Layout)
    BY <1>1, <1>5, NothingTangled
  <2>2. cells' = cells /\ entries' = entries
    BY <1>2, <2>1 DEF NothingCopied
  <2> HIDE DEF g
  <2>3. Layout' = Layout
    BY <1>2, <2>2 DEF Layout
  <2>4. Fits'
    <3>1. black \subseteq ToSet(entries)
      BY <1>1 DEF Live
    <3> QED BY <1>2, <2>1, <2>2, <2>3, <3>1 DEF Fits
  <2>5. Live'
    BY <1>1, <1>2, <2>2 DEF Live
  <2>6. pc' = "build"
    BY <1>2, <1>5
  <2> QED BY <1>2, <1>3, <2>4, <2>5, <2>6 DEF LayoutInv
<1> QED BY <1>4, <1>5

LEMMA BuildLays ==
  ASSUME IInv, LayoutInv, Build
  PROVE  LayoutInv'
<1>1. /\ pc = "build" /\ pc' = "done"
      /\ UNCHANGED <<input, cells, entries, black, passes, tangled>>
  BY DEF Build
<1>2. out' = WrittenAt(Layout)
  BY DEF Build, WrittenAt, Layout, Places, PlaceOf
<1>3. Layout' = Layout /\ WrittenAt(Layout)' = WrittenAt(Layout)
  BY <1>1 DEF Layout, WrittenAt, Places, PlaceOf
<1>4. RootedIn(entries', cells') /\ Live' /\ (~tangled' => Fits')
  BY <1>1, <1>3 DEF LayoutInv, Live, Fits
<1> QED BY <1>1, <1>2, <1>3, <1>4 DEF LayoutInv

LEMMA StepLays ==
  ASSUME IInv, IInv', LayoutInv, [Next]_vars
  PROVE  LayoutInv'
<1>1. CASE NewGraph \/ MinimizeLevel \/ MinimizeDone
  BY <1>1, NewGraphLays
<1>2. CASE Attract
  BY <1>2, AttractLays
<1>3. CASE TryUntangle
  BY <1>3, TryUntangleLays
<1>4. CASE Build
  BY <1>4, BuildLays
<1>5. CASE UNCHANGED vars
  <2>1. UNCHANGED <<pc, input, cells, entries, black, passes, tangled, out>>
    BY <1>5 DEF vars
  <2>2. Layout' = Layout /\ WrittenAt(Layout)' = WrittenAt(Layout) /\ Live' = Live /\ Fits' = Fits
    BY <2>1 DEF Layout, WrittenAt, Places, PlaceOf, Live, Fits
  <2> QED BY <2>1, <2>2 DEF LayoutInv
<1> QED BY <1>1, <1>2, <1>3, <1>4, <1>5 DEF Next, Done

(* The invariant of the layout holds at every step of the pipeline.        *)
THEOREM LayoutInvariant == Spec => []LayoutInv
<1>1. Init => LayoutInv
  BY DEF Init, LayoutInv
<1>2. IInv /\ IInv' /\ LayoutInv /\ [Next]_vars => LayoutInv'
  BY StepLays
<1> QED BY <1>1, <1>2, Invariant, PTL DEF Spec

-----------------------------------------------------------------------------
(* Where a cell of a block starts: the sum of the sizes before it.         *)

LEMMA CellsHaveSize ==
  ASSUME NEW B, NEW c \in Cell(B)
  PROVE  CellSize(c) \in {1, 2, 4}
BY DEF Cell, Integer, PtrTypes, CellSize

\* The sums g of the sizes of the first cells of s.
IsSum(g, s) ==
  /\ Len(s) \in Nat /\ g \in [0..Len(s) -> Nat] /\ g[0] = 0
  /\ \A k \in 1..Len(s) : g[k] = g[k - 1] + CellSize(s[k])

LEMMA SizeIsSum ==
  ASSUME NEW B, NEW s \in Seq(Cell(B))
  PROVE  \E g : IsSum(g, s) /\ SizeOf(s) = g[Len(s)]
<1> DEFINE base == 0
           n == Len(s)
           op(x, r) == r + CellSize(s[x])
           step == [p \in (1..n) \X Nat |-> op(p[1], p[2])]
           Body(it) == [t \in SUBSET (1..n) |->
                          IF t = {} THEN base ELSE op(Max(t), it[t \ {Max(t)}])]
           iter == CHOOSE it : it = Body(it)
<1>1. n \in Nat /\ DOMAIN s = 1..n /\ \A x \in 1..n : s[x] \in Cell(B)
  BY LenProperties, ElementOfSeq
<1>2. \A x \in 1..n, r \in Nat : op(x, r) \in Nat
  <2>1. \A x \in 1..n : CellSize(s[x]) \in Nat
    BY <1>1, CellsHaveSize
  <2> QED BY <2>1
<1>0. base \in Nat
  OBVIOUS
<1>3. SizeOf(s) = iter[1..n]
  <2> HIDE DEF n
  <2> QED BY <1>1 DEF SizeOf, FoldLeft, MapThenFoldSet
<1>4. n \in Nat /\ \A x, r : op(x, r) = r + CellSize(s[x])
  BY <1>1
<1> HIDE DEF op, n, base
<1>5. step \in [(1..n) \X Nat -> Nat]
  BY <1>2
<1>6. \A x \in 1..n, r \in Nat : step[<<x, r>>] = op(x, r)
  OBVIOUS
<1> HIDE DEF step
<1>7. iter = Body(iter)
  <2>1. PICK it \in [SUBSET (1..n) -> Nat] : FoldsBack(it, n, base, step)
    BY <1>0, <1>4, <1>5, FoldSolves
  <2>2. it = Body(it)
    <3>1. it = [t \in SUBSET (1..n) |-> it[t]]
      OBVIOUS
    <3>2. ASSUME NEW t \in SUBSET (1..n)
          PROVE  it[t] = IF t = {} THEN base ELSE op(Max(t), it[t \ {Max(t)}])
      <4>1. t # {} => Max(t) \in 1..n /\ t \ {Max(t)} \in SUBSET (1..n)
        BY <1>4, MaxIsIn
      <4> QED BY <1>6, <2>1, <4>1 DEF FoldsBack
    <3> QED BY <3>1, <3>2
  <2> QED BY <2>2
<1>8. /\ iter[{}] = base
      /\ \A t \in SUBSET (1..n) :
           t # {} /\ Max(t) \in 1..n /\ iter[t \ {Max(t)}] \in Nat =>
             iter[t] = step[<<Max(t), iter[t \ {Max(t)}]>>]
  BY <1>6, <1>7
<1> HIDE DEF iter
<1>9. EndsAt(n, Nat, base, step, iter[1..n])
  BY <1>0, <1>4, <1>5, <1>8, FoldClimbs
<1>10. PICK g \in [0..n -> Nat] :
         g[0] = base /\ iter[1..n] = g[n] /\ \A k \in 1..n : g[k] = step[<<k, g[k - 1]>>]
  BY <1>9 DEF EndsAt
<1>11. \A k \in 1..n : g[k] = g[k - 1] + CellSize(s[k])
  <2> SUFFICES ASSUME NEW k \in 1..n PROVE g[k] = g[k - 1] + CellSize(s[k])
    OBVIOUS
  <2>1. g[k - 1] \in Nat
    BY <1>4
  <2> QED BY <1>4, <1>6, <1>10, <2>1
<1>12. IsSum(g, s) /\ SizeOf(s) = g[n]
  BY <1>1, <1>3, <1>10, <1>11 DEF IsSum, n, base
<1>13. n = Len(s)
  BY DEF n
<1> QED BY <1>12, <1>13

LEMMA SumsAgree ==
  ASSUME NEW s, NEW t, NEW n \in Nat, n <= Len(s), n <= Len(t),
         NEW g, NEW f, IsSum(g, s), IsSum(f, t),
         \A k \in 1..n : CellSize(s[k]) = CellSize(t[k])
  PROVE  \A k \in 0..n : g[k] = f[k]
<1> DEFINE Good == {k \in 0..n : g[k] = f[k]}
<1>1. 0 \in Good
  BY DEF IsSum
<1>2. ASSUME NEW j \in 0..(n - 1), j \in Good PROVE j + 1 \in Good
  <2> DEFINE k == j + 1
  <2>1. k \in 0..n /\ k \in 1..n /\ k \in 1..Len(s) /\ k \in 1..Len(t) /\ k - 1 = j
    BY DEF IsSum
  <2> HIDE DEF k
  <2>2. g[k] = g[j] + CellSize(s[k]) /\ f[k] = f[j] + CellSize(t[k])
    BY <2>1 DEF IsSum
  <2>3. k \in Good
    BY <1>2, <2>1, <2>2
  <2> QED BY <2>3 DEF k
<1>3. \A j \in 0..(n - 1) : j \in Good => j + 1 \in Good
  BY <1>2
<1> HIDE DEF Good
<1>4. 0..n \subseteq Good
  BY <1>1, <1>3, InductionUpTo
<1> QED BY <1>4 DEF Good

LEMMA StartIsSum ==
  ASSUME NEW B, NEW s \in Seq(Cell(B)), NEW g, IsSum(g, s),
         NEW k \in DOMAIN s
  PROVE  CellStart(s, k) = g[k - 1]
<1> DEFINE t == SubSeq(s, 1, k - 1)
           C == Cell(B)
<1>1. Len(s) \in Nat /\ k \in 1..Len(s) /\ \A j \in 1..Len(s) : s[j] \in C
  BY LenProperties, ElementOfSeq
<1>2. t \in Seq(C) /\ Len(t) = k - 1 /\ \A j \in 1..(k - 1) : t[j] = s[j]
  <2>1. \A j \in 1..(k - 1) : s[j] \in C
    BY <1>1
  <2>2. 1 \in Int /\ k - 1 \in Int
    BY <1>1
  <2> HIDE DEF C
  <2>3. /\ SubSeq(s, 1, k - 1) \in Seq(C)
        /\ Len(SubSeq(s, 1, k - 1)) = IF 1 <= k - 1 THEN k - 1 - 1 + 1 ELSE 0
        /\ \A i \in 1..(k - 1 - 1 + 1) : SubSeq(s, 1, k - 1)[i] = s[1 + i - 1]
    BY <2>1, <2>2, SubSeqProperties
  <2> QED BY <1>1, <2>3
<1> HIDE DEF t
<1>3. PICK f : IsSum(f, t) /\ SizeOf(t) = f[Len(t)]
  BY <1>2, SizeIsSum DEF C
<1>4. k - 1 \in Nat /\ k - 1 <= Len(s) /\ Len(t) \in Nat /\ k - 1 <= Len(t)
  BY <1>1, <1>2
<1>5. \A j \in 0..(k - 1) : f[j] = g[j]
  <2> DEFINE m == k - 1
  <2>1. m \in Nat /\ m <= Len(s) /\ m <= Len(t) /\ \A j \in 1..m : CellSize(t[j]) = CellSize(s[j])
    BY <1>2, <1>4
  <2> HIDE DEF m
  <2>2. \A j \in 0..m : f[j] = g[j]
    BY <1>1, <1>3, <1>4, <2>1, SumsAgree
  <2> QED BY <2>2 DEF m
<1>6. k - 1 \in 0..(k - 1)
  BY <1>4
<1> QED BY <1>2, <1>3, <1>5, <1>6 DEF CellStart, t

\* The cells of s lie one behind the other.
Spaced(s) ==
  /\ SizeOf(s) \in Nat
  /\ s # <<>> => SizeOf(s) > 0
  /\ \A i \in DOMAIN s : CellStart(s, i) \in Nat /\ CellStart(s, i) < SizeOf(s)
  /\ \A i, j \in DOMAIN s : CellStart(s, i) = CellStart(s, j) => i = j

LEMMA CellsAreSpaced ==
  ASSUME NEW B, NEW s \in Seq(Cell(B))
  PROVE  Spaced(s)
<1> DEFINE n == Len(s)
<1>1. n \in Nat /\ DOMAIN s = 1..n /\ \A x \in 1..n : CellSize(s[x]) \in {1, 2, 4}
  BY LenProperties, ElementOfSeq, CellsHaveSize
<1>2. PICK g : IsSum(g, s) /\ SizeOf(s) = g[n]
  BY SizeIsSum
<1>3. \A k \in 1..n : CellStart(s, k) = g[k - 1]
  BY <1>1, <1>2, StartIsSum
<1>4. \A k \in 1..n : g[k - 1] < g[k]
  <2> SUFFICES ASSUME NEW k \in 1..n PROVE g[k - 1] < g[k]
    OBVIOUS
  <2>1. g[k] = g[k - 1] + CellSize(s[k]) /\ g[k - 1] \in Nat
    BY <1>1, <1>2 DEF IsSum
  <2> QED BY <1>1, <2>1
<1>10. g \in [0..n -> Nat]
  BY <1>2 DEF IsSum
<1> HIDE DEF n
<1>5. \A i, j \in 0..n : i < j => g[i] < g[j]
  BY <1>1, <1>4, <1>10, ClimbsThroughout
<1>6. \A k \in 1..n : k - 1 \in 0..n /\ n \in 0..n /\ k - 1 < n
  BY <1>1
<1>7. SizeOf(s) \in Nat /\ \A i \in DOMAIN s : CellStart(s, i) \in Nat /\ CellStart(s, i) < SizeOf(s)
  BY <1>1, <1>2, <1>3, <1>5, <1>6, <1>10
<1>8. s # <<>> => SizeOf(s) > 0
  <2>1. s # <<>> => 1 \in DOMAIN s
    BY <1>1, EmptySeq DEF n
  <2> QED BY <1>7, <2>1
<1>9. ASSUME NEW i \in DOMAIN s, NEW j \in DOMAIN s, CellStart(s, i) = CellStart(s, j)
      PROVE  i = j
  <2>1. g[i - 1] = g[j - 1] /\ g[i - 1] \in Nat
    BY <1>1, <1>3, <1>6, <1>9, <1>10
  <2>2. ~(i - 1 < j - 1) /\ ~(j - 1 < i - 1)
    BY <1>1, <1>5, <1>6, <2>1
  <2> QED BY <1>1, <2>2
<1> QED BY <1>7, <1>8, <1>9 DEF Spaced

(* Cells that are written alike start at the same places.                  *)
LEMMA AlikeStart ==
  ASSUME NEW B, NEW D, NEW s \in Seq(Cell(B)), NEW t \in Seq(Cell(D)), DOMAIN s = DOMAIN t,
         \A i \in DOMAIN s : Meaning!SameCell(s[i], t[i]), NEW k \in DOMAIN s
  PROVE  CellStart(s, k) = CellStart(t, k)
<1> DEFINE n == Len(s)
<1>1. /\ n \in Nat /\ DOMAIN s = 1..n /\ Len(t) = n
      /\ \A x \in 1..n : s[x] \in Cell(B) /\ t[x] \in Cell(D)
  BY LenProperties, ElementOfSeq
<1>2. \A x \in 1..n : CellSize(s[x]) = CellSize(t[x])
  <2>1. \A c \in Cell(B), d \in Cell(D) :
          Meaning!Wide(c.t) = Meaning!Wide(d.t) => CellSize(c) = CellSize(d)
    BY DEF Cell, Integer, PtrTypes, CellSize, Meaning!Wide
  <2> QED BY <1>1, <2>1 DEF Meaning!SameCell
<1>3. PICK g : IsSum(g, s)
  BY SizeIsSum
<1>4. PICK f : IsSum(f, t)
  BY SizeIsSum
<1>5. CellStart(s, k) = g[k - 1] /\ CellStart(t, k) = f[k - 1]
  BY <1>3, <1>4, StartIsSum
<1>6. n <= Len(s) /\ n <= Len(t) /\ Len(s) \in Nat /\ Len(t) \in Nat /\ k - 1 \in 0..n
  BY <1>1
<1> HIDE DEF n
<1>7. \A j \in 0..n : g[j] = f[j]
  BY <1>1, <1>2, <1>3, <1>4, <1>6, SumsAgree
<1> QED BY <1>5, <1>6, <1>7

-----------------------------------------------------------------------------
(* Where a block starts: the sum of the sizes of those before it that are  *)
(* laid out.                                                               *)

LEMMA BlocksHaveSize ==
  ASSUME NEW h, HeapTyped(h), NEW b \in DOMAIN h
  PROVE  SizeOf(h[b]) \in Nat
<1>1. h[b] \in Seq(Cell(DOMAIN h))
  BY DEF HeapTyped
<1> QED BY <1>1, CellsAreSpaced DEF Spaced

Room(h, seen, b) == IF b \in seen THEN SizeOf(h[b]) ELSE 0

\* The prefix sums of the entries es.
ArePrefixSums(at, h, es, seen) ==
  /\ at \in [DOMAIN es -> Nat] /\ at[1] = 0
  /\ \A j \in DOMAIN es : j > 1 => at[j] = at[j - 1] + Room(h, seen, es[j - 1])
  /\ \A j \in DOMAIN es : Offsets(h, es, seen)[es[j]] = at[j]

LEMMA OffsetsAreSums ==
  ASSUME NEW h, HeapTyped(h), NEW es \in Seq(DOMAIN h), Len(es) > 0,
         \A i, j \in DOMAIN es : es[i] = es[j] => i = j, NEW seen
  PROVE  \E at : ArePrefixSums(at, h, es, seen)
<1> DEFINE n == Len(es)
           room(j) == IF es[j] \in seen THEN SizeOf(h[es[j]]) ELSE 0
           Body(a) == [j \in DOMAIN es |-> IF j = 1 THEN 0 ELSE a[j - 1] + room(j - 1)]
           at == CHOOSE a : a = Body(a)
           base == 0
           step == [p \in (1..n) \X Nat |-> IF p[1] = 1 THEN 0 ELSE p[2] + room(p[1] - 1)]
<1>1. n \in Nat /\ n > 0 /\ DOMAIN es = 1..n /\ \A j \in 1..n : es[j] \in DOMAIN h
  BY LenProperties, ElementOfSeq
<1>2. \A j \in 1..n : room(j) \in Nat /\ room(j) = Room(h, seen, es[j])
  <2>1. \A b \in DOMAIN h : SizeOf(h[b]) \in Nat
    BY BlocksHaveSize
  <2> QED BY <1>1, <2>1 DEF Room
<1>3. Offsets(h, es, seen) = [b \in ToSet(es) |-> at[IndexOf(es, b)]]
  BY DEF Offsets
<1> HIDE DEF room, n
<1>4. step \in [(1..n) \X Nat -> Nat]
  <2>1. \A k \in 1..n, r \in Nat : (IF k = 1 THEN 0 ELSE r + room(k - 1)) \in Nat
    <3> SUFFICES ASSUME NEW k \in 1..n, NEW r \in Nat, k # 1 PROVE r + room(k - 1) \in Nat
      OBVIOUS
    <3>1. k - 1 \in 1..n
      BY <1>1
    <3>2. room(k - 1) \in Nat
      BY <1>2, <3>1
    <3> QED BY <3>2
  <2> QED BY <2>1
<1>5. \A k \in 1..n, r \in Nat : step[<<k, r>>] = IF k = 1 THEN 0 ELSE r + room(k - 1)
  OBVIOUS
<1>6. base \in Nat
  OBVIOUS
<1> HIDE DEF step, base
<1>7. PICK f \in [0..n -> Nat] : f[0] = base /\ \A k \in 1..n : f[k] = step[<<k, f[k - 1]>>]
  <2>1. ClimbsTo(n, Nat, base, step)
    BY <1>1, <1>4, <1>6, ChainSolves
  <2> QED BY <2>1 DEF ClimbsTo
<1>8. \A k \in 1..n : f[k] = IF k = 1 THEN 0 ELSE f[k - 1] + room(k - 1)
  <2> SUFFICES ASSUME NEW k \in 1..n PROVE f[k] = IF k = 1 THEN 0 ELSE f[k - 1] + room(k - 1)
    OBVIOUS
  <2>1. f[k - 1] \in Nat
    BY <1>1
  <2> QED BY <1>5, <1>7, <2>1
<1>9. at = Body(at)
  <2> DEFINE a == [j \in DOMAIN es |-> f[j]]
  <2>1. \A j \in DOMAIN es : j # 1 => j - 1 \in DOMAIN es
    BY <1>1
  <2>2. \A j \in DOMAIN es : a[j] = IF j = 1 THEN 0 ELSE a[j - 1] + room(j - 1)
    BY <1>1, <1>8, <2>1
  <2>3. a = Body(a)
    <3>1. a = [j \in DOMAIN es |-> a[j]]
      OBVIOUS
    <3> HIDE DEF a
    <3> QED BY <2>2, <3>1
  <2> HIDE DEF a
  <2> QED BY <2>3
<1> HIDE DEF at
<1>10. \A j \in 1..n : at[j] = IF j = 1 THEN 0 ELSE at[j - 1] + room(j - 1)
  BY <1>1, <1>9
<1>11. \A j \in 1..n : at[j] = f[j]
  <2> DEFINE Good == {j \in 0..n : j = 0 \/ at[j] = f[j]}
  <2>1. 0 \in Good
    BY <1>1
  <2>2. ASSUME NEW j \in 0..(n - 1), j \in Good PROVE j + 1 \in Good
    <3> DEFINE k == j + 1
    <3>1. k \in 1..n /\ k \in 0..n /\ k - 1 = j /\ (j = 0 <=> k = 1)
      BY <1>1
    <3> HIDE DEF k
    <3>2. at[k] = f[k]
      BY <1>8, <1>10, <2>2, <3>1
    <3>3. k \in Good
      BY <3>1, <3>2
    <3> QED BY <3>3 DEF k
  <2>3. \A j \in 0..(n - 1) : j \in Good => j + 1 \in Good
    BY <2>2
  <2> HIDE DEF Good
  <2>4. 0..n \subseteq Good
    BY <1>1, <2>1, <2>3, InductionUpTo
  <2>5. \A j \in 1..n : j \in 0..n /\ j # 0
    BY <1>1
  <2> QED BY <2>4, <2>5 DEF Good
<1>12. at \in [DOMAIN es -> Nat]
  <2>1. \A j \in DOMAIN es : at[j] \in Nat
    BY <1>1, <1>11
  <2> QED BY <1>9, <2>1
<1>13. at[1] = 0
  BY <1>1, <1>10
<1>14. ASSUME NEW j \in DOMAIN es, j > 1 PROVE at[j] = at[j - 1] + Room(h, seen, es[j - 1])
  <2>1. j \in 1..n /\ j - 1 \in 1..n
    BY <1>1, <1>14
  <2> QED BY <1>2, <1>10, <1>14, <2>1
<1>15. ASSUME NEW j \in DOMAIN es PROVE Offsets(h, es, seen)[es[j]] = at[j]
  <2>1. es[j] \in ToSet(es)
    BY DEF ToSet
  <2>2. IndexOf(es, es[j]) = j
    BY <2>1, IndexIsPlace
  <2> QED BY <1>3, <2>1, <2>2
<1> QED BY <1>12, <1>13, <1>14, <1>15 DEF ArePrefixSums

\* The blocks of the layout lie one behind the other, the first of them at 0.
LaidApart(off, h, es, seen) ==
  /\ \A b \in ToSet(es) : off[b] \in Nat
  /\ off[es[1]] = 0
  /\ \A b, c \in ToSet(es) \intersect seen :
       b # c => off[b] + SizeOf(h[b]) <= off[c] \/ off[c] + SizeOf(h[c]) <= off[b]

LEMMA BlocksLieApart ==
  ASSUME NEW h, HeapTyped(h), NEW es \in Seq(DOMAIN h), Len(es) > 0,
         \A i, j \in DOMAIN es : es[i] = es[j] => i = j, NEW seen
  PROVE  LaidApart(Offsets(h, es, seen), h, es, seen)
<1> DEFINE n == Len(es)
           off == Offsets(h, es, seen)
           room(j) == Room(h, seen, es[j])
<1>1. n \in Nat /\ 1 \in DOMAIN es /\ DOMAIN es = 1..n /\ \A j \in 1..n : es[j] \in DOMAIN h
  BY LenProperties, ElementOfSeq
<1>2. PICK at : ArePrefixSums(at, h, es, seen)
  BY OffsetsAreSums
<1>3. /\ at \in [1..n -> Nat] /\ \A j \in 1..n : off[es[j]] = at[j]
      /\ \A j \in 1..n : j > 1 => at[j] = at[j - 1] + room(j - 1)
  BY <1>1, <1>2 DEF ArePrefixSums
<1>4. \A j \in 1..n : room(j) \in Nat /\ (es[j] \in seen => room(j) = SizeOf(h[es[j]]))
  <2>1. \A b \in DOMAIN h : SizeOf(h[b]) \in Nat
    BY BlocksHaveSize
  <2> QED BY <1>1, <2>1 DEF Room
<1> HIDE DEF n, off, room
<1>5. \A i, j \in 1..n : i < j => at[i] + room(i) <= at[j]
  <2> DEFINE Good == {j \in 0..n : \A i \in 1..n : i < j => at[i] + room(i) <= at[j]}
  <2>1. 0 \in Good
    BY <1>1
  <2>2. ASSUME NEW j \in 0..(n - 1), j \in Good PROVE j + 1 \in Good
    <3> DEFINE k == j + 1
    <3>1. k \in 1..n /\ k \in 0..n /\ k - 1 = j
      BY <1>1
    <3> HIDE DEF k
    <3>2. ASSUME NEW i \in 1..n, i < k PROVE at[i] + room(i) <= at[k]
      <4>1. k > 1 /\ j \in 1..n /\ (i < j \/ i = j)
        BY <1>1, <3>1, <3>2
      <4>2. at[k] = at[j] + room(j)
        BY <1>3, <3>1, <4>1
      <4>3. /\ at[i] \in Nat /\ room(i) \in Nat /\ at[j] \in Nat /\ room(j) \in Nat
            /\ i < j => at[i] + room(i) <= at[j]
        BY <1>3, <1>4, <2>2, <4>1
      <4> QED BY <4>1, <4>2, <4>3
    <3>3. k \in Good
      BY <3>1, <3>2
    <3> QED BY <3>3 DEF k
  <2>3. \A j \in 0..(n - 1) : j \in Good => j + 1 \in Good
    BY <2>2
  <2> HIDE DEF Good
  <2>4. 0..n \subseteq Good
    BY <1>1, <2>1, <2>3, InductionUpTo
  <2>5. \A j \in 1..n : j \in 0..n
    BY <1>1
  <2> QED BY <2>4, <2>5 DEF Good
<1>6. \A b \in ToSet(es) : \E j \in 1..n : es[j] = b
  BY <1>1 DEF ToSet
<1>7. \A b \in ToSet(es) : off[b] \in Nat
  BY <1>3, <1>6
<1>8. off[es[1]] = 0
  BY <1>1, <1>2, <1>3 DEF ArePrefixSums
<1>9. ASSUME NEW b \in ToSet(es) \intersect seen, NEW c \in ToSet(es) \intersect seen, b # c
      PROVE  off[b] + SizeOf(h[b]) <= off[c] \/ off[c] + SizeOf(h[c]) <= off[b]
  <2>1. PICK i \in 1..n : es[i] = b
    BY <1>6
  <2>2. PICK j \in 1..n : es[j] = c
    BY <1>6
  <2>3. i < j \/ j < i
    BY <1>1, <1>9, <2>1, <2>2
  <2>4. off[b] = at[i] /\ off[c] = at[j] /\ room(i) = SizeOf(h[b]) /\ room(j) = SizeOf(h[c])
    BY <1>3, <1>4, <2>1, <2>2
  <2> QED BY <1>5, <2>3, <2>4
<1> QED BY <1>7, <1>8, <1>9 DEF LaidApart, off

-----------------------------------------------------------------------------
(* What the reader of the table finds.                                     *)

\* Every 32-bit pointer that is written leads forward, and not too far for 32 bits.
\* try_untangle looks at 16-bit pointers only.
WideLinksFit ==
  pc = "done" =>
    \A b \in black : \A i \in DOMAIN cells[b] :
      LET c == cells[b][i]
          base == MaxOffset16 + 1
      IN IsLink(c) /\ c.t \notin Ptr16 => Layout[c.p] - Layout[b] \in 1..(base * base - 1)

LEMMA LayoutLiesApart ==
  ASSUME IInv, LayoutInv, pc = "done"
  PROVE  /\ HeapTyped(cells) /\ black \subseteq DOMAIN cells /\ Layout[Root] = 0
         /\ \A b \in black : Layout[b] \in Nat /\ Spaced(cells[b])
         /\ \A b, c \in black : b # c =>
              \/ Layout[b] + SizeOf(cells[b]) <= Layout[c]
              \/ Layout[c] + SizeOf(cells[c]) <= Layout[b]
<1>1. Typed /\ RootedIn(entries, cells) /\ Live /\ Len(entries) > 0
  BY DEF IInv, LayoutInv, Typed
<1>2. HeapTyped(cells) /\ black \subseteq DOMAIN cells
  BY <1>1, HeapIsTyped DEF Typed
<1>3. LaidApart(Layout, cells, entries, black)
  BY <1>1, <1>2, BlocksLieApart DEF Typed, Layout
<1>4. \A b \in black : Spaced(cells[b])
  BY <1>2, CellsAreSpaced DEF HeapTyped
<1>5. black \subseteq ToSet(entries) /\ entries[1] = Root
  BY <1>1 DEF Live, RootedIn
<1> QED BY <1>2, <1>3, <1>4, <1>5 DEF LaidApart

(* No two cells are written at one place.                                  *)
LEMMA PlacesDiffer ==
  ASSUME IInv, LayoutInv, pc = "done",
         NEW b \in black, NEW i \in DOMAIN cells[b], NEW d \in black, NEW j \in DOMAIN cells[d],
         Layout[b] + CellStart(cells[b], i) = Layout[d] + CellStart(cells[d], j)
  PROVE  b = d /\ i = j
<1>1. /\ Layout[b] \in Nat /\ Layout[d] \in Nat
      /\ CellStart(cells[b], i) \in Nat /\ CellStart(cells[b], i) < SizeOf(cells[b])
      /\ CellStart(cells[d], j) \in Nat /\ CellStart(cells[d], j) < SizeOf(cells[d])
      /\ SizeOf(cells[b]) \in Nat /\ SizeOf(cells[d]) \in Nat
  BY LayoutLiesApart DEF Spaced
<1>2. b = d
  <2>1. b # d => \/ Layout[b] + SizeOf(cells[b]) <= Layout[d]
                 \/ Layout[d] + SizeOf(cells[d]) <= Layout[b]
    BY LayoutLiesApart
  <2> QED BY <1>1, <2>1
<1>3. CellStart(cells[b], i) = CellStart(cells[b], j) /\ j \in DOMAIN cells[b]
  BY <1>1, <1>2
<1>4. i = j
  BY <1>3, LayoutLiesApart DEF Spaced
<1> QED BY <1>2, <1>4

LEMMA CellIsFound ==
  ASSUME IInv, LayoutInv, pc = "done", NEW b \in black, NEW i \in DOMAIN cells[b],
         NEW o, o = Layout[b] + CellStart(cells[b], i)
  PROVE  o \in DOMAIN out /\ out[o] = Written(cells[b][i], Layout[b], Layout)
<1>1. out = WrittenAt(Layout)
  BY DEF LayoutInv
<1>2. \A y \in Places : y[1] \in black /\ y[2] \in DOMAIN cells[y[1]] /\ y = <<y[1], y[2]>>
  BY DEF Places
<1>3. <<b, i>> \in Places /\ PlaceOf(<<b, i>>, Layout) = o
  BY DEF Places, PlaceOf
<1>4. ASSUME NEW y \in Places, PlaceOf(y, Layout) = o PROVE y = <<b, i>>
  <2>1. y[1] \in black /\ y[2] \in DOMAIN cells[y[1]] /\ y = <<y[1], y[2]>>
    BY <1>2
  <2>2. Layout[b] + CellStart(cells[b], i) = Layout[y[1]] + CellStart(cells[y[1]], y[2])
    BY <1>4 DEF PlaceOf
  <2>3. b = y[1] /\ i = y[2]
    BY <2>1, <2>2, PlacesDiffer
  <2> QED BY <2>1, <2>3
<1> DEFINE P == {PlaceOf(y, Layout) : y \in Places}
<1>5. o \in P
  BY <1>3
<1>6. (CHOOSE y \in Places : PlaceOf(y, Layout) = o) = <<b, i>>
  BY <1>3, <1>4
<1>7. out[o] = LET x == CHOOSE y \in Places : PlaceOf(y, Layout) = o
               IN Written(cells[x[1]][x[2]], Layout[x[1]], Layout)
  BY <1>1, <1>5 DEF WrittenAt
<1>8. DOMAIN out = P
  BY <1>1 DEF WrittenAt
<1> DEFINE x == CHOOSE y \in Places : PlaceOf(y, Layout) = o
<1>9. x = <<b, i>> /\ out[o] = Written(cells[x[1]][x[2]], Layout[x[1]], Layout)
  BY <1>6, <1>7
<1> HIDE DEF x, P
<1> QED BY <1>5, <1>8, <1>9

\* The cells that a block and the block of the input it stands for write.
LEMMA MatchedCells ==
  ASSUME IInv, LayoutInv, Meaning!MeaningPreserved,
         NEW b \in DOMAIN cells, NEW x \in DOMAIN input, <<b, x>> \in matches
  PROVE  /\ DOMAIN cells[b] = DOMAIN input[x]
         /\ \A i \in DOMAIN input[x] :
              /\ Meaning!SameCell(cells[b][i], input[x][i])
              /\ CellStart(cells[b], i) = CellStart(input[x], i)
              /\ IsLink(cells[b][i]) = IsLink(input[x][i])
              /\ IsLink(cells[b][i]) => /\ <<cells[b][i].p, input[x][i].p>> \in matches
                                        /\ input[x][i].p \in DOMAIN input
                                        /\ cells[b][i].p \in DOMAIN cells
<1>1. HeapTyped(cells) /\ HeapTyped(input)
  BY HeapIsTyped DEF IInv, Typed
<1>2. Meaning!Alike(cells[b], input[x], matches)
  <2> DEFINE m == <<b, x>>
  <2>1. m \in matches /\ m[1] = b /\ m[2] = x
    OBVIOUS
  <2> HIDE DEF m
  <2> QED BY <2>1 DEF Meaning!MeaningPreserved
<1>3. /\ DOMAIN cells[b] = DOMAIN input[x]
      /\ \A i \in DOMAIN input[x] :
           /\ Meaning!SameCell(cells[b][i], input[x][i])
           /\ IsLink(cells[b][i]) => <<cells[b][i].p, input[x][i].p>> \in matches
  BY <1>2, SameLink DEF Meaning!Alike
<1>4. \A i \in DOMAIN input[x] : CellStart(cells[b], i) = CellStart(input[x], i)
  <2>1. cells[b] \in Seq(Cell(DOMAIN cells)) /\ input[x] \in Seq(Cell(DOMAIN input))
    BY <1>1 DEF HeapTyped
  <2>2. \A k \in DOMAIN cells[b] : Meaning!SameCell(cells[b][k], input[x][k])
    BY <1>3
  <2>3. DOMAIN cells[b] = DOMAIN input[x]
    BY <1>3
  <2> DEFINE s == cells[b]
             t == input[x]
  <2> HIDE DEF s, t
  <2>4. \A k \in DOMAIN s : CellStart(s, k) = CellStart(t, k)
    BY <2>1, <2>2, <2>3, AlikeStart DEF s, t
  <2> QED BY <2>3, <2>4 DEF s, t
<1>5. \A i \in DOMAIN input[x] : IsLink(cells[b][i]) = IsLink(input[x][i])
  BY <1>3, SameLink DEF Meaning!SameCell
<1>6. ASSUME NEW i \in DOMAIN input[x], IsLink(cells[b][i])
      PROVE  input[x][i].p \in DOMAIN input /\ cells[b][i].p \in DOMAIN cells
  <2>1. IsLink(input[x][i]) /\ i \in DOMAIN cells[b]
    BY <1>3, <1>5, <1>6
  <2>2. input[x][i].p \in Targets(input[x]) /\ cells[b][i].p \in Targets(cells[b])
    BY <1>6, <2>1 DEF Targets
  <2> QED BY <1>1, <2>2 DEF HeapTyped
<1> QED BY <1>3, <1>4, <1>5, <1>6

LEMMA SomeCell ==
  ASSUME NEW C, NEW s \in Seq(C), s # <<>>
  PROVE  DOMAIN s # {}
<1>1. Len(s) \in Nat /\ DOMAIN s = 1..Len(s)
  BY LenProperties
<1>2. Len(s) \in Nat \ {0}
  BY EmptySeq
<1>3. 1 \in DOMAIN s
  BY <1>1, <1>2
<1> QED BY <1>3

LEMMA SmallRemainder ==
  ASSUME NEW m \in Nat, NEW d \in 0..(m - 1)
  PROVE  d % m = d
OBVIOUS

LEMMA LinkIsWritten ==
  ASSUME NEW c, c.t \in PtrTypes, c.p # Null, NEW o, NEW off,
         NEW m, m = MaxOffset16 + 1
  PROVE  /\ c.t \in Ptr16 => Written(c, o, off) = [t |-> "p16", z |-> (off[c.p] - o) % m]
         /\ c.t \notin Ptr16 => Written(c, o, off) = [t |-> "p32", z |-> (off[c.p] - o) % (m * m)]
BY DEF Written

LEMMA SquareIsNatural == \A m \in Nat : m * m \in Nat
OBVIOUS

(* A pointer that is written leads the reader to the block pointed to.     *)
LEMMA LinkIsFollowed ==
  ASSUME IInv, LayoutInv, Meaning!MeaningPreserved, WideLinksFit, pc = "done", ~tangled,
         NEW b \in black, NEW x \in DOMAIN input, <<b, x>> \in matches,
         NEW i \in DOMAIN input[x], IsLink(input[x][i]),
         NEW w, w = Written(cells[b][i], Layout[b], Layout)
  PROVE  /\ w.t = input[x][i].t /\ w.z \in Nat /\ w.z > 0
         /\ Layout[b] + w.z = Layout[cells[b][i].p] /\ cells[b][i].p \in black
<1> DEFINE c == cells[b][i]
           e == input[x][i]
           d == Layout[c.p] - Layout[b]
           base == MaxOffset16 + 1
<1>1. /\ HeapTyped(cells) /\ b \in DOMAIN cells
      /\ \A y \in black : Layout[y] \in Nat /\ Spaced(cells[y])
      /\ \A y, z \in black : y # z =>
           Layout[y] + SizeOf(cells[y]) <= Layout[z] \/ Layout[z] + SizeOf(cells[z]) <= Layout[y]
  BY LayoutLiesApart
<1>2. /\ i \in DOMAIN cells[b] /\ IsLink(c) /\ Meaning!SameCell(c, e)
      /\ <<c.p, e.p>> \in matches /\ e.p \in DOMAIN input /\ c.p \in DOMAIN cells
  BY <1>1, MatchedCells
<1>3. c.p \in black /\ c.p # b
  <2>1. c.p \in Targets(cells[b])
    BY <1>2 DEF Targets
  <2>2. c.p \in black
    BY <2>1 DEF LayoutInv, Live
  <2>3. PICK rk : Ranked(cells, rk)
    BY DEF IInv, Typed
  <2>4. rk[c.p] < rk[b] /\ rk[c.p] \in Nat
    BY <1>1, <1>2, <2>1, <2>3 DEF Ranked
  <2> QED BY <2>2, <2>4
<1>4. d \in Int /\ Layout[b] \in Nat /\ Layout[b] + d = Layout[c.p]
  BY <1>1, <1>3
<1>5. e.t \in {"p16", "p32"} /\ (e.t = "p16" => input[e.p] # <<>>)
  BY HeapsArePlain DEF LayoutInv
<1>6. c.t \in PtrTypes /\ c.p # Null /\ (c.t \in Ptr16 <=> e.t = "p16")
  <2>1. Meaning!Wide(c.t) = Meaning!Wide(e.t) /\ c.t \in PtrTypes /\ c.p # Null
    BY <1>2 DEF Meaning!SameCell, IsLink
  <2> HIDE DEF c, e
  <2> QED BY <1>5, <2>1 DEF Meaning!Wide, PtrTypes, Ptr16
<1>7. base \in Nat /\ base > 0 /\ base * base \in Nat
  BY BkConstants, SquareIsNatural
<1>8. /\ w.t = IF c.t \in Ptr16 THEN "p16" ELSE "p32"
      /\ c.t \in Ptr16 => w.z = d % base
      /\ c.t \notin Ptr16 => w.z = d % (base * base)
  <2> HIDE DEF c
  <2>1. /\ c.t \in Ptr16 => w = [t |-> "p16", z |-> d % base]
        /\ c.t \notin Ptr16 => w = [t |-> "p32", z |-> d % (base * base)]
    BY <1>6, LinkIsWritten DEF c
  <2> HIDE DEF d, base
  <2> QED BY <2>1
<1>9. CASE c.t \in Ptr16
  <2>1. d \in 0..MaxOffset16
    <3>1. Fits
      BY DEF LayoutInv
    <3>2. ~Unfit(c, b, Layout)
      BY <1>2, <3>1 DEF Fits
    <3> HIDE DEF c
    <3> QED BY <1>6, <1>9, <3>2 DEF Unfit
  <2>2. d # 0
    <3>1. cells[c.p] # <<>>
      <4>1. DOMAIN cells[c.p] = DOMAIN input[e.p]
        BY <1>2, MatchedCells
      <4>2. input[e.p] # <<>> /\ input[e.p] \in Seq(Cell(DOMAIN input))
        BY <1>2, <1>5, <1>6, <1>9, HeapIsTyped DEF IInv, Typed, HeapTyped
      <4>3. DOMAIN input[e.p] # {}
        BY <4>2, SomeCell
      <4> QED BY <4>1, <4>3
    <3>2. SizeOf(cells[c.p]) \in Nat /\ SizeOf(cells[c.p]) > 0
      BY <1>1, <1>3, <3>1 DEF Spaced
    <3>3. SizeOf(cells[b]) \in Nat /\ SizeOf(cells[b]) > 0
      <4>1. cells[b] # <<>>
        BY <1>2
      <4> QED BY <1>1, <4>1 DEF Spaced
    <3>4. \/ Layout[b] + SizeOf(cells[b]) <= Layout[c.p]
          \/ Layout[c.p] + SizeOf(cells[c.p]) <= Layout[b]
      BY <1>1, <1>3
    <3> HIDE DEF c
    <3> QED BY <1>1, <1>3, <3>2, <3>3, <3>4
  <2> HIDE DEF d, c, e
  <2>3. d % base = d
    <3>1. d \in 0..(base - 1)
      BY <1>7, <2>1, BkConstants
    <3> HIDE DEF base
    <3> QED BY <1>7, <3>1, SmallRemainder
  <2>4. w.z = d /\ d \in Nat /\ d > 0
    BY <1>8, <1>9, <2>1, <2>2, <2>3, BkConstants
  <2>5. w.t = e.t
    BY <1>6, <1>8, <1>9
  <2> QED BY <1>3, <1>4, <2>4, <2>5 DEF c, e
<1>10. CASE c.t \notin Ptr16
  <2>1. d \in 1..(base * base - 1)
    BY <1>2, <1>10 DEF WideLinksFit
  <2> HIDE DEF d, c, e
  <2>2. d % (base * base) = d
    <3> DEFINE m == base * base
    <3>1. m \in Nat /\ d \in 1..(m - 1)
      BY <1>7, <2>1
    <3> HIDE DEF m
    <3>2. d \in 0..(m - 1)
      BY <3>1
    <3>3. d % m = d
      BY <3>1, <3>2, SmallRemainder
    <3> QED BY <3>3 DEF m
  <2>3. w.z = d /\ d \in Nat /\ d > 0
    <3> DEFINE m == base * base
    <3>1. m \in Nat /\ d \in 1..(m - 1)
      BY <1>7, <2>1
    <3> HIDE DEF m
    <3>2. d \in Nat /\ d > 0
      BY <3>1
    <3> QED BY <1>8, <1>10, <2>2, <3>2
  <2>4. w.t = e.t
    BY <1>5, <1>6, <1>8, <1>10
  <2> QED BY <1>3, <1>4, <2>3, <2>4 DEF c, e
<1> QED BY <1>9, <1>10

\* What the reader asks of the block x of the input when it starts to read at o, and
\* goes on as r says.
ReadsAs(r, x, o) ==
  \A i \in DOMAIN input[x] :
    LET c == input[x][i]
        at == o + CellStart(input[x], i)
    IN /\ at \in DOMAIN out
       /\ IF IsLink(c) THEN /\ out[at].t = c.t
                            /\ out[at].z > 0
                            /\ r[c.p][o + out[at].z]
          ELSE out[at] = Written(c, 0, <<>>)

\* The reader of OutputDecodes.
IsReader(r) ==
  /\ r = [x \in DOMAIN input |-> [o \in Nat |-> ReadsAs(r, x, o)]]
  /\ OutputDecodes <=> (pc = "done" /\ ~tangled => r[Root][0])

\* The place of a block from the last one on: links lead to lower ones.
FromTheLast == [x \in DOMAIN input |-> Len(input) - x]

LEMMA InputLeadsDown ==
  ASSUME input \in Heaps
  PROVE  /\ HeapTyped(input) /\ FromTheLast \in [DOMAIN input -> Nat]
         /\ \A x \in DOMAIN input : \A p \in Targets(input[x]) :
              p \in DOMAIN input /\ FromTheLast[p] < FromTheLast[x]
<1>1. HeapTyped(input) /\ LeadsDown(input)
  BY HeapsAreClosed, HeapIsTyped
<1>2. Len(input) \in Nat /\ DOMAIN input = 1..Len(input)
  BY <1>1 DEF HeapTyped
<1>3. FromTheLast \in [DOMAIN input -> Nat]
  BY <1>2 DEF FromTheLast
<1>4. ASSUME NEW x \in DOMAIN input, NEW p \in Targets(input[x])
      PROVE  p \in DOMAIN input /\ FromTheLast[p] < FromTheLast[x]
  <2>1. p \in DOMAIN input /\ p > x
    BY <1>1 DEF HeapTyped, LeadsDown
  <2> QED BY <1>2, <2>1 DEF FromTheLast
<1> QED BY <1>1, <1>3, <1>4

(* The reader is defined: it goes from a block to later ones.              *)
LEMMA ReaderExists ==
  ASSUME input \in Heaps
  PROVE  \E r : IsReader(r)
<1> DEFINE D == DOMAIN input
           R == [Nat -> BOOLEAN]
           Body(f) == [x \in D |-> [o \in Nat |-> ReadsAs(f, x, o)]]
           F == [f \in [D -> R] |-> Body(f)]
           r == CHOOSE f : f = Body(f)
<1>1. OutputDecodes <=> (pc = "done" /\ ~tangled => r[Root][0])
  BY DEF OutputDecodes, ReadsAs
<1>2. \A f, x, o : ReadsAs(f, x, o) \in BOOLEAN
  BY DEF ReadsAs
<1>3. F \in [[D -> R] -> [D -> R]]
  <2>1. \A f \in [D -> R] : Body(f) \in [D -> R]
    BY <1>2
  <2> HIDE DEF Body
  <2> QED BY <2>1
<1>4. GoesDown(F, D, R, FromTheLast)
  <2> SUFFICES ASSUME NEW f \in [D -> R], NEW g \in [D -> R], NEW x \in D,
                      \A e \in D : FromTheLast[e] < FromTheLast[x] => f[e] = g[e]
               PROVE  F[f][x] = F[g][x]
    BY DEF GoesDown
  <2>1. \A i \in DOMAIN input[x] : IsLink(input[x][i]) => f[input[x][i].p] = g[input[x][i].p]
    BY InputLeadsDown DEF Targets
  <2>2. \A o \in Nat : ReadsAs(f, x, o) <=> ReadsAs(g, x, o)
    BY <2>1 DEF ReadsAs
  <2> QED BY <1>2, <2>2
<1>5. R # {}
  <2>1. [o \in Nat |-> TRUE] \in R
    OBVIOUS
  <2> QED BY <2>1
<1>6. FromTheLast \in [D -> Nat]
  BY InputLeadsDown
<1>7. PICK f \in [D -> R] : F[f] = f
  <2> HIDE DEF F, R, D
  <2>1. Solvable(F, D, R)
    BY <1>3, <1>4, <1>5, <1>6, RecursionSolves
  <2> QED BY <2>1 DEF Solvable
<1>8. f = Body(f)
  BY <1>7
<1>9. r = Body(r)
  <2> HIDE DEF Body
  <2> QED BY <1>8
<1> HIDE DEF r
<1>10. IsReader(r)
  BY <1>1, <1>9 DEF IsReader
<1> QED BY <1>10

LEMMA ReaderReads ==
  ASSUME IInv, LayoutInv, Meaning!MeaningPreserved, WideLinksFit, pc = "done", ~tangled,
         NEW r, IsReader(r),
         NEW x \in DOMAIN input, NEW b \in black, <<b, x>> \in matches,
         \A p \in Targets(input[x]) : \A d \in black : <<d, p>> \in matches => r[p][Layout[d]]
  PROVE  r[x][Layout[b]]
<1>1. b \in DOMAIN cells /\ Layout[b] \in Nat
  BY LayoutLiesApart
<1>2. ASSUME NEW i \in DOMAIN input[x]
      PROVE  LET c == input[x][i]
                 at == Layout[b] + CellStart(input[x], i)
             IN /\ at \in DOMAIN out
                /\ IsLink(c) => /\ out[at].t = c.t
                                /\ out[at].z > 0
                                /\ r[c.p][Layout[b] + out[at].z]
                /\ ~IsLink(c) => out[at] = Written(c, 0, <<>>)
  <2> DEFINE c == input[x][i]
             k == cells[b][i]
             at == Layout[b] + CellStart(input[x], i)
             w == Written(k, Layout[b], Layout)
  <2>1. /\ i \in DOMAIN cells[b] /\ Meaning!SameCell(k, c)
        /\ CellStart(cells[b], i) = CellStart(input[x], i)
        /\ IsLink(k) = IsLink(c)
        /\ IsLink(k) => <<k.p, c.p>> \in matches
    BY <1>1, MatchedCells
  <2>2. at \in DOMAIN out /\ out[at] = w
    BY <2>1, CellIsFound
  <2>3. ASSUME IsLink(c)
        PROVE  w.t = c.t /\ w.z > 0 /\ r[c.p][Layout[b] + w.z]
    <3>1. /\ w.t = c.t /\ w.z > 0
          /\ Layout[b] + w.z = Layout[k.p] /\ k.p \in black
      BY <2>3, LinkIsFollowed
    <3>2. c.p \in Targets(input[x])
      BY <2>3 DEF Targets
    <3>3. <<k.p, c.p>> \in matches
      BY <2>1, <2>3
    <3> HIDE DEF c, k, w
    <3>4. r[c.p][Layout[k.p]]
      BY <3>1, <3>2, <3>3
    <3> QED BY <3>1, <3>4
  <2>4. ASSUME ~IsLink(c)
        PROVE  w = Written(c, 0, <<>>)
    <3>1. k = c
      BY <2>1, <2>4, SameLink DEF Meaning!SameCell
    <3> HIDE DEF c, k
    <3> QED BY <2>4, <3>1 DEF Written, IsLink, w
  <2> HIDE DEF w, at, c
  <2> QED BY <2>2, <2>3, <2>4 DEF at, c
<1>3. ReadsAs(r, x, Layout[b])
  BY <1>2 DEF ReadsAs
<1> QED BY <1>1, <1>3 DEF IsReader

(* The finished table decodes.                                             *)
LEMMA TableDecodes ==
  ASSUME IInv, LayoutInv, Meaning!MeaningPreserved, WideLinksFit
  PROVE  OutputDecodes
<1>1. input \in Heaps
  BY DEF LayoutInv
<1>2. PICK r : IsReader(r)
  BY <1>1, ReaderExists
<1>3. ASSUME pc = "done", ~tangled PROVE r[Root][0]
  <2> DEFINE D == DOMAIN input
             Good == {x \in D : \A b \in black : <<b, x>> \in matches => r[x][Layout[b]]}
  <2>1. ASSUME NEW x \in D, \A p \in D : FromTheLast[p] < FromTheLast[x] => p \in Good
        PROVE  x \in Good
    <3> SUFFICES ASSUME NEW b \in black, <<b, x>> \in matches PROVE r[x][Layout[b]]
      OBVIOUS
    <3>1. \A p \in Targets(input[x]) : p \in Good
      BY <1>1, <2>1, InputLeadsDown
    <3>2. \A p \in Targets(input[x]) : \A d \in black : <<d, p>> \in matches => r[p][Layout[d]]
      BY <3>1
    <3> HIDE DEF Good
    <3> QED BY <1>2, <1>3, <3>2, ReaderReads
  <2>2. \A x \in D : (\A p \in D : FromTheLast[p] < FromTheLast[x] => p \in Good) => x \in Good
    BY <2>1
  <2>3. FromTheLast \in [D -> Nat] /\ Root \in D
    BY <1>1, InputLeadsDown DEF HeapTyped
  <2>4. D \subseteq Good
    <3> HIDE DEF Good, D
    <3> QED BY <2>2, <2>3, InductionOnRank
  <2>5. Root \in Good
    BY <2>3, <2>4
  <2>6. <<Root, Root>> \in matches
    BY DEF Meaning!MeaningPreserved, Meaning!Root, Root
  <2>7. Root \in black /\ Layout[Root] = 0
    <3>1. Root \in black
      BY <1>3 DEF LayoutInv, Live
    <3> QED BY <1>3, <3>1, LayoutLiesApart
  <2>8. \A b \in black : <<b, Root>> \in matches => r[Root][Layout[b]]
    BY <2>5
  <2> HIDE DEF Good, D
  <2> QED BY <2>6, <2>7, <2>8
<1> QED BY <1>2, <1>3 DEF IsReader

(* When the last pass of bk_untangleGraph copied nothing, whoever follows   *)
(* the offsets bk_build_Graph wrote finds the tree that was handed over,    *)
(* as long as the 32-bit pointers, which the pass does not look at, fit.    *)
THEOREM LayoutDecodes == Spec => [](WideLinksFit => OutputDecodes)
<1>1. IInv /\ LayoutInv /\ Meaning!MeaningPreserved => (WideLinksFit => OutputDecodes)
  BY TableDecodes
<1> QED BY <1>1, Invariant, LayoutInvariant, GraphMeansTree, PTL

-----------------------------------------------------------------------------
\* Heaps without 32-bit pointers, as GDEF, BASE, VDMX and the lookups that need no
\* extension make them.
HeapsAreNarrow ==
  \A h \in Heaps : \A b \in DOMAIN h : \A i \in DOMAIN h[b] : IsLink(h[b][i]) => h[b][i].t = "p16"

\* The same of the graph: merging and copying blocks make no pointer wide.
Narrow == \A b \in DOMAIN cells : \A i \in DOMAIN cells[b] : IsLink(cells[b][i]) => cells[b][i].t \in Ptr16

LEMMA RewriteStaysNarrow ==
  ASSUME Narrow, Meaning!Rewrite
  PROVE  Narrow'
<1> SUFFICES ASSUME NEW b \in DOMAIN cells', NEW i \in DOMAIN cells'[b], IsLink(cells'[b][i])
             PROVE  cells'[b][i].t \in Ptr16
  BY DEF Narrow
<1> DEFINE a == from'[b]
           c == cells'[b][i]
           s == cells[a][i]
<1>1. a \in DOMAIN cells /\ Meaning!Alike(cells'[b], cells[a], Meaning!StandsFor)
  BY DEF Meaning!Rewrite
<1>2. i \in DOMAIN cells[a] /\ Meaning!SameCell(c, s)
  BY <1>1 DEF Meaning!Alike
<1>3. IsLink(c) /\ IsLink(s) /\ Meaning!Wide(c.t) = Meaning!Wide(s.t)
  BY <1>2, SameLink DEF Meaning!SameCell
<1>4. s.t \in Ptr16
  BY <1>1, <1>2, <1>3 DEF Narrow
<1> HIDE DEF c, s
<1>5. c.t \in Ptr16
  BY <1>3, <1>4 DEF Meaning!Wide, Ptr16, IsLink, PtrTypes
<1> QED BY <1>5 DEF c

(* A table without 32-bit pointers needs no such condition: it decodes      *)
(* whenever the last pass copied nothing.                                   *)
THEOREM NarrowTablesDecode ==
  ASSUME HeapsAreNarrow
  PROVE  Spec => []OutputDecodes
<1>1. Init => Narrow
  BY DEF Init, Narrow, HeapsAreNarrow, Ptr16
<1>2. IInv /\ Narrow /\ [Next]_vars => Narrow'
  <2> SUFFICES ASSUME IInv, Narrow, [Next]_vars PROVE Narrow'
    OBVIOUS
  <2>1. CASE MinimizeLevel
    BY <2>1, MinimizeLevelRewrites, RewriteStaysNarrow
  <2>2. CASE TryUntangle
    BY <2>2, TryUntangleRewrites, RewriteStaysNarrow
  <2>3. CASE NewGraph \/ MinimizeDone \/ Attract \/ Build \/ UNCHANGED vars
    <3>1. cells' = cells
      BY <2>3 DEF NewGraph, MinimizeDone, Attract, Build, vars
    <3> QED BY <3>1 DEF Narrow
  <2> QED BY <2>1, <2>2, <2>3 DEF Next, Done
<1>3. IInv /\ LayoutInv /\ Narrow => WideLinksFit
  <2> SUFFICES ASSUME IInv, LayoutInv, Narrow, pc = "done", NEW b \in black,
                      NEW i \in DOMAIN cells[b], IsLink(cells[b][i])
               PROVE  cells[b][i].t \in Ptr16
    BY DEF WideLinksFit
  <2>1. b \in DOMAIN cells
    BY LayoutLiesApart
  <2> QED BY <2>1 DEF Narrow
<1> QED BY <1>1, <1>2, <1>3, LayoutDecodes, Invariant, LayoutInvariant, PTL DEF Spec
=============================================================================
