------------------------ MODULE SfntContainer_proofs ------------------------
(***************************************************************************)
(* The file that the builder writes is sound and read back as it was       *)
(* built, for every list of tables that fits a file and every base: the    *)
(* digits of a number give it back, sums of words are sums modulo the word *)
(* size, tables stand where the directory says, and the adjustment makes   *)
(* the whole add up to the magic number whatever the tables hold.          *)
(***************************************************************************)
EXTENDS SfntContainer, OtlGlyphSets_proofs

-----------------------------------------------------------------------------
(* Numbers and their digits.                                               *)

\* A number is its quotient and its remainder.
LEMMA Division ==
  ASSUME NEW d \in Nat, d > 0, NEW n \in Int
  PROVE  /\ n \div d \in Int /\ n % d \in 0..(d - 1)
         /\ n = d * (n \div d) + (n % d)
OBVIOUS

\* There is one way to write it so.
LEMMA DivisionIsUnique ==
  ASSUME NEW d \in Nat, d > 0, NEW n \in Int, NEW q \in Int, NEW r \in 0..(d - 1), n = d * q + r
  PROVE  n \div d = q /\ n % d = r
OBVIOUS

\* The last two digits of a number, taken one after the other or at once.
LEMMA TwoDigits ==
  ASSUME NEW d \in Nat, d > 0, NEW n \in Int
  PROVE  d * ((n \div d) % d) + (n % d) = n % (d * d)
OBVIOUS

\* A sum may wrap before or after the last addition.
LEMMA SumsWrap ==
  ASSUME NEW d \in Nat, d > 0, NEW a \in Int, NEW b \in Int
  PROVE  ((a % d) + b) % d = (a + b) % d
<1> DEFINE q == a \div d
           r == a % d
           p == (r + b) \div d
           s == (r + b) % d
<1>1. q \in Int /\ r \in Int /\ a = d * q + r
  BY Division
<1>2. r + b \in Int
  BY <1>1
<1> HIDE DEF q, r
<1>3. p \in Int /\ s \in 0..(d - 1) /\ r + b = d * p + s
  BY <1>2, Division
<1> HIDE DEF p, s
<1>4. a + b = d * (q + p) + s /\ q + p \in Int /\ a + b \in Int
  BY <1>1, <1>3
<1>5. (a + b) % d = s
  BY <1>3, <1>4, DivisionIsUnique
<1> QED BY <1>5 DEF r, s

\* What is below the divisor is its own remainder.
LEMMA SmallStays == ASSUME NEW d \in Nat, d > 0, NEW n \in 0..(d - 1) PROVE n % d = n
OBVIOUS

\* A fold over places takes the greatest one last.
LEMMA MaxUpTo ==
  ASSUME NEW n \in Nat, NEW t \in SUBSET (1..n), t # {}
  PROVE  Max(t) \in 1..n /\ t \ {Max(t)} \in SUBSET (1..n)
<1>1. IsFiniteSet(t)
  <2>1. IsFiniteSet(1..n)
    BY FS_Interval
  <2> QED BY <2>1, FS_Subset
<1>2. t \subseteq Nat
  OBVIOUS
<1>3. Max(t) \in t
  BY <1>1, <1>2, MaxOfFinite
<1> QED BY <1>3

\* The numbers that the first bytes from i on make.
IsField(g, bytes, i, n) ==
  /\ g \in [0..n -> Int] /\ g[0] = 0
  /\ \A k \in 1..n : g[k] = ByteBase * g[k - 1] + bytes[i + k]

\* A field is folded byte by byte from a chain of partial numbers.
LEMMA FieldIsChain ==
  ASSUME NEW bytes, NEW i, NEW n \in Nat, \A k \in 1..n : bytes[i + k] \in Int
  PROVE  \E g : IsField(g, bytes, i, n) /\ FieldAt(bytes, i, n) = g[n]
<1> DEFINE base == 0
           q == [k \in 1..n |-> k]
           op(x, r) == ByteBase * r + bytes[i + q[x]]
           step == [p \in (1..n) \X Int |-> op(p[1], p[2])]
           Body(it) == [t \in SUBSET (1..n) |->
                          IF t = {} THEN base ELSE op(Max(t), it[t \ {Max(t)}])]
           iter == CHOOSE it : it = Body(it)
<1>1. base \in Int
  OBVIOUS
<1>2. \A x \in 1..n, r \in Int : op(x, r) \in Int
  BY BaseHolds
<1>3. FieldAt(bytes, i, n) = iter[1..n]
  <2>1. DOMAIN q = 1..n
    OBVIOUS
  <2>2. FieldAt(bytes, i, n) = FoldLeft(LAMBDA r, x : ByteBase * r + bytes[i + x], 0, q)
    BY DEF FieldAt
  <2> HIDE DEF q
  <2> QED BY <2>1, <2>2 DEF FoldLeft, MapThenFoldSet
<1>4. \A x \in 1..n, r \in Int : op(x, r) = ByteBase * r + bytes[i + x]
  OBVIOUS
<1> HIDE DEF op, base, q
<1>5. step \in [(1..n) \X Int -> Int]
  BY <1>2
<1>6. \A x \in 1..n, r \in Int : step[<<x, r>>] = op(x, r)
  OBVIOUS
<1> HIDE DEF step
<1>7. iter = Body(iter)
  <2>1. PICK it \in [SUBSET (1..n) -> Int] : FoldsBack(it, n, base, step)
    BY <1>1, <1>5, FoldSolves
  <2>2. it = Body(it)
    <3>1. it = [t \in SUBSET (1..n) |-> it[t]]
      OBVIOUS
    <3>2. ASSUME NEW t \in SUBSET (1..n)
          PROVE  it[t] = IF t = {} THEN base ELSE op(Max(t), it[t \ {Max(t)}])
      <4>1. t # {} => Max(t) \in 1..n /\ t \ {Max(t)} \in SUBSET (1..n)
        BY MaxUpTo
      <4> QED BY <1>6, <2>1, <4>1 DEF FoldsBack
    <3> QED BY <3>1, <3>2
  <2> QED BY <2>2
<1>8. /\ iter[{}] = base
      /\ \A t \in SUBSET (1..n) :
           t # {} /\ Max(t) \in 1..n /\ iter[t \ {Max(t)}] \in Int =>
             iter[t] = step[<<Max(t), iter[t \ {Max(t)}]>>]
  BY <1>6, <1>7
<1> HIDE DEF iter
<1>9. EndsAt(n, Int, base, step, iter[1..n])
  BY <1>1, <1>5, <1>8, FoldClimbs
<1>10. PICK g \in [0..n -> Int] :
         g[0] = base /\ iter[1..n] = g[n] /\ \A k \in 1..n : g[k] = step[<<k, g[k - 1]>>]
  BY <1>9 DEF EndsAt
<1>11. \A k \in 1..n : g[k] = ByteBase * g[k - 1] + bytes[i + k]
  <2> SUFFICES ASSUME NEW k \in 1..n PROVE g[k] = ByteBase * g[k - 1] + bytes[i + k]
    OBVIOUS
  <2>1. g[k - 1] \in Int
    OBVIOUS
  <2> QED BY <1>4, <1>6, <1>10, <2>1
<1> QED BY <1>3, <1>10, <1>11 DEF IsField, base

\* A field of two bytes.
LEMMA FieldOfTwo ==
  ASSUME NEW bytes, NEW i, bytes[i + 1] \in Int, bytes[i + 2] \in Int
  PROVE  FieldAt(bytes, i, 2) = ByteBase * bytes[i + 1] + bytes[i + 2]
<1>1. \A k \in 1..2 : bytes[i + k] \in Int
  <2>1. 1..2 = {1, 2}
    OBVIOUS
  <2> QED BY <2>1
<1>2. PICK g : IsField(g, bytes, i, 2) /\ FieldAt(bytes, i, 2) = g[2]
  BY <1>1, FieldIsChain
<1>3. g[0] = 0 /\ g[1] = ByteBase * g[0] + bytes[i + 1] /\ g[2] = ByteBase * g[1] + bytes[i + 2]
  BY <1>2 DEF IsField
<1>4. g[1] = bytes[i + 1]
  BY <1>3, BaseHolds
<1> QED BY <1>2, <1>3, <1>4

\* A field of four bytes.
LEMMA FieldOfFour ==
  ASSUME NEW bytes, NEW i, NEW a \in Int, NEW b \in Int, NEW c \in Int, NEW d \in Int,
         bytes[i + 1] = a, bytes[i + 2] = b, bytes[i + 3] = c, bytes[i + 4] = d
  PROVE  FieldAt(bytes, i, 4) = (ByteBase * ByteBase) * (ByteBase * a + b) + (ByteBase * c + d)
<1>1. \A k \in 1..4 : bytes[i + k] \in Int
  <2>1. 1..4 = {1, 2, 3, 4}
    OBVIOUS
  <2> QED BY <2>1
<1>2. PICK g : IsField(g, bytes, i, 4) /\ FieldAt(bytes, i, 4) = g[4]
  BY <1>1, FieldIsChain
<1>3. /\ g[0] = 0 /\ g[1] = ByteBase * g[0] + a /\ g[2] = ByteBase * g[1] + b
      /\ g[3] = ByteBase * g[2] + c /\ g[4] = ByteBase * g[3] + d
  BY <1>2 DEF IsField
<1>4. g[1] = a /\ g[2] = ByteBase * a + b
  BY <1>3, BaseHolds
<1>5. g[4] = ByteBase * (ByteBase * (ByteBase * a + b) + c) + d
  BY <1>3, <1>4
<1>6. \A p, q \in Int : ByteBase * (ByteBase * p + q) + d = (ByteBase * ByteBase) * p + (ByteBase * q + d)
  BY BaseHolds
<1>7. ByteBase * a + b \in Int
  BY BaseHolds
<1> QED BY <1>2, <1>5, <1>6, <1>7

-----------------------------------------------------------------------------
(* Fields, sums and patches of byte sequences.                             *)

\* Four bytes have as many values as two times two.
LEMMA LongBaseHolds ==
  /\ LongBase \in Nat /\ LongBase > 0 /\ LongBase = (ByteBase * ByteBase) * (ByteBase * ByteBase)
  /\ ByteBase * ByteBase \in Nat /\ ByteBase * ByteBase > 0
BY BaseHolds DEF LongBase

\* Two and four bytes that make n, as far as they reach.
LEMMA ShortHolds ==
  ASSUME NEW n \in Int
  PROVE  /\ Short(n) \in Seq(ByteValues) /\ Len(Short(n)) = 2
         /\ Short(n)[1] \in ByteValues /\ Short(n)[2] \in ByteValues
         /\ ByteBase * Short(n)[1] + Short(n)[2] = n % (ByteBase * ByteBase)
<1> DEFINE a == (n \div ByteBase) % ByteBase
           b == n % ByteBase
<1>1. Byte(n, ByteBase) = a /\ Byte(n, 1) = b
  <2>1. n \div 1 = n
    OBVIOUS
  <2> QED BY <2>1 DEF Byte
<1>2. Short(n) = <<a, b>>
  BY <1>1 DEF Short
<1>3. a \in ByteValues /\ b \in ByteValues
  <2>1. n \div ByteBase \in Int
    BY BaseHolds
  <2> QED BY <2>1, BaseHolds, Division DEF ByteValues
<1>4. ByteBase * a + b = n % (ByteBase * ByteBase)
  <2>1. \A d \in Nat : d > 0 => d * ((n \div d) % d) + (n % d) = n % (d * d)
    BY TwoDigits
  <2>2. ByteBase \in Nat /\ ByteBase > 0
    BY BaseHolds
  <2>3. ByteBase * ((n \div ByteBase) % ByteBase) + (n % ByteBase) = n % (ByteBase * ByteBase)
    BY ONLY <2>1, <2>2, Zenon
  <2> QED BY <2>3, Zenon
<1> HIDE DEF a, b
<1> QED BY <1>2, <1>3, <1>4

IsLong(w, n) ==
  /\ w \in Seq(ByteValues) /\ Len(w) = 4 /\ \A k \in 1..4 : w[k] \in ByteValues
  /\ (ByteBase * ByteBase) * (ByteBase * w[1] + w[2]) + (ByteBase * w[3] + w[4]) = n % LongBase

\* Long writes the four lowest digits of any number, a negative one wrapped.
LEMMA LongHolds == ASSUME NEW n \in Int PROVE IsLong(Long(n), n)
<1> DEFINE d == ByteBase * ByteBase
           m == n \div d
           s == Short(m)
           t == Short(n)
           w == Long(n)
<1>0. d \in Nat /\ d > 0 /\ LongBase = d * d
  BY LongBaseHolds
<1>1. m \in Int
  BY <1>0, Division
<1>2. w = s \o t
  BY DEF Long
<1> HIDE DEF m, w
<1>3. /\ s \in Seq(ByteValues) /\ Len(s) = 2 /\ s[1] \in ByteValues /\ s[2] \in ByteValues
      /\ ByteBase * s[1] + s[2] = m % d
  BY <1>1, ShortHolds
<1>4. /\ t \in Seq(ByteValues) /\ Len(t) = 2 /\ t[1] \in ByteValues /\ t[2] \in ByteValues
      /\ ByteBase * t[1] + t[2] = n % d
  BY ShortHolds
<1>5. d * (m % d) + (n % d) = n % LongBase
  BY <1>0, TwoDigits DEF m
<1> HIDE DEF d, s, t
<1>6. w \in Seq(ByteValues) /\ Len(w) = 4 /\ w[1] = s[1] /\ w[2] = s[2] /\ w[3] = t[1] /\ w[4] = t[2]
  <2>1. /\ s \o t \in Seq(ByteValues) /\ Len(s \o t) = 2 + 2
        /\ \A i \in 1..(2 + 2) : (s \o t)[i] = IF i <= 2 THEN s[i] ELSE t[i - 2]
    <3>1. /\ s \o t \in Seq(ByteValues) /\ Len(s \o t) = Len(s) + Len(t)
          /\ \A i \in 1..(Len(s) + Len(t)) : (s \o t)[i] = IF i <= Len(s) THEN s[i] ELSE t[i - Len(s)]
      BY <1>3, <1>4, ConcatProperties
    <3> QED BY <1>3, <1>4, <3>1
  <2> DEFINE u == s \o t
  <2> HIDE DEF u
  <2>2. /\ u \in Seq(ByteValues) /\ Len(u) = 2 + 2
        /\ \A i \in 1..(2 + 2) : u[i] = IF i <= 2 THEN s[i] ELSE t[i - 2]
    BY <2>1 DEF u
  <2>3. u[1] = s[1] /\ u[2] = s[2] /\ u[3] = t[1] /\ u[4] = t[2]
    BY <2>2
  <2> QED BY <1>2, <2>2, <2>3 DEF u
<1>7. \A k \in 1..4 : w[k] \in ByteValues
  <2>1. 1..4 = {1, 2, 3, 4}
    OBVIOUS
  <2> QED BY <1>3, <1>4, <1>6, <2>1
<1>8. d * (ByteBase * w[1] + w[2]) + (ByteBase * w[3] + w[4]) = n % LongBase
  BY <1>3, <1>4, <1>5, <1>6
<1> QED BY <1>6, <1>7, <1>8 DEF IsLong, w, d

\* Whoever looks for n where four bytes of it stand finds it, as far as they reach.
LEMMA LongIsRead ==
  ASSUME NEW n \in Int, NEW bytes, NEW i, \A k \in 1..4 : bytes[i + k] = Long(n)[k]
  PROVE  FieldAt(bytes, i, 4) = n % LongBase
<1> DEFINE w == Long(n)
<1>1. IsLong(w, n)
  BY LongHolds
<1> HIDE DEF w
<1>2. \A k \in 1..4 : w[k] \in Int
  <2>1. \A k \in 1..4 : w[k] \in ByteValues
    BY <1>1 DEF IsLong
  <2>2. \A b \in ByteValues : b \in Int
    BY BaseHolds DEF ByteValues
  <2> QED BY <2>1, <2>2
<1>3. bytes[i + 1] = w[1] /\ bytes[i + 2] = w[2] /\ bytes[i + 3] = w[3] /\ bytes[i + 4] = w[4]
  BY DEF w
<1>4. FieldAt(bytes, i, 4) = (ByteBase * ByteBase) * (ByteBase * w[1] + w[2]) + (ByteBase * w[3] + w[4])
  <2>1. bytes[i + 1] \in Int /\ bytes[i + 2] \in Int /\ bytes[i + 3] \in Int /\ bytes[i + 4] \in Int
    BY <1>2, <1>3
  <2>2. FieldAt(bytes, i, 4) = (ByteBase * ByteBase) * (ByteBase * bytes[i + 1] + bytes[i + 2])
                                 + (ByteBase * bytes[i + 3] + bytes[i + 4])
    <3>1. \A k \in 1..4 : bytes[i + k] \in Int
      BY <2>1
    <3> QED BY <3>1, FieldOfFour
  <2> QED BY ONLY <1>3, <2>2
<1> QED BY <1>1, <1>4 DEF IsLong

\* What Short wrote is read from wherever it stands.
LEMMA ShortIsRead ==
  ASSUME NEW n \in Int, NEW bytes, NEW i, \A k \in 1..2 : bytes[i + k] = Short(n)[k]
  PROVE  FieldAt(bytes, i, 2) = n % (ByteBase * ByteBase)
<1> DEFINE w == Short(n)
<1>1. w[1] \in ByteValues /\ w[2] \in ByteValues /\ ByteBase * w[1] + w[2] = n % (ByteBase * ByteBase)
  BY ShortHolds
<1>2. bytes[i + 1] = w[1] /\ bytes[i + 2] = w[2]
  OBVIOUS
<1> HIDE DEF w
<1>3. FieldAt(bytes, i, 2) = ByteBase * w[1] + w[2]
  BY <1>1, <1>2, FieldOfTwo DEF ByteValues
<1> QED BY <1>1, <1>3

-----------------------------------------------------------------------------
(* Bytes: filled up to words, and with some of them replaced.              *)

\* Alignment adds zeros up to a whole word.
LEMMA AlignedHolds ==
  ASSUME NEW bytes \in Seq(ByteValues)
  PROVE  LET w == Aligned(bytes)
         IN  /\ w \in Seq(ByteValues) /\ Len(w) \in Nat /\ Len(w) % 4 = 0
             /\ Len(bytes) <= Len(w)
             /\ \A i \in 1..Len(bytes) : w[i] = bytes[i]
             /\ Len(bytes) % 4 = 0 => w = bytes
<1> DEFINE n == Len(bytes)
           pad == (4 - (n % 4)) % 4
           zeros == [k \in 1..pad |-> 0]
           w == Aligned(bytes)
<1>1. n \in Nat
  BY LenProperties
<1>2. pad \in 0..3 /\ (n + pad) % 4 = 0 /\ (n % 4 = 0 => pad = 0)
  BY <1>1
<1>3. w = bytes \o zeros
  BY DEF Aligned
<1> HIDE DEF pad, n, w
<1>4. zeros \in Seq(ByteValues) /\ Len(zeros) = pad
  <2>1. 0 \in ByteValues /\ pad \in Nat
    BY BaseHolds, <1>2 DEF ByteValues
  <2>2. zeros \in [1..pad -> ByteValues]
    BY <2>1
  <2> QED BY <2>1, <2>2
<1> HIDE DEF zeros
<1>5. /\ w \in Seq(ByteValues) /\ Len(w) = n + pad
      /\ \A i \in 1..n : w[i] = bytes[i]
  <2> DEFINE u == bytes \o zeros
  <2>1. /\ u \in Seq(ByteValues) /\ Len(u) = Len(bytes) + Len(zeros)
        /\ \A i \in 1..(Len(bytes) + Len(zeros)) : u[i] = IF i <= Len(bytes) THEN bytes[i] ELSE zeros[i - Len(bytes)]
    BY <1>4, ConcatProperties
  <2> HIDE DEF u
  <2>2. \A i \in 1..n : i \in 1..(Len(bytes) + Len(zeros)) /\ i <= Len(bytes)
    BY <1>1, <1>2, <1>4 DEF n
  <2>3. \A i \in 1..n : u[i] = bytes[i]
    BY <2>1, <2>2
  <2>4. Len(u) = n + pad
    BY <2>1, <1>4 DEF n
  <2> QED BY <1>3, <2>1, <2>3, <2>4 DEF u
<1>6. n % 4 = 0 => w = bytes
  <2> SUFFICES ASSUME n % 4 = 0 PROVE w = bytes
    OBVIOUS
  <2>1. Len(w) = Len(bytes)
    BY <1>1, <1>2, <1>5 DEF n
  <2> QED BY <1>1, <1>5, <2>1, SeqEqual DEF n
<1> QED BY <1>1, <1>2, <1>5, <1>6 DEF w, n

\* A patch of four bytes changes these and no others.
LEMMA PatchedHolds ==
  ASSUME NEW X, NEW bytes \in Seq(X), NEW at \in Nat, NEW new \in Seq(X), Len(new) = 4
  PROVE  LET w == Patched(bytes, at, new)
         IN  /\ w \in Seq(X) /\ Len(w) = Len(bytes)
             /\ \A i \in 1..Len(bytes) :
                  w[i] = IF i - at \in 1..4 THEN new[i - at] ELSE bytes[i]
<1> DEFINE w == Patched(bytes, at, new)
<1>1. DOMAIN bytes = 1..Len(bytes) /\ Len(bytes) \in Nat /\ DOMAIN new = 1..4
  BY LenProperties
<1>2. /\ \A i \in 1..Len(bytes) : bytes[i] \in X
      /\ \A i \in 1..4 : new[i] \in X
  BY <1>1, ElementOfSeq
<1>3. w = [i \in 1..Len(bytes) |-> IF i - at \in 1..4 THEN new[i - at] ELSE bytes[i]]
  BY <1>1 DEF Patched
<1> HIDE DEF w
<1>4. w \in [1..Len(bytes) -> X]
  BY <1>2, <1>3
<1>5. w \in Seq(X) /\ Len(w) = Len(bytes)
  BY <1>1, <1>4
<1> QED BY <1>3, <1>5 DEF w

-----------------------------------------------------------------------------
(* Sums of words.                                                          *)

WordOf(w, k) == FieldAt(w, 4 * k - 4, 4)

IsTotal(g, w) ==
  /\ g \in [0..(Len(w) \div 4) -> 0..(LongBase - 1)] /\ g[0] = 0
  /\ \A k \in 1..(Len(w) \div 4) : g[k] = (g[k - 1] + WordOf(w, k)) % LongBase

\* A word is a number that four bytes hold.
LEMMA WordIsNumber ==
  ASSUME NEW w \in Seq(ByteValues), NEW k \in 1..(Len(w) \div 4)
  PROVE  WordOf(w, k) \in Int
<1> DEFINE i == 4 * k - 4
<1>0. Len(w) \in Nat
  BY LenProperties
<1>1. i + 1 \in 1..Len(w) /\ i + 2 \in 1..Len(w) /\ i + 3 \in 1..Len(w) /\ i + 4 \in 1..Len(w)
  BY <1>0
<1> HIDE DEF i
<1>2. w[i + 1] \in Int /\ w[i + 2] \in Int /\ w[i + 3] \in Int /\ w[i + 4] \in Int
  <2>1. \A j \in 1..Len(w) : w[j] \in ByteValues
    BY ElementOfSeq
  <2>2. ByteValues \subseteq Int
    BY BaseHolds DEF ByteValues
  <2> QED BY <1>1, <2>1, <2>2
<1>3. FieldAt(w, i, 4) = (ByteBase * ByteBase) * (ByteBase * w[i + 1] + w[i + 2]) + (ByteBase * w[i + 3] + w[i + 4])
  BY <1>2, FieldOfFour
<1>4. \A a, b, c, d, e, f \in Int : f * (e * a + b) + (e * c + d) \in Int
  OBVIOUS
<1>5. ByteBase \in Int /\ ByteBase * ByteBase \in Int
  BY BaseHolds
<1>6. (ByteBase * ByteBase) * (ByteBase * w[i + 1] + w[i + 2]) + (ByteBase * w[i + 3] + w[i + 4]) \in Int
  BY ONLY <1>2, <1>4, <1>5, Zenon
<1>7. FieldAt(w, i, 4) \in Int
  BY <1>3, <1>6, Zenon
<1> QED BY <1>7 DEF WordOf, i

\* A total is summed word by word from a chain of partial sums.
LEMMA TotalIsChain ==
  ASSUME NEW bytes \in Seq(ByteValues)
  PROVE  LET w == Aligned(bytes) IN \E g : IsTotal(g, w) /\ Total(bytes) = g[Len(w) \div 4]
<1> DEFINE w == Aligned(bytes)
           n == Len(w) \div 4
           R == 0..(LongBase - 1)
           base == 0
           q == [k \in 1..n |-> k]
           op(x, r) == (r + FieldAt(w, 4 * q[x] - 4, 4)) % LongBase
           step == [p \in (1..n) \X R |-> op(p[1], p[2])]
           Body(it) == [t \in SUBSET (1..n) |->
                          IF t = {} THEN base ELSE op(Max(t), it[t \ {Max(t)}])]
           iter == CHOOSE it : it = Body(it)
<1>0. w \in Seq(ByteValues) /\ Len(w) \in Nat
  BY AlignedHolds
<1>1. base \in R
  BY LongBaseHolds
<1>3. Total(bytes) = iter[1..n]
  <2>1. DOMAIN q = 1..n
    OBVIOUS
  <2>2. Total(bytes) = FoldLeft(LAMBDA r, x : (r + FieldAt(w, 4 * x - 4, 4)) % LongBase, 0, q)
    BY DEF Total
  <2> HIDE DEF q, w
  <2> QED BY <2>1, <2>2 DEF FoldLeft, MapThenFoldSet
<1> HIDE DEF w
<1>13. n \in Nat
  BY <1>0
<1> HIDE DEF n
<1>4. \A x \in 1..n, r \in R : op(x, r) = (r + WordOf(w, x)) % LongBase
  BY DEF WordOf
<1>2. \A x \in 1..n, r \in R : op(x, r) \in R
  <2> SUFFICES ASSUME NEW x \in 1..n, NEW r \in R PROVE op(x, r) \in R
    OBVIOUS
  <2>1. WordOf(w, x) \in Int
    BY <1>0, WordIsNumber DEF n
  <2> DEFINE v == r + WordOf(w, x)
  <2>2. v \in Int
    BY <2>1, LongBaseHolds
  <2>3. op(x, r) = v % LongBase
    BY <1>4
  <2> HIDE DEF v, op
  <2> QED BY <2>2, <2>3, LongBaseHolds, Division
<1> HIDE DEF op, base, q
<1>5. step \in [(1..n) \X R -> R]
  BY <1>2
<1>6. \A x \in 1..n, r \in R : step[<<x, r>>] = op(x, r)
  OBVIOUS
<1> HIDE DEF step, R
<1>7. iter = Body(iter)
  <2>1. PICK it \in [SUBSET (1..n) -> R] : FoldsBack(it, n, base, step)
    BY <1>1, <1>5, <1>13, FoldSolves
  <2>2. it = Body(it)
    <3>1. it = [t \in SUBSET (1..n) |-> it[t]]
      OBVIOUS
    <3>2. ASSUME NEW t \in SUBSET (1..n)
          PROVE  it[t] = IF t = {} THEN base ELSE op(Max(t), it[t \ {Max(t)}])
      <4>1. t # {} => Max(t) \in 1..n /\ t \ {Max(t)} \in SUBSET (1..n)
        BY <1>13, MaxUpTo
      <4> QED BY <1>6, <2>1, <4>1 DEF FoldsBack
    <3> QED BY <3>1, <3>2
  <2> QED BY <2>2
<1>8. /\ iter[{}] = base
      /\ \A t \in SUBSET (1..n) :
           t # {} /\ Max(t) \in 1..n /\ iter[t \ {Max(t)}] \in R =>
             iter[t] = step[<<Max(t), iter[t \ {Max(t)}]>>]
  BY <1>6, <1>7
<1> HIDE DEF iter
<1>9. EndsAt(n, R, base, step, iter[1..n])
  BY <1>1, <1>5, <1>8, <1>13, FoldClimbs
<1>10. PICK g \in [0..n -> R] :
         g[0] = base /\ iter[1..n] = g[n] /\ \A k \in 1..n : g[k] = step[<<k, g[k - 1]>>]
  BY <1>9 DEF EndsAt
<1>11. \A k \in 1..n : g[k] = (g[k - 1] + WordOf(w, k)) % LongBase
  <2> SUFFICES ASSUME NEW k \in 1..n PROVE g[k] = (g[k - 1] + WordOf(w, k)) % LongBase
    OBVIOUS
  <2>1. g[k - 1] \in R
    BY <1>13
  <2> QED BY <1>4, <1>6, <1>10, <2>1
<1>12. IsTotal(g, w)
  BY <1>10, <1>11 DEF IsTotal, n, R, base
<1> QED BY <1>3, <1>10, <1>12 DEF w, n

-----------------------------------------------------------------------------
(* The head of the file.                                                   *)

\* w is s with t after it.
IsJoin(w, X, s, t) ==
  /\ w \in Seq(X) /\ Len(w) = Len(s) + Len(t) /\ Len(s) \in Nat /\ Len(t) \in Nat
  /\ \A i \in 1..Len(s) : w[i] = s[i]
  /\ \A i \in 1..Len(t) : w[Len(s) + i] = t[i]

\* Where the two parts of a concatenation stand.
LEMMA JoinHolds ==
  ASSUME NEW X, NEW s \in Seq(X), NEW t \in Seq(X)
  PROVE  IsJoin(s \o t, X, s, t)
<1> DEFINE u == s \o t
<1>1. /\ u \in Seq(X) /\ Len(u) = Len(s) + Len(t) /\ Len(s) \in Nat /\ Len(t) \in Nat
      /\ \A i \in 1..(Len(s) + Len(t)) : u[i] = IF i <= Len(s) THEN s[i] ELSE t[i - Len(s)]
  BY ConcatProperties, LenProperties
<1> HIDE DEF u
<1>2. \A i \in 1..Len(s) : i \in 1..(Len(s) + Len(t)) /\ i <= Len(s)
  BY <1>1
<1>3. \A i \in 1..Len(t) : /\ Len(s) + i \in 1..(Len(s) + Len(t)) /\ ~(Len(s) + i <= Len(s))
                           /\ (Len(s) + i) - Len(s) = i
  BY <1>1
<1>4. \A i \in 1..Len(s) : u[i] = s[i]
  BY <1>1, <1>2
<1>5. \A i \in 1..Len(t) : u[Len(s) + i] = t[i]
  BY <1>1, <1>3
<1> QED BY <1>1, <1>4, <1>5 DEF u, IsJoin

AreJoined(w, X, a, b, c, d) ==
  /\ w \in Seq(X) /\ Len(w) = 16
  /\ \A i \in 1..4 : w[i] = a[i] /\ w[4 + i] = b[i] /\ w[8 + i] = c[i] /\ w[12 + i] = d[i]

\* Where four words stand in their concatenation.
LEMMA FourHold ==
  ASSUME NEW X, NEW a \in Seq(X), NEW b \in Seq(X), NEW c \in Seq(X), NEW d \in Seq(X),
         Len(a) = 4, Len(b) = 4, Len(c) = 4, Len(d) = 4
  PROVE  AreJoined(a \o b \o c \o d, X, a, b, c, d)
<1> DEFINE u == a \o b
           v == u \o c
           w == v \o d
<1>1. IsJoin(u, X, a, b)
  BY JoinHolds, Zenon
<1> HIDE DEF u
<1>2. u \in Seq(X) /\ Len(u) = 8 /\ \A i \in 1..4 : u[i] = a[i] /\ u[4 + i] = b[i]
  BY ONLY <1>1, Len(a) = 4, Len(b) = 4 DEF IsJoin
<1>3. IsJoin(v, X, u, c)
  BY <1>2, JoinHolds, Zenon
<1> HIDE DEF v
<1>4. v \in Seq(X) /\ Len(v) = 12 /\ (\A i \in 1..8 : v[i] = u[i]) /\ \A i \in 1..4 : v[8 + i] = c[i]
  BY ONLY <1>2, <1>3, Len(c) = 4 DEF IsJoin
<1>5. IsJoin(w, X, v, d)
  BY <1>4, JoinHolds, Zenon
<1> HIDE DEF w
<1>6. w \in Seq(X) /\ Len(w) = 16 /\ (\A i \in 1..12 : w[i] = v[i]) /\ \A i \in 1..4 : w[12 + i] = d[i]
  BY ONLY <1>4, <1>5, Len(d) = 4 DEF IsJoin
<1>7. \A i \in 1..4 : /\ i \in 1..8 /\ 4 + i \in 1..8 /\ i \in 1..12 /\ 4 + i \in 1..12 /\ 8 + i \in 1..12
  OBVIOUS
<1>8. \A i \in 1..4 : w[i] = a[i] /\ w[4 + i] = b[i] /\ w[8 + i] = c[i] /\ w[12 + i] = d[i]
  BY <1>2, <1>4, <1>6, <1>7
<1> QED BY <1>6, <1>8 DEF u, v, w, AreJoined

\* The search fields are six bytes.
LEMMA SearchFieldsHold ==
  ASSUME NEW n \in Nat
  PROVE  SearchFields(n) \in Seq(ByteValues) /\ Len(SearchFields(n)) = 6
<1> DEFINE d == IF n < 16 THEN 3 ELSE IF n < 32 THEN 4 ELSE IF n < 64 THEN 5 ELSE 6
<1>1. d \in Nat
  OBVIOUS
<1>2. 16 * (2 ^ d) \in Int
  BY <1>1
<1>3. SearchFields(n) = Short(16 * (2 ^ d)) \o Short(d) \o Short(16 * n - 16 * (2 ^ d))
  BY DEF SearchFields
<1> HIDE DEF d
<1> DEFINE e == 16 * (2 ^ d)
<1> HIDE DEF e
<1>4. e \in Int /\ 16 * n - e \in Int
  BY <1>2 DEF e
<1>5. SearchFields(n) = Short(e) \o Short(d) \o Short(16 * n - e)
  BY <1>3 DEF e
<1> DEFINE a == Short(e)
           b == Short(d)
           c == Short(16 * n - e)
<1>6. /\ a \in Seq(ByteValues) /\ Len(a) = 2 /\ b \in Seq(ByteValues) /\ Len(b) = 2
      /\ c \in Seq(ByteValues) /\ Len(c) = 2
  BY <1>1, <1>4, ShortHolds
<1> HIDE DEF a, b, c
<1> DEFINE u == a \o b
           v == u \o c
<1>7. IsJoin(u, ByteValues, a, b)
  BY <1>6, JoinHolds, Zenon
<1> HIDE DEF u
<1>8. u \in Seq(ByteValues) /\ Len(u) = 4
  BY <1>6, <1>7 DEF IsJoin
<1>9. IsJoin(v, ByteValues, u, c)
  BY <1>6, <1>8, JoinHolds, Zenon
<1> HIDE DEF v
<1>10. v \in Seq(ByteValues) /\ Len(v) = 6
  BY <1>6, <1>8, <1>9 DEF IsJoin
<1> QED BY <1>5, <1>10 DEF a, b, c, u, v

-----------------------------------------------------------------------------
(* Tables on words, and where they begin.                                  *)

Padded(K) == [j \in DOMAIN K |-> Aligned(K[j].bytes)]

\* The parts of a list of tables.
LEMMA TablesHold ==
  ASSUME NEW K \in Seq(Tables)
  PROVE  /\ Len(K) \in Nat /\ DOMAIN K = 1..Len(K)
         /\ \A j \in 1..Len(K) : /\ K[j] \in Tables /\ K[j].bytes \in Seq(ByteValues) /\ Len(K[j].bytes) \in Nat
                                 /\ K[j].tag \in 0..(LongBase - 1)
<1>1. Len(K) \in Nat /\ DOMAIN K = 1..Len(K) /\ \A j \in 1..Len(K) : K[j] \in Tables
  BY LenProperties, ElementOfSeq
<1>2. \A t \in Tables : t.bytes \in Seq(ByteValues) /\ t.tag \in 0..(LongBase - 1)
  BY DEF Tables
<1>3. \A t \in Tables : Len(t.bytes) \in Nat
  BY <1>2, LenProperties
<1> QED BY <1>1, <1>2, <1>3

\* Padded tables fill whole words and begin with what they were.
LEMMA PaddedHolds ==
  ASSUME NEW K \in Seq(Tables)
  PROVE  /\ Padded(K) \in Seq(Seq(ByteValues)) /\ Len(Padded(K)) = Len(K)
         /\ \A j \in 1..Len(K) :
              /\ Padded(K)[j] = Aligned(K[j].bytes) /\ Padded(K)[j] \in Seq(ByteValues)
              /\ Len(Padded(K)[j]) \in Nat /\ Len(Padded(K)[j]) % 4 = 0
              /\ Len(K[j].bytes) \in Nat /\ Len(K[j].bytes) <= Len(Padded(K)[j])
              /\ \A i \in 1..Len(K[j].bytes) : Padded(K)[j][i] = K[j].bytes[i]
<1> DEFINE p == Padded(K)
<1>1. /\ Len(K) \in Nat /\ DOMAIN K = 1..Len(K)
      /\ \A j \in 1..Len(K) : K[j].bytes \in Seq(ByteValues) /\ Len(K[j].bytes) \in Nat
  BY TablesHold
<1>2. p = [j \in 1..Len(K) |-> Aligned(K[j].bytes)]
  BY <1>1 DEF Padded
<1> HIDE DEF p
<1>3. \A b \in Seq(ByteValues) : /\ Aligned(b) \in Seq(ByteValues) /\ Len(Aligned(b)) \in Nat /\ Len(Aligned(b)) % 4 = 0
                                 /\ Len(b) <= Len(Aligned(b)) /\ \A i \in 1..Len(b) : Aligned(b)[i] = b[i]
  BY AlignedHolds
<1>4. \A j \in 1..Len(K) : p[j] = Aligned(K[j].bytes) /\ p[j] \in Seq(ByteValues)
  BY <1>1, <1>2, <1>3
<1>5. p \in [1..Len(K) -> Seq(ByteValues)]
  BY <1>2, <1>4
<1>6. p \in Seq(Seq(ByteValues)) /\ Len(p) = Len(K)
  BY <1>1, <1>5
<1>7. \A j \in 1..Len(K) :
              /\ Len(p[j]) \in Nat /\ Len(p[j]) % 4 = 0
              /\ Len(K[j].bytes) <= Len(p[j])
              /\ \A i \in 1..Len(K[j].bytes) : p[j][i] = K[j].bytes[i]
  <2> SUFFICES ASSUME NEW j \in 1..Len(K)
               PROVE  /\ Len(p[j]) \in Nat /\ Len(p[j]) % 4 = 0
                      /\ Len(K[j].bytes) <= Len(p[j])
                      /\ \A i \in 1..Len(K[j].bytes) : p[j][i] = K[j].bytes[i]
    OBVIOUS
  <2> DEFINE b == K[j].bytes
  <2>1. b \in Seq(ByteValues) /\ p[j] = Aligned(b)
    BY <1>1, <1>4
  <2> HIDE DEF b
  <2>2. /\ Len(p[j]) \in Nat /\ Len(p[j]) % 4 = 0
        /\ Len(b) <= Len(p[j])
        /\ \A i \in 1..Len(b) : p[j][i] = b[i]
    BY <1>3, <2>1
  <2> QED BY <2>2 DEF b
<1> QED BY <1>1, <1>4, <1>6, <1>7 DEF p

\* Any sequences have offsets in their concatenation.
LEMMA OffsetsExist ==
  ASSUME NEW X, NEW ss \in Seq(Seq(X))
  PROVE  \E at : Offsets(at, ss)
<1> DEFINE n == Len(ss)
<1>1. n \in Nat /\ DOMAIN ss = 1..n /\ \A i \in 1..n : ss[i] \in Seq(X)
  BY LenProperties, ElementOfSeq
<1>2. PICK g : Appends(g, X, ss)
  BY FlattenAppends
<1> DEFINE at == [i \in 0..n |-> Len(g[i])]
<1>3. \A i \in 0..n : g[i] \in Seq(X) /\ Len(g[i]) \in Nat
  <2>1. \A i \in 0..n : g[i] \in Seq(X)
    BY <1>2 DEF Appends
  <2> QED BY <2>1, LenProperties
<1>4. at \in [0..n -> Nat]
  BY <1>3
<1>5. at[0] = 0
  <2>1. g[0] = <<>> /\ 0 \in 0..n
    BY <1>1, <1>2 DEF Appends
  <2> QED BY <2>1
<1>6. ASSUME NEW i \in 1..n PROVE at[i] = at[i - 1] + Len(ss[i])
  <2>1. i \in 0..n /\ i - 1 \in 0..n
    BY <1>1
  <2>2. g[i] = g[i - 1] \o ss[i]
    BY <1>2 DEF Appends
  <2>3. IsJoin(g[i - 1] \o ss[i], X, g[i - 1], ss[i])
    BY <1>1, <1>3, <2>1, JoinHolds
  <2>4. Len(g[i]) = Len(g[i - 1]) + Len(ss[i])
    BY <2>2, <2>3 DEF IsJoin
  <2> QED BY <2>1, <2>4
<1> HIDE DEF at
<1> QED BY <1>4, <1>5, <1>6 DEF Offsets

\* Tables begin on words, one after another.
LEMMA StartsRise ==
  ASSUME NEW K \in Seq(Tables), NEW at, Offsets(at, Padded(K))
  PROVE  /\ at \in [0..Len(K) -> Nat] /\ at[0] = 0
         /\ \A j \in 0..Len(K) : at[j] % 4 = 0 /\ at[j] <= at[Len(K)]
         /\ \A j \in 1..Len(K) : at[j] = at[j - 1] + Len(Padded(K)[j])
         /\ \A i, j \in 0..Len(K) : i <= j => at[i] <= at[j]
<1> DEFINE n == Len(K)
           p == Padded(K)
<1>1. n \in Nat /\ Len(p) = n /\ \A j \in 1..n : Len(p[j]) \in Nat /\ Len(p[j]) % 4 = 0
  BY TablesHold, PaddedHolds
<1>2. at \in [0..n -> Nat] /\ at[0] = 0 /\ \A j \in 1..n : at[j] = at[j - 1] + Len(p[j])
  BY <1>1 DEF Offsets
<1> HIDE DEF n, p
<1> DEFINE Good == {k \in 0..n : at[k] % 4 = 0 /\ \A i \in 0..k : at[i] <= at[k]}
<1>3. 0 \in Good
  BY <1>1, <1>2
<1>4. ASSUME NEW k \in 0..(n - 1), k \in Good PROVE k + 1 \in Good
  <2>1. k + 1 \in 1..n /\ k + 1 \in 0..n /\ (k + 1) - 1 = k /\ k \in 0..n
    BY <1>1
  <2>2. at[k + 1] = at[k] + Len(p[k + 1]) /\ at[k] \in Nat /\ Len(p[k + 1]) \in Nat /\ Len(p[k + 1]) % 4 = 0
    BY <1>1, <1>2, <2>1
  <2>3. at[k] % 4 = 0 /\ \A i \in 0..k : at[i] <= at[k]
    BY <1>4
  <2>4. at[k + 1] % 4 = 0 /\ at[k] <= at[k + 1] /\ at[k + 1] \in Nat
    <3>1. \A a, b \in Nat : a % 4 = 0 /\ b % 4 = 0 => (a + b) % 4 = 0 /\ a <= a + b /\ a + b \in Nat
      OBVIOUS
    <3> QED BY <2>2, <2>3, <3>1
  <2>5. \A i \in 0..(k + 1) : at[i] <= at[k + 1]
    <3>1. \A i \in 0..(k + 1) : i = k + 1 \/ i \in 0..k
      BY <2>1
    <3>2. \A i \in 0..k : i \in 0..n /\ at[i] \in Nat
      <4> SUFFICES ASSUME NEW i \in 0..k PROVE i \in 0..n /\ at[i] \in Nat
        OBVIOUS
      <4>1. i \in 0..n
        BY <1>1, <2>1
      <4> QED BY <1>2, <4>1
    <3> SUFFICES ASSUME NEW i \in 0..(k + 1) PROVE at[i] <= at[k + 1]
      OBVIOUS
    <3>3. CASE i = k + 1
      BY <2>4, <3>3
    <3>4. CASE i \in 0..k
      <4>1. at[i] \in Nat /\ at[i] <= at[k]
        BY <2>3, <3>2, <3>4
      <4>2. \A x, y, z \in Nat : x <= y /\ y <= z => x <= z
        OBVIOUS
      <4> QED BY <2>2, <2>4, <4>1, <4>2
    <3> QED BY <3>1, <3>3, <3>4
  <2> QED BY <2>1, <2>4, <2>5
<1>5. 0..n \subseteq Good
  <2> HIDE DEF Good
  <2> QED BY <1>1, <1>3, <1>4, InductionUpTo
<1>6. \A j \in 0..n : at[j] % 4 = 0
  BY <1>5
<1>7. \A i, j \in 0..n : i <= j => at[i] <= at[j]
  <2>1. \A i, j \in 0..n : i <= j => i \in 0..j
    BY <1>1
  <2> QED BY <1>5, <2>1
<1>8. \A j \in 0..n : at[j] <= at[n]
  BY <1>1, <1>7
<1> QED BY <1>2, <1>6, <1>7, <1>8 DEF n, p

\* The offset that is written is the place where the table begins.
LEMMA OffsetIsPlace ==
  ASSUME NEW K \in Seq(Tables), NEW at, Offsets(at, Padded(K)), NEW j \in 1..Len(K)
  PROVE  TableOffset(K, j) = 12 + 16 * Len(K) + at[j - 1]
<1> DEFINE s == SubSeq(K, 1, j - 1)
           p == Padded(s)
           a == [i \in 0..(j - 1) |-> at[i]]
<1>1. Len(K) \in Nat /\ DOMAIN K = 1..Len(K) /\ \A i \in 1..Len(K) : K[i] \in Tables
  BY TablesHold
<1>2. s \in Seq(Tables) /\ Len(s) = j - 1 /\ \A i \in 1..(j - 1) : s[i] = K[i]
  <2>1. \A i \in 1..(j - 1) : K[i] \in Tables
    BY <1>1
  <2>2. j - 1 \in Int /\ 1 \in Int
    BY <1>1
  <2>3. /\ s \in Seq(Tables) /\ Len(s) = IF 1 <= j - 1 THEN (j - 1) - 1 + 1 ELSE 0
        /\ \A i \in 1..((j - 1) - 1 + 1) : s[i] = K[1 + i - 1]
    BY <2>1, <2>2, SubSeqProperties
  <2> HIDE DEF s
  <2> QED BY <1>1, <2>3
<1>3. TableOffset(K, j) = 12 + 16 * Len(K) + Len(FlattenSeq(p))
  BY DEF TableOffset, Flattened, Mapped, Padded
<1>4. /\ at \in [0..Len(K) -> Nat] /\ at[0] = 0
      /\ \A i \in 1..Len(K) : at[i] = at[i - 1] + Len(Padded(K)[i])
  BY StartsRise
<1> HIDE DEF s
<1>5. p \in Seq(Seq(ByteValues)) /\ Len(p) = j - 1 /\ \A i \in 1..(j - 1) : p[i] = Aligned(s[i].bytes)
  BY <1>2, PaddedHolds
<1>6. \A i \in 1..Len(K) : Padded(K)[i] = Aligned(K[i].bytes)
  BY PaddedHolds
<1>7. Offsets(a, p)
  <2>1. \A i \in 0..(j - 1) : i \in 0..Len(K) /\ a[i] = at[i]
    BY <1>1
  <2>2. a \in [0..(j - 1) -> Nat] /\ a[0] = 0
    BY <1>1, <1>4, <2>1
  <2>3. \A i \in 1..(j - 1) : a[i] = a[i - 1] + Len(p[i])
    <3> SUFFICES ASSUME NEW i \in 1..(j - 1) PROVE a[i] = a[i - 1] + Len(p[i])
      OBVIOUS
    <3>1. i \in 1..Len(K) /\ i \in 0..(j - 1) /\ i - 1 \in 0..(j - 1)
      BY <1>1
    <3> QED BY <1>2, <1>4, <1>5, <1>6, <2>1, <3>1
  <2> HIDE DEF a, p
  <2> QED BY <1>5, <2>2, <2>3 DEF Offsets
<1>8. Len(FlattenSeq(p)) = a[j - 1]
  <2> HIDE DEF a, p
  <2> QED BY <1>5, <1>7, FlattenPlaces DEF Places
<1>9. a[j - 1] = at[j - 1]
  BY <1>1
<1> QED BY <1>3, <1>8, <1>9

-----------------------------------------------------------------------------
(* The records of the directory.                                           *)

\* A total is a number that four bytes hold.
LEMMA TotalIsNumber ==
  ASSUME NEW bytes \in Seq(ByteValues)
  PROVE  Total(bytes) \in 0..(LongBase - 1)
<1> DEFINE w == Aligned(bytes)
<1>1. PICK g : IsTotal(g, w) /\ Total(bytes) = g[Len(w) \div 4]
  BY TotalIsChain
<1>2. Len(w) \in Nat
  BY AlignedHolds
<1> HIDE DEF w
<1>3. Len(w) \div 4 \in Nat
  BY <1>2
<1> QED BY <1>1, <1>3 DEF IsTotal

RecordOf(K, j) ==
  Long(K[j].tag) \o Long(Total(K[j].bytes)) \o Long(TableOffset(K, j)) \o Long(Len(K[j].bytes))
Records(K) == [j \in DOMAIN K |-> RecordOf(K, j)]

\* The j-th of four fields of a record.
IsRecord(r, K, j) ==
  /\ r \in Seq(ByteValues) /\ Len(r) = 16
  /\ \A i \in 1..4 : /\ r[i] = Long(K[j].tag)[i]
                     /\ r[4 + i] = Long(Total(K[j].bytes))[i]
                     /\ r[8 + i] = Long(TableOffset(K, j))[i]
                     /\ r[12 + i] = Long(Len(K[j].bytes))[i]

\* A record of the directory is four words.
LEMMA RecordHolds ==
  ASSUME NEW K \in Seq(Tables), NEW at, Offsets(at, Padded(K)), NEW j \in 1..Len(K)
  PROVE  IsRecord(RecordOf(K, j), K, j)
<1>1. K[j].tag \in Int /\ Len(K[j].bytes) \in Int /\ Total(K[j].bytes) \in Int
  <2>1. K[j].bytes \in Seq(ByteValues) /\ Len(K[j].bytes) \in Nat /\ K[j].tag \in 0..(LongBase - 1)
    BY TablesHold
  <2> QED BY <2>1, TotalIsNumber, LongBaseHolds
<1>2. TableOffset(K, j) \in Int
  <2>1. TableOffset(K, j) = 12 + 16 * Len(K) + at[j - 1] /\ Len(K) \in Nat
    BY OffsetIsPlace, TablesHold
  <2>2. at \in [0..Len(K) -> Nat]
    BY StartsRise
  <2> QED BY <2>1, <2>2
<1> DEFINE a == Long(K[j].tag)
           b == Long(Total(K[j].bytes))
           c == Long(TableOffset(K, j))
           d == Long(Len(K[j].bytes))
<1>3. /\ a \in Seq(ByteValues) /\ Len(a) = 4 /\ b \in Seq(ByteValues) /\ Len(b) = 4
      /\ c \in Seq(ByteValues) /\ Len(c) = 4 /\ d \in Seq(ByteValues) /\ Len(d) = 4
  BY <1>1, <1>2, LongHolds DEF IsLong
<1>4. RecordOf(K, j) = a \o b \o c \o d
  BY DEF RecordOf
<1> HIDE DEF a, b, c, d
<1> DEFINE w == a \o b \o c \o d
<1>5. AreJoined(w, ByteValues, a, b, c, d)
  BY <1>3, FourHold, Zenon
<1>6. RecordOf(K, j) = w
  BY <1>4
<1> HIDE DEF w
<1> QED BY <1>5, <1>6 DEF IsRecord, AreJoined, a, b, c, d

\* Records of 16 bytes stand one after another.
LEMMA RecordsHold ==
  ASSUME NEW K \in Seq(Tables), NEW at, Offsets(at, Padded(K))
  PROVE  LET w == FlattenSeq(Records(K))
         IN  /\ w \in Seq(ByteValues) /\ Len(w) = 16 * Len(K)
             /\ \A j \in 1..Len(K) : \A i \in 1..16 : w[16 * (j - 1) + i] = RecordOf(K, j)[i]
<1> DEFINE n == Len(K)
           ss == Records(K)
           place == [j \in 0..n |-> 16 * j]
<1>1. n \in Nat /\ DOMAIN K = 1..n
  BY TablesHold
<1>2. \A j \in 1..n : IsRecord(RecordOf(K, j), K, j)
  BY RecordHolds
<1>3. ss = [j \in 1..n |-> RecordOf(K, j)]
  BY <1>1 DEF Records
<1> HIDE DEF n, ss
<1>4. \A j \in 1..n : ss[j] = RecordOf(K, j) /\ ss[j] \in Seq(ByteValues) /\ Len(ss[j]) = 16
  BY <1>2, <1>3 DEF IsRecord
<1>5. ss \in Seq(Seq(ByteValues)) /\ Len(ss) = n
  <2>1. ss \in [1..n -> Seq(ByteValues)]
    BY <1>3, <1>4
  <2> QED BY <1>1, <2>1
<1>6. Offsets(place, ss)
  <2>1. place \in [0..n -> Nat] /\ place[0] = 0
    BY <1>1
  <2>2. \A j \in 1..n : place[j] = place[j - 1] + Len(ss[j])
    <3> SUFFICES ASSUME NEW j \in 1..n PROVE place[j] = place[j - 1] + Len(ss[j])
      OBVIOUS
    <3>1. j \in 0..n /\ j - 1 \in 0..n /\ 16 * j = 16 * (j - 1) + 16
      BY <1>1
    <3> QED BY <1>4, <3>1
  <2> HIDE DEF place
  <2> QED BY <1>5, <2>1, <2>2 DEF Offsets
<1>7. Places(FlattenSeq(ss), ByteValues, ss, place)
  <2> HIDE DEF place
  <2> QED BY <1>5, <1>6, FlattenPlaces
<1> DEFINE w == FlattenSeq(ss)
<1> HIDE DEF w
<1>8. w \in Seq(ByteValues) /\ Len(w) = 16 * n
  <2>1. place[n] = 16 * n
    BY <1>1
  <2> HIDE DEF place
  <2> QED BY <1>5, <1>7, <2>1 DEF Places, w
<1>9. \A j \in 1..n : \A i \in 1..16 : w[16 * (j - 1) + i] = RecordOf(K, j)[i]
  <2> SUFFICES ASSUME NEW j \in 1..n, NEW i \in 1..16 PROVE w[16 * (j - 1) + i] = RecordOf(K, j)[i]
    OBVIOUS
  <2>1. place[j - 1] = 16 * (j - 1)
    BY <1>1
  <2> HIDE DEF place
  <2>2. w[place[j - 1] + i] = ss[j][i]
    BY <1>4, <1>5, <1>7 DEF Places, w
  <2> QED BY <1>4, <2>1, <2>2
<1> QED BY <1>8, <1>9 DEF w, n, ss

-----------------------------------------------------------------------------
(* The file before its sum.                                                *)

Unpatched(K) ==
  Long(1) \o Short(Len(K)) \o SearchFields(Len(K)) \o FlattenSeq(Records(K)) \o FlattenSeq(Padded(K))

\* Where the directory and the tables stand in the file.
Directory(w, K) ==
  /\ \A i \in 1..2 : w[4 + i] = Short(Len(K))[i]
  /\ \A j \in 1..Len(K) : \A i \in 1..16 : w[12 + 16 * (j - 1) + i] = RecordOf(K, j)[i]

Start(K, at, j) == 12 + 16 * Len(K) + at[j - 1]

\* Before its sum is known the file has its directory and its tables in place.
LEMMA UnpatchedHolds ==
  ASSUME NEW K \in Seq(Tables), NEW at, Offsets(at, Padded(K))
  PROVE  LET w == Unpatched(K)
         IN  /\ w \in Seq(ByteValues) /\ Len(w) = 12 + 16 * Len(K) + at[Len(K)]
             /\ Directory(w, K)
             /\ \A j \in 1..Len(K) : \A i \in 1..Len(Padded(K)[j]) : w[Start(K, at, j) + i] = Padded(K)[j][i]
<1> DEFINE n == Len(K)
           a == Long(1)
           b == Short(n)
           c == SearchFields(n)
           r == FlattenSeq(Records(K))
           d == FlattenSeq(Padded(K))
           ab == a \o b
           abc == ab \o c
           head == abc \o r
           w == head \o d
<1>0. n \in Nat
  BY TablesHold
<1>1. a \in Seq(ByteValues) /\ Len(a) = 4
  BY LongHolds DEF IsLong
<1>2. b \in Seq(ByteValues) /\ Len(b) = 2
  BY <1>0, ShortHolds
<1>3. c \in Seq(ByteValues) /\ Len(c) = 6
  BY <1>0, SearchFieldsHold
<1>4. /\ r \in Seq(ByteValues) /\ Len(r) = 16 * n
      /\ \A j \in 1..n : \A i \in 1..16 : r[16 * (j - 1) + i] = RecordOf(K, j)[i]
  BY RecordsHold
<1>5. Places(d, ByteValues, Padded(K), at)
  BY PaddedHolds, FlattenPlaces
<1>6. /\ d \in Seq(ByteValues) /\ Len(d) = at[n] /\ at[n] \in Nat
      /\ \A j \in 1..n : \A i \in 1..Len(Padded(K)[j]) :
           at[j - 1] + i \in 1..at[n] /\ d[at[j - 1] + i] = Padded(K)[j][i]
  <2>1. Len(Padded(K)) = n /\ at \in [0..n -> Nat]
    BY PaddedHolds, StartsRise
  <2> HIDE DEF n, d
  <2> QED BY <1>0, <1>5, <2>1 DEF Places
<1>7. Unpatched(K) = w
  BY DEF Unpatched
<1> HIDE DEF a, b, c, r, d
<1>8. IsJoin(ab, ByteValues, a, b)
  BY <1>1, <1>2, JoinHolds, Zenon
<1> HIDE DEF ab
<1>9. ab \in Seq(ByteValues) /\ Len(ab) = 6 /\ \A i \in 1..2 : ab[4 + i] = b[i]
  BY <1>1, <1>2, <1>8 DEF IsJoin
<1>10. IsJoin(abc, ByteValues, ab, c)
  BY <1>3, <1>9, JoinHolds, Zenon
<1> HIDE DEF abc
<1>11. abc \in Seq(ByteValues) /\ Len(abc) = 12 /\ \A i \in 1..6 : abc[i] = ab[i]
  BY <1>3, <1>9, <1>10 DEF IsJoin
<1>12. IsJoin(head, ByteValues, abc, r)
  BY <1>4, <1>11, JoinHolds, Zenon
<1> HIDE DEF head, n
<1>13. /\ head \in Seq(ByteValues) /\ Len(head) = 12 + 16 * n
       /\ \A i \in 1..12 : head[i] = abc[i]
       /\ \A i \in 1..(16 * n) : head[12 + i] = r[i]
  BY <1>4, <1>11, <1>12 DEF IsJoin
<1>14. IsJoin(w, ByteValues, head, d)
  BY <1>6, <1>13, JoinHolds, Zenon
<1> HIDE DEF w
<1>15. /\ w \in Seq(ByteValues) /\ Len(w) = 12 + 16 * n + at[n]
       /\ \A i \in 1..(12 + 16 * n) : w[i] = head[i]
       /\ \A i \in 1..at[n] : w[12 + 16 * n + i] = d[i]
  BY <1>6, <1>13, <1>14 DEF IsJoin
<1>16. \A i \in 1..2 : w[4 + i] = b[i]
  <2> SUFFICES ASSUME NEW i \in 1..2 PROVE w[4 + i] = b[i]
    OBVIOUS
  <2>1. 4 + i \in 1..6 /\ 4 + i \in 1..12 /\ 4 + i \in 1..(12 + 16 * n)
    BY <1>0
  <2> QED BY <1>9, <1>11, <1>13, <1>15, <2>1
<1>17. \A j \in 1..n : \A i \in 1..16 : w[12 + 16 * (j - 1) + i] = RecordOf(K, j)[i]
  <2> SUFFICES ASSUME NEW j \in 1..n, NEW i \in 1..16 PROVE w[12 + 16 * (j - 1) + i] = RecordOf(K, j)[i]
    OBVIOUS
  <2> DEFINE p == 16 * (j - 1) + i
  <2>1. p \in 1..(16 * n) /\ 12 + p \in 1..(12 + 16 * n) /\ 12 + p = 12 + 16 * (j - 1) + i
    BY <1>0
  <2>2. r[p] = RecordOf(K, j)[i]
    BY <1>4
  <2> HIDE DEF p
  <2> QED BY <1>13, <1>15, <2>1, <2>2
<1>18. \A j \in 1..n : \A i \in 1..Len(Padded(K)[j]) : w[Start(K, at, j) + i] = Padded(K)[j][i]
  <2> SUFFICES ASSUME NEW j \in 1..n, NEW i \in 1..Len(Padded(K)[j])
               PROVE  w[Start(K, at, j) + i] = Padded(K)[j][i]
    OBVIOUS
  <2> DEFINE p == at[j - 1] + i
  <2>1. p \in 1..at[n] /\ d[p] = Padded(K)[j][i]
    BY <1>6
  <2>2. w[12 + 16 * n + p] = d[p]
    BY <1>15, <2>1
  <2>3. Start(K, at, j) + i = 12 + 16 * n + p
    <3>1. at[j - 1] \in Nat /\ i \in Int
      <4>1. at \in [0..n -> Nat]
        BY StartsRise DEF n
      <4>2. Len(Padded(K)[j]) \in Nat
        BY PaddedHolds DEF n
      <4> QED BY <1>0, <4>1, <4>2
    <3> QED BY <1>0, <3>1 DEF Start, n
  <2> QED BY <2>1, <2>2, <2>3
<1> QED BY <1>7, <1>15, <1>16, <1>17, <1>18 DEF Directory, n, b

-----------------------------------------------------------------------------
(* What a patch changes in the sum.                                        *)

\* A word more in the place of a zero makes the sum greater by it.
LEMMA OneWordMore ==
  ASSUME NEW v \in Seq(ByteValues), NEW w \in Seq(ByteValues), Len(v) = Len(w), Len(w) % 4 = 0,
         NEW c \in 1..(Len(w) \div 4), WordOf(w, c) = 0,
         \A k \in 1..(Len(w) \div 4) : k # c => WordOf(v, k) = WordOf(w, k)
  PROVE  Total(v) = (Total(w) + WordOf(v, c)) % LongBase
<1> DEFINE n == Len(w) \div 4
           x == WordOf(v, c)
<1>1. Len(w) \in Nat /\ n \in Nat
  <2>1. Len(w) \in Nat
    BY LenProperties
  <2> QED BY <2>1
<1>2. Aligned(v) = v /\ Aligned(w) = w
  BY AlignedHolds
<1>3. PICK g : IsTotal(g, w) /\ Total(w) = g[n]
  BY <1>2, TotalIsChain
<1>4. PICK f : IsTotal(f, v) /\ Total(v) = f[n]
  BY <1>2, TotalIsChain
<1>5. \A k \in 1..n : WordOf(v, k) \in Int /\ WordOf(w, k) \in Int
  BY WordIsNumber
<1> HIDE DEF n
<1>6. x \in Int /\ c \in 1..n
  BY <1>5 DEF n
<1> HIDE DEF x
<1>7. LongBase \in Nat /\ LongBase > 0
  BY LongBaseHolds
<1>8. /\ g \in [0..n -> 0..(LongBase - 1)] /\ g[0] = 0
      /\ \A k \in 1..n : g[k] = (g[k - 1] + WordOf(w, k)) % LongBase
  BY <1>3 DEF IsTotal, n
<1>9. /\ f \in [0..n -> 0..(LongBase - 1)] /\ f[0] = 0
      /\ \A k \in 1..n : f[k] = (f[k - 1] + WordOf(v, k)) % LongBase
  BY <1>4 DEF IsTotal, n
<1> DEFINE Good == {k \in 0..n : f[k] = IF k < c THEN g[k] ELSE (g[k] + x) % LongBase}
<1>10. 0 \in Good
  BY <1>1, <1>6, <1>8, <1>9
<1>11. ASSUME NEW k \in 0..(n - 1), k \in Good PROVE k + 1 \in Good
  <2>1. k + 1 \in 1..n /\ k + 1 \in 0..n /\ (k + 1) - 1 = k /\ k \in 0..n
    BY <1>1
  <2>2. f[k] = IF k < c THEN g[k] ELSE (g[k] + x) % LongBase
    BY <1>11
  <2> DEFINE p == WordOf(v, k + 1)
             q == WordOf(w, k + 1)
  <2>3. f[k + 1] = (f[k] + p) % LongBase /\ g[k + 1] = (g[k] + q) % LongBase
    BY <1>8, <1>9, <2>1
  <2>4. p \in Int /\ q \in Int /\ g[k] \in 0..(LongBase - 1) /\ g[k] \in Int
    <3>1. p \in Int /\ q \in Int
      BY <1>5, <2>1
    <3>2. g[k] \in 0..(LongBase - 1)
      BY <1>8, <2>1
    <3>3. \A z \in 0..(LongBase - 1) : z \in Int
      BY <1>7
    <3> HIDE DEF p, q
    <3> QED BY <3>1, <3>2, <3>3
  <2>5. k + 1 # c => p = q
    BY <2>1 DEF n
  <2>6. k + 1 = c => p = x /\ q = 0
    BY DEF x
  <2> HIDE DEF p, q
  <2>7. CASE k + 1 < c
    BY <2>1, <2>2, <2>3, <2>5, <2>7
  <2>8. CASE k + 1 = c
    <3>1. f[k] = g[k] /\ p = x /\ q = 0
      BY <2>1, <2>2, <2>6, <2>8
    <3>2. (g[k] + 0) % LongBase = g[k]
      <4>1. g[k] % LongBase = g[k]
        BY <1>7, <2>4, SmallStays
      <4>2. g[k] + 0 = g[k]
        BY <2>4
      <4> QED BY <4>1, <4>2
    <3>3. g[k + 1] = g[k]
      BY <2>3, <3>1, <3>2
    <3>4. f[k + 1] = (g[k + 1] + x) % LongBase
      BY <2>3, <3>1, <3>3
    <3> QED BY <2>1, <2>8, <3>4
  <2>9. CASE k + 1 > c
    <3>1. f[k] = (g[k] + x) % LongBase /\ p = q
      BY <2>1, <1>6, <2>2, <2>5, <2>9
    <3> DEFINE m == g[k]
    <3>2. m \in Int
      BY <2>4
    <3>3. f[k + 1] = (((m + x) % LongBase) + q) % LongBase /\ g[k + 1] = (m + q) % LongBase
      BY <2>3, <3>1
    <3> HIDE DEF m
    <3>4. (((m + x) % LongBase) + q) % LongBase = ((m + x) + q) % LongBase
      <4>1. m + x \in Int
        BY <1>6, <3>2
      <4> QED BY <1>7, <2>4, <4>1, SumsWrap
    <3>5. (((m + q) % LongBase) + x) % LongBase = ((m + q) + x) % LongBase
      <4>1. m + q \in Int
        BY <2>4, <3>2
      <4> QED BY <1>6, <1>7, <4>1, SumsWrap
    <3>6. (m + x) + q = (m + q) + x
      BY <1>6, <2>4, <3>2
    <3>7. f[k + 1] = (g[k + 1] + x) % LongBase
      BY <3>3, <3>4, <3>5, <3>6
    <3>8. ~(k + 1 < c)
      BY <1>6, <2>1, <2>9
    <3> QED BY <2>1, <3>7, <3>8
  <2> QED BY <1>6, <2>1, <2>7, <2>8, <2>9
<1>12. n \in Good
  <2> HIDE DEF Good
  <2>1. 0..n \subseteq Good
    BY <1>1, <1>10, <1>11, InductionUpTo
  <2> QED BY <1>1, <2>1
<1>13. f[n] = (g[n] + x) % LongBase
  <2>1. ~(n < c)
    BY <1>1, <1>6
  <2> QED BY <1>12, <2>1
<1> QED BY <1>3, <1>4, <1>13 DEF x

\* Equal bytes make equal words.
LEMMA SameWord ==
  ASSUME NEW v \in Seq(ByteValues), NEW w \in Seq(ByteValues), Len(v) = Len(w),
         NEW k \in 1..(Len(w) \div 4), \A i \in 1..4 : v[4 * k - 4 + i] = w[4 * k - 4 + i]
  PROVE  WordOf(v, k) = WordOf(w, k)
<1> DEFINE i == 4 * k - 4
<1>0. Len(w) \in Nat
  BY LenProperties
<1>1. i + 1 \in 1..Len(w) /\ i + 2 \in 1..Len(w) /\ i + 3 \in 1..Len(w) /\ i + 4 \in 1..Len(w)
  BY <1>0
<1>2. v[i + 1] = w[i + 1] /\ v[i + 2] = w[i + 2] /\ v[i + 3] = w[i + 3] /\ v[i + 4] = w[i + 4]
  OBVIOUS
<1> HIDE DEF i
<1>3. w[i + 1] \in Int /\ w[i + 2] \in Int /\ w[i + 3] \in Int /\ w[i + 4] \in Int
  <2>1. \A j \in 1..Len(w) : w[j] \in ByteValues
    BY ElementOfSeq
  <2>2. ByteValues \subseteq Int
    BY BaseHolds DEF ByteValues
  <2> QED BY <1>1, <2>1, <2>2
<1>4. FieldAt(w, i, 4) = (ByteBase * ByteBase) * (ByteBase * w[i + 1] + w[i + 2]) + (ByteBase * w[i + 3] + w[i + 4])
  BY ONLY <1>3, FieldOfFour
<1>5. v[i + 1] \in Int /\ v[i + 2] \in Int /\ v[i + 3] \in Int /\ v[i + 4] \in Int
  BY <1>2, <1>3
<1>6. FieldAt(v, i, 4) = (ByteBase * ByteBase) * (ByteBase * v[i + 1] + v[i + 2]) + (ByteBase * v[i + 3] + v[i + 4])
  BY ONLY <1>5, FieldOfFour
<1>7. FieldAt(v, i, 4) = FieldAt(w, i, 4)
  BY ONLY <1>2, <1>4, <1>6, Zenon
<1> QED BY <1>7 DEF WordOf, i

-----------------------------------------------------------------------------
(* The file as it is written.                                              *)

\* Tables as the builder has them when it lays them out; the h-th is head.
WellLaid(K, at, h) ==
  /\ K \in Seq(Tables) /\ Len(K) < ByteBase * ByteBase
  /\ Offsets(at, Padded(K))
  /\ \A i, j \in 1..Len(K) : i < j => K[i].tag < K[j].tag
  /\ h \in 1..Len(K) /\ K[h].tag = HeadTag /\ 12 <= Len(K[h].bytes)
  /\ \A i \in 1..4 : K[h].bytes[8 + i] = 0
  /\ 12 + 16 * Len(K) + at[Len(K)] < LongBase

FileOf(K) == Patched(Unpatched(K), HeadOffset(K) + 8, Long(Magic - Total(Unpatched(K))))

\* The adjustment goes into head.
LEMMA HeadPlace ==
  ASSUME NEW K, NEW at, NEW h, WellLaid(K, at, h)
  PROVE  HeadOffset(K) = Start(K, at, h)
<1>1. DOMAIN K = 1..Len(K) /\ Len(K) \in Nat /\ \A j \in 1..Len(K) : K[j].tag \in Int
  <2>1. \A j \in 1..Len(K) : K[j].tag \in 0..(LongBase - 1)
    BY TablesHold DEF WellLaid
  <2> QED BY <2>1, TablesHold, LongBaseHolds DEF WellLaid
<1>2. \A j \in DOMAIN K : K[j].tag = HeadTag <=> j = h
  <2> SUFFICES ASSUME NEW j \in 1..Len(K), K[j].tag = HeadTag PROVE j = h
    BY <1>1 DEF WellLaid
  <2>1. ~(j < h) /\ ~(h < j)
    BY <1>1 DEF WellLaid
  <2> QED BY <1>1, <2>1 DEF WellLaid
<1>3. (CHOOSE j \in DOMAIN K : K[j].tag = HeadTag) = h
  BY <1>1, <1>2 DEF WellLaid
<1> QED BY <1>3, OffsetIsPlace DEF HeadOffset, Start, WellLaid

\* The file differs from what it was before the sum only in the adjustment.
LEMMA FileHolds ==
  ASSUME NEW K, NEW at, NEW h, WellLaid(K, at, h),
         NEW new, new = Long(Magic - Total(Unpatched(K)))
  PROVE  LET f == FileOf(K)
         IN  /\ f \in Seq(ByteValues) /\ Len(f) = 12 + 16 * Len(K) + at[Len(K)]
             /\ \A i \in 1..Len(f) :
                  f[i] = IF i - (Start(K, at, h) + 8) \in 1..4 THEN new[i - (Start(K, at, h) + 8)]
                         ELSE Unpatched(K)[i]
<1> DEFINE w == Unpatched(K)
           s == Start(K, at, h)
           f == FileOf(K)
<1>1. w \in Seq(ByteValues) /\ Len(w) = 12 + 16 * Len(K) + at[Len(K)]
  BY UnpatchedHolds DEF WellLaid
<1>2. Magic - Total(w) \in Int
  <2>1. Total(w) \in 0..(LongBase - 1)
    BY <1>1, TotalIsNumber
  <2> QED BY <2>1, LongBaseHolds, NumbersFit
<1>3. new \in Seq(ByteValues) /\ Len(new) = 4
  BY <1>2, LongHolds DEF IsLong
<1>4. s + 8 \in Nat
  <2>1. Len(K) \in Nat /\ at \in [0..Len(K) -> Nat] /\ h \in 1..Len(K)
    BY TablesHold, StartsRise DEF WellLaid
  <2>2. h - 1 \in 0..Len(K)
    BY <2>1
  <2>3. at[h - 1] \in Nat
    BY <2>1, <2>2
  <2> QED BY <2>1, <2>3 DEF Start
<1>5. f = Patched(w, s + 8, new)
  BY HeadPlace DEF FileOf
<1> HIDE DEF w, f, s
<1> DEFINE a == s + 8
<1> HIDE DEF a
<1>6. LET p == Patched(w, a, new)
      IN  /\ p \in Seq(ByteValues) /\ Len(p) = Len(w)
          /\ \A i \in 1..Len(w) : p[i] = IF i - a \in 1..4 THEN new[i - a] ELSE w[i]
  BY <1>1, <1>3, <1>4, PatchedHolds DEF a
<1>7. f = Patched(w, a, new)
  BY <1>5 DEF a
<1>8. /\ f \in Seq(ByteValues) /\ Len(f) = Len(w)
      /\ \A i \in 1..Len(w) : f[i] = IF i - a \in 1..4 THEN new[i - a] ELSE w[i]
  BY <1>6, <1>7
<1> QED BY <1>1, <1>8 DEF a, s, w, f

\* The directory is before the tables, and the number in the first three words of head.
LEMMA FilePlaces ==
  ASSUME NEW K, NEW at, NEW h, WellLaid(K, at, h),
         NEW new, new = Long(Magic - Total(Unpatched(K)))
  PROVE  LET f == FileOf(K)
         IN  /\ Directory(f, K)
             /\ \A j \in 1..Len(K) : \A i \in 1..Len(Padded(K)[j]) :
                  f[Start(K, at, j) + i] = IF j = h /\ i - 8 \in 1..4 THEN new[i - 8] ELSE Padded(K)[j][i]
<1> DEFINE n == Len(K)
           w == Unpatched(K)
           s == Start(K, at, h)
           f == FileOf(K)
<1>1. /\ Len(w) = 12 + 16 * n + at[n] /\ Directory(w, K)
      /\ \A j \in 1..n : \A i \in 1..Len(Padded(K)[j]) : w[Start(K, at, j) + i] = Padded(K)[j][i]
  BY UnpatchedHolds DEF WellLaid
<1>2. /\ Len(f) = 12 + 16 * n + at[n]
      /\ \A i \in 1..Len(f) : f[i] = IF i - (s + 8) \in 1..4 THEN new[i - (s + 8)] ELSE w[i]
  BY FileHolds
<1>3. /\ n \in Nat /\ at \in [0..n -> Nat] /\ h \in 1..n
      /\ \A j \in 1..n : at[j] = at[j - 1] + Len(Padded(K)[j])
      /\ \A i, j \in 0..n : i <= j => at[i] <= at[j]
      /\ \A j \in 1..n : Len(Padded(K)[j]) \in Nat
      /\ 12 <= Len(Padded(K)[h])
  <2>1. K \in Seq(Tables) /\ Offsets(at, Padded(K)) /\ h \in 1..n /\ 12 <= Len(K[h].bytes)
    BY DEF WellLaid
  <2>2. Len(Padded(K)[h]) \in Nat /\ Len(K[h].bytes) \in Nat /\ Len(K[h].bytes) <= Len(Padded(K)[h])
    BY <2>1, PaddedHolds
  <2>3. n \in Nat
    BY <2>1, TablesHold
  <2>4. \A j \in 1..n : Len(Padded(K)[j]) \in Nat
    BY <2>1, PaddedHolds
  <2>5. 12 <= Len(Padded(K)[h])
    BY <2>1, <2>2
  <2>6. /\ at \in [0..n -> Nat] /\ \A j \in 1..n : at[j] = at[j - 1] + Len(Padded(K)[j])
        /\ \A i, j \in 0..n : i <= j => at[i] <= at[j]
    BY <2>1, StartsRise
  <2> QED BY <2>1, <2>3, <2>4, <2>5, <2>6
<1>4. s = 12 + 16 * n + at[h - 1] /\ s \in Nat /\ at[n] \in Nat
  BY <1>3 DEF Start
<1> HIDE DEF f, w, s
<1>5. \A i \in 1..(12 + 16 * n) : i \in 1..Len(f) /\ f[i] = w[i]
  <2> SUFFICES ASSUME NEW i \in 1..(12 + 16 * n) PROVE i \in 1..Len(f) /\ f[i] = w[i]
    OBVIOUS
  <2>1. at[h - 1] \in Nat
    BY <1>3
  <2> DEFINE b == 12 + 16 * n
             x == at[h - 1]
             y == at[n]
  <2>2. b \in Nat /\ x \in Nat /\ y \in Nat /\ s = b + x /\ Len(f) = b + y /\ i \in 1..b
    BY <1>2, <1>3, <1>4, <2>1
  <2> HIDE DEF b, x, y
  <2>3. i \in 1..Len(f) /\ ~(i - (s + 8) \in 1..4)
    BY ONLY <2>2
  <2> QED BY <1>2, <2>3
<1>6. Directory(f, K)
  <2>1. \A i \in 1..2 : 4 + i \in 1..(12 + 16 * n)
    BY <1>3
  <2>2. \A j \in 1..n : \A i \in 1..16 : 12 + 16 * (j - 1) + i \in 1..(12 + 16 * n)
    BY <1>3
  <2> QED BY <1>1, <1>5, <2>1, <2>2 DEF Directory
<1>7. ASSUME NEW j \in 1..n, NEW i \in 1..Len(Padded(K)[j])
      PROVE  f[Start(K, at, j) + i] = IF j = h /\ i - 8 \in 1..4 THEN new[i - 8] ELSE Padded(K)[j][i]
  <2> DEFINE p == Start(K, at, j) + i
             l == Len(Padded(K)[j])
  <2>1. p = 12 + 16 * n + at[j - 1] + i
    BY DEF Start
  <2>2. /\ at[j - 1] \in Nat /\ at[j] \in Nat /\ at[j] = at[j - 1] + l /\ at[j] <= at[n] /\ l \in Nat
        /\ i \in 1..l
    <3>1. j - 1 \in 0..n /\ j \in 0..n /\ n \in 0..n /\ j <= n
      BY <1>3
    <3> QED BY <1>3, <3>1
  <2> HIDE DEF p, l
  <2> DEFINE b == 12 + 16 * n
             x == at[h - 1]
             y == at[n]
             z == at[j - 1]
             u == at[j]
  <2>9. /\ b \in Nat /\ x \in Nat /\ y \in Nat /\ z \in Nat /\ u \in Nat /\ l \in Nat /\ i \in 1..l
        /\ s = b + x /\ Len(f) = b + y /\ p = b + z + i /\ u = z + l /\ u <= y
    <3>1. at[h - 1] \in Nat
      BY <1>3
    <3> QED BY <1>2, <1>3, <1>4, <2>1, <2>2, <3>1
  <2> HIDE DEF b, x, y, z, u
  <2>3. p \in 1..Len(f) /\ p \in Int
    BY ONLY <2>9
  <2>4. f[p] = IF p - (s + 8) \in 1..4 THEN new[p - (s + 8)] ELSE w[p]
    BY <1>2, <2>3
  <2>5. w[p] = Padded(K)[j][i]
    BY <1>1 DEF p
  <2>6. CASE j = h
    <3>1. p - (s + 8) = i - 8
      BY <1>3, <1>4, <2>1, <2>2, <2>6
    <3> QED BY <2>4, <2>5, <2>6, <3>1 DEF p
  <2>7. CASE j < h
    <3>1. at[j] <= at[h - 1] /\ at[h - 1] \in Nat
      <4>1. j \in 0..n /\ h - 1 \in 0..n /\ j <= h - 1
        BY <1>3, <2>7
      <4> QED BY <1>3, <4>1
    <3>2. ~(p - (s + 8) \in 1..4) /\ j # h
      <4>1. u <= x
        BY <3>1 DEF u, x
      <4>2. ~(p - (s + 8) \in 1..4)
        BY ONLY <2>9, <4>1
      <4> QED BY <1>3, <2>7, <4>2
    <3> QED BY <2>4, <2>5, <3>2 DEF p
  <2>8. CASE h < j
    <3>1. at[h] <= at[j - 1] /\ at[h] = at[h - 1] + Len(Padded(K)[h]) /\ at[h - 1] \in Nat /\ Len(Padded(K)[h]) \in Nat
      <4>1. h \in 0..n /\ h - 1 \in 0..n /\ j - 1 \in 0..n /\ h <= j - 1
        BY <1>3, <2>8
      <4> QED BY <1>3, <4>1
    <3>2. ~(p - (s + 8) \in 1..4) /\ j # h
      <4> DEFINE m == Len(Padded(K)[h])
      <4>1. 12 <= m /\ m \in Nat
        BY <1>3, <3>1
      <4> HIDE DEF m
      <4>2. at[h - 1] + m <= at[j - 1]
        BY <3>1 DEF m
      <4>3. p - (s + 8) > 4
        <5>1. x + m <= z
          BY <4>2 DEF x, z
        <5> QED BY ONLY <2>9, <4>1, <5>1
      <4> QED BY <1>3, <2>8, <4>3
    <3> QED BY <2>4, <2>5, <3>2 DEF p
  <2> QED BY <1>3, <2>6, <2>7, <2>8
<1> QED BY <1>6, <1>7 DEF f, n

-----------------------------------------------------------------------------
(* The sum of the file.                                                    *)

\* The numbers of a layout.
LEMMA WellLaidHolds ==
  ASSUME NEW K, NEW at, NEW h, WellLaid(K, at, h)
  PROVE  /\ Len(K) \in Nat /\ h \in 1..Len(K) /\ at \in [0..Len(K) -> Nat]
         /\ \A j \in 1..Len(K) :
              /\ at[j - 1] \in Nat /\ at[j] \in Nat /\ at[j] <= at[Len(K)]
              /\ at[j] = at[j - 1] + Len(Padded(K)[j])
              /\ Len(Padded(K)[j]) \in Nat /\ Len(K[j].bytes) \in Nat /\ Len(K[j].bytes) <= Len(Padded(K)[j])
              /\ \A i \in 1..Len(K[j].bytes) : Padded(K)[j][i] = K[j].bytes[i]
         /\ \A j \in 0..Len(K) : at[j] % 4 = 0
<1>1. K \in Seq(Tables) /\ Offsets(at, Padded(K)) /\ h \in 1..Len(K)
  BY DEF WellLaid
<1>2. Len(K) \in Nat
  BY <1>1, TablesHold
<1>3. /\ at \in [0..Len(K) -> Nat]
      /\ \A j \in 0..Len(K) : at[j] % 4 = 0 /\ at[j] <= at[Len(K)]
      /\ \A j \in 1..Len(K) : at[j] = at[j - 1] + Len(Padded(K)[j])
  BY <1>1, StartsRise
<1>4. \A j \in 1..Len(K) : j \in 0..Len(K) /\ j - 1 \in 0..Len(K)
  BY <1>2
<1>5. \A j \in 1..Len(K) :
        /\ Len(Padded(K)[j]) \in Nat /\ Len(K[j].bytes) \in Nat /\ Len(K[j].bytes) <= Len(Padded(K)[j])
        /\ \A i \in 1..Len(K[j].bytes) : Padded(K)[j][i] = K[j].bytes[i]
  BY <1>1, PaddedHolds
<1> QED BY <1>1, <1>2, <1>3, <1>4, <1>5

\* With the adjustment the whole adds up to the magic number.
LEMMA FileAddsUp ==
  ASSUME NEW K, NEW at, NEW h, WellLaid(K, at, h)
  PROVE  Total(FileOf(K)) = Magic
<1> DEFINE w == Unpatched(K)
           f == FileOf(K)
           s == Start(K, at, h)
           t == Total(w)
           x == Magic - t
           new == Long(x)
           c == (s + 8) \div 4 + 1
           n == Len(K)
<1>1. /\ w \in Seq(ByteValues) /\ Len(w) = 12 + 16 * n + at[n]
      /\ \A i \in 1..Len(Padded(K)[h]) : w[Start(K, at, h) + i] = Padded(K)[h][i]
  BY UnpatchedHolds DEF WellLaid
<1>2. /\ f \in Seq(ByteValues) /\ Len(f) = 12 + 16 * n + at[n]
      /\ \A i \in 1..Len(f) : f[i] = IF i - (s + 8) \in 1..4 THEN new[i - (s + 8)] ELSE w[i]
  BY FileHolds
<1>3. t \in 0..(LongBase - 1) /\ x \in Int /\ t \in Int
  <2>1. t \in 0..(LongBase - 1)
    BY <1>1, TotalIsNumber
  <2> QED BY <2>1, LongBaseHolds, NumbersFit
<1>4. /\ n \in Nat /\ h \in 1..n /\ at[h - 1] \in Nat /\ at[h] \in Nat /\ at[n] \in Nat /\ at[h] <= at[n]
      /\ at[h] = at[h - 1] + Len(Padded(K)[h]) /\ Len(Padded(K)[h]) \in Nat
      /\ at[h - 1] % 4 = 0 /\ at[n] % 4 = 0
      /\ 12 <= Len(Padded(K)[h])
      /\ \A i \in 1..4 : 8 + i \in 1..Len(Padded(K)[h]) /\ Padded(K)[h][8 + i] = 0
  <2>1. h \in 1..n /\ n \in Nat /\ n \in 0..n /\ h - 1 \in 0..n /\ n \in 1..n
    BY WellLaidHolds
  <2>2. at[h - 1] % 4 = 0 /\ at[n] % 4 = 0 /\ at[n] \in Nat
    BY <2>1, WellLaidHolds
  <2>3. /\ at[h - 1] \in Nat /\ at[h] \in Nat /\ at[h] <= at[n]
        /\ at[h] = at[h - 1] + Len(Padded(K)[h])
        /\ Len(Padded(K)[h]) \in Nat /\ Len(K[h].bytes) \in Nat /\ Len(K[h].bytes) <= Len(Padded(K)[h])
        /\ \A i \in 1..Len(K[h].bytes) : Padded(K)[h][i] = K[h].bytes[i]
    BY <2>1, WellLaidHolds
  <2>4. 12 <= Len(K[h].bytes) /\ \A i \in 1..4 : K[h].bytes[8 + i] = 0
    BY DEF WellLaid
  <2>5. 12 <= Len(Padded(K)[h])
    BY <2>3, <2>4
  <2>6. \A i \in 1..4 : 8 + i \in 1..Len(K[h].bytes) /\ 8 + i \in 1..Len(Padded(K)[h])
    BY <2>3, <2>4, <2>5
  <2> QED BY <2>1, <2>2, <2>3, <2>4, <2>5, <2>6
<1> DEFINE b == at[h - 1]
           y == at[n]
           l == Len(Padded(K)[h])
<1>5. s = 12 + 16 * n + b
  BY DEF Start
<1>6. b \in Nat /\ b % 4 = 0 /\ y \in Nat /\ y % 4 = 0 /\ l \in Nat /\ 12 <= l /\ b + l <= y /\ n \in Nat
  BY <1>4
<1> HIDE DEF w, f, s, t, x, new, n, b, y, l
<1>7. s \in Nat /\ s % 4 = 0 /\ Len(w) \in Nat /\ Len(w) % 4 = 0 /\ s + 12 <= Len(w) /\ Len(f) = Len(w)
  <2>1. Len(w) = 12 + 16 * n + y /\ Len(f) = 12 + 16 * n + y
    BY <1>1, <1>2 DEF y
  <2> QED BY ONLY <1>5, <1>6, <2>1
<1>8. c \in 1..(Len(w) \div 4) /\ 4 * c - 4 = s + 8
  BY ONLY <1>7
<1> HIDE DEF c
<1>9. \A i \in 1..4 : w[4 * c - 4 + i] = 0
  <2> SUFFICES ASSUME NEW i \in 1..4 PROVE w[4 * c - 4 + i] = 0
    OBVIOUS
  <2>1. 8 + i \in 1..Len(Padded(K)[h]) /\ Padded(K)[h][8 + i] = 0
    BY <1>4
  <2>2. w[s + (8 + i)] = 0
    BY <1>1, <2>1 DEF s
  <2>3. 4 * c - 4 + i = s + (8 + i)
    BY <1>7, <1>8
  <2> QED BY <2>2, <2>3
<1>10. WordOf(w, c) = 0
  <2> DEFINE j == 4 * c - 4
  <2>1. w[j + 1] = 0 /\ w[j + 2] = 0 /\ w[j + 3] = 0 /\ w[j + 4] = 0
    BY <1>9
  <2> HIDE DEF j
  <2>2. FieldAt(w, j, 4) = (ByteBase * ByteBase) * (ByteBase * 0 + 0) + (ByteBase * 0 + 0)
    BY ONLY <2>1, FieldOfFour
  <2>3. FieldAt(w, j, 4) = 0
    BY <2>2, BaseHolds
  <2> QED BY <2>3 DEF WordOf, j
<1>11. WordOf(f, c) = x % LongBase
  <2> DEFINE j == s + 8
  <2>1. \A k \in 1..4 : f[j + k] = Long(x)[k]
    <3> SUFFICES ASSUME NEW k \in 1..4 PROVE f[j + k] = Long(x)[k]
      OBVIOUS
    <3>1. j + k \in 1..Len(f) /\ (j + k) - (s + 8) = k
      BY <1>7
    <3> QED BY <1>2, <3>1 DEF new
  <2> HIDE DEF j
  <2>2. FieldAt(f, j, 4) = x % LongBase
    BY <1>3, <2>1, LongIsRead
  <2> QED BY <1>8, <2>2 DEF WordOf, j
<1>12. ASSUME NEW k \in 1..(Len(w) \div 4), k # c PROVE WordOf(f, k) = WordOf(w, k)
  <2>1. \A i \in 1..4 : f[4 * k - 4 + i] = w[4 * k - 4 + i]
    <3> SUFFICES ASSUME NEW i \in 1..4 PROVE f[4 * k - 4 + i] = w[4 * k - 4 + i]
      OBVIOUS
    <3> DEFINE p == 4 * k - 4 + i
    <3>1. p \in 1..Len(w)
      BY <1>7
    <3>2. c \in Int
      BY <1>7, <1>8
    <3>3. ~(p - (s + 8) \in 1..4)
      BY ONLY <1>8, <3>2, k \in 1..(Len(w) \div 4), k # c, i \in 1..4, <1>7
    <3> HIDE DEF p
    <3>4. f[p] = w[p]
      BY <1>2, <1>7, <3>1, <3>3
    <3> QED BY <3>4 DEF p
  <2> QED BY <1>1, <1>2, <1>7, <2>1, SameWord
<1>13. Total(f) = (t + WordOf(f, c)) % LongBase
  BY <1>1, <1>2, <1>7, <1>8, <1>10, <1>12, OneWordMore DEF t
<1>14. (t + (x % LongBase)) % LongBase = Magic
  <2> DEFINE r == x % LongBase
  <2>1. r \in Int
    BY <1>3, LongBaseHolds, Division
  <2>2. (r + t) % LongBase = (x + t) % LongBase
    BY <1>3, LongBaseHolds, SumsWrap
  <2> HIDE DEF r
  <2>3. r + t = t + r /\ x + t = Magic
    BY <1>3, <2>1, NumbersFit, LongBaseHolds DEF x
  <2>4. Magic % LongBase = Magic
    BY NumbersFit, LongBaseHolds, SmallStays
  <2>5. (t + r) % LongBase = Magic
    BY <2>2, <2>3, <2>4
  <2> QED BY <2>5 DEF r
<1> QED BY <1>11, <1>13, <1>14 DEF f

-----------------------------------------------------------------------------
(* The directory is read back.                                             *)

\* A number that was written into four bytes and fits there is read.
LEMMA FieldIsRead ==
  ASSUME NEW n \in 0..(LongBase - 1), NEW bytes, NEW i, \A k \in 1..4 : bytes[i + k] = Long(n)[k]
  PROVE  FieldAt(bytes, i, 4) = n
<1>1. n \in Int
  BY LongBaseHolds
<1>2. FieldAt(bytes, i, 4) = n % LongBase
  BY <1>1, LongIsRead
<1> QED BY <1>2, LongBaseHolds, SmallStays

\* The reader finds the records that were written.
LEMMA DirectoryIsRead ==
  ASSUME NEW K, NEW at, NEW h, WellLaid(K, at, h)
  PROVE  /\ NumTables(FileOf(K)) = Len(K)
         /\ \A j \in 1..Len(K) :
              RecordAt(FileOf(K), j) =
                [tag |-> K[j].tag, checksum |-> Total(K[j].bytes), offset |-> Start(K, at, j),
                 length |-> Len(K[j].bytes)]
<1> DEFINE f == FileOf(K)
           n == Len(K)
<1>1. Directory(f, K)
  BY FilePlaces
<1>2. n \in Nat /\ n < ByteBase * ByteBase
  BY WellLaidHolds DEF WellLaid
<1> HIDE DEF f
<1>3. NumTables(f) = n
  <2>1. FieldAt(f, 4, 2) = n % (ByteBase * ByteBase)
    <3>1. n \in Int /\ \A k \in 1..2 : f[4 + k] = Short(n)[k]
      BY <1>1, <1>2 DEF Directory
    <3> HIDE DEF n
    <3> QED BY <3>1, ShortIsRead
  <2>2. n % (ByteBase * ByteBase) = n
    <3> DEFINE d == ByteBase * ByteBase
    <3>1. d \in Nat /\ d > 0
      BY LongBaseHolds
    <3>2. n \in 0..(d - 1)
      BY <1>2, <3>1
    <3> HIDE DEF d, n
    <3>3. n % d = n
      BY <3>1, <3>2, SmallStays
    <3> QED BY <3>3 DEF d
  <2> QED BY <2>1, <2>2 DEF NumTables
<1>4. ASSUME NEW j \in 1..n
      PROVE  RecordAt(f, j) = [tag |-> K[j].tag, checksum |-> Total(K[j].bytes), offset |-> Start(K, at, j),
                               length |-> Len(K[j].bytes)]
  <2> DEFINE r == RecordOf(K, j)
             p == 12 + 16 * (j - 1)
             o == TableOffset(K, j)
             l == Len(K[j].bytes)
             t == Total(K[j].bytes)
             g == K[j].tag
  <2>1. p \in Int
    BY <1>2
  <2>2. IsRecord(r, K, j)
    BY RecordHolds DEF WellLaid
  <2>3. \A i \in 1..16 : f[p + i] = r[i]
    BY <1>1 DEF Directory
  <2>4. K \in Seq(Tables) /\ K[j].bytes \in Seq(ByteValues) /\ g \in 0..(LongBase - 1)
    BY TablesHold DEF WellLaid
  <2>5. t \in 0..(LongBase - 1)
    BY <2>4, TotalIsNumber
  <2>6. o = Start(K, at, j)
    BY OffsetIsPlace DEF WellLaid, Start
  <2>7. o \in 0..(LongBase - 1) /\ l \in 0..(LongBase - 1)
    <3>1. /\ at[j - 1] \in Nat /\ at[j] \in Nat /\ at[j] <= at[n]
          /\ at[j] = at[j - 1] + Len(Padded(K)[j])
          /\ Len(Padded(K)[j]) \in Nat /\ l \in Nat /\ l <= Len(Padded(K)[j])
      BY WellLaidHolds
    <3>2. at[n] \in Nat
      <4>1. n \in 0..n /\ at \in [0..n -> Nat]
        BY <1>2, WellLaidHolds
      <4> QED BY <4>1
    <3> DEFINE a == at[j - 1]
               b == at[j]
               c == at[n]
               m == Len(Padded(K)[j])
    <3>3. 12 + 16 * n + c < LongBase
      BY DEF WellLaid
    <3>4. o = 12 + 16 * n + a
      BY <2>6 DEF Start
    <3>5. a \in Nat /\ b \in Nat /\ c \in Nat /\ m \in Nat /\ b = a + m /\ b <= c /\ l \in Nat /\ l <= m /\ LongBase \in Nat
      BY <3>1, <3>2, LongBaseHolds
    <3> HIDE DEF a, b, c, m, l, n, o
    <3> QED BY ONLY <1>2, <3>3, <3>4, <3>5
  <2> HIDE DEF r, p, n
  <2>8. /\ \A i \in 1..4 : f[p + i] = Long(g)[i]
        /\ \A i \in 1..4 : f[(p + 4) + i] = Long(t)[i]
        /\ \A i \in 1..4 : f[(p + 8) + i] = Long(o)[i]
        /\ \A i \in 1..4 : f[(p + 12) + i] = Long(l)[i]
    <3>1. \A i \in 1..4 : /\ i \in 1..16 /\ 4 + i \in 1..16 /\ 8 + i \in 1..16 /\ 12 + i \in 1..16
                          /\ (p + 4) + i = p + (4 + i) /\ (p + 8) + i = p + (8 + i) /\ (p + 12) + i = p + (12 + i)
      BY <2>1
    <3>2. \A i \in 1..4 : r[i] = Long(g)[i] /\ r[4 + i] = Long(t)[i] /\ r[8 + i] = Long(o)[i] /\ r[12 + i] = Long(l)[i]
      BY <2>2 DEF IsRecord
    <3> HIDE DEF g, t, o, l
    <3> QED BY <2>3, <3>1, <3>2
  <2> HIDE DEF g, t, o, l
  <2>9. FieldAt(f, p, 4) = g /\ FieldAt(f, p + 4, 4) = t /\ FieldAt(f, p + 8, 4) = o /\ FieldAt(f, p + 12, 4) = l
    BY <2>4, <2>5, <2>7, <2>8, FieldIsRead
  <2>10. /\ 12 + 16 * (j - 1) + 4 * 0 = p /\ 12 + 16 * (j - 1) + 4 * 1 = p + 4
         /\ 12 + 16 * (j - 1) + 4 * 2 = p + 8 /\ 12 + 16 * (j - 1) + 4 * 3 = p + 12
    BY <2>1 DEF p
  <2>11. RecordAt(f, j) =
           [tag |-> FieldAt(f, 12 + 16 * (j - 1) + 4 * 0, 4), checksum |-> FieldAt(f, 12 + 16 * (j - 1) + 4 * 1, 4),
            offset |-> FieldAt(f, 12 + 16 * (j - 1) + 4 * 2, 4), length |-> FieldAt(f, 12 + 16 * (j - 1) + 4 * 3, 4)]
    BY DEF RecordAt
  <2>12. RecordAt(f, j) = [tag |-> g, checksum |-> t, offset |-> o, length |-> l]
    BY ONLY <2>9, <2>10, <2>11
  <2> QED BY <2>6, <2>12 DEF g, t, o, l
<1> QED BY <1>3, <1>4 DEF f

-----------------------------------------------------------------------------
(* The tables are read back.                                               *)

BytesOf(f, K, at, j) == SubSeq(f, Start(K, at, j) + 1, Start(K, at, j) + Len(K[j].bytes))

IsPart(b, S, s, m, n) ==
  /\ b \in Seq(S) /\ Len(b) = (IF m <= n THEN n - m + 1 ELSE 0)
  /\ \A i \in 1..(n - m + 1) : b[i] = s[m + i - 1]

\* A part of a sequence.
LEMMA PartIsSeq ==
  ASSUME NEW S, NEW s, NEW m \in Int, NEW n \in Int, \A i \in m..n : s[i] \in S
  PROVE  IsPart(SubSeq(s, m, n), S, s, m, n)
BY SubSeqProperties DEF IsPart

\* The bytes that a record leads to are those of its table, but for the adjustment.
LEMMA TableIsRead ==
  ASSUME NEW K, NEW at, NEW h, WellLaid(K, at, h), NEW j \in 1..Len(K),
         NEW new, new = Long(Magic - Total(Unpatched(K)))
  PROVE  LET b == BytesOf(FileOf(K), K, at, j)
         IN  /\ b \in Seq(ByteValues) /\ Len(b) = Len(K[j].bytes)
             /\ \A i \in 1..Len(b) : b[i] = IF j = h /\ i - 8 \in 1..4 THEN new[i - 8] ELSE K[j].bytes[i]
<1> DEFINE f == FileOf(K)
           n == Len(K)
           l == Len(K[j].bytes)
           s == Start(K, at, j)
           b == SubSeq(f, s + 1, s + l)
<1>1. /\ n \in Nat /\ at[j - 1] \in Nat /\ at[j] \in Nat /\ at[n] \in Nat /\ at[j] <= at[n]
      /\ at[j] = at[j - 1] + Len(Padded(K)[j])
      /\ Len(Padded(K)[j]) \in Nat /\ l \in Nat /\ l <= Len(Padded(K)[j])
      /\ \A i \in 1..l : Padded(K)[j][i] = K[j].bytes[i]
  <2>1. n \in Nat /\ at \in [0..n -> Nat]
    BY WellLaidHolds
  <2>2. at[n] \in Nat
    BY <2>1
  <2> QED BY <2>1, <2>2, WellLaidHolds
<1>2. f \in Seq(ByteValues) /\ Len(f) = 12 + 16 * n + at[n]
  BY FileHolds
<1>3. \A i \in 1..Len(Padded(K)[j]) :
        f[s + i] = IF j = h /\ i - 8 \in 1..4 THEN new[i - 8] ELSE Padded(K)[j][i]
  BY FilePlaces
<1>4. s = 12 + 16 * n + at[j - 1]
  BY DEF Start
<1> HIDE DEF f, n, l, s
<1>5. s \in Nat /\ s + l <= Len(f) /\ \A i \in 1..l : i \in 1..Len(Padded(K)[j])
  <2> DEFINE a == at[j - 1]
             c == at[j]
             e == at[n]
             m == Len(Padded(K)[j])
  <2>1. a \in Nat /\ c \in Nat /\ e \in Nat /\ m \in Nat /\ c <= e /\ c = a + m /\ l \in Nat /\ l <= m /\ n \in Nat
    BY <1>1
  <2>2. s = 12 + 16 * n + a /\ Len(f) = 12 + 16 * n + e
    BY <1>2, <1>4
  <2> HIDE DEF a, c, e, m
  <2>3. s \in Nat /\ s + l <= Len(f) /\ \A i \in 1..l : i \in 1..m
    BY ONLY <2>1, <2>2
  <2> QED BY <2>3 DEF m
<1>6. \A i \in (s + 1)..(s + l) : f[i] \in ByteValues
  <2>1. \A i \in (s + 1)..(s + l) : i \in 1..Len(f)
    BY <1>1, <1>5
  <2> QED BY <1>2, <2>1, ElementOfSeq
<1>7. /\ b \in Seq(ByteValues) /\ Len(b) = l
      /\ \A i \in 1..l : b[i] = f[s + i]
  <2> DEFINE p == s + 1
             q == s + l
  <2>1. p \in Int /\ q \in Int /\ q - p + 1 = l /\ (p <= q <=> l # 0) /\ \A i \in Int : p + i - 1 = s + i
    BY <1>1, <1>5
  <2>2. \A i \in p..q : f[i] \in ByteValues
    BY <1>6
  <2>3. b = SubSeq(f, p, q)
    OBVIOUS
  <2> HIDE DEF p, q, b, f
  <2>4. /\ b \in Seq(ByteValues) /\ Len(b) = (IF p <= q THEN q - p + 1 ELSE 0)
        /\ \A i \in 1..(q - p + 1) : b[i] = f[p + i - 1]
    <3>1. p \in Int /\ q \in Int
      BY <2>1
    <3>2. IsPart(SubSeq(f, p, q), ByteValues, f, p, q)
      BY ONLY <2>2, <3>1, PartIsSeq, Zenon
    <3>3. IsPart(b, ByteValues, f, p, q)
      BY ONLY <2>3, <3>2, Zenon
    <3> QED BY <3>3 DEF IsPart
  <2>5. \A i \in 1..l : b[i] = f[s + i]
    <3> SUFFICES ASSUME NEW i \in 1..l PROVE b[i] = f[s + i]
      OBVIOUS
    <3>1. i \in 1..(q - p + 1) /\ i \in Int
      BY <1>1, <2>1
    <3>2. b[i] = f[p + i - 1]
      BY <2>4, <3>1
    <3>3. p + i - 1 = s + i
      BY <2>1, <3>1
    <3> QED BY ONLY <3>2, <3>3, Zenon
  <2>6. Len(b) = l
    BY <1>1, <2>1, <2>4
  <2> QED BY <2>4, <2>5, <2>6
<1>8. BytesOf(f, K, at, j) = b
  BY DEF BytesOf, s, l
<1> HIDE DEF b
<1>9. \A i \in 1..l : b[i] = IF j = h /\ i - 8 \in 1..4 THEN new[i - 8] ELSE K[j].bytes[i]
  BY <1>1, <1>3, <1>5, <1>7
<1> QED BY <1>7, <1>8, <1>9 DEF f, l

\* Zero is four bytes of zero.
LEMMA ZeroIsLong == Long(0) \in Seq(ByteValues) /\ Len(Long(0)) = 4 /\ \A i \in 1..4 : Long(0)[i] = 0
<1> DEFINE w == Long(0)
           d == ByteBase * ByteBase
<1>1. IsLong(w, 0)
  BY LongHolds
<1> HIDE DEF w
<1>2. w \in Seq(ByteValues) /\ Len(w) = 4 /\ w[1] \in Nat /\ w[2] \in Nat /\ w[3] \in Nat /\ w[4] \in Nat
  <2>1. w \in Seq(ByteValues) /\ Len(w) = 4 /\ \A k \in 1..4 : w[k] \in ByteValues
    BY <1>1 DEF IsLong
  <2>2. \A b \in ByteValues : b \in Nat
    BY BaseHolds DEF ByteValues
  <2> QED BY <2>1, <2>2
<1>3. 0 % LongBase = 0
  BY LongBaseHolds, SmallStays
<1>4. d * (ByteBase * w[1] + w[2]) + (ByteBase * w[3] + w[4]) = 0
  BY <1>1, <1>3 DEF IsLong
<1>5. d \in Nat /\ d > 0
  BY LongBaseHolds
<1> HIDE DEF d
<1>6. \A c \in Nat : c > 0 => \A x, y \in Nat : c * x + y = 0 => x = 0 /\ y = 0
  <2> SUFFICES ASSUME NEW c \in Nat, c > 0, NEW x \in Nat, NEW y \in Nat, c * x + y = 0 PROVE x = 0 /\ y = 0
    OBVIOUS
  <2>1. c * x \in Nat /\ (x > 0 => c * x >= c)
    OBVIOUS
  <2> QED BY <2>1
<1>7. ByteBase \in Nat /\ ByteBase > 0
  BY BaseHolds
<1>8. ByteBase * w[1] + w[2] \in Nat /\ ByteBase * w[3] + w[4] \in Nat
  BY <1>2, <1>7
<1>9. ByteBase * w[1] + w[2] = 0 /\ ByteBase * w[3] + w[4] = 0
  BY <1>4, <1>5, <1>6, <1>8
<1>10. w[1] = 0 /\ w[2] = 0 /\ w[3] = 0 /\ w[4] = 0
  BY <1>2, <1>6, <1>7, <1>9
<1>11. \A i \in 1..4 : w[i] = 0
  <2>1. 1..4 = {1, 2, 3, 4}
    OBVIOUS
  <2> QED BY <1>10, <2>1
<1> QED BY <1>2, <1>11 DEF w

\* Setting the adjustment to zero undoes the patch.
LEMMA AdjustmentUndone ==
  ASSUME NEW b \in Seq(ByteValues), NEW c \in Seq(ByteValues), Len(c) = Len(b), 12 <= Len(b),
         \A i \in 1..4 : b[8 + i] = 0,
         \A i \in 1..Len(b) : i - 8 \notin 1..4 => c[i] = b[i]
  PROVE  Patched(c, 8, Long(0)) = b
<1> DEFINE z == Long(0)
           p == Patched(c, 8, z)
<1>1. z \in Seq(ByteValues) /\ Len(z) = 4 /\ \A i \in 1..4 : z[i] = 0
  BY ZeroIsLong
<1> HIDE DEF z
<1>2. /\ p \in Seq(ByteValues) /\ Len(p) = Len(c)
      /\ \A i \in 1..Len(c) : p[i] = IF i - 8 \in 1..4 THEN z[i - 8] ELSE c[i]
  BY <1>1, PatchedHolds
<1> HIDE DEF p
<1>3. ASSUME NEW i \in 1..Len(b) PROVE p[i] = b[i]
  <2>1. CASE i - 8 \in 1..4
    <3>1. p[i] = 0
      BY <1>1, <1>2, <2>1
    <3>2. Len(b) \in Nat
      BY LenProperties
    <3>3. 8 + (i - 8) = i
      BY <3>2
    <3>4. b[8 + (i - 8)] = 0
      BY <2>1
    <3> QED BY <3>1, <3>3, <3>4
  <2>2. CASE i - 8 \notin 1..4
    BY <1>2, <2>2
  <2> QED BY <2>1, <2>2
<1>4. p = b
  BY <1>2, <1>3, SeqEqual
<1> QED BY <1>4 DEF p, z

\* A table read back and rid of the adjustment is the table that was written.
LEMMA AdjustmentRemoved ==
  ASSUME NEW K, NEW at, NEW h, WellLaid(K, at, h), NEW j \in 1..Len(K)
  PROVE  WithoutAdjustment([tag |-> K[j].tag, bytes |-> BytesOf(FileOf(K), K, at, j)]) = K[j]
<1> DEFINE c == BytesOf(FileOf(K), K, at, j)
           new == Long(Magic - Total(Unpatched(K)))
           b == K[j].bytes
           t == [tag |-> K[j].tag, bytes |-> c]
<1>1. /\ c \in Seq(ByteValues) /\ Len(c) = Len(b)
      /\ \A i \in 1..Len(c) : c[i] = IF j = h /\ i - 8 \in 1..4 THEN new[i - 8] ELSE b[i]
  BY TableIsRead
<1>2. K[j] \in Tables /\ b \in Seq(ByteValues)
  BY TablesHold DEF WellLaid
<1>3. K[j] = [tag |-> K[j].tag, bytes |-> b]
  BY <1>2 DEF Tables
<1> HIDE DEF c, new
<1>4. CASE j = h
  <2>1. K[j].tag = HeadTag /\ 12 <= Len(b) /\ \A i \in 1..4 : b[8 + i] = 0
    BY <1>4 DEF WellLaid
  <2>2. \A i \in 1..Len(b) : i - 8 \notin 1..4 => c[i] = b[i]
    BY <1>1
  <2> HIDE DEF b
  <2>3. Patched(c, 8, Long(0)) = b
    BY <1>1, <1>2, <2>1, <2>2, AdjustmentUndone
  <2>4. WithoutAdjustment(t) = [tag |-> K[j].tag, bytes |-> Patched(c, 8, Long(0))]
    BY <2>1 DEF WithoutAdjustment
  <2> QED BY <1>3, <2>3, <2>4 DEF c
<1>5. CASE j # h
  <2>1. K[j].tag # HeadTag
    <3>1. Len(K) \in Nat /\ h \in 1..Len(K)
      BY WellLaidHolds
    <3>2. K[j].tag \in Int /\ K[h].tag \in Int
      <4>1. K[j].tag \in 0..(LongBase - 1) /\ K[h].tag \in 0..(LongBase - 1)
        BY <3>1, TablesHold DEF WellLaid
      <4> QED BY <4>1, LongBaseHolds
    <3>3. j < h \/ h < j
      BY <1>5, <3>1
    <3> QED BY <3>1, <3>2, <3>3 DEF WellLaid
  <2>2. c = b
    BY <1>1, <1>2, <1>5, SeqEqual
  <2> QED BY <1>3, <2>1, <2>2 DEF WithoutAdjustment, c
<1> QED BY <1>4, <1>5

-----------------------------------------------------------------------------
(* The file is sound, and its tables are parsed as they were.              *)

\* The reader's tables are those that were laid out.
LEMMA FileIsRead ==
  ASSUME NEW K, NEW at, NEW h, WellLaid(K, at, h)
  PROVE  ReadFileTables(FileOf(K)) =
           [j \in 1..Len(K) |-> [tag |-> K[j].tag, bytes |-> BytesOf(FileOf(K), K, at, j)]]
<1> DEFINE f == FileOf(K)
           n == Len(K)
           r(j) == RecordAt(f, j)
           b(j) == SubSeq(f, r(j).offset + 1, r(j).offset + r(j).length)
<1>1. ReadFileTables(f) = [j \in 1..NumTables(f) |-> [tag |-> r(j).tag, bytes |-> b(j)]]
  BY DEF ReadFileTables
<1>2. NumTables(f) = n
  BY DirectoryIsRead
<1>3. ASSUME NEW j \in 1..n PROVE r(j).tag = K[j].tag /\ b(j) = BytesOf(f, K, at, j)
  <2>1. r(j) = [tag |-> K[j].tag, checksum |-> Total(K[j].bytes), offset |-> Start(K, at, j),
                length |-> Len(K[j].bytes)]
    BY DirectoryIsRead
  <2> HIDE DEF f
  <2>2. r(j).tag = K[j].tag /\ r(j).offset = Start(K, at, j) /\ r(j).length = Len(K[j].bytes)
    BY <2>1
  <2> HIDE DEF r
  <2> QED BY <2>2 DEF BytesOf
<1> HIDE DEF f, r, b
<1>4. ReadFileTables(f) = [j \in 1..n |-> [tag |-> K[j].tag, bytes |-> BytesOf(f, K, at, j)]]
  BY <1>1, <1>2, <1>3
<1> QED BY <1>4 DEF f

\* A file that is laid out well is sound.
LEMMA FileIsSound ==
  ASSUME NEW K, NEW at, NEW h, WellLaid(K, at, h)
  PROVE  IsSoundFile(FileOf(K))
<1> DEFINE f == FileOf(K)
           n == Len(K)
           records == [j \in 1..NumTables(f) |-> RecordAt(f, j)]
           bytes(r) == SubSeq(f, r.offset + 1, r.offset + r.length)
           end(j) == IF j = 0 THEN 12 + 16 * Len(records) ELSE records[j].offset + records[j].length
<1>1. n \in Nat /\ at \in [0..n -> Nat]
  BY WellLaidHolds
<1>2. Len(f) = 12 + 16 * n + at[n]
  BY FileHolds
<1>3. Total(f) = Magic
  BY FileAddsUp
<1>4. NumTables(f) = n /\ \A j \in 1..n :
        RecordAt(f, j) = [tag |-> K[j].tag, checksum |-> Total(K[j].bytes), offset |-> Start(K, at, j),
                          length |-> Len(K[j].bytes)]
  BY DirectoryIsRead
<1>5. \A j \in 1..n : WithoutAdjustment([tag |-> K[j].tag, bytes |-> BytesOf(f, K, at, j)]) = K[j]
  BY AdjustmentRemoved
<1>6. \A j \in 1..n :
              /\ at[j - 1] \in Nat /\ at[j] \in Nat /\ at[j] <= at[n]
              /\ at[j] = at[j - 1] + Len(Padded(K)[j])
              /\ Len(Padded(K)[j]) \in Nat /\ Len(K[j].bytes) \in Nat /\ Len(K[j].bytes) <= Len(Padded(K)[j])
  BY WellLaidHolds
<1>7. \A j \in 0..n : at[j] % 4 = 0
  BY WellLaidHolds
<1>8. IsSoundFile(f) <=>
        /\ \A j \in DOMAIN records :
             /\ j > 1 => records[j - 1].tag < records[j].tag
             /\ records[j].offset % 4 = 0 /\ end(j - 1) <= records[j].offset /\ end(j) <= Len(f)
             /\ records[j].checksum =
                  Total(WithoutAdjustment([tag |-> records[j].tag, bytes |-> bytes(records[j])]).bytes)
        /\ Total(f) = Magic
  BY DEF IsSoundFile
<1> HIDE DEF f, n
<1>9. records = [j \in 1..n |-> [tag |-> K[j].tag, checksum |-> Total(K[j].bytes), offset |-> Start(K, at, j),
                                 length |-> Len(K[j].bytes)]]
  BY <1>4
<1> HIDE DEF records
<1>10. DOMAIN records = 1..n /\ Len(records) = n
  BY <1>1, <1>9
<1>11. \A j \in 1..n : /\ records[j].tag = K[j].tag /\ records[j].checksum = Total(K[j].bytes)
                       /\ records[j].offset = Start(K, at, j) /\ records[j].length = Len(K[j].bytes)
  BY <1>9
<1>12. ASSUME NEW j \in 1..n
       PROVE  /\ j > 1 => records[j - 1].tag < records[j].tag
              /\ records[j].offset % 4 = 0 /\ end(j - 1) <= records[j].offset /\ end(j) <= Len(f)
              /\ records[j].checksum =
                   Total(WithoutAdjustment([tag |-> records[j].tag, bytes |-> bytes(records[j])]).bytes)
  <2>1. j > 1 => records[j - 1].tag < records[j].tag
    <3> SUFFICES ASSUME j > 1 PROVE records[j - 1].tag < records[j].tag
      OBVIOUS
    <3>1. j - 1 \in 1..n /\ j - 1 < j
      BY <1>1
    <3>2. K[j - 1].tag < K[j].tag
      BY <3>1 DEF WellLaid, n
    <3> QED BY <1>11, <3>1, <3>2
  <2>2. records[j].offset % 4 = 0
    <3>1. at[j - 1] % 4 = 0 /\ at[j - 1] \in Nat
      <4>1. j - 1 \in 0..n
        BY <1>1
      <4> QED BY <1>1, <1>7, <4>1
    <3>2. records[j].offset = 12 + 16 * n + at[j - 1]
      BY <1>11 DEF Start, n
    <3> DEFINE a == at[j - 1]
    <3> HIDE DEF a
    <3>3. (12 + 16 * n + a) % 4 = 0
      BY <1>1, <3>1 DEF a
    <3> QED BY <3>2, <3>3 DEF a
  <2>3. end(j - 1) <= records[j].offset
    <3>1. records[j].offset = 12 + 16 * n + at[j - 1]
      BY <1>11 DEF Start, n
    <3>2. CASE j = 1
      <4>1. at[0] \in Nat
        BY <1>1
      <4>2. end(j - 1) = 12 + 16 * n /\ j - 1 = 0
        BY <1>10, <3>2
      <4> QED BY <1>1, <3>1, <4>1, <4>2
    <3>3. CASE j > 1
      <4> DEFINE i == j - 1
      <4>1. i \in 1..n /\ i # 0
        BY <1>1, <3>3
      <4> HIDE DEF i
      <4>2. end(i) = records[i].offset + records[i].length
        BY <4>1
      <4>3. records[i].offset = 12 + 16 * n + at[i - 1] /\ records[i].length = Len(K[i].bytes)
        BY <1>11, <4>1 DEF Start, n
      <4> DEFINE a == at[i - 1]
                 c == at[i]
                 l == Len(K[i].bytes)
                 m == Len(Padded(K)[i])
      <4>4. a \in Nat /\ c \in Nat /\ l \in Nat /\ m \in Nat /\ l <= m /\ c = a + m
        BY <1>6, <4>1
      <4>5. end(i) = 12 + 16 * n + a + l /\ records[j].offset = 12 + 16 * n + c
        BY <3>1, <4>2, <4>3 DEF i
      <4> HIDE DEF a, c, l, m, end
      <4>6. end(i) <= records[j].offset
        BY ONLY <1>1, <4>4, <4>5
      <4> QED BY <4>6 DEF i
    <3> QED BY <1>1, <3>2, <3>3
  <2>4. end(j) <= Len(f)
    <3> DEFINE a == at[j - 1]
               c == at[j]
               e == at[n]
               l == Len(K[j].bytes)
               m == Len(Padded(K)[j])
    <3>1. a \in Nat /\ c \in Nat /\ l \in Nat /\ m \in Nat /\ l <= m /\ c = a + m /\ c <= e
      BY <1>6
    <3>2. e \in Nat
      <4>1. n \in 0..n
        BY <1>1
      <4> QED BY <1>1, <4>1
    <3>3. end(j) = 12 + 16 * n + a + l
      BY <1>1, <1>11 DEF Start, n
    <3>4. Len(f) = 12 + 16 * n + e
      BY <1>2
    <3> HIDE DEF a, c, e, l, m, end
    <3> QED BY ONLY <1>1, <3>1, <3>2, <3>3, <3>4
  <2>5. records[j].checksum =
          Total(WithoutAdjustment([tag |-> records[j].tag, bytes |-> bytes(records[j])]).bytes)
    <3>1. bytes(records[j]) = BytesOf(f, K, at, j)
      BY <1>11 DEF BytesOf
    <3>2. WithoutAdjustment([tag |-> records[j].tag, bytes |-> bytes(records[j])]) = K[j]
      BY <1>5, <1>11, <3>1
    <3> QED BY <1>11, <3>2
  <2> HIDE DEF end, bytes
  <2> QED BY <2>1, <2>2, <2>3, <2>4, <2>5
<1> HIDE DEF end, bytes
<1> QED BY <1>3, <1>8, <1>10, <1>12 DEF f


\* f picks all the places there are.
LEMMA PicksAll ==
  ASSUME NEW n \in Nat, NEW f, Picks(f, 1..n)
  PROVE  \A i \in 1..n : f[i] = i
<1>1. Cardinality(1..n) = n
  BY UpToIsFinite
<1>2. /\ DOMAIN f = 1..n /\ (\A i \in 1..n : f[i] \in 1..n)
      /\ (\A i, j \in 1..n : i < j => f[i] < f[j])
      /\ \A i \in 1..n : \E j \in 1..n : f[j] = i
  BY <1>1 DEF Picks
<1> DEFINE Good == {k \in 0..n : \A i \in 1..k : f[i] = i}
<1>3. 0 \in Good
  OBVIOUS
<1>4. ASSUME NEW k \in 0..(n - 1), k \in Good PROVE k + 1 \in Good
  <2>1. k + 1 \in 1..n /\ k + 1 \in 0..n /\ \A i \in 1..(k + 1) : i \in 1..k \/ i = k + 1
    OBVIOUS
  <2>2. \A i \in 1..k : f[i] = i /\ i \in 1..n
    BY <1>4
  <2>3. PICK m \in 1..n : f[m] = k + 1
    BY <1>2, <2>1
  <2>4. m \notin 1..k
    BY <2>2, <2>3
  <2>5. ~(k + 1 < m)
    <3> SUFFICES ASSUME k + 1 < m PROVE FALSE
      OBVIOUS
    <3> DEFINE v == f[k + 1]
    <3>1. v \in 1..n /\ v < k + 1
      BY <1>2, <2>1, <2>3
    <3> HIDE DEF v
    <3>2. v \in 1..k /\ f[v] = v
      BY <2>2, <3>1
    <3>3. f[v] < f[k + 1]
      BY <1>2, <2>1, <3>1
    <3> QED BY <3>1, <3>2, <3>3 DEF v
  <2>6. f[k + 1] = k + 1
    BY <2>1, <2>3, <2>4, <2>5
  <2> QED BY <2>1, <2>2, <2>6
<1>5. n \in Good
  <2> HIDE DEF Good
  <2>1. 0..n \subseteq Good
    BY <1>3, <1>4, InductionUpTo
  <2> QED BY <2>1
<1> QED BY <1>5

\* What stands at all the places is all of it.
LEMMA AllPlaces ==
  ASSUME NEW X, NEW s \in Seq(X)
  PROVE  AtPlaces(s, DOMAIN s) = s
<1> DEFINE t == AtPlaces(s, DOMAIN s)
<1>1. Len(s) \in Nat /\ DOMAIN s = 1..Len(s)
  BY LenProperties
<1>2. DOMAIN s \in SUBSET DOMAIN s
  OBVIOUS
<1>3. t \in Seq(X) /\ \E f : Picks(f, DOMAIN s) /\ Len(t) = Len(f) /\ \A n \in DOMAIN f : t[n] = s[f[n]]
  BY <1>2, AtPlacesPicks
<1>4. PICK f : Picks(f, DOMAIN s) /\ Len(t) = Len(f) /\ \A n \in DOMAIN f : t[n] = s[f[n]]
  BY <1>3
<1> HIDE DEF t
<1>5. \A i \in 1..Len(s) : f[i] = i
  BY <1>1, <1>4, PicksAll
<1>6. Len(f) = Len(s) /\ DOMAIN f = 1..Len(s)
  BY <1>1, <1>4, UpToIsFinite DEF Picks
<1>7. \A i \in 1..Len(s) : t[i] = s[i]
  BY <1>4, <1>5, <1>6
<1>8. t = s
  BY <1>3, <1>4, <1>6, <1>7, SeqEqual
<1> QED BY <1>8 DEF t

\* Reading a file and parsing what was read gives the tables that were laid out.
LEMMA ReadIsParsed ==
  ASSUME NEW K, NEW at, NEW h, WellLaid(K, at, h)
  PROVE  ParseTables(ReadFileTables(FileOf(K))) = K
<1> DEFINE s == ReadFileTables(FileOf(K))
           n == Len(K)
           b(j) == BytesOf(FileOf(K), K, at, j)
<1>1. n \in Nat /\ K \in Seq(Tables) /\ DOMAIN K = 1..n
  BY TablesHold DEF WellLaid
<1>2. s = [j \in 1..n |-> [tag |-> K[j].tag, bytes |-> b(j)]]
  BY FileIsRead
<1>3. \A j \in 1..n : b(j) \in Seq(ByteValues)
  BY TableIsRead
<1>4. \A j \in 1..n : WithoutAdjustment([tag |-> K[j].tag, bytes |-> b(j)]) = K[j]
  BY AdjustmentRemoved
<1> HIDE DEF s, b, n
<1>5. DOMAIN s = 1..n /\ \A j \in 1..n : s[j] = [tag |-> K[j].tag, bytes |-> b(j)] /\ s[j].bytes # Junk
  BY <1>2, <1>3, JunkIsNoBytes
<1>6. {i \in DOMAIN s : s[i].bytes # Junk} = DOMAIN s
  BY <1>5
<1>7. s \in Seq(ToSet(s))
  <2>1. s \in [1..n -> ToSet(s)]
    BY <1>2, <1>5 DEF ToSet
  <2> QED BY <1>1, <2>1
<1>8. AtPlaces(s, DOMAIN s) = s
  BY <1>7, AllPlaces
<1>9. ParseTables(s) = Mapped(s, WithoutAdjustment)
  <2>1. Those(s, LAMBDA t : t.bytes # Junk) = s
    BY <1>6, <1>8 DEF Those
  <2> QED BY <2>1 DEF ParseTables
<1>10. Mapped(s, WithoutAdjustment) = [j \in 1..n |-> WithoutAdjustment(s[j])]
  BY <1>5 DEF Mapped
<1>11. [j \in 1..n |-> WithoutAdjustment(s[j])] = [j \in 1..n |-> K[j]]
  BY <1>4, <1>5
<1>12. K = [j \in 1..n |-> K[j]]
  BY <1>1, LenProperties
<1> QED BY <1>9, <1>10, <1>11, <1>12 DEF s

-----------------------------------------------------------------------------
(* Of each tag the first table, in the order of tags.                      *)

InTagOrder(K) == \A i, j \in 1..Len(K) : i < j => K[i].tag < K[j].tag

\* Keys that differ are in their order when the sequence is sorted by them.
LEMMA SortOrders ==
  ASSUME NEW n \in Nat, NEW s, DOMAIN s = 1..n, NEW k \in [1..n -> Nat], NEW f, NEW t, Sorts(t, f, k, s),
         \A i, j \in 1..n : i # j => k[i] # k[j]
  PROVE  /\ \A m \in 1..n : f[m] \in 1..n /\ t[m] = s[f[m]]
         /\ \A i, j \in 1..n : i < j => k[f[i]] < k[f[j]]
<1> DEFINE D == 1..n
           R == KeyOrder(k)
<1>1. IsFiniteSet(D) /\ Cardinality(D) = n
  BY UpToIsFinite
<1>2. StrictTotalOrder(R, D)
  <2>1. DOMAIN k = D /\ D \subseteq Int /\ \A i \in D : k[i] \in Int
    OBVIOUS
  <2> HIDE DEF D
  <2>2. \A i, j \in D : <<i, j>> \in R <=> k[i] < k[j] \/ (k[i] = k[j] /\ i < j)
    BY <2>1 DEF KeyOrder
  <2>3. \A i, j \in D : i \in Int /\ j \in Int /\ k[i] \in Int /\ k[j] \in Int
    BY <2>1
  <2> HIDE DEF R
  <2>4. \A i \in D : <<i, i>> \notin R
    BY <2>2, <2>3
  <2>5. \A h, i, j \in D : <<h, i>> \in R /\ <<i, j>> \in R => <<h, j>> \in R
    <3> SUFFICES ASSUME NEW h \in D, NEW i \in D, NEW j \in D, <<h, i>> \in R, <<i, j>> \in R PROVE <<h, j>> \in R
      OBVIOUS
    <3>1. /\ k[h] < k[i] \/ (k[h] = k[i] /\ h < i)
          /\ k[i] < k[j] \/ (k[i] = k[j] /\ i < j)
      BY <2>2
    <3>2. {h, i, j, k[h], k[i], k[j]} \subseteq Int
      BY <2>3
    <3>3. k[h] < k[j] \/ (k[h] = k[j] /\ h < j)
      BY <3>1, <3>2
    <3> QED BY <2>2, <3>3
  <2>6. \A i, j \in D : i # j => <<i, j>> \in R \/ <<j, i>> \in R
    BY <2>2, <2>3
  <2> QED BY <2>4, <2>5, <2>6 DEF StrictTotalOrder
<1> HIDE DEF R
<1>3. Enumerates(f, R, D)
  <2>1. /\ f = [m \in D |-> f[m]]
        /\ \A m, i \in D : RankIn(R, D, i) = m - 1 => f[m] \in D /\ RankIn(R, D, f[m]) = m - 1
    BY DEF Sorts, R
  <2>2. 1..Cardinality(D) = D
    BY <1>1
  <2> HIDE DEF D
  <2> QED BY <1>1, <1>2, <2>1, <2>2, RanksEnumerate
<1>4. DOMAIN f = D /\ (\A m \in D : f[m] \in D) /\ \A i, j \in D : i < j => <<f[i], f[j]>> \in R
  BY <1>1, <1>3 DEF Enumerates
<1>5. \A m \in D : t[m] = s[f[m]]
  BY DEF Sorts
<1>6. ASSUME NEW i \in D, NEW j \in D, i < j PROVE k[f[i]] < k[f[j]]
  <2>1. f[i] \in D /\ f[j] \in D /\ <<f[i], f[j]>> \in R
    BY <1>4, <1>6
  <2>2. k[f[i]] < k[f[j]] \/ (k[f[i]] = k[f[j]] /\ f[i] < f[j])
    BY <2>1 DEF R, KeyOrder
  <2>3. f[i] < f[j] => f[i] # f[j]
    BY <2>1
  <2> QED BY <2>1, <2>2, <2>3
<1> QED BY <1>4, <1>5, <1>6

\* Tags can be sorted by.
LEMMA TagsAreNumbers ==
  ASSUME NEW K \in Seq(Tables)
  PROVE  [i \in DOMAIN K |-> K[i].tag] \in [DOMAIN K -> Nat]
<1>1. \A j \in DOMAIN K : K[j].tag \in 0..(LongBase - 1)
  BY TablesHold
<1>2. \A j \in DOMAIN K : K[j].tag \in Nat
  BY <1>1, LongBaseHolds
<1> QED BY <1>2

\* Of several tables of a tag the first one stays.
LEMMA FirstTablesHold ==
  ASSUME NEW T \in Seq(Tables)
  PROVE  LET t == FirstOfEach(T, LAMBDA x : x.tag)
         IN  /\ t \in Seq(Tables) /\ Len(t) <= Len(T)
             /\ \A i, j \in 1..Len(t) : i # j => t[i].tag # t[j].tag
             /\ \A m \in 1..Len(t) : \E i \in 1..Len(T) : t[m] = T[i]
             /\ \A i \in 1..Len(T) : \E m \in 1..Len(t) : t[m].tag = T[i].tag
<1> DEFINE n == Len(T)
           k == [i \in DOMAIN T |-> T[i].tag]
           Q == {i \in DOMAIN T : \A j \in 1..(i - 1) : T[j].tag # T[i].tag}
           t == FirstOfEach(T, LAMBDA x : x.tag)
<1>1. t = AtPlaces(T, Q)
  BY DEF FirstOfEach
<1>2. DOMAIN T = 1..n /\ n \in Nat
  BY LenProperties
<1>3. Firsts(k) = Q
  <2>1. \A i \in DOMAIN T : \A h \in 1..(i - 1) : h \in DOMAIN T
    BY <1>2
  <2> QED BY <2>1 DEF Firsts
<1>4. \A i \in 1..n : \E h \in Q : T[h].tag = T[i].tag
  <2>1. DOMAIN k = 1..n
    BY <1>2
  <2>2. \A i \in 1..n : k[i] = T[i].tag
    BY <1>2
  <2>3. Q \subseteq 1..n
    BY <1>2
  <2> HIDE DEF k, Q
  <2>4. \A i \in 1..n : \E h \in Firsts(k) : k[h] = k[i]
    BY <1>2, <2>1, FirstsCover
  <2> QED BY <1>3, <2>2, <2>3, <2>4
<1>5. Q \in SUBSET DOMAIN T
  OBVIOUS
<1>6. \A i, j \in Q : i < j => T[i].tag # T[j].tag
  <2>1. \A i, j \in Q : i < j => i \in 1..(j - 1)
    BY <1>2
  <2> QED BY <2>1
<1> HIDE DEF Q, t, k
<1>7. t \in Seq(Tables) /\ \E f : Picks(f, Q) /\ Len(t) = Len(f) /\ \A m \in DOMAIN f : t[m] = T[f[m]]
  BY <1>1, <1>5, AtPlacesPicks
<1>8. PICK f : Picks(f, Q) /\ Len(t) = Len(f) /\ \A m \in DOMAIN f : t[m] = T[f[m]]
  BY <1>7
<1>9. /\ Len(t) = Cardinality(Q) /\ DOMAIN f = 1..Len(t) /\ Len(t) \in Nat
      /\ (\A m \in 1..Len(t) : f[m] \in Q /\ t[m] = T[f[m]])
      /\ (\A i, j \in 1..Len(t) : i < j => f[i] < f[j])
      /\ \A i \in Q : \E m \in 1..Len(t) : f[m] = i
  BY <1>8 DEF Picks
<1>10. Len(t) <= n
  <2>1. IsFiniteSet(1..n) /\ Cardinality(1..n) = n /\ Q \subseteq 1..n
    BY <1>2, <1>5, UpToIsFinite
  <2> QED BY <1>9, <2>1, PartIsFinite
<1>11. \A i, j \in 1..Len(t) : i < j => t[i].tag # t[j].tag
  BY <1>6, <1>9
<1>12. \A i, j \in 1..Len(t) : i # j => t[i].tag # t[j].tag
  <2> SUFFICES ASSUME NEW i \in 1..Len(t), NEW j \in 1..Len(t), i # j PROVE t[i].tag # t[j].tag
    OBVIOUS
  <2>1. i < j \/ j < i
    BY <1>9
  <2> QED BY <1>11, <2>1
<1>13. \A m \in 1..Len(t) : \E i \in 1..n : t[m] = T[i]
  BY <1>2, <1>5, <1>9
<1>14. \A i \in 1..n : \E m \in 1..Len(t) : t[m].tag = T[i].tag
  BY <1>4, <1>9
<1> QED BY <1>7, <1>10, <1>12, <1>13, <1>14 DEF t, n

\* Tables with different tags, once sorted, are in the order of their tags.
LEMMA SortedTablesHold ==
  ASSUME NEW s \in Seq(Tables), \A i, j \in 1..Len(s) : i # j => s[i].tag # s[j].tag
  PROVE  LET t == SortedBy(s, LAMBDA x : x.tag)
         IN  t \in Seq(Tables) /\ Len(t) = Len(s) /\ ToSet(t) = ToSet(s) /\ InTagOrder(t)
<1> DEFINE D == DOMAIN s
           n == Len(s)
           k == [i \in D |-> s[i].tag]
           before(i, j) == s[i].tag < s[j].tag \/ (s[i].tag = s[j].tag /\ i < j)
           nth(m) == CHOOSE j \in D : Cardinality({i \in D : before(i, j)}) = m - 1
           f == [m \in D |-> nth(m)]
           t == SortedBy(s, LAMBDA e : e.tag)
<1>1. t = [m \in D |-> s[nth(m)]]
  BY DEF SortedBy
<1>2. \A j \in D : RankIn(KeyOrder(k), D, j) = Cardinality({i \in D : before(i, j)})
  <2> SUFFICES ASSUME NEW j \in D PROVE {y \in D : <<y, j>> \in KeyOrder(k)} = {i \in D : before(i, j)}
    BY DEF RankIn
  <2> QED BY DEF KeyOrder
<1> HIDE DEF before
<1>3. \A m, i \in D : RankIn(KeyOrder(k), D, i) = m - 1 =>
        f[m] \in D /\ RankIn(KeyOrder(k), D, f[m]) = m - 1
  BY <1>2
<1>4. k \in [D -> Nat]
  BY TagsAreNumbers
<1>5. D = 1..n /\ n \in Nat
  BY LenProperties
<1>6. \A i \in D : k[i] = s[i].tag
  OBVIOUS
<1> HIDE DEF nth, k, t
<1>7. f = [m \in D |-> f[m]] /\ t = [m \in D |-> s[f[m]]]
  BY <1>1
<1> HIDE DEF f
<1>8. Sorts(t, f, k, s)
  BY <1>3, <1>7 DEF Sorts
<1>9. t \in Seq(Tables) /\ Len(t) = Len(s) /\ ToSet(t) = ToSet(s)
  BY <1>4, <1>8, SortHolds
<1>10. \A i, j \in 1..n : i # j => k[i] # k[j]
  BY <1>5, <1>6
<1> HIDE DEF D, n
<1>11. DOMAIN s = 1..n /\ k \in [1..n -> Nat]
  BY <1>4, <1>5 DEF D
<1>12. /\ \A m \in 1..n : f[m] \in 1..n /\ t[m] = s[f[m]]
       /\ \A i, j \in 1..n : i < j => k[f[i]] < k[f[j]]
  BY <1>5, <1>8, <1>10, <1>11, SortOrders
<1>13. InTagOrder(t)
  <2> SUFFICES ASSUME NEW i \in 1..n, NEW j \in 1..n, i < j PROVE t[i].tag < t[j].tag
    BY <1>9 DEF InTagOrder, n
  <2>1. f[i] \in D /\ f[j] \in D /\ k[f[i]] < k[f[j]] /\ t[i] = s[f[i]] /\ t[j] = s[f[j]]
    BY <1>5, <1>12
  <2> QED BY <1>6, <2>1
<1> QED BY <1>9, <1>13 DEF t

Kept(T) == ByKey(T, LAMBDA x : x.tag)

\* What is kept is in order, comes from what there was and has all its tags.
LEMMA KeptHolds ==
  ASSUME NEW T \in Seq(Tables)
  PROVE  /\ Kept(T) \in Seq(Tables) /\ Len(Kept(T)) <= Len(T) /\ InTagOrder(Kept(T))
         /\ ToSet(Kept(T)) = ToSet(FirstOfEach(T, LAMBDA x : x.tag))
         /\ \A m \in 1..Len(Kept(T)) : \E i \in 1..Len(T) : Kept(T)[m] = T[i]
         /\ \A i \in 1..Len(T) : \E m \in 1..Len(Kept(T)) : Kept(T)[m].tag = T[i].tag
<1> DEFINE s == FirstOfEach(T, LAMBDA x : x.tag)
           t == SortedBy(s, LAMBDA x : x.tag)
<1>1. Kept(T) = t
  BY DEF Kept, ByKey
<1>2. /\ s \in Seq(Tables) /\ Len(s) <= Len(T)
      /\ \A i, j \in 1..Len(s) : i # j => s[i].tag # s[j].tag
      /\ \A m \in 1..Len(s) : \E i \in 1..Len(T) : s[m] = T[i]
      /\ \A i \in 1..Len(T) : \E m \in 1..Len(s) : s[m].tag = T[i].tag
  BY FirstTablesHold
<1> HIDE DEF s
<1>3. t \in Seq(Tables) /\ Len(t) = Len(s) /\ ToSet(t) = ToSet(s) /\ InTagOrder(t)
  BY <1>2, SortedTablesHold
<1> HIDE DEF t
<1>4. DOMAIN t = 1..Len(t) /\ DOMAIN s = 1..Len(t)
  BY <1>2, <1>3, LenProperties
<1>5. /\ \A m \in 1..Len(t) : \E j \in 1..Len(t) : t[m] = s[j]
      /\ \A m \in 1..Len(t) : \E j \in 1..Len(t) : s[m] = t[j]
  BY <1>3, <1>4 DEF ToSet
<1>6. \A m \in 1..Len(t) : \E i \in 1..Len(T) : t[m] = T[i]
  BY <1>2, <1>3, <1>5
<1>7. \A i \in 1..Len(T) : \E m \in 1..Len(t) : t[m].tag = T[i].tag
  <2> SUFFICES ASSUME NEW i \in 1..Len(T) PROVE \E m \in 1..Len(t) : t[m].tag = T[i].tag
    OBVIOUS
  <2>1. PICK j \in 1..Len(s) : s[j].tag = T[i].tag
    BY <1>2
  <2>2. PICK m \in 1..Len(t) : s[j] = t[m]
    BY <1>3, <1>5
  <2> QED BY <2>1, <2>2
<1> QED BY <1>1, <1>2, <1>3, <1>6, <1>7 DEF s

\* What is in order stays as it is.
LEMMA OrderStays ==
  ASSUME NEW K \in Seq(Tables), InTagOrder(K)
  PROVE  FirstOfEach(K, LAMBDA x : x.tag) = K /\ Kept(K) = K
<1> DEFINE n == Len(K)
           D == DOMAIN K
           Q == {i \in D : \A j \in 1..(i - 1) : K[j].tag # K[i].tag}
           before(i, j) == K[i].tag < K[j].tag \/ (K[i].tag = K[j].tag /\ i < j)
           nth(m) == CHOOSE j \in D : Cardinality({i \in D : before(i, j)}) = m - 1
<1>1. n \in Nat /\ D = 1..n
  BY LenProperties
<1>2. \A i \in 1..n : K[i].tag \in Int
  <2>1. \A i \in 1..n : K[i].tag \in 0..(LongBase - 1)
    BY TablesHold
  <2> QED BY <2>1, LongBaseHolds
<1>3. \A i, j \in 1..n : i < j => K[i].tag < K[j].tag
  BY DEF InTagOrder
<1>4. Q = D
  <2>1. \A i \in 1..n : \A j \in 1..(i - 1) : j \in 1..n /\ j < i
    BY <1>1
  <2>2. \A i \in 1..n : \A j \in 1..(i - 1) : K[j].tag # K[i].tag
    BY <1>2, <1>3, <2>1
  <2> QED BY <1>1, <2>2
<1>5. FirstOfEach(K, LAMBDA x : x.tag) = K
  <2>1. FirstOfEach(K, LAMBDA x : x.tag) = AtPlaces(K, Q)
    BY DEF FirstOfEach
  <2> HIDE DEF Q
  <2> QED BY <1>4, <2>1, AllPlaces
<1>6. \A i, j \in 1..n : before(i, j) <=> i < j
  <2> SUFFICES ASSUME NEW i \in 1..n, NEW j \in 1..n PROVE before(i, j) <=> i < j
    OBVIOUS
  <2>1. i < j => K[i].tag < K[j].tag
    BY <1>3
  <2>2. j < i => K[j].tag < K[i].tag
    BY <1>3
  <2>3. i \in Int /\ j \in Int /\ K[i].tag \in Int /\ K[j].tag \in Int /\ (i = j => K[i].tag = K[j].tag)
    BY <1>2
  <2> DEFINE x == K[i].tag
             y == K[j].tag
  <2>4. (i < j => x < y) /\ (j < i => y < x) /\ i \in Int /\ j \in Int /\ x \in Int /\ y \in Int
    BY <2>1, <2>2, <2>3
  <2> HIDE DEF x, y
  <2>5. x < y \/ (x = y /\ i < j) <=> i < j
    BY <2>3, <2>4 DEF x, y
  <2> QED BY <2>5 DEF x, y
<1> HIDE DEF before
<1>7. \A j \in 1..n : Cardinality({i \in D : before(i, j)}) = j - 1
  <2> SUFFICES ASSUME NEW j \in 1..n PROVE Cardinality({i \in D : before(i, j)}) = j - 1
    OBVIOUS
  <2>1. {i \in D : before(i, j)} = 1..(j - 1)
    BY <1>1, <1>6
  <2>2. j - 1 \in Nat
    BY <1>1
  <2> QED BY <2>1, <2>2, UpToIsFinite
<1>8. \A m \in 1..n : nth(m) = m
  <2> SUFFICES ASSUME NEW m \in 1..n PROVE nth(m) = m
    OBVIOUS
  <2>1. \A j \in D : Cardinality({i \in D : before(i, j)}) = m - 1 <=> j = m
    BY <1>1, <1>7
  <2> QED BY <1>1, <2>1
<1>9. SortedBy(K, LAMBDA x : x.tag) = K
  <2>1. SortedBy(K, LAMBDA x : x.tag) = [m \in D |-> K[nth(m)]]
    BY DEF SortedBy, before
  <2> HIDE DEF nth
  <2>2. [m \in D |-> K[nth(m)]] = [m \in D |-> K[m]]
    BY <1>1, <1>8
  <2>3. K = [m \in D |-> K[m]]
    BY LenProperties
  <2> QED BY <2>1, <2>2, <2>3
<1>10. Kept(K) = SortedBy(FirstOfEach(K, LAMBDA x : x.tag), LAMBDA x : x.tag)
  BY DEF Kept, ByKey
<1> QED BY <1>5, <1>9, <1>10

-----------------------------------------------------------------------------
(* What the parser hands over.                                             *)

IsClear(t) == t.tag = HeadTag /\ 12 <= Len(t.bytes) => \A i \in 1..4 : t.bytes[8 + i] = 0

\* The adjustment set to zero is zero, and nothing moves.
LEMMA ZerosArePatched ==
  ASSUME NEW c \in Seq(ByteValues)
  PROVE  LET p == Patched(c, 8, Long(0))
         IN  /\ p \in Seq(ByteValues) /\ Len(p) = Len(c)
             /\ 12 <= Len(p) => \A i \in 1..4 : p[8 + i] = 0
<1> DEFINE z == Long(0)
           p == Patched(c, 8, z)
<1>1. z \in Seq(ByteValues) /\ Len(z) = 4 /\ \A i \in 1..4 : z[i] = 0
  BY ZeroIsLong
<1> HIDE DEF z
<1>2. /\ p \in Seq(ByteValues) /\ Len(p) = Len(c)
      /\ \A i \in 1..Len(c) : p[i] = IF i - 8 \in 1..4 THEN z[i - 8] ELSE c[i]
  BY <1>1, PatchedHolds
<1> HIDE DEF p
<1>3. ASSUME 12 <= Len(p), NEW i \in 1..4 PROVE p[8 + i] = 0
  <2>1. 8 + i \in 1..Len(c) /\ (8 + i) - 8 = i
    BY <1>2, <1>3, LenProperties
  <2> QED BY <1>1, <1>2, <2>1
<1> QED BY <1>2, <1>3 DEF p, z

\* Without the adjustment a head stays a table, and one without it is left alone.
LEMMA AdjustmentIsClear ==
  ASSUME NEW t \in Tables
  PROVE  /\ WithoutAdjustment(t) \in Tables /\ IsClear(WithoutAdjustment(t))
         /\ IsClear(t) /\ (t.tag = HeadTag => 12 <= Len(t.bytes)) => WithoutAdjustment(t) = t
<1> DEFINE b == t.bytes
           z == Long(0)
           p == Patched(b, 8, z)
<1>1. b \in Seq(ByteValues) /\ t.tag \in 0..(LongBase - 1) /\ t = [tag |-> t.tag, bytes |-> b]
  BY DEF Tables
<1>3. WithoutAdjustment(t) = IF t.tag = HeadTag THEN [tag |-> t.tag, bytes |-> p] ELSE t
  BY <1>1 DEF WithoutAdjustment
<1>4. p \in Seq(ByteValues) /\ Len(p) = Len(b) /\ (12 <= Len(p) => \A i \in 1..4 : p[8 + i] = 0)
  <2> HIDE DEF b
  <2> QED BY <1>1, ZerosArePatched
<1> HIDE DEF p
<1>7. WithoutAdjustment(t) \in Tables /\ IsClear(WithoutAdjustment(t))
  <2>1. CASE t.tag = HeadTag
    <3>1. WithoutAdjustment(t) = [tag |-> t.tag, bytes |-> p]
      BY <1>3, <2>1
    <3> QED BY <1>1, <1>4, <3>1 DEF Tables, IsClear
  <2>2. CASE t.tag # HeadTag
    BY <1>3, <2>2 DEF IsClear
  <2> QED BY <2>1, <2>2
<1>8. ASSUME IsClear(t), t.tag = HeadTag => 12 <= Len(t.bytes) PROVE WithoutAdjustment(t) = t
  <2>1. CASE t.tag # HeadTag
    BY <1>3, <2>1
  <2>2. CASE t.tag = HeadTag
    <3>1. 12 <= Len(b) /\ \A i \in 1..4 : b[8 + i] = 0
      BY <1>8, <2>2 DEF IsClear
    <3>2. p = b
      <4> HIDE DEF b
      <4> QED BY <1>1, <3>1, AdjustmentUndone DEF p, z
    <3> QED BY <1>1, <1>3, <2>2, <3>2
  <2> QED BY <2>1, <2>2
<1> QED BY <1>7, <1>8

\* What the parser gives to the builder.
LEMMA ParsedHolds ==
  ASSUME NEW js \in Seq(RawTables)
  PROVE  LET T == ParseTables(js)
         IN  T \in Seq(Tables) /\ \A i \in 1..Len(T) : IsClear(T[i])
<1> DEFINE Q == {i \in DOMAIN js : js[i].bytes # Junk}
           s == AtPlaces(js, Q)
           T == ParseTables(js)
<1>1. T = Mapped(s, WithoutAdjustment)
  BY DEF ParseTables, Those
<1>2. Q \in SUBSET DOMAIN js
  OBVIOUS
<1>3. s \in Seq(RawTables) /\ \E f : Picks(f, Q) /\ Len(s) = Len(f) /\ \A m \in DOMAIN f : s[m] = js[f[m]]
  <2> HIDE DEF Q
  <2> QED BY <1>2, AtPlacesPicks
<1>4. DOMAIN s = 1..Len(s) /\ Len(s) \in Nat /\ \A m \in 1..Len(s) : s[m] \in RawTables
  BY <1>3, LenProperties, ElementOfSeq
<1>5. \A m \in 1..Len(s) : \E i \in Q : s[m] = js[i]
  <2> HIDE DEF Q, s
  <2>1. PICK f : Picks(f, Q) /\ Len(s) = Len(f) /\ \A m \in DOMAIN f : s[m] = js[f[m]]
    BY <1>3
  <2>2. DOMAIN f = 1..Len(s) /\ \A m \in DOMAIN f : f[m] \in Q
    BY <2>1 DEF Picks
  <2> QED BY <2>1, <2>2
<1>6. \A m \in 1..Len(s) : s[m].bytes # Junk
  BY <1>5
<1> HIDE DEF Q, s, T
<1>7. \A m \in 1..Len(s) : s[m] \in Tables
  <2> SUFFICES ASSUME NEW m \in 1..Len(s) PROVE s[m] \in Tables
    OBVIOUS
  <2>1. s[m] \in [tag : 0..(LongBase \div 2 - 1), bytes : {Junk} \union Seq(ByteValues)] /\ s[m].bytes # Junk
    BY <1>4, <1>6 DEF RawTables
  <2>2. 0..(LongBase \div 2 - 1) \subseteq 0..(LongBase - 1)
    <3>1. LongBase \in Nat
      BY LongBaseHolds
    <3> HIDE DEF LongBase
    <3> QED BY <3>1
  <2> QED BY <2>1, <2>2 DEF Tables
<1>8. T = [m \in 1..Len(s) |-> WithoutAdjustment(s[m])]
  BY <1>1, <1>4 DEF Mapped
<1>9. \A m \in 1..Len(s) : WithoutAdjustment(s[m]) \in Tables /\ IsClear(WithoutAdjustment(s[m]))
  BY <1>7, AdjustmentIsClear
<1>10. T \in Seq(Tables) /\ Len(T) = Len(s)
  <2>1. T \in [1..Len(s) -> Tables]
    BY <1>8, <1>9
  <2> QED BY <1>4, <2>1
<1> QED BY <1>8, <1>9, <1>10 DEF T

\* The builder lays out what it has kept.
LEMMA BuiltFromKept ==
  ASSUME NEW T \in Seq(Tables)
  PROVE  BuildFile(T) = FileOf(Kept(T))
<1> DEFINE K == ByKey(T, LAMBDA t : t.tag)
           record(j) == Long(K[j].tag) \o Long(Total(K[j].bytes)) \o Long(TableOffset(K, j)) \o Long(Len(K[j].bytes))
           file == Long(1) \o Short(Len(K)) \o SearchFields(Len(K))
                     \o FlattenSeq([j \in DOMAIN K |-> record(j)]) \o Flattened(K, LAMBDA t : Aligned(t.bytes))
<1>1. K = Kept(T)
  BY DEF Kept
<1>2. BuildFile(T) = Patched(file, HeadOffset(K) + 8, Long(Magic - Total(file)))
  BY DEF BuildFile
<1>3. Flattened(K, LAMBDA t : Aligned(t.bytes)) = FlattenSeq(Padded(K))
  BY DEF Flattened, Mapped, Padded
<1>4. [j \in DOMAIN K |-> record(j)] = Records(K)
  BY DEF Records, RecordOf
<1> HIDE DEF K
<1>5. file = Unpatched(K)
  BY <1>3, <1>4 DEF Unpatched
<1> QED BY <1>1, <1>2, <1>5 DEF FileOf

-----------------------------------------------------------------------------
(* What fits a file is laid out.                                           *)

\* A patch keeps the length.
LEMMA PatchedLength ==
  ASSUME NEW X, NEW w \in Seq(X), NEW at, NEW new
  PROVE  Len(Patched(w, at, new)) = Len(w)
<1>1. DOMAIN Patched(w, at, new) = 1..Len(w) /\ Len(w) \in Nat
  BY LenProperties DEF Patched
<1> QED BY <1>1

\* What fits a file can be laid out.
LEMMA FitsAreLaid ==
  ASSUME NEW js, FitsFile(js)
  PROVE  LET T == ParseTables(js)
         IN  T \in Seq(Tables) /\ BuildFile(T) = FileOf(Kept(T)) /\ \E at, h : WellLaid(Kept(T), at, h)
<1> DEFINE T == ParseTables(js)
           K == Kept(T)
           B == ByteBase * ByteBase
<1>1. js \in Seq(RawTables)
  BY DEF FitsFile, RawTables
<1>2. T \in Seq(Tables) /\ \A i \in 1..Len(T) : IsClear(T[i])
  BY <1>1, ParsedHolds
<1>3. Len(T) < B /\ Len(BuildFile(T)) < LongBase
  BY DEF FitsFile
<1>4. PICK u \in ToSet(FirstOfEach(T, LAMBDA e : e.tag)) : u.tag = HeadTag /\ 12 <= Len(u.bytes)
  <2>1. \E t \in ToSet(FirstOfEach(T, LAMBDA e : e.tag)) : t.tag = HeadTag /\ Len(t.bytes) >= 12
    BY DEF FitsFile
  <2>2. PICK t \in ToSet(FirstOfEach(T, LAMBDA e : e.tag)) : t.tag = HeadTag /\ Len(t.bytes) >= 12
    BY <2>1
  <2>3. t \in Tables
    <3> DEFINE s == FirstOfEach(T, LAMBDA e : e.tag)
    <3>1. s \in Seq(Tables)
      BY <1>2, FirstTablesHold
    <3>2. t \in ToSet(s)
      OBVIOUS
    <3> HIDE DEF s
    <3> QED BY <3>1, <3>2 DEF ToSet
  <2>4. Len(t.bytes) \in Nat
    BY <2>3 DEF Tables
  <2>5. 12 <= Len(t.bytes)
    BY <2>2, <2>4
  <2> QED BY <2>2, <2>5
<1> HIDE DEF T
<1>5. /\ K \in Seq(Tables) /\ Len(K) <= Len(T) /\ InTagOrder(K)
      /\ ToSet(K) = ToSet(FirstOfEach(T, LAMBDA e : e.tag))
      /\ \A m \in 1..Len(K) : \E i \in 1..Len(T) : K[m] = T[i]
  BY <1>2, KeptHolds
<1>6. BuildFile(T) = FileOf(K)
  BY <1>2, BuiltFromKept
<1> HIDE DEF K
<1>7. PICK at : Offsets(at, Padded(K))
  <2>1. Padded(K) \in Seq(Seq(ByteValues))
    BY <1>5, PaddedHolds
  <2> QED BY <2>1, OffsetsExist
<1>8. DOMAIN K = 1..Len(K) /\ Len(K) \in Nat /\ Len(T) \in Nat
  BY <1>2, <1>5, LenProperties
<1>9. PICK h \in 1..Len(K) : K[h] = u
  BY <1>4, <1>5, <1>8 DEF ToSet
<1>10. IsClear(K[h])
  BY <1>2, <1>5
<1>11. 12 + 16 * Len(K) + at[Len(K)] < LongBase
  <2>1. Unpatched(K) \in Seq(ByteValues) /\ Len(Unpatched(K)) = 12 + 16 * Len(K) + at[Len(K)]
    BY <1>5, <1>7, UnpatchedHolds
  <2>2. Len(FileOf(K)) = Len(Unpatched(K))
    BY <2>1, PatchedLength DEF FileOf
  <2> QED BY <1>3, <1>6, <2>1, <2>2
<1>12. Len(K) < B
  <2>1. B \in Nat
    BY BaseHolds
  <2> HIDE DEF B
  <2> QED BY <1>3, <1>5, <1>8, <2>1
<1>13. WellLaid(K, at, h)
  BY <1>4, <1>5, <1>7, <1>9, <1>10, <1>11, <1>12 DEF WellLaid, InTagOrder, IsClear
<1> QED BY <1>2, <1>6, <1>13 DEF T, K

\* What is laid out says what it says, and a font is read as it was laid out.
LEMMA ReadTablesSay ==
  ASSUME NEW K, NEW at, NEW h, WellLaid(K, at, h)
  PROVE  LET R == ReadFileTables(FileOf(K))
         IN  R \in Seq(Tables) /\ TablesOf(R) = {<<t.tag, t.bytes>> : t \in ToSet(K)}
<1> DEFINE R == ReadFileTables(FileOf(K))
           n == Len(K)
           b(j) == BytesOf(FileOf(K), K, at, j)
<1>1. n \in Nat /\ K \in Seq(Tables) /\ DOMAIN K = 1..n /\ \A j \in 1..n : K[j].tag \in 0..(LongBase - 1)
  BY TablesHold DEF WellLaid
<1>2. R = [j \in 1..n |-> [tag |-> K[j].tag, bytes |-> b(j)]]
  BY FileIsRead
<1>3. \A j \in 1..n : b(j) \in Seq(ByteValues)
  BY TableIsRead
<1>4. \A j \in 1..n : WithoutAdjustment([tag |-> K[j].tag, bytes |-> b(j)]) = K[j]
  BY AdjustmentRemoved
<1>5. \A i, j \in 1..n : i < j => K[i].tag < K[j].tag
  BY DEF WellLaid
<1> HIDE DEF R, b, n
<1>6. R \in Seq(Tables) /\ Len(R) = n
  <2>1. R \in [1..n -> Tables]
    BY <1>1, <1>2, <1>3 DEF Tables
  <2> QED BY <1>1, <2>1
<1>7. InTagOrder(R)
  <2>1. \A j \in 1..n : R[j].tag = K[j].tag
    BY <1>2
  <2> QED BY <1>5, <1>6, <2>1 DEF InTagOrder
<1>8. FirstOfEach(R, LAMBDA x : x.tag) = R
  BY <1>6, <1>7, OrderStays
<1>9. TablesOf(R) = {<<t.tag, WithoutAdjustment(t).bytes>> : t \in ToSet(R)}
  BY <1>8 DEF TablesOf
<1>10. ToSet(R) = {[tag |-> K[j].tag, bytes |-> b(j)] : j \in 1..n}
  BY <1>2 DEF ToSet
<1>11. ToSet(K) = {K[j] : j \in 1..n}
  BY <1>1 DEF ToSet
<1>12. ASSUME NEW p PROVE p \in TablesOf(R) <=> \E j \in 1..n : p = <<K[j].tag, K[j].bytes>>
  <2>1. p \in TablesOf(R) <=> \E t \in ToSet(R) : p = <<t.tag, WithoutAdjustment(t).bytes>>
    BY <1>9
  <2>2. p \in TablesOf(R) <=> \E j \in 1..n : p = <<R[j].tag, WithoutAdjustment(R[j]).bytes>>
    <3>1. ToSet(R) = {R[j] : j \in 1..n}
      BY <1>2 DEF ToSet
    <3> QED BY <2>1, <3>1
  <2>3. \A j \in 1..n : R[j].tag = K[j].tag /\ WithoutAdjustment(R[j]) = K[j]
    BY <1>2, <1>4
  <2> QED BY <2>2, <2>3
<1>13. TablesOf(R) = {<<t.tag, t.bytes>> : t \in ToSet(K)}
  <2>1. \A p : p \in {<<t.tag, t.bytes>> : t \in ToSet(K)} <=> \E j \in 1..n : p = <<K[j].tag, K[j].bytes>>
    BY <1>11
  <2> QED BY <1>12, <2>1
<1> QED BY <1>6, <1>13 DEF R

\* What is kept says what all of it said.
LEMMA KeptTablesSay ==
  ASSUME NEW T \in Seq(Tables), NEW at, NEW h, WellLaid(Kept(T), at, h), \A i \in 1..Len(T) : IsClear(T[i])
  PROVE  TablesOf(T) = {<<t.tag, t.bytes>> : t \in ToSet(Kept(T))}
<1> DEFINE K == Kept(T)
<1>1. /\ K \in Seq(Tables) /\ ToSet(FirstOfEach(T, LAMBDA x : x.tag)) = ToSet(K)
      /\ \A m \in 1..Len(K) : \E i \in 1..Len(T) : K[m] = T[i]
  BY KeptHolds
<1>2. h \in 1..Len(K) /\ K[h].tag = HeadTag /\ 12 <= Len(K[h].bytes)
  BY DEF WellLaid
<1>3. InTagOrder(K)
  BY DEF WellLaid, InTagOrder
<1> HIDE DEF K
<1>4. DOMAIN K = 1..Len(K) /\ Len(K) \in Nat /\ \A j \in 1..Len(K) : K[j] \in Tables /\ K[j].tag \in 0..(LongBase - 1)
  BY <1>1, TablesHold
<1>5. \A j \in 1..Len(K) : K[j].tag = HeadTag => j = h
  <2> SUFFICES ASSUME NEW j \in 1..Len(K), K[j].tag = HeadTag PROVE j = h
    OBVIOUS
  <2>1. \A i \in 1..Len(K) : K[i].tag \in Int
    BY <1>4, LongBaseHolds
  <2>2. ~(j < h) /\ ~(h < j)
    BY <1>2, <1>3, <2>1 DEF InTagOrder
  <2> QED BY <1>2, <1>4, <2>2
<1>6. \A t \in ToSet(K) : WithoutAdjustment(t) = t
  <2> SUFFICES ASSUME NEW j \in 1..Len(K) PROVE WithoutAdjustment(K[j]) = K[j]
    BY <1>4 DEF ToSet
  <2>1. IsClear(K[j]) /\ K[j] \in Tables
    BY <1>1, <1>4
  <2>2. K[j].tag = HeadTag => 12 <= Len(K[j].bytes)
    BY <1>2, <1>5
  <2> QED BY <2>1, <2>2, AdjustmentIsClear
<1>7. TablesOf(T) = {<<t.tag, WithoutAdjustment(t).bytes>> : t \in ToSet(K)}
  BY <1>1 DEF TablesOf
<1> QED BY <1>6, <1>7 DEF K

-----------------------------------------------------------------------------
(* From JSON to the file and back.                                         *)

TablesRead(js) == ReadFileTables(BuildFile(ParseTables(js)))

\* What a font goes through: it is read and written like the first time.
LEMMA FilesRepeat ==
  ASSUME NEW js, FitsFile(js)
  PROVE  LET T == ParseTables(js)
             K == Kept(T)
             F == BuildFile(T)
             R == TablesRead(js)
         IN  /\ IsSoundFile(F) /\ BuildFile(K) = F /\ ReadFileTables(F) = R /\ ParseTables(R) = K
             /\ TablesOf(K) = TablesOf(T) /\ TablesOf(R) = TablesOf(T)
             /\ Null \notin {T, K, F, R}
<1> DEFINE T == ParseTables(js)
           K == Kept(T)
           F == BuildFile(T)
           R == TablesRead(js)
<1>1. T \in Seq(Tables) /\ F = FileOf(K) /\ \E at, h : WellLaid(K, at, h)
  BY FitsAreLaid
<1>2. PICK at, h : WellLaid(K, at, h)
  BY <1>1
<1>3. \A i \in 1..Len(T) : IsClear(T[i])
  BY ParsedHolds DEF FitsFile, RawTables
<1>4. R = ReadFileTables(F)
  BY DEF TablesRead
<1> HIDE DEF T, R
<1>5. TablesOf(T) = {<<t.tag, t.bytes>> : t \in ToSet(K)}
  BY <1>1, <1>2, <1>3, KeptTablesSay
<1>6. Kept(K) = K /\ K \in Seq(Tables)
  BY <1>2, OrderStays DEF WellLaid, InTagOrder
<1>7. \A i \in 1..Len(K) : IsClear(K[i])
  <2>1. \A m \in 1..Len(K) : \E i \in 1..Len(T) : K[m] = T[i]
    BY <1>1, KeptHolds
  <2> HIDE DEF K
  <2> QED BY <1>3, <2>1
<1> HIDE DEF K, F
<1>8. TablesOf(K) = {<<t.tag, t.bytes>> : t \in ToSet(K)}
  <2>1. WellLaid(Kept(K), at, h)
    BY <1>2, <1>6
  <2> QED BY <1>6, <1>7, <2>1, KeptTablesSay
<1>9. IsSoundFile(F) /\ ParseTables(R) = K /\ R \in Seq(Tables) /\ TablesOf(R) = {<<t.tag, t.bytes>> : t \in ToSet(K)}
  BY <1>1, <1>2, <1>4, FileIsSound, ReadIsParsed, ReadTablesSay
<1>10. BuildFile(K) = F
  BY <1>1, <1>6, BuiltFromKept
<1>11. F \in Seq(ByteValues)
  BY <1>1, <1>2, FileHolds
<1>12. Null \notin {T, K, F, R}
  BY <1>1, <1>6, <1>9, <1>11, NullIsNoFile
<1> QED BY <1>4, <1>5, <1>8, <1>9, <1>10, <1>12 DEF T, K, F, R

(* A file written from tables that fit one is sound, its directory and     *)
(* tables say what the tables say that were handed over, and reading and   *)
(* writing it again gives the same bytes.                                  *)
THEOREM FileReadBack ==
  ASSUME NEW js, FitsFile(js)
  PROVE  LET tables == ParseTables(js)
             file == BuildFile(tables)
             read == ReadFileTables(file)
         IN  /\ IsSoundFile(file)
             /\ TablesOf(read) = TablesOf(tables)
             /\ BuildFile(ParseTables(read)) = file
BY FilesRepeat

-----------------------------------------------------------------------------
\* The table's own code, when the table is the file, as FontTables gives it.
IsOfFiles ==
  /\ \A js : Parse("sfnt", js) = ParseTables(js)
  /\ \A t : Consolidate("sfnt", t) = t
  /\ \A t : Build("sfnt", t) = BuildFile(t)
  /\ \A f : Read("sfnt", f) = ReadFileTables(f)
  /\ \A t : Dump("sfnt", t) = t
  /\ \A t : Meaning("sfnt", t) = TablesOf(t)
  /\ \A js : Intended("sfnt", js) = TablesOf(ParseTables(js))

\* However often it went round, there are two lists of tables, one file and one list
\* read from it.
FilesInv ==
  kind = "sfnt" =>
    /\ FitsFile(source) /\ form \in {"json", "parsed", "building", "file", "read", "dumping"}
    /\ form = "json" => content \in {source, TablesRead(source)}
    /\ form \in {"parsed", "building"} => content \in {ParseTables(source), Kept(ParseTables(source))}
    /\ form = "file" => content = BuildFile(ParseTables(source))
    /\ form \in {"read", "dumping"} => content = TablesRead(source)
    /\ dumps \in {<<>>, <<TablesRead(source)>>}

\* At first a font has not been through a file.
LEMMA FilesAtInit ==
  ASSUME Init
  PROVE  FilesInv
<1> SUFFICES ASSUME kind = "sfnt"
             PROVE  /\ FitsFile(source) /\ form = "json" /\ content = source /\ dumps = <<>>
  BY DEF FilesInv
<1> QED BY FontsFitFiles DEF Init

\* Each operation goes on with what the stage before left.
LEMMA FilesGoOn ==
  ASSUME IsOfFiles, FilesInv, [Next]_vars
  PROVE  FilesInv'
<1> DEFINE T == ParseTables(source)
           K == Kept(T)
           F == BuildFile(T)
           R == TablesRead(source)
<1>0. kind' = kind /\ source' = source
  BY DEF Next, ParseJson, ConsolidateForFile, WriteFile, ReadFile, ConsolidateForJson, DumpJson, GoesOn, vars
<1> SUFFICES ASSUME kind = "sfnt" PROVE FilesInv'
  BY <1>0 DEF FilesInv
<1>1. /\ FitsFile(source) /\ form \in {"json", "parsed", "building", "file", "read", "dumping"}
      /\ form = "json" => content \in {source, R}
      /\ form \in {"parsed", "building"} => content \in {T, K}
      /\ form = "file" => content = F
      /\ form \in {"read", "dumping"} => content = R
      /\ dumps \in {<<>>, <<R>>}
  BY DEF FilesInv
<1>2. BuildFile(K) = F /\ ReadFileTables(F) = R /\ ParseTables(R) = K /\ Null \notin {T, K, F, R}
  BY <1>1, FilesRepeat
<1>3. BuildFile(T) = F /\ ParseTables(source) = T
  OBVIOUS
<1> DEFINE Goal == /\ form' \in {"json", "parsed", "building", "file", "read", "dumping"}
                   /\ form' = "json" => content' \in {source, R}
                   /\ form' \in {"parsed", "building"} => content' \in {T, K}
                   /\ form' = "file" => content' = F
                   /\ form' \in {"read", "dumping"} => content' = R
                   /\ dumps' \in {<<>>, <<R>>}
<1>4. SUFFICES Goal
  <2> HIDE DEF Goal
  <2>1. Goal => FilesInv'
    BY <1>0, <1>1 DEF FilesInv, Goal
  <2> QED BY <2>1
<1> HIDE DEF T, K, F, R
<1>5. CASE ParseJson
  <2>1. form = "json" /\ content' = ParseTables(content) /\ dumps' = dumps
    BY <1>5 DEF ParseJson, GoesOn, IsOfFiles
  <2>2. content' \in {T, K} /\ content' # Null
    BY <1>1, <1>2, <1>3, <2>1
  <2>3. form' = "parsed"
    BY <1>5, <2>2 DEF ParseJson, GoesOn, IsOfFiles
  <2> QED BY <1>1, <2>1, <2>2, <2>3
<1>6. CASE ConsolidateForFile
  <2>1. form = "parsed" /\ content' = content /\ dumps' = dumps
    BY <1>6 DEF ConsolidateForFile, GoesOn, IsOfFiles
  <2>2. content' \in {T, K} /\ content' # Null
    BY <1>1, <1>2, <2>1
  <2>3. form' = "building"
    BY <1>6, <2>2 DEF ConsolidateForFile, GoesOn, IsOfFiles
  <2> QED BY <1>1, <2>1, <2>2, <2>3
<1>7. CASE WriteFile
  <2>1. form = "building" /\ content' = BuildFile(content) /\ dumps' = dumps
    BY <1>7 DEF WriteFile, GoesOn, IsOfFiles
  <2>2. content' = F /\ content' # Null
    BY <1>1, <1>2, <1>3, <2>1
  <2>3. form' = "file"
    BY <1>7, <2>2 DEF WriteFile, GoesOn, IsOfFiles
  <2> QED BY <1>1, <2>1, <2>2, <2>3
<1>8. CASE ReadFile
  <2>1. form = "file" /\ content' = ReadFileTables(content) /\ dumps' = dumps
    BY <1>8 DEF ReadFile, GoesOn, IsOfFiles
  <2>2. content' = R /\ content' # Null
    BY <1>1, <1>2, <2>1
  <2>3. form' = "read"
    BY <1>8, <2>2 DEF ReadFile, GoesOn, IsOfFiles
  <2> QED BY <1>1, <2>1, <2>2, <2>3
<1>9. CASE ConsolidateForJson
  <2>1. form = "read" /\ content' = content /\ dumps' = dumps
    BY <1>9 DEF ConsolidateForJson, GoesOn, IsOfFiles
  <2>2. content' = R /\ content' # Null
    BY <1>1, <1>2, <2>1
  <2>3. form' = "dumping"
    BY <1>9, <2>2 DEF ConsolidateForJson, GoesOn, IsOfFiles
  <2> QED BY <1>1, <2>1, <2>2, <2>3
<1>10. CASE DumpJson
  <2>1. form = "dumping" /\ content' = content
    BY <1>10 DEF DumpJson, GoesOn, IsOfFiles
  <2>2. content' = R /\ content' # Null
    BY <1>1, <1>2, <2>1
  <2>3. form' = "json"
    BY <1>10, <2>2 DEF DumpJson, GoesOn, IsOfFiles
  <2>4. dumps' = IF dumps # <<>> /\ content' = Last(dumps) THEN dumps ELSE Append(dumps, content')
    BY <1>10 DEF DumpJson
  <2>5. Last(<<R>>) = R /\ Append(<<>>, R) = <<R>>
    BY DEF Last
  <2>6. dumps' = <<R>>
    BY <1>1, <2>2, <2>4, <2>5
  <2> QED BY <1>1, <2>2, <2>3, <2>6
<1>11. CASE UNCHANGED vars
  BY <1>1, <1>11 DEF vars
<1> QED BY <1>5, <1>6, <1>7, <1>8, <1>9, <1>10, <1>11 DEF Next

(* Every file that is written is sound: its tables are in order, apart and *)
(* aligned, and its sums are right.                                        *)
THEOREM FilesAreSoundHolds ==
  ASSUME IsOfFiles
  PROVE  Spec => []FilesAreSound
<1>1. FilesInv => FilesAreSound
  BY FilesRepeat DEF FilesInv, FilesAreSound
<1> QED BY <1>1, FilesAtInit, FilesGoOn, PTL DEF Spec

(* Going through files keeps every table, and the first dump settles all   *)
(* the choices there are.                                                  *)
THEOREM FilesKeepTables ==
  ASSUME IsOfFiles
  PROVE  Spec => [](kind = "sfnt" => MeaningKept /\ Len(dumps) <= 1)
<1>1. FilesInv => (kind = "sfnt" => MeaningKept /\ Len(dumps) <= 1)
  <2> SUFFICES ASSUME FilesInv, kind = "sfnt" PROVE MeaningKept /\ Len(dumps) <= 1
    OBVIOUS
  <2> DEFINE T == ParseTables(source)
             K == Kept(T)
             R == TablesRead(source)
  <2>1. /\ FitsFile(source) /\ form # "gone"
        /\ form = "building" => content \in {T, K}
        /\ form = "dumping" => content = R
        /\ dumps \in {<<>>, <<R>>}
    BY DEF FilesInv
  <2>2. TablesOf(K) = TablesOf(T) /\ TablesOf(R) = TablesOf(T)
    BY <2>1, FilesRepeat
  <2>3. Intended(kind, source) = TablesOf(T) /\ Meaning(kind, content) = TablesOf(content)
    BY DEF IsOfFiles
  <2> HIDE DEF T, K, R
  <2>4. MeaningKept
    BY <2>1, <2>2, <2>3 DEF MeaningKept
  <2>5. Len(dumps) <= 1
    <3>1. Len(<<>>) = 0 /\ Len(<<R>>) = 1
      OBVIOUS
    <3>2. CASE dumps = <<>>
      BY <3>1, <3>2
    <3>3. CASE dumps = <<R>>
      BY <3>1, <3>3
    <3> QED BY <2>1, <3>2, <3>3
  <2> QED BY <2>4, <2>5
<1> QED BY <1>1, FilesAtInit, FilesGoOn, PTL DEF Spec
=============================================================================
