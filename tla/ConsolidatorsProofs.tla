------------------------- MODULE ConsolidatorsProofs -------------------------
(***************************************************************************)
(* Proofs about Consolidators and Reexport, for any shapes and parameters  *)
(* and any number of documents.                                            *)
(***************************************************************************)
EXTENDS Reexport, SequenceTheorems, FiniteSetTheorems, WellFoundedInduction, TLAPS

-----------------------------------------------------------------------------
(***************************************************************************)
(* Arithmetic                                                              *)
(***************************************************************************)
\* Every set of naturals has a least element: what follows by induction is
\* proved by looking at the first index at which it would fail.
LEMMA LeastIndex ==
  ASSUME NEW S \in SUBSET Nat, S # {}
  PROVE  \E x \in S : \A y \in S : x <= y
<1> DEFINE Less == {ss \in Nat \X Nat : ss[1] < ss[2]}
<1>1. Less = OpToRel(<, Nat)
  BY Zenon DEF OpToRel
<1>2. IsWellFoundedOn(OpToRel(<, Nat), Nat)
  BY NatLessThanWellFounded
<1>3. IsWellFoundedOn(Less, Nat)
  BY ONLY <1>1, <1>2, Zenon
<1>4. \A x, y \in Nat : <<y, x>> \notin Less => x <= y
  OBVIOUS
<1> HIDE DEF Less
<1>5. \E x \in S : \A y \in S : <<y, x>> \notin Less
  BY <1>3, WFMin
<1> QED  BY <1>4, <1>5

\* Division with remainder.
LEMMA Division ==
  ASSUME NEW a \in Nat, NEW b \in Nat \ {0}
  PROVE  /\ a \div b \in Nat /\ a % b \in 0..(b - 1)
         /\ a = b * (a \div b) + (a % b)
  OBVIOUS

\* What is divided without a remainder can be multiplied again.
LEMMA Divided ==
  ASSUME NEW a \in Nat \ {0}, NEW b \in Nat \ {0}, a % b = 0
  PROVE  /\ a \div b \in Nat \ {0} /\ b * (a \div b) = a
         /\ a % (a \div b) = 0 /\ a \div (a \div b) = b
<1>1. PICK q : q = a \div b
  OBVIOUS
<1>2. q \in Nat /\ a = b * q
  BY <1>1, Division
<1>3. q # 0
  BY <1>2
<1>4. a \div q \in Nat /\ a % q \in 0..(q - 1) /\ a = q * (a \div q) + (a % q)
  BY <1>2, <1>3, Division
<1>5. PICK c, r : c = a \div q /\ r = a % q
  OBVIOUS
<1>6. c \in Nat /\ r \in 0..(q - 1) /\ b * q = q * c + r
  BY <1>2, <1>4, <1>5
<1>7. r = q * (b - c)
  BY <1>2, <1>6
<1>8. b = c
  <2>1. PICK e \in Int : e = b - c
    BY <1>6
  <2>2. r = q * e /\ r >= 0 /\ r < q /\ q > 0
    BY <1>2, <1>3, <1>6, <1>7, <2>1
  <2>3. e = 0
    BY <1>2, <2>1, <2>2
  <2> QED  BY <1>6, <2>1, <2>3
<1>9. r = 0
  BY <1>2, <1>6, <1>7, <1>8
<1> QED  BY <1>1, <1>2, <1>3, <1>5, <1>8, <1>9

\* The larger one of a number and 1.
LEMMA AtLeastOne ==
  ASSUME NEW n \in Nat
  PROVE  Max({1, n}) = IF n = 0 THEN 1 ELSE n
<1>1. PICK m : m = IF n = 0 THEN 1 ELSE n
  OBVIOUS
<1>2. m \in {1, n} /\ \A y \in {1, n} : m >= y
  BY <1>1
<1>3. \A x \in {1, n} : (\A y \in {1, n} : x >= y) => x = m
  BY <1>1
<1> QED  BY <1>1, <1>2, <1>3, Zenon DEF Max

-----------------------------------------------------------------------------
(***************************************************************************)
(* Sums and products                                                       *)
(***************************************************************************)
IsSum(sizes, n, f) == f = [i \in 0..n |-> IF i = 0 THEN 0 ELSE f[i - 1] + sizes[i]]
IsProduct(sizes, n, f) == f = [i \in 0..n |-> IF i = 0 THEN 1 ELSE f[i - 1] * sizes[i]]

\* f has the sums or products of the first i of n sizes.
Sums(sizes, n, f) ==
  /\ Len(sizes) = n /\ f = [i \in 0..n |-> f[i]]
  /\ f[0] = 0 /\ \A i \in 1..n : f[i] = f[i - 1] + sizes[i]
Products(sizes, n, f) ==
  /\ Len(sizes) = n /\ f = [i \in 0..n |-> f[i]]
  /\ f[0] = 1 /\ \A i \in 1..n : f[i] = f[i - 1] * sizes[i]

\* Partial sums that begin with 0 and grow by the sizes are those of Total.
LEMMA TotalOf ==
  ASSUME NEW sizes, NEW n \in Nat, NEW f, Sums(sizes, n, f)
  PROVE  Total(sizes) = f[n]
<1>0. Len(sizes) = n /\ f = [i \in 0..n |-> f[i]] /\ f[0] = 0 /\ \A i \in 1..n : f[i] = f[i - 1] + sizes[i]
  BY DEF Sums
<1>1. IsSum(sizes, n, f)
  <2>1. ASSUME NEW i \in 0..n
        PROVE  f[i] = IF i = 0 THEN 0 ELSE f[i - 1] + sizes[i]
    <3>1. i # 0 => i \in 1..n
      OBVIOUS
    <3> QED  BY <1>0, <3>1
  <2> QED  BY <1>0, <2>1, Zenon DEF IsSum
<1>2. ASSUME NEW g, IsSum(sizes, n, g)
      PROVE  g = f
  <2> DEFINE Bad == {i \in 0..n : g[i] # f[i]}
  <2>1. \A i \in 0..n : g[i] = IF i = 0 THEN 0 ELSE g[i - 1] + sizes[i]
    BY <1>2 DEF IsSum
  <2>2. ASSUME NEW i \in Bad, \A j \in Bad : i <= j
        PROVE  FALSE
    <3>1. i # 0
      BY <1>0, <2>1
    <3>2. i - 1 \in 0..n /\ i \in 1..n /\ i - 1 \notin Bad
      BY <2>2, <3>1
    <3>3. g[i - 1] = f[i - 1]
      BY <3>2
    <3> QED  BY <1>0, <2>1, <3>1, <3>2, <3>3
  <2>3. Bad = {}
    <3>1. Bad \in SUBSET Nat
      OBVIOUS
    <3> HIDE DEF Bad
    <3> QED  BY <2>2, <3>1, LeastIndex
  <2>4. g = [i \in 0..n |-> g[i]]
    BY <1>2 DEF IsSum
  <2>5. \A i \in 0..n : g[i] = f[i]
    BY <2>3
  <2> QED  BY <1>0, <2>4, <2>5
<1>3. (CHOOSE g : IsSum(sizes, n, g)) = f
  BY <1>1, <1>2
<1>4. Total(sizes) = (CHOOSE g : IsSum(sizes, n, g))[n]
  BY <1>0 DEF Total, IsSum
<1> QED  BY <1>3, <1>4

\* And so are partial products those of Elements.
LEMMA ElementsOf ==
  ASSUME NEW sizes, NEW n \in Nat, NEW f, Products(sizes, n, f)
  PROVE  Elements(sizes) = f[n]
<1>0. Len(sizes) = n /\ f = [i \in 0..n |-> f[i]] /\ f[0] = 1 /\ \A i \in 1..n : f[i] = f[i - 1] * sizes[i]
  BY DEF Products
<1>1. IsProduct(sizes, n, f)
  <2>1. ASSUME NEW i \in 0..n
        PROVE  f[i] = IF i = 0 THEN 1 ELSE f[i - 1] * sizes[i]
    <3>1. i # 0 => i \in 1..n
      OBVIOUS
    <3> QED  BY <1>0, <3>1
  <2> QED  BY <1>0, <2>1, Zenon DEF IsProduct
<1>2. ASSUME NEW g, IsProduct(sizes, n, g)
      PROVE  g = f
  <2> DEFINE Bad == {i \in 0..n : g[i] # f[i]}
  <2>1. \A i \in 0..n : g[i] = IF i = 0 THEN 1 ELSE g[i - 1] * sizes[i]
    BY <1>2 DEF IsProduct
  <2>2. ASSUME NEW i \in Bad, \A j \in Bad : i <= j
        PROVE  FALSE
    <3>1. i # 0
      BY <1>0, <2>1
    <3>2. i - 1 \in 0..n /\ i \in 1..n /\ i - 1 \notin Bad
      BY <2>2, <3>1
    <3>3. g[i - 1] = f[i - 1]
      BY <3>2
    <3> QED  BY <1>0, <2>1, <3>1, <3>2, <3>3
  <2>3. Bad = {}
    <3>1. Bad \in SUBSET Nat
      OBVIOUS
    <3> HIDE DEF Bad
    <3> QED  BY <2>2, <3>1, LeastIndex
  <2>4. g = [i \in 0..n |-> g[i]]
    BY <1>2 DEF IsProduct
  <2>5. \A i \in 0..n : g[i] = f[i]
    BY <2>3
  <2> QED  BY <1>0, <2>4, <2>5
<1>3. (CHOOSE g : IsProduct(sizes, n, g)) = f
  BY <1>1, <1>2
<1>4. Elements(sizes) = (CHOOSE g : IsProduct(sizes, n, g))[n]
  BY <1>0 DEF Elements, IsProduct
<1> QED  BY <1>3, <1>4
-----------------------------------------------------------------------------
(***************************************************************************)
(* list_summands()                                                         *)
(***************************************************************************)
\* There is one way to divide with a remainder.
LEMMA DivisionIs ==
  ASSUME NEW n \in Nat \ {0}, NEW k \in Nat, NEW m \in 0..(n - 1)
  PROVE  (n * k + m) \div n = k /\ (n * k + m) % n = m
<1>1. PICK a \in Nat : a = n * k + m
  OBVIOUS
<1>2. PICK q, r : q = a \div n /\ r = a % n
  OBVIOUS
<1>3. q \in Nat /\ r \in 0..(n - 1) /\ a = n * q + r
  BY <1>2, Division
<1>4. PICK e \in Int : e = q - k
  BY <1>3
<1>5. n * e = m - r
  BY <1>1, <1>3, <1>4
<1>6. e = 0
  <2>1. m - r < n /\ m - r > 0 - n
    BY <1>3
  <2>2. ~(e >= 1)
    BY <1>5, <2>1
  <2>3. ~(e <= -1)
    BY <1>5, <2>1
  <2> QED  BY <2>2, <2>3
<1> QED  BY <1>1, <1>2, <1>3, <1>4, <1>5, <1>6

\* Parts of b, and the remainder if there is one.
LEMMA SummandsFacts ==
  ASSUME NEW a \in Nat, NEW b \in Nat \ {0}
  PROVE  LET s == Summands(a, b)
             q == a \div b
         IN /\ Len(s) = IF a % b > 0 THEN q + 1 ELSE q
            /\ s = [i \in 1..Len(s) |-> s[i]]
            /\ \A i \in 1..Len(s) : s[i] = IF i <= q THEN b ELSE a % b
<1>1. PICK q, r : q = a \div b /\ r = a % b
  OBVIOUS
<1>2. q \in Nat /\ r \in Nat
  BY <1>1, Division
<1> DEFINE s == Summands(a, b)
           parts == [i \in 1..q |-> b]
<1>3. s = parts \o (IF r > 0 THEN <<r>> ELSE <<>>)
  BY <1>1 DEF Summands
<1>4. parts \in Seq(Nat) /\ Len(parts) = q /\ \A i \in 1..q : parts[i] = b
  BY <1>2
<1> HIDE DEF s, parts
<1>5. CASE r > 0
  <2>1. <<r>> \in Seq(Nat) /\ Len(<<r>>) = 1 /\ <<r>>[1] = r
    BY <1>2
  <2>2. s = parts \o <<r>>
    BY <1>3, <1>5
  <2>3. /\ s \in Seq(Nat) /\ Len(s) = q + 1
        /\ \A i \in 1..(q + 1) : s[i] = IF i <= q THEN parts[i] ELSE <<r>>[i - q]
    BY <1>2, <1>4, <2>1, <2>2, ConcatProperties
  <2>4. s = [i \in 1..Len(s) |-> s[i]]
    BY <2>3
  <2>5. ASSUME NEW i \in 1..Len(s)
        PROVE  s[i] = IF i <= q THEN b ELSE r
    <3>1. ~(i <= q) => i - q = 1
      BY <1>2, <2>3
    <3> QED  BY <1>2, <1>4, <2>1, <2>3, <3>1
  <2> QED  BY <1>1, <1>5, <2>3, <2>4, <2>5 DEF s
<1>6. CASE ~(r > 0)
  <2>1. s = parts
    BY <1>3, <1>4, <1>6, ConcatEmptySeq
  <2> QED  BY <1>1, <1>2, <1>4, <1>6, <2>1 DEF s
<1> QED  BY <1>5, <1>6

\* The parts, repeated, add up; only the last of each repetition is smaller.
LEMMA list_summandsFacts ==
  ASSUME NEW a \in Nat, NEW b \in Nat \ {0}, NEW repeat \in Nat
  PROVE  LET t == list_summands(a, b, repeat)
         IN /\ Len(t) \in Nat \ {0} /\ t = [i \in 1..Len(t) |-> t[i]]
            /\ Total(t) = a * repeat
            /\ \A i \in 1..Len(t) :
                 \/ t[i] = b
                 \/ /\ t[i] < b
                    /\ repeat = 1 => i = Len(t)
                    /\ \E k \in Nat : Total(SubSeq(t, 1, i)) = k * a
<1> DEFINE once == Summands(a, b)
           t == list_summands(a, b, repeat)
<1>1. PICK q, r, n : q = a \div b /\ r = a % b /\ n = Len(once)
  OBVIOUS
<1>2. q \in Nat /\ r \in 0..(b - 1) /\ a = b * q + r
  BY <1>1, Division
<1>3. /\ n = IF r > 0 THEN q + 1 ELSE q
      /\ \A i \in 1..n : once[i] = IF i <= q THEN b ELSE r
  BY <1>1, SummandsFacts
<1>4. n \in Nat
  BY <1>2, <1>3
<1> DEFINE all == [i \in 1..(n * repeat) |-> once[((i - 1) % n) + 1]]
<1>5. t = IF all = <<>> THEN <<0>> ELSE all
  BY <1>1 DEF list_summands
<1> HIDE DEF once, t
<1>6. CASE n * repeat = 0
  <2>1. all = <<>>
    BY <1>6
  <2>2. t = <<0>> /\ Len(t) = 1 /\ t[1] = 0 /\ t = [i \in 1..1 |-> t[i]]
    BY <1>5, <2>1
  <2> DEFINE f == [i \in 0..1 |-> 0]
  <2>3. Total(t) = 0
    <3>1. f[1] = 0 /\ f[0] = 0 /\ f = [i \in 0..1 |-> f[i]]
      OBVIOUS
    <3> HIDE DEF f
    <3>2. \A i \in 1..1 : i = 1
      OBVIOUS
    <3>3. \A i \in 1..1 : f[i] = f[i - 1] + t[i]
      BY <2>2, <3>1, <3>2
    <3>4. Sums(t, 1, f)
      BY <2>2, <3>1, <3>3 DEF Sums
    <3>5. Total(t) = f[1]
      BY <3>4, TotalOf, 1 \in Nat
    <3> QED  BY <3>1, <3>5
  <2>4. a * repeat = 0
    <3>1. n = 0 \/ repeat = 0
      BY <1>4, <1>6
    <3>2. n = 0 => a = 0
      BY <1>2, <1>3
    <3> QED  BY <3>1, <3>2
  <2>5. SubSeq(t, 1, 1) = t
    <3>1. t \in Seq(Nat) /\ Len(t) = 1
      BY <2>2
    <3> QED  BY <3>1, SubSeqFull
  <2>6. ASSUME NEW i \in 1..Len(t)
        PROVE  t[i] < b /\ i = Len(t) /\ Total(SubSeq(t, 1, i)) = 0 * a
    <3>1. i = 1
      BY <2>2
    <3> HIDE DEF f
    <3>2. t[i] < b /\ i = Len(t)
      BY <2>2, <3>1
    <3>3. Total(SubSeq(t, 1, i)) = 0
      BY <2>3, <2>5, <3>1
    <3> QED  BY <3>2, <3>3
  <2>7. 0 \in Nat
    OBVIOUS
  <2> HIDE DEF f
  <2> QED  BY <2>2, <2>3, <2>4, <2>6, <2>7 DEF t
<1>7. CASE n * repeat # 0
  <2>1. PICK N \in Nat \ {0} : N = n * repeat
    BY <1>4, <1>7
  <2>2. n # 0 /\ repeat # 0
    BY <1>4, <1>7
  <2>3. t = all /\ Len(t) = N /\ t = [i \in 1..N |-> t[i]]
    <3>1. Len(all) = N /\ all = [i \in 1..N |-> all[i]]
      BY <2>1
    <3> HIDE DEF all
    <3>2. all # <<>>
      BY <3>1
    <3> QED  BY <1>5, <3>1, <3>2
  <2>4. \A i \in 1..N : t[i] = once[((i - 1) % n) + 1]
    BY <2>1, <2>3
  <2> DEFINE P(j) == IF j <= q THEN j * b ELSE a
             f == [i \in 0..N |-> (i \div n) * a + P(i % n)]
  <2>5. ASSUME NEW i \in 1..N
        PROVE  \E k \in Nat, m \in 0..(n - 1) : i - 1 = n * k + m /\ (i - 1) % n = m
    <3>1. i - 1 \in Nat
      OBVIOUS
    <3> QED  BY <1>4, <2>2, <3>1, Division
  <2>6. ASSUME NEW i \in 1..N, NEW k \in Nat, NEW m \in 0..(n - 1), i - 1 = n * k + m, (i - 1) % n = m
        PROVE  /\ t[i] = IF m < q THEN b ELSE r
               /\ f[i - 1] = k * a + P(m)
               /\ m + 1 < n => f[i] = k * a + P(m + 1)
               /\ m + 1 = n => f[i] = (k + 1) * a
    <3>1. t[i] = IF m < q THEN b ELSE r
      <4>1. m + 1 \in 1..n /\ (m + 1 <= q <=> m < q)
        BY <1>2, <1>4, <2>2
      <4> QED  BY <1>3, <2>4, <2>6, <4>1
    <3>2. f[i - 1] = k * a + P(m)
      <4>1. (i - 1) \div n = k
        BY <1>4, <2>2, <2>6, DivisionIs
      <4>2. i - 1 \in 0..N
        OBVIOUS
      <4> QED  BY <2>6, <4>1, <4>2
    <3>3. ASSUME m + 1 < n
          PROVE  f[i] = k * a + P(m + 1)
      <4>1. m + 1 \in 0..(n - 1) /\ i = n * k + (m + 1)
        BY <1>4, <2>6, <3>3
      <4>2. i \div n = k /\ i % n = m + 1
        BY <1>4, <2>2, <4>1, DivisionIs
      <4>3. i \in 0..N
        OBVIOUS
      <4>4. f[i] = (i \div n) * a + P(i % n)
        BY <4>3
      <4> HIDE DEF P, f
      <4> QED  BY <4>2, <4>4
    <3>4. ASSUME m + 1 = n
          PROVE  f[i] = (k + 1) * a
      <4>1. 0 \in 0..(n - 1) /\ i = n * (k + 1) + 0 /\ k + 1 \in Nat
        BY <1>4, <2>2, <2>6, <3>4
      <4>2. i \div n = k + 1 /\ i % n = 0
        BY <1>4, <2>2, <4>1, DivisionIs
      <4>3. P(0) = 0
        BY <1>2
      <4>4. (k + 1) * a \in Nat
        BY <4>1
      <4> QED  BY <4>2, <4>3, <4>4
    <3> QED  BY <3>1, <3>2, <3>3, <3>4
  <2>7. ASSUME NEW m \in 0..(n - 1)
        PROVE  (IF m + 1 = n THEN a ELSE P(m + 1)) = P(m) + (IF m < q THEN b ELSE r)
    <3>1. CASE m < q
      <4>1. P(m) = m * b /\ P(m + 1) = m * b + b
        BY <1>2, <3>1
      <4>2. m + 1 = n => (r = 0 /\ n = q /\ a = b * q)
        BY <1>2, <1>3, <3>1
      <4>3. m + 1 = n => a = m * b + b
        BY <1>2, <4>2, <3>1
      <4> QED  BY <3>1, <4>1, <4>3
    <3>2. CASE ~(m < q)
      <4>1. m = q /\ m + 1 = n
        BY <1>2, <1>3, <3>2
      <4>2. P(m) = q * b
        BY <1>2, <4>1
      <4> QED  BY <1>2, <3>2, <4>1, <4>2
    <3> QED  BY <3>1, <3>2
  <2>8. P(0) = 0 /\ \A m \in 0..n : P(m) \in Nat
    BY <1>2, <1>4
  <2> HIDE DEF P
  <2>9. \A i \in 1..N : f[i] = f[i - 1] + t[i]
    <3> SUFFICES ASSUME NEW i \in 1..N
                 PROVE  f[i] = f[i - 1] + t[i]
      OBVIOUS
    <3>1. PICK k \in Nat, m \in 0..(n - 1) : i - 1 = n * k + m /\ (i - 1) % n = m
      BY <2>5
    <3> HIDE DEF f
    <3>2. PICK x, y, z, w, ka, fa : x = P(m) /\ y = P(m + 1) /\ z = f[i] /\ w = f[i - 1] /\ ka = k * a /\ fa = t[i]
      OBVIOUS
    <3>3. /\ fa = (IF m < q THEN b ELSE r) /\ w = ka + x
          /\ (m + 1 < n => z = ka + y) /\ (m + 1 = n => z = ka + a)
      <4>1. (k + 1) * a = k * a + a
        OBVIOUS
      <4> QED  BY <2>6, <3>1, <3>2, <4>1
    <3>4. ka \in Nat /\ x \in Nat /\ y \in Nat
      BY <1>4, <2>8, <3>2
    <3>5. (IF m + 1 = n THEN a ELSE y) = x + fa
      BY <2>7, <3>2, <3>3
    <3>6. z = w + fa
      BY <1>2, <1>4, <3>3, <3>4, <3>5
    <3> QED  BY <3>2, <3>6
  <2>10. f[0] = 0
    <3>1. 0 = n * 0 + 0 /\ 0 \in 0..(n - 1)
      BY <1>4, <2>2
    <3>2. 0 \div n = 0 /\ 0 % n = 0
      BY <1>4, <2>2, <3>1, DivisionIs
    <3> QED  BY <2>8, <3>2
  <2>11. f = [i \in 0..N |-> f[i]]
    OBVIOUS
  <2>12. f[N] = a * repeat
    <3>1. N = n * repeat + 0 /\ 0 \in 0..(n - 1)
      BY <1>4, <2>1, <2>2
    <3>2. N \div n = repeat /\ N % n = 0
      BY <1>4, <2>2, <3>1, DivisionIs
    <3> QED  BY <2>8, <3>2
  <2> HIDE DEF f
  <2>13. Total(t) = a * repeat
    <3>1. Sums(t, N, f)
      BY <2>3, <2>9, <2>10, <2>11 DEF Sums
    <3> QED  BY <2>12, <3>1, TotalOf
  <2>14. ASSUME NEW i \in 1..N
         PROVE  Total(SubSeq(t, 1, i)) = f[i]
    <3> DEFINE s == SubSeq(t, 1, i)
               g == [j \in 0..i |-> f[j]]
    <3>1. Len(s) = i /\ \A j \in 1..i : s[j] = t[j]
      BY <2>3
    <3> HIDE DEF s
    <3>2. g = [j \in 0..i |-> g[j]] /\ g[0] = 0 /\ g[i] = f[i]
      BY <2>10
    <3>3. \A j \in 1..i : g[j] = g[j - 1] + s[j]
      BY <2>9, <3>1
    <3> HIDE DEF g
    <3>4. Sums(s, i, g)
      BY <3>1, <3>2, <3>3 DEF Sums
    <3>5. Total(s) = g[i]
      BY <3>4, TotalOf
    <3> QED  BY <3>2, <3>5 DEF s
  <2>15. ASSUME NEW i \in 1..N, t[i] # b
         PROVE  t[i] < b /\ (repeat = 1 => i = N) /\ \E k \in Nat : f[i] = k * a
    <3>1. PICK k \in Nat, m \in 0..(n - 1) : i - 1 = n * k + m /\ (i - 1) % n = m
      BY <2>5
    <3>2. /\ t[i] = IF m < q THEN b ELSE r
          /\ m + 1 = n => f[i] = (k + 1) * a
      BY <2>6, <3>1
    <3>3. m = q /\ n = q + 1 /\ t[i] = r
      BY <1>2, <1>3, <2>15, <3>2
    <3>4. f[i] = (k + 1) * a /\ k + 1 \in Nat
      BY <3>2, <3>3
    <3>5. ASSUME repeat = 1
          PROVE  i = N
      <4>1. N = n /\ i <= n /\ i = n * k + n
        BY <1>2, <1>4, <2>1, <3>1, <3>3, <3>5
      <4>2. k = 0
        BY <1>4, <2>2, <4>1
      <4> QED  BY <1>4, <4>1, <4>2
    <3>6. t[i] < b
      BY <1>2, <3>3
    <3> QED  BY <3>4, <3>5, <3>6
  <2> QED  BY <2>3, <2>13, <2>14, <2>15 DEF t
<1> QED  BY <1>6, <1>7
-----------------------------------------------------------------------------
(***************************************************************************)
(* The inductive invariant                                                 *)
(***************************************************************************)
TypeOK ==
  /\ kind \in {"single", "multipart", "bytes"} /\ join_method \in {"stack", "concat"} /\ join_chunks \in BOOLEAN
  /\ sres \in Parameters /\ datum_shape \in Sizes /\ chunk_shape \in Sizes
  /\ files_per_datum \in Nat \ {0} /\ num_rows \in Nat /\ indx_offset \in Nat
  /\ resources \in Nat \ {0} /\ index \in Nat
  /\ assets \in Seq([sres : Nat, file : Int])
  /\ patches \in Seq([offset : Seq(Nat), shape : Seq(Nat)])

\* What holds from the constructor on.
Constructed ==
  /\ kind = "multipart" =>
       /\ chunk_shape # <<>>
       /\ join_method = "concat" => datum_shape # <<>> /\ datum_shape[1] % chunk_shape[1] = 0
       /\ files_per_datum = FilesOfDatum(datum_shape, chunk_shape, join_method, sres)
  /\ kind # "multipart" => files_per_datum = 1
  /\ chunk_shape # <<>> => Joined \/ datum_shape # <<>>
  /\ kind = "bytes" => datum_shape = <<>> /\ chunk_shape = <<>> /\ join_method = "stack"

\* Rows and files follow the indices.
Counted ==
  /\ files_per_datum \in layouts
  /\ num_rows = IF kind = "bytes" THEN 0 ELSE index
  /\ (kind # "single" /\ layouts = {files_per_datum}) => Len(assets) = index * files_per_datum
  /\ kind = "single" => Len(assets) = resources

\* The files of the last StreamResource are those from the offset on, and those of
\* any other are as many before the last of them as its number says.
Restarting ==
  /\ kind # "single" => indx_offset <= Len(assets)
  /\ \A i \in 1..Len(assets) :
       /\ assets[i].sres <= resources
       /\ kind = "single" => assets[i].sres = i
       /\ kind # "single" => (assets[i].sres = resources <=> i > indx_offset)
  /\ layouts = {files_per_datum} =>
       \A i \in 1..Len(assets) :
         /\ assets[i].file \in 0..(i - 1)
         /\ \A j \in 1..(i - 1) : assets[j].sres = assets[i].sres <=> j >= i - assets[i].file

\* The layout of as many files.
LayoutOf(fpf, n) ==
  << [i \in 1..n |-> 1] >> \o (IF fpf > 1 THEN << <<fpf>> >> ELSE <<>>)
    \o [i \in 1..(Len(datum_shape) - 1) |-> <<datum_shape[i + 1]>>]

Laid ==
  (orig_chunks # <<>> /\ layouts = {files_per_datum}) =>
    /\ kind = "multipart" /\ Split
    /\ orig_chunks = LayoutOf(datum_shape[1] \div files_per_datum, Len(assets))

\* The array has a first dimension that grows by Unit with each row, and others.
Stacked == join_method = "stack" \/ datum_shape = <<>>
Unit == IF Stacked THEN 1 ELSE datum_shape[1]
Dims == IF Stacked THEN Len(datum_shape) + 1 ELSE Len(datum_shape)
Extent(d) == IF Stacked THEN datum_shape[d - 1] ELSE datum_shape[d]

EndOf(p) == p.offset[1] + p.shape[1]
Received1 == IF kind = "bytes" THEN index ELSE num_rows * Unit

\* Each patch begins where the one before it ends, and is as wide as the array.
Patched ==
  /\ \A k \in 1..Len(patches) :
       /\ Len(patches[k].offset) = Dims /\ Len(patches[k].shape) = Dims
       /\ \A d \in 2..Dims : patches[k].offset[d] = 0 /\ patches[k].shape[d] = Extent(d)
       /\ EndOf(patches[k]) = IF k = Len(patches) THEN Received1 ELSE patches[k + 1].offset[1]
       /\ \A l \in 1..Len(patches) : k < l => EndOf(patches[k]) <= patches[l].offset[1]

IInv == TypeOK /\ Constructed /\ Counted /\ Restarting /\ Laid /\ Patched
-----------------------------------------------------------------------------
(***************************************************************************)
(* Construction                                                            *)
(***************************************************************************)
\* Shapes without their first dimension.
LEMMA SizesFacts ==
  ASSUME NEW shp \in Sizes
  PROVE  /\ Len(shp) \in Nat /\ shp = [i \in 1..Len(shp) |-> shp[i]]
         /\ \A i \in 1..Len(shp) : shp[i] \in Nat \ {0}
         /\ shp # <<>> => /\ 1 \in 1..Len(shp) /\ shp[1] \in Nat \ {0}
                          /\ Tail(shp) \in Sizes /\ Len(Tail(shp)) = Len(shp) - 1
                          /\ \A i \in 1..(Len(shp) - 1) : Tail(shp)[i] = shp[i + 1]
<1>1. shp \in Seq(Nat \ {0})
  BY DEF Sizes
<1>2. /\ Len(shp) \in Nat /\ shp = [i \in 1..Len(shp) |-> shp[i]]
      /\ \A i \in 1..Len(shp) : shp[i] \in Nat \ {0}
  BY <1>1
<1>3. ASSUME shp # <<>>
      PROVE  /\ 1 \in 1..Len(shp) /\ shp[1] \in Nat \ {0}
             /\ Tail(shp) \in Sizes /\ Len(Tail(shp)) = Len(shp) - 1
             /\ \A i \in 1..(Len(shp) - 1) : Tail(shp)[i] = shp[i + 1]
  <2>1. Len(shp) # 0
    BY <1>1, <1>3, EmptySeq
  <2>2. 1 \in 1..Len(shp)
    BY <1>2, <2>1
  <2>3. /\ Tail(shp) \in Seq(Nat \ {0}) /\ Len(Tail(shp)) = Len(shp) - 1
        /\ \A i \in 1..(Len(shp) - 1) : Tail(shp)[i] = shp[i + 1]
    BY <1>1, <1>3, HeadTailProperties
  <2> QED  BY <1>2, <2>2, <2>3 DEF Sizes
<1> QED  BY <1>2, <1>3

\* One size in front of others.
LEMMA SizesCons ==
  ASSUME NEW n \in Nat \ {0}, NEW shp \in Sizes
  PROVE  /\ <<n>> \in Sizes /\ <<n>> # <<>> /\ Len(<<n>>) = 1 /\ <<n>>[1] = n
         /\ <<n>> \o shp \in Sizes /\ Len(<<n>> \o shp) = 1 + Len(shp)
         /\ (<<n>> \o shp)[1] = n
         /\ \A i \in 1..Len(shp) : (<<n>> \o shp)[i + 1] = shp[i]
<1>1. <<n>> \in Seq(Nat \ {0}) /\ Len(<<n>>) = 1 /\ <<n>>[1] = n /\ <<n>> # <<>>
  OBVIOUS
<1>2. shp \in Seq(Nat \ {0}) /\ Len(shp) \in Nat
  BY DEF Sizes
<1> DEFINE all == <<n>> \o shp
<1>3. /\ all \in Seq(Nat \ {0}) /\ Len(all) = Len(<<n>>) + Len(shp)
      /\ \A i \in 1..(Len(<<n>>) + Len(shp)) : all[i] = IF i <= Len(<<n>>) THEN <<n>>[i] ELSE shp[i - Len(<<n>>)]
  BY <1>1, <1>2, ConcatProperties
<1> HIDE DEF all
<1>4. all[1] = n
  BY <1>1, <1>2, <1>3
<1>5. ASSUME NEW i \in 1..Len(shp)
      PROVE  all[i + 1] = shp[i]
  <2>1. i + 1 \in 1..(1 + Len(shp)) /\ ~(i + 1 <= 1) /\ i + 1 - 1 = i
    BY <1>2
  <2> QED  BY <1>1, <1>3, <2>1
<1> QED  BY <1>1, <1>3, <1>4, <1>5 DEF all, Sizes

\* The shape of a datum is a shape.
LEMMA DatumShapeType ==
  ASSUME NEW shp \in Sizes, NEW join, NEW m \in Nat
  PROVE  DatumShape(shp, join, m) \in Sizes
<1>1. <<>> \in Sizes
  BY DEF Sizes
<1>2. ASSUME NEW s \in Sizes
      PROVE  Multiplied(s, m) \in Sizes
  <2>1. CASE m = 0
    BY <2>1 DEF Multiplied
  <2>2. CASE m # 0
    <3>1. m \in Nat \ {0}
      BY <2>2
    <3>2. CASE s = <<>>
      <4>1. Multiplied(s, m) = <<m>>
        BY <2>2, <3>2 DEF Multiplied
      <4> QED  BY <3>1, <3>2, <4>1, SizesCons
    <3>3. CASE s # <<>>
      <4>1. Tail(s) \in Sizes
        BY <3>3, SizesFacts
      <4>2. <<m>> \o Tail(s) \in Sizes /\ <<m>> \o s \in Sizes
        BY <3>1, <4>1, SizesCons
      <4>3. Multiplied(s, m) \in {s, <<m>> \o Tail(s), <<m>> \o s}
        BY <2>2, <3>3 DEF Multiplied
      <4> QED  BY <4>2, <4>3
    <3> QED  BY <3>2, <3>3
  <2> QED  BY <2>1, <2>2
<1> QED  BY <1>1, <1>2 DEF DatumShape

\* Files of concatenated datums do not go across them.
LEMMA CoercedFacts ==
  ASSUME NEW shp \in Sizes, NEW chunk \in Sizes, NEW join, join = "concat" => shp # <<>>
  PROVE  /\ Coerced(shp, chunk, join) \in Sizes /\ Coerced(shp, chunk, join) # <<>>
         /\ join = "concat" => shp[1] % Coerced(shp, chunk, join)[1] = 0
<1> DEFINE given == IF chunk = <<>> THEN <<1>> ELSE chunk
<1>1. given \in Sizes /\ given # <<>>
  BY SizesCons
<1>2. Coerced(shp, chunk, join) = IF join = "concat" /\ shp[1] % given[1] # 0 THEN <<shp[1]>> ELSE given
  BY DEF Coerced
<1> HIDE DEF given
<1>3. CASE join = "concat" /\ shp[1] % given[1] # 0
  <2>1. shp[1] \in Nat \ {0}
    BY <1>3, SizesFacts
  <2>2. <<shp[1]>> \in Sizes /\ <<shp[1]>> # <<>> /\ <<shp[1]>>[1] = shp[1]
    BY <2>1, SizesCons
  <2>3. shp[1] % shp[1] = 0
    <3>1. PICK n \in Nat \ {0} : n = shp[1]
      BY <2>1
    <3>2. n * 1 + 0 = n /\ 0 \in 0..(n - 1)
      OBVIOUS
    <3> QED  BY <3>1, <3>2, DivisionIs
  <2> QED  BY <1>2, <1>3, <2>2, <2>3
<1>4. CASE ~(join = "concat" /\ shp[1] % given[1] # 0)
  BY <1>1, <1>2, <1>4
<1> QED  BY <1>3, <1>4

\* "files_per_datum * frames_per_file == datum_shape[0]", unless the parameter
\* files_per_datum does not divide the frames.
LEMMA FilesOfDatumFacts ==
  ASSUME NEW shp \in Sizes, NEW chunk \in Sizes, NEW join \in {"stack", "concat"}, NEW params \in Parameters,
         chunk # <<>>, join = "concat" => shp # <<>> /\ shp[1] % chunk[1] = 0
  PROVE  LET files  == FilesOfDatum(shp, chunk, join, params)
             frames == FramesPerFile(shp, chunk, join, params)
         IN /\ files \in Nat \ {0} /\ frames \in Nat \ {0}
            /\ (shp # <<>> /\ (params.files_per_datum = 0 \/ shp[1] % params.files_per_datum = 0))
                 => files * frames = shp[1] /\ shp[1] % files = 0
            /\ (shp # <<>> /\ shp[1] % files = 0) => files * frames = shp[1] /\ frames = shp[1] \div files
<1> DEFINE files == FilesOfDatum(shp, chunk, join, params)
           frames == FramesPerFile(shp, chunk, join, params)
           given == params.files_per_datum
<1>1. given \in Nat
  BY ParametersAssumption DEF Parameters
<1>2. chunk[1] \in Nat \ {0} /\ (shp # <<>> => shp[1] \in Nat \ {0})
  BY SizesFacts
<1>3. PICK a, c : a = shp[1] /\ c = chunk[1]
  OBVIOUS
<1>4. CASE shp = <<>>
  <2>1. frames = 1
    BY <1>4 DEF FramesPerFile
  <2>2. files = IF given # 0 THEN given ELSE 1
    BY <1>4 DEF FilesOfDatum
  <2> HIDE DEF files, frames, given
  <2>3. files \in Nat \ {0} /\ frames \in Nat \ {0}
    BY <1>1, <2>1, <2>2
  <2> QED  BY <1>4, <2>3 DEF files, frames
<1>5. CASE shp # <<>> /\ given # 0
  <2>1. frames = Max({1, a \div given}) /\ files = given
    BY <1>3, <1>5 DEF FramesPerFile, FilesOfDatum
  <2> HIDE DEF files, frames, given
  <2>2. a \in Nat \ {0} /\ given \in Nat \ {0} /\ a \div given \in Nat
    BY <1>1, <1>2, <1>3, <1>5, Division
  <2>3. frames = IF a \div given = 0 THEN 1 ELSE a \div given
    BY <2>1, <2>2, AtLeastOne
  <2>4. ASSUME a % given = 0
        PROVE  files * frames = a /\ a % files = 0 /\ frames = a \div files
    <3>1. a \div given \in Nat \ {0} /\ given * (a \div given) = a
      BY <2>2, <2>4, Divided
    <3> QED  BY <2>1, <2>3, <2>4, <3>1
  <2>5. files \in Nat \ {0} /\ frames \in Nat \ {0}
    <3>1. PICK q \in Nat : q = a \div given
      BY <2>2
    <3>2. frames = IF q = 0 THEN 1 ELSE q
      BY <2>3, <3>1
    <3>3. frames \in Nat \ {0}
      BY ONLY <3>2, q \in Nat
    <3>4. files \in Nat \ {0}
      BY ONLY <2>1, <2>2
    <3> QED  BY <3>3, <3>4
  <2> QED  BY <1>3, <1>5, <2>1, <2>4, <2>5 DEF files, frames, given
<1>6. CASE shp # <<>> /\ given = 0
  <2>1. files = Max({1, a \div frames})
    BY <1>3, <1>6 DEF FilesOfDatum
  <2>2. a \in Nat \ {0} /\ c \in Nat \ {0}
    BY <1>2, <1>3, <1>6
  <2>3. frames \in Nat \ {0} /\ a % frames = 0
    <3>1. a % 1 = 0 /\ a % a = 0
      <4>1. a = 1 * a + 0 /\ a = a * 1 + 0 /\ 0 \in 0..(a - 1) /\ 0 \in 0..(1 - 1)
        BY <2>2
      <4> QED  BY <2>2, <4>1, DivisionIs
    <3>2. frames \in {1, a, c} /\ (frames = c => (a % c = 0 \/ frames \in {1, a}))
      <4>1. CASE join = "concat"
        BY <1>3, <1>6, <4>1 DEF FramesPerFile
      <4>2. CASE join = "stack" /\ params.multiplier # 0
        BY <1>3, <1>6, <4>2 DEF FramesPerFile
      <4>3. CASE join = "stack" /\ params.multiplier = 0
        BY <1>3, <1>6, <4>3 DEF FramesPerFile
      <4> QED  BY <4>1, <4>2, <4>3
    <3> HIDE DEF frames
    <3> QED  BY <2>2, <3>1, <3>2
  <2> HIDE DEF files, frames, given
  <2>4. /\ a \div frames \in Nat \ {0} /\ frames * (a \div frames) = a
        /\ a % (a \div frames) = 0 /\ a \div (a \div frames) = frames
    BY <2>2, <2>3, Divided
  <2>5. files = a \div frames
    BY <2>1, <2>4, AtLeastOne
  <2>6. files * frames = a
    BY <2>3, <2>4, <2>5
  <2>7. files \in Nat \ {0} /\ files * frames = a /\ a % files = 0 /\ frames = a \div files
    BY <2>4, <2>5, <2>6
  <2> QED  BY <1>3, <2>3, <2>7 DEF files, frames, given
<1> QED  BY <1>4, <1>5, <1>6
-----------------------------------------------------------------------------
(***************************************************************************)
(* Structure                                                               *)
(***************************************************************************)
\* A number in front of others.
LEMMA ConsFacts ==
  ASSUME NEW S, NEW n \in S, NEW rest \in Seq(S)
  PROVE  /\ <<n>> \o rest \in Seq(S) /\ Len(<<n>> \o rest) = 1 + Len(rest) /\ Len(rest) \in Nat
         /\ (<<n>> \o rest)[1] = n
         /\ \A i \in 2..(1 + Len(rest)) : (<<n>> \o rest)[i] = rest[i - 1]
<1>1. <<n>> \in Seq(S) /\ Len(<<n>>) = 1 /\ <<n>>[1] = n
  OBVIOUS
<1> DEFINE all == <<n>> \o rest
<1>2. /\ all \in Seq(S) /\ Len(all) = Len(<<n>>) + Len(rest) /\ Len(rest) \in Nat
      /\ \A i \in 1..(Len(<<n>>) + Len(rest)) : all[i] = IF i <= Len(<<n>>) THEN <<n>>[i] ELSE rest[i - Len(<<n>>)]
  BY <1>1, ConcatProperties
<1> HIDE DEF all
<1>3. all[1] = n
  BY <1>1, <1>2
<1>4. ASSUME NEW i \in 2..(1 + Len(rest))
      PROVE  all[i] = rest[i - 1]
  <2>1. i \in 1..(1 + Len(rest)) /\ ~(i <= 1)
    BY <1>2
  <2> QED  BY <1>1, <1>2, <2>1
<1> QED  BY <1>1, <1>2, <1>3, <1>4 DEF all

\* The first dimension of the array is that of its rows.
LEMMA ShapeFacts ==
  ASSUME TypeOK, NEW rows \in Nat
  PROVE  /\ Dims \in Nat \ {0} /\ Unit \in Nat \ {0}
         /\ Len(ShapeOf(rows)) = Dims /\ ShapeOf(rows) \in Seq(Nat)
         /\ ShapeOf(rows)[1] = rows * Unit
         /\ \A d \in 2..Dims : ShapeOf(rows)[d] = Extent(d)
<1>1. datum_shape \in Sizes /\ join_method \in {"stack", "concat"} /\ Len(datum_shape) \in Nat
  BY SizesFacts DEF TypeOK
<1>2. CASE Stacked
  <2>1. ShapeOf(rows) = <<rows>> \o datum_shape
    BY <1>1, <1>2 DEF ShapeOf, ArrayShape, Stacked
  <2>2. datum_shape \in Seq(Nat)
    BY <1>1, SizesFacts
  <2>3. /\ ShapeOf(rows) \in Seq(Nat) /\ Len(ShapeOf(rows)) = 1 + Len(datum_shape)
        /\ ShapeOf(rows)[1] = rows
        /\ \A i \in 2..(1 + Len(datum_shape)) : ShapeOf(rows)[i] = datum_shape[i - 1]
    BY <2>1, <2>2, ConsFacts
  <2> QED  BY <1>1, <1>2, <2>3 DEF Dims, Unit, Extent
<1>3. CASE ~Stacked
  <2>1. /\ datum_shape # <<>> /\ ShapeOf(rows) = <<rows * datum_shape[1]>> \o Tail(datum_shape)
    BY <1>1, <1>3 DEF ShapeOf, ArrayShape, Stacked
  <2>2. /\ 1 \in 1..Len(datum_shape) /\ datum_shape[1] \in Nat \ {0}
        /\ Tail(datum_shape) \in Sizes /\ Len(Tail(datum_shape)) = Len(datum_shape) - 1
        /\ \A i \in 1..(Len(datum_shape) - 1) : Tail(datum_shape)[i] = datum_shape[i + 1]
    BY <1>1, <2>1, SizesFacts
  <2>3. Tail(datum_shape) \in Seq(Nat) /\ rows * datum_shape[1] \in Nat
    <3>1. PICK u \in Nat : u = datum_shape[1]
      BY <2>2
    <3>2. rows * u \in Nat
      OBVIOUS
    <3>3. Tail(datum_shape) \in Seq(Nat)
      <4>1. \A s \in Sizes : s \in Seq(Nat)
        BY SizesFacts
      <4> QED  BY <2>2, <4>1
    <3> QED  BY <3>1, <3>2, <3>3
  <2>4. /\ ShapeOf(rows) \in Seq(Nat) /\ Len(ShapeOf(rows)) = 1 + Len(Tail(datum_shape))
        /\ ShapeOf(rows)[1] = rows * datum_shape[1]
        /\ \A i \in 2..(1 + Len(Tail(datum_shape))) : ShapeOf(rows)[i] = Tail(datum_shape)[i - 1]
    BY <2>1, <2>3, ConsFacts
  <2>5. ASSUME NEW d \in 2..Len(datum_shape)
        PROVE  ShapeOf(rows)[d] = datum_shape[d]
    <3>1. d - 1 \in 1..(Len(datum_shape) - 1) /\ d - 1 + 1 = d /\ d \in 2..(1 + Len(Tail(datum_shape)))
      BY <1>1, <2>2
    <3> QED  BY <2>2, <2>4, <3>1
  <2> QED  BY <1>1, <1>3, <2>2, <2>4, <2>5 DEF Dims, Unit, Extent
<1> QED  BY <1>2, <1>3

\* The sum of one size.
LEMMA TotalOfOne ==
  ASSUME NEW n \in Nat
  PROVE  Total(<<n>>) = n
<1> DEFINE f == [i \in 0..1 |-> IF i = 0 THEN 0 ELSE n]
<1>1. f[0] = 0 /\ f[1] = n /\ f = [i \in 0..1 |-> f[i]]
  OBVIOUS
<1>2. Len(<<n>>) = 1 /\ <<n>>[1] = n
  OBVIOUS
<1> HIDE DEF f
<1>3. ASSUME NEW i \in 1..1
      PROVE  f[i] = f[i - 1] + <<n>>[i]
  <2>1. i = 1
    OBVIOUS
  <2> QED  BY <1>1, <1>2, <2>1
<1>4. Sums(<<n>>, 1, f)
  BY <1>1, <1>2, <1>3 DEF Sums
<1>5. Total(<<n>>) = f[1]
  BY <1>4, TotalOf, 1 \in Nat
<1> QED  BY <1>1, <1>5

\* The sum of as many ones.
LEMMA TotalOfOnes ==
  ASSUME NEW n \in Nat
  PROVE  Len([i \in 1..n |-> 1]) = n /\ Total([i \in 1..n |-> 1]) = n
<1> DEFINE f == [i \in 0..n |-> i]
           ones == [i \in 1..n |-> 1]
<1>1. f[0] = 0 /\ f[n] = n /\ f = [i \in 0..n |-> f[i]] /\ \A i \in 1..n : f[i] = f[i - 1] + ones[i]
  OBVIOUS
<1>2. Len(ones) = n
  OBVIOUS
<1> HIDE DEF f, ones
<1>3. Sums(ones, n, f)
  BY <1>1, <1>2 DEF Sums
<1>4. Total(ones) = f[n]
  BY <1>3, TotalOf
<1> QED  BY <1>1, <1>2, <1>4 DEF ones

\* The chunks add up to the shape.
LEMMA ChunksTile == IInv => ChunksTileShape
<1> SUFFICES ASSUME IInv, Readable, NEW d \in DOMAIN Shape
             PROVE  /\ Total(Chunks[d]) = Shape[d]
                    /\ d <= Len(chunk_shape) =>
                         \A i \in DOMAIN Chunks[d] :
                           \/ Chunks[d][i] = chunk_shape[d]
                           \/ /\ Chunks[d][i] < chunk_shape[d]
                              /\ \/ i = Len(Chunks[d])
                                 \/ d = 1 /\ ~Joined /\ Total(SubSeq(Chunks[d], 1, i)) % datum_shape[1] = 0
  BY DEF ChunksTileShape
<1>1. TypeOK /\ num_rows \in Nat /\ chunk_shape \in Sizes /\ datum_shape \in Sizes
  BY DEF IInv, TypeOK
<1>2. /\ Dims \in Nat \ {0} /\ Shape \in Seq(Nat) /\ Len(Shape) = Dims
      /\ Shape[1] = num_rows * Unit /\ Unit \in Nat \ {0}
  BY <1>1, ShapeFacts DEF Shape
<1>3. d \in 1..Dims /\ Shape[d] \in Nat /\ DOMAIN Shape = 1..Dims
  BY <1>2
<1>4. /\ Len(chunk_shape) \in Nat
      /\ d <= Len(chunk_shape) => chunk_shape # <<>> /\ chunk_shape[d] \in Nat \ {0}
  <2>1. Len(chunk_shape) \in Nat /\ \A i \in 1..Len(chunk_shape) : chunk_shape[i] \in Nat \ {0}
    BY <1>1, SizesFacts
  <2>2. d <= Len(chunk_shape) => d \in 1..Len(chunk_shape) /\ chunk_shape # <<>>
    BY <1>3, <2>1
  <2> QED  BY <2>1, <2>2
<1>5. Chunks[d] = CASE d > Len(chunk_shape) -> <<Shape[d]>>
                    [] d = 1 /\ chunk_shape # <<>> /\ ~Joined ->
                         list_summands(datum_shape[1], chunk_shape[1], num_rows)
                    [] OTHER -> list_summands(Shape[d], chunk_shape[d], 1)
  BY <1>3, Zenon DEF Chunks
<1>6. CASE d > Len(chunk_shape)
  <2>1. ~(d = 1 /\ chunk_shape # <<>> /\ ~Joined)
    <3>1. chunk_shape # <<>> => Len(chunk_shape) # 0
      BY <1>1, SizesFacts
    <3> QED  BY <1>4, <1>6, <3>1
  <2>2. Chunks[d] = <<Shape[d]>>
    BY <1>5, <1>6, <2>1
  <2>3. ~(d <= Len(chunk_shape))
    BY <1>3, <1>4, <1>6
  <2> QED  BY <1>3, <2>2, <2>3, TotalOfOne
<1>7. CASE d <= Len(chunk_shape) /\ d = 1 /\ ~Joined
  <2>1. ~(d > Len(chunk_shape)) /\ chunk_shape # <<>>
    BY <1>3, <1>4, <1>7
  <2>2. Chunks[d] = list_summands(datum_shape[1], chunk_shape[1], num_rows)
    BY <1>5, <1>7, <2>1
  <2>3. datum_shape # <<>> /\ ~Stacked
    BY <1>7, <2>1 DEF IInv, Constructed, Joined, Stacked
  <2>4. datum_shape[1] \in Nat \ {0} /\ Unit = datum_shape[1]
    BY <1>1, <2>3, SizesFacts DEF Unit
  <2>5. PICK a, b, t : a = datum_shape[1] /\ b = chunk_shape[1] /\ t = Chunks[d]
    OBVIOUS
  <2>6. a \in Nat \ {0} /\ b \in Nat \ {0} /\ t = list_summands(a, b, num_rows)
    BY <1>4, <1>7, <2>2, <2>4, <2>5
  <2>7. /\ Len(t) \in Nat \ {0} /\ t = [i \in 1..Len(t) |-> t[i]]
        /\ Total(t) = a * num_rows
        /\ \A i \in 1..Len(t) : \/ t[i] = b
                                \/ t[i] < b /\ \E k \in Nat : Total(SubSeq(t, 1, i)) = k * a
    <3> DEFINE u == list_summands(a, b, num_rows)
    <3>1. /\ Len(u) \in Nat \ {0} /\ u = [i \in 1..Len(u) |-> u[i]]
          /\ Total(u) = a * num_rows
          /\ \A i \in 1..Len(u) :
               \/ u[i] = b
               \/ /\ u[i] < b
                  /\ num_rows = 1 => i = Len(u)
                  /\ \E k \in Nat : Total(SubSeq(u, 1, i)) = k * a
      <4>1. a \in Nat /\ b \in Nat \ {0} /\ num_rows \in Nat
        BY <1>1, <2>6
      <4> HIDE DEF u
      <4> QED  BY <4>1, list_summandsFacts DEF u
    <3>2. u = t
      BY <1>1, <2>6
    <3> HIDE DEF u
    <3> QED  BY <3>1, <3>2
  <2>8. Total(t) = Shape[1]
    BY <1>1, <1>2, <2>4, <2>5, <2>6, <2>7
  <2>9. \A k \in Nat : (k * a) % a = 0
    <3>1. ASSUME NEW k \in Nat
          PROVE  (k * a) % a = 0
      <4>1. k * a = a * k + 0 /\ 0 \in 0..(a - 1)
        BY <2>6
      <4> QED  BY <2>6, <4>1, DivisionIs
    <3> QED  BY <3>1
  <2>10. DOMAIN t = 1..Len(t)
    BY <2>7
  <2>11. \A i \in DOMAIN t : t[i] = b \/ (t[i] < b /\ Total(SubSeq(t, 1, i)) % a = 0)
    BY <2>7, <2>9, <2>10
  <2> QED  BY <1>7, <2>5, <2>8, <2>11
<1>8. CASE d <= Len(chunk_shape) /\ ~(d = 1 /\ ~Joined)
  <2>1. ~(d > Len(chunk_shape))
    BY <1>3, <1>4, <1>8
  <2>2. Chunks[d] = list_summands(Shape[d], chunk_shape[d], 1)
    BY <1>5, <1>8, <2>1
  <2>3. PICK a, b, t : a = Shape[d] /\ b = chunk_shape[d] /\ t = Chunks[d]
    OBVIOUS
  <2>4. a \in Nat /\ b \in Nat \ {0} /\ t = list_summands(a, b, 1) /\ 1 \in Nat
    BY <1>3, <1>4, <1>8, <2>2, <2>3
  <2>5. /\ Len(t) \in Nat \ {0} /\ t = [i \in 1..Len(t) |-> t[i]]
        /\ Total(t) = a * 1
        /\ \A i \in 1..Len(t) : \/ t[i] = b
                                \/ t[i] < b /\ (1 = 1 => i = Len(t))
    <3> DEFINE u == list_summands(a, b, 1)
    <3>1. /\ Len(u) \in Nat \ {0} /\ u = [i \in 1..Len(u) |-> u[i]]
          /\ Total(u) = a * 1
          /\ \A i \in 1..Len(u) :
               \/ u[i] = b
               \/ /\ u[i] < b
                  /\ 1 = 1 => i = Len(u)
                  /\ \E k \in Nat : Total(SubSeq(u, 1, i)) = k * a
      <4>1. a \in Nat /\ b \in Nat \ {0} /\ 1 \in Nat
        BY <2>4
      <4> HIDE DEF u
      <4> QED  BY <4>1, list_summandsFacts DEF u
    <3>2. u = t
      BY <2>4
    <3> HIDE DEF u
    <3> QED  BY <3>1, <3>2
  <2>6. DOMAIN t = 1..Len(t) /\ Total(t) = a
    BY <2>4, <2>5
  <2> QED  BY <2>3, <2>5, <2>6
<1> QED  BY <1>3, <1>4, <1>6, <1>7, <1>8

\* The files hold the frames.
LEMMA FilesHold == IInv => FilesHoldFrames
<1> SUFFICES ASSUME IInv, kind = "multipart", layouts = {files_per_datum}, datum_shape # <<>>,
                    sres.files_per_datum = 0 \/ datum_shape[1] % sres.files_per_datum = 0
             PROVE  Len(assets) * FramesPerFile(datum_shape, chunk_shape, join_method, sres) = num_rows * datum_shape[1]
  BY DEF FilesHoldFrames
<1>1. PICK a, f, r, n : /\ a = datum_shape[1] /\ f = FramesPerFile(datum_shape, chunk_shape, join_method, sres)
                        /\ r = num_rows /\ n = files_per_datum
  OBVIOUS
<1>2. n = FilesOfDatum(datum_shape, chunk_shape, join_method, sres) /\ Len(assets) = r * n
  BY <1>1 DEF IInv, Constructed, Counted
<1>3. n \in Nat \ {0} /\ f \in Nat \ {0} /\ n * f = a
  BY <1>1, <1>2, FilesOfDatumFacts DEF IInv, TypeOK, Constructed
<1>4. r \in Nat
  BY <1>1 DEF IInv, TypeOK
<1>5. (r * n) * f = r * a
  BY <1>3, <1>4
<1> QED  BY <1>1, <1>2, <1>5

\* As many files of the same StreamResource come first as the number of a file says.
LEMMA FilesRestart == IInv => FilesRestartAtZero
<1> SUFFICES ASSUME IInv, layouts = {files_per_datum}, NEW i \in DOMAIN assets
             PROVE  assets[i].file = Cardinality({j \in 1..(i - 1) : assets[j].sres = assets[i].sres})
  BY DEF FilesRestartAtZero
<1>1. i \in 1..Len(assets) /\ Len(assets) \in Nat
  BY DEF IInv, TypeOK
<1>2. PICK n : n = assets[i].file
  OBVIOUS
<1>3. n \in 0..(i - 1) /\ \A j \in 1..(i - 1) : assets[j].sres = assets[i].sres <=> j >= i - n
  BY <1>1, <1>2 DEF IInv, Restarting
<1>4. {j \in 1..(i - 1) : assets[j].sres = assets[i].sres} = (i - n)..(i - 1)
  <2>1. \A j : j \in (i - n)..(i - 1) <=> j \in 1..(i - 1) /\ j >= i - n
    BY <1>1, <1>3
  <2> QED  BY <1>3, <2>1
<1>5. Cardinality((i - n)..(i - 1)) = n
  <2>1. i - n \in Int /\ i - 1 \in Int
    BY <1>1, <1>3
  <2>2. Cardinality((i - n)..(i - 1)) = IF i - n > i - 1 THEN 0 ELSE (i - 1) - (i - n) + 1
    BY <2>1, FS_Interval
  <2> QED  BY <1>1, <1>3, <2>2
<1> QED  BY <1>2, <1>4, <1>5

\* Partial products exist.
LEMMA ProductsExist ==
  ASSUME NEW sizes \in Seq(Nat)
  PROVE  \E f : Products(sizes, Len(sizes), f) /\ \A i \in 0..Len(sizes) : f[i] \in Nat
<1> DEFINE L == Len(sizes)
           Is(f, m) == /\ f = [i \in 0..m |-> f[i]] /\ f[0] = 1 /\ \A i \in 0..m : f[i] \in Nat
                       /\ \A i \in 1..m : f[i] = f[i - 1] * sizes[i]
           Bad == {m \in 0..L : ~\E f : Is(f, m)}
<1>1. L \in Nat /\ \A i \in 1..L : sizes[i] \in Nat
  OBVIOUS
<1>2. ASSUME NEW m \in Bad, \A k \in Bad : m <= k
      PROVE  FALSE
  <2>1. CASE m = 0
    <3> DEFINE g == [i \in 0..0 |-> 1]
    <3>1. g[0] = 1 /\ g = [i \in 0..0 |-> g[i]] /\ \A i \in 0..0 : g[i] \in Nat
      OBVIOUS
    <3>2. 1..0 = {}
      OBVIOUS
    <3> HIDE DEF g
    <3>3. Is(g, 0)
      BY <3>1, <3>2
    <3> QED  BY <2>1, <3>3
  <2>2. CASE m # 0
    <3>1. m \in 1..L /\ m - 1 \in 0..L /\ ~(m <= m - 1)
      BY <1>1, <2>2
    <3>2. PICK f : Is(f, m - 1)
      BY <1>2, <3>1
    <3> DEFINE g == [i \in 0..m |-> IF i = m THEN f[m - 1] * sizes[m] ELSE f[i]]
    <3>3. g[m] = f[m - 1] * sizes[m] /\ g = [i \in 0..m |-> g[i]] /\ \A i \in 0..(m - 1) : g[i] = f[i]
      BY <3>1
    <3> HIDE DEF g
    <3>4. f[m - 1] \in Nat /\ sizes[m] \in Nat
      BY <1>1, <3>1, <3>2
    <3>5. g[m] \in Nat
      BY <3>3, <3>4
    <3>6. ASSUME NEW i \in 0..m
          PROVE  g[i] \in Nat /\ (i # 0 => g[i] = g[i - 1] * sizes[i])
      <4>1. CASE i = m
        <5>1. m - 1 \in 0..(m - 1)
          BY <3>1
        <5> QED  BY <3>3, <3>5, <4>1, <5>1
      <4>2. CASE i # m
        <5>1. i \in 0..(m - 1) /\ (i # 0 => i \in 1..(m - 1) /\ i - 1 \in 0..(m - 1))
          BY <3>1, <4>2
        <5> QED  BY <3>2, <3>3, <5>1
      <4> QED  BY <4>1, <4>2
    <3>7. g[0] = 1
      <4>1. 0 \in 0..(m - 1)
        BY <3>1
      <4>2. g[0] = f[0]
        BY <3>3, <4>1
      <4> QED  BY <3>2, <4>2
    <3>8. \A i \in 1..m : i \in 0..m /\ i # 0
      BY <3>1
    <3>9. Is(g, m)
      BY <3>3, <3>6, <3>7, <3>8
    <3> HIDE DEF Is
    <3> QED  BY <1>2, <3>9
  <2> QED  BY <2>1, <2>2
<1>3. Bad = {}
  <2>1. Bad \in SUBSET Nat
    OBVIOUS
  <2> HIDE DEF Bad
  <2> QED  BY <1>2, <2>1, LeastIndex
<1>4. L \in 0..L
  BY <1>1
<1>5. \E f : Is(f, L)
  <2> HIDE DEF Is
  <2> QED  BY <1>3, <1>4
<1> QED  BY <1>5 DEF Products

\* The dimensions of the layout of n files.
LEMMA LayoutFacts ==
  ASSUME datum_shape \in Sizes, Len(datum_shape) > 1, NEW fpf \in Nat \ {0}, NEW n \in Nat
  PROVE  LET chunks == LayoutOf(fpf, n)
             shift == IF fpf > 1 THEN 1 ELSE 0
         IN /\ chunks # <<>> /\ Len(chunks) = Len(datum_shape) + shift
            /\ chunks = [d \in 1..Len(chunks) |-> chunks[d]]
            /\ chunks[1] = [i \in 1..n |-> 1]
            /\ fpf > 1 => chunks[2] = <<fpf>>
            /\ \A d \in 2..Len(datum_shape) : chunks[d + shift] = <<datum_shape[d]>>
<1> DEFINE ones == [i \in 1..n |-> 1]
           others == [i \in 1..(Len(datum_shape) - 1) |-> <<datum_shape[i + 1]>>]
           chunks == LayoutOf(fpf, n)
           S == Seq(Nat)
<1>1. PICK L : L = Len(datum_shape)
  OBVIOUS
<1>2. L \in Nat /\ L > 1 /\ \A i \in 1..L : datum_shape[i] \in Nat
  BY <1>1, SizesFacts
<1>3. ones \in S
  OBVIOUS
<1>4. others \in Seq(S) /\ Len(others) = L - 1 /\ \A d \in 2..L : others[d - 1] = <<datum_shape[d]>>
  <2>1. \A i \in 1..(L - 1) : <<datum_shape[i + 1]>> \in S
    BY <1>2
  <2>2. others \in Seq(S) /\ Len(others) = L - 1
    BY <1>1, <1>2, <2>1
  <2>3. \A d \in 2..L : d - 1 \in 1..(L - 1) /\ (d - 1) + 1 = d
    BY <1>2
  <2> QED  BY <1>1, <2>2, <2>3
<1> HIDE DEF ones, others, S
<1>5. CASE fpf > 1
  <2>1. chunks = (<<ones>> \o << <<fpf>> >>) \o others
    BY <1>5 DEF LayoutOf, ones, others
  <2>2. <<fpf>> \in S
    BY DEF S
  <2> DEFINE two == <<ones>> \o << <<fpf>> >>
  <2>3. /\ <<ones>> \in Seq(S) /\ Len(<<ones>>) = 1 /\ <<ones>>[1] = ones
        /\ << <<fpf>> >> \in Seq(S) /\ Len(<< <<fpf>> >>) = 1 /\ << <<fpf>> >>[1] = <<fpf>>
    BY <1>3, <2>2
  <2>4. two \in Seq(S) /\ Len(two) = 2 /\ two[1] = ones /\ two[2] = <<fpf>>
    <3>1. /\ two \in Seq(S) /\ Len(two) = Len(<<ones>>) + Len(<< <<fpf>> >>)
          /\ \A i \in 1..(Len(<<ones>>) + Len(<< <<fpf>> >>)) :
               two[i] = IF i <= Len(<<ones>>) THEN <<ones>>[i] ELSE << <<fpf>> >>[i - Len(<<ones>>)]
      BY <2>3, ConcatProperties
    <3> HIDE DEF two
    <3>2. 1 \in 1..2 /\ 2 \in 1..2 /\ 1 <= 1 /\ ~(2 <= 1) /\ 2 - 1 = 1 /\ 1 + 1 = 2
      OBVIOUS
    <3> QED  BY <2>3, <3>1, <3>2
  <2> HIDE DEF two, chunks
  <2>5. /\ chunks \in Seq(S) /\ Len(chunks) = 2 + (L - 1)
        /\ \A i \in 1..(2 + (L - 1)) : chunks[i] = IF i <= 2 THEN two[i] ELSE others[i - 2]
    BY <1>4, <2>1, <2>4, ConcatProperties DEF two
  <2>6. Len(chunks) = L + 1 /\ chunks # <<>> /\ chunks = [d \in 1..Len(chunks) |-> chunks[d]]
    BY <1>2, <2>5
  <2>7. chunks[1] = ones /\ chunks[2] = <<fpf>>
    <3>1. 1 \in 1..(2 + (L - 1)) /\ 2 \in 1..(2 + (L - 1)) /\ 1 <= 2 /\ 2 <= 2
      BY <1>2
    <3> QED  BY <2>4, <2>5, <3>1
  <2>8. ASSUME NEW d \in 2..L
        PROVE  chunks[d + 1] = <<datum_shape[d]>>
    <3>1. d + 1 \in 1..(2 + (L - 1)) /\ ~(d + 1 <= 2) /\ d + 1 - 2 = d - 1
      BY <1>2
    <3> QED  BY <1>4, <2>5, <3>1
  <2> QED  BY <1>1, <1>5, <2>6, <2>7, <2>8 DEF chunks, ones
<1>6. CASE ~(fpf > 1)
  <2>1. chunks = (<<ones>> \o <<>>) \o others
    BY <1>6 DEF LayoutOf, ones, others
  <2>2. <<ones>> \in Seq(S) /\ Len(<<ones>>) = 1 /\ <<ones>>[1] = ones
    BY <1>3
  <2>3. chunks = <<ones>> \o others
    BY <2>1, <2>2, ConcatEmptySeq
  <2> HIDE DEF chunks
  <2>4. /\ chunks \in Seq(S) /\ Len(chunks) = 1 + (L - 1)
        /\ \A i \in 1..(1 + (L - 1)) : chunks[i] = IF i <= 1 THEN <<ones>>[i] ELSE others[i - 1]
    BY <1>4, <2>2, <2>3, ConcatProperties
  <2>5. Len(chunks) = L /\ chunks # <<>> /\ chunks = [d \in 1..Len(chunks) |-> chunks[d]]
    BY <1>2, <2>4
  <2>6. chunks[1] = ones
    <3>1. 1 \in 1..(1 + (L - 1)) /\ 1 <= 1
      BY <1>2
    <3> QED  BY <2>2, <2>4, <3>1
  <2>7. ASSUME NEW d \in 2..L
        PROVE  chunks[d + 0] = <<datum_shape[d]>>
    <3>1. d \in 1..(1 + (L - 1)) /\ ~(d <= 1) /\ d + 0 = d
      BY <1>2
    <3> QED  BY <1>4, <2>4, <3>1
  <2>8. L = L + 0
    BY <1>2
  <2> QED  BY <1>1, <1>6, <2>5, <2>6, <2>7, <2>8 DEF chunks, ones
<1> QED  BY <1>5, <1>6

\* The files of all datums hold as many elements as the array.
LEMMA OrigFit == IInv => OrigChunksFit
<1> SUFFICES ASSUME IInv, orig_chunks # <<>>, layouts = {files_per_datum}
             PROVE  /\ Len(orig_chunks[1]) = Len(assets)
                    /\ Elements([d \in DOMAIN orig_chunks |-> Total(orig_chunks[d])]) = Elements(Shape)
  BY DEF OrigChunksFit
<1>1. PICK a, fpd, rows, n, L, fpf : /\ a = datum_shape[1] /\ fpd = files_per_datum /\ rows = num_rows
                                     /\ n = Len(assets) /\ L = Len(datum_shape) /\ fpf = a \div fpd
  OBVIOUS
<1>2. /\ kind = "multipart" /\ join_method = "stack" /\ L > 1 /\ fpd > 1 /\ a % fpd = 0
      /\ orig_chunks = LayoutOf(fpf, n)
  BY <1>1 DEF IInv, Laid, Split
<1>3. TypeOK /\ datum_shape \in Sizes /\ fpd \in Nat \ {0} /\ rows \in Nat /\ n \in Nat
  BY <1>1 DEF IInv, TypeOK
<1>4. L \in Nat /\ a \in Nat \ {0} /\ \A i \in 1..L : datum_shape[i] \in Nat \ {0}
  <2>1. L \in Nat /\ \A i \in 1..L : datum_shape[i] \in Nat \ {0}
    BY <1>1, <1>3, SizesFacts
  <2>2. 1 \in 1..L
    BY <1>2, <2>1
  <2> QED  BY <1>1, <2>1, <2>2
<1>5. fpf \in Nat \ {0} /\ fpd * fpf = a
  BY <1>1, <1>2, <1>3, <1>4, Divided
<1>6. n = rows * fpd
  BY <1>1, <1>2 DEF IInv, Counted
<1>7. n * fpf = rows * a
  <2>1. (rows * fpd) * fpf = rows * (fpd * fpf)
    BY <1>3, <1>5
  <2> QED  BY <1>5, <1>6, <2>1
<1>8. /\ Shape \in Seq(Nat) /\ Len(Shape) = L + 1
      /\ Shape[1] = rows /\ \A d \in 2..(L + 1) : Shape[d] = datum_shape[d - 1]
  <2>1. /\ Len(ShapeOf(num_rows)) = Dims /\ ShapeOf(num_rows) \in Seq(Nat)
        /\ ShapeOf(num_rows)[1] = num_rows * Unit
        /\ \A d \in 2..Dims : ShapeOf(num_rows)[d] = Extent(d)
    BY <1>1, <1>3, ShapeFacts
  <2>2. Dims = L + 1 /\ Unit = 1 /\ \A d : Extent(d) = datum_shape[d - 1]
    BY <1>1, <1>2 DEF Dims, Unit, Extent, Stacked
  <2> QED  BY <1>1, <1>3, <2>1, <2>2 DEF Shape
<1>9. PICK p : Products(Shape, Len(Shape), p) /\ \A i \in 0..Len(Shape) : p[i] \in Nat
  BY <1>8, ProductsExist
<1>10. p[0] = 1 /\ \A i \in 1..(L + 1) : p[i] = p[i - 1] * Shape[i]
  BY <1>8, <1>9 DEF Products
<1>11. Elements(Shape) = p[L + 1]
  BY <1>4, <1>8, <1>9, ElementsOf
<1>12. p[2] = rows * a
  <2>1. 1 \in 1..(L + 1) /\ 2 \in 1..(L + 1) /\ 2 \in 2..(L + 1) /\ 1 - 1 = 0 /\ 2 - 1 = 1
    BY <1>2, <1>4
  <2>2. p[1] = p[0] * Shape[1] /\ p[2] = p[1] * Shape[2] /\ Shape[2] = a
    BY <1>1, <1>8, <1>10, <2>1
  <2>3. p[1] = rows
    BY <1>3, <1>8, <1>10, <2>2
  <2> QED  BY <2>2, <2>3
<1> DEFINE shift == IF fpf > 1 THEN 1 ELSE 0
           totals == [d \in DOMAIN orig_chunks |-> Total(orig_chunks[d])]
<1>13. /\ orig_chunks # <<>> /\ Len(orig_chunks) = L + shift
       /\ orig_chunks = [d \in 1..Len(orig_chunks) |-> orig_chunks[d]]
       /\ orig_chunks[1] = [i \in 1..n |-> 1]
       /\ fpf > 1 => orig_chunks[2] = <<fpf>>
       /\ \A d \in 2..L : orig_chunks[d + shift] = <<datum_shape[d]>>
  <2> DEFINE chunks == LayoutOf(fpf, n)
  <2>1. /\ chunks # <<>> /\ Len(chunks) = Len(datum_shape) + shift
        /\ chunks = [d \in 1..Len(chunks) |-> chunks[d]]
        /\ chunks[1] = [i \in 1..n |-> 1]
        /\ fpf > 1 => chunks[2] = <<fpf>>
        /\ \A d \in 2..Len(datum_shape) : chunks[d + shift] = <<datum_shape[d]>>
    <3> HIDE DEF chunks
    <3> QED  BY <1>1, <1>2, <1>3, <1>5, LayoutFacts DEF chunks
  <2> HIDE DEF chunks, shift
  <2>2. orig_chunks = chunks
    BY <1>2 DEF chunks
  <2> QED  BY <1>1, <2>1, <2>2
<1>14. Len(orig_chunks[1]) = n /\ Total(orig_chunks[1]) = n
  BY <1>3, <1>13, TotalOfOnes
<1>15. /\ Len(totals) = L + shift /\ totals[1] = n
       /\ fpf > 1 => totals[2] = fpf
       /\ \A d \in 2..L : totals[d + shift] = datum_shape[d]
  <2>1. shift \in {0, 1} /\ (fpf > 1 => shift = 1)
    OBVIOUS
  <2> HIDE DEF shift
  <2>2. DOMAIN orig_chunks = 1..(L + shift)
    BY <1>13
  <2>3. totals = [d \in 1..(L + shift) |-> Total(orig_chunks[d])]
    BY <2>2
  <2>4. Len(totals) = L + shift /\ \A d \in 1..(L + shift) : totals[d] = Total(orig_chunks[d])
    BY <1>4, <2>1, <2>3
  <2> HIDE DEF totals
  <2>5. totals[1] = n
    <3>1. 1 \in 1..(L + shift)
      BY <1>2, <1>4, <2>1
    <3> QED  BY <1>14, <2>4, <3>1
  <2>6. ASSUME fpf > 1
        PROVE  totals[2] = fpf
    <3>1. 2 \in 1..(L + shift)
      BY <1>2, <1>4, <2>1, <2>6
    <3>2. Total(<<fpf>>) = fpf
      BY <1>5, TotalOfOne
    <3> QED  BY <1>13, <2>4, <2>6, <3>1, <3>2
  <2>7. ASSUME NEW d \in 2..L
        PROVE  totals[d + shift] = datum_shape[d]
    <3>1. d + shift \in 1..(L + shift)
      BY <1>4, <2>1
    <3>2. datum_shape[d] \in Nat
      <4>1. d \in 1..L
        BY <1>4
      <4> QED  BY <1>4, <4>1
    <3>3. Total(<<datum_shape[d]>>) = datum_shape[d]
      BY <3>2, TotalOfOne
    <3> QED  BY <1>13, <2>4, <3>1, <3>3
  <2> QED  BY <2>4, <2>5, <2>6, <2>7
<1> HIDE DEF totals
<1>16. CASE fpf > 1
  <2> DEFINE f == [i \in 0..(L + 1) |-> IF i = 0 THEN 1 ELSE IF i = 1 THEN n ELSE p[i]]
  <2>1. /\ f = [i \in 0..(L + 1) |-> f[i]] /\ f[0] = 1 /\ f[1] = n
        /\ \A i \in 2..(L + 1) : f[i] = p[i]
    BY <1>4
  <2> HIDE DEF f
  <2>2. ASSUME NEW i \in 1..(L + 1)
        PROVE  f[i] = f[i - 1] * totals[i]
    <3>1. CASE i = 1
      BY <1>3, <1>15, <2>1, <3>1
    <3>2. CASE i = 2
      <4>1. f[2] = p[2] /\ totals[2] = fpf /\ 2 - 1 = 1
        BY <1>2, <1>4, <1>15, <1>16, <2>1
      <4> QED  BY <1>7, <1>12, <2>1, <3>2, <4>1
    <3>3. CASE i # 1 /\ i # 2
      <4>1. i \in 2..(L + 1) /\ i - 1 \in 2..(L + 1) /\ i - 1 \in 2..L /\ (i - 1) + 1 = i
        BY <1>4, <3>3
      <4>2. totals[i] = datum_shape[i - 1] /\ Shape[i] = datum_shape[i - 1]
        BY <1>8, <1>15, <1>16, <4>1
      <4> QED  BY <1>10, <2>1, <4>1, <4>2
    <3> QED  BY <3>1, <3>2, <3>3
  <2>3. Products(totals, L + 1, f)
    <3>1. Len(totals) = L + 1
      BY <1>15, <1>16
    <3> QED  BY <2>1, <2>2, <3>1 DEF Products
  <2>4. Elements(totals) = f[L + 1] /\ L + 1 \in 2..(L + 1)
    BY <1>2, <1>4, <2>3, ElementsOf
  <2> QED  BY <1>1, <1>11, <1>14, <2>1, <2>4 DEF totals
<1>17. CASE ~(fpf > 1)
  <2>1. fpf = 1 /\ n = p[2]
    BY <1>3, <1>5, <1>7, <1>12, <1>17
  <2> DEFINE f == [i \in 0..L |-> IF i = 0 THEN 1 ELSE p[i + 1]]
  <2>2. f = [i \in 0..L |-> f[i]] /\ f[0] = 1 /\ \A i \in 1..L : f[i] = p[i + 1]
    BY <1>4
  <2> HIDE DEF f
  <2>3. ASSUME NEW i \in 1..L
        PROVE  f[i] = f[i - 1] * totals[i]
    <3>1. CASE i = 1
      <4>0. 1 \in 1..L /\ 1 + 1 = 2 /\ 1 - 1 = 0
        BY <1>2, <1>4
      <4>1. f[1] = p[2] /\ f[1 - 1] = 1
        BY <2>2, <4>0
      <4> QED  BY <1>3, <1>15, <2>1, <3>1, <4>1
    <3>2. CASE i # 1
      <4>1. i \in 2..L /\ i - 1 \in 1..L /\ i + 1 \in 2..(L + 1) /\ i + 1 \in 1..(L + 1)
        BY <1>4, <3>2
      <4>2. i + 0 = i /\ (i + 1) - 1 = i /\ (i - 1) + 1 = i
        BY <4>1
      <4>3. totals[i] = datum_shape[i] /\ Shape[i + 1] = datum_shape[i]
        BY <1>8, <1>15, <1>17, <4>1, <4>2
      <4> QED  BY <1>10, <2>2, <4>1, <4>2, <4>3
    <3> QED  BY <3>1, <3>2
  <2>4. Products(totals, L, f)
    <3>1. Len(totals) = L
      BY <1>4, <1>15, <1>17
    <3> QED  BY <2>2, <2>3, <3>1 DEF Products
  <2>5. Elements(totals) = f[L] /\ L \in 1..L
    BY <1>2, <1>4, <2>4, ElementsOf
  <2> QED  BY <1>1, <1>11, <1>14, <2>2, <2>5 DEF totals
<1> QED  BY <1>16, <1>17

\* The least and the greatest element.
LEMMA MinIs ==
  ASSUME NEW S \in SUBSET Int, NEW m \in S, \A y \in S : m <= y
  PROVE  Min(S) = m
<1>1. \A x \in S : (\A y \in S : x <= y) => x = m
  OBVIOUS
<1> QED  BY <1>1, Zenon DEF Min

LEMMA MaxIs ==
  ASSUME NEW S \in SUBSET Int, NEW m \in S, \A y \in S : m >= y
  PROVE  Max(S) = m
<1>1. \A x \in S : (\A y \in S : x >= y) => x = m
  OBVIOUS
<1> QED  BY <1>1, Zenon DEF Max

\* An element of a sequence, and those of a part of it.
LEMMA ElementType ==
  ASSUME NEW S, NEW s \in Seq(S), NEW k \in 1..Len(s)
  PROVE  s[k] \in S
  OBVIOUS

LEMMA PartOf ==
  ASSUME NEW S, NEW s \in Seq(S), NEW i \in 1..Len(s), NEW j \in 1..Len(s), i <= j
  PROVE  /\ DOMAIN SubSeq(s, i, j) = 1..(j - i + 1)
         /\ \A k \in 1..(j - i + 1) : SubSeq(s, i, j)[k] = s[i + k - 1]
<1>1. i \in Nat /\ j \in Nat
  OBVIOUS
<1> QED  BY <1>1

\* Patches do not overlap.
LEMMA PatchFacts ==
  ASSUME IInv, NEW k \in 1..Len(patches)
  PROVE  /\ Dims \in Nat \ {0}
         /\ DOMAIN patches[k].offset = 1..Dims
         /\ \A d \in 1..Dims : patches[k].offset[d] \in Nat /\ patches[k].shape[d] \in Nat
         /\ \A d \in 2..Dims : patches[k].offset[d] = 0 /\ patches[k].shape[d] = Extent(d)
         /\ patches[k].offset[1] \in Nat /\ EndOf(patches[k]) \in Nat
         /\ patches[k].offset[1] <= EndOf(patches[k])
         /\ EndOf(patches[k]) = patches[k].offset[1] + patches[k].shape[1]
         /\ EndOf(patches[k]) = IF k = Len(patches) THEN Received1 ELSE patches[k + 1].offset[1]
         /\ \A l \in 1..Len(patches) : k < l => EndOf(patches[k]) <= patches[l].offset[1]
<1>1. TypeOK /\ patches \in Seq([offset : Seq(Nat), shape : Seq(Nat)])
  BY DEF IInv, TypeOK
<1>2. Dims \in Nat \ {0}
  <2>1. 0 \in Nat
    OBVIOUS
  <2> QED  BY <1>1, <2>1, ShapeFacts
<1>3. patches[k] \in [offset : Seq(Nat), shape : Seq(Nat)]
  BY <1>1, ElementType
<1>4. /\ Len(patches[k].offset) = Dims /\ Len(patches[k].shape) = Dims
      /\ \A d \in 2..Dims : patches[k].offset[d] = 0 /\ patches[k].shape[d] = Extent(d)
      /\ EndOf(patches[k]) = IF k = Len(patches) THEN Received1 ELSE patches[k + 1].offset[1]
      /\ \A l \in 1..Len(patches) : k < l => EndOf(patches[k]) <= patches[l].offset[1]
  BY DEF IInv, Patched
<1>5. PICK o, s : o = patches[k].offset /\ s = patches[k].shape
  OBVIOUS
<1>6. o \in Seq(Nat) /\ s \in Seq(Nat) /\ Len(o) = Dims /\ Len(s) = Dims
  BY <1>3, <1>4, <1>5
<1>7. DOMAIN o = 1..Dims /\ \A d \in 1..Dims : o[d] \in Nat /\ s[d] \in Nat
  BY <1>6
<1>8. EndOf(patches[k]) = o[1] + s[1] /\ o[1] \in Nat /\ s[1] \in Nat
  BY <1>2, <1>5, <1>7 DEF EndOf
<1>9. EndOf(patches[k]) \in Nat /\ o[1] <= EndOf(patches[k])
  BY <1>8
<1> QED  BY <1>2, <1>4, <1>5, <1>7, <1>8, <1>9

EndIn(p, d) == p.offset[d] + p.shape[d]

\* The patches from i to j begin where the first of them does, end where the last
\* of them does, and have the other dimensions in common.
LEMMA Combined ==
  ASSUME IInv, NEW i \in DOMAIN patches, NEW j \in DOMAIN patches, i <= j
  PROVE  LET box == combine_patches(SubSeq(patches, i, j))
         IN /\ DOMAIN box.shape = 1..Dims
            /\ box.offset[1] = patches[i].offset[1]
            /\ box.shape[1] = EndOf(patches[j]) - patches[i].offset[1]
            /\ \A d \in 2..Dims : box.offset[d] = 0 /\ box.shape[d] = Extent(d)
<1> DEFINE ps == SubSeq(patches, i, j)
           first == [d \in DOMAIN ps[1].offset |-> Min({ps[k].offset[d] : k \in DOMAIN ps})]
           extent == [d \in DOMAIN first |-> Max({ps[k].offset[d] + ps[k].shape[d] : k \in DOMAIN ps})]
<1> HIDE DEF ps, first, extent
<1>1. /\ patches \in Seq([offset : Seq(Nat), shape : Seq(Nat)]) /\ Len(patches) \in Nat
      /\ i \in 1..Len(patches) /\ j \in 1..Len(patches)
  BY DEF IInv, TypeOK
<1>2. Dims \in Nat \ {0}
  BY <1>1, PatchFacts
<1>3. \A k \in i..j : k \in 1..Len(patches)
  BY <1>1
<1>4. DOMAIN ps = 1..(j - i + 1) /\ \A k \in 1..(j - i + 1) : ps[k] = patches[i + k - 1]
  BY <1>1, PartOf DEF ps
<1>5. ps[1] = patches[i] /\ DOMAIN ps[1].offset = 1..Dims
  <2>1. 1 \in 1..(j - i + 1) /\ i + 1 - 1 = i
    BY <1>1
  <2>2. ps[1] = patches[i]
    BY <1>4, <2>1
  <2> QED  BY <1>1, <2>2, PatchFacts
<1>6. combine_patches(ps) = [offset |-> first, shape |-> [d \in DOMAIN first |-> extent[d] - first[d]]]
  BY DEF combine_patches, first, extent
<1>7. DOMAIN first = 1..Dims /\ \A d \in 1..Dims : first[d] = Min({ps[k].offset[d] : k \in DOMAIN ps})
  BY <1>5 DEF first
<1>8. \A d \in 1..Dims : extent[d] = Max({ps[k].offset[d] + ps[k].shape[d] : k \in DOMAIN ps})
  BY <1>7 DEF extent
<1>9. /\ \A k \in DOMAIN ps : i + k - 1 \in i..j /\ ps[k] = patches[i + k - 1]
      /\ \A k \in i..j : k - i + 1 \in DOMAIN ps /\ ps[k - i + 1] = patches[k]
  <2>1. \A k \in 1..(j - i + 1) : i + k - 1 \in i..j
    BY <1>1
  <2>2. \A k \in i..j : k - i + 1 \in 1..(j - i + 1) /\ i + (k - i + 1) - 1 = k
    BY <1>1
  <2> QED  BY <1>4, <2>1, <2>2
<1>10. ASSUME NEW d \in 1..Dims
       PROVE  /\ {ps[k].offset[d] : k \in DOMAIN ps} = {patches[k].offset[d] : k \in i..j}
              /\ {ps[k].offset[d] + ps[k].shape[d] : k \in DOMAIN ps} = {EndIn(patches[k], d) : k \in i..j}
  <2> DEFINE A == {ps[k].offset[d] : k \in DOMAIN ps}
             B == {patches[k].offset[d] : k \in i..j}
             C == {ps[k].offset[d] + ps[k].shape[d] : k \in DOMAIN ps}
             D == {EndIn(patches[k], d) : k \in i..j}
  <2>1. A \subseteq B /\ C \subseteq D
    <3>1. \A k \in DOMAIN ps : \E l \in i..j : ps[k] = patches[l]
      BY <1>9
    <3> QED  BY <3>1, Zenon DEF EndIn
  <2>2. B \subseteq A /\ D \subseteq C
    <3>1. \A k \in i..j : \E l \in DOMAIN ps : ps[l] = patches[k]
      BY <1>9
    <3> QED  BY <3>1, Zenon DEF EndIn
  <2> QED  BY <2>1, <2>2
<1>11. i \in i..j /\ j \in i..j /\ 1 \in 1..Dims
  BY <1>1, <1>2
<1>12. first[1] = patches[i].offset[1]
  <2> DEFINE S == {patches[k].offset[1] : k \in i..j}
  <2>1. ASSUME NEW k \in i..j
        PROVE  patches[k].offset[1] \in Int /\ patches[i].offset[1] <= patches[k].offset[1]
    <3>1. /\ patches[k].offset[1] \in Nat /\ patches[i].offset[1] \in Nat /\ EndOf(patches[i]) \in Nat
          /\ patches[i].offset[1] <= EndOf(patches[i])
          /\ i < k => EndOf(patches[i]) <= patches[k].offset[1]
      BY <1>1, <1>3, PatchFacts
    <3>2. i = k \/ i < k
      BY <1>1
    <3> QED  BY <3>1, <3>2
  <2>2. S \in SUBSET Int /\ patches[i].offset[1] \in S /\ \A y \in S : patches[i].offset[1] <= y
    BY <1>11, <2>1
  <2> HIDE DEF S
  <2>3. Min(S) = patches[i].offset[1]
    BY <2>2, MinIs
  <2> QED  BY <1>7, <1>10, <1>11, <2>3 DEF S
<1>13. extent[1] = EndOf(patches[j])
  <2> DEFINE S == {EndIn(patches[k], 1) : k \in i..j}
  <2>1. ASSUME NEW k \in i..j
        PROVE  EndIn(patches[k], 1) \in Int /\ EndOf(patches[j]) >= EndIn(patches[k], 1)
    <3>1. /\ EndOf(patches[k]) \in Nat /\ EndOf(patches[j]) \in Nat /\ patches[j].offset[1] \in Nat
          /\ patches[j].offset[1] <= EndOf(patches[j])
          /\ k < j => EndOf(patches[k]) <= patches[j].offset[1]
      BY <1>1, <1>3, PatchFacts
    <3>2. k = j \/ k < j
      BY <1>1
    <3>3. EndIn(patches[k], 1) = EndOf(patches[k])
      BY DEF EndIn, EndOf
    <3> QED  BY <3>1, <3>2, <3>3
  <2>2. S \in SUBSET Int /\ EndOf(patches[j]) \in S /\ \A y \in S : EndOf(patches[j]) >= y
    <3>1. EndIn(patches[j], 1) = EndOf(patches[j])
      BY DEF EndIn, EndOf
    <3> QED  BY <1>11, <2>1, <3>1
  <2> HIDE DEF S
  <2>3. Max(S) = EndOf(patches[j])
    BY <2>2, MaxIs
  <2> QED  BY <1>8, <1>10, <1>11, <2>3 DEF S
<1>14. ASSUME NEW d \in 2..Dims
       PROVE  first[d] = 0 /\ extent[d] = Extent(d) /\ Extent(d) \in Nat
  <2> DEFINE S == {patches[k].offset[d] : k \in i..j}
             T == {EndIn(patches[k], d) : k \in i..j}
  <2>1. d \in 1..Dims
    BY <1>2
  <2>2. ASSUME NEW k \in i..j
        PROVE  patches[k].offset[d] = 0 /\ EndIn(patches[k], d) = Extent(d) /\ Extent(d) \in Nat
    <3>1. patches[k].offset[d] = 0 /\ patches[k].shape[d] = Extent(d) /\ Extent(d) \in Nat
      <4>1. k \in 1..Len(patches)
        BY <1>3
      <4>2. patches[k].offset[d] = 0 /\ patches[k].shape[d] = Extent(d) /\ patches[k].shape[d] \in Nat
        BY <2>1, <4>1, PatchFacts
      <4> QED  BY <4>2
    <3> QED  BY <3>1 DEF EndIn
  <2>3. S \in SUBSET Int /\ 0 \in S /\ \A y \in S : 0 <= y
    BY <1>11, <2>2
  <2>4. T \in SUBSET Int /\ Extent(d) \in T /\ \A y \in T : Extent(d) >= y
    BY <1>11, <2>2
  <2> HIDE DEF S, T
  <2>5. Min(S) = 0 /\ Max(T) = Extent(d)
    BY <2>3, <2>4, MinIs, MaxIs
  <2>6. first[d] = Min(S) /\ extent[d] = Max(T)
    BY <1>7, <1>8, <1>10, <2>1 DEF S, T
  <2> QED  BY <1>11, <2>2, <2>5, <2>6
<1> DEFINE box == combine_patches(ps)
<1>16. box.offset = first /\ box.shape = [d \in 1..Dims |-> extent[d] - first[d]]
  BY <1>6, <1>7
<1> HIDE DEF box
<1>17. 1 \in 1..Dims /\ \A d \in 2..Dims : d \in 1..Dims
  BY <1>2
<1>18. DOMAIN box.shape = 1..Dims /\ \A d \in 1..Dims : box.shape[d] = extent[d] - first[d]
  BY <1>16
<1>19. \A d \in 2..Dims : box.offset[d] = 0 /\ box.shape[d] = Extent(d)
  BY <1>14, <1>16, <1>17, <1>18
<1> QED  BY <1>12, <1>13, <1>16, <1>17, <1>18, <1>19 DEF box, ps

\* The patches from i to j are adjacent: every row of their box is in one of them.
LEMMA PatchesFit == IInv => PatchesCombine
<1> DEFINE Rows(p) == p.offset[1]..(p.offset[1] + p.shape[1] - 1)
           boxOf(i, j) == combine_patches(SubSeq(patches, i, j))
<1> SUFFICES ASSUME IInv, NEW i \in DOMAIN patches, NEW j \in DOMAIN patches, i <= j
             PROVE  /\ Rows(boxOf(i, j)) = UNION {Rows(patches[k]) : k \in i..j}
                    /\ j = Len(patches) =>
                         boxOf(i, j).offset[1] + boxOf(i, j).shape[1] = IF kind = "bytes" THEN index ELSE Shape[1]
                    /\ \A d \in DOMAIN boxOf(i, j).shape \ {1} :
                         boxOf(i, j).offset[d] = 0 /\ boxOf(i, j).shape[d] = Shape[d]
  BY Zenon DEF PatchesCombine
<1> DEFINE box == boxOf(i, j)
<1>1. /\ DOMAIN box.shape = 1..Dims
      /\ box.offset[1] = patches[i].offset[1]
      /\ box.shape[1] = EndOf(patches[j]) - patches[i].offset[1]
      /\ \A d \in 2..Dims : box.offset[d] = 0 /\ box.shape[d] = Extent(d)
  BY Combined
<1> HIDE DEF boxOf, Rows
<1>2. TypeOK /\ patches \in Seq([offset : Seq(Nat), shape : Seq(Nat)]) /\ Len(patches) \in Nat
      /\ i \in 1..Len(patches) /\ j \in 1..Len(patches) /\ num_rows \in Nat
  BY DEF IInv, TypeOK
<1>3. /\ Dims \in Nat \ {0} /\ Shape[1] = num_rows * Unit
      /\ \A d \in 2..Dims : Shape[d] = Extent(d)
  BY <1>2, ShapeFacts DEF Shape
<1>4. ASSUME NEW k \in i..j
      PROVE  /\ patches[k].offset[1] \in Nat /\ EndOf(patches[k]) \in Nat
             /\ patches[k].offset[1] <= EndOf(patches[k])
             /\ Rows(patches[k]) = patches[k].offset[1]..(EndOf(patches[k]) - 1)
             /\ k # j => EndOf(patches[k]) = patches[k + 1].offset[1]
             /\ \A l \in i..j : k < l => EndOf(patches[k]) <= patches[l].offset[1]
  <2>1. k \in 1..Len(patches) /\ (k # j => k # Len(patches)) /\ \A l \in i..j : l \in 1..Len(patches)
    BY <1>2
  <2>2. /\ patches[k].offset[1] \in Nat /\ EndOf(patches[k]) \in Nat
        /\ patches[k].offset[1] <= EndOf(patches[k])
        /\ EndOf(patches[k]) = patches[k].offset[1] + patches[k].shape[1]
        /\ EndOf(patches[k]) = IF k = Len(patches) THEN Received1 ELSE patches[k + 1].offset[1]
        /\ \A l \in 1..Len(patches) : k < l => EndOf(patches[k]) <= patches[l].offset[1]
    BY <2>1, PatchFacts
  <2>3. Rows(patches[k]) = patches[k].offset[1]..(EndOf(patches[k]) - 1)
    <3>0. patches[k].shape[1] \in Nat
      <4>1. 1 \in 1..Dims
        BY <1>3
      <4> QED  BY <2>1, <4>1, PatchFacts
    <3>1. patches[k].offset[1] + patches[k].shape[1] - 1 = EndOf(patches[k]) - 1
      <4>1. PICK b, e, s : b = patches[k].offset[1] /\ e = EndOf(patches[k]) /\ s = patches[k].shape[1]
        OBVIOUS
      <4>2. e = b + s /\ b \in Nat /\ s \in Nat
        BY <2>2, <3>0, <4>1
      <4>3. b + s - 1 = e - 1
        BY <4>2
      <4> QED  BY <4>1, <4>3
    <3> QED  BY <3>1, Zenon DEF Rows
  <2> QED  BY <2>1, <2>2, <2>3
<1>5. i \in i..j /\ j \in i..j
  BY <1>2
<1>6. Rows(box) = patches[i].offset[1]..(EndOf(patches[j]) - 1)
  <2>1. PICK b, e : b = patches[i].offset[1] /\ e = EndOf(patches[j])
    OBVIOUS
  <2>2. b \in Nat /\ e \in Nat /\ box.offset[1] = b /\ box.shape[1] = e - b
    BY <1>1, <1>4, <1>5, <2>1
  <2>3. b + (e - b) - 1 = e - 1
    BY <2>2
  <2> HIDE DEF box
  <2> QED  BY <2>1, <2>2, <2>3 DEF Rows
<1>7. ASSUME NEW k \in i..j, NEW r \in Rows(patches[k])
      PROVE  r \in patches[i].offset[1]..(EndOf(patches[j]) - 1)
  <2>0. r \in patches[k].offset[1]..(EndOf(patches[k]) - 1)
    BY <1>4, <1>7, Zenon
  <2>1. r \in Int /\ patches[k].offset[1] <= r /\ r <= EndOf(patches[k]) - 1
    BY <1>4, <2>0
  <2>2. patches[i].offset[1] <= patches[k].offset[1]
    <3>1. CASE k = i
      BY <1>4, <1>5, <3>1
    <3>2. CASE k # i
      <4>1. i < k
        BY <1>2, <3>2
      <4>2. EndOf(patches[i]) <= patches[k].offset[1] /\ patches[i].offset[1] <= EndOf(patches[i])
        BY <1>4, <1>5, <4>1
      <4> QED  BY <1>4, <1>5, <4>2
    <3> QED  BY <3>1, <3>2
  <2>3. EndOf(patches[k]) <= EndOf(patches[j])
    <3>1. CASE k = j
      BY <1>4, <1>5, <3>1
    <3>2. CASE k # j
      <4>1. k < j
        BY <1>2, <3>2
      <4>2. EndOf(patches[k]) <= patches[j].offset[1] /\ patches[j].offset[1] <= EndOf(patches[j])
        BY <1>4, <1>5, <4>1
      <4> QED  BY <1>4, <1>5, <4>2
    <3> QED  BY <3>1, <3>2
  <2> QED  BY <1>4, <1>5, <2>1, <2>2, <2>3
<1>8. ASSUME NEW r \in patches[i].offset[1]..(EndOf(patches[j]) - 1)
      PROVE  \E k \in i..j : r \in Rows(patches[k])
  <2> DEFINE S == {k \in i..j : r < EndOf(patches[k])}
  <2>1. r \in Int /\ patches[i].offset[1] <= r /\ r < EndOf(patches[j])
    BY <1>4, <1>5
  <2>2. S \in SUBSET Nat /\ j \in S
    BY <1>2, <1>5, <2>1
  <2>3. \A k \in S : k \in i..j /\ r < EndOf(patches[k])
    OBVIOUS
  <2>4. \A k \in i..j : ~(k \in S) => ~(r < EndOf(patches[k]))
    OBVIOUS
  <2> HIDE DEF S
  <2>5. PICK k \in S : \A y \in S : k <= y
    BY <2>2, LeastIndex
  <2>6. patches[k].offset[1] <= r
    <3>1. CASE k = i
      BY <2>1, <3>1
    <3>2. CASE k # i
      <4>1. k - 1 \in i..j /\ k - 1 # j /\ (k - 1) + 1 = k /\ ~(k <= k - 1)
        BY <1>2, <2>3, <3>2
      <4>2. ~(r < EndOf(patches[k - 1]))
        BY <2>4, <2>5, <4>1
      <4>3. EndOf(patches[k - 1]) = patches[k].offset[1] /\ EndOf(patches[k - 1]) \in Nat
        BY <1>4, <4>1
      <4> QED  BY <2>1, <4>2, <4>3
    <3> QED  BY <3>1, <3>2
  <2>7. r \in patches[k].offset[1]..(EndOf(patches[k]) - 1)
    BY <1>4, <2>1, <2>3, <2>6
  <2>8. r \in Rows(patches[k])
    BY <1>4, <2>3, <2>7, Zenon
  <2> QED  BY <2>3, <2>8
<1> HIDE DEF box
<1>9. Rows(box) = UNION {Rows(patches[k]) : k \in i..j}
  <2>1. Rows(box) \subseteq UNION {Rows(patches[k]) : k \in i..j}
    BY <1>6, <1>8
  <2>2. UNION {Rows(patches[k]) : k \in i..j} \subseteq Rows(box)
    BY <1>6, <1>7
  <2> QED  BY <2>1, <2>2
<1>10. ASSUME j = Len(patches)
       PROVE  box.offset[1] + box.shape[1] = IF kind = "bytes" THEN index ELSE Shape[1]
  <2>1. EndOf(patches[j]) = Received1
    BY <1>2, <1>10 DEF IInv, Patched
  <2>2. box.offset[1] + box.shape[1] = EndOf(patches[j])
    BY <1>1, <1>4, <1>5 DEF box
  <2> QED  BY <1>3, <2>1, <2>2 DEF Received1
<1>11. \A d \in DOMAIN box.shape \ {1} : box.offset[d] = 0 /\ box.shape[d] = Shape[d]
  <2>1. \A d \in DOMAIN box.shape \ {1} : d \in 2..Dims
    BY <1>1, <1>3 DEF box
  <2> QED  BY <1>1, <1>3, <2>1 DEF box
<1> QED  BY <1>9, <1>10, <1>11 DEF box, Rows

-----------------------------------------------------------------------------
(***************************************************************************)
(* The invariant holds initially and is kept by every step                 *)
(***************************************************************************)
\* A new consolidator satisfies the invariant.
LEMMA InitIInv == Init => IInv
<1> SUFFICES ASSUME Init
             PROVE  IInv
  OBVIOUS
<1>1. /\ kind \in {"single", "multipart", "bytes"} /\ join_method \in {"stack", "concat"} /\ join_chunks \in BOOLEAN
      /\ sres \in Parameters /\ num_rows = 0 /\ indx_offset = 0 /\ orig_chunks = <<>>
      /\ resources = 1 /\ index = 0 /\ patches = <<>> /\ layouts = {files_per_datum}
      /\ assets = IF kind = "single" THEN <<[sres |-> 1, file |-> 0]>> ELSE <<>>
      /\ kind = "bytes" => datum_shape = <<>> /\ chunk_shape = <<>> /\ join_method = "stack"
  BY DEF Init
<1>2. datum_shape \in Sizes
  <2>1. PICK shape0 \in Shapes : datum_shape = DatumShape(shape0, join_method, sres.multiplier)
    BY DEF Init
  <2>2. shape0 \in Sizes /\ sres.multiplier \in Nat
    BY <1>1, ShapesAssumption, ParametersAssumption DEF Parameters
  <2> QED  BY <2>1, <2>2, DatumShapeType
<1>3. PICK chunk \in ChunkShapes :
        IF kind = "multipart"
        THEN /\ join_method = "concat" => datum_shape # <<>>
             /\ chunk_shape = Coerced(datum_shape, chunk, join_method)
             /\ files_per_datum = FilesOfDatum(datum_shape, chunk_shape, join_method, sres)
        ELSE /\ sres.files_per_datum = 0 /\ files_per_datum = 1
             /\ chunk_shape = chunk
             /\ datum_shape = <<>> => (join_method = "stack" \/ join_chunks \/ chunk = <<>>)
  BY DEF Init
<1>4. chunk \in Sizes
  BY ShapesAssumption
<1>5. chunk_shape \in Sizes /\ files_per_datum \in Nat \ {0} /\ Constructed
  <2>1. CASE kind = "multipart"
    <3>1. /\ join_method = "concat" => datum_shape # <<>>
          /\ chunk_shape = Coerced(datum_shape, chunk, join_method)
          /\ files_per_datum = FilesOfDatum(datum_shape, chunk_shape, join_method, sres)
      BY <1>3, <2>1
    <3>2. /\ chunk_shape \in Sizes /\ chunk_shape # <<>>
          /\ join_method = "concat" => datum_shape[1] % chunk_shape[1] = 0
      BY <1>2, <1>4, <3>1, CoercedFacts
    <3>3. files_per_datum \in Nat \ {0}
      BY <1>1, <1>2, <3>1, <3>2, FilesOfDatumFacts
    <3> QED  BY <1>1, <2>1, <3>1, <3>2, <3>3 DEF Constructed, Joined
  <2>2. CASE kind # "multipart"
    <3>1. /\ files_per_datum = 1 /\ chunk_shape = chunk
          /\ datum_shape = <<>> => (join_method = "stack" \/ join_chunks \/ chunk = <<>>)
      BY <1>3, <2>2
    <3> QED  BY <1>1, <1>4, <2>2, <3>1 DEF Constructed, Joined
  <2> QED  BY <2>1, <2>2
<1>6. assets \in Seq([sres : Nat, file : Int]) /\ Len(assets) = IF kind = "single" THEN 1 ELSE 0
  <2>1. CASE kind = "single"
    <3>1. [sres |-> 1, file |-> 0] \in [sres : Nat, file : Int]
      OBVIOUS
    <3>2. assets = <<[sres |-> 1, file |-> 0]>>
      BY <1>1, <2>1
    <3> QED  BY <2>1, <3>1, <3>2
  <2>2. CASE kind # "single"
    BY <1>1, <2>2
  <2> QED  BY <2>1, <2>2
<1>7. TypeOK
  <2>1. patches \in Seq([offset : Seq(Nat), shape : Seq(Nat)])
    BY <1>1
  <2> QED  BY <1>1, <1>2, <1>5, <1>6, <2>1 DEF TypeOK
<1>8. Counted
  <2>1. 0 * files_per_datum = 0
    BY <1>5
  <2> QED  BY <1>1, <1>6, <2>1 DEF Counted
<1>9. Restarting
  <2>1. ASSUME NEW i \in 1..Len(assets)
        PROVE  kind = "single" /\ i = 1 /\ assets[i].sres = 1 /\ assets[i].file = 0 /\ 1..(i - 1) = {}
    <3>1. kind = "single" /\ i = 1
      BY <1>6
    <3>2. assets = <<[sres |-> 1, file |-> 0]>>
      BY <1>1, <3>1
    <3> QED  BY <3>1, <3>2
  <2>2. \A i \in 1..Len(assets) : assets[i].file \in 0..(i - 1)
    BY <2>1
  <2> QED  BY <1>1, <1>6, <2>1, <2>2 DEF Restarting
<1>10. Laid
  BY <1>1 DEF Laid
<1>11. Patched
  <2>1. 1..Len(patches) = {}
    BY <1>1
  <2> QED  BY <2>1 DEF Patched
<1> QED  BY <1>5, <1>7, <1>8, <1>9, <1>10, <1>11 DEF IInv

\* A patch that begins where the last one ends keeps the patches adjacent.
LEMMA PatchAppended ==
  ASSUME IInv, NEW o \in Seq(Nat), NEW s \in Seq(Nat), UNCHANGED fixed,
         patches' = Append(patches, [offset |-> o, shape |-> s]),
         Len(o) = Dims, Len(s) = Dims, \A d \in 2..Dims : o[d] = 0 /\ s[d] = Extent(d),
         o[1] = Received1, o[1] + s[1] = Received1'
  PROVE  Patched' /\ patches' \in Seq([offset : Seq(Nat), shape : Seq(Nat)])
<1> DEFINE p == [offset |-> o, shape |-> s]
           N == Len(patches)
<1>1. /\ patches \in Seq([offset : Seq(Nat), shape : Seq(Nat)]) /\ N \in Nat
      /\ p \in [offset : Seq(Nat), shape : Seq(Nat)]
      /\ p.offset = o /\ p.shape = s /\ EndOf(p) = o[1] + s[1]
  BY DEF IInv, TypeOK, EndOf
<1>2. /\ patches' \in Seq([offset : Seq(Nat), shape : Seq(Nat)])
      /\ Len(patches') = N + 1 /\ patches'[N + 1] = p
      /\ \A k \in 1..N : patches'[k] = patches[k]
  BY <1>1, AppendProperties
<1>3. Dims' = Dims /\ \A d : Extent(d)' = Extent(d)
  BY DEF fixed, Dims, Extent, Stacked
<1> HIDE DEF p, N
<1>4. ASSUME NEW k \in 1..N
      PROVE  /\ Len(patches[k].offset) = Dims /\ Len(patches[k].shape) = Dims
             /\ \A d \in 2..Dims : patches[k].offset[d] = 0 /\ patches[k].shape[d] = Extent(d)
             /\ EndOf(patches[k]) = IF k = N THEN Received1 ELSE patches[k + 1].offset[1]
             /\ \A l \in 1..N : k < l => EndOf(patches[k]) <= patches[l].offset[1]
             /\ EndOf(patches[k]) <= Received1
  <2>1. /\ Len(patches[k].offset) = Dims /\ Len(patches[k].shape) = Dims
        /\ \A d \in 2..Dims : patches[k].offset[d] = 0 /\ patches[k].shape[d] = Extent(d)
        /\ EndOf(patches[k]) = IF k = N THEN Received1 ELSE patches[k + 1].offset[1]
        /\ \A l \in 1..N : k < l => EndOf(patches[k]) <= patches[l].offset[1]
    BY DEF IInv, Patched, N
  <2>2. N \in 1..N /\ (k = N \/ k < N)
    BY <1>1
  <2>3. /\ EndOf(patches[k]) \in Nat /\ EndOf(patches[N]) \in Nat /\ patches[N].offset[1] \in Nat
        /\ patches[N].offset[1] <= EndOf(patches[N]) /\ EndOf(patches[N]) = Received1
    BY <2>2, PatchFacts DEF N
  <2>4. EndOf(patches[k]) <= Received1
    BY <2>1, <2>2, <2>3
  <2> QED  BY <2>1, <2>4
<1>5. ASSUME NEW k \in 1..(N + 1)
      PROVE  /\ Len(patches'[k].offset) = Dims /\ Len(patches'[k].shape) = Dims
             /\ \A d \in 2..Dims : patches'[k].offset[d] = 0 /\ patches'[k].shape[d] = Extent(d)
             /\ EndOf(patches'[k]) = IF k = N + 1 THEN Received1' ELSE patches'[k + 1].offset[1]
             /\ \A l \in 1..(N + 1) : k < l => EndOf(patches'[k]) <= patches'[l].offset[1]
  <2>1. CASE k = N + 1
    <3>1. \A l \in 1..(N + 1) : ~(k < l)
      BY <1>1, <2>1
    <3> QED  BY <1>1, <1>2, <2>1, <3>1
  <2>2. CASE k # N + 1
    <3>1. k \in 1..N /\ k + 1 \in 1..(N + 1) /\ (k = N <=> k + 1 = N + 1) /\ (k # N => k + 1 \in 1..N)
      BY <1>1, <2>2
    <3>2. patches'[k] = patches[k]
      BY <1>2, <3>1
    <3>3. EndOf(patches'[k]) = patches'[k + 1].offset[1]
      <4>1. EndOf(patches'[k]) = EndOf(patches[k])
        BY <3>2
      <4>2. CASE k = N
        <5>1. EndOf(patches[k]) = Received1
          BY <1>4, <3>1, <4>2
        <5>2. patches'[k + 1] = p
          BY <1>2, <4>2
        <5> QED  BY <1>1, <4>1, <5>1, <5>2
      <4>3. CASE k # N
        <5>1. EndOf(patches[k]) = patches[k + 1].offset[1]
          BY <1>4, <3>1, <4>3
        <5>2. patches'[k + 1] = patches[k + 1]
          BY <1>2, <3>1, <4>3
        <5> QED  BY <4>1, <5>1, <5>2
      <4> QED  BY <4>2, <4>3
    <3>4. ASSUME NEW l \in 1..(N + 1), k < l
          PROVE  EndOf(patches'[k]) <= patches'[l].offset[1]
      <4>1. CASE l = N + 1
        BY <1>1, <1>2, <1>4, <3>1, <3>2, <4>1
      <4>2. CASE l # N + 1
        <5>1. l \in 1..N
          BY <1>1, <4>2
        <5> QED  BY <1>2, <1>4, <3>1, <3>2, <3>4, <5>1
      <4> QED  BY <4>1, <4>2
    <3> QED  BY <1>4, <2>2, <3>1, <3>2, <3>3, <3>4
  <2> QED  BY <2>1, <2>2
<1> DEFINE Good(ps, last) ==
      \A k \in 1..Len(ps) :
        /\ Len(ps[k].offset) = Dims /\ Len(ps[k].shape) = Dims
        /\ \A d \in 2..Dims : ps[k].offset[d] = 0 /\ ps[k].shape[d] = Extent(d)
        /\ EndOf(ps[k]) = IF k = Len(ps) THEN last ELSE ps[k + 1].offset[1]
        /\ \A l \in 1..Len(ps) : k < l => EndOf(ps[k]) <= ps[l].offset[1]
<1>6. Good(patches', Received1')
  BY <1>2, <1>5
<1>7. Patched'
  BY <1>3, <1>6, Zenon DEF Patched, EndOf
<1> QED  BY <1>2, <1>7

\* Files of the last StreamResource, numbered after those it has.
LEMMA FilesAdded ==
  ASSUME IInv, kind # "single", NEW first \in Nat, NEW last \in Nat, first <= last,
         layouts = {files_per_datum} => Len(assets) = first,
         assets' = assets \o Files(first, last),
         UNCHANGED <<fixed, files_per_datum, indx_offset, resources, layouts>>
  PROVE  /\ assets' \in Seq([sres : Nat, file : Int])
         /\ Len(assets') = Len(assets) + (last - first)
         /\ Restarting'
<1> DEFINE S == [sres : Nat, file : Int]
           new == Files(first, last)
           N == Len(assets)
           m == last - first
<1>1. /\ assets \in Seq(S) /\ N \in Nat /\ resources \in Nat /\ indx_offset \in Nat /\ m \in Nat
      /\ indx_offset <= N
  BY DEF IInv, TypeOK, Restarting
<1>2. /\ new \in Seq(S) /\ Len(new) = m
      /\ \A i \in 1..m : new[i].sres = resources /\ new[i].file = first + i - 1 - indx_offset
  <2> DEFINE file(i) == [sres |-> resources, file |-> first + i - 1 - indx_offset]
  <2>1. \A i \in 1..m : file(i) \in S /\ file(i).sres = resources /\ file(i).file = first + i - 1 - indx_offset
    BY <1>1
  <2>2. new = [i \in 1..m |-> file(i)]
    BY DEF Files
  <2> HIDE DEF S, new, m, file
  <2>3. new \in Seq(S) /\ Len(new) = m /\ \A i \in 1..m : new[i] = file(i)
    BY <1>1, <2>1, <2>2
  <2> QED  BY <2>1, <2>3
<1> HIDE DEF S, new
<1>3. /\ assets' \in Seq(S) /\ Len(assets') = N + m
      /\ \A i \in 1..(N + m) : assets'[i] = IF i <= N THEN assets[i] ELSE new[i - N]
  BY <1>1, <1>2, ConcatProperties DEF new
<1>4. /\ kind' = kind /\ kind' # "single" /\ indx_offset' = indx_offset /\ resources' = resources
      /\ layouts' = layouts /\ files_per_datum' = files_per_datum
  BY DEF fixed
<1> HIDE DEF N, m
<1>5. ASSUME NEW i \in 1..(N + m)
      PROVE  assets'[i].sres <= resources /\ (assets'[i].sres = resources <=> i > indx_offset)
  <2>1. CASE i <= N
    <3>1. i \in 1..N
      BY <1>1, <2>1
    <3>2. assets[i].sres <= resources /\ (assets[i].sres = resources <=> i > indx_offset)
      BY <3>1 DEF IInv, Restarting, N
    <3> QED  BY <1>3, <2>1, <3>2
  <2>2. CASE ~(i <= N)
    <3>1. i - N \in 1..m /\ i > indx_offset
      BY <1>1, <2>2
    <3>2. assets'[i].sres = resources
      BY <1>2, <1>3, <2>2, <3>1
    <3> QED  BY <1>1, <3>1, <3>2
  <2> QED  BY <2>1, <2>2
<1>6. ASSUME layouts = {files_per_datum}, NEW i \in 1..(N + m)
      PROVE  /\ assets'[i].file \in 0..(i - 1)
             /\ \A j \in 1..(i - 1) : assets'[j].sres = assets'[i].sres <=> j >= i - assets'[i].file
  <2>1. CASE i <= N
    <3>1. i \in 1..N /\ \A j \in 1..(i - 1) : j \in 1..(N + m) /\ j <= N
      BY <1>1, <2>1
    <3>2. /\ assets[i].file \in 0..(i - 1)
          /\ \A j \in 1..(i - 1) : assets[j].sres = assets[i].sres <=> j >= i - assets[i].file
      BY <1>6, <3>1 DEF IInv, Restarting, N
    <3>3. assets'[i] = assets[i] /\ \A j \in 1..(i - 1) : assets'[j] = assets[j]
      BY <1>3, <2>1, <3>1
    <3> QED  BY <3>2, <3>3
  <2>2. CASE ~(i <= N)
    <3>1. i - N \in 1..m /\ first = N /\ \A j \in 1..(i - 1) : j \in 1..(N + m)
      BY <1>1, <1>6, <2>2 DEF N
    <3>2. assets'[i].sres = resources /\ assets'[i].file = first + (i - N) - 1 - indx_offset
      BY <1>2, <1>3, <2>2, <3>1
    <3>3. assets'[i].file = i - 1 - indx_offset
      <4>1. PICK x : x = assets'[i].file
        OBVIOUS
      <4>2. x = N + (i - N) - 1 - indx_offset
        BY <3>1, <3>2, <4>1
      <4>3. x = i - 1 - indx_offset
        BY <1>1, <4>2
      <4> QED  BY <4>1, <4>3
    <3>4. assets'[i].file \in 0..(i - 1)
      BY <1>1, <2>2, <3>3
    <3>5. ASSUME NEW j \in 1..(i - 1)
          PROVE  assets'[j].sres = assets'[i].sres <=> j >= i - assets'[i].file
      <4>1. assets'[j].sres = resources <=> j > indx_offset
        BY <1>5, <3>1
      <4>2. i - assets'[i].file = indx_offset + 1
        BY <1>1, <3>3
      <4>3. j > indx_offset <=> j >= indx_offset + 1
        BY <1>1
      <4>4. assets'[i].sres = resources
        BY <3>2
      <4> QED  BY <4>1, <4>2, <4>3, <4>4, Zenon
    <3> QED  BY <3>4, <3>5
  <2> QED  BY <2>1, <2>2
<1>7. Restarting'
  <2>1. indx_offset' <= Len(assets')
    BY <1>1, <1>3, <1>4
  <2>2. \A i \in 1..Len(assets') :
          /\ assets'[i].sres <= resources'
          /\ kind' = "single" => assets'[i].sres = i
          /\ kind' # "single" => (assets'[i].sres = resources' <=> i > indx_offset')
    BY <1>3, <1>4, <1>5
  <2>3. layouts' = {files_per_datum'} =>
          \A i \in 1..Len(assets') :
            /\ assets'[i].file \in 0..(i - 1)
            /\ \A j \in 1..(i - 1) : assets'[j].sres = assets'[i].sres <=> j >= i - assets'[i].file
    BY <1>3, <1>4, <1>6
  <2> QED  BY <2>1, <2>2, <2>3, Zenon DEF Restarting
<1> QED  BY <1>1, <1>3, <1>7 DEF S, N, m

\* The patch for new rows is as wide as the array and begins where it ends.
LEMMA NewRowsFacts ==
  ASSUME IInv, kind # "bytes", NEW n \in Nat
  PROVE  /\ NewRows(n).offset \in Seq(Nat) /\ NewRows(n).shape \in Seq(Nat)
         /\ Len(NewRows(n).offset) = Dims /\ Len(NewRows(n).shape) = Dims
         /\ \A d \in 2..Dims : NewRows(n).offset[d] = 0 /\ NewRows(n).shape[d] = Extent(d)
         /\ NewRows(n).offset[1] = Received1
         /\ NewRows(n).offset[1] + NewRows(n).shape[1] = (num_rows + n) * Unit
<1>1. TypeOK /\ num_rows \in Nat /\ num_rows + n \in Nat
  BY DEF IInv, TypeOK
<1>2. /\ Dims \in Nat \ {0} /\ Unit \in Nat \ {0}
      /\ Len(Shape) = Dims /\ Shape \in Seq(Nat)
      /\ Shape[1] = num_rows * Unit
      /\ \A d \in 2..Dims : Shape[d] = Extent(d)
      /\ ShapeOf(num_rows + n)[1] = (num_rows + n) * Unit
  BY <1>1, ShapeFacts DEF Shape
<1> DEFINE o == [d \in 1..Dims |-> IF d = 1 THEN Shape[1] ELSE 0]
           s == [d \in 1..Dims |-> IF d = 1 THEN ShapeOf(num_rows + n)[1] - Shape[1] ELSE Shape[d]]
<1>3. DOMAIN Shape = 1..Dims /\ \A d \in 1..Dims : Shape[d] \in Nat
  BY <1>2
<1>4. NewRows(n).offset = o /\ NewRows(n).shape = s
  BY <1>3, Zenon DEF NewRows
<1>5. PICK u, e, f : u = Unit /\ e = Shape[1] /\ f = ShapeOf(num_rows + n)[1]
  OBVIOUS
<1>6. u \in Nat /\ e = num_rows * u /\ f = (num_rows + n) * u
  BY <1>2, <1>5
<1>7. f = e + n * u /\ n * u \in Nat /\ e \in Nat
  BY <1>1, <1>6
<1>8. f - e \in Nat /\ e + (f - e) = f
  BY <1>7
<1>9. o \in Seq(Nat) /\ Len(o) = Dims
  BY <1>2, <1>5, <1>7
<1>10. s \in Seq(Nat) /\ Len(s) = Dims
  BY <1>2, <1>3, <1>5, <1>8
<1>11. 1 \in 1..Dims /\ \A d \in 2..Dims : d \in 1..Dims /\ d # 1
  BY <1>2
<1>12. o[1] = e /\ s[1] = f - e /\ \A d \in 2..Dims : o[d] = 0 /\ s[d] = Extent(d)
  BY <1>2, <1>5, <1>11
<1> HIDE DEF o, s
<1>13. Received1 = e
  BY <1>5, <1>6 DEF Received1
<1> QED  BY <1>4, <1>5, <1>6, <1>8, <1>9, <1>10, <1>12, <1>13

\* What all StreamDatums leave alone.
LEMMA ReceivedFacts ==
  ASSUME IInv, NEW n \in 1..MaxRows, Received(n)
  PROVE  /\ n \in Nat /\ index' = index + n /\ index' \in Nat /\ Constructed'
         /\ UNCHANGED <<fixed, sres, files_per_datum, indx_offset, resources, layouts>>
         /\ Dims' = Dims /\ Unit' = Unit /\ kind' = kind
<1>1. n \in Nat /\ index \in Nat
  BY BoundsAssumption DEF IInv, TypeOK
<1>2. index' = index + n /\ UNCHANGED <<fixed, sres, files_per_datum, indx_offset, resources, layouts>>
  BY DEF Received
<1>3. UNCHANGED <<kind, join_method, join_chunks, datum_shape, chunk_shape, sres, files_per_datum>>
  BY <1>2 DEF fixed
<1>4. Constructed'
  <2>1. Constructed
    BY DEF IInv
  <2> QED  BY <1>3, <2>1 DEF Constructed, Joined
<1>5. Dims' = Dims /\ Unit' = Unit
  BY <1>3 DEF Dims, Unit, Stacked
<1> QED  BY <1>1, <1>2, <1>3, <1>4, <1>5

\* What all StreamResources leave alone.
LEMMA AddedFacts ==
  ASSUME IInv, Added, files_per_datum' \in Nat \ {0}
  PROVE  /\ resources' = resources + 1 /\ files_per_datum' \in layouts'
         /\ layouts' = {files_per_datum'} => layouts = {files_per_datum} /\ files_per_datum' = files_per_datum
         /\ UNCHANGED <<kind, join_method, join_chunks, datum_shape, chunk_shape, num_rows, orig_chunks, index, patches>>
         /\ Patched'
<1>1. /\ resources' = resources + 1 /\ layouts' = layouts \cup {files_per_datum'}
      /\ UNCHANGED <<kind, join_method, join_chunks, datum_shape, chunk_shape, num_rows, orig_chunks, index, patches>>
  BY DEF Added, fixed
<1>2. files_per_datum \in layouts
  BY DEF IInv, Counted
<1>3. layouts' = {files_per_datum'} => layouts = {files_per_datum} /\ files_per_datum' = files_per_datum
  BY <1>1, <1>2
<1>4. Patched'
  <2>1. Patched
    BY DEF IInv
  <2>2. Dims' = Dims /\ Received1' = Received1 /\ \A d : Extent(d)' = Extent(d)
    BY <1>1 DEF Dims, Received1, Extent, Unit, Stacked
  <2> QED  BY <1>1, <2>1, <2>2, Zenon DEF Patched, EndOf
<1> QED  BY <1>1, <1>3, <1>4

\* A StreamDatum for one file adds rows.
LEMMA ConsumeSingleIInv ==
  ASSUME IInv, NEW n \in 1..MaxRows, ConsumeSingle(n)
  PROVE  IInv'
<1>1. /\ n \in Nat /\ index' = index + n /\ index' \in Nat /\ Constructed'
      /\ UNCHANGED <<fixed, sres, files_per_datum, indx_offset, resources, layouts>>
      /\ Dims' = Dims /\ Unit' = Unit /\ kind' = kind
  BY ReceivedFacts DEF ConsumeSingle
<1>2. /\ kind = "single" /\ num_rows' = num_rows + n /\ patches' = Append(patches, NewRows(n))
      /\ UNCHANGED <<assets, orig_chunks>>
  BY DEF ConsumeSingle
<1>3. UNCHANGED <<kind, join_method, join_chunks, datum_shape, chunk_shape>>
  BY <1>1 DEF fixed
<1>4. TypeOK /\ Counted /\ Restarting /\ Laid
  BY DEF IInv
<1>5. Patched' /\ patches' \in Seq([offset : Seq(Nat), shape : Seq(Nat)])
  <2>1. PICK o, s : o = NewRows(n).offset /\ s = NewRows(n).shape
    OBVIOUS
  <2>2. /\ o \in Seq(Nat) /\ s \in Seq(Nat) /\ Len(o) = Dims /\ Len(s) = Dims
        /\ \A d \in 2..Dims : o[d] = 0 /\ s[d] = Extent(d)
        /\ o[1] = Received1 /\ o[1] + s[1] = (num_rows + n) * Unit
    BY <1>1, <1>2, <2>1, NewRowsFacts
  <2>3. o[1] + s[1] = Received1'
    BY <1>1, <1>2, <2>2 DEF Received1
  <2>4. NewRows(n) = [offset |-> o, shape |-> s]
    BY <2>1 DEF NewRows
  <2> QED  BY <1>1, <1>2, <2>2, <2>3, <2>4, PatchAppended
<1>6. TypeOK'
  BY <1>1, <1>2, <1>3, <1>4, <1>5 DEF TypeOK
<1>7. Counted'
  BY <1>1, <1>2, <1>4 DEF Counted
<1>8. Restarting'
  BY <1>1, <1>2, <1>4, Zenon DEF Restarting
<1>9. Laid'
  <2>1. ~(orig_chunks # <<>> /\ layouts = {files_per_datum})
    BY <1>2, <1>4 DEF Laid
  <2> QED  BY <1>1, <1>2, <2>1 DEF Laid
<1> QED  BY <1>1, <1>5, <1>6, <1>7, <1>8, <1>9 DEF IInv

\* A StreamDatum for several files adds rows and their files.
LEMMA ConsumeMultipartIInv ==
  ASSUME IInv, NEW n \in 1..MaxRows, ConsumeMultipart(n)
  PROVE  IInv'
<1>1. /\ n \in Nat /\ index' = index + n /\ index' \in Nat /\ Constructed'
      /\ UNCHANGED <<fixed, sres, files_per_datum, indx_offset, resources, layouts>>
      /\ Dims' = Dims /\ Unit' = Unit /\ kind' = kind
  BY ReceivedFacts DEF ConsumeMultipart
<1>2. /\ kind = "multipart" /\ num_rows' = num_rows + n /\ patches' = Append(patches, NewRows(n))
      /\ assets' = assets \o Files(index * files_per_datum, (index + n) * files_per_datum)
      /\ orig_chunks' = IF Split
                        THEN Layout(FramesPerFile(datum_shape, chunk_shape, join_method, sres), n * files_per_datum)
                        ELSE orig_chunks
  BY DEF ConsumeMultipart
<1>3. UNCHANGED <<kind, join_method, join_chunks, datum_shape, chunk_shape>>
  BY <1>1 DEF fixed
<1>4. TypeOK /\ Constructed /\ Counted /\ Restarting /\ Laid
  BY DEF IInv
<1>5. Patched' /\ patches' \in Seq([offset : Seq(Nat), shape : Seq(Nat)])
  <2>1. PICK o, s : o = NewRows(n).offset /\ s = NewRows(n).shape
    OBVIOUS
  <2>2. /\ o \in Seq(Nat) /\ s \in Seq(Nat) /\ Len(o) = Dims /\ Len(s) = Dims
        /\ \A d \in 2..Dims : o[d] = 0 /\ s[d] = Extent(d)
        /\ o[1] = Received1 /\ o[1] + s[1] = (num_rows + n) * Unit
    BY <1>1, <1>2, <2>1, NewRowsFacts
  <2>3. o[1] + s[1] = Received1'
    BY <1>1, <1>2, <2>2 DEF Received1
  <2>4. NewRows(n) = [offset |-> o, shape |-> s]
    BY <2>1 DEF NewRows
  <2> QED  BY <1>1, <1>2, <2>2, <2>3, <2>4, PatchAppended
<1>6. PICK first, last : first = index * files_per_datum /\ last = (index + n) * files_per_datum
  OBVIOUS
<1>7. first \in Nat /\ last = first + n * files_per_datum /\ last \in Nat /\ first <= last
  <2>1. PICK f : f = files_per_datum
    OBVIOUS
  <2>2. f \in Nat /\ index \in Nat
    BY <1>4, <2>1 DEF TypeOK
  <2>3. index * f \in Nat /\ n * f \in Nat /\ (index + n) * f = index * f + n * f
    BY <1>1, <2>2
  <2> QED  BY <1>6, <2>1, <2>3
<1>8. /\ assets' \in Seq([sres : Nat, file : Int])
      /\ Len(assets') = Len(assets) + (last - first)
      /\ Restarting'
  <2>1. layouts = {files_per_datum} => Len(assets) = first
    BY <1>2, <1>4, <1>6 DEF Counted
  <2>2. assets' = assets \o Files(first, last) /\ kind # "single"
    BY <1>2, <1>6
  <2> QED  BY <1>1, <1>7, <2>1, <2>2, FilesAdded
<1>9. TypeOK'
  BY <1>1, <1>2, <1>3, <1>4, <1>5, <1>8 DEF TypeOK
<1>10. Counted'
  <2>1. ASSUME layouts = {files_per_datum}
        PROVE  Len(assets') = (index + n) * files_per_datum
    <3>1. Len(assets) = first
      BY <1>2, <1>4, <1>6, <2>1 DEF Counted
    <3> QED  BY <1>6, <1>7, <1>8, <3>1
  <2> QED  BY <1>1, <1>2, <1>4, <2>1 DEF Counted
<1>11. Laid'
  <2> SUFFICES ASSUME orig_chunks' # <<>>, layouts' = {files_per_datum'}
               PROVE  kind' = "multipart" /\ Split'
                      /\ orig_chunks' = LayoutOf(datum_shape[1] \div files_per_datum, Len(assets))'
    BY DEF Laid
  <2>1. Split' <=> Split
    BY <1>1, <1>3 DEF Split
  <2>2. Split
    BY <1>1, <1>2, <1>4 DEF Laid
  <2>3. PICK f : f = FramesPerFile(datum_shape, chunk_shape, join_method, sres)
    OBVIOUS
  <2>4. f = datum_shape[1] \div files_per_datum
    <3>1. datum_shape \in Sizes /\ datum_shape # <<>> /\ datum_shape[1] % files_per_datum = 0
      <4>1. Len(datum_shape) > 1
        BY <2>2 DEF Split
      <4> QED  BY <1>4, <2>2, <4>1 DEF Split, TypeOK
    <3>2. /\ chunk_shape # <<>> /\ files_per_datum = FilesOfDatum(datum_shape, chunk_shape, join_method, sres)
          /\ join_method = "concat" => datum_shape # <<>> /\ datum_shape[1] % chunk_shape[1] = 0
      BY <1>2, <1>4 DEF Constructed
    <3> QED  BY <1>4, <2>3, <3>1, <3>2, FilesOfDatumFacts DEF TypeOK
  <2>5. orig_chunks' = Layout(f, n * files_per_datum)
    BY <1>2, <2>2, <2>3
  <2>6. DOMAIN assets' = 1..Len(assets')
    BY <1>8
  <2>7. Layout(f, n * files_per_datum) = LayoutOf(f, Len(assets'))
    BY <2>6 DEF Layout, LayoutOf
  <2>8. LayoutOf(datum_shape[1] \div files_per_datum, Len(assets))' = LayoutOf(f, Len(assets'))
    BY <1>1, <1>3, <2>4 DEF LayoutOf
  <2> QED  BY <1>2, <1>3, <2>1, <2>2, <2>5, <2>7, <2>8
<1> QED  BY <1>1, <1>5, <1>8, <1>9, <1>10, <1>11 DEF IInv

\* A StreamDatum for bytes adds a file for each index.
LEMMA ConsumeBytesIInv ==
  ASSUME IInv, NEW n \in 1..MaxRows, ConsumeBytes(n)
  PROVE  IInv'
<1>1. /\ n \in Nat /\ index' = index + n /\ index' \in Nat /\ Constructed'
      /\ UNCHANGED <<fixed, sres, files_per_datum, indx_offset, resources, layouts>>
      /\ Dims' = Dims /\ Unit' = Unit /\ kind' = kind
  BY ReceivedFacts DEF ConsumeBytes
<1>2. /\ kind = "bytes" /\ assets' = assets \o Files(index, index + n)
      /\ patches' = Append(patches, [offset |-> <<index>>, shape |-> <<n>>])
      /\ UNCHANGED <<num_rows, orig_chunks>>
  BY DEF ConsumeBytes
<1>3. UNCHANGED <<kind, join_method, join_chunks, datum_shape, chunk_shape>>
  BY <1>1 DEF fixed
<1>4. TypeOK /\ Constructed /\ Counted /\ Restarting /\ Laid /\ index \in Nat
  BY DEF IInv, TypeOK
<1>5. files_per_datum = 1 /\ datum_shape = <<>> /\ Dims = 1
  <2>1. files_per_datum = 1 /\ datum_shape = <<>> /\ join_method = "stack"
    BY <1>2, <1>4 DEF Constructed
  <2> QED  BY <2>1 DEF Dims, Stacked
<1>6. Patched' /\ patches' \in Seq([offset : Seq(Nat), shape : Seq(Nat)])
  <2>1. PICK o, s : o = <<index>> /\ s = <<n>>
    OBVIOUS
  <2>2. o \in Seq(Nat) /\ s \in Seq(Nat) /\ Len(o) = 1 /\ Len(s) = 1 /\ o[1] = index /\ s[1] = n
    BY <1>1, <1>4, <2>1
  <2>3. o[1] = Received1 /\ o[1] + s[1] = Received1'
    BY <1>1, <1>2, <2>2 DEF Received1
  <2>4. 2..1 = {}
    OBVIOUS
  <2>5. \A d \in 2..Dims : o[d] = 0 /\ s[d] = Extent(d)
    BY <1>5, <2>4
  <2> QED  BY <1>1, <1>2, <1>5, <2>1, <2>2, <2>3, <2>5, PatchAppended
<1>7. /\ assets' \in Seq([sres : Nat, file : Int])
      /\ Len(assets') = Len(assets) + n
      /\ Restarting'
  <2>1. layouts = {files_per_datum} => Len(assets) = index
    BY <1>2, <1>4, <1>5 DEF Counted
  <2>2. PICK last \in Nat : last = index + n
    BY <1>1, <1>4
  <2>3. index <= last /\ kind # "single" /\ assets' = assets \o Files(index, last)
    BY <1>1, <1>2, <1>4, <2>2
  <2>4. /\ assets' \in Seq([sres : Nat, file : Int])
        /\ Len(assets') = Len(assets) + (last - index)
        /\ Restarting'
    BY <1>1, <1>4, <2>1, <2>3, FilesAdded
  <2>5. last - index = n
    BY <1>1, <1>4, <2>2
  <2> QED  BY <2>4, <2>5
<1>8. TypeOK'
  BY <1>1, <1>2, <1>3, <1>4, <1>6, <1>7 DEF TypeOK
<1>9. Counted'
  <2>1. ASSUME layouts = {files_per_datum}
        PROVE  Len(assets') = (index + n) * files_per_datum
    <3>1. Len(assets) = index
      BY <1>2, <1>4, <1>5, <2>1 DEF Counted
    <3> QED  BY <1>1, <1>4, <1>5, <1>7, <3>1
  <2> QED  BY <1>1, <1>2, <1>4, <2>1 DEF Counted
<1>10. Laid'
  <2>1. ~(orig_chunks # <<>> /\ layouts = {files_per_datum})
    BY <1>2, <1>4 DEF Laid
  <2> QED  BY <1>1, <1>2, <2>1 DEF Laid
<1> QED  BY <1>1, <1>6, <1>7, <1>8, <1>9, <1>10 DEF IInv

\* Another file has the next StreamResource.
LEMMA UpdateSingleIInv ==
  ASSUME IInv, UpdateSingle
  PROVE  IInv'
<1>1. /\ kind = "single" /\ Added /\ UNCHANGED <<sres, files_per_datum, indx_offset>>
      /\ assets' = Append(assets, [sres |-> resources + 1, file |-> 0])
  BY DEF UpdateSingle
<1>2. TypeOK /\ Constructed /\ Counted /\ Restarting /\ Laid /\ files_per_datum \in Nat \ {0}
  BY DEF IInv, TypeOK
<1>3. /\ resources' = resources + 1 /\ files_per_datum' \in layouts'
      /\ layouts' = {files_per_datum'} => layouts = {files_per_datum} /\ files_per_datum' = files_per_datum
      /\ UNCHANGED <<kind, join_method, join_chunks, datum_shape, chunk_shape, num_rows, orig_chunks, index, patches>>
      /\ Patched'
  BY <1>1, <1>2, AddedFacts
<1> DEFINE S == [sres : Nat, file : Int]
           N == Len(assets)
           new == [sres |-> resources + 1, file |-> 0]
<1>4. assets \in Seq(S) /\ N \in Nat /\ N = resources /\ resources \in Nat
  BY <1>1, <1>2 DEF TypeOK, Counted
<1>5. new \in S /\ new.sres = resources + 1 /\ new.file = 0
  BY <1>4
<1> HIDE DEF S, new
<1>6. /\ assets' \in Seq(S) /\ Len(assets') = N + 1 /\ assets'[N + 1] = new
      /\ \A i \in 1..N : assets'[i] = assets[i]
  BY <1>1, <1>4, <1>5, AppendProperties DEF new
<1>7. TypeOK'
  BY <1>1, <1>2, <1>3, <1>4, <1>6 DEF TypeOK, S
<1> HIDE DEF N
<1>8. Constructed'
  BY <1>1, <1>2, <1>3 DEF Constructed, Joined
<1>9. Counted'
  BY <1>1, <1>2, <1>3, <1>4, <1>6 DEF Counted
<1>10. Restarting'
  <2>1. ASSUME NEW i \in 1..(N + 1)
        PROVE  assets'[i].sres = i
    <3>1. CASE i = N + 1
      BY <1>4, <1>5, <1>6, <3>1
    <3>2. CASE i # N + 1
      <4>1. i \in 1..N
        BY <1>4, <3>2
      <4>2. assets[i].sres = i
        BY <1>1, <1>2, <4>1 DEF Restarting, N
      <4> QED  BY <1>6, <4>1, <4>2
    <3> QED  BY <3>1, <3>2
  <2>2. ASSUME layouts = {files_per_datum}, NEW i \in 1..(N + 1)
        PROVE  assets'[i].file = 0
    <3>1. CASE i = N + 1
      BY <1>5, <1>6, <3>1
    <3>2. CASE i # N + 1
      <4>1. i \in 1..N /\ i - 1 \in 0..N
        BY <1>4, <3>2
      <4>2. /\ assets[i].file \in 0..(i - 1)
            /\ \A j \in 1..(i - 1) : assets[j].sres = assets[i].sres <=> j >= i - assets[i].file
        BY <1>2, <2>2, <4>1 DEF Restarting, N
      <4>3. \A j \in 1..i : assets[j].sres = j
        BY <1>1, <1>2, <1>4, <4>1 DEF Restarting, N
      <4>4. assets[i].file = 0
        <5>1. PICK f : f = assets[i].file
          OBVIOUS
        <5>2. f # 0 => i - 1 \in 1..(i - 1) /\ i - 1 \in 1..i /\ i \in 1..i /\ i - 1 >= i - f /\ i - 1 # i
          BY <1>4, <4>1, <4>2, <5>1
        <5>3. f # 0 => assets[i - 1].sres = i - 1 /\ assets[i].sres = i
          BY <4>3, <5>2
        <5> QED  BY <4>2, <5>1, <5>2, <5>3
      <4> QED  BY <1>6, <4>1, <4>4
    <3> QED  BY <3>1, <3>2
  <2>3. \A i \in 1..Len(assets') :
          /\ assets'[i].sres <= resources'
          /\ kind' = "single" => assets'[i].sres = i
          /\ kind' # "single" => (assets'[i].sres = resources' <=> i > indx_offset')
    <3>1. ASSUME NEW i \in 1..(N + 1)
          PROVE  assets'[i].sres <= resources'
      <4>1. i <= N + 1 /\ N + 1 = resources'
        BY <1>3, <1>4
      <4> QED  BY <2>1, <4>1
    <3> QED  BY <1>1, <1>3, <1>6, <2>1, <3>1
  <2>4. layouts' = {files_per_datum'} =>
          \A i \in 1..Len(assets') :
            /\ assets'[i].file \in 0..(i - 1)
            /\ \A j \in 1..(i - 1) : assets'[j].sres = assets'[i].sres <=> j >= i - assets'[i].file
    <3>1. ASSUME layouts = {files_per_datum}, NEW i \in 1..(N + 1)
          PROVE  /\ assets'[i].file \in 0..(i - 1)
                 /\ \A j \in 1..(i - 1) : assets'[j].sres = assets'[i].sres <=> j >= i - assets'[i].file
      <4>1. assets'[i].file = 0 /\ assets'[i].sres = i
        BY <2>1, <2>2, <3>1
      <4>2. \A j \in 1..(i - 1) : j \in 1..(N + 1) /\ j # i /\ ~(j >= i - 0)
        BY <1>4
      <4>3. 0 \in 0..(i - 1)
        BY <1>4
      <4> QED  BY <2>1, <4>1, <4>2, <4>3
    <3> QED  BY <1>3, <1>6, <3>1
  <2>5. kind' # "single" => indx_offset' <= Len(assets')
    BY <1>1, <1>3
  <2> QED  BY <2>3, <2>4, <2>5, Zenon DEF Restarting
<1>11. Laid'
  <2>1. ~(orig_chunks # <<>> /\ layouts = {files_per_datum})
    BY <1>1, <1>2 DEF Laid
  <2> QED  BY <1>1, <1>3, <2>1 DEF Laid
<1> QED  BY <1>3, <1>7, <1>8, <1>9, <1>10, <1>11 DEF IInv

\* The files so far are those of the StreamResources before the new one.
LEMMA OffsetMoved ==
  ASSUME IInv, kind # "single", Added, files_per_datum' \in Nat \ {0},
         indx_offset' = Len(assets), assets' = assets
  PROVE  Restarting' /\ indx_offset' \in Nat
<1>1. /\ resources' = resources + 1 /\ files_per_datum' \in layouts'
      /\ layouts' = {files_per_datum'} => layouts = {files_per_datum} /\ files_per_datum' = files_per_datum
      /\ kind' = kind
  BY AddedFacts
<1>2. resources \in Nat /\ Len(assets) \in Nat /\ assets \in Seq([sres : Nat, file : Int]) /\ Restarting
  BY DEF IInv, TypeOK
<1>3. ASSUME NEW i \in 1..Len(assets)
      PROVE  assets[i].sres <= resources' /\ assets[i].sres # resources' /\ ~(i > indx_offset')
  <2>1. assets[i].sres <= resources
    BY <1>2 DEF Restarting
  <2>2. assets[i].sres \in Nat
    <3>1. assets[i] \in [sres : Nat, file : Int]
      BY <1>2, ElementType
    <3> QED  BY <3>1
  <2> QED  BY <1>1, <1>2, <2>1, <2>2
<1>4. layouts' = {files_per_datum'} =>
        \A i \in 1..Len(assets) :
          /\ assets[i].file \in 0..(i - 1)
          /\ \A j \in 1..(i - 1) : assets[j].sres = assets[i].sres <=> j >= i - assets[i].file
  BY <1>1, <1>2 DEF Restarting
<1>5. indx_offset' <= Len(assets)
  BY <1>2
<1> QED  BY <1>1, <1>2, <1>3, <1>4, <1>5, Zenon DEF Restarting

\* A new template has the next StreamResource.
LEMMA UpdateMultipartIInv ==
  ASSUME IInv, NEW params \in Parameters, UpdateMultipart(params)
  PROVE  IInv'
<1>1. /\ kind = "multipart" /\ Added /\ sres' = params
      /\ files_per_datum' = FilesOfDatum(datum_shape, chunk_shape, join_method, params)
      /\ indx_offset' = Len(assets) /\ assets' = assets
  BY DEF UpdateMultipart
<1>2. TypeOK /\ Constructed /\ Counted /\ Laid
  BY DEF IInv
<1>3. files_per_datum' \in Nat \ {0}
  <2>1. /\ chunk_shape # <<>>
        /\ join_method = "concat" => datum_shape # <<>> /\ datum_shape[1] % chunk_shape[1] = 0
    BY <1>1, <1>2 DEF Constructed
  <2> QED  BY <1>1, <1>2, <2>1, FilesOfDatumFacts DEF TypeOK
<1>4. /\ resources' = resources + 1 /\ files_per_datum' \in layouts'
      /\ layouts' = {files_per_datum'} => layouts = {files_per_datum} /\ files_per_datum' = files_per_datum
      /\ UNCHANGED <<kind, join_method, join_chunks, datum_shape, chunk_shape, num_rows, orig_chunks, index, patches>>
      /\ Patched'
  BY <1>1, <1>3, AddedFacts
<1>5. Restarting' /\ indx_offset' \in Nat
  BY <1>1, <1>3, OffsetMoved
<1>6. TypeOK'
  BY <1>1, <1>2, <1>3, <1>4, <1>5 DEF TypeOK
<1>7. Constructed'
  BY <1>1, <1>2, <1>4 DEF Constructed, Joined
<1>8. Counted'
  BY <1>1, <1>2, <1>4 DEF Counted
<1>9. Laid'
  BY <1>1, <1>2, <1>4 DEF Laid, LayoutOf, Split
<1> QED  BY <1>4, <1>5, <1>6, <1>7, <1>8, <1>9 DEF IInv

\* And so has a new template for bytes.
LEMMA UpdateBytesIInv ==
  ASSUME IInv, UpdateBytes
  PROVE  IInv'
<1>1. /\ kind = "bytes" /\ Added /\ indx_offset' = Len(assets)
      /\ UNCHANGED <<sres, files_per_datum, assets>>
  BY DEF UpdateBytes
<1>2. TypeOK /\ Constructed /\ Counted /\ Laid /\ files_per_datum \in Nat \ {0}
  BY DEF IInv, TypeOK
<1>3. /\ resources' = resources + 1 /\ files_per_datum' \in layouts'
      /\ layouts' = {files_per_datum'} => layouts = {files_per_datum} /\ files_per_datum' = files_per_datum
      /\ UNCHANGED <<kind, join_method, join_chunks, datum_shape, chunk_shape, num_rows, orig_chunks, index, patches>>
      /\ Patched'
  BY <1>1, <1>2, AddedFacts
<1>4. Restarting' /\ indx_offset' \in Nat
  BY <1>1, <1>2, OffsetMoved
<1>5. TypeOK'
  BY <1>1, <1>2, <1>3, <1>4 DEF TypeOK
<1>6. Constructed'
  BY <1>1, <1>2, <1>3 DEF Constructed, Joined
<1>7. Counted'
  BY <1>1, <1>2, <1>3 DEF Counted
<1>8. Laid'
  <2>1. ~(orig_chunks # <<>> /\ layouts = {files_per_datum})
    BY <1>1, <1>2 DEF Laid
  <2> QED  BY <1>1, <1>3, <2>1 DEF Laid
<1> QED  BY <1>3, <1>4, <1>5, <1>6, <1>7, <1>8 DEF IInv

\* Every step keeps the invariant.
LEMMA NextIInv == IInv /\ [Next]_vars => IInv'
<1> SUFFICES ASSUME IInv, [Next]_vars
             PROVE  IInv'
  OBVIOUS
<1>1. ASSUME NEW n \in 1..MaxRows, ConsumeSingle(n) \/ ConsumeMultipart(n) \/ ConsumeBytes(n)
      PROVE  IInv'
  BY <1>1, ConsumeSingleIInv, ConsumeMultipartIInv, ConsumeBytesIInv
<1>2. ASSUME NEW params \in Parameters, UpdateMultipart(params)
      PROVE  IInv'
  BY <1>2, UpdateMultipartIInv
<1>3. CASE UpdateSingle \/ UpdateBytes
  BY <1>3, UpdateSingleIInv, UpdateBytesIInv
<1>4. CASE UNCHANGED vars
  <2>1. /\ UNCHANGED <<kind, join_method, join_chunks, datum_shape, chunk_shape, sres, files_per_datum, num_rows>>
        /\ UNCHANGED <<assets, indx_offset, orig_chunks, resources, index, patches, layouts>>
    BY <1>4 DEF vars, fixed
  <2>2. TypeOK' /\ Constructed' /\ Counted'
    BY <2>1 DEF IInv, TypeOK, Constructed, Counted, Joined
  <2>3. Restarting'
    BY <2>1 DEF IInv, Restarting
  <2>4. Laid'
    BY <2>1 DEF IInv, Laid, LayoutOf, Split
  <2>5. Patched'
    <3>1. Dims' = Dims /\ Received1' = Received1 /\ \A d : Extent(d)' = Extent(d)
      BY <2>1 DEF Dims, Received1, Extent, Unit, Stacked
    <3> QED  BY <2>1, <3>1, Zenon DEF IInv, Patched, EndOf
  <2> QED  BY <2>2, <2>3, <2>4, <2>5 DEF IInv
<1> QED  BY <1>1, <1>2, <1>3, <1>4 DEF Next

\* The state of every consolidator satisfies the invariant, after any documents.
THEOREM Invariance == Spec => []IInv
<1>1. Init => IInv
  BY InitIInv
<1>2. IInv /\ [Next]_vars => IInv'
  BY NextIInv
<1> QED  BY <1>1, <1>2, PTL DEF Spec

-----------------------------------------------------------------------------
(***************************************************************************)
(* Theorems                                                                *)
(***************************************************************************)
\* The state of a consolidator has its types.
THEOREM TypeCorrect == Spec => []TypeOK
<1>1. IInv => TypeOK
  BY DEF IInv
<1> QED  BY <1>1, Invariance, PTL

\* The chunks fill the shape in every dimension, and only the last one of a
\* dimension, or of a datum when chunks are not joined, is smaller than the others.
THEOREM ChunksTileShapeThm == Spec => []ChunksTileShape
BY ChunksTile, Invariance, PTL

\* Files of a datum times frames per file are the frames, and so the files registered
\* hold the frames of all rows.
THEOREM FilesHoldFramesThm == Spec => []FilesHoldFrames
BY FilesHold, Invariance, PTL

\* The layout for reading parts of a datum has a chunk for each file and as many
\* elements as the array.
THEOREM OrigChunksFitThm == Spec => []OrigChunksFit
BY OrigFit, Invariance, PTL

\* The files of each StreamResource are numbered from 0.
THEOREM FilesRestartAtZeroThm == Spec => []FilesRestartAtZero
BY FilesRestart, Invariance, PTL

\* The box around patches that follow one another is their union, and the last one
\* ends where the array does.
THEOREM PatchesCombineThm == Spec => []PatchesCombine
BY PatchesFit, Invariance, PTL

-----------------------------------------------------------------------------
(***************************************************************************)
(* Reexport                                                                *)
(***************************************************************************)
\* The shape in the descriptor is only looked at.
THEOREM ReexportIsConsolidator == ReexportSpec => Spec
<1>1. ReexportInit => Init
  BY DEF ReexportInit
<1>2. [Next /\ UNCHANGED shape]_<<vars, shape>> => [Next]_vars
  OBVIOUS
<1> QED  BY <1>1, <1>2, PTL DEF ReexportSpec, Spec

\* The shape of a datum is that in the descriptor, with the multiplier; the first
\* StreamResource is the only one with its number of files for a datum.
Described ==
  /\ shape \in Shapes /\ datum_shape = DatumShape(shape, join_method, sres.multiplier)
  /\ resources = 1 => layouts = {files_per_datum}

\* What holds when the run is exported.
LEMMA DescribedInvariance == ReexportSpec => [](IInv /\ Described)
<1>1. ReexportInit => IInv /\ Described
  <2> SUFFICES ASSUME ReexportInit
               PROVE  IInv /\ Described
    OBVIOUS
  <2>1. Init /\ shape \in Shapes /\ datum_shape = DatumShape(shape, join_method, sres.multiplier)
    BY DEF ReexportInit
  <2>2. layouts = {files_per_datum}
    BY <2>1 DEF Init
  <2> QED  BY <2>1, <2>2, InitIInv DEF Described
<1>2. IInv /\ Described /\ [Next /\ UNCHANGED shape]_<<vars, shape>> => (IInv /\ Described)'
  <2> SUFFICES ASSUME IInv, Described, [Next /\ UNCHANGED shape]_<<vars, shape>>
               PROVE  IInv' /\ Described'
    OBVIOUS
  <2>1. [Next]_vars /\ shape' = shape
    OBVIOUS
  <2>2. IInv'
    BY <2>1, NextIInv
  <2>3. Described'
    <3>1. ASSUME UNCHANGED <<fixed, sres, files_per_datum, resources, layouts>>
          PROVE  Described'
      BY <2>1, <3>1 DEF Described, fixed
    <3>2. ASSUME NEW n \in 1..MaxRows, ConsumeSingle(n) \/ ConsumeMultipart(n) \/ ConsumeBytes(n)
          PROVE  Described'
      <4>1. Received(n)
        BY <3>2 DEF ConsumeSingle, ConsumeMultipart, ConsumeBytes
      <4> QED  BY <3>1, <4>1 DEF Received
    <3>3. ASSUME Added, sres'.multiplier = sres.multiplier
          PROVE  Described'
      <4>1. resources' = resources + 1 /\ join_method' = join_method /\ datum_shape' = datum_shape
        BY <3>3 DEF Added, fixed
      <4>2. resources' # 1
        BY <4>1 DEF IInv, TypeOK
      <4> QED  BY <2>1, <3>3, <4>1, <4>2 DEF Described
    <3>4. ASSUME NEW params \in Parameters, UpdateMultipart(params)
          PROVE  Described'
      BY <3>3, <3>4 DEF UpdateMultipart
    <3>5. CASE UpdateSingle \/ UpdateBytes
      BY <3>3, <3>5 DEF UpdateSingle, UpdateBytes
    <3>6. CASE UNCHANGED vars
      BY <3>1, <3>6 DEF vars
    <3> QED  BY <2>1, <3>2, <3>4, <3>5, <3>6 DEF Next
  <2> QED  BY <2>2, <2>3
<1> QED  BY <1>1, <1>2, PTL DEF ReexportSpec

\* Without a multiplier, only a series of one number loses its dimension.
LEMMA DatumShapeOf ==
  ASSUME NEW s, NEW join
  PROVE  DatumShape(s, join, 0) = IF s = <<1>> /\ join = "stack" THEN <<>> ELSE s
BY DEF DatumShape, Multiplied

\* A file for each frame, or for each stacked image.
LEMMA FilesOfTemplate ==
  ASSUME NEW s \in Sizes, NEW join \in {"stack", "concat"}, join = "concat" => s # <<>>
  PROVE  LET params == [multiplier |-> 0, files_per_datum |-> 0]
             files  == FilesOfDatum(s, Coerced(s, <<1>>, join), join, params)
         IN /\ Coerced(s, <<1>>, join) = <<1>>
            /\ join = "concat" => files = s[1]
            /\ (join = "stack" /\ Len(s) # 1) => files = 1
<1> DEFINE params == [multiplier |-> 0, files_per_datum |-> 0]
           frames == FramesPerFile(s, <<1>>, join, params)
<1>1. params.multiplier = 0 /\ params.files_per_datum = 0
  OBVIOUS
<1>2. s # <<>> => s[1] \in Nat \ {0}
  BY SizesFacts
<1>3. ASSUME NEW a \in Nat \ {0}
      PROVE  a % 1 = 0 /\ a \div 1 = a /\ a \div a = 1
  <2>1. a = 1 * a + 0 /\ a = a * 1 + 0 /\ 0 \in 0..(1 - 1) /\ 0 \in 0..(a - 1) /\ 1 \in Nat \ {0}
    BY <1>3
  <2> QED  BY <2>1, DivisionIs
<1>4. <<1>> # <<>> /\ <<1>>[1] = 1 /\ Len(<<1>>) = 1
  OBVIOUS
<1>5. Coerced(s, <<1>>, join) = <<1>>
  <2>1. join = "concat" => s[1] % 1 = 0
    BY <1>2, <1>3
  <2> QED  BY <1>4, <2>1 DEF Coerced
<1>6. FilesOfDatum(s, <<1>>, join, params) = IF s = <<>> THEN 1 ELSE Max({1, s[1] \div frames})
  BY <1>1 DEF FilesOfDatum
<1>7. ASSUME join = "concat"
      PROVE  FilesOfDatum(s, <<1>>, join, params) = s[1]
  <2>1. s # <<>> /\ frames = 1
    BY <1>1, <1>4, <1>7 DEF FramesPerFile
  <2>2. s[1] \in Nat \ {0} /\ s[1] \div 1 = s[1]
    BY <1>2, <1>3, <2>1
  <2>3. Max({1, s[1]}) = s[1]
    BY <2>2, AtLeastOne
  <2> HIDE DEF frames
  <2> QED  BY <1>6, <2>1, <2>2, <2>3
<1>8. ASSUME join = "stack", Len(s) # 1
      PROVE  FilesOfDatum(s, <<1>>, join, params) = 1
  <2>1. CASE s = <<>>
    BY <1>6, <2>1
  <2>2. CASE s # <<>>
    <3>1. frames = s[1]
      BY <1>1, <1>4, <1>8, <2>2 DEF FramesPerFile
    <3>2. s[1] \in Nat \ {0} /\ s[1] \div s[1] = 1
      BY <1>2, <1>3, <2>2
    <3>3. Max({1, 1}) = 1
      BY 1 \in Nat, AtLeastOne
    <3> HIDE DEF frames
    <3> QED  BY <1>6, <2>2, <3>1, <3>2, <3>3
  <2> QED  BY <2>1, <2>2
<1> QED  BY <1>5, <1>7, <1>8

\* The consolidator made from the exported documents has the same shape and files.
LEMMA Alike == IInv /\ Described => ReexportedAlike
<1> SUFFICES ASSUME IInv, Described, Reexportable, sres.multiplier = 0
             PROVE  /\ Reingested.shape = Shape
                    /\ (/\ kind = "multipart" /\ sres.files_per_datum = 0
                        /\ CASE join_method = "concat" -> chunk_shape[1] = 1
                             [] join_method = "stack" -> IF Len(datum_shape) = 1 THEN chunk_shape = <<1>> ELSE files_per_datum = 1) =>
                         Reingested.files = Len(assets)
  BY Zenon DEF ReexportedAlike
<1> DEFINE params == [multiplier |-> 0, files_per_datum |-> 0]
           datum == DatumShape(shape, ExportedJoin, 0)
           chunk == Coerced(datum, <<1>>, ExportedJoin)
           files == FilesOfDatum(datum, chunk, ExportedJoin, params)
           OneEach == CASE join_method = "concat" -> chunk_shape[1] = 1
                        [] join_method = "stack" -> IF Len(datum_shape) = 1 THEN chunk_shape = <<1>> ELSE files_per_datum = 1
<1>1. /\ Reingested.shape = ArrayShape(ExportedJoin, datum, Datums)
      /\ Reingested.files = IF kind = "single" THEN 1 ELSE Datums * files
  BY DEF Reingested
<1>2. PICK s, rows : s = shape /\ rows = num_rows
  OBVIOUS
<1>3. /\ s \in Sizes /\ rows \in Nat \ {0} /\ TypeOK /\ Constructed /\ kind \in {"single", "multipart"}
      /\ join_method \in {"stack", "concat"} /\ files_per_datum \in Nat \ {0}
      /\ datum_shape = IF s = <<1>> /\ join_method = "stack" THEN <<>> ELSE s
  BY <1>2, ShapesAssumption, DatumShapeOf DEF IInv, TypeOK, Described, Reexportable
<1>4. Shape = ArrayShape(join_method, datum_shape, rows)
  BY <1>2 DEF Shape, ShapeOf
<1>5. kind = "multipart" => Len(assets) = rows * files_per_datum
  BY <1>2 DEF IInv, Counted, Described, Reexportable
<1>6. sres.files_per_datum = 0 => sres = params
  BY <1>3 DEF TypeOK, Parameters
<1>7. Len(s) \in Nat
  BY <1>3, SizesFacts
\* A series of one number, whose rows are taken for its datums.
<1>8. CASE join_method = "stack" /\ s = <<1>>
  <2>1. Len(s) = 1 /\ s[1] = 1 /\ s # <<>> /\ Tail(s) = <<>>
    BY <1>8
  <2>2. Shape = <<rows>>
    <3>1. Shape = <<rows>> \o <<>>
      BY <1>3, <1>4, <1>8 DEF ArrayShape
    <3> QED  BY <1>3, <3>1, ConcatEmptySeq
  <2>3. ~is_stacked /\ ExportedJoin = "concat"
    <3>1. Len(Shape) = 1
      BY <2>2
    <3> QED  BY <1>2, <2>1, <3>1 DEF is_stacked, ExportedJoin
  <2>4. datum = s
    BY <1>2, <2>3, DatumShapeOf
  <2>5. Datums = rows
    <3>1. Shape[1] = rows
      BY <2>2
    <3>2. rows \div 1 = rows
      <4>1. rows = 1 * rows + 0 /\ 0 \in 0..(1 - 1)
        BY <1>3
      <4> QED  BY <1>3, <4>1, DivisionIs
    <3> QED  BY <1>2, <2>1, <2>3, <3>1, <3>2 DEF Datums
  <2>6. Reingested.shape = Shape
    <3>1. ArrayShape("concat", s, rows) = <<rows * 1>> \o <<>>
      BY <2>1 DEF ArrayShape
    <3>2. rows * 1 = rows
      BY <1>3
    <3>3. Reingested.shape = <<rows>> \o <<>>
      BY <1>1, <2>3, <2>4, <2>5, <3>1, <3>2
    <3> QED  BY <1>3, <2>2, <3>3, ConcatEmptySeq
  <2>7. ASSUME kind = "multipart", OneEach
        PROVE  Reingested.files = Len(assets)
    <3>1. Len(datum_shape) # 1
      BY <1>3, <1>8
    <3>2. files_per_datum = 1
      BY <1>8, <2>7, <3>1
    <3>3. files = 1
      BY <1>3, <2>1, <2>3, <2>4, FilesOfTemplate
    <3> QED  BY <1>1, <1>5, <2>5, <2>7, <3>2, <3>3
  <2> QED  BY <2>6, <2>7
\* Other stacked datums.
<1>9. CASE join_method = "stack" /\ s # <<1>>
  <2>1. datum_shape = s /\ Shape = <<rows>> \o s
    BY <1>3, <1>4, <1>9 DEF ArrayShape
  <2>2. Len(Shape) = 1 + Len(s) /\ Shape[1] = rows
    <3>1. s \in Seq(Nat) /\ rows \in Nat
      BY <1>3 DEF Sizes
    <3> QED  BY <2>1, <3>1, ConsFacts
  <2>3. is_stacked /\ ExportedJoin = "stack" /\ Datums = rows
    BY <1>2, <1>7, <2>2 DEF is_stacked, ExportedJoin, Datums
  <2>4. datum = s
    BY <1>2, <1>9, <2>3, DatumShapeOf
  <2>5. Reingested.shape = Shape
    BY <1>1, <2>1, <2>3, <2>4 DEF ArrayShape
  <2>6. ASSUME kind = "multipart", sres.files_per_datum = 0, OneEach
        PROVE  Reingested.files = Len(assets)
    <3>1. chunk = <<1>> /\ (Len(s) # 1 => files = 1)
      BY <1>3, <1>9, <2>3, <2>4, FilesOfTemplate
    <3>2. files = files_per_datum
      <4>1. CASE Len(s) = 1
        <5>1. chunk_shape = <<1>>
          BY <1>9, <2>1, <2>6, <4>1
        <5>2. files_per_datum = FilesOfDatum(s, <<1>>, "stack", params)
          BY <1>3, <1>6, <1>9, <2>1, <2>6, <5>1 DEF Constructed
        <5> QED  BY <2>3, <2>4, <3>1, <5>2
      <4>2. CASE Len(s) # 1
        BY <1>9, <2>1, <2>6, <3>1, <4>2
      <4> QED  BY <4>1, <4>2
    <3> QED  BY <1>1, <1>5, <2>3, <2>6, <3>2
  <2> QED  BY <2>5, <2>6
\* Concatenated datums.
<1>10. CASE join_method = "concat" /\ s # <<>>
  <2>1. datum_shape = s /\ Shape = <<rows * s[1]>> \o Tail(s)
    BY <1>3, <1>4, <1>10 DEF ArrayShape
  <2>2. s[1] \in Nat \ {0} /\ Tail(s) \in Sizes /\ Len(Tail(s)) = Len(s) - 1
    BY <1>3, <1>10, SizesFacts
  <2>3. Len(Shape) = Len(s) /\ Shape[1] = rows * s[1]
    <3>1. Tail(s) \in Seq(Nat) /\ rows * s[1] \in Nat
      BY <1>3, <2>2 DEF Sizes
    <3> QED  BY <1>7, <2>1, <2>2, <3>1, ConsFacts
  <2>4. ~is_stacked /\ ExportedJoin = "concat"
    BY <1>2, <1>7, <2>3 DEF is_stacked, ExportedJoin
  <2>5. datum = s
    BY <1>2, <2>4, DatumShapeOf
  <2>6. Datums = rows
    <3>1. PICK a : a = s[1]
      OBVIOUS
    <3>2. a \in Nat \ {0} /\ (rows * a) \div a = rows
      <4>1. a \in Nat \ {0} /\ 0 \in 0..(a - 1) /\ rows * a = a * rows + 0
        BY <1>3, <2>2, <3>1
      <4> QED  BY <1>3, <4>1, DivisionIs
    <3> QED  BY <1>2, <2>3, <2>4, <3>1, <3>2 DEF Datums
  <2>7. Reingested.shape = Shape
    BY <1>1, <1>10, <2>1, <2>4, <2>5, <2>6 DEF ArrayShape
  <2>8. ASSUME kind = "multipart", sres.files_per_datum = 0, OneEach
        PROVE  Reingested.files = Len(assets)
    <3>1. chunk = <<1>> /\ files = s[1] /\ files = FilesOfDatum(s, <<1>>, "concat", params)
      BY <1>3, <1>10, <2>4, <2>5, FilesOfTemplate
    <3>2. files_per_datum = FilesOfDatum(s, chunk_shape, "concat", params)
      BY <1>3, <1>6, <1>10, <2>1, <2>8 DEF Constructed
    <3>3. chunk_shape[1] = 1 /\ <<1>>[1] = 1
      BY <1>10, <2>8
    <3>4. \A c : FilesOfDatum(s, c, "concat", params) = Max({1, s[1] \div c[1]})
      BY <1>10 DEF FilesOfDatum, FramesPerFile
    <3>5. files = files_per_datum
      BY <3>1, <3>2, <3>3, <3>4
    <3> QED  BY <1>1, <1>5, <2>6, <2>8, <3>5
  <2> QED  BY <2>7, <2>8
\* Numbers, which files of datums cannot hold.
<1>11. CASE join_method = "concat" /\ s = <<>>
  <2>1. datum_shape = <<>> /\ Shape = <<rows>> \o <<>>
    BY <1>3, <1>4, <1>11 DEF ArrayShape
  <2>2. Shape = <<rows>>
    BY <1>3, <2>1, ConcatEmptySeq
  <2>3. is_stacked /\ ExportedJoin = "stack" /\ Datums = rows
    <3>1. Len(Shape) = 1 /\ Shape[1] = rows /\ Len(s) = 0
      BY <1>11, <2>2
    <3> QED  BY <1>2, <3>1 DEF is_stacked, ExportedJoin, Datums
  <2>4. datum = <<>>
    BY <1>2, <1>11, <2>3, DatumShapeOf
  <2>5. Reingested.shape = Shape
    BY <1>1, <2>1, <2>3, <2>4 DEF ArrayShape
  <2>6. kind # "multipart"
    BY <1>3, <1>11, <2>1 DEF Constructed
  <2> QED  BY <2>5, <2>6
<1> QED  BY <1>3, <1>8, <1>9, <1>10, <1>11

\* What is exported and ingested again has the shape and, with a file for each frame
\* or stacked image, as many files.
THEOREM ReexportedAlikeThm == ReexportSpec => []ReexportedAlike
BY Alike, DescribedInvariance, PTL
=============================================================================
