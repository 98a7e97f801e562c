---------------------------- MODULE PeakArithmetic ---------------------------
(***************************************************************************)
(* Facts about numbers that the proofs of several components rest on:      *)
(* division and remainder by a constant, which the provers know nothing    *)
(* about, and SumFunction, which adds up what the threads of a program     *)
(* have.  The library defines the sum by recursion over the subsets of the *)
(* domain; induction over their size is done here by way of the smallest   *)
(* counterexample.  Of sequences: what one is with an element moved.       *)
(***************************************************************************)
EXTENDS Integers, Sequences, FiniteSets, FiniteSetsExt, SequencesExt, Functions,
        FiniteSetTheorems, SequenceTheorems, WellFoundedInduction, TLAPS

\* A set of naturals that has with any number the next has them all.
LEMMA Induction ==
  ASSUME NEW P, 0 \in P, \A n \in Nat : n \in P => n + 1 \in P
  PROVE  Nat \subseteq P
<1> DEFINE Bad == Nat \ P
<1>1. SUFFICES ASSUME Bad # {} PROVE FALSE
  OBVIOUS
<1>2. PICK x \in Bad : \A y \in Bad : ~(<<y, x>> \in OpToRel(<, Nat))
  BY <1>1, NatLessThanWellFounded, WFMin
<1>3. x \in Nat /\ x # 0 /\ x - 1 \in Nat
  OBVIOUS
<1>4. <<x - 1, x>> \in OpToRel(<, Nat)
  <2>1. x - 1 < x
    BY <1>3
  <2> QED BY <1>3, <2>1, Zenon DEF OpToRel
<1>5. x - 1 \notin Bad
  BY <1>2, <1>4, Zenon
<1>6. (x - 1) + 1 \in P
  BY <1>3, <1>5
<1> QED BY <1>3, <1>6

\* A non-empty set of naturals has a smallest element, which Min returns.
LEMMA MinNat ==
  ASSUME NEW S, S \subseteq Nat, S # {}
  PROVE  Min(S) \in S /\ \A y \in S : Min(S) <= y
<1>1. PICK x \in S : \A y \in S : ~(<<y, x>> \in OpToRel(<, Nat))
  BY NatLessThanWellFounded, WFMin
<1>2. \A y \in S : x <= y
  <2> TAKE y \in S
  <2>1. x \in Nat /\ y \in Nat
    OBVIOUS
  <2>2. y < x => <<y, x>> \in OpToRel(<, Nat)
    BY <2>1, Zenon DEF OpToRel
  <2>3. ~(y < x)
    BY <1>1, <2>2, Zenon
  <2> QED BY <2>1, <2>3
<1> QED BY <1>2 DEF Min
-----------------------------------------------------------------------------
\* What a division leaves is smaller than the divisor.
LEMMA DivMod ==
  ASSUME NEW a \in Int, NEW m \in Nat \ {0}
  PROVE  /\ a \div m \in Int /\ a % m \in Int
         /\ a = m * (a \div m) + (a % m)
         /\ 0 <= a % m /\ a % m < m
OBVIOUS

\* Of a product with m and a number less than m, m divides the product only.
LEMMA DivModUnique ==
  ASSUME NEW m \in Nat \ {0}, NEW q \in Int, NEW r \in Int, 0 <= r, r < m
  PROVE  (m * q + r) \div m = q /\ (m * q + r) % m = r
<1> DEFINE a == m * q + r
           p == a \div m
           s == a % m
<1>1. a \in Int
  OBVIOUS
<1>2. p \in Int /\ s \in Int /\ a = m * p + s /\ 0 <= s /\ s < m
  BY <1>1, DivMod
<1>3. m * p + s = m * q + r
  BY <1>2
<1> HIDE DEF a, p, s
<1>4. p = q
  <2>1. CASE p >= q + 1
    <3>1. m * p >= m * q + m
      BY <1>2, <2>1
    <3> QED BY <1>2, <1>3, <3>1
  <2>2. CASE q >= p + 1
    <3>1. m * q >= m * p + m
      BY <1>2, <2>2
    <3> QED BY <1>2, <1>3, <3>1
  <2> QED BY <1>2, <2>1, <2>2
<1>5. s = r
  BY <1>2, <1>3, <1>4
<1> QED BY <1>4, <1>5 DEF a, p, s

\* Adding a multiple of m does not change the remainder.
LEMMA ModMultiple ==
  ASSUME NEW m \in Nat \ {0}, NEW a \in Int, NEW k \in Int
  PROVE  (a + m * k) % m = a % m
<1> DEFINE q == a \div m
           r == a % m
<1>1. q \in Int /\ r \in Int /\ a = m * q + r /\ 0 <= r /\ r < m
  BY DivMod
<1> HIDE DEF q, r
<1>2. a + m * k = m * (q + k) + r
  BY <1>1
<1>3. (m * (q + k) + r) % m = r
  BY <1>1, DivModUnique
<1> QED BY <1>2, <1>3 DEF r

\* A number in range is its own remainder.
LEMMA ModSmall ==
  ASSUME NEW m \in Nat \ {0}, NEW a \in Int, 0 <= a, a < m
  PROVE  a % m = a
<1>1. (m * 0 + a) % m = a
  BY DivModUnique
<1> QED BY <1>1

\* Remainders may be taken before or after an addition.
LEMMA ModAdd ==
  ASSUME NEW m \in Nat \ {0}, NEW a \in Int, NEW b \in Int
  PROVE  ((a % m) + b) % m = (a + b) % m
<1> DEFINE q == a \div m
           r == a % m
<1>1. q \in Int /\ r \in Int /\ a = m * q + r
  BY DivMod
<1> HIDE DEF q, r
<1> DEFINE c == r + b
<1>2. a + b = c + m * q /\ c \in Int
  BY <1>1
<1> HIDE DEF c
<1>3. (c + m * q) % m = c % m
  BY <1>1, <1>2, ModMultiple
<1> QED BY <1>2, <1>3 DEF c, r

\* Dividing by m twice is dividing by its square: no more than m - 1 is left.
LEMMA DivTwice ==
  ASSUME NEW a \in Nat, NEW m \in Nat \ {0}
  PROVE  /\ a \div m \in Nat /\ a \div (m * m) \in Nat
         /\ (a \div m) - m * (a \div (m * m)) \in 0 .. m - 1
<1> DEFINE p == a \div m
           q == a \div (m * m)
           s == a % m
           r == a % (m * m)
           d == p - m * q
<1>0. m * m \in Nat \ {0}
  OBVIOUS
<1>1. p \in Int /\ s \in Int /\ a = m * p + s /\ 0 <= s /\ s < m
  BY DivMod
<1>2. q \in Int /\ r \in Int /\ a = (m * m) * q + r /\ 0 <= r /\ r < m * m
  <2> DEFINE M == m * m
  <2> HIDE DEF M
  <2>1. M \in Nat \ {0}
    BY <1>0 DEF M
  <2>2. /\ a \div M \in Int /\ a % M \in Int /\ a = M * (a \div M) + (a % M)
        /\ 0 <= a % M /\ a % M < M
    BY <2>1, DivMod
  <2> QED BY <2>2 DEF M
<1> HIDE DEF p, q, r, s
<1>3. d \in Int /\ m * d = m * p - m * (m * q)
  BY <1>1, <1>2
<1>4. (m * m) * q = m * (m * q)
  BY <1>2
<1>5. m * d = r - s
  BY <1>1, <1>2, <1>3, <1>4
<1> HIDE DEF d
<1>6. d >= 0
  <2>1. CASE d <= -1
    <3>1. m * d <= m * (-1)
      BY <1>3, <2>1
    <3> QED BY <1>1, <1>2, <1>5, <3>1
  <2> QED BY <1>3, <2>1
<1>7. d < m
  <2>1. CASE d >= m
    <3>1. m * d >= m * m
      BY <1>3, <2>1
    <3> QED BY <1>0, <1>1, <1>2, <1>5, <3>1
  <2> QED BY <1>3, <2>1
<1>8. p >= 0 /\ q >= 0
  <2>1. CASE p <= -1
    <3>1. m * p <= m * (-1)
      BY <1>1, <2>1
    <3> QED BY <1>1, <3>1
  <2>2. CASE q <= -1
    <3>1. (m * m) * q <= (m * m) * (-1)
      BY <1>0, <1>2, <2>2
    <3> QED BY <1>0, <1>2, <3>1
  <2> QED BY <1>1, <1>2, <2>1, <2>2
<1> QED BY <1>1, <1>2, <1>3, <1>6, <1>7, <1>8 DEF p, q, d

\* Division does not turn an order around.
LEMMA DivMonotone ==
  ASSUME NEW a \in Int, NEW b \in Int, a <= b, NEW m \in Nat \ {0}
  PROVE  a \div m <= b \div m
<1> DEFINE p == a \div m
           q == b \div m
<1>1. p \in Int /\ a >= m * p
  BY DivMod
<1>2. q \in Int /\ b < m * q + m
  BY DivMod
<1> HIDE DEF p, q
<1>3. ~(p >= q + 1)
  <2> SUFFICES ASSUME p >= q + 1 PROVE FALSE
    OBVIOUS
  <2>1. m * p >= m * (q + 1)
    BY <1>1, <1>2
  <2> QED BY <1>1, <1>2, <2>1
<1> QED BY <1>1, <1>2, <1>3 DEF p, q
-----------------------------------------------------------------------------
\* The element the recursion takes first.
Chosen(s) == CHOOSE x \in s : TRUE

\* The recursion: g is the sum of F over each of the sets in SS.
Sums(g, F, SS) ==
  g = [s \in SS |-> IF s = {} THEN 0 ELSE F[Chosen(s)] + g[s \ {Chosen(s)}]]

\* Every element of a set is one of the values of Chosen.
LEMMA AnyIn ==
  ASSUME NEW s, s # {}
  PROVE  Chosen(s) \in s
BY DEF Chosen

\* Subsets that can be emptied that way are all Good if the empty one is.
LEMMA SubsetInduction ==
  ASSUME NEW D, IsFiniteSet(D), NEW Good, {} \in Good,
         \A s \in SUBSET D : s # {} /\ s \ {Chosen(s)} \in Good => s \in Good
  PROVE  SUBSET D \subseteq Good
<1> DEFINE P == {n \in Nat : \A s \in SUBSET D : Cardinality(s) = n => s \in Good}
<1>0. \A s \in SUBSET D : /\ IsFiniteSet(s) /\ Cardinality(s) \in Nat
                          /\ Cardinality(s) = 0 <=> s = {}
  BY FS_Subset, FS_CardinalityType, FS_EmptySet
<1>1. 0 \in P
  BY <1>0
<1>2. \A n \in Nat : n \in P => n + 1 \in P
  <2> SUFFICES ASSUME NEW n \in Nat, n \in P,
                      NEW s \in SUBSET D, Cardinality(s) = n + 1
               PROVE  s \in Good
    OBVIOUS
  <2>1. s # {}
    BY <1>0
  <2>2. Chosen(s) \in s
    BY <2>1, AnyIn
  <2>3. Cardinality(s \ {Chosen(s)}) = Cardinality(s) - 1
    BY <1>0, <2>2, FS_RemoveElement
  <2>4. Cardinality(s \ {Chosen(s)}) = n
    BY <2>3
  <2>5. s \ {Chosen(s)} \in Good
    BY <2>4
  <2> QED BY <2>1, <2>5
<1> HIDE DEF P
<1>3. Nat \subseteq P
  BY <1>1, <1>2, Induction
<1> QED BY <1>0, <1>3 DEF P

\* The recursion has a solution.
LEMMA SumsExist ==
  ASSUME NEW F, NEW D, IsFiniteSet(D)
  PROVE  \E g : Sums(g, F, SUBSET D)
<1> DEFINE Sub(n) == {s \in SUBSET D : Cardinality(s) <= n}
           P == {n \in Nat : \E g : Sums(g, F, Sub(n))}
<1>0. \A s \in SUBSET D : IsFiniteSet(s) /\ Cardinality(s) \in Nat
  BY FS_Subset, FS_CardinalityType
<1>1. 0 \in P
  <2> DEFINE g == [s \in Sub(0) |-> 0]
  <2>1. \A s \in Sub(0) : s = {}
    BY <1>0, FS_EmptySet
  <2>2. Sums(g, F, Sub(0))
    BY <2>1 DEF Sums
  <2> QED BY <2>2
<1>2. \A n \in Nat : n \in P => n + 1 \in P
  <2> SUFFICES ASSUME NEW n \in Nat, n \in P
               PROVE  n + 1 \in P
    OBVIOUS
  <2>0. PICK g : Sums(g, F, Sub(n))
    OBVIOUS
  <2> DEFINE h == [s \in Sub(n + 1) |->
                     IF s = {} THEN 0 ELSE F[Chosen(s)] + g[s \ {Chosen(s)}]]
  <2>1. \A s \in Sub(n) : h[s] = g[s]
    <3> TAKE s \in Sub(n)
    <3>1. s \in Sub(n + 1)
      BY <1>0
    <3>2. h[s] = IF s = {} THEN 0 ELSE F[Chosen(s)] + g[s \ {Chosen(s)}]
      BY <3>1
    <3>3. g[s] = IF s = {} THEN 0 ELSE F[Chosen(s)] + g[s \ {Chosen(s)}]
      BY <2>0 DEF Sums
    <3> QED BY <3>2, <3>3
  <2>2. \A s \in Sub(n + 1) : s # {} => s \ {Chosen(s)} \in Sub(n)
    <3> SUFFICES ASSUME NEW s \in Sub(n + 1), s # {}
                 PROVE  s \ {Chosen(s)} \in Sub(n)
      OBVIOUS
    <3>1. Cardinality(s \ {Chosen(s)}) = Cardinality(s) - 1
      BY <1>0, AnyIn, FS_RemoveElement
    <3> QED BY <1>0, <3>1
  <2>3. \A s \in Sub(n + 1) :
          h[s] = IF s = {} THEN 0 ELSE F[Chosen(s)] + h[s \ {Chosen(s)}]
    BY <2>1, <2>2
  <2>4. Sums(h, F, Sub(n + 1))
    <3> HIDE DEF Sub
    <3> QED BY <2>3 DEF Sums
  <2>5. \E k : Sums(k, F, Sub(n + 1))
    <3> HIDE DEF h, Sub
    <3> QED BY <2>4
  <2> HIDE DEF h, Sub
  <2> QED BY <2>5
<1>3. Cardinality(D) \in P
  <2> HIDE DEF P
  <2>1. Nat \subseteq P
    BY <1>1, <1>2, Induction
  <2> QED BY <2>1, <1>0
<1>4. Sub(Cardinality(D)) = SUBSET D
  BY FS_Subset
<1> QED BY <1>3, <1>4

\* What SumFunction is, in terms of the recursion.
SumTable(F) == CHOOSE g : Sums(g, F, SUBSET (DOMAIN F))

\* The library's fold over a finite domain is the last line of such a table.
LEMMA SumFunctionTable ==
  ASSUME NEW F
  PROVE  SumFunction(F) = SumTable(F)[DOMAIN F]
BY DEF SumFunction, SumFunctionOnSet, FoldFunctionOnSet, MapThenFoldSet, SumTable, Sums, Chosen

\* A table of partial sums ends in the sum.
LEMMA SumTableSums ==
  ASSUME NEW F, IsFiniteSet(DOMAIN F)
  PROVE  Sums(SumTable(F), F, SUBSET (DOMAIN F))
BY SumsExist DEF SumTable

\* The recursion as a fact about the table.
LEMMA SumTableStep ==
  ASSUME NEW D, IsFiniteSet(D), NEW F \in [D -> Int], NEW s \in SUBSET D
  PROVE  /\ s = {} => SumTable(F)[s] = 0
         /\ s # {} => /\ Chosen(s) \in D
                      /\ SumTable(F)[s] = F[Chosen(s)] + SumTable(F)[s \ {Chosen(s)}]
<1>1. SumTable(F)[s] = IF s = {} THEN 0 ELSE F[Chosen(s)] + SumTable(F)[s \ {Chosen(s)}]
  BY SumTableSums DEF Sums
<1> QED BY <1>1, AnyIn

\* A sum of integers is one.
LEMMA SumTableInt ==
  ASSUME NEW D, IsFiniteSet(D), NEW F \in [D -> Int]
  PROVE  \A s \in SUBSET D : SumTable(F)[s] \in Int
<1> DEFINE Good == {s \in SUBSET D : SumTable(F)[s] \in Int}
<1>1. {} \in Good
  BY SumTableStep
<1>2. \A s \in SUBSET D : s # {} /\ s \ {Chosen(s)} \in Good => s \in Good
  BY SumTableStep
<1> HIDE DEF Good
<1>3. SUBSET D \subseteq Good
  BY <1>1, <1>2, SubsetInduction
<1> QED BY <1>3 DEF Good

(***************************************************************************)
(* If two functions differ in one place only, their sums differ by what    *)
(* they do there: the recursion takes the elements in the same order.      *)
(***************************************************************************)
LEMMA SumChange ==
  ASSUME NEW D, IsFiniteSet(D), NEW F \in [D -> Int], NEW G \in [D -> Int],
         NEW t \in D, \A d \in D \ {t} : F[d] = G[d]
  PROVE  /\ SumFunction(F) \in Int /\ SumFunction(G) \in Int
         /\ SumFunction(G) = SumFunction(F) + (G[t] - F[t])
<1> DEFINE f == SumTable(F)
           g == SumTable(G)
           Differ(s) == g[s] = f[s] + IF t \in s THEN G[t] - F[t] ELSE 0
           Good == {s \in SUBSET D : Differ(s)}
<1>1. \A s \in SUBSET D : f[s] \in Int /\ g[s] \in Int
  BY SumTableInt
<1>2. \A s \in SUBSET D :
        /\ s = {} => f[s] = 0
        /\ s # {} => Chosen(s) \in D /\ f[s] = F[Chosen(s)] + f[s \ {Chosen(s)}]
  BY SumTableStep
<1>3. \A s \in SUBSET D :
        /\ s = {} => g[s] = 0
        /\ s # {} => Chosen(s) \in D /\ g[s] = G[Chosen(s)] + g[s \ {Chosen(s)}]
  BY SumTableStep
<1>4. SumFunction(F) = f[D] /\ SumFunction(G) = g[D]
  BY SumFunctionTable
<1> HIDE DEF f, g
<1>5. {} \in Good
  <2>1. {} \in SUBSET D /\ f[{}] = 0 /\ g[{}] = 0
    BY <1>2, <1>3
  <2> QED BY <2>1
<1>6. \A s \in SUBSET D : s # {} /\ s \ {Chosen(s)} \in Good => s \in Good
  <2> SUFFICES ASSUME NEW s \in SUBSET D, s # {}, s \ {Chosen(s)} \in Good
               PROVE  Differ(s)
    OBVIOUS
  <2> DEFINE r == s \ {Chosen(s)}
  <2>1. Chosen(s) \in s
    BY AnyIn
  <2>2. f[s] = F[Chosen(s)] + f[r] /\ g[s] = G[Chosen(s)] + g[r]
    BY <1>2, <1>3
  <2>3. /\ f[r] \in Int /\ g[r] \in Int
        /\ F[Chosen(s)] \in Int /\ G[Chosen(s)] \in Int /\ F[t] \in Int /\ G[t] \in Int
    BY <1>1, <2>1
  <2>4. Differ(r)
    OBVIOUS
  <2>5. CASE Chosen(s) = t
    <3>1. t \in s /\ t \notin r
      BY <2>1, <2>5
    <3> HIDE DEF r
    <3> QED BY <2>2, <2>3, <2>4, <2>5, <3>1
  <2>6. CASE Chosen(s) # t
    <3>1. t \in s <=> t \in r
      BY <2>6
    <3>2. F[Chosen(s)] = G[Chosen(s)]
      BY <2>1, <2>6
    <3> HIDE DEF r
    <3> QED BY <2>2, <2>3, <2>4, <3>1, <3>2
  <2> QED BY <2>5, <2>6
<1> HIDE DEF Good
<1>7. SUBSET D \subseteq Good
  BY <1>5, <1>6, SubsetInduction
<1>8. Differ(D)
  BY <1>7 DEF Good
<1> QED BY <1>1, <1>4, <1>8

\* A sum of zeros is zero.
LEMMA SumZero ==
  ASSUME NEW D, IsFiniteSet(D), NEW F \in [D -> Int], \A d \in D : F[d] = 0
  PROVE  SumFunction(F) = 0
<1> DEFINE Good == {s \in SUBSET D : SumTable(F)[s] = 0}
<1>1. {} \in Good
  BY SumTableStep
<1>2. \A s \in SUBSET D : s # {} /\ s \ {Chosen(s)} \in Good => s \in Good
  BY SumTableStep
<1> HIDE DEF Good
<1>3. SUBSET D \subseteq Good
  BY <1>1, <1>2, SubsetInduction
<1>4. SumTable(F)[D] = 0
  BY <1>3 DEF Good
<1> QED BY <1>4, SumFunctionTable

\* A sum of numbers that are at most b each is at most b times their number.
LEMMA SumBound ==
  ASSUME NEW D, IsFiniteSet(D), NEW F \in [D -> Int], NEW b \in Int,
         \A d \in D : F[d] <= b
  PROVE  SumFunction(F) <= b * Cardinality(D)
<1> DEFINE f == SumTable(F)
           Good == {s \in SUBSET D : f[s] <= b * Cardinality(s)}
<1>0. \A s \in SUBSET D : /\ IsFiniteSet(s) /\ Cardinality(s) \in Nat
                          /\ Cardinality(s) = 0 <=> s = {}
  BY FS_Subset, FS_CardinalityType, FS_EmptySet
<1>1. \A s \in SUBSET D : f[s] \in Int
  BY SumTableInt
<1>2. \A s \in SUBSET D : s = {} => f[s] = 0
  BY SumTableStep
<1>3. \A s \in SUBSET D :
        s # {} => Chosen(s) \in D /\ f[s] = F[Chosen(s)] + f[s \ {Chosen(s)}]
  BY SumTableStep
<1>4. SumFunction(F) = f[D]
  BY SumFunctionTable
<1> HIDE DEF f
<1>5. {} \in Good
  BY <1>0, <1>2
<1>6. \A s \in SUBSET D : s # {} /\ s \ {Chosen(s)} \in Good => s \in Good
  <2> SUFFICES ASSUME NEW s \in SUBSET D, s # {}, s \ {Chosen(s)} \in Good
               PROVE  f[s] <= b * Cardinality(s)
    OBVIOUS
  <2> DEFINE r == s \ {Chosen(s)}
             n == Cardinality(r)
  <2>1. Chosen(s) \in s
    BY AnyIn
  <2>2. Cardinality(s) = n + 1 /\ n \in Nat
    <3>1. n = Cardinality(s) - 1
      BY <1>0, <2>1, FS_RemoveElement
    <3> QED BY <1>0, <3>1
  <2>3. f[r] <= b * n /\ f[r] \in Int
    BY <1>1
  <2>4. f[s] = F[Chosen(s)] + f[r] /\ F[Chosen(s)] \in Int /\ F[Chosen(s)] <= b
    BY <1>3
  <2> HIDE DEF r, n
  <2>5. b * (n + 1) = b * n + b /\ b * n \in Int
    BY <2>2
  <2> QED BY <2>2, <2>3, <2>4, <2>5
<1> HIDE DEF Good
<1>7. SUBSET D \subseteq Good
  BY <1>5, <1>6, SubsetInduction
<1> QED BY <1>4, <1>7 DEF Good
-----------------------------------------------------------------------------
\* A queue without its n-th element.
LEMMA RemoveAtFacts ==
  ASSUME NEW S, NEW s \in Seq(S), NEW n \in 1 .. Len(s)
  PROVE  /\ RemoveAt(s, n) \in Seq(S)
         /\ Len(RemoveAt(s, n)) = Len(s) - 1
         /\ \A i \in 1 .. Len(s) - 1 : RemoveAt(s, n)[i] = IF i < n THEN s[i] ELSE s[i + 1]
<1> DEFINE a == SubSeq(s, 1, n - 1)
           b == SubSeq(s, n + 1, Len(s))
<1>0. Len(s) \in Nat /\ n \in Int /\ \A i \in 1 .. Len(s) : s[i] \in S
  OBVIOUS
<1>1. /\ a \in Seq(S) /\ Len(a) = n - 1
      /\ \A i \in 1 .. n - 1 : a[i] = s[i]
  BY <1>0
<1>2. /\ b \in Seq(S) /\ Len(b) = Len(s) - n
      /\ \A i \in 1 .. Len(s) - n : b[i] = s[n + i]
  BY <1>0
<1>3. RemoveAt(s, n) = a \o b
  BY DEF RemoveAt
<1> HIDE DEF a, b
<1>4. a \o b \in Seq(S) /\ Len(a \o b) = Len(s) - 1
  <2>1. a \o b \in Seq(S) /\ Len(a \o b) = Len(a) + Len(b)
    BY <1>1, <1>2, ConcatProperties
  <2>2. Len(a) + Len(b) = Len(s) - 1
    BY <1>0, <1>1, <1>2
  <2> QED BY <2>1, <2>2
<1>5. ASSUME NEW i \in 1 .. Len(s) - 1
      PROVE  (a \o b)[i] = IF i < n THEN s[i] ELSE s[i + 1]
  <2>1. i \in 1 .. Len(a) + Len(b) /\ i \in Int
    BY <1>0, <1>1, <1>2
  <2>2. (a \o b)[i] = IF i <= Len(a) THEN a[i] ELSE b[i - Len(a)]
    BY <1>1, <1>2, <2>1, ConcatProperties
  <2>3. CASE i < n
    <3>1. i \in 1 .. n - 1 /\ i <= Len(a)
      BY <1>0, <1>1, <2>1, <2>3
    <3> QED BY <1>1, <2>2, <2>3, <3>1
  <2>4. CASE ~(i < n)
    <3>1. i - (n - 1) \in 1 .. Len(s) - n /\ ~(i <= Len(a)) /\ n + (i - (n - 1)) = i + 1
      BY <1>0, <1>1, <2>1, <2>4
    <3>2. b[i - (n - 1)] = s[n + (i - (n - 1))]
      BY <1>2, <3>1
    <3> QED BY <1>1, <2>2, <2>4, <3>1, <3>2
  <2> QED BY <2>3, <2>4
<1> QED BY <1>3, <1>4, <1>5

\* Another element goes to the end of it.
LEMMA MoveToEnd ==
  ASSUME NEW S, NEW s \in Seq(S), NEW n \in 1 .. Len(s), NEW e \in S
  PROVE  /\ Append(RemoveAt(s, n), e) \in Seq(S) /\ Len(Append(RemoveAt(s, n), e)) = Len(s)
         /\ \A i \in 1 .. Len(s) :
              Append(RemoveAt(s, n), e)[i] = IF i = Len(s) THEN e ELSE IF i < n THEN s[i] ELSE s[i + 1]
<1> DEFINE r == RemoveAt(s, n)
<1>1. /\ r \in Seq(S) /\ Len(r) = Len(s) - 1
      /\ \A i \in 1 .. Len(s) - 1 : r[i] = IF i < n THEN s[i] ELSE s[i + 1]
  BY RemoveAtFacts
<1> HIDE DEF r
<1>2. /\ Append(r, e) \in Seq(S) /\ Len(Append(r, e)) = Len(s)
      /\ \A i \in 1 .. Len(s) :
           Append(r, e)[i] = IF i = Len(s) THEN e ELSE IF i < n THEN s[i] ELSE s[i + 1]
  BY <1>1
<1> QED BY <1>2 DEF r
=============================================================================
