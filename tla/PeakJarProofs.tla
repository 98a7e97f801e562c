---------------------------- MODULE PeakJarProofs ----------------------------
(***************************************************************************)
(* The jar of lib/peak_jar.c, for buffers, blocks and sets of any size and *)
(* any number of contexts, as long as its serials stay in the first half   *)
(* of their range: wrap32() orders two serials only if they are not        *)
(* further apart, and an old context is never told of the serials that     *)
(* went by.                                                                *)
(*                                                                         *)
(* Everything that belongs to a set is found between where the set before  *)
(* it ended and where writing continues, round the buffer.  A write that   *)
(* does not overtake the read position leaves all of that alone, and what  *)
(* is behind the oldest set becomes what is behind the read position when  *)
(* that set is freed.                                                      *)
(***************************************************************************)
EXTENDS PeakJar, SequenceTheorems, PeakArithmetic

\* Serials are in the first half of their range.
Young == 2 * last_serial < SerialSize

ContextType == [datas : Seq(DataType), first_serial : Serials, last_serial : Serials]

\* The type invariant, with lists that are sequences and positions in range.
JarType ==
  /\ state \in {"ok", "wild"}
  /\ write \in 0 .. Size - 1
  /\ read \in 0 .. Size - 1
  /\ heads \in Seq(HeadType)
  /\ \A n \in DOMAIN heads : heads[n].write < Size
  /\ first_serial \in Serials
  /\ last_serial \in Serials
  /\ ctx \in [Contexts -> ContextType]
  /\ packing \in {<<>>} \cup (Contexts \X Lens)
  /\ known \subseteq {"overtaken", "patched"}

\* The serials of the sets, as numbers that do not wrap around.
SerialInv ==
  /\ first_serial + Len(heads) = last_serial
  /\ \A n \in DOMAIN heads : heads[n].serial = first_serial + (n - 1)

\* A list of blocks, all of them older than the serial l, is in order.
ListOK(ds, l) ==
  /\ \A n \in DOMAIN ds : ds[n].serial < l /\ ds[n].prev_serial <= l
  /\ \A m, n \in DOMAIN ds : m < n => ds[n].serial <= ds[m].serial

ContextOK(x, l) ==
  ListOK(x.datas, l) /\ x.first_serial <= l /\ x.last_serial <= l

ListsInv == \A c \in Contexts : ContextOK(ctx[c], last_serial)

\* Does what is at p, of that size, lie between r and w, round the buffer?
Within(r, w, p, size) ==
  IF r <= w THEN r <= p /\ p + size <= w ELSE p + size <= w \/ r <= p

\* The place of what belongs to the m-th set, with the list hs of headers.
InSet(hs, rd, w, m, p, size) ==
  /\ Within(rd, w, p, size)
  /\ \A n \in 1 .. m - 1 : Within(hs[n].write, w, p, size)

HeadOK(hs, rd, w, m) ==
  /\ hs[m].ok
  /\ InSet(hs, rd, w, m, hs[m].at, HeadSize)
  /\ InSet(hs, rd, w, m, hs[m].write, 0)

DataOK(hs, rd, w, b) ==
  \A m \in DOMAIN hs :
    b.serial = hs[m].serial => b.ok /\ InSet(hs, rd, w, m, b.at, DataSize + b.len)

Layout(hs, rd, w, cx) ==
  /\ hs # <<>> => hs[Len(hs)].write = w
  /\ \A m \in DOMAIN hs : HeadOK(hs, rd, w, m)
  /\ \A c \in Contexts : \A n \in DOMAIN cx[c].datas : DataOK(hs, rd, w, cx[c].datas[n])

LayoutInv == state = "ok" /\ "overtaken" \notin known => Layout(heads, read, write, ctx)

\* A context's serials are those of the ends of its list.
EndsOK(x) ==
  x.datas # <<>> => /\ x.last_serial = x.datas[1].serial
                    /\ x.first_serial = x.datas[Len(x.datas)].serial
                    /\ Len(x.datas) > 1 => x.datas[1].prev_serial = x.datas[2].serial

PointerInv == known = {} => state = "ok" /\ \A c \in Contexts : EndsOK(ctx[c])

JarInv == JarType /\ SerialInv /\ ListsInv /\ LayoutInv /\ PointerInv
-----------------------------------------------------------------------------
\* What is known of the constants.
LEMMA ConstantFacts ==
  /\ Size \in Nat /\ Size >= 16 /\ HeadSize \in Nat /\ HeadSize > 0
  /\ DataSize \in Nat /\ DataSize > 0 /\ HeadCount \in Nat
  /\ SerialSize \in Nat \ {0} /\ SerialSize >= 2 /\ Lens \subseteq Nat
BY JarAssumption

\* Two serials in the first half of the range compare as numbers do.
LEMMA WrapLess ==
  ASSUME NEW a \in Nat, NEW b \in Nat, 2 * a < SerialSize, 2 * b < SerialSize
  PROVE  Wrap32(a - b) <=> a < b
<1> DEFINE N == SerialSize
           h == (N - 1) \div 2
           r == (N - 1) % 2
<1>1. N \in Nat \ {0} /\ N - 1 \in Int /\ 2 \in Nat \ {0}
  BY ConstantFacts
<1>2. h \in Int /\ r \in Int /\ N - 1 = 2 * h + r /\ 0 <= r /\ r < 2
  <2> DEFINE x == N - 1
  <2>1. x \in Int
    BY <1>1
  <2> HIDE DEF x
  <2> QED BY <1>1, <2>1, DivMod DEF x
<1>3. Wrap32(a - b) <=> (a - b) % N > h
  BY DEF Wrap32, Uint
<1>4. 2 * a < N /\ 2 * b < N
  OBVIOUS
<1> HIDE DEF N, h, r
<1>5. a <= h /\ b <= h
  BY <1>1, <1>2, <1>4
<1>6. CASE b <= a
  <2>1. a - b \in Int /\ 0 <= a - b /\ a - b < N /\ a - b <= h
    BY <1>1, <1>2, <1>4, <1>5, <1>6
  <2>2. (a - b) % N = a - b
    BY <1>1, <2>1, ModSmall
  <2> QED BY <1>2, <1>3, <1>6, <2>1, <2>2
<1>7. CASE a < b
  <2> DEFINE q == N + (a - b)
  <2>1. q \in Int /\ 0 <= q /\ q < N /\ q > h
    BY <1>1, <1>2, <1>4, <1>5, <1>7
  <2>2. a - b = N * (-1) + q
    BY <1>1
  <2> HIDE DEF q
  <2>3. \A e \in Int : (N * e + q) % N = q
    BY <1>1, <2>1, DivModUnique
  <2>4. -1 \in Int
    OBVIOUS
  <2>5. (a - b) % N = q
    BY <2>2, <2>3, <2>4, Zenon
  <2> QED BY <1>3, <1>7, <2>1, <2>5
<1> QED BY <1>6, <1>7

\* The next serial.
LEMMA NextSerial ==
  ASSUME NEW a \in Nat, 2 * a < SerialSize
  PROVE  Uint(a + 1) = a + 1 /\ a + 1 \in Serials
<1>1. SerialSize \in Nat \ {0} /\ SerialSize >= 2 /\ a + 1 \in Int /\ 0 <= a + 1
      /\ a + 1 < SerialSize
  BY ConstantFacts
<1> QED BY <1>1, ModSmall DEF Uint, Serials

\* What is there stays between r and where writing continues, if r does.
LEMMA WithinKept ==
  ASSUME JarType, NEW room \in Nat, Granted(room), ~Overtakes(room),
         NEW r \in Nat, NEW p \in Nat, NEW size \in Nat,
         Within(read, write, r, 0), Within(r, write, p, size)
  PROVE  Within(r, NewWrite(room), p, size)
BY ConstantFacts
DEF JarType, Granted, FreeRoom, Overtakes, Wraps, Within, NewWrite, Place

\* What is written is between r and where writing continues.
LEMMA WithinNew ==
  ASSUME JarType, NEW room \in Nat, Granted(room), ~Overtakes(room),
         NEW r \in Nat, Within(read, write, r, 0)
  PROVE  /\ Within(r, NewWrite(room), Place(room), room)
         /\ Within(r, NewWrite(room), NewWrite(room), 0)
BY ConstantFacts
DEF JarType, Granted, FreeRoom, Overtakes, Wraps, Within, NewWrite, Place

\* What is behind the read position is not overwritten.
LEMMA WithinSafe ==
  ASSUME JarType, NEW room \in Nat, Granted(room), ~Overtakes(room),
         NEW b, b.at \in Nat, NEW size \in Nat, Within(read, write, b.at, size)
  PROVE  ~Overlaps(b, size, room)
BY ConstantFacts
DEF JarType, Granted, FreeRoom, Overtakes, Wraps, Within, NewWrite, Place, Overlaps

\* Writing continues within the buffer.
LEMMA WriteInBuffer ==
  ASSUME JarType, NEW room \in Nat, Granted(room)
  PROVE  NewWrite(room) \in 0 .. Size - 1 /\ Place(room) \in 0 .. Size - 1
BY ConstantFacts
DEF JarType, Granted, FreeRoom, Wraps, NewWrite, Place
-----------------------------------------------------------------------------
\* A list picks elements of another one, in their order.
Picks(s, t) ==
  \E f \in [DOMAIN s -> DOMAIN t] :
    /\ \A m, n \in DOMAIN s : m < n => f[m] < f[n]
    /\ \A n \in DOMAIN s : s[n] = t[f[n]]

\* Finitely many numbers can be put in order.
LEMMA Enumeration ==
  ASSUME NEW S, S \subseteq Nat, IsFiniteSet(S)
  PROVE  \E s \in [1 .. Cardinality(S) -> S] : \A m, n \in DOMAIN s : m < n => s[m] < s[n]
<1> DEFINE Ordered(T) ==
             \E s \in [1 .. Cardinality(T) -> T] : \A m, n \in DOMAIN s : m < n => s[m] < s[n]
           P == {k \in Nat : \A T \in SUBSET S : Cardinality(T) = k => Ordered(T)}
<1>1. 0 \in P
  <2> SUFFICES ASSUME NEW T \in SUBSET S, Cardinality(T) = 0 PROVE Ordered(T)
    OBVIOUS
  <2>1. T = {}
    BY FS_Subset, FS_EmptySet
  <2> DEFINE s == [i \in 1 .. Cardinality(T) |-> i]
  <2>2. 1 .. Cardinality(T) = {}
    OBVIOUS
  <2>3. s \in [1 .. Cardinality(T) -> T] /\ DOMAIN s = {}
    BY <2>2
  <2> HIDE DEF s
  <2> QED BY <2>3
<1>2. ASSUME NEW k \in Nat, k \in P PROVE k + 1 \in P
  <2> SUFFICES ASSUME NEW T \in SUBSET S, Cardinality(T) = k + 1 PROVE Ordered(T)
    OBVIOUS
  <2>1. T \subseteq Nat /\ IsFiniteSet(T) /\ T # {}
    <3>1. IsFiniteSet(T) /\ Cardinality({}) = 0
      BY FS_Subset, FS_EmptySet
    <3> QED BY <3>1
  <2> DEFINE x == Min(T)
             U == T \ {x}
  <2>2. x \in T /\ x \in Nat /\ \A y \in T : x <= y
    BY <2>1, MinNat
  <2>3. Cardinality(U) = k /\ U \in SUBSET S
    <3>1. Cardinality(U) = Cardinality(T) - 1
      BY <2>1, <2>2, FS_RemoveElement
    <3> HIDE DEF x
    <3>2. U \in SUBSET S
      OBVIOUS
    <3>3. (k + 1) - 1 = k
      OBVIOUS
    <3> QED BY <3>1, <3>2, <3>3
  <2>4. Ordered(U)
    BY <1>2, <2>3
  <2>5. PICK s \in [1 .. k -> U] : \A m, n \in 1 .. k : m < n => s[m] < s[n]
    BY <2>3, <2>4
  <2> HIDE DEF x
  <2> DEFINE t == [i \in 1 .. k + 1 |-> IF i = 1 THEN x ELSE s[i - 1]]
  <2>6. \A i \in 1 .. k + 1 : i # 1 => i - 1 \in 1 .. k
    OBVIOUS
  <2>7. t \in [1 .. k + 1 -> T]
    BY <2>2, <2>5, <2>6
  <2>8. ASSUME NEW m \in 1 .. k + 1, NEW n \in 1 .. k + 1, m < n
        PROVE  t[m] < t[n]
    <3>1. n # 1 /\ n - 1 \in 1 .. k /\ t[n] = s[n - 1] /\ s[n - 1] \in U
      BY <2>5, <2>8
    <3>2. CASE m = 1
      <4>1. t[m] = x
        BY <3>2
      <4>2. t[n] \in T /\ t[n] # x /\ t[n] \in Nat
        BY <2>1, <3>1
      <4> QED BY <2>2, <4>1, <4>2
    <3>3. CASE m # 1
      <4>1. m - 1 \in 1 .. k /\ m - 1 < n - 1 /\ t[m] = s[m - 1]
        BY <2>8, <3>3
      <4> QED BY <2>5, <3>1, <4>1
    <3> QED BY <3>2, <3>3
  <2> HIDE DEF t
  <2> QED BY <2>7, <2>8
<1> HIDE DEF Ordered
<1>3. Nat \subseteq P
  <2> HIDE DEF P
  <2> QED BY <1>1, <1>2, Induction
<1>4. Cardinality(S) \in Nat
  BY FS_CardinalityType
<1>5. Ordered(S)
  BY <1>3, <1>4
<1> QED BY <1>5 DEF Ordered

\* An increasing map of 1 .. k to itself is the identity.
LEMMA IncreasingIdentity ==
  ASSUME NEW k \in Nat, NEW f \in [1 .. k -> 1 .. k],
         \A m, n \in 1 .. k : m < n => f[m] < f[n]
  PROVE  \A n \in 1 .. k : f[n] = n
<1> DEFINE P == {n \in Nat : n \in 1 .. k => f[n] >= n}
           Q == {n \in Nat : k - n \in 1 .. k => f[k - n] <= k - n}
<1>1. 0 \in P
  OBVIOUS
<1>2. ASSUME NEW n \in Nat, n \in P PROVE n + 1 \in P
  <2> SUFFICES ASSUME n + 1 \in 1 .. k PROVE f[n + 1] >= n + 1
    OBVIOUS
  <2>1. f[n + 1] \in 1 .. k
    OBVIOUS
  <2>2. CASE n = 0
    BY <2>1, <2>2
  <2>3. CASE n # 0
    <3>1. n \in 1 .. k /\ n < n + 1 /\ f[n] \in 1 .. k
      BY <2>3
    <3>2. f[n] >= n /\ f[n] < f[n + 1]
      BY <1>2, <3>1
    <3> QED BY <2>1, <3>1, <3>2
  <2> QED BY <2>2, <2>3
<1>3. Nat \subseteq P
  <2> HIDE DEF P
  <2> QED BY <1>1, <1>2, Induction
<1>4. 0 \in Q
  OBVIOUS
<1>5. ASSUME NEW n \in Nat, n \in Q PROVE n + 1 \in Q
  <2> SUFFICES ASSUME k - (n + 1) \in 1 .. k PROVE f[k - (n + 1)] <= k - (n + 1)
    OBVIOUS
  <2> DEFINE i == k - (n + 1)
             j == k - n
  <2>1. i \in 1 .. k /\ j \in 1 .. k /\ i < j /\ j = i + 1
    OBVIOUS
  <2>2. f[j] <= j
    BY <1>5, <2>1
  <2> HIDE DEF i, j
  <2>3. f[i] < f[j] /\ f[i] \in 1 .. k /\ f[j] \in 1 .. k
    BY <2>1
  <2>4. f[i] <= i
    BY <2>1, <2>2, <2>3
  <2> QED BY <2>4 DEF i
<1>6. Nat \subseteq Q
  <2> HIDE DEF Q
  <2> QED BY <1>4, <1>5, Induction
<1> TAKE n \in 1 .. k
<1>7. f[n] >= n
  BY <1>3
<1>8. f[n] <= n
  <2>1. k - n \in Nat /\ k - (k - n) = n
    OBVIOUS
  <2>2. k - n \in Q
    BY <1>6, <2>1
  <2> QED BY <2>1, <2>2
<1>9. f[n] \in 1 .. k
  OBVIOUS
<1> QED BY <1>7, <1>8, <1>9

\* What is left of a list when blocks are dropped.
LEMMA WithoutList ==
  ASSUME NEW X, NEW ds \in Seq(X), NEW D
  PROVE  /\ Without(ds, D) \in Seq(X)
         /\ Picks(Without(ds, D), ds)
         /\ D = {} => Without(ds, D) = ds
<1> DEFINE K == DOMAIN ds \ D
           k == Cardinality(K)
           Up(s) == \A m, n \in DOMAIN s : m < n => s[m] < s[n]
           keep == CHOOSE s \in [1 .. k -> K] : Up(s)
<1>1. DOMAIN ds = 1 .. Len(ds) /\ Len(ds) \in Nat
  OBVIOUS
<1>2. K \subseteq Nat /\ IsFiniteSet(K)
  <2>1. IsFiniteSet(1 .. Len(ds))
    BY <1>1, FS_Interval
  <2> QED BY <1>1, <2>1, FS_Subset
<1>3. k \in Nat
  BY <1>2, FS_CardinalityType
<1>4. \E s \in [1 .. k -> K] : Up(s)
  <2> HIDE DEF K
  <2> QED BY <1>2, Enumeration
<1>5. keep \in [1 .. k -> K] /\ Up(keep)
  <2> HIDE DEF K, k, Up
  <2> QED BY <1>4
<1>6. Without(ds, D) = [n \in DOMAIN keep |-> ds[keep[n]]]
  BY DEF Without
<1> HIDE DEF keep, k
<1>7. Without(ds, D) = [n \in 1 .. k |-> ds[keep[n]]]
  BY <1>5, <1>6
<1>8. \A n \in 1 .. k : keep[n] \in DOMAIN ds /\ ds[keep[n]] \in X
  BY <1>5
<1>9. Without(ds, D) \in Seq(X)
  BY <1>3, <1>7, <1>8
<1>10. Picks(Without(ds, D), ds)
  <2>1. DOMAIN Without(ds, D) = 1 .. k
    BY <1>7
  <2>2. keep \in [1 .. k -> DOMAIN ds]
    BY <1>5
  <2>3. \A n \in 1 .. k : Without(ds, D)[n] = ds[keep[n]]
    BY <1>7
  <2> QED BY <1>5, <2>1, <2>2, <2>3 DEF Picks
<1>11. ASSUME D = {} PROVE Without(ds, D) = ds
  <2>1. K = 1 .. Len(ds)
    BY <1>1, <1>11
  <2>2. k = Len(ds)
    <3>1. Cardinality(1 .. Len(ds)) = Len(ds)
      BY <1>1, FS_Interval
    <3> QED BY <2>1, <3>1 DEF k
  <2>3. \A n \in 1 .. k : keep[n] = n
    BY <1>3, <1>5, <2>1, <2>2, IncreasingIdentity
  <2>4. Without(ds, D) = [n \in 1 .. k |-> ds[n]]
    BY <1>7, <2>3
  <2> QED BY <2>2, <2>4
<1> QED BY <1>9, <1>10, <1>11

\* A list that picks from one in order is in order.
LEMMA PickedList ==
  ASSUME NEW s \in Seq(DataType), NEW t \in Seq(DataType), Picks(s, t), NEW l, ListOK(t, l)
  PROVE  ListOK(s, l) /\ \A n \in DOMAIN s : \E m \in DOMAIN t : s[n] = t[m]
<1>1. PICK f \in [DOMAIN s -> DOMAIN t] :
        /\ \A m, n \in DOMAIN s : m < n => f[m] < f[n]
        /\ \A n \in DOMAIN s : s[n] = t[f[n]]
  BY DEF Picks
<1>2. \A n \in DOMAIN s : f[n] \in DOMAIN t
  BY <1>1
<1> QED BY <1>1, <1>2 DEF ListOK
-----------------------------------------------------------------------------
\* The parts of a context, of a header and of a block.
LEMMA RecordFacts ==
  /\ \A x \in ContextType : /\ x.datas \in Seq(DataType) /\ x.first_serial \in Serials
                            /\ x.last_serial \in Serials
  /\ \A b \in DataType : /\ b.at \in Nat /\ b.len \in Lens /\ b.len \in Nat
                         /\ b.ok \in BOOLEAN
                         /\ b.serial \in Serials /\ b.prev_serial \in Serials
                         /\ DataSize + b.len \in Nat
  /\ \A h \in HeadType : /\ h.at \in Nat /\ h.write \in Nat /\ h.ok \in BOOLEAN
                         /\ h.serial \in Serials /\ h.count \in 0 .. HeadCount + 1
  /\ Serials \subseteq Nat
<1>1. Serials \subseteq Nat /\ 0 .. Size \subseteq Nat /\ Lens \subseteq Nat /\ DataSize \in Nat
  BY ConstantFacts DEF Serials
<1>2. \A x \in ContextType : /\ x.datas \in Seq(DataType) /\ x.first_serial \in Serials
                             /\ x.last_serial \in Serials
  BY DEF ContextType
<1>3. \A b \in DataType : /\ b.at \in Nat /\ b.len \in Lens /\ b.len \in Nat
                          /\ b.ok \in BOOLEAN
                          /\ b.serial \in Serials /\ b.prev_serial \in Serials
                          /\ DataSize + b.len \in Nat
  <2>1. \A b \in DataType : /\ b.at \in 0 .. Size /\ b.len \in Lens /\ b.ok \in BOOLEAN
                            /\ b.serial \in Serials /\ b.prev_serial \in Serials
    BY DEF DataType
  <2>2. \A b \in DataType : b.at \in Nat /\ b.len \in Nat /\ DataSize + b.len \in Nat
    <3> TAKE b \in DataType
    <3> DEFINE a == b.at
               l == b.len
    <3>1. a \in 0 .. Size /\ l \in Lens
      BY <2>1, Zenon
    <3> HIDE DEF a, l
    <3>2. a \in Nat /\ l \in Nat /\ DataSize + l \in Nat
      BY <3>1, ConstantFacts
    <3> QED BY <3>2, Zenon DEF a, l
  <2> QED BY <2>1, <2>2, Zenon
<1>4. \A h \in HeadType : /\ h.at \in Nat /\ h.write \in Nat /\ h.ok \in BOOLEAN
                          /\ h.serial \in Serials /\ h.count \in 0 .. HeadCount + 1
  BY <1>1 DEF HeadType
<1> QED BY <1>1, <1>2, <1>3, <1>4

\* What peak_jar_repair() does to a context, case by case.
LEMMA RepairCases ==
  ASSUME NEW x \in ContextType
  PROVE  /\ Repair(x) \in ContextType /\ Repair(x).last_serial = x.last_serial
         /\ Torn(x) /\ HasSecond(x) =>
              /\ Repair(x).datas = <<x.datas[2]>>
              /\ Repair(x).first_serial = x.datas[2].serial
         /\ Torn(x) /\ ~HasSecond(x) =>
              Repair(x).datas = <<>> /\ Repair(x).first_serial = x.datas[1].serial
         /\ ~Torn(x) /\ Gone(x) =>
              Repair(x).datas = <<>> /\ Repair(x).first_serial = x.first_serial
         /\ ~Torn(x) /\ ~Gone(x) => Repair(x) = x
         /\ Torn(x) => 1 \in DOMAIN x.datas
         /\ HasSecond(x) => 2 \in DOMAIN x.datas
<1>1. x.datas \in Seq(DataType) /\ \A n \in DOMAIN x.datas : x.datas[n].serial \in Serials
  BY RecordFacts
<1>2. <<>> \in Seq(DataType)
  OBVIOUS
<1>3. /\ Torn(x) /\ HasSecond(x) =>
           Repair(x) = [x EXCEPT !.datas = <<x.datas[2]>>, !.first_serial = x.datas[2].serial]
      /\ Torn(x) /\ ~HasSecond(x) =>
           Repair(x) = [x EXCEPT !.datas = <<>>, !.first_serial = x.datas[1].serial]
      /\ ~Torn(x) /\ Gone(x) => Repair(x) = [x EXCEPT !.datas = <<>>]
      /\ ~Torn(x) /\ ~Gone(x) => Repair(x) = x
  BY DEF Repair
<1>4. /\ Torn(x) => 1 \in DOMAIN x.datas
      /\ HasSecond(x) => 2 \in DOMAIN x.datas
  BY <1>1 DEF Torn, HasSecond
<1>5. CASE Torn(x) /\ HasSecond(x)
  <2> DEFINE ds == <<x.datas[2]>>
             f == x.datas[2].serial
             y == Repair(x)
  <2>1. ds \in Seq(DataType) /\ f \in Serials
    BY <1>1, <1>4, <1>5
  <2>2. y = [x EXCEPT !.datas = ds, !.first_serial = f]
    BY <1>3, <1>5
  <2> HIDE DEF ds, f, y
  <2>3. /\ y \in ContextType /\ y.last_serial = x.last_serial
        /\ y.datas = ds /\ y.first_serial = f
    BY <2>1, <2>2 DEF ContextType
  <2> QED BY <1>4, <1>5, <2>3 DEF ds, f, y
<1>6. CASE Torn(x) /\ ~HasSecond(x)
  <2> DEFINE ds == <<>>
             f == x.datas[1].serial
             y == Repair(x)
  <2>1. ds \in Seq(DataType) /\ f \in Serials
    BY <1>1, <1>2, <1>4, <1>6
  <2>2. y = [x EXCEPT !.datas = ds, !.first_serial = f]
    BY <1>3, <1>6
  <2> HIDE DEF ds, f, y
  <2>3. /\ y \in ContextType /\ y.last_serial = x.last_serial
        /\ y.datas = ds /\ y.first_serial = f
    BY <2>1, <2>2 DEF ContextType
  <2> QED BY <1>4, <1>6, <2>3 DEF ds, f, y
<1>7. CASE ~Torn(x) /\ Gone(x)
  <2> DEFINE ds == <<>>
             y == Repair(x)
  <2>1. ds \in Seq(DataType)
    BY <1>2
  <2>2. y = [x EXCEPT !.datas = ds]
    BY <1>3, <1>7
  <2> HIDE DEF ds, y
  <2>3. /\ y \in ContextType /\ y.last_serial = x.last_serial
        /\ y.datas = ds /\ y.first_serial = x.first_serial
    BY <2>1, <2>2 DEF ContextType
  <2> QED BY <1>4, <1>7, <2>3 DEF ds, y
<1>8. CASE ~Torn(x) /\ ~Gone(x)
  BY <1>3, <1>4, <1>8
<1> QED BY <1>5, <1>6, <1>7, <1>8

\* A repaired context is one in order, with some of the blocks it had.
LEMMA RepairedContext ==
  ASSUME NEW x \in ContextType, NEW l \in Nat, ContextOK(x, l)
  PROVE  /\ Repair(x) \in ContextType /\ ContextOK(Repair(x), l)
         /\ \A n \in DOMAIN Repair(x).datas : \E m \in DOMAIN x.datas : Repair(x).datas[n] = x.datas[m]
<1>1. /\ x.first_serial <= l /\ x.last_serial <= l /\ ListOK(x.datas, l)
      /\ \A n \in DOMAIN x.datas : x.datas[n].serial <= l
  <2>1. /\ x.first_serial <= l /\ x.last_serial <= l /\ ListOK(x.datas, l)
        /\ \A n \in DOMAIN x.datas : x.datas[n].serial < l
    BY DEF ContextOK, ListOK
  <2>2. \A n \in DOMAIN x.datas : x.datas[n].serial \in Nat
    <3>1. x.datas \in Seq(DataType)
      BY RecordFacts
    <3>2. \A n \in DOMAIN x.datas : x.datas[n] \in DataType
      BY <3>1
    <3> QED BY <3>2, RecordFacts
  <2> QED BY <2>1, <2>2
<1>2. Repair(x) \in ContextType /\ Repair(x).last_serial = x.last_serial
  BY RepairCases
<1>3. CASE Torn(x) /\ HasSecond(x)
  <2> DEFINE b == x.datas[2]
  <2>1. Repair(x).datas = <<b>> /\ Repair(x).first_serial = b.serial /\ 2 \in DOMAIN x.datas
    BY <1>3, RepairCases
  <2>2. b.serial <= l /\ b.serial < l /\ b.prev_serial <= l
    BY <1>1, <2>1 DEF ListOK
  <2>3. b = x.datas[2]
    OBVIOUS
  <2> HIDE DEF b
  <2>4. ListOK(<<b>>, l)
    BY <2>2 DEF ListOK
  <2>5. \A n \in DOMAIN <<b>> : <<b>>[n] = b
    OBVIOUS
  <2> QED BY <1>1, <1>2, <2>1, <2>2, <2>3, <2>4, <2>5 DEF ContextOK
<1>4. CASE ~(Torn(x) /\ HasSecond(x)) /\ Repair(x) # x
  <2>1. /\ Repair(x).datas = <<>>
        /\ \/ Repair(x).first_serial = x.first_serial
           \/ 1 \in DOMAIN x.datas /\ Repair(x).first_serial = x.datas[1].serial
    BY <1>4, RepairCases
  <2>2. Repair(x).first_serial <= l
    BY <1>1, <2>1
  <2>3. ListOK(<<>>, l)
    BY DEF ListOK
  <2> QED BY <1>1, <1>2, <2>1, <2>2, <2>3 DEF ContextOK
<1>5. CASE Repair(x) = x
  BY <1>5
<1> QED BY <1>3, <1>4, <1>5

\* What a write leaves of a list of blocks.
LEMMA DatasAfterList ==
  ASSUME NEW ds \in Seq(DataType), NEW room \in Nat
  PROVE  /\ DatasAfter(ds, room) \in Seq(DataType)
         /\ DOMAIN DatasAfter(ds, room) = DOMAIN ds
         /\ Len(DatasAfter(ds, room)) = Len(ds)
         /\ \A n \in DOMAIN ds :
              /\ DatasAfter(ds, room)[n].at = ds[n].at
              /\ DatasAfter(ds, room)[n].len = ds[n].len
              /\ DatasAfter(ds, room)[n].serial = ds[n].serial
              /\ DatasAfter(ds, room)[n].prev_serial = ds[n].prev_serial
              /\ DatasAfter(ds, room)[n].ok
                   <=> ds[n].ok /\ ~Overlaps(ds[n], DataSize + ds[n].len, room)
         /\ \A l : ListOK(ds, l) => ListOK(DatasAfter(ds, room), l)
<1> DEFINE new(n) == [ds[n] EXCEPT !.ok = @ /\ ~Overlaps(ds[n], DataSize + ds[n].len, room)]
           es == DatasAfter(ds, room)
<1>1. DOMAIN ds = 1 .. Len(ds) /\ Len(ds) \in Nat
  OBVIOUS
<1>2. es = [n \in 1 .. Len(ds) |-> new(n)]
  BY <1>1 DEF DatasAfter
<1>3. ASSUME NEW n \in DOMAIN ds
      PROVE  /\ new(n) \in DataType
             /\ new(n).at = ds[n].at /\ new(n).len = ds[n].len
             /\ new(n).serial = ds[n].serial /\ new(n).prev_serial = ds[n].prev_serial
             /\ new(n).ok <=> ds[n].ok /\ ~Overlaps(ds[n], DataSize + ds[n].len, room)
  <2> DEFINE v == ds[n].ok /\ ~Overlaps(ds[n], DataSize + ds[n].len, room)
  <2>1. ds[n] \in DataType /\ v \in BOOLEAN
    BY RecordFacts
  <2>2. new(n) = [ds[n] EXCEPT !.ok = v]
    OBVIOUS
  <2> HIDE DEF v
  <2>3. /\ new(n) \in DataType
        /\ new(n).at = ds[n].at /\ new(n).len = ds[n].len
        /\ new(n).serial = ds[n].serial /\ new(n).prev_serial = ds[n].prev_serial
        /\ new(n).ok = v
    BY <2>1, <2>2 DEF DataType
  <2> QED BY <2>3 DEF v
<1> HIDE DEF new
<1>4. es \in Seq(DataType) /\ DOMAIN es = DOMAIN ds /\ Len(es) = Len(ds)
      /\ \A n \in DOMAIN ds : es[n] = new(n)
  BY <1>1, <1>2, <1>3
<1> HIDE DEF es
<1>5. \A l : ListOK(ds, l) => ListOK(es, l)
  BY <1>3, <1>4 DEF ListOK
<1>6. \A n \in DOMAIN ds :
        /\ es[n].at = ds[n].at /\ es[n].len = ds[n].len
        /\ es[n].serial = ds[n].serial /\ es[n].prev_serial = ds[n].prev_serial
        /\ es[n].ok <=> ds[n].ok /\ ~Overlaps(ds[n], DataSize + ds[n].len, room)
  BY <1>3, <1>4
<1> QED BY <1>4, <1>5, <1>6 DEF es

\* What a write leaves of the headers.
LEMMA HeadsAfterList ==
  ASSUME heads \in Seq(HeadType), NEW room \in Nat
  PROVE  /\ HeadsAfter(room) \in Seq(HeadType)
         /\ DOMAIN HeadsAfter(room) = DOMAIN heads
         /\ Len(HeadsAfter(room)) = Len(heads)
         /\ \A n \in DOMAIN heads :
              /\ HeadsAfter(room)[n].at = heads[n].at
              /\ HeadsAfter(room)[n].serial = heads[n].serial
              /\ HeadsAfter(room)[n].count = heads[n].count
              /\ HeadsAfter(room)[n].write = heads[n].write
              /\ HeadsAfter(room)[n].ok <=> heads[n].ok /\ ~Overlaps(heads[n], HeadSize, room)
<1> DEFINE new(n) == [heads[n] EXCEPT !.ok = @ /\ ~Overlaps(heads[n], HeadSize, room)]
           es == HeadsAfter(room)
<1>1. DOMAIN heads = 1 .. Len(heads) /\ Len(heads) \in Nat
  OBVIOUS
<1>2. es = [n \in 1 .. Len(heads) |-> new(n)]
  BY <1>1 DEF HeadsAfter
<1>3. ASSUME NEW n \in DOMAIN heads
      PROVE  /\ new(n) \in HeadType
             /\ new(n).at = heads[n].at /\ new(n).serial = heads[n].serial
             /\ new(n).count = heads[n].count /\ new(n).write = heads[n].write
             /\ new(n).ok <=> heads[n].ok /\ ~Overlaps(heads[n], HeadSize, room)
  <2> DEFINE v == heads[n].ok /\ ~Overlaps(heads[n], HeadSize, room)
  <2>1. heads[n] \in HeadType /\ v \in BOOLEAN
    BY RecordFacts
  <2>2. new(n) = [heads[n] EXCEPT !.ok = v]
    OBVIOUS
  <2> HIDE DEF v
  <2>3. /\ new(n) \in HeadType
        /\ new(n).at = heads[n].at /\ new(n).serial = heads[n].serial
        /\ new(n).count = heads[n].count /\ new(n).write = heads[n].write
        /\ new(n).ok = v
    BY <2>1, <2>2 DEF HeadType
  <2> QED BY <2>3 DEF v
<1> HIDE DEF new
<1>4. es \in Seq(HeadType) /\ DOMAIN es = DOMAIN heads /\ Len(es) = Len(heads)
      /\ \A n \in DOMAIN heads : es[n] = new(n)
  BY <1>1, <1>2, <1>3
<1> HIDE DEF es
<1>5. \A n \in DOMAIN heads :
        /\ es[n].at = heads[n].at /\ es[n].serial = heads[n].serial
        /\ es[n].count = heads[n].count /\ es[n].write = heads[n].write
        /\ es[n].ok <=> heads[n].ok /\ ~Overlaps(heads[n], HeadSize, room)
  BY <1>3, <1>4
<1> QED BY <1>4, <1>5 DEF es
-----------------------------------------------------------------------------
\* The ends of sets are behind the read position.
LEMMA Marks ==
  ASSUME JarType, Layout(heads, read, write, ctx)
  PROVE  /\ read \in Nat /\ write \in Nat /\ Within(read, write, read, 0)
         /\ DOMAIN heads = 1 .. Len(heads) /\ Len(heads) \in Nat
         /\ \A n \in DOMAIN heads : /\ heads[n] \in HeadType /\ heads[n].write \in Nat
                                    /\ heads[n].at \in Nat
                                    /\ Within(read, write, heads[n].write, 0)
<1>1. read \in Nat /\ write \in Nat /\ heads \in Seq(HeadType)
  BY ConstantFacts DEF JarType
<1>2. Within(read, write, read, 0)
  BY <1>1 DEF Within
<1>3. DOMAIN heads = 1 .. Len(heads) /\ Len(heads) \in Nat
  BY <1>1
<1>4. \A n \in DOMAIN heads : heads[n] \in HeadType
  BY <1>1
<1>5. \A n \in DOMAIN heads : Within(read, write, heads[n].write, 0)
  BY DEF Layout, HeadOK, InSet
<1>6. \A n \in DOMAIN heads : heads[n].write \in Nat /\ heads[n].at \in Nat
  BY <1>4, RecordFacts
<1> QED BY <1>1, <1>2, <1>3, <1>4, <1>5, <1>6

\* What belongs to a set still does after a write.
LEMMA KeptInSet ==
  ASSUME JarType, Layout(heads, read, write, ctx),
         NEW room \in Nat, Granted(room), ~Overtakes(room),
         NEW m \in Nat, m <= Len(heads), NEW p \in Nat, NEW size \in Nat,
         InSet(heads, read, write, m, p, size)
  PROVE  InSet(heads, read, NewWrite(room), m, p, size)
<1>1. Within(read, NewWrite(room), p, size)
  BY Marks, WithinKept DEF InSet
<1>2. ASSUME NEW n \in 1 .. m - 1 PROVE Within(heads[n].write, NewWrite(room), p, size)
  <2>1. n \in DOMAIN heads
    BY Marks
  <2>2. heads[n].write \in Nat /\ Within(read, write, heads[n].write, 0)
    BY <2>1, Marks
  <2>3. Within(heads[n].write, write, p, size)
    BY DEF InSet
  <2> QED BY <2>2, <2>3, WithinKept
<1> QED BY <1>1, <1>2 DEF InSet

\* What is written belongs to the last set, or to one behind it.
LEMMA NewInSet ==
  ASSUME JarType, Layout(heads, read, write, ctx),
         NEW room \in Nat, Granted(room), ~Overtakes(room),
         NEW m \in Nat, m <= Len(heads) + 1
  PROVE  /\ InSet(heads, read, NewWrite(room), m, Place(room), room)
         /\ InSet(heads, read, NewWrite(room), m, NewWrite(room), 0)
<1>1. /\ Within(read, NewWrite(room), Place(room), room)
      /\ Within(read, NewWrite(room), NewWrite(room), 0)
  BY Marks, WithinNew
<1>2. ASSUME NEW n \in 1 .. m - 1
      PROVE  /\ Within(heads[n].write, NewWrite(room), Place(room), room)
             /\ Within(heads[n].write, NewWrite(room), NewWrite(room), 0)
  <2>1. n \in DOMAIN heads
    BY Marks
  <2>2. heads[n].write \in Nat /\ Within(read, write, heads[n].write, 0)
    BY <2>1, Marks
  <2> QED BY <2>2, WithinNew
<1> QED BY <1>1, <1>2 DEF InSet

\* Only the ends of the sets before it matter for a set.
LEMMA SameMarks ==
  ASSUME NEW hs, NEW gs, NEW rd, NEW w, NEW m, NEW p, NEW size,
         \A n \in 1 .. m - 1 : gs[n].write = hs[n].write, InSet(hs, rd, w, m, p, size)
  PROVE  InSet(gs, rd, w, m, p, size)
BY DEF InSet

\* The blocks of a context after a write that left its list as it was.
LEMMA WrittenList ==
  ASSUME JarType, Layout(heads, read, write, ctx),
         NEW room \in Nat, Granted(room), ~Overtakes(room),
         NEW ds \in Seq(DataType), \A n \in DOMAIN ds : DataOK(heads, read, write, ds[n]),
         NEW n \in DOMAIN ds, NEW m \in DOMAIN heads, ds[n].serial = heads[m].serial
  PROVE  /\ DatasAfter(ds, room)[n].ok
         /\ InSet(heads, read, NewWrite(room), m, DatasAfter(ds, room)[n].at,
                  DataSize + DatasAfter(ds, room)[n].len)
<1> DEFINE b == ds[n]
           size == DataSize + b.len
           p == b.at
<1>1. b \in DataType /\ p \in Nat /\ size \in Nat
  BY RecordFacts
<1>2. b.ok /\ InSet(heads, read, write, m, p, size)
  BY DEF DataOK
<1>3. Within(read, write, p, size)
  BY <1>2 DEF InSet
<1>4. ~Overlaps(b, size, room)
  <2> HIDE DEF size, b
  <2> QED BY <1>1, <1>3, WithinSafe DEF p
<1>5. DatasAfter(ds, room)[n].ok
  BY <1>2, <1>4, DatasAfterList
<1>6. DatasAfter(ds, room)[n].at = p /\ DatasAfter(ds, room)[n].len = b.len
  BY DatasAfterList
<1>7. m \in Nat /\ m <= Len(heads)
  BY Marks
<1>8. InSet(heads, read, NewWrite(room), m, p, size)
  <2> HIDE DEF size, p
  <2> QED BY <1>1, <1>2, <1>7, KeptInSet
<1> QED BY <1>5, <1>6, <1>8

\* The headers after a write.
LEMMA WrittenHead ==
  ASSUME JarType, Layout(heads, read, write, ctx),
         NEW room \in Nat, Granted(room), ~Overtakes(room), NEW m \in DOMAIN heads
  PROVE  /\ HeadsAfter(room)[m].ok /\ ~Overlaps(heads[m], HeadSize, room)
         /\ InSet(heads, read, NewWrite(room), m, heads[m].at, HeadSize)
         /\ InSet(heads, read, NewWrite(room), m, heads[m].write, 0)
<1> DEFINE p == heads[m].at
           q == heads[m].write
<1>1. p \in Nat /\ q \in Nat /\ m \in Nat /\ m <= Len(heads) /\ HeadSize \in Nat
  BY Marks, ConstantFacts
<1>2. /\ heads[m].ok /\ InSet(heads, read, write, m, p, HeadSize)
      /\ InSet(heads, read, write, m, q, 0)
  BY DEF Layout, HeadOK
<1>3. ~Overlaps(heads[m], HeadSize, room)
  <2>1. Within(read, write, heads[m].at, HeadSize)
    BY <1>2 DEF InSet
  <2> DEFINE b == heads[m]
  <2>2. b.at \in Nat /\ Within(read, write, b.at, HeadSize)
    BY <1>1, <2>1
  <2> HIDE DEF b
  <2>3. ~Overlaps(b, HeadSize, room)
    BY <1>1, <2>2, WithinSafe
  <2> QED BY <2>3 DEF b
<1>4. HeadsAfter(room)[m].ok
  <2>1. heads \in Seq(HeadType)
    BY DEF JarType
  <2> QED BY <1>2, <1>3, <2>1, HeadsAfterList
<1> HIDE DEF p, q
<1>5. /\ InSet(heads, read, NewWrite(room), m, p, HeadSize)
      /\ InSet(heads, read, NewWrite(room), m, q, 0)
  BY <1>1, <1>2, KeptInSet
<1> QED BY <1>3, <1>4, <1>5 DEF p, q
-----------------------------------------------------------------------------
\* The serials are numbers that compare.
LEMMA SerialFacts ==
  ASSUME JarInv, Young
  PROVE  /\ first_serial \in Nat /\ last_serial \in Nat /\ Len(heads) \in Nat
         /\ DOMAIN heads = 1 .. Len(heads) /\ heads \in Seq(HeadType)
         /\ first_serial + Len(heads) = last_serial /\ first_serial <= last_serial
         /\ 2 * first_serial < SerialSize /\ 2 * last_serial < SerialSize
         /\ \A n \in DOMAIN heads : heads[n].serial = first_serial + (n - 1)
<1>1. heads \in Seq(HeadType) /\ first_serial \in Serials /\ last_serial \in Serials
  BY DEF JarInv, JarType
<1>2. /\ first_serial \in Nat /\ last_serial \in Nat /\ Len(heads) \in Nat
      /\ DOMAIN heads = 1 .. Len(heads)
  BY <1>1, RecordFacts
<1>3. /\ first_serial + Len(heads) = last_serial /\ 2 * last_serial < SerialSize
      /\ \A n \in DOMAIN heads : heads[n].serial = first_serial + (n - 1)
  BY DEF JarInv, SerialInv, Young
<1> QED BY <1>1, <1>2, <1>3, ConstantFacts

\* The list of a context with its serials.
LEMMA ContextFacts ==
  ASSUME JarInv, Young, NEW c \in Contexts
  PROVE  /\ ctx[c] \in ContextType /\ ctx[c].datas \in Seq(DataType)
         /\ DOMAIN ctx[c].datas = 1 .. Len(ctx[c].datas) /\ Len(ctx[c].datas) \in Nat
         /\ ContextOK(ctx[c], last_serial)
         /\ ctx[c].first_serial \in Nat /\ ctx[c].last_serial \in Nat
         /\ ctx[c].first_serial <= last_serial /\ ctx[c].last_serial <= last_serial
         /\ \A n \in DOMAIN ctx[c].datas :
              /\ ctx[c].datas[n] \in DataType
              /\ ctx[c].datas[n].serial \in Nat /\ ctx[c].datas[n].serial < last_serial
              /\ ctx[c].datas[n].prev_serial \in Nat
              /\ ctx[c].datas[n].prev_serial <= last_serial
<1>1. ctx[c] \in ContextType /\ ContextOK(ctx[c], last_serial)
  BY DEF JarInv, JarType, ListsInv
<1>2. /\ ctx[c].datas \in Seq(DataType) /\ ctx[c].first_serial \in Nat
      /\ ctx[c].last_serial \in Nat
  BY <1>1, RecordFacts
<1>3. /\ \A n \in DOMAIN ctx[c].datas : ctx[c].datas[n] \in DataType
      /\ DOMAIN ctx[c].datas = 1 .. Len(ctx[c].datas) /\ Len(ctx[c].datas) \in Nat
  BY <1>2
<1>4. \A n \in DOMAIN ctx[c].datas :
        ctx[c].datas[n].serial \in Nat /\ ctx[c].datas[n].prev_serial \in Nat
  BY <1>3, RecordFacts
<1> QED BY <1>1, <1>2, <1>3, <1>4 DEF ContextOK, ListOK

\* A block that peak_jar_repair() does not find stale is there.
LEMMA HeldBlock ==
  ASSUME JarInv, Young, state = "ok", "overtaken" \notin known,
         NEW c \in Contexts, NEW n \in DOMAIN ctx[c].datas,
         ~Stale(ctx[c].datas[n].serial)
  PROVE  ctx[c].datas[n].ok /\ \E m \in DOMAIN heads : ctx[c].datas[n].serial = heads[m].serial
<1> DEFINE a == ctx[c].datas[n].serial
<1>1. a \in Nat /\ a < last_serial
  BY ContextFacts
<1>2. first_serial <= a
  <2>1. 2 * a < SerialSize
    <3>1. last_serial \in Nat /\ SerialSize \in Nat /\ 2 * last_serial < SerialSize
      BY ConstantFacts, SerialFacts
    <3> HIDE DEF a
    <3> QED BY <1>1, <3>1
  <2>2. ~Wrap32(a - first_serial)
    BY DEF Stale
  <2> HIDE DEF a
  <2> QED BY <1>1, <2>1, <2>2, SerialFacts, WrapLess
<1> DEFINE m == (a - first_serial) + 1
<1> HIDE DEF a
<1>3. m \in DOMAIN heads /\ heads[m].serial = a
  <2>1. m \in DOMAIN heads /\ first_serial + (m - 1) = a
    BY <1>1, <1>2, SerialFacts
  <2> QED BY <2>1, SerialFacts
<1>4. DataOK(heads, read, write, ctx[c].datas[n])
  BY DEF JarInv, LayoutInv, Layout
<1>5. ctx[c].datas[n].serial = heads[m].serial
  BY <1>3 DEF a
<1> QED BY <1>3, <1>4, <1>5 DEF DataOK

\* A round of peak_jar_pack() that starts a new set.
LEMMA HeadStep ==
  ASSUME JarInv, Young, PackHead
  PROVE  JarInv'
<1> DEFINE room == HeadSize
           L == Len(heads)
           hs == HeadsAfter(room)
           h == [at |-> Place(room), ok |-> TRUE, serial |-> last_serial,
                 count |-> 0, write |-> NewWrite(room)]
<1>1. /\ Granted(room) /\ heads' = Append(hs, h) /\ write' = NewWrite(room)
      /\ last_serial' = Uint(last_serial + 1)
      /\ ctx' = [c \in Contexts |-> [ctx[c] EXCEPT !.datas = DatasAfter(@, room)]]
      /\ known' = known \cup {k \in {"overtaken"} : Overtakes(room)}
      /\ UNCHANGED <<state, read, first_serial, packing>>
  BY DEF PackHead
<1>2. JarType /\ room \in Nat
  BY ConstantFacts DEF JarInv
<1>3. /\ NewWrite(room) \in 0 .. Size - 1 /\ Place(room) \in 0 .. Size - 1
  BY <1>1, <1>2, WriteInBuffer
<1>4. last_serial' = last_serial + 1 /\ last_serial' \in Serials /\ last_serial \in Nat
  BY <1>1, SerialFacts, NextSerial
<1>5. /\ hs \in Seq(HeadType) /\ DOMAIN hs = DOMAIN heads /\ Len(hs) = L
      /\ \A n \in DOMAIN heads : /\ hs[n].at = heads[n].at /\ hs[n].serial = heads[n].serial
                                 /\ hs[n].write = heads[n].write
  BY <1>2, SerialFacts, HeadsAfterList
<1>6. h \in HeadType
  <2>1. last_serial \in Serials /\ 0 \in 0 .. HeadCount + 1
    BY ConstantFacts DEF JarInv, JarType
  <2>2. NewWrite(room) \in 0 .. Size /\ Place(room) \in 0 .. Size
    BY <1>3, ConstantFacts
  <2> QED BY <2>1, <2>2 DEF HeadType
<1>7. h.serial = last_serial /\ h.write = NewWrite(room) /\ h.ok /\ h.at = Place(room)
  OBVIOUS
<1>8. L \in Nat /\ DOMAIN heads = 1 .. L
  BY SerialFacts
<1> HIDE DEF h, hs
<1>9. /\ heads' \in Seq(HeadType) /\ Len(heads') = L + 1 /\ DOMAIN heads' = 1 .. L + 1
      /\ heads'[L + 1] = h /\ \A n \in 1 .. L : heads'[n] = hs[n]
  BY <1>1, <1>5, <1>6, <1>8
<1> HIDE DEF L
<1>10. ASSUME NEW c \in Contexts
       PROVE  /\ ctx'[c] \in ContextType
              /\ ctx'[c].datas = DatasAfter(ctx[c].datas, room)
              /\ ctx'[c].first_serial = ctx[c].first_serial
              /\ ctx'[c].last_serial = ctx[c].last_serial
  <2> DEFINE x == ctx[c]
             ds == DatasAfter(x.datas, room)
             y == ctx'[c]
  <2>1. x \in ContextType /\ ds \in Seq(DataType)
    BY <1>2, ContextFacts, DatasAfterList
  <2>2. y = [x EXCEPT !.datas = ds]
    BY <1>1
  <2> HIDE DEF x, ds, y
  <2>3. /\ y \in ContextType /\ y.last_serial = x.last_serial
        /\ y.datas = ds /\ y.first_serial = x.first_serial
    BY <2>1, <2>2 DEF ContextType
  <2> QED BY <2>3 DEF x, ds, y
<1>11. JarType'
  <2>1. \A n \in DOMAIN heads' : heads'[n].write < Size
    <3>1. \A n \in 1 .. L : heads'[n].write < Size
      BY <1>2, <1>5, <1>8, <1>9 DEF JarType
    <3>2. h.write < Size
      BY <1>3, <1>7, ConstantFacts
    <3> QED BY <1>8, <1>9, <3>1, <3>2
  <2>2. ctx' \in [Contexts -> ContextType]
    BY <1>1, <1>10
  <2>3. write' \in 0 .. Size - 1 /\ known' \subseteq {"overtaken", "patched"}
    BY <1>1, <1>2, <1>3 DEF JarType
  <2> QED BY <1>1, <1>2, <1>4, <1>9, <2>1, <2>2, <2>3 DEF JarType
<1>12. SerialInv'
  <2>1. first_serial + (L + 1) = last_serial'
    BY <1>4, <1>8, SerialFacts DEF L
  <2>2. \A n \in 1 .. L : heads'[n].serial = first_serial + (n - 1)
    BY <1>5, <1>8, <1>9, SerialFacts
  <2>3. heads'[L + 1].serial = first_serial + ((L + 1) - 1)
    BY <1>7, <1>8, <1>9, SerialFacts DEF L
  <2> QED BY <1>1, <1>8, <1>9, <2>1, <2>2, <2>3 DEF SerialInv
<1>13. ListsInv'
  <2> SUFFICES ASSUME NEW c \in Contexts PROVE ContextOK(ctx'[c], last_serial')
    BY DEF ListsInv
  <2>1. ListOK(DatasAfter(ctx[c].datas, room), last_serial)
    BY <1>2, ContextFacts, DatasAfterList DEF ContextOK
  <2> DEFINE es == DatasAfter(ctx[c].datas, room)
  <2>2. es \in Seq(DataType)
    BY <1>2, ContextFacts, DatasAfterList
  <2> HIDE DEF es
  <2>3. \A n \in DOMAIN es : es[n].serial \in Nat /\ es[n].prev_serial \in Nat
    <3>1. \A n \in DOMAIN es : es[n] \in DataType
      BY <2>2
    <3> QED BY <3>1, RecordFacts
  <2>4. ListOK(es, last_serial')
    BY <1>4, <2>1, <2>3 DEF ListOK, es
  <2>5. ctx[c].first_serial <= last_serial' /\ ctx[c].last_serial <= last_serial'
    BY <1>4, ContextFacts
  <2> QED BY <1>10, <2>4, <2>5 DEF ContextOK, es
<1>14. ASSUME state' = "ok", "overtaken" \notin known'
       PROVE  Layout(heads', read', write', ctx')
  <2>1. ~Overtakes(room) /\ Layout(heads, read, write, ctx)
    BY <1>1, <1>14 DEF JarInv, LayoutInv
  <2>2. ASSUME NEW m \in 1 .. L + 1, NEW p, NEW size,
               InSet(heads, read, write', m, p, size)
        PROVE  InSet(heads', read', write', m, p, size)
    <3>1. \A n \in 1 .. m - 1 : heads'[n].write = heads[n].write
      BY <1>5, <1>8, <1>9
    <3> QED BY <1>1, <2>2, <3>1, SameMarks
  <2>3. heads'[Len(heads')].write = write'
    BY <1>1, <1>7, <1>9
  <2>4. ASSUME NEW m \in DOMAIN heads' PROVE HeadOK(heads', read', write', m)
    <3>1. CASE m = L + 1
      <4>1. /\ InSet(heads, read, write', m, Place(room), room)
            /\ InSet(heads, read, write', m, NewWrite(room), 0)
        BY <1>1, <1>2, <1>8, <2>1, <3>1, NewInSet DEF L
      <4>2. /\ InSet(heads', read', write', m, Place(room), room)
            /\ InSet(heads', read', write', m, NewWrite(room), 0)
        BY <1>9, <2>2, <2>4, <4>1
      <4> QED BY <1>7, <1>9, <3>1, <4>2 DEF HeadOK
    <3>2. CASE m \in 1 .. L
      <4>1. /\ hs[m].ok
            /\ InSet(heads, read, write', m, heads[m].at, HeadSize)
            /\ InSet(heads, read, write', m, heads[m].write, 0)
        BY <1>1, <1>2, <1>8, <2>1, <3>2, WrittenHead DEF hs
      <4>2. /\ InSet(heads', read', write', m, heads[m].at, HeadSize)
            /\ InSet(heads', read', write', m, heads[m].write, 0)
        BY <1>9, <2>2, <2>4, <4>1
      <4>3. heads'[m] = hs[m] /\ hs[m].at = heads[m].at /\ hs[m].write = heads[m].write
        BY <1>5, <1>8, <1>9, <3>2
      <4> QED BY <4>1, <4>2, <4>3 DEF HeadOK
    <3> QED BY <1>8, <1>9, <3>1, <3>2
  <2>5. ASSUME NEW c \in Contexts, NEW n \in DOMAIN ctx'[c].datas
        PROVE  DataOK(heads', read', write', ctx'[c].datas[n])
    <3> DEFINE ds == ctx[c].datas
               b == DatasAfter(ds, room)[n]
    <3>1. ds \in Seq(DataType) /\ n \in DOMAIN ds /\ ctx'[c].datas[n] = b
      BY <1>2, <1>10, <2>5, ContextFacts, DatasAfterList
    <3>2. b.serial = ds[n].serial /\ ds[n].serial < last_serial /\ ds[n].serial \in Nat
      BY <1>2, <3>1, ContextFacts, DatasAfterList
    <3>3. \A k \in DOMAIN ds : DataOK(heads, read, write, ds[k])
      BY <2>1 DEF Layout
    <3>4. ASSUME NEW m \in DOMAIN heads', b.serial = heads'[m].serial
          PROVE  b.ok /\ InSet(heads', read', write', m, b.at, DataSize + b.len)
      <4>1. m \in 1 .. L
        <5>1. m # L + 1
          BY <1>4, <1>7, <1>9, <3>2, <3>4
        <5> QED BY <1>8, <1>9, <5>1
      <4>2. m \in DOMAIN heads /\ ds[n].serial = heads[m].serial
        BY <1>5, <1>8, <1>9, <3>2, <3>4, <4>1
      <4>3. b.ok /\ InSet(heads, read, write', m, b.at, DataSize + b.len)
        BY <1>1, <1>2, <2>1, <3>1, <3>3, <4>2, WrittenList
      <4> HIDE DEF b
      <4> QED BY <1>9, <2>2, <4>3
    <3> HIDE DEF b
    <3> QED BY <3>1, <3>4 DEF DataOK
  <2> QED BY <2>3, <2>4, <2>5 DEF Layout
<1>15. ASSUME known' = {} PROVE state' = "ok" /\ \A c \in Contexts : EndsOK(ctx'[c])
  <2>1. state = "ok" /\ \A c \in Contexts : EndsOK(ctx[c])
    BY <1>1, <1>15 DEF JarInv, PointerInv
  <2>2. ASSUME NEW c \in Contexts PROVE EndsOK(ctx'[c])
    <3> DEFINE ds == ctx[c].datas
               es == DatasAfter(ds, room)
    <3>1. /\ ds \in Seq(DataType) /\ DOMAIN ds = 1 .. Len(ds) /\ Len(ds) \in Nat
          /\ EndsOK(ctx[c])
      BY <2>1, ContextFacts
    <3>2. /\ es \in Seq(DataType) /\ Len(es) = Len(ds)
          /\ \A n \in DOMAIN ds : /\ es[n].serial = ds[n].serial
                                  /\ es[n].prev_serial = ds[n].prev_serial
      BY <1>2, <3>1, DatasAfterList
    <3>3. /\ ctx'[c].datas = es /\ ctx'[c].first_serial = ctx[c].first_serial
          /\ ctx'[c].last_serial = ctx[c].last_serial
      BY <1>10
    <3> HIDE DEF es
    <3> QED BY <3>1, <3>2, <3>3 DEF EndsOK
  <2> QED BY <1>1, <2>1, <2>2
<1>16. LayoutInv' /\ PointerInv'
  BY <1>14, <1>15 DEF LayoutInv, PointerInv
<1> QED BY <1>11, <1>12, <1>13, <1>16 DEF JarInv

\* A step that leaves the buffer and the contexts alone, and does not go astray
\* without a known reason.
LEMMA QuietStep ==
  ASSUME JarInv, UNCHANGED <<write, read, heads, first_serial, last_serial, ctx>>,
         packing' \in {<<>>} \cup (Contexts \X Lens),
         known \subseteq known', known' \subseteq {"overtaken", "patched"},
         state' = state \/ (state' = "wild" /\ known' # {})
  PROVE  JarInv'
<1>1. JarType'
  BY DEF JarInv, JarType
<1>2. SerialInv'
  BY DEF JarInv, SerialInv
<1>3. ListsInv'
  BY DEF JarInv, ListsInv
<1>4. LayoutInv'
  <2> SUFFICES ASSUME state' = "ok", "overtaken" \notin known'
               PROVE  Layout(heads', read', write', ctx')
    BY DEF LayoutInv
  <2>1. Layout(heads, read, write, ctx)
    BY DEF JarInv, LayoutInv
  <2> QED BY <2>1
<1>5. PointerInv'
  <2> SUFFICES ASSUME known' = {} PROVE state' = "ok" /\ \A c \in Contexts : EndsOK(ctx'[c])
    BY DEF PointerInv
  <2>1. state = "ok" /\ \A c \in Contexts : EndsOK(ctx[c])
    BY DEF JarInv, PointerInv
  <2> QED BY <2>1
<1> QED BY <1>1, <1>2, <1>3, <1>4, <1>5 DEF JarInv

\* A round of peak_jar_pack() that frees the oldest set, if there is one.
LEMMA FreeStep ==
  ASSUME JarInv, Young, PackRead
  PROVE  JarInv'
<1>1. peak_jar_read /\ UNCHANGED <<state, write, last_serial, ctx, packing, known>>
  BY DEF PackRead
<1>2. CASE heads = <<>>
  <2>1. UNCHANGED <<heads, read, first_serial>>
    BY <1>1, <1>2 DEF peak_jar_read
  <2>2. packing \in {<<>>} \cup (Contexts \X Lens) /\ known \subseteq {"overtaken", "patched"}
    BY DEF JarInv, JarType
  <2> QED BY <1>1, <2>1, <2>2, QuietStep
<1>3. CASE heads # <<>>
  <2> DEFINE L == Len(heads)
             r == heads[1].write
  <2>1. heads' = Tail(heads) /\ read' = Head(heads).write /\ first_serial' = Uint(first_serial + 1)
    BY <1>1, <1>3 DEF peak_jar_read, FreeOldest
  <2>2. heads \in Seq(HeadType) /\ L \in Nat /\ L > 0 /\ DOMAIN heads = 1 .. L
    BY <1>3, SerialFacts
  <2>3. /\ heads' \in Seq(HeadType) /\ Len(heads') = L - 1 /\ DOMAIN heads' = 1 .. L - 1
        /\ \A n \in 1 .. L - 1 : heads'[n] = heads[n + 1] /\ n + 1 \in DOMAIN heads
    BY <2>1, <2>2
  <2>4. read' = r /\ 1 \in DOMAIN heads /\ heads[1] \in HeadType
    BY <2>1, <2>2
  <2>5. r \in 0 .. Size - 1 /\ \A n \in DOMAIN heads : heads[n].write < Size
    <3>1. r \in Nat /\ r < Size /\ \A n \in DOMAIN heads : heads[n].write < Size
      BY <2>4, RecordFacts DEF JarInv, JarType
    <3> HIDE DEF r
    <3> QED BY <3>1, ConstantFacts
  <2>6. first_serial' = first_serial + 1 /\ first_serial' \in Serials
    BY <2>1, SerialFacts, NextSerial
  <2> HIDE DEF r, L
  <2>7. JarType'
    <3>1. \A n \in DOMAIN heads' : heads'[n].write < Size
      BY <2>3, <2>5
    <3> QED BY <1>1, <2>3, <2>4, <2>5, <2>6, <3>1 DEF JarInv, JarType
  <2>8. SerialInv'
    <3>1. first_serial + L = last_serial
      BY SerialFacts DEF L
    <3>2. \A n \in 1 .. L - 1 : heads[n + 1].serial = first_serial + ((n + 1) - 1)
      BY <2>3, SerialFacts
    <3>3. \A n \in 1 .. L - 1 : heads'[n].serial = first_serial' + (n - 1)
      <4> TAKE n \in 1 .. L - 1
      <4>1. heads'[n].serial = first_serial + ((n + 1) - 1)
        BY <2>3, <3>2
      <4>2. first_serial + ((n + 1) - 1) = (first_serial + 1) + (n - 1)
        BY SerialFacts
      <4> QED BY <2>6, <4>1, <4>2
    <3>4. first_serial' + (L - 1) = last_serial'
      BY <1>1, <2>2, <2>6, <3>1, SerialFacts
    <3> QED BY <2>3, <3>3, <3>4 DEF SerialInv
  <2>9. ListsInv'
    BY <1>1 DEF JarInv, ListsInv
  <2>10. LayoutInv'
    <3> SUFFICES ASSUME state' = "ok", "overtaken" \notin known'
                 PROVE  Layout(heads', read', write', ctx')
      BY DEF LayoutInv
    <3>1. Layout(heads, read, write, ctx)
      BY <1>1 DEF JarInv, LayoutInv
    <3>2. ASSUME NEW m \in 1 .. L - 1, NEW p, NEW size,
                 InSet(heads, read, write, m + 1, p, size)
          PROVE  InSet(heads', read', write', m, p, size)
      <4>1. \A n \in 1 .. m : Within(heads[n].write, write, p, size)
        BY <3>2 DEF InSet
      <4>2. Within(read', write', p, size)
        BY <1>1, <2>4, <4>1 DEF r
      <4>3. \A n \in 1 .. m - 1 : heads'[n] = heads[n + 1] /\ n + 1 \in 1 .. m
        BY <2>2, <2>3
      <4> QED BY <1>1, <4>1, <4>2, <4>3 DEF InSet
    <3>3. heads' # <<>> => heads'[Len(heads')].write = write'
      <4> SUFFICES ASSUME heads' # <<>> PROVE heads'[Len(heads')].write = write'
        OBVIOUS
      <4>1. L - 1 \in 1 .. L - 1 /\ (L - 1) + 1 = L
        BY <2>2, <2>3
      <4>2. heads'[L - 1] = heads[L]
        BY <2>3, <4>1
      <4> QED BY <1>1, <1>3, <2>3, <3>1, <4>2 DEF Layout, L
    <3>4. ASSUME NEW m \in DOMAIN heads' PROVE HeadOK(heads', read', write', m)
      <4>1. heads'[m] = heads[m + 1] /\ m + 1 \in DOMAIN heads /\ m \in 1 .. L - 1
        BY <2>3
      <4>2. HeadOK(heads, read, write, m + 1)
        BY <3>1, <4>1 DEF Layout
      <4> QED BY <3>2, <4>1, <4>2 DEF HeadOK
    <3>5. ASSUME NEW c \in Contexts, NEW n \in DOMAIN ctx'[c].datas
          PROVE  DataOK(heads', read', write', ctx'[c].datas[n])
      <4> DEFINE b == ctx'[c].datas[n]
      <4>1. DataOK(heads, read, write, b)
        BY <1>1, <3>1 DEF Layout
      <4> HIDE DEF b
      <4>2. ASSUME NEW m \in DOMAIN heads', b.serial = heads'[m].serial
            PROVE  b.ok /\ InSet(heads', read', write', m, b.at, DataSize + b.len)
        <5>1. heads'[m] = heads[m + 1] /\ m + 1 \in DOMAIN heads /\ m \in 1 .. L - 1
          BY <2>3
        <5> QED BY <3>2, <4>1, <4>2, <5>1 DEF DataOK
      <4>3. DataOK(heads', read', write', b)
        BY <4>2 DEF DataOK
      <4> QED BY <4>3 DEF b
    <3> QED BY <3>3, <3>4, <3>5 DEF Layout
  <2>11. PointerInv'
    BY <1>1 DEF JarInv, PointerInv
  <2> QED BY <2>7, <2>8, <2>9, <2>10, <2>11 DEF JarInv
<1> QED BY <1>2, <1>3
-----------------------------------------------------------------------------
\* A serial is stale if it is older than all the sets.
LEMMA StaleLess ==
  ASSUME JarInv, Young, NEW a \in Nat, a <= last_serial
  PROVE  Stale(a) <=> a < first_serial
<1>1. 2 * a < SerialSize
  BY SerialFacts, ConstantFacts
<1> QED BY <1>1, SerialFacts, WrapLess DEF Stale

\* As long as nothing has gone astray, the blocks that peak_jar_repair() looks
\* into, and those that it leaves in the list, are there.
LEMMA RepairSound ==
  ASSUME JarInv, Young, known = {}, NEW c \in Contexts
  PROVE  /\ \A b \in RepairLooksInto(ctx[c]) : b.ok
         /\ \A n \in DOMAIN Repair(ctx[c]).datas :
              /\ Repair(ctx[c]).datas[n].ok
              /\ \E m \in DOMAIN heads : Repair(ctx[c]).datas[n].serial = heads[m].serial
<1> DEFINE x == ctx[c]
           There(n) == x.datas[n].ok /\ \E m \in DOMAIN heads : x.datas[n].serial = heads[m].serial
<1>1. state = "ok" /\ "overtaken" \notin known /\ EndsOK(x)
  BY DEF JarInv, PointerInv
<1>2. x \in ContextType /\ DOMAIN x.datas = 1 .. Len(x.datas) /\ Len(x.datas) \in Nat
  BY ContextFacts
<1>3. ASSUME NEW n \in DOMAIN x.datas, ~Stale(x.datas[n].serial) PROVE There(n)
  BY <1>1, <1>3, HeldBlock
<1>4. ASSUME Torn(x) PROVE 1 \in DOMAIN x.datas /\ There(1)
  <2>1. x.datas # <<>> /\ ~Stale(x.last_serial) /\ 1 \in DOMAIN x.datas
    BY <1>2, <1>4, RepairCases DEF Torn, Gone
  <2>2. ~Stale(x.datas[1].serial)
    BY <1>1, <2>1 DEF EndsOK
  <2> HIDE DEF There, x
  <2> QED BY <1>3, <2>1, <2>2
<1>5. ASSUME HasSecond(x) PROVE 2 \in DOMAIN x.datas /\ There(2)
  <2>1. Len(x.datas) > 1 /\ ~Stale(x.datas[1].prev_serial) /\ 2 \in DOMAIN x.datas /\ x.datas # <<>>
    BY <1>2, <1>5, RepairCases DEF HasSecond
  <2>2. ~Stale(x.datas[2].serial)
    BY <1>1, <2>1 DEF EndsOK
  <2> HIDE DEF There, x
  <2> QED BY <1>3, <2>1, <2>2
<1>6. \A b \in RepairLooksInto(x) : b.ok
  <2> SUFFICES ASSUME NEW b \in RepairLooksInto(x) PROVE b.ok
    OBVIOUS
  <2>1. Torn(x) /\ (b = x.datas[1] \/ (HasSecond(x) /\ b = x.datas[2]))
    BY DEF RepairLooksInto
  <2> QED BY <1>4, <1>5, <2>1
<1>7. ASSUME NEW n \in DOMAIN Repair(x).datas
      PROVE  /\ Repair(x).datas[n].ok
             /\ \E m \in DOMAIN heads : Repair(x).datas[n].serial = heads[m].serial
  <2>1. CASE Torn(x)
    <3>1. HasSecond(x) /\ Repair(x).datas = <<x.datas[2]>>
      BY <1>2, <1>7, <2>1, RepairCases
    <3>2. Repair(x).datas[n] = x.datas[2]
      BY <1>7, <3>1
    <3> QED BY <1>5, <3>1, <3>2
  <2>2. CASE ~Torn(x)
    <3>1. ~Gone(x) /\ Repair(x) = x /\ n \in DOMAIN x.datas /\ x.datas # <<>>
      BY <1>2, <1>7, <2>2, RepairCases
    <3>2. ~Stale(x.first_serial)
      BY <2>2, <3>1 DEF Torn
    <3> DEFINE a == x.datas[n].serial
               z == x.datas[Len(x.datas)].serial
    <3>3. z = x.first_serial /\ z \in Nat /\ z < last_serial
      BY <1>1, <1>2, <3>1, ContextFacts DEF EndsOK
    <3>4. a \in Nat /\ a < last_serial
      BY <3>1, ContextFacts
    <3>5. z <= a
      <4>1. ListOK(x.datas, last_serial)
        BY ContextFacts DEF ContextOK
      <4>2. n = Len(x.datas) \/ (n < Len(x.datas) /\ Len(x.datas) \in DOMAIN x.datas)
        BY <1>2, <3>1
      <4>3. n < Len(x.datas) => z <= a
        BY <3>1, <4>1, <4>2 DEF ListOK
      <4> QED BY <3>3, <4>2, <4>3
    <3>6. ~Stale(z)
      BY <3>2, <3>3
    <3> HIDE DEF a, z
    <3>7. ~Stale(a)
      BY <3>3, <3>4, <3>5, <3>6, SerialFacts, StaleLess
    <3>8. ~Stale(x.datas[n].serial)
      BY <3>7 DEF a
    <3> HIDE DEF x
    <3> QED BY <1>3, <3>1, <3>8
  <2> QED BY <2>1, <2>2
<1> QED BY <1>6, <1>7

\* A walk of peak_jar_lifo() or peak_jar_fifo() over a context.
LEMMA WalkStep ==
  ASSUME JarInv, Young, NEW c \in Contexts, NEW seen, NEW ahead, NEW D,
         Walk(c, seen, ahead, D)
  PROVE  JarInv'
<1> DEFINE x == Repair(ctx[c])
           near == UNION {{n - 1, n + 1} : n \in D}
           looked == {x.datas[n] : n \in DOMAIN x.datas \cap (seen \cup ahead \cup near)}
           wild == Dangling(RepairLooksInto(ctx[c]) \cup looked)
           ds == Without(x.datas, D)
<1>1. \/ wild /\ GoWild /\ UNCHANGED known
      \/ /\ ctx' = [ctx EXCEPT ![c] = [x EXCEPT !.datas = ds]]
         /\ known' = known \cup {k \in {"patched"} : Torn(ctx[c]) \/ D # {}}
         /\ UNCHANGED <<state, write, read, heads, serials, packing>>
  BY DEF Walk
<1>2. JarType /\ last_serial \in Nat
  BY SerialFacts DEF JarInv
<1>3. CASE wild /\ GoWild /\ UNCHANGED known
  <2>1. known # {}
    <3> SUFFICES ASSUME known = {} PROVE FALSE
      OBVIOUS
    <3>1. PICK b \in RepairLooksInto(ctx[c]) \cup looked : ~b.ok
      BY <1>3 DEF Dangling
    <3>2. /\ \A a \in RepairLooksInto(ctx[c]) : a.ok
          /\ \A n \in DOMAIN x.datas : x.datas[n].ok
      BY RepairSound
    <3> HIDE DEF x
    <3>3. \A a \in looked : a.ok
      BY <3>2
    <3> QED BY <3>1, <3>2, <3>3
  <2> HIDE DEF x, wild
  <2> QED BY <1>2, <1>3, <2>1, QuietStep DEF GoWild, serials, JarType
<1>4. CASE /\ ctx' = [ctx EXCEPT ![c] = [x EXCEPT !.datas = ds]]
           /\ known' = known \cup {k \in {"patched"} : Torn(ctx[c]) \/ D # {}}
           /\ UNCHANGED <<state, write, read, heads, serials, packing>>
  <2>1. /\ x \in ContextType /\ ContextOK(x, last_serial) /\ x.datas \in Seq(DataType)
        /\ \A n \in DOMAIN x.datas : \E m \in DOMAIN ctx[c].datas : x.datas[n] = ctx[c].datas[m]
    BY <1>2, ContextFacts, RepairedContext, RecordFacts
  <2>2. ds \in Seq(DataType) /\ Picks(ds, x.datas) /\ (D = {} => ds = x.datas)
    <3> HIDE DEF x
    <3> QED BY <2>1, WithoutList
  <2>3. ListOK(ds, last_serial) /\ \A n \in DOMAIN ds : \E m \in DOMAIN x.datas : ds[n] = x.datas[m]
    <3>1. ListOK(x.datas, last_serial)
      BY <2>1 DEF ContextOK
    <3> HIDE DEF x, ds
    <3> QED BY <2>1, <2>2, <3>1, PickedList
  <2> DEFINE y == ctx'[c]
  <2>4. y = [x EXCEPT !.datas = ds] /\ \A d \in Contexts \ {c} : ctx'[d] = ctx[d]
    BY <1>2, <1>4 DEF JarType
  <2>5. ~Torn(ctx[c]) => x = ctx[c] \/ x.datas = <<>>
    BY ContextFacts, RepairCases
  <2> HIDE DEF x, ds, y
  <2>6. /\ y \in ContextType /\ y.last_serial = x.last_serial
        /\ y.datas = ds /\ y.first_serial = x.first_serial
    BY <2>1, <2>2, <2>4 DEF ContextType
  <2>7. ctx' \in [Contexts -> ContextType]
    <3>1. ctx' = [ctx EXCEPT ![c] = y]
      BY <1>4, <2>4
    <3> QED BY <1>2, <2>6, <3>1 DEF JarType
  <2>8. JarType'
    BY <1>2, <1>4, <2>7 DEF JarType, serials
  <2>9. SerialInv'
    BY <1>4 DEF JarInv, SerialInv, serials
  <2>10. ListsInv'
    <3>1. ContextOK(y, last_serial)
      BY <2>1, <2>3, <2>6 DEF ContextOK
    <3>2. ASSUME NEW d \in Contexts PROVE ContextOK(ctx'[d], last_serial')
      <4>1. last_serial' = last_serial
        BY <1>4 DEF serials
      <4>2. CASE d = c
        BY <3>1, <4>1, <4>2 DEF y
      <4>3. CASE d # c
        BY <2>4, <4>1, <4>3, ContextFacts
      <4> QED BY <4>2, <4>3
    <3> QED BY <3>2 DEF ListsInv
  <2>11. LayoutInv'
    <3> SUFFICES ASSUME state' = "ok", "overtaken" \notin known'
                 PROVE  Layout(heads', read', write', ctx')
      BY DEF LayoutInv
    <3>1. Layout(heads, read, write, ctx) /\ UNCHANGED <<heads, read, write>>
      BY <1>4 DEF JarInv, LayoutInv
    <3>2. ASSUME NEW d \in Contexts, NEW n \in DOMAIN ctx'[d].datas
          PROVE  DataOK(heads, read, write, ctx'[d].datas[n])
      <4>1. CASE d = c
        <5>1. PICK m \in DOMAIN ctx[c].datas : ctx'[d].datas[n] = ctx[c].datas[m]
          BY <2>1, <2>3, <2>6, <3>2, <4>1 DEF y
        <5> QED BY <3>1, <5>1 DEF Layout
      <4>2. CASE d # c
        BY <2>4, <3>1, <3>2, <4>2 DEF Layout
      <4> QED BY <4>1, <4>2
    <3> QED BY <3>1, <3>2 DEF Layout
  <2>12. PointerInv'
    <3> SUFFICES ASSUME known' = {} PROVE state' = "ok" /\ \A d \in Contexts : EndsOK(ctx'[d])
      BY DEF PointerInv
    <3>1. known = {} /\ ~Torn(ctx[c]) /\ D = {}
      BY <1>4
    <3>2. state = "ok" /\ \A d \in Contexts : EndsOK(ctx[d])
      BY <3>1 DEF JarInv, PointerInv
    <3>3. EndsOK(y)
      BY <2>2, <2>5, <2>6, <3>1, <3>2 DEF EndsOK
    <3> QED BY <1>4, <2>4, <3>2, <3>3 DEF y
  <2> QED BY <2>8, <2>9, <2>10, <2>11, <2>12 DEF JarInv
<1> HIDE DEF x, wild, ds
<1> QED BY <1>1, <1>3, <1>4

\* The list of headers when data are added to the last set.
LEMMA DataHeads ==
  ASSUME JarInv, Young, NEW room \in Nat, heads # <<>>, heads[Len(heads)].count <= HeadCount,
         NEW w \in 0 .. Size - 1,
         heads' = [HeadsAfter(room) EXCEPT ![Len(heads)].count = @ + 1, ![Len(heads)].write = w]
  PROVE  /\ heads' \in Seq(HeadType) /\ Len(heads') = Len(heads) /\ DOMAIN heads' = DOMAIN heads
         /\ \A n \in DOMAIN heads : /\ heads'[n].at = heads[n].at
                                    /\ heads'[n].serial = heads[n].serial
                                    /\ heads'[n].ok <=> HeadsAfter(room)[n].ok
                                    /\ n # Len(heads) => heads'[n].write = heads[n].write
         /\ heads'[Len(heads)].write = w
<1> DEFINE L == Len(heads)
           hs == HeadsAfter(room)
           k == hs[L].count + 1
           h == [hs[L] EXCEPT !.count = k, !.write = w]
<1>1. heads \in Seq(HeadType) /\ L \in Nat /\ L > 0 /\ DOMAIN heads = 1 .. L /\ L \in DOMAIN heads
  BY SerialFacts
<1>2. /\ hs \in Seq(HeadType) /\ DOMAIN hs = 1 .. L /\ Len(hs) = L
      /\ \A n \in DOMAIN heads : /\ hs[n].at = heads[n].at /\ hs[n].serial = heads[n].serial
                                 /\ hs[n].count = heads[n].count /\ hs[n].write = heads[n].write
  BY <1>1, HeadsAfterList
<1>3. hs[L] \in HeadType /\ k \in 0 .. HeadCount + 1 /\ w \in 0 .. Size /\ w \in Nat
  <2>1. heads[L] \in HeadType /\ hs[L] \in HeadType
    BY <1>1, <1>2
  <2>2. heads[L].count \in Nat /\ hs[L].count = heads[L].count
    BY <1>1, <1>2, <2>1, RecordFacts, ConstantFacts
  <2>3. HeadCount \in Nat /\ Size \in Nat /\ heads[L].count <= HeadCount
    BY ConstantFacts
  <2> HIDE DEF hs, L
  <2>4. k \in 0 .. HeadCount + 1
    BY <2>2, <2>3
  <2> QED BY <2>1, <2>3, <2>4
<1>4. heads' = [hs EXCEPT ![L] = h]
  OBVIOUS
<1> HIDE DEF hs, k, L
<1>5. /\ h \in HeadType /\ h.at = hs[L].at /\ h.serial = hs[L].serial /\ h.ok = hs[L].ok
      /\ h.write = w
  BY <1>3 DEF HeadType
<1> HIDE DEF h
<1>6. /\ heads' \in Seq(HeadType) /\ Len(heads') = L /\ DOMAIN heads' = 1 .. L
      /\ heads'[L] = h /\ \A n \in 1 .. L : n # L => heads'[n] = hs[n]
  <2> DEFINE g == [hs EXCEPT ![L] = h]
  <2>1. L \in 1 .. Len(hs)
    BY <1>1, <1>2
  <2>2. /\ g \in Seq(HeadType) /\ Len(g) = Len(hs) /\ DOMAIN g = DOMAIN hs
        /\ g[L] = h /\ \A n \in 1 .. Len(hs) : n # L => g[n] = hs[n]
    BY <1>2, <1>5, <2>1
  <2> HIDE DEF g
  <2> QED BY <1>2, <1>4, <2>2 DEF g
<1>7. ASSUME NEW n \in DOMAIN heads
      PROVE  /\ heads'[n].at = heads[n].at /\ heads'[n].serial = heads[n].serial
             /\ (heads'[n].ok <=> hs[n].ok) /\ (n # L => heads'[n].write = heads[n].write)
  <2>1. CASE n = L
    BY <1>1, <1>2, <1>5, <1>6, <2>1
  <2>2. CASE n # L
    BY <1>1, <1>2, <1>6, <1>7, <2>2
  <2> QED BY <2>1, <2>2
<1> QED BY <1>1, <1>5, <1>6, <1>7 DEF L, hs

\* The list of a context with a new block in front.
LEMMA LinkedList ==
  ASSUME NEW rest \in Seq(DataType), NEW b \in DataType, NEW l \in Nat, ListOK(rest, l),
         b.serial = l - 1, b.prev_serial <= l
  PROVE  /\ Link(b, rest) \in Seq(DataType) /\ Len(Link(b, rest)) = Len(rest) + 1
         /\ DOMAIN Link(b, rest) = 1 .. Len(rest) + 1 /\ Link(b, rest)[1] = b
         /\ \A n \in 2 .. Len(rest) + 1 : n - 1 \in DOMAIN rest /\ Link(b, rest)[n] = rest[n - 1]
         /\ ListOK(Link(b, rest), l)
<1> DEFINE es == Link(b, rest)
           R == Len(rest)
<1>1. R \in Nat /\ DOMAIN rest = 1 .. R
  OBVIOUS
<1>2. /\ es \in Seq(DataType) /\ Len(es) = R + 1 /\ DOMAIN es = 1 .. R + 1 /\ es[1] = b
      /\ \A n \in 2 .. R + 1 : n - 1 \in DOMAIN rest /\ es[n] = rest[n - 1]
  BY DEF Link
<1>3. \A n \in DOMAIN rest : rest[n].serial \in Nat /\ rest[n].prev_serial \in Nat
  <2>1. \A n \in DOMAIN rest : rest[n] \in DataType
    OBVIOUS
  <2> QED BY <2>1, RecordFacts
<1>4. /\ \A n \in DOMAIN rest : rest[n].serial < l /\ rest[n].prev_serial <= l
      /\ \A m, n \in DOMAIN rest : m < n => rest[n].serial <= rest[m].serial
  BY DEF ListOK
<1> HIDE DEF es, R
<1>5. ASSUME NEW n \in DOMAIN es PROVE es[n].serial < l /\ es[n].prev_serial <= l
  <2>1. CASE n = 1
    BY <1>2, <2>1
  <2>2. CASE n # 1
    <3>1. n \in 2 .. R + 1
      BY <1>1, <1>2, <2>2
    <3> QED BY <1>2, <1>4, <3>1
  <2> QED BY <2>1, <2>2
<1>6. ASSUME NEW m \in DOMAIN es, NEW n \in DOMAIN es, m < n
      PROVE  es[n].serial <= es[m].serial
  <2>1. n \in 2 .. R + 1 /\ n - 1 \in DOMAIN rest /\ es[n] = rest[n - 1]
    BY <1>1, <1>2, <1>6
  <2>2. CASE m = 1
    <3>1. rest[n - 1].serial \in Nat /\ rest[n - 1].serial < l
      BY <1>3, <1>4, <2>1
    <3>2. es[m].serial = l - 1
      BY <1>2, <2>2
    <3> QED BY <2>1, <3>1, <3>2
  <2>3. CASE m # 1
    <3>1. m \in 2 .. R + 1
      BY <1>1, <1>2, <2>3
    <3>2. es[m] = rest[m - 1] /\ m - 1 \in DOMAIN rest /\ m - 1 < n - 1
      BY <1>1, <1>2, <1>6, <2>1, <3>1
    <3> QED BY <1>4, <2>1, <3>2
  <2> QED BY <2>2, <2>3
<1>7. ListOK(es, l)
  BY <1>5, <1>6 DEF ListOK
<1> QED BY <1>2, <1>7 DEF es, R

\* The last round of peak_jar_pack(), which writes the data and links them.
LEMMA DataStep ==
  ASSUME JarInv, Young, packing # <<>>, PackData
  PROVE  JarInv'
<1> DEFINE c == packing[1]
           room == DataSize + packing[2]
           L == Len(heads)
           x == Repair(ctx[c])
           rest == DatasAfter(x.datas, room)
           serial == Last(heads).serial
           prev == IF rest = <<>> THEN 0 ELSE rest[1].serial
           b == [at |-> Place(room), ok |-> TRUE, len |-> packing[2], serial |-> serial,
                 prev_serial |-> prev]
           wild == \/ Dangling(RepairLooksInto(ctx[c]))
                   \/ rest # <<>> /\ ~rest[1].ok
                   \/ Overlaps(Last(heads), HeadSize, room)
           first == IF rest = <<>> THEN serial ELSE x.first_serial
           es == Link(b, rest)
<1>1. packing \in Contexts \X Lens
  BY DEF JarInv, JarType
<1>2. c \in Contexts /\ packing[2] \in Lens /\ room \in Nat
  <2> DEFINE len == packing[2]
  <2>1. c \in Contexts /\ len \in Lens
    BY <1>1
  <2> HIDE DEF len
  <2>2. DataSize + len \in Nat
    BY <2>1, ConstantFacts
  <2> QED BY <2>1, <2>2 DEF len
<1>3. /\ Granted(room) /\ heads # <<>> /\ Last(heads).count <= HeadCount
      /\ known' = known \cup {k \in {"overtaken"} : Overtakes(room)}
                        \cup {k \in {"patched"} : Torn(ctx[c])}
  BY DEF PackData, NeedHead
<1>4. /\ heads \in Seq(HeadType) /\ L \in Nat /\ L > 0 /\ DOMAIN heads = 1 .. L /\ L \in DOMAIN heads
      /\ Last(heads) = heads[L]
  BY <1>3, SerialFacts DEF Last
<1>5. JarType /\ last_serial \in Nat /\ NewWrite(room) \in 0 .. Size - 1 /\ Place(room) \in 0 .. Size
  <2>1. JarType /\ last_serial \in Nat
    BY SerialFacts DEF JarInv
  <2>2. NewWrite(room) \in 0 .. Size - 1 /\ Place(room) \in 0 .. Size - 1
    <3> HIDE DEF room
    <3> QED BY <1>2, <1>3, <2>1, WriteInBuffer
  <2> QED BY <2>1, <2>2, ConstantFacts
<1>6. /\ x \in ContextType /\ ContextOK(x, last_serial) /\ x.datas \in Seq(DataType)
      /\ \A n \in DOMAIN x.datas : \E m \in DOMAIN ctx[c].datas : x.datas[n] = ctx[c].datas[m]
  BY <1>2, <1>5, ContextFacts, RepairedContext, RecordFacts
<1>7. ~Torn(ctx[c]) => x = ctx[c] \/ x.datas = <<>>
  BY <1>2, ContextFacts, RepairCases
<1>8. \/ wild /\ GoWild
      \/ /\ write' = NewWrite(room)
         /\ heads' = [HeadsAfter(room) EXCEPT ![L].count = @ + 1, ![L].write = NewWrite(room)]
         /\ ctx' = [d \in Contexts |->
                      IF d # c THEN [ctx[d] EXCEPT !.datas = DatasAfter(@, room)]
                      ELSE [datas |-> es, first_serial |-> first, last_serial |-> serial]]
         /\ packing' = <<>>
         /\ UNCHANGED <<state, read, serials>>
  BY DEF PackData
<1>9. /\ known \subseteq known' /\ known' \subseteq {"overtaken", "patched"}
      /\ "overtaken" \notin known' => ~Overtakes(room) /\ "overtaken" \notin known
      /\ known' = {} => ~Overtakes(room) /\ ~Torn(ctx[c]) /\ known = {}
  BY <1>3, <1>5 DEF JarType
<1>10. serial = last_serial - 1 /\ serial \in Serials /\ serial \in Nat
  <2>1. heads[L].serial = first_serial + (L - 1) /\ first_serial + L = last_serial
    BY <1>4, SerialFacts
  <2>2. heads[L] \in HeadType
    BY <1>4
  <2>3. heads[L].serial \in Serials /\ heads[L].serial \in Nat
    BY <2>2, RecordFacts
  <2> QED BY <1>4, <2>1, <2>3, SerialFacts
<1> HIDE DEF x
<1>11. /\ rest \in Seq(DataType) /\ DOMAIN rest = DOMAIN x.datas /\ Len(rest) = Len(x.datas)
       /\ ListOK(rest, last_serial) /\ DOMAIN rest = 1 .. Len(rest) /\ Len(rest) \in Nat
       /\ \A n \in DOMAIN rest : rest[n].serial = x.datas[n].serial
  <2>1. ListOK(x.datas, last_serial)
    BY <1>6 DEF ContextOK
  <2> HIDE DEF room
  <2> QED BY <1>2, <1>6, <2>1, DatasAfterList
<1>12. ASSUME "overtaken" \notin known', state = "ok"
       PROVE  /\ Layout(heads, read, write, ctx) /\ ~Overtakes(room)
              /\ \A n \in DOMAIN x.datas : DataOK(heads, read, write, x.datas[n])
  <2>1. Layout(heads, read, write, ctx) /\ ~Overtakes(room)
    BY <1>9, <1>12 DEF JarInv, LayoutInv
  <2> QED BY <1>2, <1>6, <2>1 DEF Layout
<1>13. CASE wild /\ GoWild
  <2>1. known' # {}
    <3> SUFFICES ASSUME known' = {} PROVE FALSE
      OBVIOUS
    <3>1. known = {} /\ state = "ok" /\ "overtaken" \notin known'
      BY <1>9 DEF JarInv, PointerInv
    <3>2. /\ \A a \in RepairLooksInto(ctx[c]) : a.ok
          /\ \A n \in DOMAIN x.datas : \E m \in DOMAIN heads : x.datas[n].serial = heads[m].serial
      BY <1>2, <3>1, RepairSound DEF x
    <3>3. ~Dangling(RepairLooksInto(ctx[c]))
      BY <3>2 DEF Dangling
    <3>4. ~(rest # <<>> /\ ~rest[1].ok)
      <4> SUFFICES ASSUME rest # <<>> PROVE rest[1].ok
        OBVIOUS
      <4>1. 1 \in DOMAIN x.datas
        BY <1>11
      <4>2. PICK m \in DOMAIN heads : x.datas[1].serial = heads[m].serial
        BY <3>2, <4>1
      <4> HIDE DEF room
      <4> QED BY <1>2, <1>3, <1>5, <1>6, <1>12, <3>1, <4>1, <4>2, WrittenList
    <3>5. ~Overlaps(Last(heads), HeadSize, room)
      <4> HIDE DEF room
      <4> QED BY <1>2, <1>3, <1>4, <1>5, <1>12, <3>1, WrittenHead
    <3> QED BY <1>13, <3>3, <3>4, <3>5
  <2>2. UNCHANGED <<write, read, heads, first_serial, last_serial, ctx, packing>> /\ state' = "wild"
    BY <1>13 DEF GoWild, serials
  <2>3. packing' \in {<<>>} \cup (Contexts \X Lens)
    BY <1>1, <2>2
  <2> HIDE DEF wild, rest, room, c
  <2> QED BY <1>9, <2>1, <2>2, <2>3, QuietStep
<1>14. CASE /\ write' = NewWrite(room)
            /\ heads' = [HeadsAfter(room) EXCEPT ![L].count = @ + 1, ![L].write = NewWrite(room)]
            /\ ctx' = [d \in Contexts |->
                         IF d # c THEN [ctx[d] EXCEPT !.datas = DatasAfter(@, room)]
                         ELSE [datas |-> es, first_serial |-> first, last_serial |-> serial]]
            /\ packing' = <<>>
            /\ UNCHANGED <<state, read, serials>>
  <2> DEFINE w == NewWrite(room)
  <2>1. /\ heads' \in Seq(HeadType) /\ Len(heads') = L /\ DOMAIN heads' = 1 .. L
        /\ \A n \in 1 .. L : /\ heads'[n].at = heads[n].at
                             /\ heads'[n].serial = heads[n].serial
                             /\ heads'[n].ok <=> HeadsAfter(room)[n].ok
                             /\ n # L => heads'[n].write = heads[n].write
        /\ heads'[L].write = w
    <3> HIDE DEF room, rest, c, es
    <3> QED BY <1>2, <1>3, <1>4, <1>5, <1>14, DataHeads
  <2>2. /\ write' = w /\ w \in 0 .. Size - 1 /\ state' = state /\ read' = read /\ packing' = <<>>
        /\ first_serial' = first_serial /\ last_serial' = last_serial
    BY <1>5, <1>14 DEF serials
  <2>3. prev \in Serials /\ prev <= last_serial
    <3>1. CASE rest = <<>>
      BY <1>5, <3>1, ConstantFacts DEF Serials
    <3>2. CASE rest # <<>>
      <4>1. 1 \in DOMAIN rest /\ rest[1] \in DataType /\ prev = rest[1].serial
        BY <1>11, <3>2
      <4>2. rest[1].serial \in Serials /\ rest[1].serial \in Nat /\ rest[1].serial < last_serial
        BY <1>11, <4>1, RecordFacts DEF ListOK
      <4> QED BY <1>5, <4>1, <4>2
    <3> QED BY <3>1, <3>2
  <2>4. /\ b \in DataType /\ b.at = Place(room) /\ b.ok /\ b.len = packing[2]
        /\ b.serial = serial /\ b.prev_serial = prev
    <3> HIDE DEF prev, serial, room
    <3> QED BY <1>2, <1>5, <1>10, <2>3 DEF DataType
  <2>5. first \in Serials /\ first <= last_serial
    <3>1. x.first_serial \in Serials /\ x.first_serial <= last_serial
      BY <1>6, RecordFacts DEF ContextOK
    <3>2. serial \in Serials /\ serial <= last_serial
      BY <1>5, <1>10
    <3> HIDE DEF serial, rest
    <3> QED BY <3>1, <3>2
  <2> DEFINE y == ctx'[c]
  <2>6. y = [datas |-> es, first_serial |-> first, last_serial |-> serial]
    <3> HIDE DEF es, first, serial, rest, b
    <3> QED BY <1>2, <1>14
  <2>7. ASSUME NEW d \in Contexts, d # c
        PROVE  /\ ctx'[d] \in ContextType
               /\ ctx'[d].datas = DatasAfter(ctx[d].datas, room)
               /\ ctx'[d].first_serial = ctx[d].first_serial
               /\ ctx'[d].last_serial = ctx[d].last_serial
    <3> DEFINE u == ctx[d]
               ds == DatasAfter(u.datas, room)
               v == ctx'[d]
    <3>1. u \in ContextType /\ ds \in Seq(DataType)
      <4> HIDE DEF room
      <4> QED BY <1>2, ContextFacts, DatasAfterList
    <3>2. v = [u EXCEPT !.datas = ds]
      <4> HIDE DEF es, first, serial, rest, b, room, c
      <4> QED BY <1>14, <2>7
    <3> HIDE DEF u, ds, v
    <3>3. /\ v \in ContextType /\ v.last_serial = u.last_serial
          /\ v.datas = ds /\ v.first_serial = u.first_serial
      BY <3>1, <3>2 DEF ContextType
    <3> QED BY <3>3 DEF u, ds, v
  <2>8. /\ es \in Seq(DataType) /\ Len(es) = Len(rest) + 1 /\ DOMAIN es = 1 .. Len(rest) + 1
        /\ es[1] = b /\ ListOK(es, last_serial)
        /\ \A n \in 2 .. Len(rest) + 1 : n - 1 \in DOMAIN rest /\ es[n] = rest[n - 1]
    <3>1. b.serial = last_serial - 1 /\ b.prev_serial <= last_serial
      BY <1>10, <2>3, <2>4
    <3> HIDE DEF b, rest
    <3> QED BY <1>5, <1>11, <2>4, <3>1, LinkedList
  <2> HIDE DEF es, first, b, y, serial
  <2>9. /\ y \in ContextType /\ y.datas = es /\ y.first_serial = first /\ y.last_serial = serial
    BY <1>10, <2>5, <2>6, <2>8 DEF ContextType
  <2>10. ctx' \in [Contexts -> ContextType]
    <3>1. \A d \in Contexts : ctx'[d] \in ContextType
      BY <2>7, <2>9 DEF y
    <3>2. \E f : ctx' = [d \in Contexts |-> f[d]]
      <4> DEFINE f == [d \in Contexts |->
                         IF d # c THEN [ctx[d] EXCEPT !.datas = DatasAfter(@, room)]
                         ELSE [datas |-> es, first_serial |-> first, last_serial |-> serial]]
      <4>1. ctx' = f /\ f = [d \in Contexts |-> f[d]]
        BY <1>14
      <4> HIDE DEF f
      <4> QED BY <4>1
    <3> QED BY <3>1, <3>2
  <2> HIDE DEF rest, prev, wild, w, L, c, room
  <2>11. JarType'
    <3>1. \A n \in DOMAIN heads' : heads'[n].write < Size
      <4> TAKE n \in DOMAIN heads'
      <4>1. CASE n = L
        <5>1. w < Size
          BY <2>2, ConstantFacts
        <5> QED BY <2>1, <4>1, <5>1
      <4>2. CASE n # L
        <5>1. n \in 1 .. L /\ heads'[n].write = heads[n].write
          BY <2>1, <4>2
        <5> QED BY <1>4, <1>5, <5>1 DEF JarType
      <4> QED BY <4>1, <4>2
    <3> QED BY <1>5, <1>9, <2>1, <2>2, <2>10, <3>1 DEF JarType
  <2>12. SerialInv'
    <3>1. first_serial + L = last_serial
      BY SerialFacts DEF L
    <3>2. \A n \in 1 .. L : heads'[n].serial = first_serial + (n - 1)
      BY <1>4, <2>1, SerialFacts
    <3> QED BY <2>1, <2>2, <3>1, <3>2 DEF SerialInv
  <2>13. ListsInv'
    <3>1. ContextOK(y, last_serial)
      BY <1>5, <1>10, <2>5, <2>8, <2>9 DEF ContextOK
    <3>2. ASSUME NEW d \in Contexts, d # c PROVE ContextOK(ctx'[d], last_serial)
      <4>1. ctx[d].datas \in Seq(DataType) /\ ContextOK(ctx[d], last_serial)
        BY ContextFacts
      <4>2. ListOK(DatasAfter(ctx[d].datas, room), last_serial)
        <5> HIDE DEF room
        <5> QED BY <1>2, <4>1, DatasAfterList DEF ContextOK
      <4> QED BY <2>7, <3>2, <4>1, <4>2 DEF ContextOK
    <3> QED BY <2>2, <3>1, <3>2 DEF ListsInv, y
  <2>14. LayoutInv'
    <3> SUFFICES ASSUME state' = "ok", "overtaken" \notin known'
                 PROVE  Layout(heads', read', write', ctx')
      BY DEF LayoutInv
    <3>1. /\ Layout(heads, read, write, ctx) /\ ~Overtakes(room)
          /\ \A n \in DOMAIN x.datas : DataOK(heads, read, write, x.datas[n])
      BY <1>12, <2>2
    <3>2. ASSUME NEW m \in 1 .. L, NEW p, NEW size, InSet(heads, read, w, m, p, size)
          PROVE  InSet(heads', read', write', m, p, size)
      <4>1. \A n \in 1 .. m - 1 : heads'[n].write = heads[n].write
        BY <1>4, <2>1
      <4> QED BY <2>2, <3>2, <4>1, SameMarks
    <3>3. heads'[Len(heads')].write = write'
      BY <2>1, <2>2
    <3>4. /\ InSet(heads, read, w, L, Place(room), room)
          /\ InSet(heads, read, w, L, w, 0)
      BY <1>2, <1>3, <1>4, <1>5, <3>1, NewInSet DEF w, L
    <3>5. ASSUME NEW m \in DOMAIN heads' PROVE HeadOK(heads', read', write', m)
      <4>1. m \in 1 .. L /\ m \in DOMAIN heads
        BY <1>4, <2>1
      <4>2. /\ HeadsAfter(room)[m].ok
            /\ InSet(heads, read, w, m, heads[m].at, HeadSize)
            /\ InSet(heads, read, w, m, heads[m].write, 0)
        BY <1>2, <1>3, <1>5, <3>1, <4>1, WrittenHead DEF w
      <4>3. heads'[m].ok /\ InSet(heads', read', write', m, heads'[m].at, HeadSize)
        BY <2>1, <3>2, <4>1, <4>2
      <4>4. InSet(heads, read, w, m, heads'[m].write, 0)
        BY <2>1, <3>4, <4>1, <4>2
      <4>5. InSet(heads', read', write', m, heads'[m].write, 0)
        BY <3>2, <4>1, <4>4
      <4> QED BY <4>3, <4>5 DEF HeadOK
    <3>6. ASSUME NEW ds \in Seq(DataType), NEW n \in DOMAIN ds,
                 \A k \in DOMAIN ds : DataOK(heads, read, write, ds[k])
          PROVE  DataOK(heads', read', write', DatasAfter(ds, room)[n])
      <4> DEFINE a == DatasAfter(ds, room)[n]
      <4>1. a.serial = ds[n].serial
        BY <1>2, DatasAfterList
      <4>2. ASSUME NEW m \in DOMAIN heads', a.serial = heads'[m].serial
            PROVE  a.ok /\ InSet(heads', read', write', m, a.at, DataSize + a.len)
        <5>1. m \in 1 .. L /\ m \in DOMAIN heads /\ ds[n].serial = heads[m].serial
          BY <1>4, <2>1, <4>1, <4>2
        <5>2. a.ok /\ InSet(heads, read, w, m, a.at, DataSize + a.len)
          BY <1>2, <1>3, <1>5, <3>1, <3>6, <5>1, WrittenList DEF w
        <5> HIDE DEF a
        <5> QED BY <3>2, <5>1, <5>2
      <4> HIDE DEF a
      <4>3. DataOK(heads', read', write', a)
        BY <4>2 DEF DataOK
      <4> QED BY <4>3 DEF a
    <3>7. DataOK(heads', read', write', b)
      <4>1. ASSUME NEW m \in DOMAIN heads', b.serial = heads'[m].serial
            PROVE  b.ok /\ InSet(heads', read', write', m, b.at, DataSize + b.len)
        <5>1. m \in 1 .. L /\ heads[m].serial = serial /\ heads[L].serial = serial
          BY <1>4, <2>1, <2>4, <4>1 DEF serial
        <5>2. m = L
          <6>1. heads[m].serial = first_serial + (m - 1) /\ heads[L].serial = first_serial + (L - 1)
            BY <1>4, <5>1, SerialFacts
          <6> QED BY <1>4, <5>1, <6>1, SerialFacts
        <5>3. InSet(heads', read', write', m, Place(room), room)
          BY <3>2, <3>4, <5>1, <5>2
        <5> QED BY <2>4, <5>3 DEF room
      <4> QED BY <4>1 DEF DataOK
    <3>8. ASSUME NEW d \in Contexts, NEW n \in DOMAIN ctx'[d].datas
          PROVE  DataOK(heads', read', write', ctx'[d].datas[n])
      <4>1. CASE d # c
        <5> DEFINE ds == ctx[d].datas
        <5>1. ctx'[d].datas = DatasAfter(ds, room) /\ ds \in Seq(DataType)
          BY <2>7, <4>1, ContextFacts
        <5>2. n \in DOMAIN ds
          BY <1>2, <3>8, <5>1, DatasAfterList
        <5>3. \A k \in DOMAIN ds : DataOK(heads, read, write, ds[k])
          BY <3>1 DEF Layout
        <5> HIDE DEF ds
        <5> QED BY <3>6, <5>1, <5>2, <5>3
      <4>2. CASE d = c
        <5>1. ctx'[d].datas = es
          BY <2>9, <4>2 DEF y
        <5>2. CASE n = 1
          BY <2>8, <3>7, <5>1, <5>2
        <5>3. CASE n # 1
          <6>1. n \in 2 .. Len(rest) + 1
            BY <1>11, <2>8, <3>8, <5>1, <5>3
          <6>2. es[n] = rest[n - 1] /\ n - 1 \in DOMAIN x.datas
            BY <1>11, <2>8, <6>1
          <6>3. DataOK(heads', read', write', rest[n - 1])
            BY <1>6, <3>1, <3>6, <6>2 DEF rest
          <6> QED BY <5>1, <6>2, <6>3
        <5> QED BY <5>2, <5>3
      <4> QED BY <4>1, <4>2
    <3> QED BY <3>3, <3>5, <3>8 DEF Layout
  <2>15. PointerInv'
    <3> SUFFICES ASSUME known' = {} PROVE state' = "ok" /\ \A d \in Contexts : EndsOK(ctx'[d])
      BY DEF PointerInv
    <3>1. ~Torn(ctx[c]) /\ state = "ok" /\ \A d \in Contexts : EndsOK(ctx[d])
      BY <1>9 DEF JarInv, PointerInv
    <3>2. ASSUME NEW d \in Contexts, d # c PROVE EndsOK(ctx'[d])
      <4> DEFINE ds == ctx[d].datas
                 gs == DatasAfter(ds, room)
      <4>1. /\ ds \in Seq(DataType) /\ DOMAIN ds = 1 .. Len(ds) /\ Len(ds) \in Nat
            /\ EndsOK(ctx[d])
        BY <3>1, ContextFacts
      <4>2. /\ gs \in Seq(DataType) /\ Len(gs) = Len(ds)
            /\ \A n \in DOMAIN ds : /\ gs[n].serial = ds[n].serial
                                    /\ gs[n].prev_serial = ds[n].prev_serial
        BY <1>2, <4>1, DatasAfterList
      <4>3. /\ ctx'[d].datas = gs /\ ctx'[d].first_serial = ctx[d].first_serial
            /\ ctx'[d].last_serial = ctx[d].last_serial
        BY <2>7, <3>2
      <4> HIDE DEF gs
      <4> QED BY <4>1, <4>2, <4>3 DEF EndsOK
    <3>3. EndsOK(y)
      <4>1. es[1].serial = serial /\ es[1].prev_serial = prev /\ Len(es) = Len(rest) + 1
        BY <2>4, <2>8
      <4>2. CASE rest = <<>>
        <5>1. Len(es) = 1 /\ first = serial
          BY <1>11, <4>1, <4>2 DEF first
        <5>2. ~(Len(es) > 1) /\ first = es[Len(es)].serial
          <6>1. ~(Len(es) > 1)
            BY <5>1
          <6>2. first = es[1].serial
            BY <4>1, <5>1
          <6>3. first = es[Len(es)].serial
            BY <5>1, <6>2
          <6> QED BY <6>1, <6>3
        <5> QED BY <2>9, <4>1, <5>2 DEF EndsOK
      <4>3. CASE rest # <<>>
        <5> DEFINE R == Len(rest)
        <5>1. R \in Nat /\ R > 0 /\ x.datas # <<>> /\ R \in DOMAIN rest /\ R = Len(x.datas)
          BY <1>6, <1>11, <4>3
        <5>2. x = ctx[c] /\ EndsOK(x)
          BY <1>2, <1>7, <3>1, <5>1
        <5>3. x.first_serial = x.datas[R].serial
          BY <5>1, <5>2 DEF EndsOK
        <5>4. first = x.first_serial /\ prev = rest[1].serial
          BY <4>3 DEF first, prev
        <5> HIDE DEF R
        <5>5. es[R + 1] = rest[R] /\ es[2] = rest[1]
          BY <2>8, <5>1 DEF R
        <5>6. first = es[R + 1].serial
          BY <1>11, <5>1, <5>3, <5>4, <5>5
        <5> QED BY <2>9, <4>1, <5>4, <5>5, <5>6 DEF EndsOK, R
      <4> QED BY <4>2, <4>3
    <3> QED BY <2>2, <3>1, <3>2, <3>3 DEF y
  <2> QED BY <2>11, <2>12, <2>13, <2>14, <2>15 DEF JarInv
<1> HIDE DEF wild, rest, room, c, es, first, serial
<1> QED BY <1>8, <1>13, <1>14

\* A round of peak_jar_pack() finds the headers it looks into.
LEMMA WildStep ==
  ASSUME JarInv, Young, state = "ok", PackWild
  PROVE  JarInv'
<1>1. GoWild /\ UNCHANGED known /\ (Dangling(LastHeads) \/ Dangling(FirstHeads))
  BY DEF PackWild
<1>2. known # {}
  <2> SUFFICES ASSUME known = {} PROVE FALSE
    OBVIOUS
  <2>1. \A n \in DOMAIN heads : heads[n].ok
    BY DEF JarInv, LayoutInv, Layout, HeadOK
  <2> QED BY <1>1, <2>1 DEF Dangling, LastHeads, FirstHeads
<1>3. JarType
  BY DEF JarInv
<1> QED BY <1>1, <1>2, <1>3, QuietStep DEF GoWild, serials, JarType

\* The invariant holds of a jar and of contexts that have just been set up.
LEMMA JarInit == Init => JarInv
<1> SUFFICES ASSUME Init PROVE JarInv
  OBVIOUS
<1>1. /\ state = "ok" /\ write = 0 /\ read = 0 /\ heads = <<>> /\ first_serial = 0
      /\ last_serial = 0 /\ packing = <<>> /\ known = {}
      /\ ctx = [c \in Contexts |-> [datas |-> <<>>, first_serial |-> 0, last_serial |-> 0]]
  BY DEF Init
<1>2. 0 \in Serials /\ 0 \in 0 .. Size - 1
  BY ConstantFacts DEF Serials
<1>3. \A c \in Contexts : /\ ctx[c] \in ContextType /\ ctx[c].datas = <<>>
                          /\ ctx[c].first_serial = 0 /\ ctx[c].last_serial = 0
  BY <1>1, <1>2 DEF ContextType
<1>4. JarType
  BY <1>1, <1>2, <1>3 DEF JarType
<1>5. SerialInv
  BY <1>1 DEF SerialInv
<1>6. ListsInv
  BY <1>1, <1>3 DEF ListsInv, ContextOK, ListOK
<1>7. LayoutInv
  BY <1>1, <1>3 DEF LayoutInv, Layout
<1>8. PointerInv
  BY <1>1, <1>3 DEF PointerInv, EndsOK
<1> QED BY <1>4, <1>5, <1>6, <1>7, <1>8 DEF JarInv

\* Every step keeps it, as long as the serials are in the first half.
LEMMA JarNext == JarInv /\ Young /\ [Next]_vars => JarInv'
<1> SUFFICES ASSUME JarInv, Young, [Next]_vars PROVE JarInv'
  OBVIOUS
<1>1. packing \in {<<>>} \cup (Contexts \X Lens) /\ known \subseteq {"overtaken", "patched"}
  BY DEF JarInv, JarType
<1>2. ASSUME NEW c \in Contexts, NEW len \in Lens, peak_jar_pack(c, len) PROVE JarInv'
  BY <1>1, <1>2, QuietStep DEF peak_jar_pack, serials
<1>3. ASSUME PackRound PROVE JarInv'
  BY <1>3, WildStep, HeadStep, FreeStep, DataStep DEF PackRound
<1>4. ASSUME NEW c \in Contexts, peak_jar_lifo(c) PROVE JarInv'
  BY <1>4, WalkStep DEF peak_jar_lifo
<1>5. ASSUME NEW c \in Contexts, peak_jar_fifo(c) PROVE JarInv'
  BY <1>5, WalkStep DEF peak_jar_fifo
<1>6. CASE UNCHANGED vars
  BY <1>1, <1>6, QuietStep DEF vars
<1> QED BY <1>2, <1>3, <1>4, <1>5, <1>6 DEF Next

\* What the invariant says of the order of the lists.
LEMMA OrderFromInv == JarInv /\ Young => ListsOrdered
<1> SUFFICES ASSUME JarInv, Young PROVE ListsOrdered
  OBVIOUS
<1>1. TypeOK
  <2>1. JarType
    BY DEF JarInv
  <2>2. \A n \in DOMAIN heads : heads[n] \in HeadType
    BY SerialFacts
  <2>3. \A c \in Contexts : /\ \A n \in DOMAIN ctx[c].datas : ctx[c].datas[n] \in DataType
                            /\ ctx[c].first_serial \in Serials /\ ctx[c].last_serial \in Serials
    BY ContextFacts, RecordFacts
  <2> QED BY <2>1, <2>2, <2>3 DEF TypeOK, JarType
<1>2. SerialsContiguous
  <2> DEFINE L == Len(heads)
  <2>1. L \in Nat /\ last_serial - first_serial = L /\ last_serial < SerialSize /\ first_serial \in Nat
    BY SerialFacts, ConstantFacts
  <2>2. L < SerialSize /\ SerialSize \in Nat \ {0}
    BY <2>1, ConstantFacts, SerialFacts
  <2> HIDE DEF L
  <2>3. Uint(last_serial - first_serial) = L
    BY <2>1, <2>2, ModSmall DEF Uint
  <2>4. ASSUME NEW n \in DOMAIN heads PROVE heads[n].serial = Uint(first_serial + (n - 1))
    <3> DEFINE a == first_serial + (n - 1)
    <3>1. heads[n].serial = a /\ a \in Nat /\ a < SerialSize
      BY <2>4, SerialFacts, ConstantFacts
    <3> HIDE DEF a
    <3>2. Uint(a) = a
      BY <2>2, <3>1, ModSmall DEF Uint
    <3> QED BY <3>1, <3>2 DEF a
  <2> QED BY <2>3, <2>4 DEF SerialsContiguous, L
<1>3. Chronological
  <2> SUFFICES ASSUME NEW c \in Contexts, NEW m \in DOMAIN ctx[c].datas,
                      NEW n \in DOMAIN ctx[c].datas, m < n
               PROVE  ~Wrap32(ctx[c].datas[m].serial - ctx[c].datas[n].serial)
    BY DEF Chronological
  <2> DEFINE a == ctx[c].datas[m].serial
             b == ctx[c].datas[n].serial
  <2>1. a \in Nat /\ b \in Nat /\ a < last_serial /\ b < last_serial
    BY ContextFacts
  <2>2. b <= a
    BY ContextFacts DEF ContextOK, ListOK
  <2> HIDE DEF a, b
  <2>3. 2 * a < SerialSize /\ 2 * b < SerialSize /\ ~(a < b)
    BY <2>1, <2>2, SerialFacts, ConstantFacts
  <2>4. ~Wrap32(a - b)
    BY <2>1, <2>3, WrapLess
  <2> QED BY <2>4 DEF a, b
<1> QED BY <1>1, <1>2, <1>3 DEF ListsOrdered

\* What it says of the blocks of sets that are held.
LEMMA IntactFromInv == JarInv => HeldDataIntact
BY DEF JarInv, LayoutInv, Layout, DataOK, HeldDataIntact, Held

\* What it says of the pointers that were followed.
LEMMA PointersFromInv == JarInv => NoStalePointer
BY DEF JarInv, PointerInv, NoStalePointer
-----------------------------------------------------------------------------
(***************************************************************************)
(* The serials of the sets in the buffer are always consecutive, and every *)
(* context lists its blocks newest first, whatever peak_jar_pack(),        *)
(* peak_jar_read(), peak_jar_repair() and the callbacks' JAR_DROP do.      *)
(***************************************************************************)
THEOREM JarOrder == Spec /\ []Young => []ListsOrdered
<1> QED BY JarInit, JarNext, OrderFromInv, PTL DEF Spec

(***************************************************************************)
(* peak_jar_write() never hands out room in which a block of a set lies    *)
(* that peak_jar_read() has not freed, unless it wraps around past a read  *)
(* position that is ahead.                                                 *)
(***************************************************************************)
THEOREM JarDataIntact == Spec /\ []Young => []HeldDataIntact
<1> QED BY JarInit, JarNext, IntactFromInv, PTL DEF Spec

(***************************************************************************)
(* No pointer of a context or of the jar is followed once its block has    *)
(* been overwritten: the serials that peak_jar_repair() compares tell,     *)
(* unless the jar was overtaken or a context has lost blocks to a repair   *)
(* or to JAR_DROP.                                                         *)
(***************************************************************************)
THEOREM JarPointers == Spec /\ []Young => []NoStalePointer
<1> QED BY JarInit, JarNext, PointersFromInv, PTL DEF Spec
=============================================================================
