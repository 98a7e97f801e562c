------------------------- MODULE PeakFlowsplitProofs -------------------------
(***************************************************************************)
(* Proofs about PeakFlowsplit: what is stored (SplitCorrect) and that it   *)
(* can be read again (OutputsReadBack), for all inputs and sizes.          *)
(*                                                                         *)
(* First sequences and their concatenation, then the cells of a file, one  *)
(* step of the reader in every format, the reader behind k items of the    *)
(* input, what was stored of them and where; then the output files, and a  *)
(* reader of one of them.                                                  *)
(***************************************************************************)
EXTENDS PeakFlowsplit, PeakArithmetic, TLAPS

\* A sequence, of whatever it has.
IsSeq(s) == s \in Seq(Range(s))

LEMMA SeqFacts ==
  ASSUME NEW s, IsSeq(s)
  PROVE  /\ Len(s) \in Nat /\ DOMAIN s = 1 .. Len(s)
         /\ \A T : Range(s) \subseteq T => s \in Seq(T)
<1>1. s \in Seq(Range(s))
  BY DEF IsSeq
<1>2. Len(s) \in Nat /\ DOMAIN s = 1 .. Len(s)
  BY <1>1
<1>3. ASSUME NEW T, Range(s) \subseteq T PROVE s \in Seq(T)
  BY <1>1, <1>3
<1> QED BY <1>2, <1>3

LEMMA TypedIsSeq ==
  ASSUME NEW T, NEW s \in Seq(T)
  PROVE  IsSeq(s)
<1>1. \A i \in 1 .. Len(s) : s[i] \in Range(s)
  BY DEF Range
<1> QED BY <1>1 DEF IsSeq

LEMMA FunctionIsSeq ==
  ASSUME NEW n \in Nat, NEW f, f = [i \in 1 .. n |-> f[i]]
  PROVE  IsSeq(f) /\ Len(f) = n
<1>1. \A i \in 1 .. n : f[i] \in Range(f)
  BY DEF Range
<1>2. f \in [1 .. n -> Range(f)]
  BY <1>1
<1>3. f \in Seq(Range(f)) /\ Len(f) = n
  BY <1>2
<1> QED BY <1>3 DEF IsSeq

LEMMA TupleIsSeq ==
  ASSUME NEW x, NEW y
  PROVE  /\ IsSeq(<<>>) /\ Len(<<>>) = 0
         /\ IsSeq(<<x>>) /\ Len(<<x>>) = 1 /\ <<x>>[1] = x
         /\ IsSeq(<<x, y>>) /\ Len(<<x, y>>) = 2 /\ <<x, y>>[1] = x /\ <<x, y>>[2] = y
<1>1. <<>> \in Seq({x}) /\ <<x>> \in Seq({x}) /\ <<x, y>> \in Seq({x, y})
  OBVIOUS
<1> QED BY <1>1, TypedIsSeq

LEMMA JoinIs ==
  ASSUME NEW s, NEW t, IsSeq(s), IsSeq(t)
  PROVE  /\ IsSeq(s \o t) /\ Len(s \o t) = Len(s) + Len(t)
         /\ \A i \in 1 .. Len(s) : (s \o t)[i] = s[i]
         /\ \A i \in 1 .. Len(t) : (s \o t)[Len(s) + i] = t[i]
<1> DEFINE T == Range(s) \cup Range(t)
<1>1. s \in Seq(T) /\ t \in Seq(T)
  BY SeqFacts
<1> HIDE DEF T
<1>2. s \o t \in Seq(T) /\ Len(s \o t) = Len(s) + Len(t)
  BY <1>1
<1>3. \A i \in 1 .. Len(s) : (s \o t)[i] = s[i]
  BY <1>1
<1>4. \A i \in 1 .. Len(t) : (s \o t)[Len(s) + i] = t[i]
  BY <1>1
<1> QED BY <1>2, <1>3, <1>4, TypedIsSeq

LEMMA PrefixIs ==
  ASSUME NEW s, IsSeq(s), NEW n \in 0 .. Len(s)
  PROVE  /\ IsSeq(SubSeq(s, 1, n)) /\ Len(SubSeq(s, 1, n)) = n
         /\ \A i \in 1 .. n : SubSeq(s, 1, n)[i] = s[i]
<1>1. s \in Seq(Range(s))
  BY DEF IsSeq
<1>2. SubSeq(s, 1, n) \in Seq(Range(s)) /\ Len(SubSeq(s, 1, n)) = n
  BY <1>1
<1>3. \A i \in 1 .. n : SubSeq(s, 1, n)[i] = s[i]
  BY <1>1
<1> QED BY <1>2, <1>3, TypedIsSeq

\* A sequence of sequences.
IsSeqs(R) == IsSeq(R) /\ \A k \in 1 .. Len(R) : IsSeq(R[k])

\* Under a name, what stands for no sequence in particular.
Join(s, t) == s \o t

\* w has s, of length a, and then t, of length b.
IsJoin(w, s, t, a, b) ==
  /\ IsSeq(w) /\ Len(w) = a + b
  /\ \A i \in 1 .. a : w[i] = s[i]
  /\ \A i \in 1 .. b : w[a + i] = t[i]

LEMMA Joins ==
  ASSUME NEW s, NEW t, IsSeq(s), IsSeq(t)
  PROVE  IsJoin(Join(s, t), s, t, Len(s), Len(t))
BY JoinIs DEF Join, IsJoin

LEMMA JoinAt ==
  ASSUME NEW s, NEW t, NEW a, NEW b, IsSeq(s) /\ Len(s) = a, IsSeq(t) /\ Len(t) = b
  PROVE  IsJoin(Join(s, t), s, t, a, b)
<1>1. IsJoin(Join(s, t), s, t, Len(s), Len(t))
  BY Joins
<1> QED BY <1>1

\* g has the first k of the sequences R put together, up to every one of them.
IsFlat(R, k, g) == g = [i \in 1 .. k |-> IF i = 1 THEN R[i] ELSE Join(g[i - 1], R[i])]

LEMMA FlatsExist ==
  ASSUME NEW R, NEW k \in Nat
  PROVE  \E g : IsFlat(R, k, g)
<1> DEFINE P == {m \in Nat : \E g : IsFlat(R, m, g)}
<1>1. 0 \in P
  <2>1. IsFlat(R, 0, [i \in 1 .. 0 |-> R])
    BY DEF IsFlat
  <2> QED BY <2>1
<1>2. ASSUME NEW m \in Nat, m \in P PROVE m + 1 \in P
  <2>1. PICK g : IsFlat(R, m, g)
    BY <1>2
  <2> DEFINE h == [i \in 1 .. m + 1 |-> IF i <= m THEN g[i]
                                        ELSE IF i = 1 THEN R[i] ELSE Join(g[m], R[i])]
  <2>2. \A i \in 1 .. m : g[i] = IF i = 1 THEN R[i] ELSE Join(g[i - 1], R[i])
    BY <2>1 DEF IsFlat
  <2>3. ASSUME NEW i \in 1 .. m + 1
        PROVE  h[i] = IF i = 1 THEN R[i] ELSE Join(h[i - 1], R[i])
    <3>1. CASE i <= m /\ i = 1
      <4>1. h[i] = g[i] /\ i \in 1 .. m
        BY <3>1
      <4>2. g[i] = R[i]
        BY <2>2, <3>1, <4>1
      <4> QED BY <3>1, <4>1, <4>2
    <3>2. CASE i <= m /\ i # 1
      <4>1. h[i] = g[i] /\ h[i - 1] = g[i - 1]
        BY <3>2
      <4>2. g[i] = Join(g[i - 1], R[i])
        BY <2>2, <3>2
      <4> QED BY <3>2, <4>1, <4>2
    <3>3. CASE i = m + 1 /\ i = 1
      BY <3>3
    <3>4. CASE i = m + 1 /\ i # 1
      <4>1. h[i] = Join(g[m], R[i]) /\ h[i - 1] = g[m]
        BY <3>4
      <4> QED BY <3>4, <4>1
    <3> QED BY <3>1, <3>2, <3>3, <3>4
  <2>4. h = [i \in 1 .. m + 1 |-> IF i = 1 THEN R[i] ELSE Join(h[i - 1], R[i])]
    BY <2>3
  <2> HIDE DEF h
  <2>5. IsFlat(R, m + 1, h)
    BY <2>4 DEF IsFlat
  <2> QED BY <2>5
<1> HIDE DEF P
<1>3. Nat \subseteq P
  BY <1>1, <1>2, Induction
<1> QED BY <1>3 DEF P

\* Two functions have the same first m values.
Agree(g, h, m) == \A i \in 1 .. m : g[i] = h[i]

LEMMA FlatUnique ==
  ASSUME NEW R, NEW Q, NEW k \in Nat, NEW m \in Nat, NEW g, NEW h, m <= k,
         IsFlat(R, k, g), IsFlat(Q, m, h), Agree(Q, R, m)
  PROVE  Agree(h, g, m)
<1> SUFFICES \A i \in 1 .. m : h[i] = g[i]
  BY DEF Agree
<1> DEFINE P == {i \in Nat : i + 1 <= m => h[i + 1] = g[i + 1]}
<1>0. /\ \A i \in 1 .. k : g[i] = IF i = 1 THEN R[i] ELSE Join(g[i - 1], R[i])
      /\ \A i \in 1 .. m : h[i] = IF i = 1 THEN Q[i] ELSE Join(h[i - 1], Q[i])
  BY DEF IsFlat
<1>1. 0 \in P
  <2>1. CASE 1 <= m
    <3>1. g[1] = R[1] /\ h[1] = Q[1] /\ Q[1] = R[1]
      BY <1>0, <2>1 DEF Agree
    <3> QED BY <3>1
  <2> QED BY <2>1
<1>2. ASSUME NEW i \in Nat, i \in P PROVE i + 1 \in P
  <2> SUFFICES ASSUME i + 2 <= m PROVE h[i + 2] = g[i + 2]
    OBVIOUS
  <2>1. h[i + 1] = g[i + 1]
    BY <1>2
  <2>2. i + 2 \in 1 .. m /\ i + 2 \in 1 .. k /\ i + 2 # 1 /\ (i + 2) - 1 = i + 1
    OBVIOUS
  <2>3. h[i + 2] = Join(h[i + 1], Q[i + 2])
    BY <1>0, <2>2
  <2>4. g[i + 2] = Join(g[i + 1], R[i + 2])
    BY <1>0, <2>2
  <2>5. Q[i + 2] = R[i + 2]
    BY <2>2 DEF Agree
  <2> QED BY <2>1, <2>3, <2>4, <2>5
<1> HIDE DEF P
<1>3. Nat \subseteq P
  BY <1>1, <1>2, Induction
<1>4. TAKE i \in 1 .. m
<1>5. i - 1 \in P /\ (i - 1) + 1 = i
  BY <1>3
<1> QED BY <1>5 DEF P

\* The first k of the sequences R, put together.
Flat(R, k) == FlattenSeq(SubSeq(R, 1, k))

LEMMA FlatIs ==
  ASSUME NEW R, IsSeqs(R), NEW k \in 1 .. Len(R), NEW g, IsFlat(R, Len(R), g)
  PROVE  Flat(R, k) = g[k]
<1> DEFINE Q == SubSeq(R, 1, k)
<1>0. IsSeq(R) /\ Len(R) \in Nat
  BY SeqFacts DEF IsSeqs
<1>1. Len(Q) = k /\ \A i \in 1 .. k : Q[i] = R[i]
  BY <1>0, PrefixIs
<1>2. \E h : h = [i \in 1 .. Len(Q) |-> IF i = 1 THEN Q[i] ELSE Join(h[i - 1], Q[i])]
  <2>1. Len(Q) \in Nat
    BY <1>1
  <2> HIDE DEF Q
  <2>2. \E h : IsFlat(Q, Len(Q), h)
    BY <2>1, FlatsExist
  <2> QED BY <2>2 DEF IsFlat
<1> DEFINE h == CHOOSE h : h = [i \in 1 .. Len(Q) |-> IF i = 1 THEN Q[i] ELSE Join(h[i - 1], Q[i])]
<1>3. IsFlat(Q, Len(Q), h)
  BY <1>2 DEF IsFlat
<1>4. FlattenSeq(Q) = h[Len(Q)]
  BY <1>1 DEF FlattenSeq, Join
<1> HIDE DEF Q, h
<1>5. h[k] = g[k]
  <2> DEFINE L == Len(R)
  <2>1. L \in Nat /\ k \in Nat /\ k <= L /\ k \in 1 .. k /\ IsFlat(R, L, g)
    BY <1>0
  <2> HIDE DEF L
  <2>2. IsFlat(Q, k, h)
    BY <1>1, <1>3
  <2>3. Agree(Q, R, k)
    BY <1>1 DEF Agree
  <2>4. Agree(h, g, k)
    BY <2>1, <2>2, <2>3, FlatUnique
  <2> QED BY <2>1, <2>4 DEF Agree
<1> QED BY <1>1, <1>4, <1>5 DEF Flat, Q

\* The sequences of a sequence put together, one after the other.
LEMMA FlatStep ==
  ASSUME NEW R, IsSeqs(R)
  PROVE  /\ Flat(R, 0) = <<>> /\ FlattenSeq(R) = Flat(R, Len(R))
         /\ \A k \in 1 .. Len(R) : Flat(R, k) = Flat(R, k - 1) \o R[k]
         /\ \A k \in 0 .. Len(R) : IsSeq(Flat(R, k))
<1>3. IsSeq(R) /\ Len(R) \in Nat /\ \A k \in 1 .. Len(R) : IsSeq(R[k])
  BY SeqFacts DEF IsSeqs
<1>0. R \in Seq(Range(R))
  BY <1>3 DEF IsSeq
<1>1. Flat(R, 0) = <<>>
  <2>1. SubSeq(R, 1, 0) = <<>> /\ Len(<<>>) = 0
    BY <1>0
  <2> QED BY <2>1 DEF Flat, FlattenSeq
<1>2. FlattenSeq(R) = Flat(R, Len(R))
  <2>1. SubSeq(R, 1, Len(R)) = R
    BY <1>0
  <2> QED BY <2>1 DEF Flat
<1>4. PICK g : IsFlat(R, Len(R), g)
  BY <1>3, FlatsExist
<1>5. \A k \in 1 .. Len(R) : Flat(R, k) = g[k]
  BY <1>4, FlatIs
<1>6. \A k \in 1 .. Len(R) : g[k] = IF k = 1 THEN R[k] ELSE Join(g[k - 1], R[k])
  BY <1>4 DEF IsFlat
<1>7. ASSUME NEW k \in 1 .. Len(R)
      PROVE  Flat(R, k) = Join(Flat(R, k - 1), R[k])
  <2>1. CASE k = 1
    <3>1. Flat(R, 1) = R[1]
      BY <1>5, <1>6, <2>1
    <3>2. Join(<<>>, R[1]) = R[1]
      <4>1. R[1] \in Seq(Range(R[1]))
        BY <1>3, <2>1 DEF IsSeq
      <4> QED BY <4>1 DEF Join
    <3> QED BY <1>1, <2>1, <3>1, <3>2
  <2>2. CASE k # 1
    <3>1. k - 1 \in 1 .. Len(R)
      BY <1>3, <2>2
    <3>2. Flat(R, k) = Join(g[k - 1], R[k])
      BY <1>5, <1>6, <2>2
    <3> QED BY <1>5, <3>1, <3>2
  <2> QED BY <2>1, <2>2
<1> DEFINE P == {k \in Nat : k <= Len(R) => IsSeq(Flat(R, k))}
<1>8. 0 \in P
  BY <1>1, TupleIsSeq
<1>9. ASSUME NEW k \in Nat, k \in P PROVE k + 1 \in P
  <2> SUFFICES ASSUME k + 1 <= Len(R) PROVE IsSeq(Flat(R, k + 1))
    OBVIOUS
  <2>1. IsSeq(Flat(R, k))
    BY <1>3, <1>9
  <2>2. k + 1 \in 1 .. Len(R) /\ (k + 1) - 1 = k
    BY <1>3
  <2>3. Flat(R, k + 1) = Join(Flat(R, k), R[k + 1])
    BY <1>7, <2>2
  <2>4. IsSeq(R[k + 1])
    BY <1>3, <2>2
  <2>5. IsSeq(Flat(R, k) \o R[k + 1])
    BY <2>1, <2>4, JoinIs
  <2> QED BY <2>3, <2>5 DEF Join
<1> HIDE DEF P
<1>10. Nat \subseteq P
  BY <1>8, <1>9, Induction
<1>11. \A k \in 0 .. Len(R) : IsSeq(Flat(R, k))
  <2>1. TAKE k \in 0 .. Len(R)
  <2>2. k \in P
    BY <1>10
  <2> QED BY <1>3, <2>2 DEF P
<1>12. \A k \in 1 .. Len(R) : Flat(R, k) = Flat(R, k - 1) \o R[k]
  BY <1>7 DEF Join
<1> QED BY <1>1, <1>2, <1>11, <1>12

\* Where the sequence k begins, and what is there.
Begin(R, k) == Len(Flat(R, k - 1))
Placed(R, k, s) == \A i \in 1 .. Len(R[k]) : s[Begin(R, k) + i] = R[k][i]

\* Each of the sequences is where those before it end.
LEMMA FlatCells ==
  ASSUME NEW R, IsSeqs(R), NEW k \in 1 .. Len(R), NEW m \in k .. Len(R)
  PROVE  /\ Begin(R, k) \in Nat /\ Len(Flat(R, k)) = Begin(R, k) + Len(R[k])
         /\ Len(Flat(R, k)) <= Len(Flat(R, m))
         /\ Placed(R, k, Flat(R, m))
<1> DEFINE P == {d \in Nat : k + d <= Len(R) =>
                   Len(Flat(R, k)) <= Len(Flat(R, k + d)) /\ Placed(R, k, Flat(R, k + d))}
<1>1. Len(R) \in Nat /\ \A n \in 1 .. Len(R) : IsSeq(R[n])
  BY SeqFacts DEF IsSeqs
<1>2. /\ \A n \in 1 .. Len(R) : Flat(R, n) = Join(Flat(R, n - 1), R[n])
      /\ \A n \in 0 .. Len(R) : IsSeq(Flat(R, n)) /\ Len(Flat(R, n)) \in Nat
  BY FlatStep, SeqFacts DEF Join
<1>3. ASSUME NEW n \in 1 .. Len(R)
      PROVE  /\ Len(Flat(R, n)) = Len(Flat(R, n - 1)) + Len(R[n])
             /\ \A i \in 1 .. Len(Flat(R, n - 1)) : Flat(R, n)[i] = Flat(R, n - 1)[i]
             /\ \A i \in 1 .. Len(R[n]) : Flat(R, n)[Len(Flat(R, n - 1)) + i] = R[n][i]
             /\ Len(R[n]) \in Nat /\ Len(Flat(R, n - 1)) \in Nat
  <2>1. n - 1 \in 0 .. Len(R)
    BY <1>1
  <2>2. IsSeq(Flat(R, n - 1)) /\ IsSeq(R[n]) /\ Len(Flat(R, n - 1)) \in Nat
    BY <1>1, <1>2, <2>1
  <2>3. Len(R[n]) \in Nat
    BY <2>2, SeqFacts
  <2>4. Flat(R, n) = Join(Flat(R, n - 1), R[n])
    BY <1>2
  <2> DEFINE s == Flat(R, n - 1)
             t == R[n]
  <2>5. /\ Len(Join(s, t)) = Len(s) + Len(t)
        /\ \A i \in 1 .. Len(s) : Join(s, t)[i] = s[i]
        /\ \A i \in 1 .. Len(t) : Join(s, t)[Len(s) + i] = t[i]
    <3> HIDE DEF s, t
    <3>1. IsSeq(s) /\ IsSeq(t)
      BY <2>2 DEF s, t
    <3> QED BY <3>1, JoinIs DEF Join
  <2> QED BY <2>2, <2>3, <2>4, <2>5
<1>4. /\ Len(Flat(R, k)) = Begin(R, k) + Len(R[k]) /\ Begin(R, k) \in Nat
      /\ Len(R[k]) \in Nat /\ Placed(R, k, Flat(R, k))
  BY <1>3 DEF Begin, Placed
<1>5. 0 \in P
  <2>1. k + 0 = k /\ Len(Flat(R, k)) \in Nat
    BY <1>1, <1>2
  <2> QED BY <1>4, <2>1
<1>6. ASSUME NEW d \in Nat, d \in P PROVE d + 1 \in P
  <2> SUFFICES ASSUME k + (d + 1) <= Len(R)
               PROVE  /\ Len(Flat(R, k)) <= Len(Flat(R, k + (d + 1)))
                      /\ Placed(R, k, Flat(R, k + (d + 1)))
    OBVIOUS
  <2>1. k + (d + 1) \in 1 .. Len(R) /\ (k + (d + 1)) - 1 = k + d /\ k + d <= Len(R)
    BY <1>1
  <2>2. Len(Flat(R, k)) <= Len(Flat(R, k + d)) /\ Placed(R, k, Flat(R, k + d))
    BY <1>6, <2>1
  <2>3. /\ Len(Flat(R, k + (d + 1))) = Len(Flat(R, k + d)) + Len(R[k + (d + 1)])
        /\ \A i \in 1 .. Len(Flat(R, k + d)) : Flat(R, k + (d + 1))[i] = Flat(R, k + d)[i]
        /\ Len(R[k + (d + 1)]) \in Nat /\ Len(Flat(R, k + d)) \in Nat
    BY <1>3, <2>1
  <2>4. ASSUME NEW i \in 1 .. Len(R[k])
        PROVE  Flat(R, k + (d + 1))[Begin(R, k) + i] = R[k][i]
    <3>1. Begin(R, k) + i \in 1 .. Len(Flat(R, k + d))
      BY <1>4, <2>2, <2>3
    <3>2. Flat(R, k + d)[Begin(R, k) + i] = R[k][i]
      BY <2>2 DEF Placed
    <3> QED BY <2>3, <3>1, <3>2
  <2>5. Len(Flat(R, k)) <= Len(Flat(R, k + (d + 1)))
    <3> DEFINE a == Len(Flat(R, k))
               b == Len(Flat(R, k + d))
               c == Len(R[k + (d + 1)])
    <3>1. a \in Nat /\ a <= b /\ b \in Nat /\ c \in Nat
      BY <1>1, <1>2, <2>2, <2>3
    <3>2. Len(Flat(R, k + (d + 1))) = b + c
      BY <2>3
    <3> HIDE DEF a, b, c
    <3>3. a <= b + c
      BY <3>1
    <3> QED BY <3>2, <3>3 DEF a
  <2> QED BY <2>4, <2>5 DEF Placed
<1> HIDE DEF P
<1>7. Nat \subseteq P
  BY <1>5, <1>6, Induction
<1>8. m - k \in P /\ k + (m - k) = m /\ m <= Len(R)
  BY <1>1, <1>7
<1>9. Len(Flat(R, k)) <= Len(Flat(R, m)) /\ Placed(R, k, Flat(R, m))
  BY <1>8 DEF P
<1> QED BY <1>4, <1>9
-----------------------------------------------------------------------------
(***************************************************************************)
(* The cells of an item.                                                   *)
(***************************************************************************)
Byte(n, i) == [is |-> "byte", item |-> n, at |-> i]

\* The formats that have a record header of one cell.
Plain == {"erf", "pcap", "pcap_swap", "netmon"}

RecordOf(fmt, item) ==
  CASE fmt = "erf" -> [is |-> "record", rlen |-> item.cap + 1, wlen |-> item.orig]
    [] fmt = "pcap" -> [is |-> "record", incl_len |-> item.cap, orig_len |-> item.orig]
    [] fmt = "pcap_swap" ->
         [is |-> "record", incl_len |-> bswap32(item.cap), orig_len |-> bswap32(item.orig)]
    [] fmt = "netmon" ->
         [is |-> "record", include_length |-> item.cap, original_length |-> item.orig]

LEMMA BytesAre ==
  ASSUME NEW n, NEW cap \in Nat
  PROVE  /\ IsSeq(Bytes(n, cap)) /\ Len(Bytes(n, cap)) = cap
         /\ \A i \in 1 .. cap : Bytes(n, cap)[i] = Byte(n, i)
<1>1. Bytes(n, cap) = [i \in 1 .. cap |-> Byte(n, i)]
  BY DEF Bytes, Byte
<1>2. Bytes(n, cap) = [i \in 1 .. cap |-> Bytes(n, cap)[i]]
  BY <1>1
<1> QED BY <1>1, <1>2, FunctionIsSeq

LEMMA MaxOfTwo ==
  ASSUME NEW a \in Int, NEW b \in Int
  PROVE  Max({a, b}) = (IF a >= b THEN a ELSE b) /\ Min({a, b}) = (IF a <= b THEN a ELSE b)
BY DEF Max, Min

LEMMA PlainCells ==
  ASSUME NEW fmt \in Plain, NEW n, NEW item, item.cap \in Nat
  PROVE  /\ IsSeq(ItemCells(fmt, n, item)) /\ Len(ItemCells(fmt, n, item)) = item.cap + 1
         /\ ItemCells(fmt, n, item)[1] = RecordOf(fmt, item)
         /\ \A i \in 1 .. item.cap : ItemCells(fmt, n, item)[1 + i] = Byte(n, i)
<1> DEFINE s == <<RecordOf(fmt, item)>>
           t == Bytes(n, item.cap)
<1>1. ItemCells(fmt, n, item) = Join(s, t)
  <2>1. CASE fmt = "erf"
    BY <2>1 DEF ItemCells, RecordOf, Join
  <2>2. CASE fmt = "pcap"
    BY <2>2 DEF ItemCells, RecordOf, Join
  <2>3. CASE fmt = "pcap_swap"
    BY <2>3 DEF ItemCells, RecordOf, Join
  <2>4. CASE fmt = "netmon"
    BY <2>4 DEF ItemCells, RecordOf, Join
  <2> QED BY <2>1, <2>2, <2>3, <2>4 DEF Plain
<1>2. IsSeq(s) /\ Len(s) = 1 /\ s[1] = RecordOf(fmt, item)
  BY TupleIsSeq
<1>3. IsSeq(t) /\ Len(t) = item.cap /\ \A i \in 1 .. item.cap : t[i] = Byte(n, i)
  BY BytesAre
<1> HIDE DEF s, t
<1>4. IsJoin(Join(s, t), s, t, 1, item.cap)
  BY <1>2, <1>3, JoinAt
<1> QED BY <1>1, <1>2, <1>3, <1>4 DEF IsJoin

\* The cells of a PCAPNG packet.
LEMMA PacketCells ==
  ASSUME NEW n, NEW item, item.cap \in Nat, item.type \in PacketTypes
  PROVE  /\ IsSeq(ItemCells("pcapng", n, item))
         /\ Len(ItemCells("pcapng", n, item)) = item.cap + 3
         /\ ItemCells("pcapng", n, item)[1] =
              [is |-> "block", type |-> item.type, length |-> item.cap + 3]
         /\ ItemCells("pcapng", n, item)[2] = [is |-> "packet", packetlen |-> item.orig]
         /\ \A i \in 1 .. item.cap : ItemCells("pcapng", n, item)[2 + i] = Byte(n, i)
         /\ ItemCells("pcapng", n, item)[item.cap + 3] = [is |-> "trailer"]
<1> DEFINE x == [is |-> "block", type |-> item.type, length |-> item.cap + 3]
           y == [is |-> "packet", packetlen |-> item.orig]
           s == <<x, y>>
           t == Bytes(n, item.cap)
           u == Trailer
<1>1. ItemCells("pcapng", n, item) = Join(Join(s, t), u)
  BY DEF ItemCells, Join, PacketTypes
<1>2. IsSeq(s) /\ Len(s) = 2 /\ s[1] = x /\ s[2] = y
  <2> HIDE DEF x, y
  <2> QED BY TupleIsSeq
<1>3. IsSeq(t) /\ Len(t) = item.cap /\ \A i \in 1 .. item.cap : t[i] = Byte(n, i)
  BY BytesAre
<1>4. IsSeq(u) /\ Len(u) = 1 /\ u[1] = [is |-> "trailer"]
  BY TupleIsSeq DEF Trailer
<1> HIDE DEF s, t, u, x, y
<1>5. IsJoin(Join(s, t), s, t, 2, item.cap)
  BY <1>2, <1>3, JoinAt
<1> DEFINE v == Join(s, t)
<1> HIDE DEF v
<1>6. IsJoin(Join(v, u), v, u, 2 + item.cap, 1)
  <2>1. IsSeq(v) /\ Len(v) = 2 + item.cap
    BY <1>5 DEF v, IsJoin
  <2> QED BY <1>4, <2>1, JoinAt
<1> DEFINE w == Join(v, u)
<1>7. ItemCells("pcapng", n, item) = w
  BY <1>1 DEF v
<1> HIDE DEF w
<1>8. /\ IsSeq(w) /\ Len(w) = item.cap + 3 /\ w[1] = x /\ w[2] = y
      /\ w[item.cap + 3] = u[1]
  <2>1. IsSeq(w) /\ Len(w) = (2 + item.cap) + 1 /\ (2 + item.cap) + 1 = item.cap + 3
    BY <1>6 DEF w, IsJoin
  <2>2. 1 \in 1 .. 2 + item.cap /\ 2 \in 1 .. 2 + item.cap /\ 1 \in 1 .. 1
        /\ 1 \in 1 .. 2 /\ 2 \in 1 .. 2
    OBVIOUS
  <2>3. w[1] = v[1] /\ w[2] = v[2] /\ w[(2 + item.cap) + 1] = u[1]
    BY <1>6, <2>2 DEF w, IsJoin
  <2>4. v[1] = s[1] /\ v[2] = s[2]
    BY <1>5, <2>2 DEF v, IsJoin
  <2> QED BY <1>2, <2>1, <2>3, <2>4
<1>9. \A i \in 1 .. item.cap : w[2 + i] = Byte(n, i)
  <2>1. TAKE i \in 1 .. item.cap
  <2>2. w[2 + i] = v[2 + i]
    <3>1. 2 + i \in 1 .. 2 + item.cap
      OBVIOUS
    <3> QED BY <1>6, <3>1 DEF w, IsJoin
  <2>3. v[2 + i] = t[i] /\ t[i] = Byte(n, i)
    BY <1>3, <1>5 DEF v, IsJoin
  <2> QED BY <2>2, <2>3
<1> QED BY <1>4, <1>7, <1>8, <1>9 DEF x, y

\* Those of an interface description.
LEMMA InterfaceCells ==
  ASSUME NEW n, NEW item, item.type = 1
  PROVE  /\ IsSeq(ItemCells("pcapng", n, item))
         /\ Len(ItemCells("pcapng", n, item)) = 3
         /\ ItemCells("pcapng", n, item)[1] = [is |-> "block", type |-> 1, length |-> 3]
         /\ ItemCells("pcapng", n, item)[2] = [is |-> "interface", linktype |-> item.ll]
<1> DEFINE x == [is |-> "block", type |-> 1, length |-> 3]
           y == [is |-> "interface", linktype |-> item.ll]
           s == <<x, y>>
           u == Trailer
<1>1. ItemCells("pcapng", n, item) = Join(s, u)
  BY DEF ItemCells, Join, PacketTypes
<1>2. IsSeq(s) /\ Len(s) = 2 /\ s[1] = x /\ s[2] = y
  <2> HIDE DEF x, y
  <2> QED BY TupleIsSeq
<1>4. IsSeq(u) /\ Len(u) = 1
  BY TupleIsSeq DEF Trailer
<1> HIDE DEF s, u, x, y
<1>5. IsJoin(Join(s, u), s, u, 2, 1)
  BY <1>2, <1>4, JoinAt
<1>6. /\ IsSeq(Join(s, u)) /\ Len(Join(s, u)) = 3
      /\ Join(s, u)[1] = x /\ Join(s, u)[2] = y
  BY <1>2, <1>5 DEF IsJoin
<1> QED BY <1>1, <1>6 DEF x, y

\* Those of a block of another type.
LEMMA BlockCells ==
  ASSUME NEW n, NEW item, item.cap \in Nat, item.type \notin PacketTypes, item.type # 1
  PROVE  /\ IsSeq(ItemCells("pcapng", n, item))
         /\ Len(ItemCells("pcapng", n, item)) = IF item.cap = 0 THEN 1 ELSE item.cap
         /\ ItemCells("pcapng", n, item)[1] =
              [is |-> "block", type |-> item.type, length |-> item.cap]
<1> DEFINE x == [is |-> "block", type |-> item.type, length |-> item.cap]
           s == <<x>>
           m == Max({0, item.cap - 1})
           t == [i \in 1 .. m |-> [is |-> "other"]]
<1>1. ItemCells("pcapng", n, item) = Join(s, t)
  BY DEF ItemCells, Join
<1>2. IsSeq(s) /\ Len(s) = 1 /\ s[1] = x
  <2> HIDE DEF x
  <2> QED BY TupleIsSeq
<1>3. m \in Nat /\ 1 + m = IF item.cap = 0 THEN 1 ELSE item.cap
  BY MaxOfTwo
<1> HIDE DEF m
<1>4. IsSeq(t) /\ Len(t) = m
  <2>1. t = [i \in 1 .. m |-> t[i]]
    OBVIOUS
  <2> HIDE DEF t
  <2> QED BY <1>3, <2>1, FunctionIsSeq
<1> HIDE DEF s, t, x
<1>5. IsJoin(Join(s, t), s, t, 1, m)
  BY <1>2, <1>4, JoinAt
<1>6. IsSeq(Join(s, t)) /\ Len(Join(s, t)) = 1 + m /\ Join(s, t)[1] = x
  BY <1>2, <1>5 DEF IsJoin
<1> QED BY <1>1, <1>3, <1>6 DEF x
LEMMA CellsAre ==
  ASSUME NEW fmt, fmt \in Plain \cup {"pcapng"}, NEW n, NEW item, IsItem(item)
  PROVE  IsSeq(ItemCells(fmt, n, item)) /\ Len(ItemCells(fmt, n, item)) \in Nat \ {0}
<1>1. item.cap \in Nat
  BY DEF IsItem
<1>2. CASE fmt \in Plain
  BY <1>1, <1>2, PlainCells
<1>3. CASE fmt = "pcapng" /\ item.type \in PacketTypes
  <2>1. /\ IsSeq(ItemCells("pcapng", n, item))
        /\ Len(ItemCells("pcapng", n, item)) = item.cap + 3
    BY <1>1, <1>3, PacketCells
  <2>2. item.cap + 3 \in Nat \ {0}
    BY <1>1
  <2> QED BY <1>3, <2>1, <2>2
<1>4. CASE fmt = "pcapng" /\ item.type = 1
  <2>1. IsSeq(ItemCells("pcapng", n, item)) /\ Len(ItemCells("pcapng", n, item)) = 3
    BY <1>4, InterfaceCells
  <2> QED BY <1>4, <2>1
<1>5. CASE fmt = "pcapng" /\ item.type \notin PacketTypes /\ item.type # 1
  <2>1. /\ IsSeq(ItemCells("pcapng", n, item))
        /\ Len(ItemCells("pcapng", n, item)) = IF item.cap = 0 THEN 1 ELSE item.cap
    BY <1>1, <1>5, BlockCells
  <2>2. (IF item.cap = 0 THEN 1 ELSE item.cap) \in Nat \ {0}
    BY <1>1
  <2> QED BY <1>5, <2>1, <2>2
<1> QED BY <1>2, <1>3, <1>4, <1>5
-----------------------------------------------------------------------------
(***************************************************************************)
(* The cells of a file, and where its items begin.                         *)
(***************************************************************************)
Cells(in, n) == ItemCells(in.fmt, n, in.items[n])
Start(in, n) == Before(in, Len(FileHeader(in)), n)

LEMMA RecordsAre ==
  ASSUME NEW in, IsInput(in)
  PROVE  /\ Len(in.items) \in Nat /\ DOMAIN in.items = 1 .. Len(in.items)
         /\ IsSeqs(Records(in)) /\ Len(Records(in)) = Len(in.items)
         /\ \A n \in 1 .. Len(in.items) :
              /\ IsItem(in.items[n]) /\ Records(in)[n] = Cells(in, n)
              /\ IsSeq(Cells(in, n)) /\ Len(Cells(in, n)) \in Nat \ {0}
<1> DEFINE N == Len(in.items)
           R == Records(in)
<1>1. IsSeq(in.items)
  BY DEF IsInput, IsSeq
<1>2. N \in Nat /\ DOMAIN in.items = 1 .. N
  BY <1>1, SeqFacts
<1>3. \A n \in 1 .. N : IsItem(in.items[n])
  BY <1>2 DEF IsInput
<1>4. in.fmt \in Plain \cup {"pcapng"}
  BY DEF IsInput, Plain
<1>5. \A n \in 1 .. N : IsSeq(Cells(in, n)) /\ Len(Cells(in, n)) \in Nat \ {0}
  BY <1>3, <1>4, CellsAre DEF Cells
<1>6. R = [n \in 1 .. N |-> Cells(in, n)]
  BY <1>2 DEF Records, Cells
<1> HIDE DEF N, R
<1>7. R = [n \in 1 .. N |-> R[n]] /\ \A n \in 1 .. N : R[n] = Cells(in, n)
  BY <1>6
<1>8. IsSeq(R) /\ Len(R) = N
  BY <1>2, <1>7, FunctionIsSeq
<1>9. IsSeqs(R)
  BY <1>5, <1>7, <1>8 DEF IsSeqs
<1> QED BY <1>2, <1>3, <1>5, <1>7, <1>8, <1>9 DEF N, R

\* The header of a file, as far as it is told by its format.
HeaderSize(in) == IF in.fmt = "erf" THEN 0 ELSE IF in.fmt = "pcapng" THEN 2 ELSE 1

LEMMA HeaderIs ==
  ASSUME NEW in, IsInput(in)
  PROVE  /\ IsSeq(FileHeader(in)) /\ Len(FileHeader(in)) = HeaderSize(in)
         /\ HeaderSize(in) \in Nat
<1>1. in.fmt \in {"erf", "pcap", "pcap_swap", "netmon", "pcapng"}
  BY DEF IsInput
<1>2. CASE in.fmt = "erf"
  <2>1. FileHeader(in) = <<>>
    BY <1>2 DEF FileHeader
  <2> QED BY <1>2, <2>1, TupleIsSeq DEF HeaderSize
<1>3. CASE in.fmt = "pcap"
  <2>1. FileHeader(in) = <<[is |-> "pcap", network |-> in.ll]>>
    BY <1>3 DEF FileHeader
  <2> QED BY <1>3, <2>1, TupleIsSeq DEF HeaderSize
<1>4. CASE in.fmt = "pcap_swap"
  <2> DEFINE x == [is |-> "pcap_swap", network |-> bswap32(in.ll)]
  <2>1. FileHeader(in) = <<x>>
    BY <1>4 DEF FileHeader
  <2> HIDE DEF x
  <2> QED BY <1>4, <2>1, TupleIsSeq DEF HeaderSize
<1>5. CASE in.fmt = "netmon"
  <2> DEFINE x == [is |-> "netmon", version |-> in.version, network |-> in.ll,
            frame_table_offset |-> Before(in, 1, Len(in.items) + 1),
            frame_table_length |-> Len(in.items)]
  <2>1. FileHeader(in) = <<x>>
    BY <1>5 DEF FileHeader
  <2> HIDE DEF x
  <2> QED BY <1>5, <2>1, TupleIsSeq DEF HeaderSize
<1>6. CASE in.fmt = "pcapng"
  <2> DEFINE s == <<[is |-> "pcapng", length |-> 2]>>
  <2>1. FileHeader(in) = Join(s, Trailer)
    BY <1>6 DEF FileHeader, Join
  <2>2. IsSeq(s) /\ Len(s) = 1 /\ IsSeq(Trailer) /\ Len(Trailer) = 1
    BY TupleIsSeq DEF Trailer
  <2> HIDE DEF s
  <2>3. IsJoin(Join(s, Trailer), s, Trailer, 1, 1)
    BY <2>2, JoinAt
  <2>4. IsSeq(Join(s, Trailer)) /\ Len(Join(s, Trailer)) = 2
    BY <2>3 DEF IsJoin
  <2> QED BY <1>6, <2>1, <2>4 DEF HeaderSize
<1> QED BY <1>1, <1>2, <1>3, <1>4, <1>5, <1>6

LEMMA Starts ==
  ASSUME NEW in, IsInput(in)
  PROVE  /\ Start(in, 1) = HeaderSize(in)
         /\ \A n \in 1 .. Len(in.items) + 1 :
              Start(in, n) \in Nat /\ Start(in, n) = HeaderSize(in) + Begin(Records(in), n)
         /\ \A n \in 1 .. Len(in.items) : Start(in, n + 1) = Start(in, n) + Len(Cells(in, n))
         /\ Start(in, Len(in.items) + 1) = HeaderSize(in) + Len(FlattenSeq(Records(in)))
<1> DEFINE N == Len(in.items)
           R == Records(in)
           H == HeaderSize(in)
<1>1. /\ N \in Nat /\ IsSeqs(R) /\ Len(R) = N /\ H \in Nat
      /\ \A n \in 1 .. N : R[n] = Cells(in, n) /\ Len(Cells(in, n)) \in Nat
  BY RecordsAre, HeaderIs
<1>2. \A n : Start(in, n) = H + Begin(R, n)
  BY HeaderIs DEF Start, Before, Begin, Flat
<1> HIDE DEF N, R, H
<1>3. /\ Flat(R, 0) = <<>> /\ FlattenSeq(R) = Flat(R, N)
      /\ \A k \in 0 .. N : Len(Flat(R, k)) \in Nat
  BY <1>1, FlatStep, SeqFacts
<1>4. \A n \in 1 .. N + 1 : Begin(R, n) \in Nat
  <2>1. TAKE n \in 1 .. N + 1
  <2>2. n - 1 \in 0 .. N
    BY <1>1
  <2> QED BY <1>3, <2>2 DEF Begin
<1>5. Begin(R, 1) = 0
  <2>1. 1 - 1 = 0 /\ Len(<<>>) = 0
    OBVIOUS
  <2> QED BY <1>3, <2>1 DEF Begin
<1>6. ASSUME NEW n \in 1 .. N PROVE Begin(R, n + 1) = Begin(R, n) + Len(Cells(in, n))
  <2>1. (n + 1) - 1 = n /\ n \in n .. N /\ n \in 1 .. Len(R) /\ n \in n .. Len(R)
    BY <1>1
  <2>2. Len(Flat(R, n)) = Begin(R, n) + Len(R[n])
    BY <1>1, <2>1, FlatCells
  <2> QED BY <1>1, <2>1, <2>2 DEF Begin
<1>7. Begin(R, N + 1) = Len(FlattenSeq(R))
  <2>1. (N + 1) - 1 = N
    BY <1>1
  <2> QED BY <1>3, <2>1 DEF Begin
<1>8. Start(in, 1) = H /\ Start(in, N + 1) = H + Len(FlattenSeq(R))
  BY <1>1, <1>2, <1>5, <1>7
<1>9. \A n \in 1 .. N + 1 : Start(in, n) \in Nat /\ Start(in, n) = H + Begin(R, n)
  BY <1>1, <1>2, <1>4
<1>10. ASSUME NEW n \in 1 .. N PROVE Start(in, n + 1) = Start(in, n) + Len(Cells(in, n))
  <2>1. n \in 1 .. N + 1 /\ n + 1 \in 1 .. N + 1
    BY <1>1
  <2>2. /\ Start(in, n) = H + Begin(R, n) /\ Start(in, n + 1) = H + Begin(R, n + 1)
        /\ Begin(R, n) \in Nat /\ Begin(R, n + 1) = Begin(R, n) + Len(Cells(in, n))
    BY <1>2, <1>4, <1>6, <2>1
  <2>3. Len(Cells(in, n)) \in Nat
    BY <1>1
  <2> DEFINE a == Begin(R, n)
             b == Len(Cells(in, n))
  <2> HIDE DEF a, b
  <2>4. a \in Nat /\ b \in Nat
    BY <2>2, <2>3 DEF a, b
  <2>5. H + (a + b) = (H + a) + b
    BY <1>1, <2>4
  <2> QED BY <2>2, <2>5 DEF a, b
<1> QED BY <1>8, <1>9, <1>10 DEF N, R, H

\* What a file without its last cells has of an item.
LEMMA FileCells ==
  ASSUME NEW in, IsInput(in)
  PROVE  /\ IsSeq(File(in)) /\ Len(File(in)) \in Nat /\ in.cut \in Nat
         /\ Len(File(in)) >= HeaderSize(in)
         /\ Len(File(in)) = (Start(in, Len(in.items) + 1) - in.cut)
                              + (IF in.fmt = "netmon" THEN Len(in.items) ELSE 0)
         /\ \A i \in 1 .. HeaderSize(in) : File(in)[i] = FileHeader(in)[i]
         /\ \A n \in 1 .. Len(in.items) : \A i \in 1 .. Len(Cells(in, n)) :
              Start(in, n) + i <= Len(File(in)) => File(in)[Start(in, n) + i] = Cells(in, n)[i]
         /\ in.fmt = "netmon" => \A n \in 1 .. Len(in.items) :
              Start(in, Len(in.items) + 1) + n <= Len(File(in)) =>
                File(in)[Start(in, Len(in.items) + 1) + n] = Table(in)[n]
<1> DEFINE N == Len(in.items)
           R == Records(in)
           H == HeaderSize(in)
           F == FlattenSeq(R)
           T == IF in.fmt = "netmon" THEN Table(in) ELSE <<>>
           h == FileHeader(in)
           w == Join(Join(h, F), T)
           L == Len(F)
           M == IF in.fmt = "netmon" THEN N ELSE 0
<1>1. /\ N \in Nat /\ IsSeqs(R) /\ Len(R) = N /\ DOMAIN in.items = 1 .. N
      /\ \A n \in 1 .. N : R[n] = Cells(in, n)
  BY RecordsAre
<1>2. IsSeq(h) /\ Len(h) = H /\ H \in Nat
  BY HeaderIs
<1>3. IsSeq(F) /\ F = Flat(R, N) /\ L \in Nat
  <2> HIDE DEF R, N
  <2>1. N \in 0 .. N
    BY <1>1
  <2>2. F = Flat(R, N) /\ IsSeq(Flat(R, N))
    BY <1>1, <2>1, FlatStep
  <2> QED BY <2>2, SeqFacts
<1>4. IsSeq(T) /\ Len(T) = M /\ M \in Nat
  <2>1. CASE in.fmt = "netmon"
    <3>1. Table(in) = [n \in 1 .. N |-> Table(in)[n]]
      BY <1>1 DEF Table
    <3>2. IsSeq(Table(in)) /\ Len(Table(in)) = N
      BY <1>1, <3>1, FunctionIsSeq
    <3> QED BY <1>1, <2>1, <3>2
  <2>2. CASE in.fmt # "netmon"
    BY <2>2, TupleIsSeq
  <2> QED BY <2>1, <2>2
<1>5. Whole(in) = w
  BY DEF Whole, Join
<1>6. in.cut \in 0 .. L
  BY DEF IsInput
<1>7. /\ \A n \in 1 .. N : Start(in, n) = H + Begin(R, n) /\ Begin(R, n) \in Nat
      /\ Start(in, N + 1) = H + L
  <2>1. \A n \in 1 .. N : n \in 1 .. N + 1 /\ n - 1 \in 0 .. N
    BY <1>1
  <2>2. \A n \in 1 .. N : Begin(R, n) \in Nat
    <3> HIDE DEF R, N
    <3> QED BY <1>1, <2>1, FlatStep, SeqFacts DEF Begin
  <2> QED BY <2>1, <2>2, Starts
<1> HIDE DEF h, F, T, L, M, N, H, R
<1>8. IsJoin(Join(h, F), h, F, H, L)
  BY <1>2, <1>3, JoinAt DEF L
<1> DEFINE v == Join(h, F)
<1> HIDE DEF v
<1>9. IsJoin(w, v, T, H + L, M)
  <2>1. IsSeq(v) /\ Len(v) = H + L
    BY <1>8 DEF v, IsJoin
  <2> QED BY <1>4, <2>1, JoinAt DEF v
<1>10. File(in) = SubSeq(w, 1, Len(w) - in.cut)
  BY <1>5 DEF File
<1> HIDE DEF w
<1> DEFINE c == in.cut
           Z == ((H + L) + M) - c
<1> HIDE DEF c
<1>11. /\ c \in Nat /\ c <= L /\ Z \in 0 .. (H + L) + M /\ Z >= H /\ Z = ((H + L) - c) + M
       /\ Z \in Nat
  BY <1>2, <1>3, <1>4, <1>6 DEF c
<1>12. /\ IsSeq(File(in)) /\ Len(File(in)) = Z
       /\ \A i \in 1 .. Z : File(in)[i] = w[i]
  <2>1. File(in) = SubSeq(w, 1, Z)
    BY <1>9, <1>10 DEF c, IsJoin
  <2> HIDE DEF Z
  <2>2. Z \in 0 .. Len(w)
    BY <1>9, <1>11 DEF IsJoin
  <2>3. IsSeq(w)
    BY <1>9 DEF IsJoin
  <2> QED BY <2>1, <2>2, <2>3, PrefixIs
<1> HIDE DEF Z
<1>13. \A i \in 1 .. H : File(in)[i] = h[i]
  <2>1. TAKE i \in 1 .. H
  <2>2. i \in 1 .. Z /\ i \in 1 .. H + L
    BY <1>2, <1>3, <1>11
  <2> QED BY <1>8, <1>9, <1>12, <2>2 DEF v, IsJoin
<1>14. ASSUME NEW n \in 1 .. N, NEW i \in 1 .. Len(Cells(in, n)), Start(in, n) + i <= Z
       PROVE  File(in)[Start(in, n) + i] = Cells(in, n)[i]
  <2> DEFINE b == Begin(R, n)
  <2>1. n \in 1 .. Len(R) /\ N \in n .. Len(R)
    BY <1>1
  <2>2. /\ Len(Flat(R, n)) = b + Len(R[n]) /\ Len(Flat(R, n)) <= Len(Flat(R, N))
        /\ Placed(R, n, Flat(R, N))
    BY <1>1, <2>1, FlatCells
  <2>3. F[b + i] = Cells(in, n)[i]
    BY <1>1, <1>3, <2>2 DEF Placed
  <2>4. b \in Nat /\ Start(in, n) = H + b
    BY <1>7
  <2>5. b + Len(Cells(in, n)) <= L /\ Len(Cells(in, n)) \in Nat
    BY <1>1, <1>3, <2>2, RecordsAre DEF L, N
  <2> HIDE DEF b
  <2>6. b + i \in 1 .. L /\ H + (b + i) = (H + b) + i /\ (H + b) + i \in 1 .. Z
        /\ (H + b) + i \in 1 .. H + L
    BY <1>2, <1>3, <1>11, <1>14, <2>4, <2>5
  <2>7. File(in)[(H + b) + i] = w[(H + b) + i]
    BY <1>12, <2>6
  <2>8. w[(H + b) + i] = v[(H + b) + i]
    BY <1>9, <2>6 DEF IsJoin
  <2>9. v[H + (b + i)] = F[b + i]
    BY <1>8, <2>6 DEF v, IsJoin
  <2> QED BY <2>3, <2>4, <2>6, <2>7, <2>8, <2>9
<1>15. ASSUME in.fmt = "netmon", NEW n \in 1 .. N, Start(in, N + 1) + n <= Z
       PROVE  File(in)[Start(in, N + 1) + n] = Table(in)[n]
  <2>1. M = N /\ T = Table(in)
    BY <1>15 DEF M, T
  <2>2. (H + L) + n \in 1 .. Z
    BY <1>1, <1>2, <1>3, <1>7, <1>11, <1>15
  <2> QED BY <1>7, <1>9, <1>12, <2>1, <2>2 DEF IsJoin
<1>16. Len(File(in)) = (Start(in, N + 1) - c) + (IF in.fmt = "netmon" THEN N ELSE 0)
  BY <1>7, <1>11, <1>12 DEF M
<1> QED BY <1>11, <1>12, <1>13, <1>14, <1>15, <1>16 DEF c, N, H, h
-----------------------------------------------------------------------------
(***************************************************************************)
(* Reading from a file.                                                    *)
(***************************************************************************)
\* r are the n cells from a position on, or those that there are.
IsRead(file, pos, n, r) ==
  /\ IsSeq(r)
  /\ Len(r) = IF pos >= Len(file) THEN 0
              ELSE IF pos + n <= Len(file) THEN n ELSE Len(file) - pos
  /\ \A i \in 1 .. Len(r) : r[i] = file[pos + i]

LEMMA ReadIs ==
  ASSUME NEW file, IsSeq(file), NEW pos \in Nat, NEW n \in Nat
  PROVE  IsRead(file, pos, n, Read(file, pos, n))
<1> DEFINE L == Len(file)
           T == Range(file)
           e == IF pos + n <= L THEN pos + n ELSE L
           r == Read(file, pos, n)
<1>1. file \in Seq(T) /\ L \in Nat
  BY DEF IsSeq
<1>2. Min({pos + n, L}) = e
  <2>1. pos + n \in Int /\ L \in Int
    BY <1>1
  <2> HIDE DEF L
  <2> QED BY <2>1, MaxOfTwo
<1>3. r = SubSeq(file, pos + 1, e)
  BY <1>2 DEF Read
<1> HIDE DEF T, r
<1>4. CASE pos >= L
  <2>1. SubSeq(file, pos + 1, e) = <<>>
    BY <1>1, <1>4
  <2>2. Len(<<>>) = 0 /\ IsSeq(<<>>)
    BY TupleIsSeq
  <2>3. Len(r) = 0 /\ IsSeq(r)
    BY <1>3, <2>1, <2>2
  <2> QED BY <1>4, <2>3 DEF IsRead, r
<1>5. CASE pos < L
  <2>1. e \in pos .. L /\ e - pos = (IF pos + n <= L THEN n ELSE L - pos)
    BY <1>1, <1>5
  <2> HIDE DEF e, L
  <2>2. r \in Seq(T) /\ Len(r) = e - pos
    BY <1>1, <1>3, <2>1 DEF L
  <2>3. \A i \in 1 .. e - pos : r[i] = file[pos + i]
    BY <1>1, <1>3, <2>1 DEF L
  <2>4. IsSeq(r)
    BY <2>2, TypedIsSeq
  <2>5. ~(pos >= L)
    BY <1>1, <1>5
  <2> QED BY <2>1, <2>2, <2>3, <2>4, <2>5 DEF IsRead, r, L
<1> QED BY <1>1, <1>4, <1>5

LEMMA NextCell ==
  ASSUME NEW file, IsSeq(file), NEW pos \in Nat
  PROVE  /\ pos >= Len(file) => Read(file, pos, 1) = <<>>
         /\ pos < Len(file) => Read(file, pos, 1) # <<>> /\ Read(file, pos, 1)[1] = file[pos + 1]
<1> DEFINE r == Read(file, pos, 1)
           L == Len(file)
<1>1. L \in Nat /\ 1 \in Nat
  BY SeqFacts
<1>2. IsRead(file, pos, 1, r)
  BY <1>1, ReadIs
<1>3. r \in Seq(Range(r))
  BY <1>2 DEF IsRead, IsSeq
<1> HIDE DEF r
<1>4. ASSUME pos >= L PROVE r = <<>>
  <2>1. Len(r) = 0
    BY <1>2, <1>4 DEF IsRead
  <2> QED BY <1>3, <2>1
<1>5. ASSUME pos < L PROVE r # <<>> /\ r[1] = file[pos + 1]
  <2>1. Len(r) = 1
    BY <1>1, <1>2, <1>5 DEF IsRead
  <2>2. Len(<<>>) = 0 /\ 1 \in 1 .. 1
    OBVIOUS
  <2>3. \A i \in 1 .. 1 : r[i] = file[pos + i]
    BY <1>2, <2>1 DEF IsRead
  <2> QED BY <2>1, <2>2, <2>3
<1> QED BY <1>4, <1>5 DEF r

IsBuffer(b) == b = [i \in 1 .. BufSize |-> b[i]]

IsReader(s) ==
  /\ s = [fmt |-> s.fmt, pos |-> s.pos, ll |-> s.ll, len |-> s.len,
          netmon_table |-> s.netmon_table, netmon_pos |-> s.netmon_pos, buf |-> s.buf]
  /\ s.pos \in Nat /\ IsBuffer(s.buf)

\* r is s but for its position, the packet and its length.
Same(s, r) ==
  /\ r.fmt = s.fmt /\ r.ll = s.ll
  /\ r.netmon_table = s.netmon_table /\ r.netmon_pos = s.netmon_pos

WithPacket(s, p, b, l) == [s EXCEPT !.pos = p, !.buf = b, !.len = l]

LEMMA NewPacket ==
  ASSUME NEW s, IsReader(s), NEW p \in Nat, NEW b, IsBuffer(b), NEW l
  PROVE  /\ IsReader(WithPacket(s, p, b, l)) /\ Same(s, WithPacket(s, p, b, l))
         /\ WithPacket(s, p, b, l).pos = p /\ WithPacket(s, p, b, l).buf = b
         /\ WithPacket(s, p, b, l).len = l
<1> DEFINE r == WithPacket(s, p, b, l)
<1>1. DOMAIN s = {"fmt", "pos", "ll", "len", "netmon_table", "netmon_pos", "buf"}
  BY DEF IsReader
<1>2. DOMAIN r = DOMAIN s
  BY DEF WithPacket
<1>3. r.pos = p /\ r.buf = b /\ r.len = l
  BY <1>1 DEF WithPacket
<1>4. /\ r.fmt = s.fmt /\ r.ll = s.ll
      /\ r.netmon_table = s.netmon_table /\ r.netmon_pos = s.netmon_pos
  BY <1>1 DEF WithPacket
<1>5. r = [i \in DOMAIN s |-> r[i]]
  BY <1>1 DEF WithPacket
<1> HIDE DEF r
<1>6. r = [fmt |-> r.fmt, pos |-> r.pos, ll |-> r.ll, len |-> r.len,
           netmon_table |-> r.netmon_table, netmon_pos |-> r.netmon_pos, buf |-> r.buf]
  BY <1>1, <1>2, <1>5
<1>7. r.pos \in Nat /\ IsBuffer(r.buf)
  BY <1>3
<1> QED BY <1>3, <1>4, <1>6, <1>7 DEF IsReader, Same, r

LEMMA NewPosition ==
  ASSUME NEW s, IsReader(s), NEW p \in Nat
  PROVE  /\ IsReader([s EXCEPT !.pos = p]) /\ Same(s, [s EXCEPT !.pos = p])
         /\ [s EXCEPT !.pos = p].pos = p /\ [s EXCEPT !.pos = p].buf = s.buf
         /\ [s EXCEPT !.pos = p].len = s.len
BY DEF IsReader, Same

LEMMA NoPacketYet ==
  ASSUME NEW s, IsReader(s)
  PROVE  /\ IsReader([s EXCEPT !.len = 0]) /\ Same(s, [s EXCEPT !.len = 0])
         /\ [s EXCEPT !.len = 0].pos = s.pos /\ [s EXCEPT !.len = 0].buf = s.buf
         /\ [s EXCEPT !.len = 0].len = 0
BY DEF IsReader, Same

\* The n cells from a position on were read into the buffer, or there is no packet.
Took(file, s, r, ok, at, n, len) ==
  /\ IsReader(r) /\ Same(s, r)
  /\ ok => /\ r.len = len /\ r.pos = at + n
           /\ \A i \in 1 .. BufSize : r.buf[i] = IF i <= n THEN file[at + i] ELSE s.buf[i]
  /\ ~ok => r.len = 0

LEMMA ReadBodyIs ==
  ASSUME NEW file, IsSeq(file), NEW s, IsReader(s), s.pos <= Len(file), NEW n \in Nat, NEW len
  PROVE  Took(file, s, ReadBody(file, s, n, len), s.pos + n <= Len(file), s.pos, n, len)
<1> DEFINE body == Read(file, s.pos, n)
           L == Len(file)
           m == Len(body)
           b == [i \in 1 .. BufSize |-> IF i <= m THEN body[i] ELSE s.buf[i]]
           p == s.pos + m
           l == IF m = n THEN len ELSE 0
           r == WithPacket(s, p, b, l)
<1>1. ReadBody(file, s, n, len) = r
  BY DEF ReadBody, WithPacket
<1>2. s.pos \in Nat /\ L \in Nat
  BY SeqFacts DEF IsReader
<1>3. /\ m = IF s.pos >= L THEN 0 ELSE IF s.pos + n <= L THEN n ELSE L - s.pos
      /\ \A i \in 1 .. m : body[i] = file[s.pos + i]
  <2>1. IsRead(file, s.pos, n, body)
    BY <1>2, ReadIs
  <2> QED BY <2>1 DEF IsRead
<1>4. IsBuffer(b)
  BY DEF IsBuffer
<1>5. \A i \in 1 .. BufSize : b[i] = IF i <= m THEN body[i] ELSE s.buf[i]
  OBVIOUS
<1> HIDE DEF b, m, body, L
<1>6. m \in Nat /\ p \in Nat /\ (m = n <=> s.pos + n <= L)
  BY <1>2, <1>3 DEF L
<1> HIDE DEF p
<1>7. IsReader(r) /\ Same(s, r) /\ r.pos = p /\ r.buf = b /\ r.len = l
  <2> HIDE DEF l
  <2> QED BY <1>4, <1>6, NewPacket
<1> HIDE DEF r
<1>8. ASSUME s.pos + n <= L
      PROVE  /\ r.len = len /\ r.pos = s.pos + n
             /\ \A i \in 1 .. BufSize : r.buf[i] = IF i <= n THEN file[s.pos + i] ELSE s.buf[i]
  <2>1. m = n
    BY <1>6, <1>8
  <2>2. r.len = len /\ r.pos = s.pos + n
    BY <1>7, <2>1 DEF p
  <2>3. ASSUME NEW i \in 1 .. BufSize
        PROVE  r.buf[i] = IF i <= n THEN file[s.pos + i] ELSE s.buf[i]
    <3>1. i <= n => i \in 1 .. m
      BY <1>6, <2>1
    <3> QED BY <1>3, <1>5, <1>7, <2>1, <3>1
  <2> QED BY <2>2, <2>3
<1>9. ASSUME ~(s.pos + n <= L) PROVE r.len = 0
  BY <1>6, <1>7, <1>9
<1> QED BY <1>1, <1>7, <1>8, <1>9 DEF Took, L

LEMMA ReadLimitedIs ==
  ASSUME NEW file, IsSeq(file), NEW s, IsReader(s), s.len = 0, s.pos < Len(file),
         NEW n \in Nat, NEW len
  PROVE  Took(file, s, ReadLimited(file, s, n, len),
              n <= BufSize /\ (s.pos + 1) + n <= Len(file), s.pos + 1, n, len)
<1> DEFINE next == [s EXCEPT !.pos = s.pos + 1]
           r == ReadLimited(file, s, n, len)
           ok == (s.pos + 1) + n <= Len(file)
<1>1. s.pos \in Nat /\ Len(file) \in Nat /\ BufSize \in Nat
  BY SeqFacts, LoadAssumption DEF IsReader
<1>2. /\ IsReader(next) /\ Same(s, next) /\ next.pos = s.pos + 1 /\ next.buf = s.buf
      /\ next.len = 0
  BY <1>1, NewPosition
<1>3. r = IF BufSize < n THEN next ELSE ReadBody(file, next, n, len)
  BY DEF ReadLimited
<1> HIDE DEF next, r
<1>4. next.pos <= Len(file)
  BY <1>1, <1>2
<1>5. Took(file, next, ReadBody(file, next, n, len), next.pos + n <= Len(file), next.pos, n, len)
  BY <1>2, <1>4, ReadBodyIs
<1>6. CASE BufSize < n
  <2>1. r = next /\ ~(n <= BufSize /\ ok)
    BY <1>1, <1>3, <1>6
  <2> QED BY <1>2, <2>1 DEF Took, r
<1>7. CASE n <= BufSize
  <2>1. r = ReadBody(file, next, n, len)
    BY <1>1, <1>3, <1>7
  <2>2. Took(file, next, r, ok, s.pos + 1, n, len)
    BY <1>2, <1>5, <2>1
  <2>3. IsReader(r) /\ Same(s, r) /\ (~ok => r.len = 0)
    BY <1>2, <2>2 DEF Took, Same
  <2>4. ASSUME ok
        PROVE  /\ r.len = len /\ r.pos = (s.pos + 1) + n
               /\ \A i \in 1 .. BufSize :
                    r.buf[i] = IF i <= n THEN file[(s.pos + 1) + i] ELSE s.buf[i]
    BY <1>2, <2>2, <2>4 DEF Took
  <2> HIDE DEF ok
  <2>5. Took(file, s, r, n <= BufSize /\ ok, s.pos + 1, n, len)
    BY <1>7, <2>3, <2>4 DEF Took
  <2> QED BY <2>5 DEF ok, r
<1> QED BY <1>1, <1>6, <1>7
-----------------------------------------------------------------------------
(***************************************************************************)
(* One step of the reader, at a record of each of the formats.             *)
(***************************************************************************)
LEMMA Quotient ==
  ASSUME NEW a, NEW m \in Nat \ {0}, NEW q \in Int, NEW r \in Int,
         a = m * q + r, 0 <= r, r < m
  PROVE  a \div m = q /\ a % m = r
BY DivModUnique

\* What two bytes hold is the same after two conversions.
LEMMA SwapTwice ==
  ASSUME NEW n \in Nat, n < 65536
  PROVE  bswap32(bswap32(n)) = n
<1> DEFINE l == n % 256
           h == n \div 256
           m == l * 16777216 + h * 65536
<1>1. l \in Nat /\ l < 256 /\ h \in Nat /\ h < 256 /\ n = 256 * h + l
  OBVIOUS
<1> HIDE DEF l, h
<1>2. h % 256 = h /\ (n \div 65536) % 256 = 0 /\ (n \div 16777216) % 256 = 0
  <2>1. h % 256 = h
    BY <1>1
  <2>2. n \div 65536 = 0 /\ n \div 16777216 = 0 /\ 0 % 256 = 0
    OBVIOUS
  <2> QED BY <2>1, <2>2
<1>3. bswap32(n) = m
  BY <1>1, <1>2 DEF bswap32, l, h
<1>4. m % 256 = 0 /\ m \div 256 = l * 65536 + h * 256
  BY <1>1
<1>5. (m \div 256) % 256 = 0
  BY <1>1, <1>4
<1>6. m \div 65536 = l * 256 + h /\ (l * 256 + h) % 256 = h
  BY <1>1
<1>7. m \div 16777216 = l /\ l % 256 = l
  BY <1>1
<1> HIDE DEF m
<1>8. bswap32(m) = h * 256 + l
  BY <1>1, <1>4, <1>5, <1>6, <1>7 DEF bswap32
<1> QED BY <1>1, <1>3, <1>8

\* The length that is reported for an item.
ReportedOf(fmt, item) == IF fmt \in {"pcap", "pcap_swap"} THEN item.cap ELSE item.orig

\* A record at the position of the reader.
LEMMA PlainStep ==
  ASSUME NEW file, IsSeq(file), NEW s, IsReader(s), s.fmt \in Plain, s.fmt # "netmon",
         NEW item, IsItem(item), s.pos < Len(file), file[s.pos + 1] = RecordOf(s.fmt, item)
  PROVE  /\ peak_load_packet(file, s).again = FALSE
         /\ Took(file, s, peak_load_packet(file, s).self,
                 item.cap <= BufSize /\ (s.pos + 1) + item.cap <= Len(file),
                 s.pos + 1, item.cap, ReportedOf(s.fmt, item))
<1> DEFINE none == [s EXCEPT !.len = 0]
           r == peak_load_packet(file, s)
           hdr == Read(file, none.pos, 1)
           ok == item.cap <= BufSize /\ (s.pos + 1) + item.cap <= Len(file)
<1>1. /\ IsReader(none) /\ Same(s, none) /\ none.pos = s.pos /\ none.buf = s.buf
      /\ none.len = 0 /\ s.pos \in Nat /\ none.fmt = s.fmt
  BY NoPacketYet DEF IsReader, Same
<1>2. hdr # <<>> /\ hdr[1] = RecordOf(s.fmt, item)
  BY <1>1, NextCell
<1>3. item.cap \in Nat /\ item.cap < 65535
  BY DEF IsItem
<1> HIDE DEF none
<1>4. ASSUME r = Return(ReadLimited(file, none, item.cap, ReportedOf(s.fmt, item)))
      PROVE  r.again = FALSE /\ Took(file, s, r.self, ok, s.pos + 1, item.cap, ReportedOf(s.fmt, item))
  <2> DEFINE t == ReadLimited(file, none, item.cap, ReportedOf(s.fmt, item))
  <2>1. Took(file, none, t, item.cap <= BufSize /\ (none.pos + 1) + item.cap <= Len(file),
             none.pos + 1, item.cap, ReportedOf(s.fmt, item))
    BY <1>1, <1>3, ReadLimitedIs
  <2>2. r.again = FALSE /\ r.self = t
    BY <1>4 DEF Return
  <2> HIDE DEF t, r
  <2>3. Took(file, none, t, ok, s.pos + 1, item.cap, ReportedOf(s.fmt, item))
    BY <1>1, <2>1
  <2>4. Took(file, s, t, ok, s.pos + 1, item.cap, ReportedOf(s.fmt, item))
    BY <1>1, <2>3 DEF Took, Same
  <2> QED BY <2>2, <2>4
<1>5. CASE s.fmt = "erf"
  <2>1. r = Return(_peak_load_erf(file, none))
    BY <1>5 DEF peak_load_packet, none
  <2>2. hdr[1].rlen = item.cap + 1 /\ hdr[1].wlen = item.orig
    BY <1>2, <1>5 DEF RecordOf
  <2>3. ErfLength(hdr[1].rlen) = item.cap
    BY <1>3, <2>2 DEF ErfLength
  <2>4. _peak_load_erf(file, none) = ReadLimited(file, none, item.cap, item.orig)
    BY <1>2, <2>2, <2>3 DEF _peak_load_erf
  <2>5. ReportedOf(s.fmt, item) = item.orig
    BY <1>5 DEF ReportedOf
  <2> QED BY <1>4, <2>1, <2>4, <2>5
<1>6. CASE s.fmt = "pcap"
  <2>1. r = Return(_peak_load_pcap(file, none))
    BY <1>6 DEF peak_load_packet, none
  <2>2. hdr[1].incl_len = item.cap
    BY <1>2, <1>6 DEF RecordOf
  <2>3. _peak_load_pcap(file, none) = ReadLimited(file, none, item.cap, item.cap)
    BY <1>1, <1>2, <1>6, <2>2 DEF _peak_load_pcap, InclLen
  <2>4. ReportedOf(s.fmt, item) = item.cap
    BY <1>6 DEF ReportedOf
  <2> QED BY <1>4, <2>1, <2>3, <2>4
<1>7. CASE s.fmt = "pcap_swap"
  <2>1. r = Return(_peak_load_pcap(file, none))
    BY <1>7 DEF peak_load_packet, none
  <2>2. hdr[1].incl_len = bswap32(item.cap)
    BY <1>2, <1>7 DEF RecordOf
  <2>3. InclLen(hdr[1], none.fmt = "pcap_swap") = item.cap
    <3>1. bswap32(bswap32(item.cap)) = item.cap
      <4>1. item.cap < 65536
        BY <1>3
      <4> QED BY <1>3, <4>1, SwapTwice
    <3> QED BY <1>1, <1>7, <2>2, <3>1 DEF InclLen
  <2>4. _peak_load_pcap(file, none) = ReadLimited(file, none, item.cap, item.cap)
    BY <1>2, <2>3 DEF _peak_load_pcap
  <2>5. ReportedOf(s.fmt, item) = item.cap
    BY <1>7 DEF ReportedOf
  <2> QED BY <1>4, <2>1, <2>4, <2>5
<1> QED BY <1>5, <1>6, <1>7 DEF Plain

\* Nothing at the position of the reader.
LEMMA EndStep ==
  ASSUME NEW file, IsSeq(file), NEW s, IsReader(s), s.fmt \in Plain \cup {"pcapng"},
         s.fmt # "netmon", s.pos >= Len(file)
  PROVE  /\ peak_load_packet(file, s).again = FALSE
         /\ peak_load_packet(file, s).self = [s EXCEPT !.len = 0]
<1> DEFINE none == [s EXCEPT !.len = 0]
           r == peak_load_packet(file, s)
           hdr == Read(file, none.pos, 1)
<1>1. none.pos = s.pos /\ s.pos \in Nat /\ none.fmt = s.fmt
  BY NoPacketYet DEF IsReader, Same
<1>2. hdr = <<>>
  BY <1>1, NextCell
<1> HIDE DEF none
<1>3. r = Return(none)
  <2>1. CASE s.fmt = "erf"
    <3>1. _peak_load_erf(file, none) = none
      BY <1>2 DEF _peak_load_erf
    <3> QED BY <2>1, <3>1 DEF peak_load_packet, none
  <2>2. CASE s.fmt \in {"pcap", "pcap_swap"}
    <3>1. _peak_load_pcap(file, none) = none
      BY <1>2 DEF _peak_load_pcap
    <3> QED BY <2>2, <3>1 DEF peak_load_packet, none
  <2>3. CASE s.fmt = "pcapng"
    <3>1. _peak_load_pcapng(file, none) = Return(none)
      BY <1>2 DEF _peak_load_pcapng, AtEnd
    <3> QED BY <2>3, <3>1 DEF peak_load_packet, none
  <2> QED BY <2>1, <2>2, <2>3 DEF Plain
<1> QED BY <1>3 DEF Return, none

\* r is what comes of frame k + 1 with its item, from a position on.
FrameTaken(file, s, r, k, p, item) ==
  \E q : /\ q.fmt = s.fmt /\ q.ll = s.ll /\ q.buf = s.buf
         /\ q.netmon_table = s.netmon_table /\ q.netmon_pos = k + 1
         /\ Took(file, q, r, item.cap <= BufSize /\ (p + 1) + item.cap <= Len(file),
                 p + 1, item.cap, item.orig)

\* The frame that is next in the table of a Netmon file.
LEMMA NetmonStep ==
  ASSUME NEW file, IsSeq(file), NEW s, IsReader(s), s.fmt = "netmon",
         NEW k \in Nat, s.netmon_pos = k, Len(s.netmon_table) \in Nat, k < Len(s.netmon_table),
         NEW p \in Nat, s.netmon_table[k + 1].offset = p, p < Len(file),
         NEW item, IsItem(item), file[p + 1] = RecordOf("netmon", item)
  PROVE  /\ peak_load_packet(file, s).again = FALSE
         /\ FrameTaken(file, s, peak_load_packet(file, s).self, k, p, item)
<1> DEFINE none == [s EXCEPT !.len = 0]
           q == [none EXCEPT !.pos = none.netmon_table[none.netmon_pos + 1].offset,
                             !.netmon_pos = none.netmon_pos + 1]
           r == peak_load_packet(file, s)
           hdr == Read(file, q.pos, 1)
           ok == item.cap <= BufSize /\ (p + 1) + item.cap <= Len(file)
<1>1. /\ IsReader(none) /\ Same(s, none) /\ none.buf = s.buf /\ none.len = 0
      /\ none.fmt = s.fmt /\ none.ll = s.ll /\ none.netmon_table = s.netmon_table
      /\ none.netmon_pos = k
  BY NoPacketYet DEF Same
<1> HIDE DEF none
<1>2. DOMAIN none = {"fmt", "pos", "ll", "len", "netmon_table", "netmon_pos", "buf"}
  BY <1>1 DEF IsReader
<1>3. DOMAIN q = DOMAIN none
  OBVIOUS
<1>4. q.pos = p /\ q.netmon_pos = k + 1
  BY <1>1, <1>2
<1>5. /\ q.fmt = s.fmt /\ q.ll = s.ll /\ q.buf = s.buf /\ q.len = 0
      /\ q.netmon_table = s.netmon_table
  BY <1>1, <1>2
<1>6. q = [i \in DOMAIN none |-> q[i]]
  BY <1>2
<1>7. Return(_peak_load_netmon(file, none)) = r
  BY DEF peak_load_packet, none
<1>8. _peak_load_netmon(file, none) =
        IF hdr = <<>> THEN q
        ELSE ReadLimited(file, q, hdr[1].include_length, hdr[1].original_length)
  <2>1. none.netmon_pos # Len(none.netmon_table)
    BY <1>1
  <2> QED BY <2>1 DEF _peak_load_netmon
<1> HIDE DEF q, r
<1>9. q = [fmt |-> q.fmt, pos |-> q.pos, ll |-> q.ll, len |-> q.len,
           netmon_table |-> q.netmon_table, netmon_pos |-> q.netmon_pos, buf |-> q.buf]
  BY <1>2, <1>3, <1>6
<1>10. IsReader(q)
  BY <1>4, <1>5, <1>9 DEF IsReader
<1>11. hdr # <<>> /\ hdr[1] = RecordOf("netmon", item)
  BY <1>4, NextCell
<1>12. hdr[1].include_length = item.cap /\ hdr[1].original_length = item.orig
  BY <1>11 DEF RecordOf
<1> DEFINE t == ReadLimited(file, q, item.cap, item.orig)
<1>13. r = Return(t)
  BY <1>7, <1>8, <1>11, <1>12
<1>14. item.cap \in Nat
  BY DEF IsItem
<1>15. Took(file, q, t, item.cap <= BufSize /\ (q.pos + 1) + item.cap <= Len(file),
            q.pos + 1, item.cap, item.orig)
  BY <1>4, <1>5, <1>10, <1>14, ReadLimitedIs
<1> HIDE DEF t
<1>16. Took(file, q, t, ok, p + 1, item.cap, item.orig)
  BY <1>4, <1>15
<1>17. r.again = FALSE /\ r.self = t
  BY <1>13 DEF Return
<1>18. FrameTaken(file, s, t, k, p, item)
  BY <1>4, <1>5, <1>16 DEF FrameTaken
<1> QED BY <1>17, <1>18 DEF r

LEMMA NetmonEnd ==
  ASSUME NEW file, NEW s, IsReader(s), s.fmt = "netmon", s.netmon_pos = Len(s.netmon_table)
  PROVE  /\ peak_load_packet(file, s).again = FALSE
         /\ peak_load_packet(file, s).self = [s EXCEPT !.len = 0]
<1> DEFINE none == [s EXCEPT !.len = 0]
           r == peak_load_packet(file, s)
<1>1. none.netmon_table = s.netmon_table /\ none.netmon_pos = s.netmon_pos
  BY NoPacketYet DEF Same
<1>2. Return(_peak_load_netmon(file, none)) = r
  BY DEF peak_load_packet
<1> HIDE DEF none, r
<1>3. _peak_load_netmon(file, none) = none
  BY <1>1 DEF _peak_load_netmon
<1> QED BY <1>2, <1>3 DEF Return, none, r

\* The header of a block at the position of the reader.
LEMMA BlockRead ==
  ASSUME NEW file, IsSeq(file), NEW s, IsReader(s), s.fmt = "pcapng", s.pos < Len(file),
         NEW type, NEW length \in Nat,
         file[s.pos + 1] = [is |-> "block", type |-> type, length |-> length]
  PROVE  \E next :
           /\ IsReader(next) /\ Same(s, next) /\ next.pos = s.pos + 1
           /\ next.buf = s.buf /\ next.len = 0
           /\ peak_load_packet(file, s) =
                IF BufSize < length THEN Return(next)
                ELSE IF type \in PacketTypes THEN EnhancedPacket(file, next, length)
                ELSE IF type = 1 THEN Interface(file, next, length)
                ELSE Unknown(next, length)
<1> DEFINE none == [s EXCEPT !.len = 0]
           next == Seek(none, 1)
           r == peak_load_packet(file, s)
           hdr == Read(file, none.pos, 1)
<1>1. /\ IsReader(none) /\ Same(s, none) /\ none.buf = s.buf /\ none.len = 0
      /\ none.pos = s.pos /\ s.pos \in Nat /\ BufSize \in Nat
  BY NoPacketYet, LoadAssumption DEF IsReader
<1>2. r = _peak_load_pcapng(file, none)
  BY DEF peak_load_packet
<1> HIDE DEF none, r
<1>3. hdr # <<>> /\ hdr[1] = [is |-> "block", type |-> type, length |-> length]
  BY <1>1, NextCell
<1> HIDE DEF hdr
<1>4. hdr[1].type = type /\ hdr[1].length = length
  BY <1>3
<1>5. next = [none EXCEPT !.pos = none.pos + 1]
  BY DEF Seek
<1>6. /\ IsReader(next) /\ Same(none, next) /\ next.pos = s.pos + 1
      /\ next.buf = none.buf /\ next.len = none.len
  <2>1. next = [none EXCEPT !.pos = s.pos + 1] /\ s.pos + 1 \in Nat
    BY <1>1, <1>5
  <2> HIDE DEF next
  <2> QED BY <1>1, <2>1, NewPosition
<1> HIDE DEF next
<1>7. r = CASE BufSize < length -> Return(next)
            [] BufSize >= length /\ type \in PacketTypes -> EnhancedPacket(file, next, length)
            [] BufSize >= length /\ type = 1 -> Interface(file, next, length)
            [] OTHER -> Unknown(next, length)
  BY <1>2, <1>3, <1>4 DEF _peak_load_pcapng, hdr, next
<1>8. r = IF BufSize < length THEN Return(next)
          ELSE IF type \in PacketTypes THEN EnhancedPacket(file, next, length)
          ELSE IF type = 1 THEN Interface(file, next, length)
          ELSE Unknown(next, length)
  <2>1. CASE BufSize < length
    BY <1>1, <1>7, <2>1 DEF PacketTypes
  <2>2. CASE BufSize >= length /\ type \in PacketTypes
    BY <1>1, <1>7, <2>2 DEF PacketTypes
  <2>3. CASE BufSize >= length /\ type = 1
    BY <1>1, <1>7, <2>3 DEF PacketTypes
  <2>4. CASE BufSize >= length /\ type # 1 /\ type \notin PacketTypes
    BY <1>1, <1>7, <2>4 DEF PacketTypes
  <2> QED BY <1>1, <2>1, <2>2, <2>3, <2>4
<1>9. Same(s, next)
  BY <1>1, <1>6 DEF Same
<1> QED BY <1>1, <1>6, <1>8, <1>9 DEF r

\* A length that a size_t has room for, with the headers.
Short(cap) == cap < 65535

LEMMA PacketStep ==
  ASSUME NEW file, IsSeq(file), NEW s, IsReader(s), s.fmt = "pcapng", s.pos < Len(file),
         NEW type \in PacketTypes, NEW cap \in Nat, Short(cap), NEW orig,
         file[s.pos + 1] = [is |-> "block", type |-> type, length |-> cap + 3],
         s.pos + 1 < Len(file) => file[(s.pos + 1) + 1] = [is |-> "packet", packetlen |-> orig]
  PROVE  /\ peak_load_packet(file, s).again = FALSE
         /\ Took(file, s, peak_load_packet(file, s).self,
                 cap + 3 <= BufSize /\ (s.pos + 3) + cap <= Len(file),
                 s.pos + 2, cap + 1, orig)
<1> DEFINE r == peak_load_packet(file, s)
           ok == cap + 3 <= BufSize /\ (s.pos + 3) + cap <= Len(file)
<1>0. s.pos \in Nat /\ BufSize \in Nat /\ Len(file) \in Nat /\ cap + 3 \in Nat
  BY LoadAssumption, SeqFacts DEF IsReader
<1>1. PICK next :
           /\ IsReader(next) /\ Same(s, next) /\ next.pos = s.pos + 1
           /\ next.buf = s.buf /\ next.len = 0
           /\ r = IF BufSize < cap + 3 THEN Return(next)
                  ELSE IF type \in PacketTypes THEN EnhancedPacket(file, next, cap + 3)
                  ELSE IF type = 1 THEN Interface(file, next, cap + 3)
                  ELSE Unknown(next, cap + 3)
  BY <1>0, BlockRead
<1> HIDE DEF r
<1>2. ASSUME r = Return(next), ~ok
      PROVE  r.again = FALSE /\ Took(file, s, r.self, ok, s.pos + 2, cap + 1, orig)
  <2>1. r.again = FALSE /\ r.self = next
    BY <1>2 DEF Return
  <2> HIDE DEF ok
  <2> QED BY <1>1, <1>2, <2>1 DEF Took
<1>3. CASE BufSize < cap + 3
  <2>1. ~ok /\ r = Return(next)
    BY <1>0, <1>1, <1>3
  <2> QED BY <1>2, <2>1 DEF r
<1>4. CASE cap + 3 <= BufSize /\ s.pos + 1 >= Len(file)
  <2>1. Read(file, next.pos, 1) = <<>>
    BY <1>0, <1>1, <1>4, NextCell
  <2>2. r = EnhancedPacket(file, next, cap + 3)
    BY <1>0, <1>1, <1>4
  <2>3. r = Return(next) /\ ~ok
    BY <1>0, <1>4, <2>1, <2>2 DEF EnhancedPacket
  <2> QED BY <1>2, <2>3 DEF r
<1>5. CASE cap + 3 <= BufSize /\ s.pos + 1 < Len(file)
  <2> DEFINE u == Seek(next, 1)
             t == ReadBody(file, u, BodyLength(cap + 3), orig)
             pkt == Read(file, next.pos, 1)
  <2>1. pkt # <<>> /\ pkt[1] = [is |-> "packet", packetlen |-> orig]
    <3>1. next.pos \in Nat /\ next.pos < Len(file)
      BY <1>0, <1>1, <1>5
    <3>2. pkt # <<>> /\ pkt[1] = file[next.pos + 1]
      BY <3>1, NextCell
    <3>3. file[next.pos + 1] = file[(s.pos + 1) + 1]
      BY <1>1
    <3> QED BY <1>5, <3>2, <3>3
  <2>2. r = EnhancedPacket(file, next, cap + 3)
    BY <1>0, <1>1, <1>5
  <2>3. pkt[1].packetlen = orig
    BY <2>1
  <2>4. r = Return(t)
    BY <2>1, <2>2, <2>3 DEF EnhancedPacket
  <2>5. /\ IsReader(u) /\ Same(next, u) /\ u.pos = s.pos + 2 /\ u.buf = s.buf
    <3>1. u = [next EXCEPT !.pos = next.pos + 1] /\ next.pos + 1 = s.pos + 2 /\ s.pos + 2 \in Nat
      BY <1>0, <1>1 DEF Seek
    <3> HIDE DEF u
    <3> QED BY <1>1, <3>1, NewPosition
  <2> HIDE DEF u
  <2>6. u.pos <= Len(file) /\ BodyLength(cap + 3) = cap + 1 /\ cap + 1 \in Nat
    <3>1. (cap + 3) - 2 = cap + 1 /\ cap + 1 \in Nat /\ cap + 1 < 1073741824
      BY DEF Short
    <3>2. (cap + 1) % 1073741824 = cap + 1
      BY <3>1
    <3> QED BY <1>0, <1>5, <2>5, <3>1, <3>2 DEF BodyLength, SIZE
  <2>7. Took(file, u, ReadBody(file, u, cap + 1, orig), u.pos + (cap + 1) <= Len(file), u.pos, cap + 1, orig)
    BY <2>5, <2>6, ReadBodyIs
  <2>8. t = ReadBody(file, u, cap + 1, orig)
    BY <2>6
  <2> HIDE DEF t
  <2>9. Took(file, u, t, u.pos + (cap + 1) <= Len(file), s.pos + 2, cap + 1, orig)
    BY <2>5, <2>7, <2>8
  <2>10. ok <=> u.pos + (cap + 1) <= Len(file)
    BY <1>0, <1>5, <2>5
  <2> HIDE DEF ok
  <2>11. Took(file, u, t, ok, s.pos + 2, cap + 1, orig)
    BY <2>9, <2>10 DEF Took
  <2>12. Took(file, s, t, ok, s.pos + 2, cap + 1, orig)
    BY <1>1, <2>5, <2>11 DEF Took, Same
  <2>13. r.again = FALSE /\ r.self = t
    BY <2>4 DEF Return
  <2> QED BY <2>12, <2>13 DEF r, ok
<1>6. /\ BufSize < cap + 3 \/ cap + 3 <= BufSize
      /\ s.pos + 1 >= Len(file) \/ s.pos + 1 < Len(file)
  BY <1>0
<1> QED BY <1>3, <1>4, <1>5, <1>6

\* r is what comes of an interface description.
InterfaceTaken(file, s, r, ll) ==
  /\ (3 <= BufSize /\ s.pos + 2 <= Len(file)) =>
       /\ r.again = TRUE /\ IsReader(r.self) /\ Same([s EXCEPT !.ll = ll], r.self)
       /\ r.self.pos = s.pos + 3 /\ r.self.buf = s.buf /\ r.self.ll = ll
  /\ ~(3 <= BufSize /\ s.pos + 2 <= Len(file)) =>
       r.again = FALSE /\ IsReader(r.self) /\ Same(s, r.self) /\ r.self.len = 0

LEMMA InterfaceStep ==
  ASSUME NEW file, IsSeq(file), NEW s, IsReader(s), s.fmt = "pcapng", s.pos < Len(file),
         NEW ll, file[s.pos + 1] = [is |-> "block", type |-> 1, length |-> 3],
         s.pos + 1 < Len(file) => file[(s.pos + 1) + 1] = [is |-> "interface", linktype |-> ll]
  PROVE  InterfaceTaken(file, s, peak_load_packet(file, s), ll)
<1> DEFINE r == peak_load_packet(file, s)
<1>0. s.pos \in Nat /\ BufSize \in Nat /\ Len(file) \in Nat /\ 3 \in Nat
  BY LoadAssumption, SeqFacts DEF IsReader
<1>1. PICK next :
           /\ IsReader(next) /\ Same(s, next) /\ next.pos = s.pos + 1
           /\ next.buf = s.buf /\ next.len = 0
           /\ r = IF BufSize < 3 THEN Return(next)
                  ELSE IF 1 \in PacketTypes THEN EnhancedPacket(file, next, 3)
                  ELSE IF 1 = 1 THEN Interface(file, next, 3)
                  ELSE Unknown(next, 3)
  BY <1>0, BlockRead
<1> HIDE DEF r
<1>2. CASE BufSize < 3
  <2>1. r = Return(next)
    BY <1>1, <1>2
  <2>2. r.again = FALSE /\ r.self = next
    BY <2>1 DEF Return
  <2>3. ~(3 <= BufSize)
    BY <1>0, <1>2
  <2> QED BY <1>1, <2>2, <2>3 DEF r, InterfaceTaken
<1>3. CASE 3 <= BufSize
  <2> DEFINE iface == Read(file, next.pos, 1)
  <2>1. r = Interface(file, next, 3)
    BY <1>0, <1>1, <1>3 DEF PacketTypes
  <2>2. CASE s.pos + 1 >= Len(file)
    <3>1. iface = <<>>
      BY <1>0, <1>1, <2>2, NextCell
    <3>2. r = Return(next)
      BY <2>1, <3>1 DEF Interface
    <3>3. r.again = FALSE /\ r.self = next
      BY <3>2 DEF Return
    <3>4. ~(3 <= BufSize /\ s.pos + 2 <= Len(file))
      BY <1>0, <2>2
    <3> QED BY <1>1, <3>3, <3>4 DEF r, InterfaceTaken
  <2>3. CASE s.pos + 1 < Len(file)
    <3> DEFINE u == Seek(next, 3 - 1)
               t == [u EXCEPT !.ll = ll]
    <3>1. next.pos \in Nat /\ next.pos < Len(file) /\ next.pos + 1 = (s.pos + 1) + 1
      BY <1>0, <1>1, <2>3
    <3>2. iface # <<>> /\ iface[1] = [is |-> "interface", linktype |-> ll]
      BY <2>3, <3>1, NextCell
    <3>3. r = Again([Seek(next, 3 - 1) EXCEPT !.ll = iface[1].linktype])
      BY <2>1, <3>2 DEF Interface
    <3>4. iface[1].linktype = ll
      BY <3>2
    <3>5. r = Again(t)
      BY <3>3, <3>4
    <3>6. r.again = TRUE /\ r.self = t
      BY <3>5 DEF Again
    <3>7. /\ IsReader(u) /\ Same(next, u) /\ u.pos = s.pos + 3 /\ u.buf = s.buf
      <4>1. u = [next EXCEPT !.pos = s.pos + 3] /\ s.pos + 3 \in Nat
        <5>1. next.pos + (3 - 1) = s.pos + 3 /\ s.pos + 3 \in Nat
          BY <1>0, <1>1
        <5>2. u = [next EXCEPT !.pos = next.pos + (3 - 1)]
          BY DEF Seek
        <5> QED BY <5>1, <5>2
      <4> HIDE DEF u
      <4> QED BY <1>1, <4>1, NewPosition
    <3> HIDE DEF u
    <3>8. /\ IsReader(t) /\ t.fmt = u.fmt /\ t.ll = ll /\ t.pos = u.pos /\ t.buf = u.buf
          /\ t.netmon_table = u.netmon_table /\ t.netmon_pos = u.netmon_pos
      BY <3>7 DEF IsReader
    <3> HIDE DEF t
    <3>9. /\ [s EXCEPT !.ll = ll].fmt = s.fmt /\ [s EXCEPT !.ll = ll].ll = ll
          /\ [s EXCEPT !.ll = ll].netmon_table = s.netmon_table
          /\ [s EXCEPT !.ll = ll].netmon_pos = s.netmon_pos
      BY DEF IsReader
    <3>10. Same([s EXCEPT !.ll = ll], t)
      BY <1>1, <3>7, <3>8, <3>9 DEF Same
    <3>11. s.pos + 2 <= Len(file)
      BY <1>0, <2>3
    <3> QED BY <1>3, <3>6, <3>7, <3>8, <3>10, <3>11 DEF r, InterfaceTaken
  <2>4. s.pos + 1 >= Len(file) \/ s.pos + 1 < Len(file)
    BY <1>0
  <2> QED BY <2>2, <2>3, <2>4
<1>4. BufSize < 3 \/ 3 <= BufSize
  BY <1>0
<1> QED BY <1>2, <1>3, <1>4

\* r is what comes of a block of another type.
BlockTaken(s, r, cap) ==
  /\ cap <= BufSize =>
       r.again = TRUE /\ r.self.pos = s.pos + cap /\ r.self.buf = s.buf
  /\ ~(cap <= BufSize) => r.again = FALSE /\ r.self.len = 0
  /\ IsReader(r.self) /\ Same(s, r.self)

LEMMA BlockStep ==
  ASSUME NEW file, IsSeq(file), NEW s, IsReader(s), s.fmt = "pcapng", s.pos < Len(file),
         NEW type, type \notin PacketTypes, type # 1, NEW cap \in Nat,
         file[s.pos + 1] = [is |-> "block", type |-> type, length |-> cap]
  PROVE  BlockTaken(s, peak_load_packet(file, s), cap)
<1> DEFINE r == peak_load_packet(file, s)
<1>0. s.pos \in Nat /\ BufSize \in Nat /\ Len(file) \in Nat
  BY LoadAssumption, SeqFacts DEF IsReader
<1>1. PICK next :
           /\ IsReader(next) /\ Same(s, next) /\ next.pos = s.pos + 1
           /\ next.buf = s.buf /\ next.len = 0
           /\ r = IF BufSize < cap THEN Return(next)
                  ELSE IF type \in PacketTypes THEN EnhancedPacket(file, next, cap)
                  ELSE IF type = 1 THEN Interface(file, next, cap)
                  ELSE Unknown(next, cap)
  BY <1>0, BlockRead
<1> HIDE DEF r
<1>2. CASE BufSize < cap
  <2>1. r = Return(next)
    BY <1>1, <1>2
  <2>2. r.again = FALSE /\ r.self = next
    BY <2>1 DEF Return
  <2>3. ~(cap <= BufSize)
    BY <1>0, <1>2
  <2> QED BY <1>1, <2>2, <2>3 DEF r, BlockTaken
<1>3. CASE cap <= BufSize
  <2> DEFINE u == Seek(next, cap - 1)
  <2>1. r = Unknown(next, cap)
    BY <1>0, <1>1, <1>3
  <2>2. r.again = TRUE /\ r.self = u
    BY <2>1 DEF Unknown, Again
  <2>3. next.pos + (cap - 1) = s.pos + cap /\ s.pos + cap \in Nat
    BY <1>0, <1>1
  <2>4. u = [next EXCEPT !.pos = next.pos + (cap - 1)]
    BY DEF Seek
  <2>5. u = [next EXCEPT !.pos = s.pos + cap]
    BY <2>3, <2>4
  <2> HIDE DEF u
  <2>6. IsReader(u) /\ Same(next, u) /\ u.pos = s.pos + cap /\ u.buf = next.buf
    BY <1>1, <2>3, <2>5, NewPosition
  <2>7. Same(s, u)
    BY <1>1, <2>6 DEF Same
  <2> QED BY <1>1, <1>3, <2>2, <2>6, <2>7 DEF r, BlockTaken
<1>4. BufSize < cap \/ cap <= BufSize
  BY <1>0
<1> QED BY <1>2, <1>3, <1>4
-----------------------------------------------------------------------------
(***************************************************************************)
(* Where the reader is: behind the first k items of the input.             *)
(***************************************************************************)
Total == Len(input.items)

\* Buffer b has the bytes of item j.
HasItem(b, j) ==
  /\ input.items[j].cap <= BufSize
  /\ \A i \in 1 .. input.items[j].cap : b[i] = Byte(j, i)
  /\ input.items[j].cap = 0 => b[1].is # "byte"

Holds(b, k) ==
  /\ Seen(k) \in 0 .. k
  /\ Seen(k) = 0 => b[1].is # "byte"
  /\ Seen(k) # 0 => HasItem(b, Seen(k))

Passed(k) == k \in 0 .. Total /\ \A m \in 1 .. k : Passes(m)

Frames(s, k) ==
  IF input.fmt = "netmon"
  THEN s.netmon_pos = k /\ s.netmon_table = Table(input) /\ input.cut = 0
  ELSE s.netmon_pos = 0 /\ s.netmon_table = <<>>

At(s, k) ==
  /\ Passed(k) /\ IsReader(s) /\ s.fmt = input.fmt
  /\ s.pos = Start(input, k + 1) /\ s.ll = LinkAt(k + 1)
  /\ Holds(s.buf, k) /\ Frames(s, k)

\* A reader that is or was open.
IsOpen(s) == IsReader(s) /\ s.netmon_pos \in 0 .. Len(s.netmon_table)

\* The last of the items that are read.
Ended(k) == Passed(k) /\ (k < Total => ~Passes(k + 1))

\* The reader has gone over the end of a file.
Beyond(s, k) ==
  /\ Ended(k) /\ IsOpen(s) /\ s.fmt = "pcapng" /\ s.pos >= Len(File(input))

Outcome(r, k) ==
  \/ /\ r.again = FALSE /\ r.self.len = Reported(k + 1) /\ r.self.len > 0
     /\ k < Total /\ IsPacket(k + 1) /\ At(r.self, k + 1)
  \/ r.again = FALSE /\ r.self.len = 0 /\ Ended(k) /\ IsOpen(r.self)
  \/ r.again = TRUE /\ At(r.self, k)
  \/ r.again = TRUE /\ k < Total /\ ~IsPacket(k + 1) /\ At(r.self, k + 1)
  \/ r.again = TRUE /\ Beyond(r.self, k)

LEMMA SeenStep ==
  ASSUME NEW k \in Nat
  PROVE  /\ Seen(0) = 0
         /\ Fills(k + 1) => Seen(k + 1) = k + 1
         /\ ~Fills(k + 1) => Seen(k + 1) = Seen(k)
<1> DEFINE S(n) == {0} \cup {m \in 1 .. n : Fills(m)}
<1>1. \A n : Seen(n) = Max(S(n))
  BY DEF Seen
<1>2. Seen(0) = 0
  <2>1. S(0) = {0}
    OBVIOUS
  <2>2. Max({0, 0}) = 0 /\ {0, 0} = {0}
    BY MaxOfTwo
  <2> QED BY <1>1, <2>1, <2>2
<1>3. ASSUME Fills(k + 1) PROVE Seen(k + 1) = k + 1
  <2>1. k + 1 \in S(k + 1) /\ \A y \in S(k + 1) : y \in Int /\ k + 1 >= y
    BY <1>3
  <2> DEFINE T == S(k + 1)
  <2>2. Seen(k + 1) = CHOOSE x \in T : \A y \in T : x >= y
    BY <1>1 DEF Max
  <2> HIDE DEF T
  <2>3. k + 1 \in T /\ \A y \in T : y \in Int /\ k + 1 >= y
    BY <2>1 DEF T
  <2>4. \A x \in T : (\A y \in T : x >= y) => x = k + 1
    BY <2>3
  <2> DEFINE c == CHOOSE x \in T : \A y \in T : x >= y
  <2>5. c \in T /\ \A y \in T : c >= y
    BY <2>3
  <2> HIDE DEF c
  <2>6. c = k + 1
    BY <2>4, <2>5
  <2> QED BY <2>2, <2>6 DEF c
<1>4. ASSUME ~Fills(k + 1) PROVE Seen(k + 1) = Seen(k)
  <2>1. \A m \in 1 .. k + 1 : m \in 1 .. k \/ m = k + 1
    OBVIOUS
  <2>2. \A m \in 1 .. k : m \in 1 .. k + 1
    OBVIOUS
  <2>3. S(k + 1) = S(k)
    BY <1>4, <2>1, <2>2
  <2> QED BY <1>1, <2>3
<1> QED BY <1>2, <1>3, <1>4

\* The link type changes with an interface description only.
LEMMA LinkStep ==
  ASSUME NEW k \in Nat, IsInput(input)
  PROVE  /\ input.fmt \in {"pcap", "pcap_swap"} => LinkAt(k + 1) = input.ll
         /\ input.fmt \in {"erf", "netmon"} => LinkAt(k + 1) = LINKTYPE_ETHERNET
         /\ input.fmt = "pcapng" => LinkAt(1) = 0
         /\ input.fmt = "pcapng" /\ input.items[k + 1].type = 1 =>
              LinkAt((k + 1) + 1) = input.items[k + 1].ll
         /\ input.fmt # "pcapng" \/ input.items[k + 1].type # 1 =>
              LinkAt((k + 1) + 1) = LinkAt(k + 1)
<1> DEFINE D(n) == {m \in 1 .. n - 1 : input.items[m].type = 1}
           v(S) == IF S = {} THEN 0 ELSE input.items[Max(S)].ll
<1>0. input.fmt \in {"erf", "pcap", "pcap_swap", "netmon", "pcapng"}
  BY DEF IsInput
<1>1. \A n : input.fmt \in {"pcap", "pcap_swap"} => LinkAt(n) = input.ll
  BY DEF LinkAt
<1>2. \A n : input.fmt \in {"erf", "netmon"} => LinkAt(n) = LINKTYPE_ETHERNET
  BY DEF LinkAt
<1>3. \A n : input.fmt = "pcapng" => LinkAt(n) = v(D(n))
  BY DEF LinkAt
<1>4. D(1) = {}
  OBVIOUS
<1>5. ASSUME input.items[k + 1].type = 1 PROVE v(D((k + 1) + 1)) = input.items[k + 1].ll
  <2> DEFINE T == D((k + 1) + 1)
  <2>1. k + 1 \in T /\ \A y \in T : y \in Int /\ k + 1 >= y
    BY <1>5
  <2> HIDE DEF T
  <2>2. Max(T) = CHOOSE x \in T : \A y \in T : x >= y
    BY DEF Max
  <2>4. \A x \in T : (\A y \in T : x >= y) => x = k + 1
    BY <2>1
  <2> DEFINE c == CHOOSE x \in T : \A y \in T : x >= y
  <2>5. c \in T /\ \A y \in T : c >= y
    BY <2>1
  <2> HIDE DEF c
  <2>6. c = k + 1
    BY <2>4, <2>5
  <2>7. Max(T) = k + 1 /\ T # {}
    BY <2>1, <2>2, <2>6 DEF c
  <2> QED BY <2>7 DEF T
<1>6. ASSUME input.items[k + 1].type # 1 PROVE D((k + 1) + 1) = D(k + 1)
  <2>1. \A m \in 1 .. ((k + 1) + 1) - 1 : m \in 1 .. (k + 1) - 1 \/ m = k + 1
    OBVIOUS
  <2>2. \A m \in 1 .. (k + 1) - 1 : m \in 1 .. ((k + 1) + 1) - 1
    OBVIOUS
  <2> QED BY <1>6, <2>1, <2>2
<1> HIDE DEF D, v
<1>7. input.fmt = "pcapng" => LinkAt(1) = 0
  BY <1>3, <1>4 DEF v
<1> QED BY <1>0, <1>1, <1>2, <1>3, <1>5, <1>6, <1>7

LEMMA HoldsNext ==
  ASSUME NEW k \in Nat, IsInput(input), k < Total, NEW b, NEW c, Holds(b, k),
         Fills(k + 1) => HasItem(c, k + 1), ~Fills(k + 1) => Agree(c, b, BufSize)
  PROVE  Holds(c, k + 1)
<1>1. BufSize \in Nat /\ BufSize >= 1
  BY LoadAssumption
<1>2. CASE Fills(k + 1)
  <2>1. Seen(k + 1) = k + 1
    BY <1>2, SeenStep
  <2> QED BY <1>2, <2>1 DEF Holds
<1>3. CASE ~Fills(k + 1)
  <2>1. Seen(k + 1) = Seen(k) /\ Seen(k) \in 0 .. k
    BY <1>3, SeenStep DEF Holds
  <2>2. \A i \in 1 .. BufSize : c[i] = b[i]
    BY <1>3 DEF Agree
  <2>3. c[1] = b[1]
    BY <1>1, <2>2
  <2>4. ASSUME Seen(k) # 0 PROVE HasItem(c, Seen(k))
    <3> DEFINE j == Seen(k)
    <3>1. HasItem(b, j) /\ j = Seen(k)
      BY <2>4 DEF Holds
    <3>2. Len(input.items) \in Nat
      BY RecordsAre
    <3>3. j \in 1 .. Len(input.items)
      BY <2>1, <2>4, <3>2 DEF Total
    <3> HIDE DEF j
    <3>4. input.items[j].cap \in Nat
      <4>1. IsItem(input.items[j])
        BY <3>3, RecordsAre
      <4> QED BY <4>1 DEF IsItem
    <3>5. ASSUME NEW i \in 1 .. input.items[j].cap PROVE c[i] = Byte(j, i)
      <4>1. i \in 1 .. BufSize
        BY <1>1, <3>1, <3>4 DEF HasItem
      <4> QED BY <2>2, <3>1, <4>1 DEF HasItem
    <3>6. HasItem(c, j)
      BY <2>3, <3>1, <3>5 DEF HasItem
    <3> QED BY <3>6 DEF j
  <2>5. Seen(k) \in 0 .. k + 1
    BY <2>1
  <2>6. Seen(k) = 0 => c[1].is # "byte"
    BY <2>3 DEF Holds
  <2> QED BY <2>1, <2>4, <2>5, <2>6 DEF Holds
<1> QED BY <1>2, <1>3

\* What is known of item j, and of its place in the file.
LEMMA ItemFacts ==
  ASSUME IsInput(input), NEW j \in 1 .. Total
  PROVE  /\ Total \in Nat /\ BufSize \in Nat /\ IsItem(input.items[j])
         /\ IsSeq(File(input)) /\ Len(File(input)) \in Nat
         /\ Start(input, j) \in Nat /\ Len(Cells(input, j)) \in Nat \ {0}
         /\ Start(input, j + 1) = Start(input, j) + Len(Cells(input, j))
         /\ \A i \in 1 .. Len(Cells(input, j)) :
              Start(input, j) + i <= Len(File(input)) =>
                File(input)[Start(input, j) + i] = Cells(input, j)[i]
         /\ Passes(j) <=>
              /\ Start(input, j + 1) <= Len(File(input))
              /\ Len(Cells(input, j)) - (IF input.fmt = "pcapng" THEN 0 ELSE 1) <= BufSize
              /\ IsPacket(j) => Reported(j) > 0
         /\ Reported(j) \in Nat /\ Reported(j) = ReportedOf(input.fmt, input.items[j])
<1>1. Total \in Nat /\ IsItem(input.items[j]) /\ Len(Cells(input, j)) \in Nat \ {0}
  BY RecordsAre DEF Total
<1>2. j \in 1 .. Total + 1
  BY <1>1
<1>3. Start(input, j) \in Nat /\ Start(input, j + 1) = Start(input, j) + Len(Cells(input, j))
  BY <1>2, Starts DEF Total
<1>4. /\ IsSeq(File(input)) /\ Len(File(input)) \in Nat
      /\ \A i \in 1 .. Len(Cells(input, j)) :
              Start(input, j) + i <= Len(File(input)) =>
                File(input)[Start(input, j) + i] = Cells(input, j)[i]
  BY FileCells DEF Total
<1>5. Passes(j) <=>
              /\ Start(input, j + 1) <= Len(File(input))
              /\ Len(Cells(input, j)) - (IF input.fmt = "pcapng" THEN 0 ELSE 1) <= BufSize
              /\ IsPacket(j) => Reported(j) > 0
  BY DEF Passes, Start, Cells
<1>6. Reported(j) = ReportedOf(input.fmt, input.items[j])
  BY DEF Reported, ReportedOf
<1>7. ReportedOf(input.fmt, input.items[j]) \in Nat
  BY <1>1 DEF ReportedOf, IsItem
<1> QED BY <1>1, <1>3, <1>4, <1>5, <1>6, <1>7, LoadAssumption

\* Behind an item that passes.
LEMMA PassedNext ==
  ASSUME IsInput(input), NEW k, Passed(k), k < Total
  PROVE  /\ k \in Nat /\ k + 1 \in 1 .. Total
         /\ Passes(k + 1) => Passed(k + 1)
         /\ ~Passes(k + 1) => Ended(k)
<1>1. Total \in Nat
  BY RecordsAre DEF Total
<1>2. k \in Nat /\ k + 1 \in 1 .. Total /\ k + 1 \in 0 .. Total
  BY <1>1 DEF Passed
<1>3. ASSUME Passes(k + 1) PROVE \A m \in 1 .. k + 1 : Passes(m)
  <2>1. \A m \in 1 .. k + 1 : m \in 1 .. k \/ m = k + 1
    BY <1>2
  <2> QED BY <1>3, <2>1 DEF Passed
<1> QED BY <1>2, <1>3 DEF Passed, Ended

\* The reader has taken a record of a plain format.
LEMMA TookPlain ==
  ASSUME IsInput(input), input.fmt \in Plain, NEW k, Passed(k), k < Total,
         NEW r, NEW q, Holds(q.buf, k), q.fmt = input.fmt, q.ll = LinkAt(k + 1),
         Frames(q, k + 1), r.again = FALSE,
         Took(File(input), q, r.self,
              input.items[k + 1].cap <= BufSize
                /\ (Start(input, k + 1) + 1) + input.items[k + 1].cap <= Len(File(input)),
              Start(input, k + 1) + 1, input.items[k + 1].cap, Reported(k + 1)),
         Start(input, k + 1) < Len(File(input)), IsOpen(r.self)
  PROVE  Outcome(r, k)
<1> DEFINE j == k + 1
           item == input.items[j]
           file == File(input)
           ok == item.cap <= BufSize /\ (Start(input, j) + 1) + item.cap <= Len(file)
<1>1. k \in Nat /\ j \in 1 .. Total
  BY PassedNext
<1>2. /\ BufSize \in Nat /\ IsItem(item) /\ Len(file) \in Nat /\ Start(input, j) \in Nat
      /\ Start(input, j + 1) = Start(input, j) + Len(Cells(input, j))
      /\ Reported(j) \in Nat
  BY <1>1, ItemFacts
<1>3. item.cap \in Nat
  BY <1>2 DEF IsItem
<1>4. /\ Len(Cells(input, j)) = item.cap + 1
      /\ \A i \in 1 .. item.cap : Cells(input, j)[1 + i] = Byte(j, i)
  BY <1>3, PlainCells DEF Cells
<1>5. input.fmt # "pcapng" /\ IsPacket(j)
  BY DEF Plain, IsPacket
<1> HIDE DEF j, item
<1>6. Passes(j) <=> ok /\ Reported(j) > 0
  <2>1. Passes(j) <=>
          /\ Start(input, j + 1) <= Len(file)
          /\ Len(Cells(input, j)) - (IF input.fmt = "pcapng" THEN 0 ELSE 1) <= BufSize
          /\ IsPacket(j) => Reported(j) > 0
    BY <1>1, ItemFacts
  <2> HIDE DEF file
  <2>2. Start(input, j + 1) <= Len(file) <=> (Start(input, j) + 1) + item.cap <= Len(file)
    BY <1>2, <1>3, <1>4
  <2>3. Len(Cells(input, j)) - (IF input.fmt = "pcapng" THEN 0 ELSE 1) <= BufSize
          <=> item.cap <= BufSize
    BY <1>2, <1>3, <1>4, <1>5
  <2> QED BY <1>5, <2>1, <2>2, <2>3
<1>7. Took(file, q, r.self, ok, Start(input, j) + 1, item.cap, Reported(j))
  BY DEF j, item
<1> HIDE DEF ok
<1>8. CASE Passes(j)
  <2>1. ok /\ Reported(j) > 0
    BY <1>6, <1>8
  <2>2. /\ IsReader(r.self) /\ Same(q, r.self) /\ r.self.len = Reported(j)
        /\ r.self.pos = (Start(input, j) + 1) + item.cap
        /\ \A i \in 1 .. BufSize : r.self.buf[i] =
             IF i <= item.cap THEN file[(Start(input, j) + 1) + i] ELSE q.buf[i]
    BY <1>7, <2>1 DEF Took
  <2>3. r.self.pos = Start(input, j + 1)
    <3>1. (Start(input, j) + 1) + item.cap = Start(input, j) + (item.cap + 1)
      BY <1>2, <1>3
    <3> QED BY <1>2, <1>4, <2>2, <3>1
  <2>4. ASSUME NEW i \in 1 .. item.cap PROVE r.self.buf[i] = Byte(j, i)
    <3>1. i \in 1 .. BufSize /\ i <= item.cap /\ 1 + i \in 1 .. Len(Cells(input, j))
      BY <1>2, <1>3, <1>4, <2>1 DEF ok
    <3>2. (Start(input, j) + 1) + i = Start(input, j) + (1 + i)
      BY <1>2
    <3>3. Start(input, j) + (1 + i) <= Len(file)
      BY <1>2, <1>3, <2>1, <3>1 DEF ok
    <3>4. file[Start(input, j) + (1 + i)] = Cells(input, j)[1 + i]
      BY <1>1, <3>1, <3>3, ItemFacts
    <3> QED BY <1>4, <2>2, <3>1, <3>2, <3>4
  <2>5. Holds(r.self.buf, j)
    <3>1. Fills(j) <=> item.cap > 0
      BY <1>5 DEF Fills, item
    <3>2. Fills(j) => HasItem(r.self.buf, j)
      BY <1>3, <2>1, <2>4, <3>1 DEF HasItem, ok, item
    <3>3. ~Fills(j) => Agree(r.self.buf, q.buf, BufSize)
      <4>1. ASSUME ~Fills(j), NEW i \in 1 .. BufSize PROVE r.self.buf[i] = q.buf[i]
        <5>1. ~(i <= item.cap)
          BY <1>3, <3>1, <4>1
        <5> QED BY <2>2, <5>1
      <4> QED BY <4>1 DEF Agree
    <3> QED BY <1>1, <3>2, <3>3, HoldsNext DEF j
  <2>6. r.self.ll = LinkAt(j + 1) /\ r.self.fmt = input.fmt
    <3>1. LinkAt(j + 1) = LinkAt(k + 1)
      BY <1>1, <1>5, LinkStep DEF j
    <3> QED BY <2>2, <3>1 DEF Same
  <2>7. Frames(r.self, j)
    BY <2>2 DEF Frames, Same, j
  <2>8. Passed(j)
    BY <1>8, PassedNext DEF j
  <2>9. At(r.self, j)
    BY <2>2, <2>3, <2>5, <2>6, <2>7, <2>8 DEF At
  <2> QED BY <1>5, <2>1, <2>2, <2>9 DEF Outcome, j
<1>9. CASE ~Passes(j)
  <2>1. Ended(k)
    BY <1>9, PassedNext DEF j
  <2>2. r.self.len = 0
    <3>1. CASE ok
      BY <1>2, <1>6, <1>7, <1>9, <3>1 DEF Took
    <3>2. CASE ~ok
      BY <1>7, <3>2 DEF Took
    <3> QED BY <3>1, <3>2
  <2> QED BY <2>1, <2>2 DEF Outcome
<1> QED BY <1>8, <1>9

\* There is nothing more to read.
LEMMA NothingMore ==
  ASSUME IsInput(input), NEW k, NEW s, At(s, k), NEW r, r.again = FALSE,
         r.self = [s EXCEPT !.len = 0], Ended(k)
  PROVE  Outcome(r, k)
<1>1. IsReader(s) /\ Frames(s, k) /\ k \in 0 .. Total /\ Total \in Nat
  BY RecordsAre DEF At, Passed, Total
<1>2. IsReader(r.self) /\ Same(s, r.self) /\ r.self.len = 0
  BY <1>1, NoPacketYet
<1>3. s.netmon_pos \in 0 .. Len(s.netmon_table)
  <2>1. CASE input.fmt = "netmon"
    <3>1. DOMAIN input.items = 1 .. Total
      BY RecordsAre DEF Total
    <3>2. Table(input) = [n \in 1 .. Total |-> Table(input)[n]]
      BY <3>1 DEF Table
    <3>3. Len(Table(input)) = Total
      BY <1>1, <3>2, FunctionIsSeq
    <3> QED BY <1>1, <2>1, <3>3 DEF Frames
  <2>2. CASE input.fmt # "netmon"
    <3>1. s.netmon_pos = 0 /\ Len(s.netmon_table) = 0
      BY <1>1, <2>2, TupleIsSeq DEF Frames
    <3> QED BY <3>1
  <2> QED BY <2>1, <2>2
<1>4. IsOpen(r.self)
  BY <1>2, <1>3 DEF IsOpen, Same
<1> QED BY <1>2, <1>4 DEF Outcome

\* The end of a file that has no frame table.
LEMMA AtEndOfFile ==
  ASSUME IsInput(input), input.fmt # "netmon", NEW k, NEW s, At(s, k),
         s.pos >= Len(File(input))
  PROVE  Outcome(peak_load_packet(File(input), s), k)
<1>1. /\ Passed(k) /\ IsReader(s) /\ s.fmt = input.fmt /\ s.pos = Start(input, k + 1)
  BY DEF At
<1>2. input.fmt \in Plain \cup {"pcapng"}
  BY DEF IsInput, Plain
<1>3. IsSeq(File(input))
  BY FileCells
<1>4. Ended(k)
  <2>1. CASE k < Total
    <3>1. k + 1 \in 1 .. Total
      BY <1>1, <2>1, PassedNext
    <3> DEFINE j == k + 1
    <3> HIDE DEF j
    <3>2. /\ Start(input, j) \in Nat /\ Len(Cells(input, j)) \in Nat \ {0}
          /\ Start(input, j + 1) = Start(input, j) + Len(Cells(input, j))
          /\ Len(File(input)) \in Nat
          /\ Passes(j) => Start(input, j + 1) <= Len(File(input))
      BY <3>1, ItemFacts DEF j
    <3>3. Start(input, j) >= Len(File(input))
      BY <1>1 DEF j
    <3>4. ~Passes(j)
      BY <3>2, <3>3
    <3> QED BY <1>1, <2>1, <3>4, PassedNext DEF j
  <2>2. CASE ~(k < Total)
    BY <1>1, <2>2 DEF Ended
  <2> QED BY <2>1, <2>2
<1>5. /\ peak_load_packet(File(input), s).again = FALSE
      /\ peak_load_packet(File(input), s).self = [s EXCEPT !.len = 0]
  BY <1>1, <1>2, <1>3, EndStep
<1> QED BY <1>4, <1>5, NothingMore

\* Behind all items of a file without a frame table is its end.
LEMMA BehindAll ==
  ASSUME IsInput(input), input.fmt # "netmon"
  PROVE  Start(input, Total + 1) >= Len(File(input))
<1> DEFINE a == Start(input, Total + 1)
           c == input.cut
<1>1. Len(File(input)) = (a - c) + 0
  BY FileCells DEF Total
<1>2. c \in Nat
  BY FileCells
<1>3. Total \in Nat /\ Total + 1 \in 1 .. Total + 1
  BY RecordsAre DEF Total
<1>4. a \in Nat
  BY <1>3, Starts DEF Total
<1> HIDE DEF a, c
<1>5. a >= (a - c) + 0
  BY <1>2, <1>4
<1> QED BY <1>1, <1>5 DEF a

LEMMA LoadPlain ==
  ASSUME IsInput(input), input.fmt \in Plain, input.fmt # "netmon", NEW k, NEW s, At(s, k)
  PROVE  Outcome(peak_load_packet(File(input), s), k)
<1> DEFINE file == File(input)
           r == peak_load_packet(file, s)
<1>1. /\ Passed(k) /\ IsReader(s) /\ s.fmt = input.fmt /\ s.pos = Start(input, k + 1)
      /\ s.ll = LinkAt(k + 1) /\ Holds(s.buf, k) /\ Frames(s, k) /\ s.pos \in Nat
  BY DEF At, IsReader
<1>2. IsSeq(file) /\ Len(file) \in Nat
  BY FileCells
<1>3. CASE s.pos >= Len(file)
  BY <1>3, AtEndOfFile
<1>4. CASE s.pos < Len(file) /\ k < Total
  <2> DEFINE j == k + 1
             item == input.items[j]
  <2>1. k \in Nat /\ j \in 1 .. Total
    BY <1>1, <1>4, PassedNext
  <2> HIDE DEF j
  <2>2. /\ IsItem(item) /\ Start(input, j) \in Nat /\ Len(Cells(input, j)) \in Nat \ {0}
        /\ \A i \in 1 .. Len(Cells(input, j)) : Start(input, j) + i <= Len(file) =>
             file[Start(input, j) + i] = Cells(input, j)[i]
        /\ Reported(j) = ReportedOf(input.fmt, item)
    BY <2>1, ItemFacts
  <2>3. item.cap \in Nat
    BY <2>2 DEF IsItem
  <2>4. s.pos = Start(input, j) /\ 1 \in 1 .. Len(Cells(input, j))
        /\ Start(input, j) + 1 <= Len(file)
    BY <1>1, <1>2, <1>4, <2>2 DEF j
  <2>5. Cells(input, j)[1] = RecordOf(input.fmt, item)
    BY <2>3, PlainCells DEF Cells
  <2>6. file[s.pos + 1] = RecordOf(s.fmt, item)
    BY <1>1, <2>2, <2>4, <2>5
  <2> HIDE DEF file
  <2>7. /\ r.again = FALSE
        /\ Took(file, s, r.self, item.cap <= BufSize /\ (s.pos + 1) + item.cap <= Len(file),
                s.pos + 1, item.cap, ReportedOf(s.fmt, item))
    BY <1>1, <1>2, <1>4, <2>2, <2>6, PlainStep
  <2> HIDE DEF r
  <2>8. Took(file, s, r.self,
             item.cap <= BufSize /\ (Start(input, j) + 1) + item.cap <= Len(file),
             Start(input, j) + 1, item.cap, Reported(j))
    BY <1>1, <2>2, <2>4, <2>7
  <2>9. Frames(s, k + 1) /\ IsOpen(r.self)
    <3>1. s.netmon_pos = 0 /\ s.netmon_table = <<>> /\ Len(<<>>) = 0
      BY <1>1, TupleIsSeq DEF Frames
    <3>2. IsReader(r.self) /\ Same(s, r.self)
      BY <2>8 DEF Took
    <3> QED BY <3>1, <3>2 DEF Frames, IsOpen, Same
  <2> QED BY <1>1, <1>4, <2>4, <2>7, <2>8, <2>9, TookPlain DEF j, file, r
<1>5. CASE k >= Total
  <2>1. k = Total
    BY <1>1, <1>5, RecordsAre DEF Passed, Total
  <2>2. s.pos >= Len(file)
    BY <1>1, <2>1, BehindAll
  <2> QED BY <1>3, <2>2
<1>6. /\ s.pos >= Len(file) \/ s.pos < Len(file)
      /\ k < Total \/ k >= Total
  <2>1. k \in Nat /\ Total \in Nat
    BY <1>1, RecordsAre DEF Passed, Total
  <2> HIDE DEF file
  <2> QED BY <1>1, <1>2, <2>1
<1> QED BY <1>3, <1>4, <1>5, <1>6

LEMMA StartsGrow ==
  ASSUME IsInput(input), NEW j \in 1 .. Total
  PROVE  Start(input, j + 1) <= Start(input, Total + 1) /\ Start(input, j + 1) \in Nat
<1> DEFINE R == Records(input)
           H == HeaderSize(input)
<1>1. Total \in Nat /\ IsSeqs(R) /\ Len(R) = Total /\ H \in Nat
  BY RecordsAre, HeaderIs DEF Total
<1>2. j + 1 \in 1 .. Total + 1 /\ Total + 1 \in 1 .. Total + 1
  BY <1>1
<1>3. /\ Start(input, j + 1) = H + Begin(R, j + 1) /\ Start(input, j + 1) \in Nat
      /\ Start(input, Total + 1) = H + Begin(R, Total + 1) /\ Start(input, Total + 1) \in Nat
  BY <1>2, Starts DEF Total
<1> HIDE DEF R, H
<1>4. (j + 1) - 1 = j /\ (Total + 1) - 1 = Total /\ j \in 1 .. Len(R) /\ Total \in j .. Len(R)
  BY <1>1
<1>5. Len(Flat(R, j)) <= Len(Flat(R, Total))
  BY <1>1, <1>4, FlatCells
<1>6. Begin(R, j + 1) <= Begin(R, Total + 1)
  BY <1>4, <1>5 DEF Begin
<1>7. Begin(R, j + 1) \in Nat /\ Begin(R, Total + 1) \in Nat
  <2>1. \A n \in 0 .. Len(R) : Len(Flat(R, n)) \in Nat
    BY <1>1, FlatStep, SeqFacts
  <2>2. j \in 0 .. Len(R) /\ Total \in 0 .. Len(R)
    BY <1>1
  <2> QED BY <1>4, <2>1, <2>2 DEF Begin
<1> DEFINE a == Begin(R, j + 1)
           b == Begin(R, Total + 1)
<1> HIDE DEF a, b
<1>8. a \in Nat /\ b \in Nat /\ a <= b
  BY <1>6, <1>7 DEF a, b
<1>9. H + a <= H + b
  BY <1>1, <1>8
<1> QED BY <1>3, <1>9 DEF a, b

LEMMA TableIs ==
  ASSUME IsInput(input), input.fmt = "netmon"
  PROVE  /\ Len(Table(input)) = Total /\ Total \in Nat /\ IsSeq(Table(input))
         /\ \A n \in 1 .. Total : Table(input)[n].offset = Start(input, n)
<1>1. DOMAIN input.items = 1 .. Total /\ Total \in Nat
  BY RecordsAre DEF Total
<1>2. \A n \in 1 .. Total : Table(input)[n] = [is |-> "frame", offset |-> Before(input, 1, n)]
  BY <1>1 DEF Table
<1>3. Table(input) = [n \in 1 .. Total |-> Table(input)[n]]
  BY <1>1 DEF Table
<1>4. Len(Table(input)) = Total /\ IsSeq(Table(input))
  BY <1>1, <1>3, FunctionIsSeq
<1>5. Len(FileHeader(input)) = 1
  BY HeaderIs DEF HeaderSize
<1>6. \A n : Start(input, n) = Before(input, 1, n)
  BY <1>5 DEF Start
<1>7. ASSUME NEW n \in 1 .. Total PROVE Table(input)[n].offset = Start(input, n)
  <2> DEFINE b == Before(input, 1, n)
  <2>1. Table(input)[n] = [is |-> "frame", offset |-> b]
    BY <1>2
  <2> HIDE DEF b
  <2>2. Table(input)[n].offset = b
    BY <2>1
  <2> QED BY <1>6, <2>2 DEF b
<1> QED BY <1>1, <1>4, <1>7

LEMMA LoadNetmon ==
  ASSUME IsInput(input), input.fmt = "netmon", NEW k, NEW s, At(s, k)
  PROVE  Outcome(peak_load_packet(File(input), s), k)
<1> DEFINE file == File(input)
           r == peak_load_packet(file, s)
<1>1. /\ Passed(k) /\ IsReader(s) /\ s.fmt = "netmon" /\ s.pos = Start(input, k + 1)
      /\ s.ll = LinkAt(k + 1) /\ Holds(s.buf, k)
      /\ s.netmon_pos = k /\ s.netmon_table = Table(input) /\ input.cut = 0
  BY DEF At, Frames
<1>2. /\ IsSeq(file) /\ Len(file) \in Nat
      /\ Len(file) = (Start(input, Total + 1) - 0) + Total
  BY <1>1, FileCells DEF Total
<1>3. /\ Len(Table(input)) = Total /\ Total \in Nat /\ k \in 0 .. Total
      /\ \A n \in 1 .. Total : Table(input)[n].offset = Start(input, n)
  BY <1>1, TableIs DEF Passed
<1>4. CASE k = Total
  <2>0. s.netmon_pos = Len(s.netmon_table)
    BY <1>1, <1>3, <1>4
  <2>1. r.again = FALSE /\ r.self = [s EXCEPT !.len = 0]
    <3>1. IsReader(s) /\ s.fmt = "netmon"
      BY <1>1
    <3> HIDE DEF file
    <3>2. /\ peak_load_packet(file, s).again = FALSE
          /\ peak_load_packet(file, s).self = [s EXCEPT !.len = 0]
      BY <2>0, <3>1, NetmonEnd, Zenon
    <3> QED BY <3>2
  <2>2. Ended(k)
    BY <1>1, <1>3, <1>4 DEF Ended
  <2> QED BY <2>1, <2>2, NothingMore
<1>5. CASE k < Total
  <2> DEFINE j == k + 1
             item == input.items[j]
  <2>1. k \in Nat /\ j \in 1 .. Total
    BY <1>1, <1>5, PassedNext
  <2> HIDE DEF j
  <2>2. /\ IsItem(item) /\ Start(input, j) \in Nat /\ Len(Cells(input, j)) \in Nat \ {0}
        /\ Start(input, j + 1) = Start(input, j) + Len(Cells(input, j))
        /\ \A i \in 1 .. Len(Cells(input, j)) : Start(input, j) + i <= Len(file) =>
             file[Start(input, j) + i] = Cells(input, j)[i]
        /\ Reported(j) = ReportedOf(input.fmt, item)
    BY <2>1, ItemFacts
  <2>3. item.cap \in Nat /\ Reported(j) = item.orig
    BY <2>2 DEF IsItem, ReportedOf
  <2>4. Start(input, j) < Len(file)
    <3>1. Start(input, j + 1) <= Start(input, Total + 1) /\ Start(input, j + 1) \in Nat
      BY <2>1, StartsGrow
    <3>2. Start(input, Total + 1) \in Nat
      <4>1. Total + 1 \in 1 .. Total + 1
        BY <1>3
      <4> QED BY <4>1, Starts DEF Total
    <3> DEFINE a == Start(input, j)
               b == Start(input, j + 1)
               c == Start(input, Total + 1)
               l == Len(Cells(input, j))
    <3>3. a \in Nat /\ b = a + l /\ l \in Nat \ {0} /\ b <= c /\ c \in Nat
      BY <2>2, <3>1, <3>2
    <3>4. Len(file) = (c - 0) + Total
      BY <1>2
    <3> HIDE DEF a, b, c, l, file
    <3>5. a < (c - 0) + Total
      BY <1>3, <3>3
    <3> QED BY <3>4, <3>5 DEF a
  <2>5. Cells(input, j)[1] = RecordOf("netmon", item)
    BY <2>3, PlainCells DEF Cells, Plain
  <2>6. file[Start(input, j) + 1] = RecordOf("netmon", item)
    <3>1. 1 \in 1 .. Len(Cells(input, j)) /\ Start(input, j) + 1 <= Len(file)
      BY <1>2, <2>2, <2>4
    <3> QED BY <2>2, <2>5, <3>1
  <2>7. s.netmon_table[k + 1].offset = Start(input, j) /\ Len(s.netmon_table) \in Nat
        /\ k < Len(s.netmon_table)
    BY <1>1, <1>3, <1>5, <2>1 DEF j
  <2> DEFINE p == Start(input, j)
  <2> HIDE DEF file, p
  <2>8. r.again = FALSE /\ FrameTaken(file, s, r.self, k, p, item)
    <3>1. p \in Nat /\ s.netmon_table[k + 1].offset = p /\ p < Len(file)
          /\ file[p + 1] = RecordOf("netmon", item)
      BY <2>2, <2>4, <2>6, <2>7 DEF p
    <3> QED BY <1>1, <1>2, <2>1, <2>2, <2>7, <3>1, NetmonStep
  <2> HIDE DEF r
  <2>9. PICK q : /\ q.fmt = s.fmt /\ q.ll = s.ll /\ q.buf = s.buf
                 /\ q.netmon_table = s.netmon_table /\ q.netmon_pos = k + 1
                 /\ Took(file, q, r.self,
                         item.cap <= BufSize /\ (p + 1) + item.cap <= Len(file),
                         p + 1, item.cap, item.orig)
    BY <2>8 DEF FrameTaken
  <2>10. /\ Frames(q, k + 1) /\ Holds(q.buf, k) /\ q.fmt = input.fmt /\ q.ll = LinkAt(k + 1)
    BY <1>1, <2>9 DEF Frames
  <2>11. IsOpen(r.self)
    <3>1. IsReader(r.self) /\ Same(q, r.self)
      BY <2>9 DEF Took
    <3>2. r.self.netmon_pos = k + 1 /\ Len(r.self.netmon_table) = Total
      BY <1>1, <1>3, <2>9, <3>1 DEF Same
    <3> QED BY <1>3, <1>5, <3>1, <3>2 DEF IsOpen
  <2>12. Took(File(input), q, r.self,
              input.items[k + 1].cap <= BufSize
                /\ (Start(input, k + 1) + 1) + input.items[k + 1].cap <= Len(File(input)),
              Start(input, k + 1) + 1, input.items[k + 1].cap, Reported(k + 1))
    BY <2>3, <2>9 DEF j, p, file
  <2>13. Start(input, k + 1) < Len(File(input)) /\ input.fmt \in Plain
    BY <2>4 DEF j, file, Plain
  <2>14. Outcome(r, k)
    BY <1>1, <1>5, <2>8, <2>10, <2>11, <2>12, <2>13, TookPlain
  <2> QED BY <2>14 DEF r, file
<1>6. k = Total \/ k < Total
  BY <1>3
<1> QED BY <1>4, <1>5, <1>6

\* Behind a block that is none of a packet.
LEMMA AtBlock ==
  ASSUME IsInput(input), input.fmt = "pcapng", NEW k, NEW s, At(s, k), k < Total,
         ~IsPacket(k + 1), Passes(k + 1), NEW t, IsReader(t), t.fmt = s.fmt,
         t.pos = Start(input, (k + 1) + 1), t.ll = LinkAt((k + 1) + 1), t.buf = s.buf,
         t.netmon_table = s.netmon_table, t.netmon_pos = s.netmon_pos
  PROVE  At(t, k + 1)
<1>1. /\ Passed(k) /\ s.fmt = input.fmt /\ Holds(s.buf, k) /\ Frames(s, k)
  BY DEF At
<1>2. k \in Nat /\ Passed(k + 1)
  BY <1>1, PassedNext
<1>3. ~Fills(k + 1) /\ Agree(t.buf, s.buf, BufSize)
  BY DEF Fills, Agree
<1>4. Holds(t.buf, k + 1)
  BY <1>1, <1>2, <1>3, HoldsNext
<1>5. Frames(t, k + 1)
  BY <1>1 DEF Frames
<1> QED BY <1>1, <1>2, <1>4, <1>5 DEF At

\* A packet of a PCAPNG file.
LEMMA LoadPacketBlock ==
  ASSUME IsInput(input), input.fmt = "pcapng", NEW k, NEW s, At(s, k), k < Total,
         s.pos < Len(File(input)), input.items[k + 1].type \in PacketTypes
  PROVE  Outcome(peak_load_packet(File(input), s), k)
<1> DEFINE file == File(input)
           r == peak_load_packet(file, s)
           j == k + 1
           item == input.items[j]
           p == Start(input, j)
           ok == item.cap + 3 <= BufSize /\ (p + 3) + item.cap <= Len(file)
<1>1. /\ Passed(k) /\ IsReader(s) /\ s.fmt = input.fmt /\ s.pos = p
      /\ s.ll = LinkAt(j) /\ Holds(s.buf, k) /\ Frames(s, k)
  BY DEF At
<1>2. k \in Nat /\ j \in 1 .. Total
  BY <1>1, PassedNext
<1> HIDE DEF j
<1>3. /\ BufSize \in Nat /\ IsSeq(file) /\ Len(file) \in Nat /\ IsItem(item) /\ p \in Nat
      /\ Start(input, j + 1) = p + Len(Cells(input, j))
      /\ \A i \in 1 .. Len(Cells(input, j)) : p + i <= Len(file) => file[p + i] = Cells(input, j)[i]
      /\ Reported(j) = ReportedOf(input.fmt, item) /\ Reported(j) \in Nat
      /\ Passes(j) <=>
           /\ Start(input, j + 1) <= Len(file)
           /\ Len(Cells(input, j)) - (IF input.fmt = "pcapng" THEN 0 ELSE 1) <= BufSize
           /\ IsPacket(j) => Reported(j) > 0
  BY <1>2, ItemFacts
<1>4. item.cap \in Nat /\ Reported(j) = item.orig
  BY <1>3 DEF IsItem, ReportedOf
<1>5. item.type \in PacketTypes /\ IsPacket(j)
  BY DEF IsPacket, j
<1>6. /\ Len(Cells(input, j)) = item.cap + 3
      /\ Cells(input, j)[1] = [is |-> "block", type |-> item.type, length |-> item.cap + 3]
      /\ Cells(input, j)[2] = [is |-> "packet", packetlen |-> item.orig]
      /\ \A i \in 1 .. item.cap : Cells(input, j)[2 + i] = Byte(j, i)
      /\ Cells(input, j)[item.cap + 3] = [is |-> "trailer"]
  BY <1>4, <1>5, PacketCells DEF Cells
<1> HIDE DEF item, p, file
<1>7. s.pos + 1 <= Len(file)
  BY <1>1, <1>3 DEF file
<1>8. file[s.pos + 1] = [is |-> "block", type |-> item.type, length |-> item.cap + 3]
  <2>1. 1 \in 1 .. item.cap + 3
    BY <1>4
  <2>2. file[p + 1] = Cells(input, j)[1]
    BY <1>1, <1>3, <1>6, <1>7, <2>1
  <2> QED BY <1>1, <1>6, <2>2
<1>9. s.pos + 1 < Len(file) => file[(s.pos + 1) + 1] = [is |-> "packet", packetlen |-> item.orig]
  <2>1. 2 \in 1 .. item.cap + 3 /\ (p + 1) + 1 = p + 2 /\ (p + 1 < Len(file) => p + 2 <= Len(file))
    BY <1>3, <1>4
  <2>2. p + 2 <= Len(file) => file[p + 2] = Cells(input, j)[2]
    BY <1>3, <1>6, <2>1
  <2> QED BY <1>1, <1>6, <2>1, <2>2
<1>10. /\ r.again = FALSE
       /\ Took(file, s, r.self, item.cap + 3 <= BufSize /\ (s.pos + 3) + item.cap <= Len(file),
               s.pos + 2, item.cap + 1, item.orig)
  <2>1. s.fmt = "pcapng" /\ s.pos < Len(file)
    BY <1>1 DEF file
  <2>2. Short(item.cap)
    BY <1>3 DEF IsItem, Short
  <2> QED BY <1>1, <1>3, <1>4, <1>5, <1>8, <1>9, <2>1, <2>2, PacketStep
<1> HIDE DEF r
<1>11. Took(file, s, r.self, ok, p + 2, item.cap + 1, item.orig)
  BY <1>1, <1>10
<1>12. Passes(j) <=> ok /\ Reported(j) > 0
  <2>1. Start(input, j + 1) <= Len(file) <=> (p + 3) + item.cap <= Len(file)
    <3>0. p \in Nat /\ item.cap \in Nat
      BY <1>3, <1>4
    <3>1. p + (item.cap + 3) = (p + 3) + item.cap
      BY <3>0
    <3> QED BY <1>3, <1>6, <3>1
  <2>2. Len(Cells(input, j)) - (IF input.fmt = "pcapng" THEN 0 ELSE 1) <= BufSize
          <=> item.cap + 3 <= BufSize
    <3>1. (item.cap + 3) - 0 = item.cap + 3
      BY <1>4
    <3> QED BY <1>6, <3>1
  <2> QED BY <1>3, <1>5, <2>1, <2>2
<1>13. IsOpen(r.self) /\ Frames(r.self, k + 1)
  <2>1. s.netmon_pos = 0 /\ s.netmon_table = <<>> /\ Len(<<>>) = 0
    BY <1>1, TupleIsSeq DEF Frames
  <2>2. IsReader(r.self) /\ Same(s, r.self)
    BY <1>11 DEF Took
  <2> QED BY <2>1, <2>2 DEF Frames, IsOpen, Same
<1>14. CASE Passes(j)
  <2>1. ok /\ Reported(j) > 0
    BY <1>12, <1>14
  <2>2. /\ IsReader(r.self) /\ Same(s, r.self) /\ r.self.len = Reported(j)
        /\ r.self.pos = (p + 2) + (item.cap + 1)
        /\ \A i \in 1 .. BufSize : r.self.buf[i] =
             IF i <= item.cap + 1 THEN file[(p + 2) + i] ELSE s.buf[i]
    BY <1>4, <1>11, <2>1 DEF Took
  <2>3. r.self.pos = Start(input, j + 1)
    <3>0. p \in Nat /\ item.cap \in Nat
      BY <1>3, <1>4
    <3>1. (p + 2) + (item.cap + 1) = p + (item.cap + 3)
      BY <3>0
    <3> QED BY <1>3, <1>6, <2>2, <3>1
  <2>4. ASSUME NEW i \in 1 .. item.cap + 1
        PROVE  r.self.buf[i] = Cells(input, j)[2 + i]
    <3>1. /\ i \in 1 .. BufSize /\ i <= item.cap + 1 /\ 2 + i \in 1 .. item.cap + 3
          /\ (p + 2) + i = p + (2 + i) /\ p + (2 + i) <= Len(file)
      BY <1>3, <1>4, <2>1
    <3>2. file[p + (2 + i)] = Cells(input, j)[2 + i]
      BY <1>3, <1>6, <3>1
    <3> QED BY <2>2, <3>1, <3>2
  <2>5. HasItem(r.self.buf, j)
    <3>1. item.cap <= BufSize
      BY <1>3, <1>4, <2>1
    <3>2. ASSUME NEW i \in 1 .. item.cap PROVE r.self.buf[i] = Byte(j, i)
      <4>1. i \in 1 .. item.cap + 1
        BY <1>4
      <4> QED BY <1>6, <2>4, <4>1
    <3>3. ASSUME item.cap = 0 PROVE r.self.buf[1].is # "byte"
      <4>1. 1 \in 1 .. item.cap + 1 /\ 2 + 1 = item.cap + 3
        BY <3>3
      <4>2. r.self.buf[1] = Cells(input, j)[item.cap + 3]
        BY <2>4, <4>1
      <4>3. r.self.buf[1] = [is |-> "trailer"]
        BY <1>6, <4>2
      <4> QED BY <4>3
    <3> QED BY <3>1, <3>2, <3>3 DEF HasItem, item
  <2>6. Holds(r.self.buf, j)
    <3>1. Fills(j)
      BY <1>5 DEF Fills
    <3> QED BY <1>1, <1>2, <2>5, <3>1, HoldsNext DEF j
  <2>7. r.self.ll = LinkAt(j + 1) /\ r.self.fmt = input.fmt
    <3>1. input.items[k + 1].type # 1
      BY DEF PacketTypes
    <3>2. LinkAt(j + 1) = LinkAt(j)
      BY <1>2, <3>1, LinkStep DEF j
    <3> QED BY <1>1, <2>2, <3>2 DEF Same
  <2>8. Passed(j) /\ Frames(r.self, j)
    BY <1>1, <1>13, <1>14, PassedNext DEF j
  <2>9. At(r.self, j)
    BY <2>2, <2>3, <2>6, <2>7, <2>8 DEF At
  <2>10. Outcome(r, k)
    BY <1>5, <1>10, <2>1, <2>2, <2>9 DEF Outcome, j
  <2> QED BY <2>10 DEF r, file
<1>15. CASE ~Passes(j)
  <2>1. Ended(k)
    BY <1>1, <1>15, PassedNext DEF j
  <2>2. r.self.len = 0
    <3>1. CASE ok
      BY <1>3, <1>4, <1>11, <1>12, <1>15, <3>1 DEF Took
    <3>2. CASE ~ok
      <4> HIDE DEF ok
      <4> QED BY <1>11, <3>2 DEF Took
    <3> QED BY <3>1, <3>2
  <2>3. Outcome(r, k)
    BY <1>10, <1>13, <2>1, <2>2 DEF Outcome
  <2> QED BY <2>3 DEF r, file
<1> QED BY <1>14, <1>15

\* An interface description, or a block of another type.
LEMMA LoadOtherBlock ==
  ASSUME IsInput(input), input.fmt = "pcapng", NEW k, NEW s, At(s, k), k < Total,
         s.pos < Len(File(input)), input.items[k + 1].type \notin PacketTypes
  PROVE  Outcome(peak_load_packet(File(input), s), k)
<1> DEFINE file == File(input)
           r == peak_load_packet(file, s)
           j == k + 1
           item == input.items[j]
           p == Start(input, j)
           l == Len(Cells(input, j))
<1>1. /\ Passed(k) /\ IsReader(s) /\ s.fmt = input.fmt /\ s.pos = p
      /\ s.ll = LinkAt(j) /\ Holds(s.buf, k)
      /\ s.netmon_pos = 0 /\ s.netmon_table = <<>> /\ Len(s.netmon_table) = 0
  BY TupleIsSeq DEF At, Frames
<1>2. k \in Nat /\ j \in 1 .. Total
  BY <1>1, PassedNext
<1> HIDE DEF j
<1>3. /\ BufSize \in Nat /\ BufSize >= 1 /\ IsSeq(file) /\ Len(file) \in Nat /\ p \in Nat
      /\ l \in Nat \ {0} /\ Start(input, j + 1) = p + l
  BY <1>2, ItemFacts, LoadAssumption
<1>4. \A i \in 1 .. l : p + i <= Len(file) => file[p + i] = Cells(input, j)[i]
  BY <1>2, ItemFacts
<1>5. item.cap \in Nat /\ ~IsPacket(j) /\ item.type \notin PacketTypes
  <2>1. IsItem(item)
    BY <1>2, ItemFacts
  <2> QED BY <2>1 DEF IsItem, IsPacket, j
<1>6. Passes(j) <=> p + l <= Len(file) /\ l <= BufSize
  <2>1. Passes(j) <=>
           /\ Start(input, j + 1) <= Len(file)
           /\ l - (IF input.fmt = "pcapng" THEN 0 ELSE 1) <= BufSize
           /\ IsPacket(j) => Reported(j) > 0
    BY <1>2, ItemFacts
  <2>2. l - 0 = l
    BY <1>3
  <2> HIDE DEF l
  <2> QED BY <1>3, <1>5, <2>1, <2>2
<1> HIDE DEF p, file, l
<1>7. s.pos + 1 <= Len(file) /\ s.pos < Len(file) /\ s.fmt = "pcapng"
  BY <1>1, <1>3 DEF file
<1>8. 1 \in 1 .. l /\ file[s.pos + 1] = Cells(input, j)[1]
  BY <1>1, <1>3, <1>4, <1>7
<1>9. SUFFICES Outcome(r, k)
  BY DEF r, file
<1>10. ASSUME r.again = TRUE, IsReader(r.self), r.self.fmt = s.fmt, r.self.buf = s.buf,
              r.self.netmon_table = s.netmon_table, r.self.netmon_pos = s.netmon_pos,
              r.self.pos = p + l, r.self.ll = LinkAt(j + 1), l <= BufSize
       PROVE  Outcome(r, k)
  <2>1. CASE p + l <= Len(file)
    <3>1. Passes(j)
      BY <1>6, <1>10, <2>1
    <3>2. r.self.pos = Start(input, j + 1)
      BY <1>3, <1>10
    <3>3. At(r.self, k + 1)
      BY <1>5, <1>10, <3>1, <3>2, AtBlock DEF j
    <3> QED BY <1>5, <1>10, <3>3 DEF Outcome, j
  <2>2. CASE ~(p + l <= Len(file))
    <3>1. Ended(k)
      BY <1>1, <1>6, <2>2, PassedNext DEF j
    <3>2. r.self.pos >= Len(file)
      BY <1>3, <1>10, <2>2
    <3>3. IsOpen(r.self)
      BY <1>1, <1>10 DEF IsOpen
    <3>4. Beyond(r.self, k)
      BY <1>7, <1>10, <3>1, <3>2, <3>3 DEF Beyond, file
    <3> QED BY <1>10, <3>4 DEF Outcome
  <2> QED BY <2>1, <2>2
<1>11. ASSUME r.again = FALSE, IsReader(r.self), Same(s, r.self), r.self.len = 0, ~Passes(j)
       PROVE  Outcome(r, k)
  <2>1. Ended(k)
    BY <1>1, <1>11, PassedNext DEF j
  <2>2. IsOpen(r.self)
    BY <1>1, <1>11 DEF IsOpen, Same
  <2> QED BY <1>11, <2>1, <2>2 DEF Outcome
<1>12. CASE item.type = 1
  <2>1. l = 3 /\ Cells(input, j)[1] = [is |-> "block", type |-> 1, length |-> 3]
        /\ Cells(input, j)[2] = [is |-> "interface", linktype |-> item.ll]
    BY <1>12, InterfaceCells DEF Cells, l
  <2>2. s.pos + 1 < Len(file) => file[(s.pos + 1) + 1] = [is |-> "interface", linktype |-> item.ll]
    <3>1. 2 \in 1 .. l /\ (p + 1) + 1 = p + 2 /\ (p + 1 < Len(file) => p + 2 <= Len(file))
      BY <1>3, <2>1
    <3>2. p + 2 <= Len(file) => file[p + 2] = Cells(input, j)[2]
      BY <1>4, <3>1
    <3> QED BY <1>1, <2>1, <3>1, <3>2
  <2>3. file[s.pos + 1] = [is |-> "block", type |-> 1, length |-> 3]
    BY <1>8, <2>1
  <2>4. LinkAt(j + 1) = item.ll
    BY <1>2, <1>12, LinkStep DEF j
  <2> HIDE DEF item
  <2>5. /\ (3 <= BufSize /\ s.pos + 2 <= Len(file)) =>
              /\ r.again = TRUE /\ IsReader(r.self)
              /\ Same([s EXCEPT !.ll = item.ll], r.self)
              /\ r.self.pos = s.pos + 3 /\ r.self.buf = s.buf /\ r.self.ll = item.ll
        /\ ~(3 <= BufSize /\ s.pos + 2 <= Len(file)) =>
              r.again = FALSE /\ IsReader(r.self) /\ Same(s, r.self) /\ r.self.len = 0
    <3>1. InterfaceTaken(file, s, r, item.ll)
      BY <1>1, <1>3, <1>7, <2>2, <2>3, InterfaceStep
    <3> HIDE DEF r
    <3> QED BY <3>1 DEF InterfaceTaken
  <2> HIDE DEF r
  <2>6. CASE 3 <= BufSize /\ s.pos + 2 <= Len(file)
    <3>1. /\ [s EXCEPT !.ll = item.ll].fmt = s.fmt
          /\ [s EXCEPT !.ll = item.ll].netmon_table = s.netmon_table
          /\ [s EXCEPT !.ll = item.ll].netmon_pos = s.netmon_pos
      BY <1>1 DEF IsReader
    <3>2. /\ r.self.fmt = s.fmt /\ r.self.netmon_table = s.netmon_table
          /\ r.self.netmon_pos = s.netmon_pos
      BY <2>5, <2>6, <3>1 DEF Same
    <3>3. r.self.pos = p + l /\ l <= BufSize
      BY <1>1, <2>1, <2>5, <2>6
    <3> QED BY <1>10, <2>4, <2>5, <2>6, <3>2, <3>3
  <2>7. CASE ~(3 <= BufSize /\ s.pos + 2 <= Len(file))
    <3>1. ~Passes(j)
      BY <1>1, <1>3, <1>6, <2>1, <2>7
    <3> QED BY <1>11, <2>5, <2>7, <3>1
  <2> QED BY <2>6, <2>7
<1>13. CASE item.type # 1
  <2>1. l = (IF item.cap = 0 THEN 1 ELSE item.cap)
        /\ Cells(input, j)[1] = [is |-> "block", type |-> item.type, length |-> item.cap]
    <3>1. Cells(input, j) = ItemCells("pcapng", j, item)
      BY DEF Cells
    <3> HIDE DEF item
    <3>2. /\ Len(ItemCells("pcapng", j, item)) = IF item.cap = 0 THEN 1 ELSE item.cap
          /\ ItemCells("pcapng", j, item)[1] =
              [is |-> "block", type |-> item.type, length |-> item.cap]
      BY <1>5, <1>13, BlockCells
    <3> QED BY <3>1, <3>2 DEF l
  <2>2. file[s.pos + 1] = [is |-> "block", type |-> item.type, length |-> item.cap]
    BY <1>8, <2>1
  <2>3. LinkAt(j + 1) = LinkAt(j)
    BY <1>2, <1>13, LinkStep DEF j
  <2> HIDE DEF item
  <2>4. /\ item.cap <= BufSize =>
              r.again = TRUE /\ r.self.pos = s.pos + item.cap /\ r.self.buf = s.buf
        /\ ~(item.cap <= BufSize) => r.again = FALSE /\ r.self.len = 0
        /\ IsReader(r.self) /\ Same(s, r.self)
    <3>1. BlockTaken(s, r, item.cap)
      <4> DEFINE t == item.type
                 c == item.cap
      <4>1. t \notin PacketTypes /\ t # 1 /\ c \in Nat
            /\ file[s.pos + 1] = [is |-> "block", type |-> t, length |-> c]
        BY <1>5, <1>13, <2>2
      <4> HIDE DEF t, c
      <4>2. BlockTaken(s, r, c)
        BY <1>1, <1>3, <1>7, <4>1, BlockStep
      <4> QED BY <4>2 DEF c
    <3> HIDE DEF r
    <3> QED BY <3>1 DEF BlockTaken
  <2> HIDE DEF r
  <2>5. CASE item.cap = 0
    <3>1. r.again = TRUE /\ r.self.pos = p /\ r.self.buf = s.buf
      BY <1>1, <1>3, <2>4, <2>5
    <3>2. Frames(r.self, k)
      BY <1>1, <2>4 DEF Frames, Same
    <3>3. At(r.self, k)
      BY <1>1, <2>4, <3>1, <3>2 DEF At, Same, p, j
    <3> QED BY <3>1, <3>3 DEF Outcome
  <2>6. CASE item.cap # 0 /\ item.cap <= BufSize
    <3>1. r.self.pos = p + l /\ l <= BufSize /\ r.again = TRUE /\ r.self.buf = s.buf
      BY <1>1, <2>1, <2>4, <2>6
    <3>2. r.self.ll = LinkAt(j + 1)
      BY <1>1, <2>3, <2>4 DEF Same
    <3> QED BY <1>10, <2>4, <3>1, <3>2 DEF Same
  <2>7. CASE ~(item.cap <= BufSize)
    <3>1. ~Passes(j)
      BY <1>3, <1>5, <1>6, <2>1, <2>7
    <3> QED BY <1>11, <2>4, <2>7, <3>1
  <2> QED BY <2>5, <2>6, <2>7
<1> QED BY <1>12, <1>13

\* peak_load_packet(), wherever the reader is.
LEMMA LoadStep ==
  ASSUME IsInput(input), NEW k, NEW s, At(s, k)
  PROVE  Outcome(peak_load_packet(File(input), s), k)
<1>1. CASE input.fmt \in Plain /\ input.fmt # "netmon"
  BY <1>1, LoadPlain
<1>2. CASE input.fmt = "netmon"
  BY <1>2, LoadNetmon
<1>3. CASE input.fmt = "pcapng"
  <2>1. /\ Passed(k) /\ s.pos = Start(input, k + 1) /\ s.pos \in Nat
        /\ Len(File(input)) \in Nat /\ Total \in Nat /\ k \in 0 .. Total
    BY FileCells, RecordsAre DEF At, IsReader, Passed, Total
  <2>2. CASE s.pos >= Len(File(input))
    BY <1>3, <2>2, AtEndOfFile
  <2>3. CASE k = Total
    <3>1. s.pos >= Len(File(input))
      BY <1>3, <2>1, <2>3, BehindAll
    <3> QED BY <2>2, <3>1
  <2>4. CASE s.pos < Len(File(input)) /\ k < Total
    BY <1>3, <2>4, LoadPacketBlock, LoadOtherBlock
  <2>5. /\ s.pos >= Len(File(input)) \/ s.pos < Len(File(input))
        /\ k = Total \/ k < Total
    BY <2>1
  <2> QED BY <2>2, <2>3, <2>4, <2>5
<1> QED BY <1>1, <1>2, <1>3 DEF IsInput, Plain

LEMMA BeyondStep ==
  ASSUME IsInput(input), NEW k, NEW s, Beyond(s, k)
  PROVE  LET r == peak_load_packet(File(input), s) IN
         r.again = FALSE /\ r.self.len = 0 /\ Ended(k) /\ IsOpen(r.self)
<1> DEFINE file == File(input)
           r == peak_load_packet(file, s)
<1>1. /\ Ended(k) /\ IsReader(s) /\ s.fmt = "pcapng" /\ s.pos >= Len(file)
      /\ s.netmon_pos \in 0 .. Len(s.netmon_table)
  BY DEF Beyond, IsOpen
<1>2. IsSeq(file)
  BY FileCells
<1>3. r.again = FALSE /\ r.self = [s EXCEPT !.len = 0]
  <2> HIDE DEF file
  <2>1. "pcapng" \in Plain \cup {"pcapng"} /\ "pcapng" # "netmon"
    OBVIOUS
  <2> QED BY <1>1, <1>2, <2>1, EndStep
<1>4. IsReader(r.self) /\ Same(s, r.self) /\ r.self.len = 0
  BY <1>1, <1>3, NoPacketYet
<1>5. IsOpen(r.self)
  BY <1>1, <1>4 DEF IsOpen, Same
<1> QED BY <1>1, <1>3, <1>4, <1>5
-----------------------------------------------------------------------------
(***************************************************************************)
(* Opening a file.                                                         *)
(***************************************************************************)
\* A reader that was just allocated.
IsFresh(s, fmt, pos, ll, table) ==
  /\ IsReader(s) /\ s.fmt = fmt /\ s.pos = pos /\ s.ll = ll /\ s.len = 0
  /\ s.netmon_table = table /\ s.netmon_pos = 0
  /\ \A i \in 1 .. BufSize : s.buf[i] = Zero

LEMMA OpenedIs ==
  ASSUME NEW fmt, NEW pos \in Nat, NEW ll, NEW table
  PROVE  /\ Opened(fmt, pos, ll, table) # <<>>
         /\ Opened(fmt, pos, ll, table) = <<Opened(fmt, pos, ll, table)[1]>>
         /\ IsFresh(Opened(fmt, pos, ll, table)[1], fmt, pos, ll, table)
<1> DEFINE b == [i \in 1 .. BufSize |-> Zero]
           s == [fmt |-> fmt, pos |-> pos, ll |-> ll, len |-> 0, netmon_table |-> table,
                 netmon_pos |-> 0, buf |-> b]
<1>1. Opened(fmt, pos, ll, table) = <<s>>
  BY DEF Opened
<1>2. b = [i \in 1 .. BufSize |-> b[i]] /\ \A i \in 1 .. BufSize : b[i] = Zero
  OBVIOUS
<1> HIDE DEF b
<1>3. IsFresh(s, fmt, pos, ll, table)
  BY <1>2 DEF IsFresh, IsReader, IsBuffer
<1> HIDE DEF s
<1>4. <<s>> # <<>> /\ <<s>>[1] = s
  OBVIOUS
<1> QED BY <1>1, <1>3, <1>4

LEMMA FreshAt ==
  ASSUME IsInput(input), NEW s, NEW pos, NEW ll, NEW table,
         IsFresh(s, input.fmt, pos, ll, table), pos = HeaderSize(input), ll = LinkAt(1),
         IF input.fmt = "netmon" THEN table = Table(input) /\ input.cut = 0 ELSE table = <<>>
  PROVE  At(s, 0)
<1>1. Total \in Nat /\ BufSize \in Nat /\ BufSize >= 1
  BY RecordsAre, LoadAssumption DEF Total
<1>2. Passed(0)
  BY <1>1 DEF Passed
<1>3. s.pos = Start(input, 0 + 1) /\ s.ll = LinkAt(0 + 1)
  <2>1. 0 + 1 = 1
    OBVIOUS
  <2> QED BY <2>1, Starts DEF IsFresh
<1>4. Holds(s.buf, 0)
  <2>1. Seen(0) = 0
    BY SeenStep
  <2>2. s.buf[1].is # "byte"
    <3>1. s.buf[1] = Zero
      BY <1>1 DEF IsFresh
    <3> QED BY <3>1 DEF Zero
  <2> QED BY <2>1, <2>2 DEF Holds
<1>5. Frames(s, 0)
  BY DEF Frames, IsFresh
<1> QED BY <1>2, <1>3, <1>4, <1>5 DEF At, IsFresh

\* peak_load_init(): the reader is in front of the first item.
LEMMA OpenStep ==
  ASSUME IsInput(input), peak_load_init(File(input)) # <<>>
  PROVE  /\ peak_load_init(File(input)) = <<peak_load_init(File(input))[1]>>
         /\ At(peak_load_init(File(input))[1], 0)
<1> DEFINE file == File(input)
           t == peak_load_init(file)
           hdr == file[1]
           H == HeaderSize(input)
<1>0. t # <<>>
  OBVIOUS
<1>1. /\ IsSeq(file) /\ Len(file) \in Nat /\ Len(file) >= H /\ input.cut \in Nat
      /\ \A i \in 1 .. H : file[i] = FileHeader(input)[i]
  BY FileCells
<1>2. file # <<>> /\ Len(file) > 0
  <2>1. file # <<>>
    BY DEF peak_load_init
  <2>2. Len(file) # 0
    <3> HIDE DEF file
    <3>1. file \in Seq(Range(file))
      BY <1>1 DEF IsSeq
    <3> QED BY <2>1, <3>1
  <2> QED BY <1>1, <2>1, <2>2
<1>3. 0 \in Nat /\ 1 \in Nat /\ 2 \in Nat /\ 1 \in 1 .. 1 /\ 1 \in 1 .. 2
  OBVIOUS
<1>4. CASE input.fmt = "erf"
  <2>1. H = 0 /\ Total \in Nat /\ input.items \in Seq(Range(input.items))
    BY <1>4, RecordsAre DEF HeaderSize, Total, IsInput
  <2>2. Total >= 1
    <3>1. Len(file) = (Start(input, Total + 1) - input.cut) + 0
      BY <1>4, FileCells DEF Total
    <3>2. Start(input, 1) = 0
      BY <2>1, Starts
    <3> HIDE DEF file
    <3>3. Total # 0
      <4>1. SUFFICES ASSUME Total = 0 PROVE FALSE
        OBVIOUS
      <4>2. Len(file) = (0 - input.cut) + 0
        BY <3>1, <3>2, <4>1
      <4> QED BY <1>1, <1>2, <4>2
    <3> QED BY <2>1, <3>3
  <2>3. Start(input, 1) = 0
    BY <2>1, Starts
  <2>4. 1 \in 1 .. Total /\ input.items[1].cap \in Nat
    <3>1. 1 \in 1 .. Total
      BY <2>1, <2>2
    <3> QED BY <3>1, RecordsAre DEF Total, IsItem
  <2>5. Len(Cells(input, 1)) = input.items[1].cap + 1 /\ Cells(input, 1)[1] = RecordOf("erf", input.items[1])
    <3>1. "erf" \in Plain
      BY DEF Plain
    <3> QED BY <1>4, <2>4, <3>1, PlainCells DEF Cells
  <2>6. 1 \in 1 .. Len(Cells(input, 1)) /\ Start(input, 1) + 1 <= Len(file) /\ Start(input, 1) + 1 = 1
    BY <1>1, <1>2, <2>3, <2>4, <2>5
  <2>7. hdr = RecordOf("erf", input.items[1])
    BY <2>4, <2>5, <2>6, FileCells DEF Total
  <2>8. hdr.is = "record"
    BY <2>7 DEF RecordOf
  <2> HIDE DEF file
  <2>9. t = Opened("erf", 0, LINKTYPE_ETHERNET, <<>>)
    BY <1>2, <2>8 DEF peak_load_init
  <2>10. t = <<t[1]>> /\ IsFresh(t[1], "erf", 0, LINKTYPE_ETHERNET, <<>>)
    BY <1>3, <2>9, OpenedIs
  <2>11. LinkAt(1) = LINKTYPE_ETHERNET
    BY <1>4 DEF LinkAt
  <2> HIDE DEF t
  <2>12. At(t[1], 0)
    BY <1>4, <2>1, <2>10, <2>11, FreshAt
  <2> QED BY <2>10, <2>12 DEF t, file
<1>5. CASE input.fmt = "pcap"
  <2>1. H = 1 /\ FileHeader(input) = <<[is |-> "pcap", network |-> input.ll]>>
    BY <1>5 DEF HeaderSize, FileHeader
  <2>2. hdr = [is |-> "pcap", network |-> input.ll]
    BY <1>1, <1>3, <2>1
  <2> HIDE DEF file
  <2>3. t = Opened("pcap", 1, input.ll, <<>>)
    BY <1>2, <2>2 DEF peak_load_init
  <2>4. t = <<t[1]>> /\ IsFresh(t[1], "pcap", 1, input.ll, <<>>)
    BY <1>3, <2>3, OpenedIs
  <2>5. LinkAt(1) = input.ll
    BY <1>5 DEF LinkAt
  <2> HIDE DEF t
  <2>6. At(t[1], 0)
    BY <1>5, <2>1, <2>4, <2>5, FreshAt
  <2> QED BY <2>4, <2>6 DEF t, file
<1>6. CASE input.fmt = "pcap_swap"
  <2> DEFINE w == bswap32(input.ll)
  <2>0. bswap32(w) = input.ll
    BY SwapTwice DEF IsInput
  <2>1. H = 1 /\ FileHeader(input) = <<[is |-> "pcap_swap", network |-> w]>>
    BY <1>6 DEF HeaderSize, FileHeader
  <2> HIDE DEF w
  <2>2. hdr = [is |-> "pcap_swap", network |-> w]
    BY <1>1, <1>3, <2>1
  <2> HIDE DEF file
  <2>3. t = Opened("pcap_swap", 1, bswap32(w), <<>>)
    BY <1>2, <2>2 DEF peak_load_init
  <2>4. t = <<t[1]>> /\ IsFresh(t[1], "pcap_swap", 1, input.ll, <<>>)
    BY <1>3, <2>0, <2>3, OpenedIs
  <2>5. LinkAt(1) = input.ll
    BY <1>6 DEF LinkAt
  <2> HIDE DEF t
  <2>6. At(t[1], 0)
    BY <1>6, <2>1, <2>4, <2>5, FreshAt
  <2> QED BY <2>4, <2>6 DEF t, file
<1>7. CASE input.fmt = "netmon"
  <2> DEFINE o == Before(input, 1, Len(input.items) + 1)
             x == [is |-> "netmon", version |-> input.version, network |-> input.ll,
                   frame_table_offset |-> o, frame_table_length |-> Len(input.items)]
             table == Read(file, o, Total)
  <2>1. H = 1 /\ FileHeader(input) = <<x>>
    BY <1>7 DEF HeaderSize, FileHeader
  <2>2. hdr = x
    BY <1>1, <1>3, <2>1
  <2>3. hdr.is = "netmon" /\ hdr.frame_table_offset = o /\ hdr.frame_table_length = Total
    <3> HIDE DEF file, o
    <3> QED BY <2>2 DEF Total
  <2>4. o = Start(input, Total + 1) /\ o \in Nat /\ Total \in Nat
    <3>1. Len(FileHeader(input)) = 1 /\ Total \in Nat
      BY <2>1, HeaderIs, RecordsAre DEF Total
    <3>2. Total + 1 \in 1 .. Total + 1
      BY <3>1
    <3>3. Start(input, Total + 1) \in Nat
      BY <3>2, Starts DEF Total
    <3>4. o = Start(input, Total + 1)
      BY <3>1 DEF Start, Total
    <3> QED BY <3>1, <3>3, <3>4
  <2>5. Len(file) = (o - input.cut) + Total
    BY <1>7, <2>4, FileCells DEF Total
  <2>6. \A n \in 1 .. Total : o + n <= Len(file) => file[o + n] = Table(input)[n]
    BY <1>7, <2>4, FileCells DEF Total
  <2> HIDE DEF file, o, x
  <2>7. Len(table) = Total /\ t = Opened("netmon", 1, LINKTYPE_ETHERNET, table)
    BY <1>0, <1>2, <2>3 DEF peak_load_init
  <2>8. IsRead(file, o, Total, table)
    BY <1>1, <2>4, ReadIs
  <2> HIDE DEF table
  <2>9. input.cut = 0
    <3>1. Total = IF o >= Len(file) THEN 0 ELSE IF o + Total <= Len(file) THEN Total ELSE Len(file) - o
      BY <2>7, <2>8 DEF IsRead
    <3>2. CASE Total = 0
      <4>1. Start(input, Total + 1) = H + Len(FlattenSeq(Records(input))) /\ Start(input, 1) = H
        BY Starts DEF Total
      <4>2. H + Len(FlattenSeq(Records(input))) = H
        BY <3>2, <4>1
      <4>3. input.cut \in 0 .. Len(FlattenSeq(Records(input)))
        BY DEF IsInput
      <4> DEFINE f == Len(FlattenSeq(Records(input)))
      <4> HIDE DEF f
      <4>4. input.cut \in 0 .. f /\ 1 + f = 1
        BY <2>1, <4>2, <4>3 DEF f
      <4>5. f \in Int \/ 0 .. f = {}
        <5>1. f \in Nat
          BY FlatStep, RecordsAre, SeqFacts DEF f
        <5> QED BY <5>1
      <4> QED BY <1>1, <4>4, <4>5
    <3>3. CASE Total # 0
      BY <1>1, <2>4, <2>5, <3>1, <3>3
    <3> QED BY <3>2, <3>3
  <2>10. table = Table(input)
    <3>1. \A n \in 1 .. Total : table[n] = Table(input)[n]
      <4>1. TAKE n \in 1 .. Total
      <4>2. o + n <= Len(file)
        BY <2>4, <2>5, <2>9
      <4> QED BY <2>6, <2>7, <2>8, <4>2 DEF IsRead
    <3>2. /\ IsSeq(table) /\ IsSeq(Table(input)) /\ Len(Table(input)) = Total
      BY <1>7, <2>8, TableIs DEF IsRead
    <3> DEFINE u == Table(input)
    <3> HIDE DEF u
    <3>3. table \in Seq(Range(table)) /\ u \in Seq(Range(u)) /\ Len(table) = Len(u)
      BY <2>7, <3>2 DEF IsSeq, u
    <3>4. \A n \in 1 .. Len(u) : table[n] = u[n]
      BY <3>1, <3>2 DEF u
    <3>5. table \in Seq(Range(table) \cup Range(u)) /\ u \in Seq(Range(table) \cup Range(u))
      BY <3>3, SeqFacts DEF IsSeq
    <3>6. table = u
      BY <3>3, <3>4, <3>5
    <3> QED BY <3>6 DEF u
  <2>11. t = <<t[1]>> /\ IsFresh(t[1], "netmon", 1, LINKTYPE_ETHERNET, table)
    BY <1>3, <2>7, OpenedIs
  <2>12. LinkAt(1) = LINKTYPE_ETHERNET
    BY <1>7 DEF LinkAt
  <2> HIDE DEF t
  <2>13. At(t[1], 0)
    BY <1>7, <2>1, <2>9, <2>10, <2>11, <2>12, FreshAt
  <2> QED BY <2>11, <2>13 DEF t, file
<1>8. CASE input.fmt = "pcapng"
  <2> DEFINE x == [is |-> "pcapng", length |-> 2]
             s == <<x>>
  <2>1. H = 2 /\ FileHeader(input) = Join(s, Trailer)
    BY <1>8 DEF HeaderSize, FileHeader, Join
  <2>2. IsSeq(s) /\ Len(s) = 1 /\ s[1] = x /\ IsSeq(Trailer) /\ Len(Trailer) = 1
    BY TupleIsSeq DEF Trailer
  <2> HIDE DEF s, x
  <2>3. IsJoin(Join(s, Trailer), s, Trailer, 1, 1)
    BY <2>2, JoinAt
  <2>4. Join(s, Trailer)[1] = x
    BY <1>3, <2>2, <2>3 DEF IsJoin
  <2>5. hdr = x
    BY <1>1, <1>3, <2>1, <2>4
  <2> HIDE DEF file
  <2>6. t = Opened("pcapng", 2, 0, <<>>)
    BY <1>2, <2>5 DEF peak_load_init, x
  <2>7. t = <<t[1]>> /\ IsFresh(t[1], "pcapng", 2, 0, <<>>)
    BY <1>3, <2>6, OpenedIs
  <2>8. LinkAt(1) = 0
    BY <1>3, <1>8, LinkStep
  <2> HIDE DEF t
  <2>9. At(t[1], 0)
    BY <1>8, <2>1, <2>7, <2>8, FreshAt
  <2> QED BY <2>7, <2>9 DEF t, file
<1> QED BY <1>4, <1>5, <1>6, <1>7, <1>8 DEF IsInput
-----------------------------------------------------------------------------
(***************************************************************************)
(* What was stored.                                                        *)
(***************************************************************************)
Increases(at) == \A i, j \in DOMAIN at : i < j => at[i] < at[j]

DueUpTo(k) == {n \in Due : n <= k}

\* st has what is to be stored of the first k items, at says for which.
Matches(st, at, k) ==
  /\ at \in [1 .. Len(st) -> DueUpTo(k)] /\ Increases(at)
  /\ \A n \in DueUpTo(k) : \E i \in 1 .. Len(st) : at[i] = n
  /\ \A i \in 1 .. Len(st) : st[i].item = Seen(at[i]) /\ st[i].len = Reported(at[i])

\* The packet of item k + 1 is in the buffer.
Taken(s, k) ==
  /\ k \in Nat /\ k < Total /\ IsPacket(k + 1)
  /\ At(s, k + 1) /\ s.len = Reported(k + 1) /\ s.len > 0

\* All of this depends on the input alone.
LEMMA InputKept ==
  ASSUME input' = input
  PROVE  /\ \A s, k : (At(s, k)' <=> At(s, k)) /\ (Beyond(s, k)' <=> Beyond(s, k))
                      /\ (Taken(s, k)' <=> Taken(s, k))
         /\ \A k : Ended(k)' <=> Ended(k)
         /\ \A st, at, k : Matches(st, at, k)' <=> Matches(st, at, k)
<1>1. \A n : (IsPacket(n)' <=> IsPacket(n)) /\ Reported(n)' = Reported(n) /\ LinkAt(n)' = LinkAt(n)
  BY DEF IsPacket, Reported, LinkAt
<1>2. Total' = Total
  BY DEF Total
<1>3. \A n : Passes(n)' <=> Passes(n)
  BY <1>1 DEF Passes
<1>4. \A n : Fills(n)' <=> Fills(n)
  BY <1>1 DEF Fills
<1>5. \A n : Seen(n)' = Seen(n)
  BY <1>4 DEF Seen
<1>6. \A k : Passed(k)' <=> Passed(k)
  BY <1>2, <1>3 DEF Passed
<1>7. \A k : Ended(k)' <=> Ended(k)
  BY <1>2, <1>3, <1>6 DEF Ended
<1>8. \A b, k : Holds(b, k)' <=> Holds(b, k)
  BY <1>5 DEF Holds, HasItem
<1>9. \A s, k : At(s, k)' <=> At(s, k)
  <2>1. \A s, k : Frames(s, k)' <=> Frames(s, k)
    BY DEF Frames
  <2> QED BY <1>1, <1>6, <1>8, <2>1 DEF At
<1>10. \A s, k : Beyond(s, k)' <=> Beyond(s, k)
  BY <1>7 DEF Beyond
<1>11. \A s, k : Taken(s, k)' <=> Taken(s, k)
  BY <1>1, <1>2, <1>9 DEF Taken
<1>12. Due' = Due
  BY <1>1, <1>3, <1>5 DEF Due
<1>13. \A st, at, k : Matches(st, at, k)' <=> Matches(st, at, k)
  BY <1>1, <1>5, <1>12 DEF Matches, DueUpTo
<1> QED BY <1>7, <1>9, <1>10, <1>11, <1>13

LEMMA DueIs ==
  ASSUME IsInput(input)
  PROVE  Total \in Nat /\ Due \subseteq 1 .. Total /\ \A n \in Due : n \in Nat \ {0}
<1>1. Total \in Nat /\ DOMAIN input.items = 1 .. Total
  BY RecordsAre DEF Total
<1>2. Due \subseteq 1 .. Total
  BY <1>1 DEF Due
<1> QED BY <1>1, <1>2

LEMMA MatchesFirst ==
  ASSUME IsInput(input)
  PROVE  Matches(<<>>, <<>>, 0)
<1>1. DueUpTo(0) = {}
  BY DueIs DEF DueUpTo
<1>2. Len(<<>>) = 0 /\ 1 .. 0 = {} /\ DOMAIN <<>> = {} /\ <<>> = [i \in {} |-> 0]
  OBVIOUS
<1>3. <<>> \in [1 .. 0 -> {}]
  BY <1>2
<1> QED BY <1>1, <1>2, <1>3 DEF Matches, Increases

LEMMA MatchesSame ==
  ASSUME IsInput(input), NEW k \in Nat, NEW st, NEW at, Matches(st, at, k), k + 1 \notin Due
  PROVE  Matches(st, at, k + 1)
<1>1. DueUpTo(k + 1) = DueUpTo(k)
  <2>1. \A n \in Due : n <= k + 1 <=> n <= k
    <3>1. TAKE n \in Due
    <3>2. n \in Nat /\ n # k + 1
      BY DueIs
    <3> QED BY <3>2
  <2> QED BY <2>1 DEF DueUpTo
<1> QED BY <1>1 DEF Matches

LEMMA MatchesMore ==
  ASSUME IsInput(input), NEW k \in Nat, NEW st, IsSeq(st), NEW at, Matches(st, at, k),
         k + 1 \in Due, NEW new, IsSeq(new), Len(new) = Len(st) + 1,
         \A i \in 1 .. Len(st) : new[i] = st[i],
         new[Len(st) + 1].item = Seen(k + 1), new[Len(st) + 1].len = Reported(k + 1)
  PROVE  \E w : Matches(new, w, k + 1)
<1> DEFINE L == Len(st)
           w == [i \in 1 .. L + 1 |-> IF i <= L THEN at[i] ELSE k + 1]
<1>1. L \in Nat
  BY SeqFacts
<1>2. \A n : n \in DueUpTo(k + 1) <=> n \in DueUpTo(k) \/ n = k + 1
  <2>1. \A n \in Due : n <= k + 1 <=> (n <= k \/ n = k + 1)
    <3>1. TAKE n \in Due
    <3>2. n \in Nat
      BY DueIs
    <3> QED BY <3>2
  <2> QED BY <2>1 DEF DueUpTo
<1>3. /\ at \in [1 .. L -> DueUpTo(k)] /\ Increases(at)
      /\ \A n \in DueUpTo(k) : \E i \in 1 .. L : at[i] = n
      /\ \A i \in 1 .. L : st[i].item = Seen(at[i]) /\ st[i].len = Reported(at[i])
  BY DEF Matches
<1> HIDE DEF L
<1>4. /\ \A i \in 1 .. L : i \in 1 .. L + 1 /\ w[i] = at[i]
      /\ L + 1 \in 1 .. L + 1 /\ w[L + 1] = k + 1
      /\ \A i \in 1 .. L + 1 : i \in 1 .. L \/ i = L + 1
  BY <1>1
<1>5. w \in [1 .. L + 1 -> DueUpTo(k + 1)]
  BY <1>2, <1>3, <1>4
<1>6. Increases(w)
  <2>1. SUFFICES ASSUME NEW i \in 1 .. L + 1, NEW j \in 1 .. L + 1, i < j PROVE w[i] < w[j]
    BY <1>5 DEF Increases
  <2>2. i \in 1 .. L
    BY <1>1, <2>1
  <2>3. CASE j \in 1 .. L
    BY <1>3, <1>4, <2>1, <2>2, <2>3 DEF Increases
  <2>4. CASE j = L + 1
    <3>1. at[i] \in DueUpTo(k)
      BY <1>3, <2>2
    <3>2. at[i] \in Nat /\ at[i] <= k
      BY <3>1, DueIs DEF DueUpTo
    <3> QED BY <1>4, <2>2, <2>4, <3>2
  <2> QED BY <1>4, <2>3, <2>4
<1>7. ASSUME NEW n \in DueUpTo(k + 1) PROVE \E i \in 1 .. L + 1 : w[i] = n
  <2> HIDE DEF w
  <2>1. CASE n \in DueUpTo(k)
    BY <1>3, <1>4, <2>1
  <2>2. CASE n = k + 1
    BY <1>4, <2>2
  <2> QED BY <1>2, <2>1, <2>2
<1>8. ASSUME NEW i \in 1 .. L + 1 PROVE new[i].item = Seen(w[i]) /\ new[i].len = Reported(w[i])
  <2> HIDE DEF w
  <2>1. CASE i \in 1 .. L
    <3>1. new[i] = st[i] /\ w[i] = at[i]
      BY <1>4, <2>1 DEF L
    <3> QED BY <1>3, <2>1, <3>1
  <2>2. CASE i = L + 1
    BY <1>4, <2>2 DEF L
  <2> QED BY <1>4, <2>1, <2>2
<1> HIDE DEF w
<1>9. Matches(new, w, k + 1)
  BY <1>5, <1>6, <1>7, <1>8 DEF Matches, L
<1> QED BY <1>9

\* A sequence that increases and has all of a set is the set in order.
LEMMA InOrderIs ==
  ASSUME NEW S, NEW n \in Nat, NEW f \in [1 .. n -> S], S \subseteq Int,
         Increases(f), \A x \in S : \E i \in 1 .. n : f[i] = x
  PROVE  f \in InOrder(S) /\ Cardinality(S) = n
<1>1. IsInjective(f)
  <2>1. SUFFICES ASSUME NEW a \in 1 .. n, NEW b \in 1 .. n, f[a] = f[b] PROVE a = b
    BY DEF IsInjective
  <2>2. f[a] \in Int /\ f[b] \in Int
    <3>1. f[a] \in S /\ f[b] \in S
      OBVIOUS
    <3> QED BY <3>1
  <2>3. (a < b => f[a] < f[b]) /\ (b < a => f[b] < f[a])
    BY DEF Increases
  <2> QED BY <2>1, <2>2, <2>3
<1>2. f \in Bijection(1 .. n, S)
  BY <1>1 DEF Bijection, Injection, Surjection
<1>3. ExistsBijection(1 .. n, S)
  BY <1>2 DEF ExistsBijection
<1>4. Cardinality(S) = n
  BY <1>3, FS_CountingElements
<1> QED BY <1>4 DEF InOrder, Increases

LEMMA EndedAll ==
  ASSUME IsInput(input), NEW k, Ended(k)
  PROVE  DueUpTo(k) = Due
<1>1. k \in 0 .. Total /\ Total \in Nat /\ (k < Total => ~Passes(k + 1))
  BY DueIs DEF Ended, Passed
<1>2. ASSUME NEW n \in Due PROVE n <= k
  <2>1. SUFFICES ASSUME n > k PROVE FALSE
    BY <1>1, DueIs
  <2>2. k + 1 \in 1 .. n /\ k < Total
    BY <1>1, <2>1, DueIs
  <2>3. Passes(k + 1)
    BY <2>2 DEF Due
  <2> QED BY <1>1, <2>2, <2>3
<1> QED BY <1>2 DEF DueUpTo

\* What the parser finds in the buffer.
LEMMA TakenParses ==
  ASSUME IsInput(input), NEW s, NEW k, Taken(s, k), trace = <<s>>
  PROVE  /\ k + 1 \in 1 .. Total /\ (Parses <=> k + 1 \in Due)
         /\ Parses => /\ s.buf[1].item = Seen(k + 1) /\ Seen(k + 1) \in 1 .. Total
                      /\ HasItem(s.buf, Seen(k + 1))
<1> DEFINE j == Seen(k + 1)
<1>1. /\ k \in Nat /\ k < Total /\ IsPacket(k + 1) /\ Passed(k + 1) /\ Holds(s.buf, k + 1)
      /\ s.ll = LinkAt((k + 1) + 1) /\ s.len = Reported(k + 1)
  BY DEF Taken, At
<1>2. Total \in Nat /\ DOMAIN input.items = 1 .. Total
  BY RecordsAre DEF Total
<1>3. k + 1 \in 1 .. Total
  BY <1>1, <1>2
<1>4. s.ll = LinkAt(k + 1)
  <2>1. input.fmt # "pcapng" \/ input.items[k + 1].type # 1
    BY <1>1 DEF IsPacket, PacketTypes
  <2> QED BY <1>1, <2>1, LinkStep
<1>5. \A m \in 1 .. k + 1 : Passes(m)
  BY <1>1 DEF Passed
<1>6. k + 1 \in Due <=> /\ j > 0 /\ input.items[j].ip /\ input.items[j].ll = LinkAt(k + 1)
                       /\ input.items[j].hdr <= Reported(k + 1)
  BY <1>1, <1>2, <1>3, <1>5 DEF Due
<1>7. trace[1] = s
  OBVIOUS
<1>8. Parses <=> /\ s.buf[1].is = "byte" /\ input.items[s.buf[1].item].ip
                 /\ input.items[s.buf[1].item].ll = LinkAt(k + 1)
                 /\ input.items[s.buf[1].item].hdr <= Reported(k + 1)
  BY <1>1, <1>4, <1>7 DEF Parses
<1>9. j \in 0 .. k + 1 /\ (j = 0 => s.buf[1].is # "byte") /\ (j # 0 => HasItem(s.buf, j))
  BY <1>1 DEF Holds
<1> HIDE DEF j
<1>10. CASE j = 0
  <2>1. k + 1 \notin Due /\ ~Parses
    BY <1>6, <1>8, <1>9, <1>10
  <2> QED BY <1>3, <2>1
<1>11. CASE j # 0
  <2>1. j \in 1 .. Total /\ j > 0
    BY <1>1, <1>2, <1>3, <1>9, <1>11
  <2>2. IsItem(input.items[j]) /\ HasItem(s.buf, j)
    BY <1>9, <1>11, <2>1, RecordsAre DEF Total
  <2>3. input.items[j].cap \in Nat /\ (input.items[j].ip => input.items[j].cap > 0)
    BY <2>2 DEF IsItem
  <2>4. CASE input.items[j].cap = 0
    <3>1. s.buf[1].is # "byte"
      BY <2>2, <2>4 DEF HasItem
    <3>2. k + 1 \notin Due /\ ~Parses
      BY <1>6, <1>8, <2>3, <2>4, <3>1
    <3> QED BY <1>3, <3>2
  <2>5. CASE input.items[j].cap # 0
    <3>1. 1 \in 1 .. input.items[j].cap
      BY <2>3, <2>5
    <3>2. s.buf[1] = Byte(j, 1)
      BY <2>2, <3>1 DEF HasItem
    <3>3. s.buf[1].is = "byte" /\ s.buf[1].item = j
      BY <3>2 DEF Byte
    <3>4. Parses <=> k + 1 \in Due
      BY <1>6, <1>8, <2>1, <3>3
    <3> QED BY <1>3, <2>1, <2>2, <3>3, <3>4 DEF j
  <2> QED BY <2>4, <2>5
<1> QED BY <1>10, <1>11
-----------------------------------------------------------------------------
(***************************************************************************)
(* The flows, and the files of what was stored.                            *)
(***************************************************************************)
\* No flow is there twice.
Distinct(ks) == \A i, j \in 1 .. Len(ks) : ks[i] = ks[j] => i = j

\* What was stored of a flow is in the file of its place among the keys.
Tracked(ks, st) ==
  /\ IsSeq(ks) /\ Len(ks) <= flow_count /\ Distinct(ks) /\ IsSeq(st)
  /\ \A n \in 1 .. Len(st) :
       /\ st[n].item \in 1 .. Total /\ st[n].len > 0
       /\ \E i \in 1 .. Len(ks) :
            /\ ks[i] = TRACK_KEY(input.items[st[n].item].packet)
            /\ st[n].file = FileOf(i - 1)

LEMMA FilesAre ==
  /\ FileCount \in Nat \ {0}
  /\ \A i \in Nat : FileOf(i) \in Files
<1>1. file_count \in Nat \ {0} /\ flow_count \in Nat \ {0}
  BY FlowsplitAssumption
<1>2. FileCount \in Nat \ {0}
  <2>1. file_count \in Int /\ flow_count \in Int
    BY <1>1
  <2>2. FileCount = IF file_count <= flow_count THEN file_count ELSE flow_count
    BY <2>1, MaxOfTwo DEF FileCount
  <2> QED BY <1>1, <2>2
<1>3. ASSUME NEW i \in Nat PROVE FileOf(i) \in Files
  <2> DEFINE c == FileCount
  <2>1. c \in Nat \ {0}
    BY <1>2
  <2> HIDE DEF c
  <2>2. i % c \in 0 .. c - 1
    BY <2>1
  <2> QED BY <2>2 DEF FileOf, Files, c
<1> QED BY <1>2, <1>3

\* The place of a key in a sequence that has no key twice.
PlaceOf(ks, key) == SelectInSeq(ks, LAMBDA k : k = key)

LEMMA PlaceIs ==
  ASSUME NEW ks, IsSeq(ks), Distinct(ks),
         NEW n \in 1 .. Len(ks), NEW key, ks[n] = key
  PROVE  PlaceOf(ks, key) = n
<1> DEFINE I == {i \in 1 .. Len(ks) : ks[i] = key}
<1>1. Len(ks) \in Nat
  BY SeqFacts
<1>2. I = {n}
  BY DEF Distinct
<1>3. Min({n, n}) = n /\ {n, n} = {n}
  <2>1. n \in Int
    BY <1>1
  <2> QED BY <2>1, MaxOfTwo
<1>4. PlaceOf(ks, key) = IF I # {} THEN Min(I) ELSE 0
  BY DEF PlaceOf, SelectInSeq
<1> QED BY <1>2, <1>3, <1>4

\* The flows a, with one more or not, which is now there.
HasAcquired(a, key) ==
  /\ IsSeq(a) /\ Len(a) <= flow_count /\ Len(keys) <= Len(a) /\ Distinct(a)
  /\ \A i \in 1 .. Len(keys) : a[i] = keys[i]
  /\ \E i \in 1 .. Len(a) : a[i] = key

\* peak_track_acquire() keeps the places of the flows there are.
LEMMA AcquiredIs ==
  ASSUME NEW key, Tracks(key), IsSeq(keys), Len(keys) <= flow_count, Distinct(keys)
  PROVE  HasAcquired(Acquired(key), key)
<1> DEFINE L == Len(keys)
           a == Acquired(key)
<1>1. L \in Nat /\ keys \in Seq(Range(keys)) /\ flow_count \in Nat
  BY SeqFacts, FlowsplitAssumption DEF IsSeq
<1>2. Contains(keys, key) <=> \E i \in 1 .. L : keys[i] = key
  BY DEF Contains
<1>3. CASE Contains(keys, key)
  <2>1. a = keys
    BY <1>3 DEF Acquired
  <2> QED BY <1>1, <1>2, <1>3, <2>1 DEF HasAcquired
<1>4. CASE ~Contains(keys, key)
  <2>1. L < flow_count
    BY <1>4 DEF Tracks
  <2>2. a = Append(keys, key)
    BY <1>4 DEF Acquired
  <2> DEFINE T == Range(keys) \cup {key}
  <2>3. keys \in Seq(T) /\ key \in T
    BY <1>1, SeqFacts
  <2> HIDE DEF T, a, L
  <2>4. a \in Seq(T) /\ Len(a) = L + 1 /\ a[L + 1] = key /\ \A i \in 1 .. L : a[i] = keys[i]
    BY <2>2, <2>3 DEF L
  <2>5. IsSeq(a)
    BY <2>4, TypedIsSeq
  <2>6. ASSUME NEW i \in 1 .. L + 1, NEW j \in 1 .. L + 1, a[i] = a[j] PROVE i = j
    <3>1. (i \in 1 .. L \/ i = L + 1) /\ (j \in 1 .. L \/ j = L + 1)
      BY <1>1
    <3>2. \A x \in 1 .. L : a[x] # key
      BY <1>2, <1>4, <2>4
    <3> QED BY <2>4, <2>6, <3>1, <3>2 DEF L, Distinct
  <2>7. L + 1 <= flow_count /\ L <= L + 1 /\ L + 1 \in 1 .. L + 1
    BY <1>1, <2>1
  <2> QED BY <2>4, <2>5, <2>6, <2>7 DEF a, L, HasAcquired, Distinct
<1> QED BY <1>3, <1>4

LEMMA AppendIs ==
  ASSUME NEW st, IsSeq(st), NEW e
  PROVE  /\ IsSeq(Append(st, e)) /\ Len(Append(st, e)) = Len(st) + 1
         /\ \A i \in 1 .. Len(st) : Append(st, e)[i] = st[i]
         /\ Append(st, e)[Len(st) + 1] = e
<1> DEFINE T == Range(st) \cup {e}
<1>1. st \in Seq(T) /\ e \in T
  BY SeqFacts
<1> HIDE DEF T
<1>2. /\ Append(st, e) \in Seq(T) /\ Len(Append(st, e)) = Len(st) + 1
      /\ Append(st, e)[Len(st) + 1] = e
      /\ \A i \in 1 .. Len(st) : Append(st, e)[i] = st[i]
  BY <1>1
<1> QED BY <1>2, TypedIsSeq

LEMMA TrackedMore ==
  ASSUME Tracked(keys, stored), NEW x \in 1 .. Total, NEW key,
         key = TRACK_KEY(input.items[x].packet), Tracks(key),
         NEW new, IsSeq(new), Len(new) = Len(stored) + 1,
         \A i \in 1 .. Len(stored) : new[i] = stored[i],
         new[Len(stored) + 1].item = x, new[Len(stored) + 1].len > 0,
         new[Len(stored) + 1].file = FileOf(PlaceOf(Acquired(key), key) - 1)
  PROVE  Tracked(Acquired(key), new)
<1> DEFINE a == Acquired(key)
           L == Len(stored)
<1>1. /\ IsSeq(keys) /\ Len(keys) <= flow_count /\ IsSeq(stored) /\ L \in Nat
      /\ Distinct(keys)
  BY SeqFacts DEF Tracked
<1>2. /\ IsSeq(a) /\ Len(a) <= flow_count /\ Len(keys) <= Len(a) /\ Distinct(a)
      /\ \A i \in 1 .. Len(keys) : a[i] = keys[i]
      /\ \E i \in 1 .. Len(a) : a[i] = key
  <2>1. HasAcquired(a, key)
    BY <1>1, AcquiredIs
  <2> QED BY <2>1 DEF HasAcquired
<1>3. PICK p \in 1 .. Len(a) : a[p] = key
  BY <1>2
<1>4. new[L + 1].file = FileOf(p - 1)
  <2> HIDE DEF a
  <2>1. PlaceOf(a, key) = p
    BY <1>2, <1>3, PlaceIs
  <2> QED BY <2>1 DEF a
<1> HIDE DEF a
<1>5. Len(a) \in Nat /\ Len(keys) \in Nat
  BY <1>1, <1>2, SeqFacts
<1>6. ASSUME NEW n \in 1 .. L + 1
      PROVE  /\ new[n].item \in 1 .. Total /\ new[n].len > 0
             /\ \E i \in 1 .. Len(a) : /\ a[i] = TRACK_KEY(input.items[new[n].item].packet)
                                       /\ new[n].file = FileOf(i - 1)
  <2>1. CASE n \in 1 .. L
    <3>1. new[n] = stored[n] /\ stored[n].item \in 1 .. Total /\ stored[n].len > 0
      BY <2>1 DEF Tracked
    <3>2. PICK i \in 1 .. Len(keys) : /\ keys[i] = TRACK_KEY(input.items[stored[n].item].packet)
                                      /\ stored[n].file = FileOf(i - 1)
      BY <2>1 DEF Tracked
    <3>3. i \in 1 .. Len(a) /\ a[i] = keys[i]
      BY <1>2, <1>5
    <3> QED BY <3>1, <3>2, <3>3
  <2>2. CASE n = L + 1
    BY <1>3, <1>4, <2>2
  <2>3. n \in 1 .. L \/ n = L + 1
    BY <1>1
  <2> QED BY <2>1, <2>2, <2>3
<1>7. Tracked(a, new)
  BY <1>2, <1>6 DEF Tracked
<1> QED BY <1>7 DEF a

\* Both directions of a conversation have the same key.
LEMMA OneKey ==
  ASSUME NEW p, NEW q, p.net_saddr \in Nat, p.net_daddr \in Nat, q.net_saddr \in Nat,
         q.net_daddr \in Nat, Ends(p) = Ends(q), p.net_type = q.net_type,
         p.net_saddr # p.net_daddr
  PROVE  TRACK_KEY(p) = TRACK_KEY(q)
<1> DEFINE a == p.net_saddr
           b == p.net_daddr
           x == p.flow_sport
           y == p.flow_dport
           c == q.net_saddr
           d == q.net_daddr
           u == q.flow_sport
           v == q.flow_dport
<1>1. {<<a, x>>, <<b, y>>} = {<<c, u>>, <<d, v>>}
  BY DEF Ends
<1> HIDE DEF a, b, x, y, c, d, u, v
<1>2. a \in Nat /\ b \in Nat /\ c \in Nat /\ d \in Nat /\ a # b
  BY DEF a, b, c, d
<1>3. <<a, x>> \in {<<c, u>>, <<d, v>>} /\ <<b, y>> \in {<<c, u>>, <<d, v>>}
  BY <1>1
<1>4. \/ a = c /\ x = u /\ b = d /\ y = v
      \/ a = d /\ x = v /\ b = c /\ y = u
  BY <1>2, <1>3
<1>5. CASE a = c /\ x = u /\ b = d /\ y = v
  BY <1>5 DEF TRACK_KEY, a, b, c, d, u, v, x, y
<1>6. CASE a = d /\ x = v /\ b = c /\ y = u
  <2>1. CASE a < b
    <3>1. ~(c < d)
      BY <1>2, <1>6, <2>1
    <3> QED BY <1>6, <2>1, <3>1 DEF TRACK_KEY, a, b, c, d, u, v, x, y
  <2>2. CASE ~(a < b)
    <3>1. c < d
      BY <1>2, <1>6, <2>2
    <3> QED BY <1>6, <2>2, <3>1 DEF TRACK_KEY, a, b, c, d, u, v, x, y
  <2> QED BY <2>1, <2>2
<1> QED BY <1>4, <1>5, <1>6

LEMMA TogetherIs ==
  ASSUME IsInput(input), Tracked(keys, stored)
  PROVE  ConnectionsTogether
<1>1. DOMAIN stored = 1 .. Len(stored) /\ Len(keys) \in Nat
  BY SeqFacts DEF Tracked
<1>2. ASSUME NEW m \in 1 .. Len(stored), NEW n \in 1 .. Len(stored),
             NEW p, p = input.items[stored[m].item].packet,
             NEW q, q = input.items[stored[n].item].packet,
             Ends(p) = Ends(q), p.net_type = q.net_type, p.net_saddr # p.net_daddr
      PROVE  stored[m].file = stored[n].file
  <2>1. PICK i \in 1 .. Len(keys) : keys[i] = TRACK_KEY(p) /\ stored[m].file = FileOf(i - 1)
    BY <1>2 DEF Tracked
  <2>2. PICK j \in 1 .. Len(keys) : keys[j] = TRACK_KEY(q) /\ stored[n].file = FileOf(j - 1)
    BY <1>2 DEF Tracked
  <2>3. stored[m].item \in 1 .. Total /\ stored[n].item \in 1 .. Total
    BY DEF Tracked
  <2>4. IsItem(input.items[stored[m].item]) /\ IsItem(input.items[stored[n].item])
    BY <2>3, RecordsAre DEF Total
  <2>5. /\ p.net_saddr \in Nat /\ p.net_daddr \in Nat /\ q.net_saddr \in Nat
        /\ q.net_daddr \in Nat
    BY <1>2, <2>4 DEF IsItem
  <2>6. TRACK_KEY(p) = TRACK_KEY(q)
    BY <1>2, <2>5, OneKey
  <2>7. i = j
    BY <2>1, <2>2, <2>6 DEF Tracked, Distinct
  <2> QED BY <2>1, <2>2, <2>7
<1> QED BY <1>1, <1>2 DEF ConnectionsTogether
-----------------------------------------------------------------------------
(***************************************************************************)
(* The invariant: the reader is behind k items, and what was stored is     *)
(* what is due of them.                                                    *)
(***************************************************************************)
SplitInv ==
  /\ input \in Inputs /\ Tracked(keys, stored)
  /\ pc \in {"init", "load", "packet", "exit", "done", "panic"}
  /\ trace = <<>> \/ \E s : trace = <<s>> /\ IsOpen(s)
  /\ pc = "init" => stored = <<>>
  /\ pc = "load" =>
       \E s, k, at : trace = <<s>> /\ (At(s, k) \/ Beyond(s, k)) /\ Matches(stored, at, k)
  /\ pc = "packet" =>
       \E s, k, at : trace = <<s>> /\ Taken(s, k) /\ Matches(stored, at, k)
  /\ pc \in {"exit", "done"} => \E k, at : Ended(k) /\ Matches(stored, at, k)

LEMMA AtIsOpen ==
  ASSUME IsInput(input), NEW s, NEW k, At(s, k)
  PROVE  IsOpen(s) /\ k \in Nat
<1>1. k \in 0 .. Total /\ IsReader(s) /\ Frames(s, k) /\ Total \in Nat
  BY DueIs DEF At, Passed
<1>2. CASE input.fmt = "netmon"
  <2>1. Len(Table(input)) = Total
    BY <1>2, TableIs
  <2> QED BY <1>1, <1>2, <2>1 DEF IsOpen, Frames
<1>3. CASE input.fmt # "netmon"
  <2>1. Len(<<>>) = 0 /\ 0 \in 0 .. 0
    OBVIOUS
  <2> QED BY <1>1, <1>3, <2>1 DEF IsOpen, Frames
<1> QED BY <1>2, <1>3

LEMMA SplitInvInit == Init => SplitInv
<1>1. SUFFICES ASSUME Init PROVE SplitInv
  OBVIOUS
<1>2. IsSeq(<<>>) /\ Len(<<>>) = 0
  BY TupleIsSeq
<1>3. 1 .. 0 = {} /\ 0 <= flow_count
  BY FlowsplitAssumption
<1>4. Tracked(<<>>, <<>>)
  BY <1>2, <1>3 DEF Tracked, Distinct
<1> QED BY <1>1, <1>4 DEF Init, SplitInv

LEMMA SplitInvOpen ==
  ASSUME SplitInv, Open
  PROVE  SplitInv'
<1>1. IsInput(input)
  BY InputsAssumption DEF SplitInv
<1>2. /\ pc = "init" /\ trace' = peak_load_init(File(input)) /\ trace' # <<>> /\ pc' = "load"
      /\ input' = input /\ keys' = keys /\ stored' = stored /\ stored = <<>>
  BY DEF Open, SplitInv
<1>3. PICK s : trace' = <<s>> /\ At(s, 0)
  BY <1>1, <1>2, OpenStep
<1>4. IsOpen(s) /\ Matches(<<>>, <<>>, 0)
  BY <1>1, <1>3, AtIsOpen, MatchesFirst
<1>5. At(s, 0)' /\ Matches(<<>>, <<>>, 0)'
  BY <1>2, <1>3, <1>4, InputKept
<1>6. Tracked(keys, stored)' /\ input' \in Inputs
  BY <1>2 DEF SplitInv, Tracked, Total
<1>7. \E q, k, at : trace' = <<q>> /\ (At(q, k) \/ Beyond(q, k))' /\ Matches(stored, at, k)'
  <2>1. Matches(stored, <<>>, 0)'
    BY <1>2, <1>5
  <2> QED BY <1>3, <1>5, <2>1
<1> QED BY <1>2, <1>3, <1>4, <1>6, <1>7 DEF SplitInv

LEMMA SplitInvLoad ==
  ASSUME SplitInv, Load
  PROVE  SplitInv'
<1>1. IsInput(input)
  BY InputsAssumption DEF SplitInv
<1> DEFINE r == peak_load_packet(File(input), trace[1])
<1>2. /\ pc = "load" /\ trace' = <<r.self>>
      /\ pc' = IF r.again THEN "load" ELSE IF r.self.len = 0 THEN "exit" ELSE "packet"
      /\ input' = input /\ keys' = keys /\ stored' = stored
  BY DEF Load
<1>3. PICK s, k, at : trace = <<s>> /\ (At(s, k) \/ Beyond(s, k)) /\ Matches(stored, at, k)
  BY <1>2 DEF SplitInv
<1>4. trace[1] = s
  BY <1>3
<1>5. Tracked(keys, stored)' /\ input' \in Inputs
  BY <1>2 DEF SplitInv, Tracked, Total
<1>6. \/ /\ r.again = FALSE /\ r.self.len > 0 /\ Taken(r.self, k)
      \/ r.again = FALSE /\ r.self.len = 0 /\ Ended(k) /\ IsOpen(r.self)
      \/ r.again = TRUE /\ At(r.self, k)
      \/ r.again = TRUE /\ At(r.self, k + 1) /\ Matches(stored, at, k + 1)
      \/ r.again = TRUE /\ Beyond(r.self, k)
  <2>1. CASE At(s, k)
    <3> DEFINE x == r
    <3>1. Outcome(x, k) /\ k \in Nat
      BY <1>1, <1>4, <2>1, LoadStep, AtIsOpen
    <3> HIDE DEF x
    <3>2. ASSUME k < Total, ~IsPacket(k + 1) PROVE Matches(stored, at, k + 1)
      <4>1. k + 1 \notin Due
        BY <3>2 DEF Due
      <4> QED BY <1>1, <1>3, <3>1, <4>1, MatchesSame
    <3>3. \/ /\ x.again = FALSE /\ x.self.len > 0 /\ Taken(x.self, k)
          \/ x.again = FALSE /\ x.self.len = 0 /\ Ended(k) /\ IsOpen(x.self)
          \/ x.again = TRUE /\ At(x.self, k)
          \/ x.again = TRUE /\ At(x.self, k + 1) /\ Matches(stored, at, k + 1)
          \/ x.again = TRUE /\ Beyond(x.self, k)
      BY <3>1, <3>2 DEF Outcome, Taken
    <3> QED BY <3>3 DEF x
  <2>2. CASE Beyond(s, k)
    BY <1>1, <1>4, <2>2, BeyondStep
  <2> QED BY <1>3, <2>1, <2>2
<1> HIDE DEF r
<1>0. PICK n, again : n = r.self /\ again = r.again
  OBVIOUS
<1>7. trace' = <<n>> /\ pc' = IF again THEN "load" ELSE IF n.len = 0 THEN "exit" ELSE "packet"
  BY <1>0, <1>2
<1>8. Matches(stored, at, k)' /\ (Matches(stored, at, k + 1) => Matches(stored, at, k + 1)')
  <2>1. \A x, y, z : Matches(x, y, z)' <=> Matches(x, y, z)
    BY <1>2, InputKept
  <2>2. stored' = stored
    BY <1>2
  <2> QED BY <1>3, <2>1, <2>2
<1>9. \A q, j : (At(q, j)' <=> At(q, j)) /\ (Beyond(q, j)' <=> Beyond(q, j))
                /\ (Taken(q, j)' <=> Taken(q, j)) /\ (Ended(j)' <=> Ended(j))
  BY <1>2, InputKept
<1>10. CASE again = FALSE /\ n.len > 0 /\ Taken(n, k)
  <2>1. pc' = "packet"
    <3>1. n.len # 0
      BY <1>10
    <3> QED BY <1>7, <1>10, <3>1
  <2>2. Taken(n, k)'
    BY <1>9, <1>10
  <2>3. IsOpen(n)
    BY <1>1, <1>10, AtIsOpen DEF Taken
  <2> QED BY <1>5, <1>7, <1>8, <2>1, <2>2, <2>3 DEF SplitInv
<1>11. CASE again = FALSE /\ n.len = 0 /\ Ended(k) /\ IsOpen(n)
  <2>1. pc' = "exit" /\ Ended(k)'
    BY <1>7, <1>9, <1>11
  <2> QED BY <1>5, <1>7, <1>8, <1>11, <2>1 DEF SplitInv
<1>12. CASE again = TRUE /\ At(n, k)
  <2>1. pc' = "load" /\ At(n, k)' /\ IsOpen(n)
    BY <1>1, <1>7, <1>9, <1>12, AtIsOpen
  <2> QED BY <1>5, <1>7, <1>8, <2>1 DEF SplitInv
<1>13. CASE again = TRUE /\ At(n, k + 1) /\ Matches(stored, at, k + 1)
  <2>1. pc' = "load" /\ At(n, k + 1)' /\ IsOpen(n)
    BY <1>1, <1>7, <1>9, <1>13, AtIsOpen
  <2> QED BY <1>5, <1>7, <1>8, <1>13, <2>1 DEF SplitInv
<1>14. CASE again = TRUE /\ Beyond(n, k)
  <2>1. pc' = "load" /\ Beyond(n, k)' /\ IsOpen(n)
    BY <1>7, <1>9, <1>14 DEF Beyond
  <2> QED BY <1>5, <1>7, <1>8, <2>1 DEF SplitInv
<1> QED BY <1>0, <1>6, <1>10, <1>11, <1>12, <1>13, <1>14

LEMMA SplitInvSkip ==
  ASSUME SplitInv, Skip
  PROVE  SplitInv'
<1>1. IsInput(input)
  BY InputsAssumption DEF SplitInv
<1>2. /\ pc = "packet" /\ ~Parses /\ pc' = "load"
      /\ input' = input /\ keys' = keys /\ stored' = stored /\ trace' = trace
  BY DEF Skip
<1>3. PICK s, k, at : trace = <<s>> /\ Taken(s, k) /\ Matches(stored, at, k)
  BY <1>2 DEF SplitInv
<1>4. k + 1 \notin Due /\ k \in Nat /\ At(s, k + 1)
  BY <1>1, <1>2, <1>3, TakenParses DEF Taken
<1>5. Matches(stored, at, k + 1)
  BY <1>1, <1>3, <1>4, MatchesSame
<1>6. At(s, k + 1)' /\ Matches(stored, at, k + 1)'
  <2>1. \A x, y, z : (Matches(x, y, z)' <=> Matches(x, y, z)) /\ (At(x, y)' <=> At(x, y))
    BY <1>2, InputKept
  <2> QED BY <1>2, <1>4, <1>5, <2>1
<1>7. Tracked(keys, stored)' /\ input' \in Inputs
  BY <1>2 DEF SplitInv, Tracked, Total
<1>8. IsOpen(s)
  BY <1>1, <1>4, AtIsOpen
<1> QED BY <1>2, <1>3, <1>6, <1>7, <1>8 DEF SplitInv

\* The packet of item k + 1 is stored in file f.
Stores(s, k, at, f, good) ==
  /\ trace = <<s>> /\ Taken(s, k) /\ Matches(stored, at, k) /\ Parses
  /\ k + 1 \in Due /\ s.buf[1].item = Seen(k + 1) /\ Seen(k + 1) \in 1 .. Total
  /\ HasItem(s.buf, Seen(k + 1))
  /\ keys' = Acquired(Key) /\ Tracks(Key)
  /\ Key = TRACK_KEY(input.items[Seen(k + 1)].packet)
  /\ f = FileOf(PlaceOf(Acquired(Key), Key) - 1)
  /\ stored' = Append(stored, [item |-> Seen(k + 1), file |-> f, len |-> s.len, good |-> good])
  /\ \E written \in 0 .. s.len + 1 :
       /\ good = (written = s.len + 1) /\ (good \/ fails < MaxFails)
       /\ fails' = (IF good THEN fails ELSE fails + 1)
       /\ outs' = [outs EXCEPT ![f] = peak_store_packet(@, s.buf, s.len, written)]

LEMMA SplitIs ==
  ASSUME SplitInv, Split
  PROVE  \E s, k, at, f, good : Stores(s, k, at, f, good)
<1>1. IsInput(input) /\ pc = "packet" /\ Parses /\ Tracks(Key) /\ keys' = Acquired(Key)
  BY InputsAssumption DEF SplitInv, Split
<1>2. PICK s, k, at : trace = <<s>> /\ Taken(s, k) /\ Matches(stored, at, k)
  BY <1>1 DEF SplitInv
<1>3. /\ k + 1 \in Due /\ s.buf[1].item = Seen(k + 1) /\ Seen(k + 1) \in 1 .. Total
      /\ HasItem(s.buf, Seen(k + 1)) /\ trace[1] = s
  BY <1>1, <1>2, TakenParses
<1>4. Key = TRACK_KEY(input.items[Seen(k + 1)].packet)
  BY <1>3 DEF Key
<1> DEFINE key == Key
           f == FileOf(PlaceOf(Acquired(key), key) - 1)
           x == Seen(k + 1)
<1>5. PICK written \in 0 .. s.len + 1 :
        LET good == written = s.len + 1 IN
         /\ good \/ fails < MaxFails
         /\ fails' = IF good THEN fails ELSE fails + 1
         /\ outs' = [outs EXCEPT ![f] = peak_store_packet(@, s.buf, s.len, written)]
         /\ stored' = Append(stored, [item |-> x, file |-> f, len |-> s.len, good |-> good])
  <2>1. FileOf(SelectInSeq(keys', LAMBDA k_1 : k_1 = Key) - 1) = f
    BY <1>1 DEF PlaceOf
  <2> QED BY <1>3, <2>1 DEF Split
<1> DEFINE good == (written = s.len + 1)
<1> HIDE DEF f, x, key
<1>6. Stores(s, k, at, f, good)
  BY <1>1, <1>2, <1>3, <1>4, <1>5 DEF f, x, key, Stores
<1> QED BY <1>6

LEMMA SplitInvSplit ==
  ASSUME SplitInv, Split
  PROVE  SplitInv'
<1>1. IsInput(input) /\ input' = input /\ trace' = trace /\ pc' = "load" /\ Tracked(keys, stored)
  BY InputsAssumption DEF SplitInv, Split
<1>0. PICK s, k, at, f, good : Stores(s, k, at, f, good)
  BY SplitIs
<1>2. /\ trace = <<s>> /\ Taken(s, k) /\ Matches(stored, at, k)
      /\ k + 1 \in Due /\ Seen(k + 1) \in 1 .. Total
      /\ keys' = Acquired(Key) /\ Tracks(Key)
      /\ Key = TRACK_KEY(input.items[Seen(k + 1)].packet)
      /\ f = FileOf(PlaceOf(Acquired(Key), Key) - 1)
      /\ stored' = Append(stored, [item |-> Seen(k + 1), file |-> f, len |-> s.len,
                                   good |-> good])
  BY <1>0 DEF Stores
<1> DEFINE L == Len(stored)
           x == Seen(k + 1)
           e == [item |-> x, file |-> f, len |-> s.len, good |-> good]
<1>3. IsSeq(stored) /\ k \in Nat /\ At(s, k + 1) /\ s.len > 0 /\ s.len = Reported(k + 1)
  BY <1>1, <1>2 DEF Tracked, Taken
<1>4. e.item = x /\ e.file = f /\ e.len = s.len
  OBVIOUS
<1>5. stored' = Append(stored, e)
  BY <1>2
<1> HIDE DEF e, x, L
<1>6. PICK new : new = stored'
  OBVIOUS
<1>7. /\ IsSeq(new) /\ Len(new) = Len(stored) + 1 /\ new[Len(stored) + 1] = e
      /\ \A i \in 1 .. Len(stored) : new[i] = stored[i]
  BY <1>3, <1>5, <1>6, AppendIs
<1>8. \E w : Matches(new, w, k + 1)
  <2>1. new[Len(stored) + 1].item = Seen(k + 1) /\ new[Len(stored) + 1].len = Reported(k + 1)
    BY <1>3, <1>4, <1>7 DEF x
  <2> QED BY <1>1, <1>2, <1>3, <1>7, <2>1, MatchesMore
<1>9. PICK w : Matches(new, w, k + 1)
  BY <1>8
<1>10. Tracked(Acquired(Key), new)
  <2> DEFINE key == Key
  <2>1. /\ key = TRACK_KEY(input.items[x].packet) /\ Tracks(key) /\ x \in 1 .. Total
        /\ f = FileOf(PlaceOf(Acquired(key), key) - 1)
    BY <1>2 DEF x
  <2>2. /\ new[Len(stored) + 1].item = x /\ new[Len(stored) + 1].len > 0
        /\ new[Len(stored) + 1].file = FileOf(PlaceOf(Acquired(key), key) - 1)
    BY <1>3, <1>4, <1>7, <2>1
  <2> HIDE DEF key
  <2>3. Tracked(Acquired(key), new)
    BY <1>1, <1>7, <2>1, <2>2, TrackedMore
  <2> QED BY <2>3 DEF key
<1>11. Tracked(keys, stored)'
  <2>1. PICK ks : ks = keys'
    OBVIOUS
  <2>2. Tracked(ks, new)
    BY <1>2, <1>10, <2>1
  <2>3. Tracked(ks, new)'
    BY <1>1, <2>2 DEF Tracked, Total
  <2> QED BY <1>6, <2>1, <2>3
<1>12. At(s, k + 1)' /\ Matches(new, w, k + 1)'
  <2>1. \A u, y, z : (Matches(u, y, z)' <=> Matches(u, y, z)) /\ (At(u, y)' <=> At(u, y))
    BY <1>1, InputKept
  <2> QED BY <1>3, <1>9, <2>1
<1>13. Matches(stored, w, k + 1)'
  BY <1>6, <1>12
<1>14. IsOpen(s) /\ input' \in Inputs
  BY <1>1, <1>3, AtIsOpen DEF SplitInv
<1> QED BY <1>1, <1>2, <1>11, <1>12, <1>13, <1>14 DEF SplitInv

LEMMA SplitInvStep == SplitInv /\ [Next]_vars => SplitInv'
<1>1. SUFFICES ASSUME SplitInv, [Next]_vars PROVE SplitInv'
  OBVIOUS
<1>2. ASSUME input' = input, keys' = keys, stored' = stored, trace' = trace,
             pc' = pc \/ pc' = "panic" \/ (pc = "exit" /\ pc' = "done")
      PROVE  SplitInv'
  <2>1. Tracked(keys, stored)' /\ input' \in Inputs
    BY <1>1, <1>2 DEF SplitInv, Tracked, Total
  <2>2. \A x, y, z : /\ Matches(x, y, z)' <=> Matches(x, y, z)
                     /\ At(x, y)' <=> At(x, y)
                     /\ Taken(x, y)' <=> Taken(x, y)
                     /\ Beyond(x, y)' <=> Beyond(x, y)
                     /\ Ended(x)' <=> Ended(x)
    BY <1>2, InputKept
  <2>3. (trace = <<>> \/ \E s : trace = <<s>> /\ IsOpen(s))'
    BY <1>1, <1>2 DEF SplitInv
  <2>4. CASE pc' = "panic"
    BY <1>2, <2>1, <2>3, <2>4 DEF SplitInv
  <2>5. CASE pc = "exit" /\ pc' = "done"
    <3>1. PICK k, at : Ended(k) /\ Matches(stored, at, k)
      BY <1>1, <2>5 DEF SplitInv
    <3>2. Ended(k)' /\ Matches(stored, at, k)'
      BY <1>2, <2>2, <3>1
    <3> QED BY <1>2, <2>1, <2>3, <2>5, <3>2 DEF SplitInv
  <2>6. CASE pc' = pc
    <3>1. (pc = "init" => stored = <<>>)' /\ pc' \in {"init", "load", "packet", "exit", "done", "panic"}
      BY <1>1, <1>2, <2>6 DEF SplitInv
    <3>2. ASSUME pc' = "load"
          PROVE  (\E s, k, at : trace = <<s>> /\ (At(s, k) \/ Beyond(s, k)) /\ Matches(stored, at, k))'
      <4>1. PICK s, k, at : trace = <<s>> /\ (At(s, k) \/ Beyond(s, k)) /\ Matches(stored, at, k)
        BY <1>1, <2>6, <3>2 DEF SplitInv
      <4>2. trace' = <<s>> /\ (At(s, k)' \/ Beyond(s, k)') /\ Matches(stored, at, k)'
        BY <1>2, <2>2, <4>1
      <4> QED BY <4>2
    <3>3. ASSUME pc' = "packet"
          PROVE  (\E s, k, at : trace = <<s>> /\ Taken(s, k) /\ Matches(stored, at, k))'
      <4>1. PICK s, k, at : trace = <<s>> /\ Taken(s, k) /\ Matches(stored, at, k)
        BY <1>1, <2>6, <3>3 DEF SplitInv
      <4>2. trace' = <<s>> /\ Taken(s, k)' /\ Matches(stored, at, k)'
        BY <1>2, <2>2, <4>1
      <4> QED BY <4>2
    <3>4. ASSUME pc' \in {"exit", "done"} PROVE (\E k, at : Ended(k) /\ Matches(stored, at, k))'
      <4>1. PICK k, at : Ended(k) /\ Matches(stored, at, k)
        BY <1>1, <2>6, <3>4 DEF SplitInv
      <4>2. Ended(k)' /\ Matches(stored, at, k)'
        BY <1>2, <2>2, <4>1
      <4> QED BY <4>2
    <3> QED BY <2>1, <2>3, <3>1, <3>2, <3>3, <3>4 DEF SplitInv
  <2> QED BY <1>2, <2>4, <2>5, <2>6
<1>3. CASE Open
  BY <1>1, <1>3, SplitInvOpen
<1>4. CASE OpenFails
  BY <1>2, <1>4 DEF OpenFails
<1>5. CASE CreateFails
  BY <1>2, <1>5 DEF CreateFails
<1>6. CASE Load
  BY <1>1, <1>6, SplitInvLoad
<1>7. CASE Skip
  BY <1>1, <1>7, SplitInvSkip
<1>8. CASE Split
  BY <1>1, <1>8, SplitInvSplit
<1>9. CASE TrackerFull
  BY <1>2, <1>9 DEF TrackerFull
<1>10. CASE Exit
  BY <1>2, <1>10 DEF Exit
<1>11. CASE UNCHANGED vars
  BY <1>2, <1>11 DEF vars
<1> QED BY <1>1, <1>3, <1>4, <1>5, <1>6, <1>7, <1>8, <1>9, <1>10, <1>11 DEF Next

LEMMA SplitInvAll == Spec => []SplitInv
BY SplitInvInit, SplitInvStep, PTL DEF Spec

LEMMA SplitInvSound == SplitInv => SplitSound
<1>1. SUFFICES ASSUME SplitInv PROVE SplitSound
  OBVIOUS
<1>2. IsInput(input) /\ Tracked(keys, stored)
  BY <1>1, InputsAssumption DEF SplitInv
<1>3. DOMAIN stored = 1 .. Len(stored) /\ Len(stored) \in Nat /\ Len(keys) <= flow_count
  BY <1>2, SeqFacts DEF Tracked
<1>4. TypeOK
  <2>1. ASSUME NEW n \in DOMAIN stored PROVE stored[n].file \in Files /\ stored[n].len > 0
    <3>1. stored[n].len > 0 /\ \E i \in 1 .. Len(keys) : stored[n].file = FileOf(i - 1)
      BY <1>2, <1>3, <2>1 DEF Tracked
    <3>2. PICK i \in 1 .. Len(keys) : stored[n].file = FileOf(i - 1)
      BY <3>1
    <3>3. i - 1 \in Nat
      BY <1>2, SeqFacts DEF Tracked
    <3> QED BY <3>1, <3>2, <3>3, FilesAre
  <2>2. ASSUME trace # <<>>
        PROVE  trace[1].netmon_pos \in 0 .. Len(trace[1].netmon_table) /\ trace[1].pos >= 0
    <3>1. PICK s : trace = <<s>> /\ IsOpen(s)
      BY <1>1, <2>2 DEF SplitInv
    <3>2. trace[1] = s
      BY <3>1
    <3> QED BY <3>1, <3>2 DEF IsOpen, IsReader
  <2> QED BY <1>1, <1>3, <2>1, <2>2 DEF TypeOK, SplitInv
<1>5. AllStored
  <2>1. SUFFICES ASSUME pc = "done" PROVE
      \E at \in InOrder(Due) :
        /\ DOMAIN at = DOMAIN stored
        /\ \A n \in DOMAIN stored :
             stored[n].item = Seen(at[n]) /\ stored[n].len = Reported(at[n])
    BY DEF AllStored
  <2>2. PICK k, at : Ended(k) /\ Matches(stored, at, k)
    BY <1>1, <2>1 DEF SplitInv
  <2>3. DueUpTo(k) = Due
    BY <1>2, <2>2, EndedAll
  <2>4. /\ at \in [1 .. Len(stored) -> Due] /\ Increases(at)
        /\ \A n \in Due : \E i \in 1 .. Len(stored) : at[i] = n
        /\ \A i \in 1 .. Len(stored) :
             stored[i].item = Seen(at[i]) /\ stored[i].len = Reported(at[i])
    BY <2>2, <2>3 DEF Matches
  <2>5. Due \subseteq Int
    BY <1>2, DueIs
  <2>6. at \in InOrder(Due)
    BY <1>3, <2>4, <2>5, InOrderIs
  <2> QED BY <1>3, <2>4, <2>6
<1>6. ConnectionsTogether
  BY <1>2, TogetherIs
<1> QED BY <1>4, <1>5, <1>6 DEF SplitSound

(***************************************************************************)
(* The packets of every input, in whatever format and however it was cut   *)
(* off, are stored once and in order up to the first that the reader takes *)
(* for the end; those of a connection get into one file.  For every size   *)
(* of the buffer, number of flows and of files.                            *)
(***************************************************************************)
THEOREM SplitCorrect == Spec => []SplitSound
BY SplitInvAll, SplitInvSound, PTL
-----------------------------------------------------------------------------
(***************************************************************************)
(* The output files.                                                       *)
(***************************************************************************)
StoredRecord(len) == [is |-> "record", incl_len |-> len, orig_len |-> len]

\* The file new begins with what is in the file old.
Grown(old, new) ==
  /\ IsSeq(old) /\ IsSeq(new) /\ Len(old) <= Len(new)
  /\ \A i \in 1 .. Len(old) : new[i] = old[i]

\* The packet of a buffer is behind what was in the file out.
Added(out, new, buf, len) ==
  /\ Len(new) = (Len(out) + 1) + len /\ new[Len(out) + 1] = StoredRecord(len)
  /\ \A i \in 1 .. len : i <= BufSize => new[(Len(out) + 1) + i] = buf[i]

\* peak_store_packet() adds to a file; all of a packet if it is written.
LEMMA StoreIs ==
  ASSUME NEW out, IsSeq(out), NEW buf, NEW len \in Nat,
         NEW written \in 0 .. len + 1, NEW new, new = peak_store_packet(out, buf, len, written)
  PROVE  /\ Grown(out, new)
         /\ written = len + 1 => Added(out, new, buf, len)
<1> DEFINE L == Len(out)
           h == <<StoredRecord(len)>>
           b == [i \in 1 .. len |-> Memory(buf, i)]
           cells == Join(h, b)
           some == SubSeq(cells, 1, written)
<1>1. L \in Nat /\ BufSize \in Nat
  BY SeqFacts, LoadAssumption
<1>2. b = [i \in 1 .. len |-> b[i]] /\ \A i \in 1 .. len : i <= BufSize => b[i] = buf[i]
  BY DEF Memory
<1>3. IsSeq(b) /\ Len(b) = len
  <2> HIDE DEF b
  <2> QED BY <1>2, FunctionIsSeq
<1>4. IsSeq(h) /\ Len(h) = 1 /\ h[1] = StoredRecord(len)
  BY TupleIsSeq
<1>5. new = Join(out, some)
  BY DEF peak_store_packet, StoreCells, StoredRecord, Join
<1> HIDE DEF b, h
<1>6. IsJoin(cells, h, b, 1, len)
  BY <1>3, <1>4, JoinAt
<1> HIDE DEF cells
<1>7. IsSeq(cells) /\ Len(cells) = 1 + len
  BY <1>6 DEF IsJoin
<1>8. IsSeq(some) /\ Len(some) = written /\ \A i \in 1 .. written : some[i] = cells[i]
  <2>1. written \in 0 .. Len(cells)
    BY <1>7
  <2> QED BY <1>7, <2>1, PrefixIs
<1> HIDE DEF some
<1>9. IsJoin(new, out, some, L, written)
  BY <1>5, <1>8, JoinAt
<1> HIDE DEF L
<1>10. Grown(out, new)
  <2>1. L <= L + written
    BY <1>1
  <2> QED BY <1>9, <2>1 DEF Grown, IsJoin, L
<1>11. ASSUME written = len + 1
       PROVE  /\ Len(new) = (L + 1) + len /\ new[L + 1] = StoredRecord(len)
              /\ \A i \in 1 .. len : i <= BufSize => new[(L + 1) + i] = buf[i]
  <2>1. Len(new) = L + (len + 1) /\ \A i \in 1 .. len + 1 : new[L + i] = cells[i]
    BY <1>8, <1>9, <1>11 DEF IsJoin
  <2>2. L + (len + 1) = (L + 1) + len /\ 1 \in 1 .. len + 1 /\ 1 \in 1 .. 1
    BY <1>1
  <2>3. cells[1] = StoredRecord(len)
    BY <1>4, <1>6, <2>2 DEF IsJoin
  <2>4. ASSUME NEW i \in 1 .. len, i <= BufSize PROVE new[(L + 1) + i] = buf[i]
    <3>1. 1 + i \in 1 .. len + 1 /\ L + (1 + i) = (L + 1) + i
      BY <1>1
    <3>2. cells[1 + i] = buf[i]
      BY <1>2, <1>6, <2>4 DEF IsJoin
    <3> QED BY <2>1, <3>1, <3>2
  <2> QED BY <2>1, <2>2, <2>3, <2>4
<1> QED BY <1>10, <1>11 DEF L, Added

\* A packet that is loaded has a length, be it more than the buffer's.
LEMMA TakenLength ==
  ASSUME IsInput(input), NEW s, NEW k, Taken(s, k)
  PROVE  s.len \in Nat \ {0}
<1>1. k \in Nat /\ k < Total /\ s.len = Reported(k + 1) /\ s.len > 0
  BY DEF Taken, At
<1>2. k + 1 \in 1 .. Total
  BY <1>1, DueIs
<1>3. Reported(k + 1) \in Nat
  BY <1>2, ItemFacts
<1> QED BY <1>1, <1>3

\* What can be read of file f; and can it all, and was it all written?
IntactIn(st, f) ==
  {n \in 1 .. Len(st) :
     /\ st[n].file = f
     /\ \A m \in 1 .. n : st[m].file = f => Readable(st[m])}

GoodIn(st, f) == \A m \in 1 .. Len(st) : st[m].file = f => Readable(st[m])

WrittenIn(st, f) == \A m \in 1 .. Len(st) : st[m].file = f => st[m].good

\* What is stored is e, between the positions p and q of a file.
RecordAt(out, p, q, e) ==
  /\ e.len \in Nat \ {0} /\ e.len <= BufSize /\ q = (p + 1) + e.len /\ q <= Len(out)
  /\ out[p + 1] = StoredRecord(e.len)
  /\ \A i \in 1 .. e.len : i <= input.items[e.item].cap => out[(p + 1) + i] = Byte(e.item, i)

\* Behind p is a record that no reader has room for.
Refused(out, p) == p < Len(out) /\ \E n \in Nat : n > BufSize /\ out[p + 1] = StoredRecord(n)

\* mine are the intact packets of file f, mark the positions behind them.
Listed(out, st, f, c, mine, mark) ==
  /\ c \in Nat /\ mine \in [1 .. c -> IntactIn(st, f)] /\ Increases(mine)
  /\ \A n \in IntactIn(st, f) : \E i \in 1 .. c : mine[i] = n
  /\ mark \in [0 .. c -> Nat] /\ mark[0] = 1
  /\ IsSeq(out) /\ Len(out) >= 1 /\ out[1] = peak_store_init[1]
  /\ \A i \in 1 .. c : RecordAt(out, mark[i - 1], mark[i], st[mine[i]])
  /\ GoodIn(st, f) => Len(out) = mark[c]
  /\ WrittenIn(st, f) /\ ~GoodIn(st, f) => Refused(out, mark[c])

LEMMA RecordKept ==
  ASSUME NEW out, NEW new, Grown(out, new), NEW p \in Nat, NEW q, NEW e, RecordAt(out, p, q, e)
  PROVE  RecordAt(new, p, q, e)
<1>1. /\ e.len \in Nat \ {0} /\ q = (p + 1) + e.len /\ q <= Len(out)
      /\ Len(out) \in Nat /\ Len(new) \in Nat /\ Len(out) <= Len(new)
  BY SeqFacts DEF RecordAt, Grown
<1>2. p + 1 \in 1 .. Len(out) /\ q <= Len(new)
  BY <1>1
<1>3. ASSUME NEW i \in 1 .. e.len PROVE (p + 1) + i \in 1 .. Len(out)
  BY <1>1
<1>4. new[p + 1] = StoredRecord(e.len)
  BY <1>2 DEF RecordAt, Grown
<1>5. \A i \in 1 .. e.len : i <= input.items[e.item].cap => new[(p + 1) + i] = Byte(e.item, i)
  BY <1>3 DEF RecordAt, Grown
<1> QED BY <1>1, <1>2, <1>4, <1>5 DEF RecordAt

\* The list st with one more.
OneMore(st, new, e) ==
  /\ IsSeq(st) /\ IsSeq(new) /\ Len(new) = Len(st) + 1 /\ new[Len(st) + 1] = e
  /\ \A i \in 1 .. Len(st) : new[i] = st[i]

LEMMA IntactMore ==
  ASSUME NEW st, NEW new, NEW e, OneMore(st, new, e), NEW f
  PROVE  /\ GoodIn(new, f) <=> GoodIn(st, f) /\ (e.file = f => Readable(e))
         /\ WrittenIn(new, f) <=> WrittenIn(st, f) /\ (e.file = f => e.good)
         /\ e.file = f /\ GoodIn(new, f) => IntactIn(new, f) = IntactIn(st, f) \cup {Len(st) + 1}
         /\ e.file # f \/ ~GoodIn(new, f) => IntactIn(new, f) = IntactIn(st, f)
<1> DEFINE L == Len(st)
<1>1. /\ L \in Nat /\ Len(new) = L + 1 /\ new[L + 1] = e /\ \A i \in 1 .. L : new[i] = st[i]
  BY SeqFacts DEF OneMore
<1> HIDE DEF L
<1>2. /\ \A n \in 1 .. L + 1 : n \in 1 .. L \/ n = L + 1
      /\ \A n \in 1 .. L : n \in 1 .. L + 1 /\ n # L + 1
      /\ L + 1 \in 1 .. L + 1
  BY <1>1
<1>3. GoodIn(new, f) <=> GoodIn(st, f) /\ (e.file = f => Readable(e))
  BY <1>1, <1>2 DEF GoodIn, L
<1>10. WrittenIn(new, f) <=> WrittenIn(st, f) /\ (e.file = f => e.good)
  BY <1>1, <1>2 DEF WrittenIn, L
<1>4. ASSUME NEW n \in 1 .. L PROVE n \in IntactIn(new, f) <=> n \in IntactIn(st, f)
  <2>1. \A m \in 1 .. n : m \in 1 .. L
    BY <1>1
  <2>2. \A m \in 1 .. n : new[m] = st[m]
    BY <1>1, <2>1
  <2>3. new[n] = st[n] /\ n \in 1 .. Len(new) /\ n \in 1 .. Len(st)
    BY <1>1, <1>2 DEF L
  <2> QED BY <2>2, <2>3 DEF IntactIn
<1>5. L + 1 \in IntactIn(new, f) <=> e.file = f /\ GoodIn(new, f)
  BY <1>1, <1>2 DEF IntactIn, GoodIn
<1>6. \A n \in IntactIn(st, f) : n \in 1 .. L
  BY DEF IntactIn, L
<1>7. \A n \in IntactIn(new, f) : n \in 1 .. L \/ n = L + 1
  BY <1>1, <1>2 DEF IntactIn
<1>8. ASSUME e.file = f, GoodIn(new, f) PROVE IntactIn(new, f) = IntactIn(st, f) \cup {L + 1}
  BY <1>4, <1>5, <1>6, <1>7, <1>8
<1>9. ASSUME e.file # f \/ ~GoodIn(new, f) PROVE IntactIn(new, f) = IntactIn(st, f)
  BY <1>4, <1>5, <1>6, <1>7, <1>9
<1> QED BY <1>3, <1>8, <1>9, <1>10 DEF L

\* The record that a packet begins with is added behind a file.
Begun(out, out2, e) ==
  /\ e.len \in Nat /\ Len(out) < Len(out2) /\ out2[Len(out) + 1] = StoredRecord(e.len)

LEMMA RefusedKept ==
  ASSUME NEW out, NEW out2, Grown(out, out2), NEW p \in Nat, Refused(out, p)
  PROVE  Refused(out2, p)
<1>1. PICK n \in Nat : n > BufSize /\ out[p + 1] = StoredRecord(n)
  BY DEF Refused
<1>2. p < Len(out) /\ Len(out) \in Nat /\ Len(out2) \in Nat /\ Len(out) <= Len(out2)
  BY SeqFacts DEF Refused, Grown
<1>3. p + 1 \in 1 .. Len(out) /\ p < Len(out2)
  BY <1>2
<1>4. out2[p + 1] = StoredRecord(n)
  BY <1>1, <1>3 DEF Grown
<1> QED BY <1>1, <1>3, <1>4 DEF Refused

\* A file that nothing intact is added to.
LEMMA ListedKept ==
  ASSUME NEW out, NEW out2, Grown(out, out2), NEW st, NEW new, NEW e, OneMore(st, new, e), NEW f,
         e.file # f \/ ~GoodIn(new, f), e.file # f => out2 = out,
         e.file = f /\ e.good => Begun(out, out2, e),
         NEW c, NEW mine, NEW mark, Listed(out, st, f, c, mine, mark)
  PROVE  Listed(out2, new, f, c, mine, mark)
<1>1. IntactIn(new, f) = IntactIn(st, f)
  BY IntactMore
<1>2. GoodIn(new, f) => GoodIn(st, f) /\ out2 = out
  BY IntactMore
<1>3. /\ c \in Nat /\ mine \in [1 .. c -> IntactIn(st, f)] /\ Increases(mine)
      /\ \A n \in IntactIn(st, f) : \E i \in 1 .. c : mine[i] = n
      /\ mark \in [0 .. c -> Nat] /\ mark[0] = 1
      /\ IsSeq(out) /\ Len(out) >= 1 /\ out[1] = peak_store_init[1]
      /\ GoodIn(st, f) => Len(out) = mark[c]
  BY DEF Listed
<1>4. IsSeq(out2) /\ Len(out2) >= 1 /\ out2[1] = peak_store_init[1]
  <2>1. Len(out) \in Nat /\ Len(out2) \in Nat /\ Len(out) <= Len(out2)
    BY SeqFacts DEF Grown
  <2>2. Len(out2) >= 1 /\ 1 \in 1 .. Len(out)
    BY <1>3, <2>1
  <2> QED BY <1>3, <2>2 DEF Grown
<1>5. ASSUME NEW i \in 1 .. c PROVE RecordAt(out2, mark[i - 1], mark[i], new[mine[i]])
  <2>1. mine[i] \in 1 .. Len(st)
    BY <1>3 DEF IntactIn
  <2>2. new[mine[i]] = st[mine[i]]
    BY <2>1 DEF OneMore
  <2>3. mark[i - 1] \in Nat
    <3>1. i - 1 \in 0 .. c
      BY <1>3
    <3> QED BY <1>3, <3>1
  <2>4. RecordAt(out, mark[i - 1], mark[i], st[mine[i]])
    BY DEF Listed
  <2> QED BY <2>2, <2>3, <2>4, RecordKept
<1>6. GoodIn(new, f) => Len(out2) = mark[c]
  BY <1>2, <1>3
<1>7. ASSUME WrittenIn(new, f), ~GoodIn(new, f) PROVE Refused(out2, mark[c])
  <2>1. WrittenIn(st, f) /\ (e.file = f => e.good) /\ mark[c] \in Nat
    <3>1. c \in 0 .. c
      BY <1>3
    <3> QED BY <1>3, <1>7, <3>1, IntactMore
  <2>2. CASE ~GoodIn(st, f)
    <3>1. Refused(out, mark[c])
      BY <2>1, <2>2 DEF Listed
    <3> QED BY <2>1, <3>1, RefusedKept
  <2>3. CASE GoodIn(st, f)
    <3>1. e.file = f /\ ~Readable(e)
      BY <1>7, <2>3, IntactMore
    <3>2. Begun(out, out2, e) /\ Len(out) = mark[c] /\ e.good
      BY <1>3, <2>1, <2>3, <3>1
    <3>3. e.len \in Nat /\ e.len > BufSize
      BY <3>1, <3>2, LoadAssumption DEF Begun, Readable
    <3> QED BY <3>2, <3>3 DEF Begun, Refused
  <2> QED BY <2>2, <2>3
<1> QED BY <1>1, <1>3, <1>4, <1>5, <1>6, <1>7 DEF Listed

\* There is such a list.
IsListed(out, st, f) == \E c, mine, mark : Listed(out, st, f, c, mine, mark)

\* A file that a packet is added to as a whole.
LEMMA ListedMore ==
  ASSUME NEW out, NEW out2, Grown(out, out2), NEW st, NEW new, NEW e, OneMore(st, new, e), NEW f,
         e.file = f, GoodIn(new, f), Len(out2) = (Len(out) + 1) + e.len,
         RecordAt(out2, Len(out), Len(out2), e),
         NEW c, NEW mine, NEW mark, Listed(out, st, f, c, mine, mark)
  PROVE  IsListed(out2, new, f)
<1> DEFINE L == Len(st)
           S == IntactIn(st, f)
           d == c + 1
           w == [i \in 1 .. d |-> IF i <= c THEN mine[i] ELSE L + 1]
           z == [i \in 0 .. d |-> IF i <= c THEN mark[i] ELSE Len(out2)]
<1>1. IntactIn(new, f) = S \cup {L + 1} /\ GoodIn(st, f)
  BY IntactMore
<1>2. /\ c \in Nat /\ mine \in [1 .. c -> S] /\ Increases(mine)
      /\ \A n \in S : \E i \in 1 .. c : mine[i] = n
      /\ mark \in [0 .. c -> Nat] /\ mark[0] = 1
      /\ IsSeq(out) /\ Len(out) >= 1 /\ out[1] = peak_store_init[1] /\ Len(out) = mark[c]
  BY <1>1 DEF Listed
<1>3. /\ L \in Nat /\ Len(out) \in Nat /\ Len(out2) \in Nat /\ Len(out) <= Len(out2)
      /\ IsSeq(out2) /\ new[L + 1] = e
  BY SeqFacts DEF Grown, OneMore
<1>4. \A n \in S : n \in 1 .. L
  BY DEF IntactIn
<1> HIDE DEF L, S
<1>5. /\ d \in Nat /\ d \in 1 .. d /\ d \in 0 .. d /\ w[d] = L + 1 /\ z[d] = Len(out2)
      /\ \A i \in 1 .. c : i \in 1 .. d /\ w[i] = mine[i]
      /\ \A i \in 0 .. c : i \in 0 .. d /\ z[i] = mark[i]
      /\ \A i \in 1 .. d : i \in 1 .. c \/ i = d
  BY <1>2
<1>6. w \in [1 .. d -> S \cup {L + 1}]
  BY <1>2, <1>5
<1>7. Increases(w)
  <2>1. SUFFICES ASSUME NEW i \in 1 .. d, NEW j \in 1 .. d, i < j PROVE w[i] < w[j]
    BY <1>6 DEF Increases
  <2>2. i \in 1 .. c
    BY <1>2, <2>1
  <2>3. CASE j \in 1 .. c
    BY <1>2, <1>5, <2>1, <2>2, <2>3 DEF Increases
  <2>4. CASE j = d
    <3>1. mine[i] \in 1 .. L
      BY <1>2, <1>4, <2>2
    <3>2. mine[i] < L + 1
      BY <1>3, <3>1
    <3> QED BY <1>5, <2>2, <2>4, <3>2
  <2> QED BY <1>5, <2>3, <2>4
<1>8. z \in [0 .. d -> Nat] /\ z[0] = 1
  <2>1. 0 \in 0 .. c
    BY <1>2
  <2> QED BY <1>2, <1>3, <1>5, <2>1
<1> HIDE DEF w, z
<1>9. ASSUME NEW n \in S \cup {L + 1} PROVE \E i \in 1 .. d : w[i] = n
  <2>1. CASE n \in S
    BY <1>2, <1>5, <2>1
  <2>2. CASE n = L + 1
    BY <1>5, <2>2
  <2> QED BY <2>1, <2>2
<1>10. Len(out2) >= 1 /\ out2[1] = peak_store_init[1]
  <2>1. Len(out2) >= 1 /\ 1 \in 1 .. Len(out)
    BY <1>2, <1>3
  <2> QED BY <1>2, <2>1 DEF Grown
<1>11. ASSUME NEW i \in 1 .. d PROVE RecordAt(out2, z[i - 1], z[i], new[w[i]])
  <2>1. CASE i \in 1 .. c
    <3>1. mine[i] \in 1 .. L
      BY <1>2, <1>4, <2>1
    <3>2. new[mine[i]] = st[mine[i]]
      BY <3>1 DEF OneMore, L
    <3>3. i - 1 \in 0 .. c /\ i \in 0 .. c
      BY <1>2, <2>1
    <3>4. z[i - 1] = mark[i - 1] /\ z[i] = mark[i] /\ w[i] = mine[i] /\ mark[i - 1] \in Nat
      BY <1>2, <1>5, <2>1, <3>3
    <3>5. RecordAt(out, mark[i - 1], mark[i], st[mine[i]])
      BY <2>1 DEF Listed
    <3>6. RecordAt(out2, mark[i - 1], mark[i], st[mine[i]])
      BY <3>4, <3>5, RecordKept
    <3> QED BY <3>2, <3>4, <3>6
  <2>2. CASE i = d
    <3>1. d - 1 = c /\ c \in 0 .. c
      BY <1>2
    <3>2. z[i - 1] = Len(out) /\ z[i] = Len(out2) /\ new[w[i]] = e
      BY <1>2, <1>3, <1>5, <2>2, <3>1
    <3> QED BY <3>2
  <2> QED BY <1>5, <2>1, <2>2
<1>12. GoodIn(new, f) => Len(out2) = z[d]
  BY <1>5
<1> HIDE DEF d
<1>13. Listed(out2, new, f, d, w, z)
  BY <1>1, <1>3, <1>5, <1>6, <1>7, <1>8, <1>9, <1>10, <1>11, <1>12 DEF Listed
<1> QED BY <1>13 DEF IsListed
-----------------------------------------------------------------------------
(***************************************************************************)
(* The invariant of the output files: what is intact can be found in them. *)
(***************************************************************************)
AllListed(o, st) == DOMAIN o = Files /\ \A f \in Files : IsListed(o[f], st, f)

OutInv ==
  /\ fails \in Nat
  /\ \A n \in 1 .. Len(stored) : ~stored[n].good => fails > 0
  /\ pc \in {"load", "packet", "exit", "done"} => AllListed(outs, stored)

\* This depends on the input alone.
LEMMA ListedPrimed ==
  ASSUME input' = input, NEW o, NEW st
  PROVE  AllListed(o, st)' <=> AllListed(o, st)
<1>1. \A out, p, q, e : RecordAt(out, p, q, e)' <=> RecordAt(out, p, q, e)
  BY DEF RecordAt
<1>2. \A out, f, c, mine, mark :
        Listed(out, st, f, c, mine, mark)' <=> Listed(out, st, f, c, mine, mark)
  BY <1>1 DEF Listed
<1> QED BY <1>2 DEF AllListed, IsListed

LEMMA ListedFirst ==
  ASSUME NEW f
  PROVE  IsListed(peak_store_init, <<>>, f)
<1> DEFINE mine == [i \in 1 .. 0 |-> 0]
           mark == [i \in 0 .. 0 |-> 1]
           S == IntactIn(<<>>, f)
<1>1. /\ IsSeq(peak_store_init) /\ Len(peak_store_init) = 1
  BY TupleIsSeq DEF peak_store_init
<1>2. Len(<<>>) = 0 /\ 1 .. 0 = {} /\ 0 .. 0 = {0}
  BY TupleIsSeq
<1>3. S = {}
  BY <1>2 DEF IntactIn
<1> HIDE DEF S
<1>4. mine \in [1 .. 0 -> S] /\ DOMAIN mine = {}
  BY <1>2
<1>5. mark \in [0 .. 0 -> Nat] /\ mark[0] = 1
  BY <1>2
<1>6. Increases(mine)
  BY <1>4 DEF Increases
<1> HIDE DEF mine, mark
<1>7. Listed(peak_store_init, <<>>, f, 0, mine, mark)
  BY <1>1, <1>2, <1>3, <1>4, <1>5, <1>6 DEF Listed, S
<1> QED BY <1>7 DEF IsListed

\* A packet is stored in file f, all of it if it is good.
LEMMA StoredListed ==
  ASSUME NEW out, NEW st, NEW new, NEW e, OneMore(st, new, e), NEW f, e.file = f,
         IsListed(out, st, f), NEW buf, HasItem(buf, e.item),
         e.len \in Nat \ {0}, NEW written \in 0 .. e.len + 1,
         e.good = (written = e.len + 1), input.items[e.item].cap \in Nat,
         NEW out2, out2 = peak_store_packet(out, buf, e.len, written)
  PROVE  IsListed(out2, new, f)
<1>1. PICK c, mine, mark : Listed(out, st, f, c, mine, mark)
  BY DEF IsListed
<1>2. IsSeq(out)
  BY <1>1 DEF Listed
<1> DEFINE len == e.len
           x == e.item
<1>3. len \in Nat /\ written \in 0 .. len + 1
  OBVIOUS
<1> HIDE DEF len, x
<1>4. Grown(out, out2) /\ (written = len + 1 => Added(out, out2, buf, len))
  <2>1. out2 = peak_store_packet(out, buf, len, written)
    BY DEF len
  <2> QED BY <1>2, <1>3, <2>1, StoreIs
<1>5. CASE GoodIn(new, f)
  <2>1. e.good /\ len <= BufSize
    BY <1>5, IntactMore DEF Readable, len
  <2>2. written = len + 1
    BY <2>1 DEF len
  <2>3. Len(out) \in Nat /\ Len(out2) \in Nat
    BY <1>4, SeqFacts DEF Grown
  <2>4. ASSUME NEW i \in 1 .. len, i <= input.items[x].cap
        PROVE  out2[(Len(out) + 1) + i] = Byte(x, i)
    <3>1. i \in 1 .. input.items[x].cap
      BY <1>3, <2>4 DEF x
    <3>2. buf[i] = Byte(x, i)
      BY <3>1 DEF HasItem, x
    <3>3. i <= BufSize
      BY <1>3, <2>1, <2>4, LoadAssumption
    <3> QED BY <1>4, <2>2, <3>2, <3>3 DEF Added
  <2>5. RecordAt(out2, Len(out), Len(out2), e)
    BY <1>4, <2>1, <2>2, <2>3, <2>4 DEF RecordAt, Added, len, x
  <2>6. Len(out2) = (Len(out) + 1) + e.len
    BY <1>4, <2>2 DEF Added, len
  <2>7. Grown(out, out2)
    BY <1>4
  <2> QED BY <1>1, <1>5, <2>5, <2>6, <2>7, ListedMore
<1>6. CASE ~GoodIn(new, f)
  <2>1. Len(out) \in Nat /\ Len(out2) \in Nat
    BY <1>4, SeqFacts DEF Grown
  <2>2. e.good => Begun(out, out2, e)
    <3>1. SUFFICES ASSUME e.good PROVE Begun(out, out2, e)
      OBVIOUS
    <3>2. Len(out2) = (Len(out) + 1) + len /\ out2[Len(out) + 1] = StoredRecord(len)
      BY <1>4, <3>1 DEF Added, len
    <3>3. Len(out) < Len(out2)
      BY <1>3, <2>1, <3>2
    <3> QED BY <1>3, <3>2, <3>3 DEF Begun, len
  <2> QED BY <1>1, <1>4, <1>6, <2>2, ListedKept DEF IsListed
<1> QED BY <1>5, <1>6

\* A file that nothing is stored in.
LEMMA OtherListed ==
  ASSUME NEW out, NEW st, NEW new, NEW e, OneMore(st, new, e), NEW f, e.file # f,
         IsListed(out, st, f)
  PROVE  IsListed(out, new, f)
<1>1. PICK c, mine, mark : Listed(out, st, f, c, mine, mark)
  BY DEF IsListed
<1>2. IsSeq(out) /\ Len(out) \in Nat
  BY <1>1, SeqFacts DEF Listed
<1>3. Grown(out, out)
  BY <1>2 DEF Grown
<1> QED BY <1>1, <1>3, ListedKept DEF IsListed

LEMMA OutInvSplit ==
  ASSUME SplitInv, OutInv, Split
  PROVE  OutInv'
<1>1. /\ IsInput(input) /\ input' = input /\ pc = "packet" /\ pc' = "load"
      /\ Tracked(keys, stored)
  BY InputsAssumption DEF SplitInv, Split
<1>2. PICK s, k, at, f, good : Stores(s, k, at, f, good)
  BY SplitIs
<1>3. PICK written \in 0 .. s.len + 1 :
       /\ good = (written = s.len + 1) /\ (good \/ fails < MaxFails)
       /\ fails' = (IF good THEN fails ELSE fails + 1)
       /\ outs' = [outs EXCEPT ![f] = peak_store_packet(@, s.buf, s.len, written)]
  BY <1>2 DEF Stores
<1> DEFINE x == Seen(k + 1)
           e == [item |-> x, file |-> f, len |-> s.len, good |-> good]
<1>4. /\ Taken(s, k) /\ x \in 1 .. Total /\ HasItem(s.buf, x) /\ keys' = Acquired(Key)
      /\ Tracks(Key) /\ f = FileOf(PlaceOf(Acquired(Key), Key) - 1) /\ stored' = Append(stored, e)
  BY <1>2 DEF Stores
<1>5. s.len \in Nat \ {0}
  BY <1>1, <1>4, TakenLength
<1>6. e.item = x /\ e.file = f /\ e.len = s.len /\ e.good = good
  OBVIOUS
<1> HIDE DEF e, x
<1>7. PICK new, o : new = stored' /\ o = outs'
  OBVIOUS
<1>8. OneMore(stored, new, e)
  <2>1. IsSeq(stored)
    BY <1>1 DEF Tracked
  <2> QED BY <1>4, <1>7, <2>1, AppendIs DEF OneMore
<1>9. AllListed(outs, stored) /\ fails \in Nat
  BY <1>1 DEF OutInv
<1>10. f \in Files
  <2> DEFINE key == Key
             a == Acquired(key)
  <2>1. HasAcquired(a, key)
    <3>1. Tracks(key) /\ IsSeq(keys) /\ Len(keys) <= flow_count /\ Distinct(keys)
      BY <1>1, <1>4 DEF Tracked
    <3> HIDE DEF key
    <3> QED BY <3>1, AcquiredIs
  <2>2. f = FileOf(PlaceOf(a, key) - 1)
    BY <1>4
  <2> HIDE DEF a, key
  <2>3. PICK i \in 1 .. Len(a) : a[i] = key
    BY <2>1 DEF HasAcquired
  <2>4. PlaceOf(a, key) = i /\ Len(a) \in Nat
    BY <2>1, <2>3, PlaceIs, SeqFacts DEF HasAcquired
  <2>5. i - 1 \in Nat
    BY <2>3, <2>4
  <2> QED BY <2>2, <2>4, <2>5, FilesAre
<1>11. input.items[x].cap \in Nat
  <2>1. IsItem(input.items[x])
    BY <1>1, <1>4, RecordsAre DEF Total
  <2> QED BY <2>1 DEF IsItem
<1>12. DOMAIN o = Files /\ o[f] = peak_store_packet(outs[f], s.buf, s.len, written)
       /\ \A g \in Files : g # f => o[g] = outs[g]
  BY <1>3, <1>7, <1>9, <1>10 DEF AllListed
<1>13. ASSUME NEW g \in Files PROVE IsListed(o[g], new, g)
  <2>1. IsListed(outs[g], stored, g)
    BY <1>9 DEF AllListed
  <2>2. CASE g = f
    <3>1. IsListed(outs[f], stored, f)
      BY <2>1, <2>2
    <3>2. /\ o[f] = peak_store_packet(outs[f], s.buf, e.len, written) /\ HasItem(s.buf, e.item)
          /\ e.len \in Nat \ {0} /\ written \in 0 .. e.len + 1
          /\ e.good = (written = e.len + 1) /\ input.items[e.item].cap \in Nat
      BY <1>3, <1>4, <1>5, <1>6, <1>11, <1>12
    <3>3. IsListed(o[f], new, f)
      BY <1>5, <1>6, <1>8, <3>1, <3>2, StoredListed
    <3> QED BY <2>2, <3>3
  <2>3. CASE g # f
    BY <1>6, <1>8, <1>12, <2>1, <2>3, OtherListed
  <2> QED BY <2>2, <2>3
<1>14. AllListed(o, new)
  BY <1>12, <1>13 DEF AllListed
<1>15. AllListed(outs, stored)'
  <2>1. AllListed(o, new)'
    BY <1>1, <1>14, ListedPrimed
  <2> QED BY <1>7, <2>1
<1>16. fails' \in Nat
  BY <1>3, <1>9
<1>17. ASSUME NEW n \in 1 .. Len(new), ~new[n].good PROVE fails' > 0
  <2>1. Len(stored) \in Nat /\ Len(new) = Len(stored) + 1
    BY <1>8, SeqFacts DEF OneMore
  <2>2. CASE n \in 1 .. Len(stored)
    <3>1. new[n] = stored[n]
      BY <1>8, <2>2 DEF OneMore
    <3>2. fails > 0
      BY <1>17, <2>2, <3>1 DEF OutInv
    <3> QED BY <1>3, <1>9, <3>2
  <2>3. CASE n = Len(stored) + 1
    <3>1. new[n] = e
      BY <1>8, <2>3 DEF OneMore
    <3>2. ~good
      BY <1>6, <1>17, <3>1
    <3> QED BY <1>3, <1>9, <3>2
  <2>4. n \in 1 .. Len(stored) \/ n = Len(stored) + 1
    BY <2>1
  <2> QED BY <2>2, <2>3, <2>4
<1>18. (\A n \in 1 .. Len(stored) : ~stored[n].good => fails > 0)'
  BY <1>7, <1>17
<1> QED BY <1>15, <1>16, <1>18 DEF OutInv

LEMMA OutInvInit == Init => OutInv
<1>1. SUFFICES ASSUME Init PROVE OutInv
  OBVIOUS
<1>2. Len(<<>>) = 0 /\ 1 .. 0 = {}
  BY TupleIsSeq
<1> QED BY <1>1, <1>2 DEF Init, OutInv

LEMMA OutInvStep == SplitInv /\ OutInv /\ [Next]_vars => OutInv'
<1>1. SUFFICES ASSUME SplitInv, OutInv, [Next]_vars PROVE OutInv'
  OBVIOUS
<1>2. CASE Open
  <2>1. /\ pc = "init" /\ input' = input /\ stored' = stored /\ fails' = fails /\ pc' = "load"
        /\ outs' = [f \in Files |-> peak_store_init] /\ stored = <<>>
    BY <1>1, <1>2 DEF Open, SplitInv
  <2>2. PICK o : o = [f \in Files |-> peak_store_init]
    OBVIOUS
  <2>3. AllListed(o, <<>>)
    BY <2>2, ListedFirst DEF AllListed
  <2>4. AllListed(o, <<>>)'
    BY <2>1, <2>3, ListedPrimed
  <2>5. AllListed(outs, stored)'
    BY <2>1, <2>2, <2>4
  <2> QED BY <1>1, <2>1, <2>5 DEF OutInv
<1>3. CASE CreateFails
  <2>1. stored' = stored /\ fails' = fails + 1 /\ pc' = "panic"
    BY <1>3 DEF CreateFails
  <2>2. fails \in Nat
    BY <1>1 DEF OutInv
  <2>3. fails' \in Nat /\ fails' > 0
    BY <2>1, <2>2
  <2> QED BY <2>1, <2>3 DEF OutInv
<1>4. CASE Split
  BY <1>1, <1>4, OutInvSplit
<1>5. ASSUME input' = input, stored' = stored, fails' = fails,
             \/ outs' = outs /\ pc \in {"load", "packet", "exit", "done"}
             \/ outs' = outs /\ pc' = pc
             \/ pc' = "panic"
      PROVE  OutInv'
  <2>1. CASE pc' = "panic"
    BY <1>1, <1>5, <2>1 DEF OutInv
  <2>2. CASE pc \in {"load", "packet", "exit", "done"} /\ outs' = outs
    <3>1. PICK o, st : o = outs /\ st = stored
      OBVIOUS
    <3>2. AllListed(o, st)'
      BY <1>1, <1>5, <2>2, <3>1, ListedPrimed DEF OutInv
    <3>3. AllListed(outs, stored)'
      BY <1>5, <2>2, <3>1, <3>2
    <3> QED BY <1>1, <1>5, <3>3 DEF OutInv
  <2>3. CASE pc' = pc /\ pc \notin {"load", "packet", "exit", "done"}
    BY <1>1, <1>5, <2>3 DEF OutInv
  <2> QED BY <1>5, <2>1, <2>2, <2>3
<1>6. CASE OpenFails
  BY <1>5, <1>6 DEF OpenFails
<1>7. CASE Load
  BY <1>5, <1>7 DEF Load
<1>8. CASE Skip
  BY <1>5, <1>8 DEF Skip
<1>9. CASE TrackerFull
  BY <1>5, <1>9 DEF TrackerFull
<1>10. CASE Exit
  BY <1>5, <1>10 DEF Exit
<1>11. CASE UNCHANGED vars
  BY <1>5, <1>11 DEF vars
<1> QED BY <1>1, <1>2, <1>3, <1>4, <1>6, <1>7, <1>8, <1>9, <1>10, <1>11 DEF Next

LEMMA OutInvAll == Spec => [](SplitInv /\ OutInv)
<1>1. Init => SplitInv /\ OutInv
  BY SplitInvInit, OutInvInit
<1>2. SplitInv /\ OutInv /\ [Next]_vars => (SplitInv /\ OutInv)'
  BY SplitInvStep, OutInvStep
<1> QED BY <1>1, <1>2, PTL DEF Spec
-----------------------------------------------------------------------------
(***************************************************************************)
(* Reading the output files back.                                          *)
(***************************************************************************)
\* A reader of an output file, behind some of it.
ReadsAt(s, p) == IsReader(s) /\ s.fmt = "pcap" /\ s.ll = LINKTYPE_ETHERNET /\ s.pos = p

LEMMA StoreOpened ==
  ASSUME NEW out, IsSeq(out), Len(out) >= 1, out[1] = peak_store_init[1]
  PROVE  ReadsAt(peak_load_init(out)[1], 1)
<1>1. out[1].is = "pcap" /\ out[1].network = LINKTYPE_ETHERNET
  BY DEF peak_store_init
<1>2. out # <<>>
  <2>1. Len(<<>>) = 0
    BY TupleIsSeq
  <2> QED BY <2>1
<1>3. peak_load_init(out) = Opened("pcap", 1, LINKTYPE_ETHERNET, <<>>)
  BY <1>1, <1>2 DEF peak_load_init
<1>4. IsFresh(Opened("pcap", 1, LINKTYPE_ETHERNET, <<>>)[1], "pcap", 1, LINKTYPE_ETHERNET, <<>>)
  <2>1. 1 \in Nat
    OBVIOUS
  <2> QED BY <2>1, OpenedIs
<1> QED BY <1>3, <1>4 DEF ReadsAt, IsFresh

\* What peak_load_packet() makes of a packet that was stored.
LEMMA StoredStep ==
  ASSUME NEW out, IsSeq(out), NEW s, NEW p \in Nat, ReadsAt(s, p), NEW q, NEW e,
         RecordAt(out, p, q, e), NEW r, r = peak_load_packet(out, s).self
  PROVE  /\ ReadsAt(r, q) /\ r.len = e.len
         /\ \A i \in 1 .. e.len : i <= input.items[e.item].cap => r.buf[i] = Byte(e.item, i)
<1> DEFINE none == [s EXCEPT !.len = 0]
           n == e.len
           hdr == Read(out, none.pos, 1)
<1>1. /\ IsReader(none) /\ Same(s, none) /\ none.pos = p /\ none.len = 0 /\ none.fmt = "pcap"
      /\ s.fmt = "pcap" /\ s.ll = LINKTYPE_ETHERNET
  BY NoPacketYet DEF ReadsAt, Same
<1>2. /\ n \in Nat \ {0} /\ n <= BufSize /\ q = (p + 1) + n /\ q <= Len(out)
      /\ out[p + 1] = StoredRecord(n) /\ Len(out) \in Nat /\ BufSize \in Nat
  BY SeqFacts, LoadAssumption DEF RecordAt
<1>3. p < Len(out) /\ (p + 1) + n <= Len(out)
  BY <1>2
<1>4. hdr # <<>> /\ hdr[1] = StoredRecord(n)
  BY <1>1, <1>2, <1>3, NextCell
<1>5. peak_load_packet(out, s) = Return(_peak_load_pcap(out, none))
  BY <1>1 DEF peak_load_packet
<1> HIDE DEF none, n
<1>6. hdr[1].incl_len = n
  BY <1>4 DEF StoredRecord
<1>7. _peak_load_pcap(out, none) = ReadLimited(out, none, n, n)
  BY <1>1, <1>4, <1>6 DEF _peak_load_pcap, InclLen
<1>8. r = ReadLimited(out, none, n, n)
  BY <1>5, <1>7 DEF Return
<1>9. Took(out, none, r, n <= BufSize /\ (none.pos + 1) + n <= Len(out), none.pos + 1, n, n)
  <2>1. n \in Nat /\ none.pos < Len(out)
    BY <1>1, <1>2, <1>3
  <2> QED BY <1>1, <1>8, <2>1, ReadLimitedIs
<1>10. /\ IsReader(r) /\ Same(none, r) /\ r.len = n /\ r.pos = (p + 1) + n
       /\ \A i \in 1 .. BufSize : r.buf[i] = IF i <= n THEN out[(p + 1) + i] ELSE none.buf[i]
  BY <1>1, <1>2, <1>3, <1>9 DEF Took
<1>11. ReadsAt(r, q) /\ r.len = n
  BY <1>1, <1>2, <1>10 DEF ReadsAt, Same
<1>12. ASSUME NEW i \in 1 .. n, i <= input.items[e.item].cap PROVE r.buf[i] = Byte(e.item, i)
  <2>1. i \in 1 .. BufSize /\ i <= n
    BY <1>2
  <2>2. out[(p + 1) + i] = Byte(e.item, i)
    BY <1>12 DEF RecordAt, n
  <2> QED BY <1>10, <2>1, <2>2
<1> QED BY <1>11, <1>12 DEF n

\* Behind the last there is no packet.
LEMMA StoredEnd ==
  ASSUME NEW out, IsSeq(out), NEW s, ReadsAt(s, Len(out))
  PROVE  peak_load_packet(out, s).self.len = 0
<1>1. /\ IsReader(s) /\ s.fmt = "pcap" /\ s.pos = Len(out) /\ Len(out) \in Nat
  BY SeqFacts DEF ReadsAt
<1>2. s.fmt \in Plain \cup {"pcapng"} /\ s.fmt # "netmon" /\ s.pos >= Len(out)
  BY <1>1 DEF Plain
<1>3. peak_load_packet(out, s).self = [s EXCEPT !.len = 0]
  BY <1>1, <1>2, EndStep
<1> QED BY <1>1, <1>3, NoPacketYet

\* Nor is there one at a record the reader has no room for.
LEMMA RefusedEnd ==
  ASSUME NEW out, IsSeq(out), NEW s, NEW p \in Nat, ReadsAt(s, p), Refused(out, p)
  PROVE  peak_load_packet(out, s).self.len = 0
<1> DEFINE none == [s EXCEPT !.len = 0]
           hdr == Read(out, none.pos, 1)
<1>1. /\ IsReader(none) /\ none.pos = p /\ none.len = 0 /\ none.fmt = "pcap" /\ s.fmt = "pcap"
  BY NoPacketYet DEF ReadsAt, Same
<1>2. PICK n \in Nat : n > BufSize /\ out[p + 1] = StoredRecord(n)
  BY DEF Refused
<1>3. p < Len(out) /\ BufSize \in Nat
  BY LoadAssumption DEF Refused
<1>4. hdr # <<>> /\ hdr[1] = StoredRecord(n)
  BY <1>1, <1>2, <1>3, NextCell
<1>5. peak_load_packet(out, s) = Return(_peak_load_pcap(out, none))
  BY <1>1 DEF peak_load_packet
<1> HIDE DEF none
<1>6. hdr[1].incl_len = n
  BY <1>4 DEF StoredRecord
<1>7. _peak_load_pcap(out, none) = ReadLimited(out, none, n, n)
  BY <1>1, <1>4, <1>6 DEF _peak_load_pcap, InclLen
<1> DEFINE r == ReadLimited(out, none, n, n)
<1>8. Took(out, none, r, n <= BufSize /\ (none.pos + 1) + n <= Len(out), none.pos + 1, n, n)
  BY <1>1, <1>3, ReadLimitedIs
<1> HIDE DEF r
<1>9. ~(n <= BufSize)
  BY <1>2, <1>3
<1>10. r.len = 0
  BY <1>8, <1>9 DEF Took
<1>11. peak_load_packet(out, s).self = r
  BY <1>5, <1>7 DEF Return, r
<1> QED BY <1>10, <1>11

\* The states of a reader of a file, after up to k packets.
NextState(out, s) == peak_load_packet(out, s).self
FirstState(out) == peak_load_init(out)[1]

IsReading(out, k, g) ==
  g = [n \in 0 .. k |-> IF n = 0 THEN FirstState(out) ELSE NextState(out, g[n - 1])]

LEMMA ReadingExists ==
  ASSUME NEW out, NEW k \in Nat
  PROVE  \E g : IsReading(out, k, g)
<1> DEFINE P == {m \in Nat : \E g : IsReading(out, m, g)}
<1>1. 0 \in P
  <2> DEFINE g == [n \in 0 .. 0 |-> FirstState(out)]
  <2>1. g = [n \in 0 .. 0 |-> IF n = 0 THEN FirstState(out) ELSE NextState(out, g[n - 1])]
    OBVIOUS
  <2> HIDE DEF g
  <2>2. IsReading(out, 0, g)
    BY <2>1 DEF IsReading
  <2> QED BY <2>2
<1>2. ASSUME NEW m \in Nat, m \in P PROVE m + 1 \in P
  <2>1. PICK g : IsReading(out, m, g)
    BY <1>2
  <2> DEFINE h == [n \in 0 .. m + 1 |-> IF n <= m THEN g[n] ELSE NextState(out, g[m])]
  <2>2. \A n \in 0 .. m : g[n] = IF n = 0 THEN FirstState(out) ELSE NextState(out, g[n - 1])
    BY <2>1 DEF IsReading
  <2>3. ASSUME NEW n \in 0 .. m + 1
        PROVE  h[n] = IF n = 0 THEN FirstState(out) ELSE NextState(out, h[n - 1])
    <3>1. CASE n = 0
      <4>1. h[n] = g[n] /\ n \in 0 .. m
        BY <3>1
      <4> QED BY <2>2, <3>1, <4>1
    <3>2. CASE n <= m /\ n # 0
      <4>1. h[n] = g[n] /\ h[n - 1] = g[n - 1] /\ n \in 0 .. m
        BY <3>2
      <4> QED BY <2>2, <3>2, <4>1
    <3>3. CASE n = m + 1
      <4>1. h[n] = NextState(out, g[m]) /\ h[n - 1] = g[m] /\ n # 0
        BY <3>3
      <4> QED BY <4>1
    <3> QED BY <3>1, <3>2, <3>3
  <2>4. h = [n \in 0 .. m + 1 |-> IF n = 0 THEN FirstState(out) ELSE NextState(out, h[n - 1])]
    BY <2>3
  <2> HIDE DEF h
  <2>5. IsReading(out, m + 1, h)
    BY <2>4 DEF IsReading
  <2> QED BY <2>5
<1> HIDE DEF P
<1>3. Nat \subseteq P
  BY <1>1, <1>2, Induction
<1> QED BY <1>3 DEF P

LEMMA ReaderIs ==
  ASSUME NEW f, Len(stored) \in Nat
  PROVE  IsReading(outs[f], Len(stored) + 1, Reader(f))
<1> DEFINE out == outs[f]
           k == Len(stored) + 1
<1>1. k \in Nat
  OBVIOUS
<1>2. \E g : g = [n \in 0 .. k |-> IF n = 0 THEN FirstState(out) ELSE NextState(out, g[n - 1])]
  <2> HIDE DEF out, k
  <2> QED BY <1>1, ReadingExists DEF IsReading
<1> DEFINE h == CHOOSE g : g = [n \in 0 .. k |-> IF n = 0 THEN FirstState(out)
                                                 ELSE NextState(out, g[n - 1])]
<1>3. h = [n \in 0 .. k |-> IF n = 0 THEN FirstState(out) ELSE NextState(out, h[n - 1])]
  BY <1>2
<1>4. Reader(f) = h
  BY DEF Reader, FirstState, NextState
<1> HIDE DEF h, out, k
<1>5. IsReading(out, k, h)
  BY <1>3 DEF IsReading
<1> QED BY <1>4, <1>5 DEF out, k

\* The state s of the reader has what was stored as e.
HasPacket(s, e) ==
  /\ s.len = e.len /\ s.ll = LINKTYPE_ETHERNET
  /\ \A i \in 1 .. e.len : i <= input.items[e.item].cap => s.buf[i] = Byte(e.item, i)

LEMMA AllRead ==
  ASSUME NEW out, NEW st, NEW f, NEW c, NEW mine, NEW mark, Listed(out, st, f, c, mine, mark),
         NEW k \in Nat, c < k, NEW g, IsReading(out, k, g)
  PROVE  /\ \A n \in 1 .. c : HasPacket(g[n], st[mine[n]])
         /\ WrittenIn(st, f) => g[c + 1].len = 0
<1>1. /\ c \in Nat /\ mark \in [0 .. c -> Nat] /\ mark[0] = 1 /\ IsSeq(out) /\ Len(out) >= 1
      /\ out[1] = peak_store_init[1] /\ (GoodIn(st, f) => Len(out) = mark[c])
      /\ \A i \in 1 .. c : RecordAt(out, mark[i - 1], mark[i], st[mine[i]])
  BY DEF Listed
<1>2. \A n \in 0 .. k : g[n] = IF n = 0 THEN FirstState(out) ELSE NextState(out, g[n - 1])
  BY DEF IsReading
<1> DEFINE P == {n \in Nat : n <= c => /\ ReadsAt(g[n], mark[n])
                                       /\ n # 0 => HasPacket(g[n], st[mine[n]])}
<1>3. 0 \in P
  <2>1. g[0] = peak_load_init(out)[1]
    BY <1>2 DEF FirstState
  <2>2. ReadsAt(peak_load_init(out)[1], 1)
    BY <1>1, StoreOpened
  <2> QED BY <1>1, <2>1, <2>2
<1>4. ASSUME NEW m \in Nat, m \in P PROVE m + 1 \in P
  <2>1. SUFFICES ASSUME m + 1 <= c
                 PROVE  ReadsAt(g[m + 1], mark[m + 1]) /\ HasPacket(g[m + 1], st[mine[m + 1]])
    OBVIOUS
  <2>2. /\ m <= c /\ m \in 0 .. c /\ m + 1 \in 1 .. c /\ m + 1 \in 0 .. k /\ (m + 1) - 1 = m
        /\ m + 1 # 0
    BY <1>1, <2>1
  <2>3. ReadsAt(g[m], mark[m]) /\ mark[m] \in Nat
    BY <1>1, <1>4, <2>2
  <2>4. g[m + 1] = peak_load_packet(out, g[m]).self
    BY <1>2, <2>2 DEF NextState
  <2>5. RecordAt(out, mark[m], mark[m + 1], st[mine[m + 1]])
    BY <1>1, <2>2
  <2> DEFINE r == g[m + 1]
             e == st[mine[m + 1]]
             q == mark[m + 1]
             s == g[m]
             p == mark[m]
  <2>6. /\ ReadsAt(s, p) /\ p \in Nat /\ r = peak_load_packet(out, s).self
        /\ RecordAt(out, p, q, e)
    BY <2>3, <2>4, <2>5
  <2> HIDE DEF r, e, q, s, p
  <2>7. /\ ReadsAt(r, q) /\ r.len = e.len
        /\ \A i \in 1 .. e.len : i <= input.items[e.item].cap => r.buf[i] = Byte(e.item, i)
    BY <1>1, <2>6, StoredStep
  <2>8. HasPacket(r, e)
    BY <2>7 DEF HasPacket, ReadsAt
  <2> QED BY <2>7, <2>8 DEF r, e, q
<1> HIDE DEF P
<1>5. Nat \subseteq P
  BY <1>3, <1>4, Induction
<1>6. ASSUME NEW n \in 1 .. c PROVE HasPacket(g[n], st[mine[n]])
  <2>1. n \in P /\ n <= c /\ n # 0
    BY <1>1, <1>5
  <2> QED BY <2>1 DEF P
<1>7. ASSUME WrittenIn(st, f) PROVE g[c + 1].len = 0
  <2>1. c \in P /\ c <= c /\ c \in 0 .. c
    BY <1>1, <1>5
  <2>2. ReadsAt(g[c], mark[c]) /\ mark[c] \in Nat
    BY <1>1, <2>1 DEF P
  <2>3. c + 1 \in 0 .. k /\ (c + 1) - 1 = c /\ c + 1 # 0
    BY <1>1
  <2>4. g[c + 1] = peak_load_packet(out, g[c]).self
    BY <1>2, <2>3 DEF NextState
  <2>5. CASE GoodIn(st, f)
    BY <1>1, <2>2, <2>4, <2>5, StoredEnd
  <2>6. CASE ~GoodIn(st, f)
    <3>1. Refused(out, mark[c])
      BY <1>7, <2>6 DEF Listed
    <3> QED BY <1>1, <2>2, <2>4, <3>1, RefusedEnd
  <2> QED BY <2>5, <2>6
<1> QED BY <1>6, <1>7

LEMMA OutInvReads == SplitInv /\ OutInv => ReadsBack
<1>1. SUFFICES ASSUME SplitInv, OutInv, pc \in {"load", "done"}, NEW f \in Files
      PROVE  \E mine \in InOrder(Intact(f)) :
        /\ \A n \in DOMAIN mine :
             /\ Reader(f)[n].len = stored[mine[n]].len
             /\ Reader(f)[n].ll = LINKTYPE_ETHERNET
             /\ \A i \in 1 .. Min({stored[mine[n]].len, input.items[stored[mine[n]].item].cap}) :
                  Reader(f)[n].buf[i] = Bytes(stored[mine[n]].item, i)[i]
        /\ fails = 0 => Reader(f)[Len(mine) + 1].len = 0
  BY DEF ReadsBack
<1>2. /\ IsInput(input) /\ Tracked(keys, stored) /\ Len(stored) \in Nat
      /\ DOMAIN stored = 1 .. Len(stored)
  BY <1>1, InputsAssumption, SeqFacts DEF SplitInv, Tracked
<1>3. PICK c, mine, mark : Listed(outs[f], stored, f, c, mine, mark)
  BY <1>1 DEF OutInv, AllListed, IsListed
<1>4. Intact(f) = IntactIn(stored, f)
  BY <1>2 DEF Intact, IntactIn
<1> DEFINE S == IntactIn(stored, f)
<1>5. /\ c \in Nat /\ mine \in [1 .. c -> S] /\ Increases(mine)
      /\ \A n \in S : \E i \in 1 .. c : mine[i] = n
  BY <1>3 DEF Listed
<1>6. S \subseteq 1 .. Len(stored) /\ S \subseteq Int
  BY <1>2 DEF IntactIn
<1> HIDE DEF S
<1>7. mine \in InOrder(S) /\ Cardinality(S) = c
  BY <1>5, <1>6, InOrderIs
<1>8. c <= Len(stored)
  <2> DEFINE L == Len(stored)
  <2>1. L \in Int /\ 1 \in Int /\ L \in Nat /\ S \subseteq 1 .. L
    BY <1>2, <1>6
  <2> HIDE DEF L
  <2>2. IsFiniteSet(1 .. L) /\ Cardinality(1 .. L) = L
    BY <2>1, FS_Interval
  <2>3. Cardinality(S) <= Cardinality(1 .. L)
    BY <2>1, <2>2, FS_Subset
  <2> QED BY <1>7, <2>2, <2>3 DEF L
<1> DEFINE k == Len(stored) + 1
           g == Reader(f)
           out == outs[f]
<1>9. IsReading(out, k, g) /\ k \in Nat /\ c < k
  BY <1>2, <1>5, <1>8, ReaderIs
<1> HIDE DEF k, g
<1>10. /\ \A n \in 1 .. c : HasPacket(g[n], stored[mine[n]])
       /\ WrittenIn(stored, f) => g[c + 1].len = 0
  <2> HIDE DEF out
  <2>1. Listed(out, stored, f, c, mine, mark)
    BY <1>3 DEF out
  <2> QED BY <1>9, <2>1, AllRead
<1>11. DOMAIN mine = 1 .. c /\ Len(mine) = c
  BY <1>5
<1>12. ASSUME NEW n \in 1 .. c
       PROVE  /\ g[n].len = stored[mine[n]].len
              /\ g[n].ll = LINKTYPE_ETHERNET
              /\ \A i \in 1 .. Min({stored[mine[n]].len, input.items[stored[mine[n]].item].cap}) :
                   g[n].buf[i] = Bytes(stored[mine[n]].item, i)[i]
  <2> DEFINE e == stored[mine[n]]
             x == e.item
             cap == input.items[x].cap
  <2>1. HasPacket(g[n], e)
    BY <1>10
  <2>2. mine[n] \in 1 .. Len(stored)
    BY <1>5, <1>6
  <2>3. RecordAt(out, mark[n - 1], mark[n], e)
    BY <1>3 DEF Listed
  <2>4. x \in 1 .. Total /\ e.len \in Nat
    BY <1>2, <2>2, <2>3 DEF Tracked, RecordAt
  <2>5. cap \in Nat
    <3>1. IsItem(input.items[x])
      BY <1>2, <2>4, RecordsAre DEF Total
    <3> QED BY <3>1 DEF IsItem
  <2>6. g[n].len = e.len /\ g[n].ll = LINKTYPE_ETHERNET
    BY <2>1 DEF HasPacket
  <2>7. \A i \in 1 .. e.len : i <= cap => g[n].buf[i] = Byte(x, i)
    BY <2>1 DEF HasPacket
  <2> HIDE DEF e, cap
  <2>8. Min({e.len, cap}) = IF e.len <= cap THEN e.len ELSE cap
    <3>1. e.len \in Int /\ cap \in Int
      BY <2>4, <2>5
    <3> QED BY <3>1, MaxOfTwo
  <2>9. ASSUME NEW i \in 1 .. Min({e.len, cap}) PROVE g[n].buf[i] = Bytes(x, i)[i]
    <3>1. i \in 1 .. e.len /\ i <= cap /\ i \in Nat /\ i \in 1 .. i
      BY <2>4, <2>5, <2>8, <2>9
    <3>2. Bytes(x, i)[i] = Byte(x, i)
      BY <3>1, BytesAre
    <3> QED BY <2>7, <3>1, <3>2
  <2> QED BY <2>6, <2>9 DEF e, cap
<1>13. ASSUME fails = 0 PROVE g[c + 1].len = 0
  <2>1. WrittenIn(stored, f)
    BY <1>1, <1>13 DEF OutInv, WrittenIn
  <2> QED BY <1>10, <2>1
<1>14. mine \in InOrder(Intact(f))
  BY <1>4, <1>7 DEF S
<1> QED BY <1>11, <1>12, <1>13, <1>14 DEF g

(***************************************************************************)
(* Every output file has, at any time between two packets, the packets     *)
(* that were stored in it before a write failed or one was stored that had *)
(* been longer than the buffer on the wire: each with its length, the link *)
(* type and its own bytes as far as they were captured.  When no write     *)
(* failed the reader finds an end behind the last of these.  This is so    *)
(* whatever the format of the input and wherever it was cut off.           *)
(***************************************************************************)
THEOREM OutputsReadBack == Spec => []ReadsBack
BY OutInvAll, OutInvReads, PTL
=============================================================================
