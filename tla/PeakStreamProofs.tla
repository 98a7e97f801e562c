--------------------------- MODULE PeakStreamProofs --------------------------
(***************************************************************************)
(* Page ownership, references and bounds of lib/peak_stream.c, for every   *)
(* pool, any number of streams and all sizes claimed and released.         *)
(*                                                                         *)
(* Pages only move between the tree and the one stream an operation works  *)
(* on: a claim takes pages out of the tree, the loop of a release gives    *)
(* back a prefix of the stream's own.  That the prefix is one, and that    *)
(* used stays positive while a stream is live, is what has to be shown.    *)
(***************************************************************************)
EXTENDS PeakStream, PeakStreamProbe, FiniteSetTheorems, WellFoundedInduction, PeakArithmetic, TLAPS

\* The smaller of two numbers.
LEMMA MinPair ==
  ASSUME NEW a \in Int, NEW b \in Int
  PROVE  Min({a, b}) = IF a <= b THEN a ELSE b
BY DEF Min

\* Something takes at least one page.
LEMMA PagesForPositive ==
  ASSUME NEW size \in Nat, size > 0
  PROVE  PagesFor(size) \in Nat /\ PagesFor(size) >= 1
<1>1. PageSize \in Nat /\ PageSize > 0
  BY PageAssumption, PageSizeAssumption
<1> DEFINE a == size + PageSize - 1
<1>2. a \in Nat /\ a >= PageSize
  BY <1>1
<1> HIDE DEF a
<1>3. a \div PageSize \in Nat /\ a \div PageSize >= 1
  BY <1>1, <1>2
<1> QED BY <1>3 DEF PagesFor, a

\* The loop of a release stops at the last page and never overshoots.
LEMMA ReleasedPagesBound ==
  ASSUME TypeOK, NEW r \in Refs, NEW size \in Nat
  PROVE  /\ ReleasedPages(r, size) \in 0 .. page_count[r]
         /\ (off[r] + size) - ReleasedPages(r, size) * PageSize \in Nat
<1>1. PageSize \in Nat /\ PageSize > 0
  BY PageAssumption, PageSizeAssumption
<1> DEFINE a == off[r] + size
           c == page_count[r]
           d == a \div PageSize
<1>2. a \in Nat /\ c \in Nat
  BY DEF TypeOK
<1>3. ReleasedPages(r, size) = Min({c, d})
  BY DEF ReleasedPages
<1> HIDE DEF a, c
<1>4. d \in Nat /\ d * PageSize <= a
  BY <1>1, <1>2
<1> HIDE DEF d
<1>5. Min({c, d}) = IF c <= d THEN c ELSE d
  BY <1>2, <1>4, MinPair
<1> DEFINE k == Min({c, d})
<1>6. k \in Nat /\ k <= c /\ k <= d
  BY <1>2, <1>4, <1>5
<1> HIDE DEF k
<1>7. k * PageSize <= d * PageSize
  BY <1>1, <1>4, <1>6
<1>8. k * PageSize \in Nat /\ d * PageSize \in Nat
  BY <1>1, <1>4, <1>6
<1>9. a - k * PageSize \in Nat
  BY <1>2, <1>4, <1>7, <1>8
<1>10. ReleasedPages(r, size) = k
  BY <1>3 DEF k
<1>11. ReleasedPages(r, size) \in 0 .. c
  BY <1>2, <1>6, <1>10
<1>12. a - ReleasedPages(r, size) * PageSize \in Nat
  BY <1>9, <1>10
<1> QED BY <1>11, <1>12 DEF a, c

\* First fit returns a run of free pages.
LEMMA FitsAreFree ==
  ASSUME TypeOK, NEW n, Fits(n) # {}
  PROVE  /\ Min(Fits(n)) \in Nat
         /\ Run(Min(Fits(n)), n) \subseteq tree
<1>1. Fits(n) \subseteq Nat
  <2>1. Fits(n) \subseteq tree
    BY DEF Fits
  <2>2. tree \subseteq Nat
    BY PageAssumption, PageSizeAssumption DEF TypeOK, Pages
  <2> QED BY <2>1, <2>2
<1>2. Min(Fits(n)) \in Fits(n)
  BY <1>1, MinNat
<1> QED BY <1>1, <1>2 DEF Fits
-----------------------------------------------------------------------------
LiveRefs == {r \in Refs : Live(r)}

(***************************************************************************)
(* The inductive invariant: a NULL reference accounts for no page, and a   *)
(* pool is only destroyed when all references are NULL.                    *)
(***************************************************************************)
StreamInv ==
  /\ TypeOK
  /\ PagesOwnedOnce
  /\ ReferencesExact
  /\ \A r \in Refs : len[r] = 0 => page_count[r] = 0
  /\ state = "down" => \A r \in Refs : len[r] = 0

\* LiveRefs is finite, so counting references makes sense.
LEMMA LiveFinite ==
  ASSUME TypeOK
  PROVE  IsFiniteSet(LiveRefs) /\ Cardinality(LiveRefs) \in Nat
BY RefsAssumption, FS_Subset, FS_CardinalityType DEF LiveRefs

(***************************************************************************)
(* Ownership is preserved by a step that only moves pages between the tree *)
(* and stream r.                                                           *)
(***************************************************************************)
LEMMA OwnershipStep ==
  ASSUME PagesOwnedOnce, tree \subseteq Pages, NEW r \in Refs,
         state' # Duplicated,
         \A q \in Refs \ {r} : Owned(q)' = Owned(q),
         Owned(r)' \subseteq Owned(r) \cup tree,
         Owned(r)' \cap tree' = {},
         tree' \subseteq tree \cup Owned(r)
  PROVE  PagesOwnedOnce'
<1>1. \A q \in Refs : Owned(q)' \subseteq Pages \ tree'
  <2> TAKE q \in Refs
  <2>1. CASE q = r
    BY <2>1 DEF PagesOwnedOnce
  <2>2. CASE q # r
    <3>1. Owned(q)' = Owned(q) /\ Owned(q) \cap Owned(r) = {}
      BY <2>2 DEF PagesOwnedOnce
    <3> QED BY <3>1 DEF PagesOwnedOnce
  <2> QED BY <2>1, <2>2
<1>2. ASSUME NEW p \in Refs, NEW q \in Refs, p # q
      PROVE  Owned(p)' \cap Owned(q)' = {}
  <2>1. CASE p # r /\ q # r
    BY <1>2, <2>1 DEF PagesOwnedOnce
  <2>2. CASE p = r
    <3>1. Owned(q)' = Owned(q) /\ Owned(q) \cap Owned(r) = {}
      BY <1>2, <2>2 DEF PagesOwnedOnce
    <3> QED BY <2>2, <3>1 DEF PagesOwnedOnce
  <2>3. CASE q = r
    <3>1. Owned(p)' = Owned(p) /\ Owned(p) \cap Owned(r) = {}
      BY <1>2, <2>3 DEF PagesOwnedOnce
    <3> QED BY <2>3, <3>1 DEF PagesOwnedOnce
  <2> QED BY <2>1, <2>2, <2>3
<1>3. Pages' = Pages /\ Duplicated' = Duplicated
  BY DEF Pages, Duplicated
<1> QED BY <1>1, <1>2, <1>3 DEF PagesOwnedOnce

\* What SetStream() leaves alone and what it sets.
LEMMA SetStreamEffect ==
  ASSUME TypeOK, NEW r \in Refs, NEW p, NEW n, NEW size, SetStream(r, p, n, size)
  PROVE  /\ \A q \in Refs \ {r} : Owned(q)' = Owned(q) /\ len'[q] = len[q]
                                   /\ page_count'[q] = page_count[q]
         /\ Owned(r)' = Run(p, n)
         /\ len'[r] = size /\ page_count'[r] = n
BY DEF TypeOK, SetStream, Owned

LEMMA SetStreamTyping ==
  ASSUME TypeOK, NEW r \in Refs, NEW p \in Nat, NEW n \in Nat, NEW size \in Nat,
         SetStream(r, p, n, size)
  PROVE  /\ page_no' \in [Refs -> Nat] /\ page_count' \in [Refs -> Nat]
         /\ off' \in [Refs -> Nat] /\ len' \in [Refs -> Nat]
BY DEF TypeOK, SetStream
-----------------------------------------------------------------------------
\* A step that moves the pages of r and keeps the number of live streams.
LEMMA SameReferences ==
  ASSUME ReferencesExact, TypeOK, used' = used, state' # MissingChunks,
         \A q \in Refs : Live(q)' <=> Live(q)
  PROVE  ReferencesExact'
<1>1. LiveRefs' = LiveRefs
  BY DEF LiveRefs
<1> QED BY <1>1 DEF ReferencesExact, LiveRefs, MissingChunks

LEMMA ClaimFreshInv ==
  ASSUME StreamInv, NEW r \in Refs, NEW size \in ClaimSizes, state = "up",
         ragged' \subseteq Operations, ClaimFresh(r, size)
  PROVE  StreamInv'
<1> DEFINE n == PagesFor(size)
           p == Min(Fits(n))
<1>1. TypeOK /\ PagesOwnedOnce /\ ReferencesExact
  BY DEF StreamInv
<1>2. size \in Nat /\ size > 0
  BY SizesAssumption
<1>3. n \in Nat /\ n >= 1
  BY <1>2, PagesForPositive
<1>4. p \in Nat /\ Run(p, n) \subseteq tree
  BY <1>1, FitsAreFree DEF ClaimFresh
<1>5. ~Live(r)
  BY DEF ClaimFresh
<1> HIDE DEF n, p
<1>6. CASE used = PageCount
  <2>1. state' = NoReferences /\ UNCHANGED <<tree, used, stream>>
    BY <1>6 DEF ClaimFresh, Panic
  <2> QED
    BY <1>1, <2>1
    DEF StreamInv, TypeOK, PagesOwnedOnce, ReferencesExact, stream, Owned,
        Live, Panics, NoReferences, Duplicated, MissingChunks
<1>7. CASE used # PageCount
  <2>1. /\ tree' = tree \ Run(p, n)
        /\ used' = used + 1
        /\ SetStream(r, p, n, size)
        /\ state' = state
    BY <1>7 DEF ClaimFresh, n, p
  <2>2. /\ \A q \in Refs \ {r} : Owned(q)' = Owned(q) /\ len'[q] = len[q]
                                  /\ page_count'[q] = page_count[q]
        /\ Owned(r)' = Run(p, n) /\ len'[r] = size /\ page_count'[r] = n
    BY <1>1, <2>1, SetStreamEffect
  <2>3. TypeOK'
    <3>1. /\ page_no' \in [Refs -> Nat] /\ page_count' \in [Refs -> Nat]
          /\ off' \in [Refs -> Nat] /\ len' \in [Refs -> Nat]
      BY <1>1, <1>2, <1>3, <1>4, <2>1, SetStreamTyping
    <3>2. used' \in 0 .. PageCount
      BY <1>1, <1>7, <2>1, PageAssumption, PageSizeAssumption DEF TypeOK
    <3> QED BY <1>1, <2>1, <3>1, <3>2 DEF TypeOK, Pages, Panics
  <2>4. PagesOwnedOnce'
    <3>1. tree \subseteq Pages /\ state' # Duplicated
      BY <1>1, <2>1 DEF TypeOK, PagesOwnedOnce
    <3> QED BY <1>1, <1>4, <2>1, <2>2, <3>1, OwnershipStep
  <2>5. ReferencesExact'
    <3>1. LiveRefs' = LiveRefs \cup {r} /\ r \notin LiveRefs
      BY <1>2, <1>5, <2>2 DEF LiveRefs, Live
    <3>2. Cardinality(LiveRefs') = Cardinality(LiveRefs) + 1
      BY <1>1, <3>1, LiveFinite, FS_AddElement
    <3> QED BY <1>1, <2>1, <3>2 DEF ReferencesExact, LiveRefs, MissingChunks
  <2>6. \A q \in Refs : len'[q] = 0 => page_count'[q] = 0
    BY <1>2, <2>2 DEF StreamInv
  <2> QED BY <2>1, <2>3, <2>4, <2>5, <2>6 DEF StreamInv
<1> QED BY <1>6, <1>7

LEMMA ClaimTrivialInv ==
  ASSUME StreamInv, NEW r \in Refs, NEW size \in ClaimSizes, state = "up",
         ragged' \subseteq Operations, ClaimTrivial(r, size)
  PROVE  StreamInv'
<1>1. TypeOK /\ PagesOwnedOnce /\ ReferencesExact
  BY DEF StreamInv
<1>2. size \in Nat /\ size > 0
  BY SizesAssumption
<1>3. /\ len' = [len EXCEPT ![r] = @ + size] /\ len[r] > 0
      /\ UNCHANGED <<state, tree, used, page_no, page_count, off>>
  BY DEF ClaimTrivial, Live
<1>4. TypeOK'
  BY <1>1, <1>2, <1>3 DEF TypeOK
<1>5. PagesOwnedOnce'
  BY <1>1, <1>3 DEF PagesOwnedOnce, Owned
<1>6. \A q \in Refs : len'[q] = 0 <=> len[q] = 0
  BY <1>1, <1>2, <1>3 DEF TypeOK
<1>7. \A q \in Refs : Live(q)' <=> Live(q)
  BY <1>1, <1>4, <1>6 DEF Live, TypeOK
<1>8. ReferencesExact'
  BY <1>1, <1>3, <1>7, SameReferences DEF ReferencesExact
<1> QED BY <1>3, <1>4, <1>5, <1>6, <1>8 DEF StreamInv

LEMMA ClaimExtendInv ==
  ASSUME StreamInv, NEW r \in Refs, NEW size \in ClaimSizes, state = "up",
         ragged' \subseteq Operations, ClaimExtend(r, size)
  PROVE  StreamInv'
<1> DEFINE n == PagesFor(len[r] + size)
           p == page_no[r]
           c == page_count[r]
           E == Extension(r, size)
<1>1. TypeOK /\ PagesOwnedOnce /\ ReferencesExact
  BY DEF StreamInv
<1>2. size \in Nat /\ size > 0 /\ len[r] \in Nat /\ len[r] > 0
  BY <1>1, SizesAssumption DEF TypeOK, ClaimExtend, Live
<1>3. n \in Nat /\ n >= 1
  BY <1>2, PagesForPositive
<1>4. p \in Nat /\ c \in Nat
  BY <1>1 DEF TypeOK
<1>5. E = Run(p + c, n - c)
  BY DEF Extension, Extra
<1>6. Owned(r) = Run(p, c)
  BY DEF Owned
<1>7. /\ tree' = tree \ E
      /\ E \subseteq tree
      /\ SetStream(r, p, n, len[r] + size)
      /\ state' = state /\ used' = used
  BY DEF ClaimExtend, CanExtend
<1> HIDE DEF n, p, c, E
<1>8. /\ \A q \in Refs \ {r} : Owned(q)' = Owned(q) /\ len'[q] = len[q]
                                /\ page_count'[q] = page_count[q]
      /\ Owned(r)' = Run(p, n) /\ len'[r] = len[r] + size /\ page_count'[r] = n
  BY <1>1, <1>7, SetStreamEffect
<1>9. Run(p, n) \subseteq Run(p, c) \cup E
  BY <1>3, <1>4, <1>5 DEF Run
<1>10. TypeOK'
  <2>1. /\ page_no' \in [Refs -> Nat] /\ page_count' \in [Refs -> Nat]
        /\ off' \in [Refs -> Nat] /\ len' \in [Refs -> Nat]
    <3>1. len[r] + size \in Nat
      BY <1>2
    <3> QED BY <1>1, <1>3, <1>4, <1>7, <3>1, SetStreamTyping
  <2> QED BY <1>1, <1>7, <2>1 DEF TypeOK, Pages, Panics
<1>11. PagesOwnedOnce'
  <2>1. tree \subseteq Pages /\ state' # Duplicated
    BY <1>1, <1>7 DEF TypeOK, PagesOwnedOnce
  <2>2. Owned(r) \cap tree = {}
    BY <1>1 DEF PagesOwnedOnce
  <2>3. /\ Owned(r)' \subseteq Owned(r) \cup tree
        /\ Owned(r)' \cap tree' = {}
        /\ tree' \subseteq tree \cup Owned(r)
    BY <1>6, <1>7, <1>8, <1>9, <2>2
  <2> QED BY <1>1, <1>8, <2>1, <2>3, OwnershipStep
<1>12. \A q \in Refs : Live(q)' <=> Live(q)
  BY <1>2, <1>8 DEF Live
<1>13. ReferencesExact'
  BY <1>1, <1>7, <1>12, SameReferences DEF ReferencesExact
<1>14. \A q \in Refs : len'[q] = 0 => page_count'[q] = 0
  BY <1>2, <1>8 DEF StreamInv
<1> QED BY <1>7, <1>10, <1>11, <1>13, <1>14 DEF StreamInv

LEMMA ClaimRelocateInv ==
  ASSUME StreamInv, NEW r \in Refs, NEW size \in ClaimSizes, state = "up",
         ragged' \subseteq Operations, ClaimRelocate(r, size)
  PROVE  StreamInv'
<1> DEFINE n == PagesFor(len[r] + size)
           p == Min(Fits(n))
           freed == Released(r, len[r])
           rest == tree \ Run(p, n)
<1>1. TypeOK /\ PagesOwnedOnce /\ ReferencesExact
  BY DEF StreamInv
<1>2. size \in Nat /\ size > 0 /\ len[r] \in Nat /\ len[r] > 0
  BY <1>1, SizesAssumption DEF TypeOK, ClaimRelocate, Live
<1>3. n \in Nat /\ n >= 1
  BY <1>2, PagesForPositive
<1>4. p \in Nat /\ Run(p, n) \subseteq tree
  BY <1>1, FitsAreFree DEF ClaimRelocate
<1>5. freed \subseteq Owned(r)
  <2>1. ReleasedPages(r, len[r]) \in 0 .. page_count[r]
    BY <1>1, <1>2, ReleasedPagesBound
  <2>2. page_no[r] \in Nat /\ page_count[r] \in Nat
    BY <1>1 DEF TypeOK
  <2> QED BY <2>1, <2>2 DEF Released, Owned, Run
<1>6. freed \cap rest = {}
  BY <1>1, <1>5 DEF PagesOwnedOnce
<1>7. CASE used = PageCount
  <2>1. state' = NoReferences /\ UNCHANGED <<tree, used, stream>>
    BY <1>7 DEF ClaimRelocate, Panic
  <2> QED
    BY <1>1, <2>1
    DEF StreamInv, TypeOK, PagesOwnedOnce, ReferencesExact, stream, Owned,
        Live, Panics, NoReferences, Duplicated, MissingChunks
<1>8. CASE used # PageCount
  <2>1. /\ tree' = rest \cup freed
        /\ SetStream(r, p, n, len[r] + size)
        /\ state' = state /\ used' = used
    BY <1>6, <1>8 DEF ClaimRelocate
  <2> HIDE DEF n, p, freed
  <2>2. /\ \A q \in Refs \ {r} : Owned(q)' = Owned(q) /\ len'[q] = len[q]
                                  /\ page_count'[q] = page_count[q]
        /\ Owned(r)' = Run(p, n) /\ len'[r] = len[r] + size
        /\ page_count'[r] = n
    BY <1>1, <2>1, SetStreamEffect
  <2>3. tree \subseteq Pages /\ Owned(r) \subseteq Pages \ tree
    BY <1>1 DEF TypeOK, PagesOwnedOnce
  <2>4. TypeOK'
    <3>1. /\ page_no' \in [Refs -> Nat] /\ page_count' \in [Refs -> Nat]
          /\ off' \in [Refs -> Nat] /\ len' \in [Refs -> Nat]
      <4>1. len[r] + size \in Nat
        BY <1>2
      <4> QED BY <1>1, <1>3, <1>4, <2>1, <4>1, SetStreamTyping
    <3>2. tree' \subseteq Pages
      BY <1>5, <2>1, <2>3
    <3> QED BY <1>1, <2>1, <3>1, <3>2 DEF TypeOK, Pages, Panics
  <2>5. PagesOwnedOnce'
    <3>1. state' # Duplicated
      BY <1>1, <2>1 DEF PagesOwnedOnce
    <3>2. /\ Owned(r)' \subseteq Owned(r) \cup tree
          /\ Owned(r)' \cap tree' = {}
          /\ tree' \subseteq tree \cup Owned(r)
      BY <1>4, <1>5, <2>1, <2>2, <2>3
    <3> QED BY <1>1, <2>2, <2>3, <3>1, <3>2, OwnershipStep
  <2>6. \A q \in Refs : Live(q)' <=> Live(q)
    BY <1>2, <2>2 DEF Live
  <2>7. ReferencesExact'
    BY <1>1, <2>1, <2>6, SameReferences DEF ReferencesExact
  <2>8. \A q \in Refs : len'[q] = 0 => page_count'[q] = 0
    BY <1>2, <2>2 DEF StreamInv
  <2> QED BY <2>1, <2>4, <2>5, <2>7, <2>8 DEF StreamInv
<1> QED BY <1>7, <1>8

LEMMA ReleaseInv ==
  ASSUME StreamInv, NEW r \in Refs, NEW size \in ReleaseSizes,
         ragged' \subseteq Operations, peak_stream_release(r, size)
  PROVE  StreamInv'
<1> DEFINE k == ReleasedPages(r, size)
           p == page_no[r]
           c == page_count[r]
           freed == Released(r, size)
<1>1. TypeOK /\ PagesOwnedOnce /\ ReferencesExact /\ state = "up"
  BY DEF StreamInv, peak_stream_release
<1>2. /\ size \in Nat /\ size > 0 /\ size <= len[r]
      /\ len[r] \in Nat /\ len[r] > 0 /\ p \in Nat /\ c \in Nat
  BY <1>1, SizesAssumption DEF TypeOK, peak_stream_release, Live
<1>3. k \in 0 .. c /\ (off[r] + size) - k * PageSize \in Nat
  BY <1>1, <1>2, ReleasedPagesBound
<1>4. freed = Run(p, k) /\ Owned(r) = Run(p, c)
  BY DEF Released, Owned
<1>5. freed \subseteq Owned(r)
  BY <1>2, <1>3, <1>4 DEF Run
<1>6. tree \subseteq Pages /\ Owned(r) \subseteq Pages \ tree
  BY <1>1 DEF TypeOK, PagesOwnedOnce
<1>7. freed \cap tree = {}
  BY <1>5, <1>6
<1>8. /\ tree' = tree \cup freed /\ state' = state
      /\ PutIfDone(r, size)
      /\ IF len[r] = size
         THEN SetStream(r, 0, 0, 0)
         ELSE /\ page_no' = [page_no EXCEPT ![r] = @ + k]
              /\ page_count' = [page_count EXCEPT ![r] = @ - k]
              /\ off' = [off EXCEPT ![r] = (@ + size) - k * PageSize]
              /\ len' = [len EXCEPT ![r] = @ - size]
  BY <1>7 DEF peak_stream_release
<1> HIDE DEF k, p, c, freed
<1>9. CASE len[r] = size
  <2>1. /\ \A q \in Refs \ {r} : Owned(q)' = Owned(q) /\ len'[q] = len[q]
                                  /\ page_count'[q] = page_count[q]
        /\ Owned(r)' = Run(0, 0) /\ len'[r] = 0 /\ page_count'[r] = 0
    BY <1>1, <1>8, <1>9, SetStreamEffect
  <2>2. Owned(r)' = {}
    BY <2>1 DEF Run
  <2>3. used' = used - 1
    BY <1>8, <1>9 DEF PutIfDone
  <2>4. LiveRefs' = LiveRefs \ {r} /\ r \in LiveRefs
    BY <1>2, <2>1 DEF LiveRefs, Live
  <2>5. Cardinality(LiveRefs') = Cardinality(LiveRefs) - 1
    BY <1>1, <2>4, LiveFinite, FS_RemoveElement
  <2>6. used = Cardinality(LiveRefs) /\ Cardinality(LiveRefs) # 0
    BY <1>1, <2>4, LiveFinite, FS_EmptySet DEF ReferencesExact, LiveRefs
  <2>7. TypeOK'
    <3>1. /\ page_no' \in [Refs -> Nat] /\ page_count' \in [Refs -> Nat]
          /\ off' \in [Refs -> Nat] /\ len' \in [Refs -> Nat]
      BY <1>1, <1>8, <1>9, SetStreamTyping
    <3>2. used' \in 0 .. PageCount
      BY <1>1, <2>3, <2>6, LiveFinite, PageAssumption, PageSizeAssumption DEF TypeOK
    <3> QED BY <1>1, <1>5, <1>6, <1>8, <3>1, <3>2 DEF TypeOK, Pages, Panics
  <2>8. PagesOwnedOnce'
    <3>1. state' # Duplicated
      BY <1>1, <1>8 DEF PagesOwnedOnce
    <3> QED BY <1>1, <1>5, <1>6, <1>8, <2>1, <2>2, <3>1, OwnershipStep
  <2>9. ReferencesExact'
    BY <1>1, <1>8, <2>3, <2>5, <2>6 DEF ReferencesExact, LiveRefs, MissingChunks
  <2>10. \A q \in Refs : len'[q] = 0 => page_count'[q] = 0
    BY <2>1 DEF StreamInv
  <2> QED BY <1>1, <1>8, <2>7, <2>8, <2>9, <2>10 DEF StreamInv
<1>10. CASE len[r] # size
  <2>1. /\ page_no' = [page_no EXCEPT ![r] = p + k]
        /\ page_count' = [page_count EXCEPT ![r] = c - k]
        /\ off' = [off EXCEPT ![r] = (off[r] + size) - k * PageSize]
        /\ len' = [len EXCEPT ![r] = len[r] - size]
        /\ used' = used
    BY <1>8, <1>10 DEF PutIfDone, p, c
  <2>2. \A q \in Refs \ {r} : Owned(q)' = Owned(q)
    BY <1>1, <2>1 DEF TypeOK, Owned
  <2>3. Owned(r)' = Run(p + k, c - k)
    BY <1>1, <2>1 DEF TypeOK, Owned
  <2>4. Run(p + k, c - k) = Run(p, c) \ Run(p, k)
    BY <1>2, <1>3 DEF Run
  <2>5. TypeOK'
    <3>1. page_no' \in [Refs -> Nat] /\ page_count' \in [Refs -> Nat]
      BY <1>1, <1>2, <1>3, <2>1 DEF TypeOK
    <3>2. off' \in [Refs -> Nat]
      BY <1>1, <1>3, <2>1 DEF TypeOK
    <3>3. len' \in [Refs -> Nat]
      BY <1>1, <1>2, <2>1 DEF TypeOK
    <3> QED
      BY <1>1, <1>5, <1>6, <1>8, <2>1, <3>1, <3>2, <3>3 DEF TypeOK, Pages, Panics
  <2>6. PagesOwnedOnce'
    <3>1. state' # Duplicated
      BY <1>1, <1>8 DEF PagesOwnedOnce
    <3>2. /\ Owned(r)' \subseteq Owned(r) \cup tree
          /\ Owned(r)' \cap tree' = {}
          /\ tree' \subseteq tree \cup Owned(r)
      BY <1>4, <1>5, <1>6, <1>8, <2>3, <2>4
    <3> QED BY <1>1, <1>6, <2>2, <3>1, <3>2, OwnershipStep
  <2>7. \A q \in Refs : len'[q] > 0 <=> len[q] > 0
    BY <1>1, <1>2, <1>10, <2>1 DEF TypeOK
  <2>8. ReferencesExact'
    <3>1. \A q \in Refs : Live(q)' <=> Live(q)
      BY <2>7 DEF Live
    <3> QED BY <1>1, <1>8, <2>1, <3>1, SameReferences DEF ReferencesExact
  <2>9. \A q \in Refs : len'[q] = 0 => page_count'[q] = 0
    <3> SUFFICES ASSUME NEW q \in Refs, len'[q] = 0 PROVE page_count'[q] = 0
      OBVIOUS
    <3>1. q # r
      BY <1>1, <1>2, <1>10, <2>1 DEF TypeOK
    <3> QED BY <1>1, <2>1, <3>1 DEF TypeOK, StreamInv
  <2> QED BY <1>1, <1>8, <2>5, <2>6, <2>8, <2>9 DEF StreamInv
<1> QED BY <1>9, <1>10

\* Destroying a pool needs no panic, and leaves no page with a stream.
LEMMA ExitInitInv ==
  ASSUME StreamInv, peak_stream_exit \/ peak_stream_init
  PROVE  StreamInv'
<1>1. TypeOK /\ PagesOwnedOnce /\ ReferencesExact
  BY DEF StreamInv
<1>2. CASE peak_stream_exit
  <2>1. (\A r \in Refs : ~Live(r)) /\ UNCHANGED <<tree, used, stream, ragged>>
    BY <1>2 DEF peak_stream_exit
  <2>2. \A r \in Refs : len[r] = 0
    BY <1>1, <2>1 DEF TypeOK, Live
  <2>3. {r \in Refs : Live(r)} = {}
    BY <2>1
  <2>4. used = 0
    BY <1>1, <2>3, FS_EmptySet DEF ReferencesExact
  <2>5. state' = "down"
    BY <1>2, <2>4 DEF peak_stream_exit
  <2> QED
    BY <1>1, <2>1, <2>2, <2>5
    DEF StreamInv, TypeOK, PagesOwnedOnce, ReferencesExact, stream, Owned,
        Live, Panics, Duplicated, MissingChunks
<1>3. CASE peak_stream_init
  <2>1. state = "down" /\ state' = "up" /\ tree' = Pages /\ used' = 0
        /\ UNCHANGED <<stream, ragged>>
    BY <1>3 DEF peak_stream_init
  <2>2. \A r \in Refs : len[r] = 0 /\ page_count[r] = 0
    BY <2>1 DEF StreamInv
  <2>3. \A r \in Refs : Owned(r)' = {} /\ ~Live(r)'
    <3> TAKE r \in Refs
    <3>1. page_count'[r] = 0 /\ len'[r] = 0 /\ page_no'[r] \in Nat
      BY <1>1, <2>1, <2>2 DEF stream, TypeOK
    <3> QED BY <3>1 DEF Owned, Run, Live
  <2>4. TypeOK'
    BY <1>1, <2>1, PageAssumption, PageSizeAssumption DEF TypeOK, stream, Pages, Panics
  <2>5. PagesOwnedOnce'
    BY <2>1, <2>3 DEF PagesOwnedOnce, Duplicated
  <2>6. ReferencesExact'
    <3>1. LiveRefs' = {}
      BY <2>3 DEF LiveRefs
    <3> QED BY <2>1, <3>1, FS_EmptySet DEF ReferencesExact, LiveRefs, MissingChunks
  <2> QED BY <2>1, <2>2, <2>4, <2>5, <2>6 DEF StreamInv, stream
<1> QED BY <1>2, <1>3

LEMMA StreamInvInit == Init => StreamInv
<1> SUFFICES ASSUME Init PROVE StreamInv
  OBVIOUS
<1>1. \A r \in Refs : Owned(r) = {} /\ ~Live(r)
  BY DEF Init, Owned, Run, Live
<1>2. TypeOK
  BY PageAssumption, PageSizeAssumption DEF Init, TypeOK, Pages, Panics
<1>3. PagesOwnedOnce
  BY <1>1 DEF Init, PagesOwnedOnce, Duplicated
<1>4. ReferencesExact
  <2>1. {r \in Refs : Live(r)} = {}
    BY <1>1
  <2> QED BY <2>1, FS_EmptySet DEF Init, ReferencesExact, MissingChunks
<1> QED BY <1>2, <1>3, <1>4 DEF Init, StreamInv

LEMMA StreamInvStep == StreamInv /\ [Next]_vars => StreamInv'
<1> SUFFICES ASSUME StreamInv, [Next]_vars PROVE StreamInv'
  OBVIOUS
<1>1. ASSUME NEW r \in Refs, NEW size \in ClaimSizes, peak_stream_claim(r, size)
      PROVE  StreamInv'
  <2>1. ragged' \subseteq Operations
    BY <1>1 DEF peak_stream_claim, Note, Operations, StreamInv, TypeOK
  <2>2. CASE ClaimFails(r, size)
    BY <2>1, <2>2
    DEF ClaimFails, stream, StreamInv, TypeOK, PagesOwnedOnce,
        ReferencesExact, Owned, Live
  <2> QED
    BY <1>1, <2>1, <2>2, ClaimFreshInv, ClaimTrivialInv, ClaimExtendInv,
       ClaimRelocateInv DEF peak_stream_claim
<1>2. ASSUME NEW r \in Refs, NEW size \in ReleaseSizes,
             peak_stream_release(r, size)
      PROVE  StreamInv'
  <2>1. ragged' \subseteq Operations
    BY <1>2 DEF peak_stream_release, Note, Operations, StreamInv, TypeOK
  <2> QED BY <1>2, <2>1, ReleaseInv
<1>3. CASE peak_stream_exit \/ peak_stream_init
  BY <1>3, ExitInitInv
<1>4. CASE UNCHANGED vars
  BY <1>4
  DEF vars, stream, StreamInv, TypeOK, PagesOwnedOnce, ReferencesExact, Owned, Live
<1> QED BY <1>1, <1>2, <1>3, <1>4 DEF Next

LEMMA StreamInvAlways == Spec => []StreamInv
BY StreamInvInit, StreamInvStep, PTL DEF Spec

\* The pool's bookkeeping keeps its types: no page count or offset underflows.
THEOREM StreamTyping == Spec => []TypeOK
<1>1. StreamInv => TypeOK
  BY DEF StreamInv
<1> QED BY <1>1, StreamInvAlways, PTL

(***************************************************************************)
(* No page ever belongs to two streams or to a stream and the free tree,   *)
(* and no release finds its page in the tree already.                      *)
(***************************************************************************)
THEOREM StreamOwnership == Spec => []PagesOwnedOnce
<1>1. StreamInv => PagesOwnedOnce
  BY DEF StreamInv
<1> QED BY <1>1, StreamInvAlways, PTL

(***************************************************************************)
(* References are never leaked nor returned twice: used is the number of   *)
(* live streams, and destroying an unused pool never panics.               *)
(***************************************************************************)
THEOREM StreamReferences == Spec => []ReferencesExact
<1>1. StreamInv => ReferencesExact
  BY DEF StreamInv
<1> QED BY <1>1, StreamInvAlways, PTL
-----------------------------------------------------------------------------
\* Rounding up to pages makes room for everything.
LEMMA PagesForEnough ==
  ASSUME NEW size \in Nat
  PROVE  size <= PagesFor(size) * PageSize
<1>1. PageSize \in Nat /\ PageSize > 0
  BY PageAssumption, PageSizeAssumption
<1> DEFINE a == size + (PageSize - 1)
           d == a \div PageSize
<1>2. a \in Nat
  BY <1>1
<1> HIDE DEF a
<1>3. d \in Nat /\ a < d * PageSize + PageSize
  BY <1>1, <1>2
<1>4. d * PageSize \in Nat
  BY <1>1, <1>3
<1> HIDE DEF d
<1>5. size <= d * PageSize
  BY <1>1, <1>3, <1>4 DEF a
<1>6. PagesFor(size) = d
  BY <1>1 DEF PagesFor, d, a
<1> QED BY <1>5, <1>6

(***************************************************************************)
(* What releases by the page keep up: data start with a page and fit into  *)
(* the pages of their stream.                                              *)
(***************************************************************************)
AtPageStart ==
  \A r \in Refs : off[r] = 0 /\ len[r] <= page_count[r] * PageSize

ByPageInv == "release" \notin ragged => AtPageStart

LEMMA SetStreamAtPageStart ==
  ASSUME TypeOK, AtPageStart, NEW r \in Refs, NEW p, NEW n, NEW size,
         SetStream(r, p, n, size), size <= n * PageSize
  PROVE  AtPageStart'
<1> SUFFICES ASSUME NEW q \in Refs
             PROVE  off'[q] = 0 /\ len'[q] <= page_count'[q] * PageSize
  BY DEF AtPageStart
<1>1. CASE q = r
  BY <1>1 DEF SetStream, TypeOK
<1>2. CASE q # r
  BY <1>2 DEF SetStream, TypeOK, AtPageStart
<1> QED BY <1>1, <1>2

\* All the ways of a claim size their pages by the data, from a page's start.
LEMMA ClaimAtPageStart ==
  ASSUME StreamInv, AtPageStart, NEW r \in Refs, NEW size \in ClaimSizes,
         peak_stream_claim(r, size)
  PROVE  AtPageStart' /\ \A q \in Refs : off'[q] = off[q]
<1>1. TypeOK /\ size \in Nat /\ len[r] \in Nat /\ len[r] + size \in Nat
  BY SizesAssumption DEF StreamInv, TypeOK
<1>2. /\ size <= PagesFor(size) * PageSize
      /\ len[r] + size <= PagesFor(len[r] + size) * PageSize
  BY <1>1, PagesForEnough
<1>3. CASE UNCHANGED stream
  BY <1>3 DEF stream, AtPageStart
<1>4. CASE ClaimTrivial(r, size)
  <2>1. /\ len' = [len EXCEPT ![r] = @ + size]
        /\ page_count' = page_count /\ off' = off
        /\ PagesFor(len[r] + size) - page_count[r] = 0
    BY <1>4 DEF ClaimTrivial, Extra
  <2>2. PagesFor(len[r] + size) \in Nat
    <3>1. len[r] + size > 0
      BY <1>1, <1>4 DEF ClaimTrivial, Live
    <3> QED BY <1>1, <3>1, PagesForPositive
  <2>3. page_count[r] = PagesFor(len[r] + size)
    BY <1>1, <2>1, <2>2 DEF TypeOK
  <2> SUFFICES ASSUME NEW q \in Refs
               PROVE  off'[q] = 0 /\ len'[q] <= page_count'[q] * PageSize
    BY <2>1 DEF AtPageStart
  <2>4. CASE q = r
    BY <1>1, <1>2, <2>1, <2>3, <2>4 DEF TypeOK, AtPageStart
  <2>5. CASE q # r
    BY <1>1, <2>1, <2>5 DEF TypeOK, AtPageStart
  <2> QED BY <2>4, <2>5
<1>5. CASE \E p, n, s : SetStream(r, p, n, s) /\ s <= n * PageSize
  <2>1. PICK p, n, s : SetStream(r, p, n, s) /\ s <= n * PageSize
    BY <1>5
  <2>2. AtPageStart'
    BY <1>1, <2>1, SetStreamAtPageStart
  <2> QED BY <2>2 DEF AtPageStart
<1>6. CASE ClaimFresh(r, size)
  BY <1>2, <1>3, <1>5, <1>6 DEF ClaimFresh, Panic
<1>7. CASE ClaimExtend(r, size)
  BY <1>2, <1>5, <1>7 DEF ClaimExtend
<1>8. CASE ClaimRelocate(r, size)
  BY <1>2, <1>3, <1>5, <1>8 DEF ClaimRelocate, Panic
<1>9. CASE ClaimFails(r, size)
  BY <1>3, <1>9 DEF ClaimFails
<1> QED BY <1>4, <1>6, <1>7, <1>8, <1>9 DEF peak_stream_claim

\* A release that ends with a page, or with the stream, keeps it up.
LEMMA ReleaseAtPageStart ==
  ASSUME StreamInv, AtPageStart, NEW r \in Refs, NEW size \in ReleaseSizes,
         peak_stream_release(r, size), size % PageSize = 0 \/ size = len[r]
  PROVE  AtPageStart' /\ \A q \in Refs : len'[q] <= len[q]
<1> DEFINE k == ReleasedPages(r, size)
           c == page_count[r]
           m == size \div PageSize
<1>1. /\ TypeOK /\ size \in Nat /\ size <= len[r] /\ c \in Nat /\ len[r] \in Nat
      /\ PageSize \in Nat /\ PageSize > 0 /\ len \in [Refs -> Nat]
  BY SizesAssumption, PageAssumption, PageSizeAssumption
  DEF StreamInv, TypeOK, peak_stream_release
<1>2. CASE UNCHANGED stream
  BY <1>1, <1>2 DEF stream, AtPageStart
<1>3. CASE SetStream(r, 0, 0, 0)
  <2>1. AtPageStart'
    BY <1>1, <1>3, SetStreamAtPageStart
  <2>2. \A q \in Refs : len'[q] <= len[q]
    BY <1>1, <1>3 DEF SetStream
  <2> QED BY <2>1, <2>2
<1>4. CASE /\ len[r] # size
           /\ page_count' = [page_count EXCEPT ![r] = @ - k]
           /\ off' = [off EXCEPT ![r] = (@ + size) - k * PageSize]
           /\ len' = [len EXCEPT ![r] = @ - size]
  <2>1. off[r] = 0 /\ len[r] <= c * PageSize
    BY DEF AtPageStart
  <2>2. k = Min({c, m})
    BY <1>1, <2>1 DEF ReleasedPages
  <2>3. m \in Nat /\ size = m * PageSize
    BY <1>1, <1>4
  <2>4. off' = [off EXCEPT ![r] = size - k * PageSize]
    BY <1>1, <1>4, <2>1
  <2> HIDE DEF k, m, c
  <2>5. m <= c
    <3>1. m * PageSize < c * PageSize + 1
      BY <1>1, <2>1, <2>3
    <3>2. c < m => c * PageSize + PageSize <= m * PageSize
      <4>1. c + 1 <= m => (c + 1) * PageSize <= m * PageSize
        BY <1>1, <2>3
      <4>2. (c + 1) * PageSize = c * PageSize + PageSize
        BY <1>1
      <4> QED BY <1>1, <2>3, <4>1, <4>2
    <3> QED BY <1>1, <2>3, <3>1, <3>2
  <2>6. k = m
    BY <1>1, <2>2, <2>3, <2>5, MinPair
  <2>7. len[r] - size <= (c - k) * PageSize
    <3>1. (c - k) * PageSize = c * PageSize - k * PageSize
      BY <1>1, <2>3, <2>6
    <3> QED BY <1>1, <2>1, <2>3, <2>6, <3>1
  <2>8. size - k * PageSize = 0
    BY <1>1, <2>3, <2>6
  <2>9. ASSUME NEW q \in Refs
        PROVE  /\ off'[q] = 0 /\ len'[q] <= page_count'[q] * PageSize
               /\ len'[q] <= len[q]
    <3>1. CASE q = r
      BY <1>1, <1>4, <2>4, <2>7, <2>8, <3>1 DEF TypeOK, c
    <3>2. CASE q # r
      BY <1>1, <1>4, <2>4, <3>2 DEF TypeOK, AtPageStart
    <3> QED BY <3>1, <3>2
  <2> QED BY <2>9 DEF AtPageStart
<1> QED BY <1>2, <1>3, <1>4 DEF peak_stream_release, Panic

\* A step from which releases still end with a page, and what it does.
LEMMA ByPageStep ==
  ASSUME StreamInv, AtPageStart, Next, "release" \notin ragged'
  PROVE  /\ AtPageStart'
         /\ \A r \in Refs : len'[r] > len[r] => off'[r] = off[r]
<1>1. len \in [Refs -> Nat]
  BY DEF StreamInv, TypeOK
<1>2. ASSUME NEW r \in Refs, NEW size \in ClaimSizes, peak_stream_claim(r, size)
      PROVE  /\ AtPageStart'
             /\ \A q \in Refs : len'[q] > len[q] => off'[q] = off[q]
  BY <1>2, ClaimAtPageStart
<1>3. ASSUME NEW r \in Refs, NEW size \in ReleaseSizes,
             peak_stream_release(r, size)
      PROVE  /\ AtPageStart'
             /\ \A q \in Refs : len'[q] > len[q] => off'[q] = off[q]
  <2>1. size % PageSize = 0 \/ size = len[r]
    BY <1>3 DEF peak_stream_release, Note
  <2>2. AtPageStart' /\ \A q \in Refs : len'[q] <= len[q]
    BY <1>3, <2>1, ReleaseAtPageStart
  <2> QED BY <2>2 DEF AtPageStart
<1>4. CASE peak_stream_exit \/ peak_stream_init
  BY <1>4 DEF peak_stream_exit, peak_stream_init, stream, AtPageStart
<1> QED BY <1>2, <1>3, <1>4 DEF Next

\* The history of releases never shrinks.
LEMMA RaggedGrows ==
  ASSUME [Next]_vars, "release" \notin ragged'
  PROVE  "release" \notin ragged
BY DEF Next, vars, peak_stream_claim, peak_stream_release, peak_stream_exit,
       peak_stream_init, Note

LEMMA ByPageAlways == Spec => []ByPageInv
<1>1. Init => ByPageInv
  BY PageAssumption, PageSizeAssumption DEF Init, ByPageInv, AtPageStart
<1>2. StreamInv /\ ByPageInv /\ [Next]_vars => ByPageInv'
  <2> SUFFICES ASSUME StreamInv, ByPageInv, [Next]_vars, "release" \notin ragged'
               PROVE  AtPageStart'
    BY DEF ByPageInv
  <2>1. AtPageStart
    BY RaggedGrows DEF ByPageInv
  <2>2. CASE Next
    BY <2>1, <2>2, ByPageStep
  <2>3. CASE UNCHANGED vars
    BY <2>1, <2>3 DEF vars, stream, AtPageStart
  <2> QED BY <2>2, <2>3
<1> QED BY <1>1, <1>2, StreamInvAlways, PTL DEF Spec

(***************************************************************************)
(* As long as releases end with a page or with the stream, the bytes of a  *)
(* stream lie within its own pages, however often it grew or moved.        *)
(***************************************************************************)
THEOREM StreamInBounds == Spec => []InBoundsByPage
<1>1. StreamInv /\ ByPageInv => InBoundsByPage
  BY DEF StreamInv, TypeOK, ByPageInv, AtPageStart, InBoundsByPage, InBounds
<1> QED BY <1>1, StreamInvAlways, ByPageAlways, PTL

(***************************************************************************)
(* As long as releases end with a page or with the stream, a stream that   *)
(* grows where it is keeps its first byte where it was.                    *)
(***************************************************************************)
THEOREM StreamGrows == Spec => GrowKeepsData
<1> DEFINE Grows ==
      \A r \in Refs :
        /\ "release" \notin ragged
        /\ Live(r) /\ len'[r] > len[r] /\ page_no'[r] = page_no[r]
        => off'[r] = off[r]
<1>1. StreamInv /\ ByPageInv /\ [Next]_vars => [Grows]_vars
  <2> SUFFICES ASSUME StreamInv, ByPageInv, Next, "release" \notin ragged,
                      NEW r \in Refs, len'[r] > len[r]
               PROVE  off'[r] = off[r]
    OBVIOUS
  <2>1. AtPageStart
    BY DEF ByPageInv
  <2>2. CASE "release" \notin ragged'
    BY <2>1, <2>2, ByPageStep
  <2>3. CASE "release" \in ragged'
    <3>1. PICK q \in Refs, size \in ReleaseSizes : peak_stream_release(q, size)
      BY <2>3
      DEF Next, peak_stream_claim, peak_stream_exit, peak_stream_init, Note
    <3>2. len \in [Refs -> Nat] /\ size \in Nat
      BY SizesAssumption DEF StreamInv, TypeOK
    <3>3. \/ len' = len
          \/ len' = [len EXCEPT ![q] = 0]
          \/ len' = [len EXCEPT ![q] = @ - size]
      BY <3>1 DEF peak_stream_release, Panic, SetStream, stream
    <3>4. ~(len'[r] > len[r])
      BY <3>2, <3>3
    <3> QED BY <3>4
  <2> QED BY <2>2, <2>3
<1> QED BY <1>1, StreamInvAlways, ByPageAlways, PTL DEF Spec, GrowKeepsData
-----------------------------------------------------------------------------
(***************************************************************************)
(* References.  A live stream that starts with a page has a page, and no   *)
(* two streams have the same first page: while one page is free, there are *)
(* fewer streams than pages.                                               *)
(***************************************************************************)
LEMMA LiveOwnsPage ==
  ASSUME StreamInv, AtPageStart, NEW r \in Refs, Live(r)
  PROVE  page_no[r] \in Owned(r)
<1>1. PageSize \in Nat /\ page_count[r] \in Nat /\ page_no[r] \in Nat /\ len[r] \in Nat
  BY PageAssumption, PageSizeAssumption DEF StreamInv, TypeOK
<1>2. page_count[r] # 0
  <2>1. SUFFICES ASSUME page_count[r] = 0 PROVE FALSE
    OBVIOUS
  <2>2. page_count[r] * PageSize = 0
    BY <1>1, <2>1
  <2> QED BY <1>1, <2>2 DEF AtPageStart, Live
<1> QED BY <1>1, <1>2 DEF Owned, Run

\* The pigeonhole: a free page leaves a reference.
LEMMA ReferenceLeft ==
  ASSUME StreamInv, AtPageStart, tree # {}
  PROVE  used # PageCount
<1> DEFINE T == Pages \ tree
           f == [r \in LiveRefs |-> page_no[r]]
<1>1. IsFiniteSet(Pages) /\ Cardinality(Pages) = PageCount /\ PageCount \in Nat
  BY PageAssumption, PageSizeAssumption, FS_Interval DEF Pages
<1>2. tree \subseteq Pages
  BY DEF StreamInv, TypeOK
<1>3. IsFiniteSet(T) /\ Cardinality(T) <= PageCount /\ (Cardinality(T) = PageCount => T = Pages)
  BY <1>1, FS_Subset
<1>4. T # Pages
  BY <1>2
<1>5. Cardinality(T) # PageCount
  BY <1>3, <1>4
<1>6. ASSUME NEW r \in LiveRefs PROVE page_no[r] \in Owned(r) /\ page_no[r] \in T
  <2>1. r \in Refs /\ Live(r)
    BY DEF LiveRefs
  <2>2. page_no[r] \in Owned(r)
    BY <2>1, LiveOwnsPage
  <2> QED BY <2>1, <2>2 DEF StreamInv, PagesOwnedOnce
<1>7. f \in Injection(LiveRefs, T)
  <2>1. f \in [LiveRefs -> T]
    BY <1>6
  <2>2. ASSUME NEW r \in LiveRefs, NEW q \in LiveRefs, f[r] = f[q] PROVE r = q
    <3>1. page_no[r] \in Owned(r) /\ page_no[r] \in Owned(q)
      BY <1>6, <2>2
    <3> QED BY <3>1 DEF LiveRefs, StreamInv, PagesOwnedOnce
  <2> HIDE DEF f, T
  <2> QED BY <2>1, <2>2 DEF Injection, IsInjective
<1> HIDE DEF f, T
<1>8. Cardinality(LiveRefs) <= Cardinality(T)
  BY <1>3, <1>7, FS_Injection
<1>9. Cardinality(T) \in Nat /\ used = Cardinality(LiveRefs) /\ used \in Nat
  <2>1. Cardinality(T) \in Nat
    BY <1>3, FS_CardinalityType
  <2> QED BY <2>1 DEF StreamInv, TypeOK, ReferencesExact, LiveRefs
<1> QED BY <1>1, <1>3, <1>5, <1>8, <1>9

\* A run of free pages has one.
LEMMA FitsLeave ==
  ASSUME NEW n, Fits(n) # {}
  PROVE  tree # {}
BY DEF Fits

\* So the panic is out of reach.
LEMMA NoReferencePanicAlways == Spec => []NoReferencePanic
<1>1. Init => NoReferencePanic
  BY DEF Init, NoReferencePanic, NoReferences
<1>2. StreamInv /\ ByPageInv /\ NoReferencePanic /\ [Next]_vars => NoReferencePanic'
  <2> SUFFICES ASSUME StreamInv, ByPageInv, NoReferencePanic, [Next]_vars,
                      "release" \notin ragged'
               PROVE  state' # NoReferences
    BY DEF NoReferencePanic, NoReferences
  <2>1. AtPageStart /\ state # NoReferences
    BY RaggedGrows DEF ByPageInv, NoReferencePanic
  <2>2. ASSUME NEW r \in Refs, NEW size \in ClaimSizes, peak_stream_claim(r, size)
        PROVE  state' # NoReferences
    <3>1. CASE ClaimFresh(r, size)
      <4>1. used # PageCount
        BY <2>1, <3>1, FitsLeave, ReferenceLeft DEF ClaimFresh
      <4> QED BY <2>1, <3>1, <4>1 DEF ClaimFresh
    <3>2. CASE ClaimRelocate(r, size)
      <4>1. used # PageCount
        BY <2>1, <3>2, FitsLeave, ReferenceLeft DEF ClaimRelocate
      <4> QED BY <2>1, <3>2, <4>1 DEF ClaimRelocate, Panic, Duplicated, NoReferences
    <3>3. CASE ClaimTrivial(r, size) \/ ClaimExtend(r, size) \/ ClaimFails(r, size)
      BY <2>1, <3>3 DEF ClaimTrivial, ClaimExtend, ClaimFails
    <3> QED BY <2>2, <3>1, <3>2, <3>3 DEF peak_stream_claim
  <2>3. ASSUME NEW r \in Refs, NEW size \in ReleaseSizes, peak_stream_release(r, size)
        PROVE  state' # NoReferences
    BY <2>1, <2>3 DEF peak_stream_release, Panic, Duplicated, NoReferences
  <2>4. CASE peak_stream_exit \/ peak_stream_init
    BY <2>4 DEF peak_stream_exit, peak_stream_init, MissingChunks, NoReferences
  <2>5. CASE UNCHANGED vars
    BY <2>1, <2>5 DEF vars
  <2> QED BY <2>2, <2>3, <2>4, <2>5 DEF Next
<1> QED BY <1>1, <1>2, StreamInvAlways, ByPageAlways, PTL DEF Spec
-----------------------------------------------------------------------------
(***************************************************************************)
(* Pages.  While all sizes are whole pages, a stream fills its pages, so   *)
(* the pages a release or a relocation returns are all it has to return.   *)
(***************************************************************************)
Filled == \A r \in Refs : off[r] = 0 /\ len[r] = PageSize * page_count[r]

Covered == tree \cup UNION {Owned(r) : r \in Refs} = Pages

WholeInv == ragged = {} => Filled /\ (state = "up" => Covered)

\* Whole pages need no rounding.
LEMMA WholePages ==
  ASSUME NEW m \in Nat
  PROVE  PagesFor(PageSize * m) = m /\ (PageSize * m) \div PageSize = m
<1>1. PageSize \in Nat \ {0}
  BY PageAssumption, PageSizeAssumption
<1>2. (PageSize * m + 0) \div PageSize = m
  BY <1>1, DivModUnique
<1>3. PageSize - 1 \in Int /\ 0 <= PageSize - 1 /\ PageSize - 1 < PageSize
  BY <1>1
<1>4. (PageSize * m + (PageSize - 1)) \div PageSize = m
  BY <1>1, <1>3, DivModUnique
<1> DEFINE x == PageSize * m
<1>5. x \in Nat
  BY <1>1
<1>6. (x + 0) \div PageSize = m /\ (x + (PageSize - 1)) \div PageSize = m
  BY <1>2, <1>4
<1> HIDE DEF x
<1>7. x + 0 = x /\ x + (PageSize - 1) = x + PageSize - 1
  BY <1>1, <1>5
<1>8. PagesFor(x) = m /\ x \div PageSize = m
  BY <1>6, <1>7 DEF PagesFor
<1> QED BY <1>8 DEF x

\* A size without a remainder is a number of pages.
LEMMA Multiple ==
  ASSUME NEW a \in Nat, a % PageSize = 0
  PROVE  \E m \in Nat : a = PageSize * m
<1>1. PageSize \in Nat \ {0}
  BY PageAssumption, PageSizeAssumption
<1> DEFINE m == a \div PageSize
<1>2. a = PageSize * m + 0 /\ m \in Int
  BY <1>1, DivMod
<1>3. PageSize * m \in Int
  BY <1>1, <1>2
<1>4. a = PageSize * m
  <2> DEFINE x == PageSize * m
  <2>1. a = x + 0 /\ x \in Int
    BY <1>2, <1>3
  <2> HIDE DEF x
  <2>2. a = x
    BY <2>1
  <2> QED BY <2>2 DEF x
<1>5. m \in Nat
  BY <1>1
<1> QED BY <1>4, <1>5

\* Pages that move between the tree and one stream stay covered.
LEMMA CoveredStep ==
  ASSUME Covered, NEW r \in Refs, \A q \in Refs \ {r} : Owned(q)' = Owned(q),
         tree' \cup Owned(r)' = tree \cup Owned(r)
  PROVE  Covered'
<1> DEFINE U == UNION {Owned(q) : q \in Refs}
           V == UNION {Owned(q)' : q \in Refs}
<1>1. ASSUME NEW x PROVE x \in tree \cup U <=> x \in tree' \cup V
  <2>1. \A q \in Refs \ {r} : x \in Owned(q)' <=> x \in Owned(q)
    OBVIOUS
  <2>2. x \in tree' \cup Owned(r)' <=> x \in tree \cup Owned(r)
    OBVIOUS
  <2>3. x \in U <=> \E q \in Refs : x \in Owned(q)
    OBVIOUS
  <2>4. x \in V <=> \E q \in Refs : x \in Owned(q)'
    OBVIOUS
  <2> HIDE DEF U, V
  <2> QED BY <2>1, <2>2, <2>3, <2>4
<1>2. tree \cup U = tree' \cup V
  <2> HIDE DEF U, V
  <2> QED BY <1>1
<1>3. tree \cup U = Pages
  BY DEF Covered
<1>4. tree' \cup V = Pages
  BY <1>2, <1>3
<1> QED BY <1>4 DEF Covered, Pages

\* A stream that is set to whole pages fills them.
LEMMA SetStreamFilled ==
  ASSUME TypeOK, Filled, NEW r \in Refs, NEW p, NEW n, NEW size,
         SetStream(r, p, n, size), size = PageSize * n
  PROVE  Filled'
<1> SUFFICES ASSUME NEW q \in Refs
             PROVE  off'[q] = 0 /\ len'[q] = PageSize * page_count'[q]
  BY DEF Filled
<1>1. CASE q = r
  BY <1>1 DEF SetStream, TypeOK
<1>2. CASE q # r
  BY <1>2 DEF SetStream, TypeOK, Filled
<1> QED BY <1>1, <1>2

\* What a claim of m pages asks for.
LEMMA ClaimPages ==
  ASSUME StreamInv, Filled, NEW r \in Refs, NEW m \in Nat
  PROVE  /\ len[r] + PageSize * m = PageSize * (page_count[r] + m)
         /\ PagesFor(len[r] + PageSize * m) = page_count[r] + m
         /\ page_count[r] + m \in Nat
<1>1. page_count[r] \in Nat /\ PageSize \in Nat /\ len[r] = PageSize * page_count[r]
  BY PageAssumption, PageSizeAssumption DEF StreamInv, TypeOK, Filled
<1> DEFINE c == page_count[r]
<1>2. c \in Nat /\ c + m \in Nat
  BY <1>1
<1> HIDE DEF c
<1>3. PageSize * c + PageSize * m = PageSize * (c + m)
  BY <1>1, <1>2
<1>4. PagesFor(PageSize * (c + m)) = c + m
  BY <1>2, WholePages
<1> QED BY <1>1, <1>2, <1>3, <1>4 DEF c

\* A stream that fills its pages returns all of them when it is released.
LEMMA ReleasedAll ==
  ASSUME StreamInv, Filled, NEW r \in Refs
  PROVE  Released(r, len[r]) = Owned(r)
<1> DEFINE c == page_count[r]
<1>1. c \in Nat /\ off[r] = 0 /\ len[r] = PageSize * c /\ PageSize \in Nat
  BY PageAssumption, PageSizeAssumption DEF StreamInv, TypeOK, Filled
<1>2. (PageSize * c) \div PageSize = c
  BY <1>1, WholePages
<1>3. off[r] + len[r] = PageSize * c
  <2>1. PageSize * c \in Nat
    BY <1>1
  <2> QED BY <1>1, <2>1
<1>4. ReleasedPages(r, len[r]) = Min({c, c})
  BY <1>2, <1>3 DEF ReleasedPages
<1> HIDE DEF c
<1>5. Min({c, c}) = c
  BY <1>1, MinPair
<1> QED BY <1>4, <1>5 DEF Released, Owned, c

\* A claim of whole pages moves pages from the tree to the stream ...
LEMMA ClaimWhole ==
  ASSUME StreamInv, Filled, Covered, state = "up", NEW r \in Refs, NEW size \in ClaimSizes,
         peak_stream_claim(r, size), size % PageSize = 0
  PROVE  Filled' /\ (state' = "up" => Covered')
<1>0. TypeOK /\ size \in Nat /\ size > 0 /\ page_count[r] \in Nat /\ page_no[r] \in Nat
      /\ PageSize \in Nat /\ PageSize > 0
  BY SizesAssumption, PageAssumption, PageSizeAssumption DEF StreamInv, TypeOK
<1>1. PICK m \in Nat : size = PageSize * m
  BY <1>0, Multiple
<1>2. m # 0
  BY <1>0, <1>1
<1> DEFINE c == page_count[r]
           x == len[r] + size
<1>3. x = PageSize * (c + m) /\ PagesFor(x) = c + m /\ c + m \in Nat
  BY <1>1, ClaimPages
<1>4. PagesFor(size) = m
  BY <1>1, WholePages
<1>5. ASSUME UNCHANGED <<tree, stream>> PROVE Filled' /\ Covered'
  BY <1>5 DEF stream, Filled, Covered, Owned, Pages
<1>6. CASE ClaimFresh(r, size)
  <2> DEFINE p == Min(Fits(m))
  <2>1. CASE used = PageCount
    BY <1>5, <1>6, <2>1 DEF ClaimFresh, Panic
  <2>2. CASE used # PageCount
    <3>1. tree' = tree \ Run(p, m) /\ SetStream(r, p, m, size) /\ Fits(m) # {} /\ ~Live(r)
      BY <1>4, <1>6, <2>2 DEF ClaimFresh
    <3>2. Run(p, m) \subseteq tree
      BY <1>0, <3>1, FitsAreFree
    <3> HIDE DEF p
    <3>3. (\A q \in Refs \ {r} : Owned(q)' = Owned(q)) /\ Owned(r)' = Run(p, m)
      BY <1>0, <3>1, SetStreamEffect
    <3>4. Owned(r) = {}
      <4>1. len[r] = 0
        BY <3>1 DEF Live, StreamInv, TypeOK
      <4>2. page_count[r] = 0
        BY <4>1 DEF StreamInv
      <4> QED BY <1>0, <4>2 DEF Owned, Run
    <3>5. tree' \cup Owned(r)' = tree \cup Owned(r)
      BY <3>1, <3>2, <3>3, <3>4
    <3>6. Covered'
      BY <3>3, <3>5, CoveredStep
    <3>7. Filled'
      BY <1>0, <1>1, <3>1, SetStreamFilled
    <3> QED BY <3>6, <3>7
  <2> QED BY <2>1, <2>2
<1>7. CASE ClaimTrivial(r, size)
  BY <1>0, <1>2, <1>3, <1>7 DEF ClaimTrivial, Extra
<1>8. CASE ClaimExtend(r, size)
  <2> DEFINE p == page_no[r]
             E == Run(p + c, (c + m) - c)
  <2>1. tree' = tree \ E /\ E \subseteq tree /\ SetStream(r, p, c + m, x)
    BY <1>3, <1>8 DEF ClaimExtend, CanExtend, Extension, Extra
  <2>2. (\A q \in Refs \ {r} : Owned(q)' = Owned(q)) /\ Owned(r)' = Run(p, c + m)
    BY <1>0, <2>1, SetStreamEffect
  <2>3. Run(p, c + m) = Run(p, c) \cup E
    BY <1>0 DEF Run
  <2>4. Owned(r) = Run(p, c)
    BY DEF Owned
  <2> HIDE DEF E, p
  <2>5. tree' \cup Owned(r)' = tree \cup Owned(r)
    BY <2>1, <2>2, <2>3, <2>4
  <2>6. Covered'
    BY <2>2, <2>5, CoveredStep
  <2>7. Filled'
    BY <1>0, <1>3, <2>1, SetStreamFilled
  <2> QED BY <2>6, <2>7
<1>9. CASE ClaimRelocate(r, size)
  <2> DEFINE p == Min(Fits(c + m))
             rest == tree \ Run(p, c + m)
  <2>1. Released(r, len[r]) = Owned(r) /\ Fits(c + m) # {}
    BY <1>3, <1>9, ReleasedAll DEF ClaimRelocate
  <2>2. \/ UNCHANGED <<tree, stream>>
        \/ tree' = rest \cup Owned(r) /\ SetStream(r, p, c + m, x)
    BY <1>3, <1>9, <2>1 DEF ClaimRelocate, Panic
  <2>3. CASE tree' = rest \cup Owned(r) /\ SetStream(r, p, c + m, x)
    <3>1. Run(p, c + m) \subseteq tree
      BY <1>0, <2>1, FitsAreFree
    <3>2. (\A q \in Refs \ {r} : Owned(q)' = Owned(q)) /\ Owned(r)' = Run(p, c + m)
      BY <1>0, <2>3, SetStreamEffect
    <3>3. tree' \cup Owned(r)' = tree \cup Owned(r)
      BY <2>3, <3>1, <3>2
    <3>4. Covered'
      BY <3>2, <3>3, CoveredStep
    <3>5. Filled'
      BY <1>0, <1>3, <2>3, SetStreamFilled
    <3> QED BY <3>4, <3>5
  <2> QED BY <1>5, <2>2, <2>3
<1>10. CASE ClaimFails(r, size)
  BY <1>5, <1>10 DEF ClaimFails
<1> QED BY <1>6, <1>7, <1>8, <1>9, <1>10 DEF peak_stream_claim

\* ... and a release of whole pages, or of everything, moves them back.
LEMMA ReleaseWhole ==
  ASSUME StreamInv, Filled, Covered, NEW r \in Refs, NEW size \in ReleaseSizes,
         peak_stream_release(r, size), size % PageSize = 0 \/ size = len[r]
  PROVE  Filled' /\ Covered'
<1> DEFINE c == page_count[r]
           p == page_no[r]
           k == ReleasedPages(r, size)
<1>0. /\ TypeOK /\ size \in Nat /\ c \in Nat /\ p \in Nat
      /\ PageSize \in Nat /\ PageSize > 0 /\ size <= len[r]
      /\ off[r] = 0 /\ len[r] = PageSize * c
  BY SizesAssumption, PageAssumption, PageSizeAssumption DEF StreamInv, TypeOK, Filled, peak_stream_release
<1>1. CASE UNCHANGED <<tree, stream>>
  BY <1>1 DEF stream, Filled, Covered, Owned, Pages
<1>2. CASE size = len[r] /\ tree' = tree \cup Released(r, size) /\ SetStream(r, 0, 0, 0)
  <2>1. Released(r, size) = Owned(r)
    BY <1>2, ReleasedAll
  <2>2. (\A q \in Refs \ {r} : Owned(q)' = Owned(q)) /\ Owned(r)' = Run(0, 0)
    BY <1>0, <1>2, SetStreamEffect
  <2>3. Run(0, 0) = {}
    BY DEF Run
  <2>4. Covered'
    BY <1>2, <2>1, <2>2, <2>3, CoveredStep
  <2>5. 0 = PageSize * 0
    BY <1>0
  <2>6. Filled'
    BY <1>0, <1>2, <2>5, SetStreamFilled
  <2> QED BY <2>4, <2>6
<1>3. CASE /\ size # len[r] /\ tree' = tree \cup Released(r, size)
           /\ page_no' = [page_no EXCEPT ![r] = @ + k]
           /\ page_count' = [page_count EXCEPT ![r] = @ - k]
           /\ off' = [off EXCEPT ![r] = (@ + size) - k * PageSize]
           /\ len' = [len EXCEPT ![r] = @ - size]
  <2>1. PICK m \in Nat : size = PageSize * m
    BY <1>0, <1>3, Multiple
  <2>2. k = Min({c, m})
    <3>1. off[r] + size = PageSize * m
      BY <1>0, <2>1
    <3> QED BY <3>1, WholePages DEF ReleasedPages
  <2>3. m <= c
    BY <1>0, <2>1
  <2>4. k = m
    BY <1>0, <2>2, <2>3, MinPair
  <2>5. Released(r, size) = Run(p, m) /\ Owned(r) = Run(p, c)
    BY <2>4 DEF Released, Owned
  <2>6. Owned(r)' = Run(p + m, c - m) /\ \A q \in Refs \ {r} : Owned(q)' = Owned(q)
    BY <1>0, <1>3, <2>4 DEF Owned, TypeOK
  <2>7. Run(p, c) = Run(p, m) \cup Run(p + m, c - m)
    BY <1>0, <2>3 DEF Run
  <2>8. Covered'
    BY <1>3, <2>5, <2>6, <2>7, CoveredStep
  <2>9. (off[r] + size) - k * PageSize = 0 /\ len[r] - size = PageSize * (c - k)
    BY <1>0, <2>1, <2>4
  <2> HIDE DEF k
  <2>10. Filled'
    <3> SUFFICES ASSUME NEW q \in Refs
                 PROVE  off'[q] = 0 /\ len'[q] = PageSize * page_count'[q]
      BY DEF Filled
    <3>1. CASE q = r
      BY <1>0, <1>3, <2>9, <3>1 DEF TypeOK
    <3>2. CASE q # r
      BY <1>0, <1>3, <3>2 DEF TypeOK, Filled
    <3> QED BY <3>1, <3>2
  <2> QED BY <2>8, <2>10
<1> QED BY <1>1, <1>2, <1>3 DEF peak_stream_release, Panic

\* No page gets lost on the way.
LEMMA WholeAlways == Spec => []WholeInv
<1>1. Init => WholeInv
  <2> SUFFICES ASSUME Init PROVE Filled /\ Covered
    BY DEF WholeInv
  <2>1. Filled
    BY PageAssumption, PageSizeAssumption DEF Init, Filled
  <2>2. \A r \in Refs : Owned(r) = {}
    BY DEF Init, Owned, Run
  <2>3. Covered
    BY <2>2 DEF Init, Covered
  <2> QED BY <2>1, <2>3
<1>2. StreamInv /\ WholeInv /\ [Next]_vars => WholeInv'
  <2> SUFFICES ASSUME StreamInv, WholeInv, [Next]_vars, ragged' = {}
               PROVE  Filled' /\ (state' = "up" => Covered')
    BY DEF WholeInv
  <2>1. ragged = {}
    BY DEF Next, vars, peak_stream_claim, peak_stream_release, peak_stream_exit,
           peak_stream_init, Note
  <2>2. Filled /\ (state = "up" => Covered)
    BY <2>1 DEF WholeInv
  <2>3. ASSUME NEW r \in Refs, NEW size \in ClaimSizes, peak_stream_claim(r, size)
        PROVE  Filled' /\ (state' = "up" => Covered')
    <3>1. size % PageSize = 0 /\ state = "up"
      BY <2>3 DEF peak_stream_claim, Note
    <3> QED BY <2>2, <2>3, <3>1, ClaimWhole
  <2>4. ASSUME NEW r \in Refs, NEW size \in ReleaseSizes, peak_stream_release(r, size)
        PROVE  Filled' /\ (state' = "up" => Covered')
    <3>1. (size % PageSize = 0 \/ size = len[r]) /\ state = "up"
      BY <2>4 DEF peak_stream_release, Note
    <3> QED BY <2>2, <2>4, <3>1, ReleaseWhole
  <2>5. CASE peak_stream_exit
    BY <2>2, <2>5 DEF peak_stream_exit, stream, Filled, MissingChunks
  <2>6. CASE peak_stream_init
    <3>1. Filled' /\ tree' = Pages /\ page_count' = page_count /\ page_no' = page_no
      BY <2>2, <2>6 DEF peak_stream_init, stream, Filled
    <3>2. \A r \in Refs : Owned(r)' = {}
      <4>1. \A r \in Refs : page_count[r] = 0 /\ page_no[r] \in Nat
        BY <2>6 DEF peak_stream_init, StreamInv, TypeOK
      <4> QED BY <3>1, <4>1 DEF Owned, Run
    <3>3. Covered'
      BY <3>1, <3>2 DEF Covered, Pages
    <3> QED BY <3>1, <3>3
  <2>7. CASE UNCHANGED vars
    <3>1. tree' = tree /\ stream' = stream /\ state' = state
      BY <2>7 DEF vars
    <3> QED BY <2>2, <3>1 DEF stream, Filled, Covered, Owned, Pages
  <2> QED BY <2>3, <2>4, <2>5, <2>6, <2>7 DEF Next
<1> QED BY <1>1, <1>2, StreamInvAlways, PTL DEF Spec

(***************************************************************************)
(* Whole pages never get lost between tree and streams, and as long as     *)
(* releases end with a page or with the stream, the references last as     *)
(* long as the pages: peak_stream_get() never panics.                      *)
(***************************************************************************)
THEOREM StreamNothingLost == Spec => []NothingLost
<1>1. WholeInv /\ NoReferencePanic => NothingLost
  BY DEF WholeInv, Covered, NoPageLost, NothingLost
<1> QED BY <1>1, WholeAlways, NoReferencePanicAlways, PTL
-----------------------------------------------------------------------------
(***************************************************************************)
(* The page search is first fit, for every pool, any set of free pages and *)
(* any request.                                                            *)
(*                                                                         *)
(* The jump over the pages just counted is what has to be justified: a     *)
(* probe that stopped early stopped at a hole, and every run that starts   *)
(* on a counted page and is long enough would have to cross that hole.     *)
(***************************************************************************)

\* q is the first page of T at p or behind it, or NULL.
FirstFrom(T, p, q) ==
  /\ q \in T \cup {NULL}
  /\ q >= p
  /\ \A r \in T : r >= p => r >= q

\* What a request is, and what stays as it was during the search.
CallInv ==
  /\ want # 0
  /\ start = -1 => want > 0
  /\ pc \in {"probe", "skip"} => tree = before /\ ret = STREAM_ERROR

\* Counted pages are free and consecutive, next is the first one behind them.
ProbeInv ==
  pc = "probe" =>
    /\ start = -1 => page \in tree
    /\ start # -1 => page = RB_FIND(tree, start)
    /\ Run(page, count) \subseteq tree
    /\ want > 0 => count <= want
    /\ page # NULL => FirstFrom(tree, page + count, next)
    /\ page = NULL => next = NULL

\* The pages still to be skipped are free, and next is where skipping ends.
SkipInv ==
  pc = "skip" =>
    /\ start = -1
    /\ Run(page, count) \subseteq tree
    /\ count = 0 => page = next
    /\ count > 0 => FirstFrom(tree, page + count, next)
    /\ next \in tree \cup {NULL}

\* The first pages of the run found are gone, page is the one to go next.
UnhookInv ==
  pc = "unhook" =>
    /\ ret = Answer
    /\ ret # STREAM_ERROR
    /\ Run(ret, want) \subseteq before
    /\ tree = before \ Run(ret, count)
    /\ want > 0 => count <= want
    /\ want < 0 => count = 0
    /\ count < want => page = ret + count

SearchInv ==
  /\ SearchTypeOK
  /\ CallInv
  /\ NothingMissed
  /\ ProbeInv
  /\ SkipInv
  /\ UnhookInv
  /\ SearchIsFirstFit
-----------------------------------------------------------------------------
\* The walks of the tree return the first page of a part of it, or NULL.
LEMMA TreeWalks ==
  ASSUME NEW T, T \subseteq Pages, NEW p \in Nat
  PROVE  /\ FirstFrom(T, p + 1, RB_NEXT(T, p)) \/ p >= NULL
         /\ RB_NEXT(T, p) \in Pages \cup {NULL}
         /\ FirstFrom(T, 0, RB_MIN(T))
<1>1. NULL \in Nat /\ \A q \in Pages : q \in Nat /\ q < NULL
  BY PageAssumption DEF Pages, NULL
<1> DEFINE N == {q \in T : q > p} \cup {NULL}
           M == T \cup {NULL}
<1>2. N \subseteq Nat /\ N # {} /\ M \subseteq Nat /\ M # {}
  BY <1>1
<1>3. Min(N) \in N /\ \A y \in N : Min(N) <= y
  BY <1>2, MinNat
<1>4. Min(M) \in M /\ \A y \in M : Min(M) <= y
  BY <1>2, MinNat
<1>5. RB_NEXT(T, p) = Min(N) /\ RB_MIN(T) = Min(M)
  BY DEF RB_NEXT, RB_MIN
<1> HIDE DEF N, M
<1>6. \A q \in N : q = NULL \/ (q \in T /\ q > p)
  BY DEF N
<1>7. \A q \in T : q \in Nat /\ (q > p => q \in N) /\ q \in M
  BY <1>1 DEF N, M
<1>8. \A q \in M : q = NULL \/ q \in T
  BY DEF M
<1>9. FirstFrom(T, 0, Min(M))
  BY <1>1, <1>4, <1>7, <1>8 DEF FirstFrom
<1>10. FirstFrom(T, p + 1, Min(N)) \/ p >= NULL
  BY <1>1, <1>3, <1>6, <1>7 DEF FirstFrom
<1>11. Min(N) \in Pages \cup {NULL}
  BY <1>3, <1>6
<1> QED BY <1>5, <1>9, <1>10, <1>11

\* There is only one first page.
LEMMA FirstUnique ==
  ASSUME NEW T, T \subseteq Pages, NEW p \in Int, NEW q, NEW r,
         FirstFrom(T, p, q), FirstFrom(T, p, r)
  PROVE  q = r
<1>1. NULL \in Nat /\ \A x \in T : x \in Nat /\ x < NULL
  BY PageAssumption DEF Pages, NULL
<1> QED BY <1>1 DEF FirstFrom

\* A page of the tree is the first one from itself on.
LEMMA FirstSelf ==
  ASSUME NEW T, T \subseteq Pages, NEW p \in T
  PROVE  FirstFrom(T, p, p)
BY DEF FirstFrom, Pages

\* The first one from a page that is not there is the first one behind it.
LEMMA FirstBehind ==
  ASSUME NEW T, T \subseteq Pages, NEW p \in Int, p \notin T, NEW q,
         FirstFrom(T, p + 1, q)
  PROVE  FirstFrom(T, p, q)
<1>1. NULL \in Nat /\ \A x \in T : x \in Nat /\ x < NULL
  BY PageAssumption DEF Pages, NULL
<1> QED BY <1>1 DEF FirstFrom

\* A run in the tree ends before NULL.
LEMMA RunInside ==
  ASSUME NEW T, T \subseteq Pages, NEW p \in Nat, NEW n \in Nat, n > 0,
         Run(p, n) \subseteq T
  PROVE  p \in T /\ p + n <= NULL /\ p < NULL
<1>1. p \in Run(p, n) /\ p + n - 1 \in Run(p, n)
  BY DEF Run
<1>2. p + n - 1 \in Pages /\ p \in Pages
  BY <1>1
<1> QED BY <1>1, <1>2, PageAssumption DEF Pages, NULL
-----------------------------------------------------------------------------
\* A search starts with nothing counted and nothing behind it.
LEMMA SearchStarts == SearchInit => SearchInv
<1> SUFFICES ASSUME SearchInit PROVE SearchInv
  OBVIOUS
<1>1. NULL \in Nat /\ PageCount \in Nat /\ NULL = PageCount
  BY PageAssumption DEF NULL
<1>2. tree \subseteq Pages /\ tree = before /\ want \in Requests /\ want # 0 /\ want \in Int
  BY RequestsAssumption DEF SearchInit
<1>3. FirstFrom(tree, 0, RB_MIN(tree))
  BY <1>2, TreeWalks
<1>4. \A q \in tree : q \in Nat /\ q < NULL
  BY <1>1, <1>2 DEF Pages
<1>5. start = -1 => page \in tree /\ \A q \in tree : q >= page
  <2> SUFFICES ASSUME start = -1
               PROVE  page \in tree /\ \A q \in tree : q >= page
    OBVIOUS
  <2>1. tree # {} /\ page = RB_MIN(tree)
    BY DEF SearchInit
  <2>2. page # NULL
    BY <1>1, <1>3, <1>4, <2>1 DEF FirstFrom
  <2> QED BY <1>3, <1>4, <2>1, <2>2 DEF FirstFrom
<1>6. start # -1 => page = RB_FIND(tree, start)
  BY DEF SearchInit
<1>7. page \in tree \cup {NULL}
  BY <1>5, <1>6 DEF RB_FIND
<1>8. next = page /\ count = 0 /\ pc = "probe" /\ ret = STREAM_ERROR
  BY DEF SearchInit
<1>9. Run(page, count) = {}
  BY <1>1, <1>2, <1>4, <1>7, <1>8 DEF Run
<1>10. SearchTypeOK
  BY <1>1, <1>2, <1>7, <1>8 DEF SearchTypeOK, SearchInit
<1>11. CallInv
  BY <1>2, <1>8 DEF CallInv, SearchInit
<1>12. NothingMissed
  BY <1>5, <1>8 DEF NothingMissed, FitsIn
<1>13. page # NULL => FirstFrom(tree, page + count, next)
  <2> SUFFICES ASSUME page # NULL PROVE FirstFrom(tree, page + count, next)
    OBVIOUS
  <2>1. page \in tree /\ page + count = page /\ next = page
    BY <1>4, <1>7, <1>8
  <2> QED BY <1>2, <2>1, FirstSelf
<1>14. ProbeInv
  BY <1>2, <1>5, <1>6, <1>8, <1>9, <1>13 DEF ProbeInv
<1>15. SkipInv /\ UnhookInv /\ SearchIsFirstFit
  BY <1>8 DEF SkipInv, UnhookInv, SearchIsFirstFit
<1> QED BY <1>10, <1>11, <1>12, <1>14, <1>15 DEF SearchInv
-----------------------------------------------------------------------------
\* What the provers need to know of the numbers of a state.
LEMMA SearchFacts ==
  ASSUME SearchInv
  PROVE  /\ PageCount \in Nat /\ NULL = PageCount
         /\ tree \subseteq Pages /\ before \subseteq Pages
         /\ \A q \in Pages : q \in Nat /\ q < NULL
         /\ want \in Int /\ page \in Nat /\ page <= NULL /\ next \in Nat /\ count \in Nat
<1>1. PageCount \in Nat /\ NULL = PageCount /\ \A q \in Pages : q \in Nat /\ q < NULL
  BY PageAssumption DEF NULL, Pages
<1>2. SearchTypeOK
  BY DEF SearchInv
<1> QED BY <1>1, <1>2, RequestsAssumption DEF SearchTypeOK

\* A probe counts the page it is at and goes to the one behind it.
LEMMA ProbeStep == SearchInv /\ probe_step => SearchInv'
<1> SUFFICES ASSUME SearchInv, probe_step PROVE SearchInv'
  OBVIOUS
<1>1. PageCount \in Nat /\ NULL = PageCount
      /\ tree \subseteq Pages /\ before \subseteq Pages
      /\ (\A q \in Pages : q \in Nat /\ q < NULL)
      /\ want \in Int /\ page \in Nat /\ page <= NULL /\ next \in Nat /\ count \in Nat
  BY SearchFacts
<1>2. pc = "probe" /\ next # NULL /\ count # want /\ next = page + count
  BY DEF probe_step, ProbeStops
<1>3. UNCHANGED <<tree, before, want, start, pc, page, ret>>
  BY DEF probe_step, caller
<1>4. next' = RB_NEXT(tree, next) /\ count' = count + 1
  BY DEF probe_step
<1>5. SearchTypeOK /\ CallInv /\ NothingMissed /\ ProbeInv
  BY DEF SearchInv
<1>6. /\ start = -1 => page \in tree
      /\ start # -1 => page = RB_FIND(tree, start)
      /\ Run(page, count) \subseteq tree
      /\ want > 0 => count <= want
      /\ page # NULL /\ FirstFrom(tree, page + count, next)
  BY <1>2, <1>5 DEF ProbeInv
<1>7. next \in tree /\ page + count \in tree
  BY <1>2, <1>6 DEF FirstFrom
<1>8. Run(page, count') \subseteq tree
  BY <1>1, <1>4, <1>6, <1>7 DEF Run
<1>9. count' \in Nat /\ count' <= PageCount
  BY <1>1, <1>4, <1>7
<1>10. next' \in Pages \cup {NULL}
  BY <1>1, <1>4, TreeWalks
<1>11. FirstFrom(tree, page + count', next')
  <2>1. next < NULL
    BY <1>1, <1>7
  <2>2. FirstFrom(tree, next + 1, RB_NEXT(tree, next))
    BY <1>1, <2>1, TreeWalks
  <2>3. next + 1 = page + count'
    BY <1>1, <1>2, <1>4
  <2> QED BY <1>4, <2>2, <2>3
<1>12. want > 0 => count' <= want
  BY <1>1, <1>2, <1>4, <1>6
<1>13. SearchTypeOK'
  BY <1>3, <1>5, <1>9, <1>10 DEF SearchTypeOK
<1>14. CallInv'
  BY <1>3, <1>5 DEF CallInv
<1>15. NothingMissed'
  BY <1>2, <1>3, <1>5 DEF NothingMissed, FitsIn, Run
<1>16. ProbeInv'
  <2>1. /\ (start' = -1 => page' \in tree')
        /\ (start' # -1 => page' = RB_FIND(tree', start'))
    BY <1>3, <1>6
  <2>2. Run(page', count') \subseteq tree'
    BY <1>3, <1>8
  <2>3. FirstFrom(tree', page' + count', next') /\ page' # NULL
    BY <1>3, <1>6, <1>11
  <2>4. want' > 0 => count' <= want'
    BY <1>3, <1>12
  <2> QED BY <2>1, <2>2, <2>3, <2>4 DEF ProbeInv, RB_FIND, Run, FirstFrom, NULL
<1>17. SkipInv' /\ UnhookInv' /\ SearchIsFirstFit'
  BY <1>2, <1>3 DEF SkipInv, UnhookInv, SearchIsFirstFit
<1> QED BY <1>13, <1>14, <1>15, <1>16, <1>17 DEF SearchInv

(***************************************************************************)
(* The probe of a reclaim: enough pages at the one asked for, or a hole    *)
(* among them, and then the stream cannot grow.                            *)
(***************************************************************************)
LEMMA ProbeReturnReclaim == SearchInv /\ probe_return_reclaim => SearchInv'
<1> SUFFICES ASSUME SearchInv, probe_return_reclaim PROVE SearchInv'
  OBVIOUS
<1>1. PageCount \in Nat /\ NULL = PageCount
      /\ tree \subseteq Pages /\ before \subseteq Pages
      /\ (\A q \in Pages : q \in Nat /\ q < NULL)
      /\ want \in Int /\ page \in Nat /\ page <= NULL /\ next \in Nat /\ count \in Nat
  BY SearchFacts
<1>2. pc = "probe" /\ start # -1 /\ (next = NULL \/ count = want \/ next # page + count)
  BY DEF probe_return_reclaim, ProbeStops
<1>3. UNCHANGED <<tree, before, want, start, page, next>>
  BY DEF probe_return_reclaim, caller
<1>4. SearchTypeOK /\ CallInv /\ ProbeInv
  BY DEF SearchInv
<1>5. /\ page = RB_FIND(tree, start)
      /\ Run(page, count) \subseteq tree
      /\ want > 0 => count <= want
      /\ page # NULL => FirstFrom(tree, page + count, next)
      /\ page = NULL => next = NULL
  BY <1>2, <1>4 DEF ProbeInv
<1>6. start \in Nat /\ start <= PageCount /\ tree = before /\ want # 0 /\ ret = STREAM_ERROR
  BY <1>1, <1>2, <1>4 DEF SearchTypeOK, CallInv
<1>7. Answer = IF Run(start, want) \subseteq before THEN start ELSE STREAM_ERROR
  BY <1>2 DEF Answer
<1>8. CASE want > count
  <2>1. pc' = "done" /\ ret' = STREAM_ERROR /\ count' = count
    BY <1>8 DEF probe_return_reclaim
  <2>2. ~(Run(start, want) \subseteq before)
    <3> SUFFICES ASSUME Run(start, want) \subseteq tree PROVE FALSE
      BY <1>6
    <3>1. start \in tree
      BY <1>1, <1>6, <1>8 DEF Run
    <3>2. page = start /\ page # NULL
      BY <1>1, <1>5, <3>1 DEF RB_FIND
    <3>3. page + count \in tree
      BY <1>1, <1>6, <1>8, <3>2 DEF Run
    <3>4. next = page + count
      BY <1>1, <1>5, <3>2, <3>3 DEF FirstFrom
    <3> QED BY <1>1, <1>2, <1>8, <3>3, <3>4
  <2>3. SearchTypeOK'
    BY <1>3, <1>4, <2>1 DEF SearchTypeOK
  <2>4. Answer' = Answer
    BY <1>3 DEF Answer, FitsIn, Run
  <2>5. SearchIsFirstFit'
    BY <1>3, <1>6, <1>7, <2>1, <2>2, <2>4 DEF SearchIsFirstFit
  <2>6. CallInv' /\ NothingMissed' /\ ProbeInv' /\ SkipInv' /\ UnhookInv'
    BY <1>3, <1>4, <2>1
       DEF CallInv, NothingMissed, ProbeInv, SkipInv, UnhookInv
  <2> QED BY <2>3, <2>5, <2>6 DEF SearchInv
<1>9. CASE ~(want > count)
  <2>1. pc' = "unhook" /\ ret' = start /\ count' = 0
    BY <1>9 DEF probe_return_reclaim
  <2>2. Run(start, want) \subseteq before
    <3>1. CASE want < 0
      BY <1>1, <1>6, <3>1 DEF Run
    <3>2. CASE want > 0
      <4>1. count = want
        BY <1>1, <1>5, <1>9, <3>2
      <4>2. page \in tree
        BY <1>1, <1>5, <3>2, <4>1, RunInside
      <4>3. page = start
        BY <1>1, <1>5, <4>2 DEF RB_FIND
      <4> QED BY <1>5, <1>6, <4>1, <4>3
    <3> QED BY <1>1, <1>6, <3>1, <3>2
  <2>3. Answer' = start
    BY <1>3, <1>7, <2>2 DEF Answer, FitsIn, Run
  <2>4. start # STREAM_ERROR /\ start \in Pages \cup {NULL}
    BY <1>1, <1>6 DEF STREAM_ERROR, Pages
  <2>5. want > 0 => page = start
    <3> SUFFICES ASSUME want > 0 PROVE page = start
      OBVIOUS
    <3>1. start \in tree
      BY <1>1, <1>6, <2>2 DEF Run
    <3> QED BY <1>5, <3>1 DEF RB_FIND
  <2>6. SearchTypeOK'
    BY <1>1, <1>3, <1>4, <2>1, <2>4 DEF SearchTypeOK
  <2>7. Run(ret', count') = {}
    BY <1>6, <2>1 DEF Run
  <2>8. UnhookInv'
    <3>1. ret' = Answer' /\ ret' # STREAM_ERROR /\ Run(ret', want') \subseteq before'
      BY <1>3, <2>1, <2>2, <2>3, <2>4
    <3>2. tree' = before' \ Run(ret', count')
      BY <1>3, <1>6, <2>7
    <3>3. (want' > 0 => count' <= want') /\ (want' < 0 => count' = 0)
          /\ (count' < want' => page' = ret' + count')
      BY <1>1, <1>3, <1>6, <2>1, <2>5
    <3> QED BY <3>1, <3>2, <3>3 DEF UnhookInv, Run, STREAM_ERROR
  <2>9. CallInv' /\ NothingMissed' /\ ProbeInv' /\ SkipInv' /\ SearchIsFirstFit'
    BY <1>3, <1>4, <2>1
       DEF CallInv, NothingMissed, ProbeInv, SkipInv, SearchIsFirstFit
  <2> QED BY <2>6, <2>8, <2>9 DEF SearchInv
<1> QED BY <1>8, <1>9

(***************************************************************************)
(* The probe of a claim: a run that fits, and it is the first one, or a    *)
(* hole that no run starting on a counted page gets across.                *)
(***************************************************************************)
LEMMA ProbeReturnClaim == SearchInv /\ probe_return_claim => SearchInv'
<1> SUFFICES ASSUME SearchInv, probe_return_claim PROVE SearchInv'
  OBVIOUS
<1>1. PageCount \in Nat /\ NULL = PageCount
      /\ tree \subseteq Pages /\ before \subseteq Pages
      /\ (\A q \in Pages : q \in Nat /\ q < NULL)
      /\ want \in Int /\ page \in Nat /\ page <= NULL /\ next \in Nat /\ count \in Nat
  BY SearchFacts
<1>2. pc = "probe" /\ start = -1 /\ (next = NULL \/ count = want \/ next # page + count)
  BY DEF probe_return_claim, ProbeStops
<1>3. UNCHANGED <<tree, before, want, start, page, next>>
  BY DEF probe_return_claim, caller
<1>4. SearchTypeOK /\ CallInv /\ NothingMissed /\ ProbeInv
  BY DEF SearchInv
<1>5. /\ page \in tree
      /\ Run(page, count) \subseteq tree
      /\ want > 0 /\ count <= want
      /\ FirstFrom(tree, page + count, next)
      /\ tree = before /\ ret = STREAM_ERROR
  BY <1>1, <1>2, <1>4 DEF ProbeInv, CallInv
<1>6. \A p \in FitsIn(tree, want) : p >= page
  BY <1>2, <1>4 DEF NothingMissed
<1>7. CASE want <= count
  <2>1. pc' = "unhook" /\ ret' = page /\ count' = 0
    BY <1>7 DEF probe_return_claim
  <2>2. count = want
    BY <1>1, <1>5, <1>7
  <2>3. page \in FitsIn(before, want)
    BY <1>5, <2>2 DEF FitsIn
  <2>4. Min(FitsIn(before, want)) = page
    <3>1. FitsIn(before, want) \subseteq Nat
      BY <1>1 DEF FitsIn
    <3>2. /\ Min(FitsIn(before, want)) \in FitsIn(before, want)
          /\ \A y \in FitsIn(before, want) : Min(FitsIn(before, want)) <= y
      BY <2>3, <3>1, MinNat
    <3>3. Min(FitsIn(before, want)) >= page /\ Min(FitsIn(before, want)) <= page
      BY <1>5, <1>6, <2>3, <3>2
    <3> QED BY <1>1, <3>1, <3>2, <3>3
  <2>5. Answer' = page
    <3>1. Answer = page
      BY <1>2, <2>3, <2>4 DEF Answer
    <3>2. Answer' = Answer
      BY <1>3 DEF Answer, FitsIn, Run
    <3> QED BY <3>1, <3>2
  <2>6. page # STREAM_ERROR /\ page \in Pages
    BY <1>1, <1>5 DEF STREAM_ERROR
  <2>7. SearchTypeOK'
    BY <1>1, <1>3, <1>4, <2>1, <2>6 DEF SearchTypeOK
  <2>8. Run(ret', count') = {}
    BY <1>1, <2>1 DEF Run
  <2>9. UnhookInv'
    <3>1. ret' = Answer' /\ ret' # STREAM_ERROR /\ Run(ret', want') \subseteq before'
      BY <1>3, <1>5, <2>1, <2>2, <2>5, <2>6
    <3>2. tree' = before' \ Run(ret', count')
      BY <1>3, <1>5, <2>8
    <3>3. (want' > 0 => count' <= want') /\ (want' < 0 => count' = 0)
          /\ (count' < want' => page' = ret' + count')
      BY <1>1, <1>3, <2>1
    <3> QED BY <3>1, <3>2, <3>3 DEF UnhookInv, Run, STREAM_ERROR
  <2>10. CallInv' /\ NothingMissed' /\ ProbeInv' /\ SkipInv' /\ SearchIsFirstFit'
    BY <1>3, <1>4, <2>1
       DEF CallInv, NothingMissed, ProbeInv, SkipInv, SearchIsFirstFit
  <2> QED BY <2>7, <2>9, <2>10 DEF SearchInv
<1>8. CASE ~(want <= count)
  <2>1. pc' = "skip" /\ count' = count /\ ret' = ret
    BY <1>8 DEF probe_return_claim
  <2>2. page + count \notin tree
    BY <1>1, <1>2, <1>5, <1>8 DEF FirstFrom
  <2>3. \A p \in FitsIn(tree, want) : p >= page + count
    <3> SUFFICES ASSUME NEW p \in FitsIn(tree, want), p < page + count
                 PROVE  FALSE
      BY <1>1 DEF FitsIn
    <3>1. p \in Nat /\ p >= page /\ Run(p, want) \subseteq tree
      BY <1>1, <1>6 DEF FitsIn
    <3>2. page + count \in Run(p, want)
      BY <1>1, <1>8, <3>1 DEF Run
    <3> QED BY <2>2, <3>1, <3>2
  <2>4. count > 0
    <3>1. SUFFICES ASSUME count = 0 PROVE FALSE
      BY <1>1
    <3> QED BY <1>1, <1>5, <2>2, <3>1
  <2>5. SearchTypeOK'
    BY <1>3, <1>4, <2>1 DEF SearchTypeOK
  <2>6. CallInv'
    BY <1>3, <1>4, <1>5, <2>1 DEF CallInv
  <2>7. NothingMissed'
    BY <1>3, <2>1, <2>3 DEF NothingMissed, FitsIn, Run
  <2>8. SkipInv'
    BY <1>1, <1>2, <1>3, <1>5, <2>1, <2>4 DEF SkipInv, Run, FirstFrom, NULL
  <2>9. ProbeInv' /\ UnhookInv' /\ SearchIsFirstFit'
    BY <2>1 DEF ProbeInv, UnhookInv, SearchIsFirstFit
  <2> QED BY <2>5, <2>6, <2>7, <2>8, <2>9 DEF SearchInv
<1> QED BY <1>7, <1>8

\* Skipping moves along the counted pages and off the last one to next.
LEMMA ClaimSkip == SearchInv /\ claim_skip => SearchInv'
<1> SUFFICES ASSUME SearchInv, claim_skip PROVE SearchInv'
  OBVIOUS
<1>1. PageCount \in Nat /\ NULL = PageCount
      /\ tree \subseteq Pages /\ before \subseteq Pages
      /\ (\A q \in Pages : q \in Nat /\ q < NULL)
      /\ want \in Int /\ page \in Nat /\ page <= NULL /\ next \in Nat /\ count \in Nat
  BY SearchFacts
<1>2. pc = "skip" /\ count > 0 /\ page' = RB_NEXT(tree, page) /\ count' = count - 1
  BY DEF claim_skip
<1>3. UNCHANGED <<tree, before, want, start, pc, next, ret>>
  BY DEF claim_skip, caller
<1>4. SearchTypeOK /\ CallInv /\ NothingMissed /\ SkipInv
  BY DEF SearchInv
<1>5. /\ start = -1
      /\ Run(page, count) \subseteq tree
      /\ FirstFrom(tree, page + count, next)
  BY <1>2, <1>4 DEF SkipInv
<1>6. \A p \in FitsIn(tree, want) : p >= page + count
  BY <1>2, <1>4, <1>5 DEF NothingMissed
<1>7. page \in tree /\ page < NULL
  BY <1>1, <1>2, <1>5, RunInside
<1>8. FirstFrom(tree, page + 1, page')
  <2>1. FirstFrom(tree, page + 1, RB_NEXT(tree, page)) \/ page >= NULL
    BY <1>1, TreeWalks
  <2>2. ~(page >= NULL)
    BY <1>1, <1>7
  <2> QED BY <1>2, <2>1, <2>2
<1>9. page' \in Pages \cup {NULL}
  BY <1>1, <1>2, TreeWalks
<1>10. SearchTypeOK'
  BY <1>1, <1>2, <1>3, <1>4, <1>9 DEF SearchTypeOK
<1>11. CallInv'
  BY <1>3, <1>4 DEF CallInv
<1>12. ProbeInv' /\ UnhookInv' /\ SearchIsFirstFit'
  BY <1>2, <1>3 DEF ProbeInv, UnhookInv, SearchIsFirstFit
<1>13. CASE count = 1
  <2>1. page' = next
    BY <1>1, <1>5, <1>8, <1>13, FirstUnique
  <2>2. count' = 0 /\ Run(page', count') = {}
    BY <1>1, <1>2, <1>13, <2>1 DEF Run
  <2>3. \A p \in FitsIn(tree, want) : p >= next
    BY <1>1, <1>5, <1>6 DEF FirstFrom, FitsIn
  <2>4. NothingMissed'
    BY <1>1, <1>2, <1>3, <2>1, <2>2, <2>3 DEF NothingMissed, FitsIn, Run
  <2>5. SkipInv'
    BY <1>1, <1>2, <1>3, <1>4, <1>5, <2>1, <2>2 DEF SkipInv, Run, NULL
  <2> QED BY <1>10, <1>11, <1>12, <2>4, <2>5 DEF SearchInv
<1>14. CASE count > 1
  <2>1. page + 1 \in tree
    BY <1>1, <1>5, <1>14 DEF Run
  <2>2. page' = page + 1
    BY <1>1, <1>8, <2>1, FirstSelf, FirstUnique
  <2>3. page' + count' = page + count /\ count' > 0
    BY <1>1, <1>2, <1>14, <2>2
  <2>4. Run(page', count') \subseteq tree
    BY <1>1, <1>2, <1>5, <2>2 DEF Run
  <2>5. NothingMissed'
    BY <1>2, <1>3, <1>6, <2>3 DEF NothingMissed, FitsIn, Run
  <2>6. SkipInv'
    BY <1>3, <1>5, <2>3, <2>4 DEF SkipInv, Run, FirstFrom, NULL
  <2> QED BY <1>10, <1>11, <1>12, <2>5, <2>6 DEF SearchInv
<1> QED BY <1>1, <1>2, <1>13, <1>14

\* Behind the last page nothing fits; otherwise the next probe starts there.
LEMMA ClaimSkipped == SearchInv /\ claim_skipped => SearchInv'
<1> SUFFICES ASSUME SearchInv, claim_skipped PROVE SearchInv'
  OBVIOUS
<1>1. PageCount \in Nat /\ NULL = PageCount
      /\ tree \subseteq Pages /\ before \subseteq Pages
      /\ (\A q \in Pages : q \in Nat /\ q < NULL)
      /\ want \in Int /\ page \in Nat /\ page <= NULL /\ next \in Nat /\ count \in Nat
  BY SearchFacts
<1>2. pc = "skip" /\ count = 0 /\ count' = 0
  BY DEF claim_skipped
<1>3. UNCHANGED <<tree, before, want, start, ret, page>>
  BY DEF claim_skipped, caller, Resume
<1>4. SearchTypeOK /\ CallInv /\ NothingMissed /\ SkipInv
  BY DEF SearchInv
<1>5. start = -1 /\ want > 0 /\ tree = before /\ ret = STREAM_ERROR
  BY <1>2, <1>4 DEF SkipInv, CallInv
<1>6. \A p \in FitsIn(tree, want) : p >= page
  BY <1>1, <1>2, <1>4, <1>5 DEF NothingMissed
<1>7. CASE page = NULL
  <2>1. pc' = "done" /\ next' = next
    BY <1>7 DEF claim_skipped
  <2>2. FitsIn(before, want) = {}
    BY <1>1, <1>5, <1>6, <1>7 DEF FitsIn
  <2>3. Answer' = STREAM_ERROR
    <3>1. Answer = STREAM_ERROR
      BY <1>5, <2>2 DEF Answer
    <3>2. Answer' = Answer
      BY <1>3 DEF Answer, FitsIn, Run
    <3> QED BY <3>1, <3>2 DEF STREAM_ERROR
  <2>4. SearchIsFirstFit'
    BY <1>3, <1>5, <2>3 DEF SearchIsFirstFit, STREAM_ERROR
  <2>5. SearchTypeOK'
    BY <1>1, <1>2, <1>3, <1>4, <2>1 DEF SearchTypeOK
  <2>6. CallInv' /\ NothingMissed' /\ ProbeInv' /\ SkipInv' /\ UnhookInv'
    BY <1>3, <1>4, <2>1
       DEF CallInv, NothingMissed, ProbeInv, SkipInv, UnhookInv
  <2> QED BY <2>4, <2>5, <2>6 DEF SearchInv
<1>8. CASE page # NULL
  <2>1. pc' = "probe" /\ next' = page
    BY <1>8 DEF claim_skipped, Resume
  <2>2. page \in tree
    <3>1. page = next /\ next \in Pages \cup {NULL}
      BY <1>2, <1>4 DEF SkipInv, SearchTypeOK
    <3> QED BY <1>2, <1>4, <1>8, <3>1 DEF SkipInv, FirstFrom
  <2>3. FirstFrom(tree, page + count', next')
    <3>1. FirstFrom(tree, page, page)
      BY <1>1, <2>2, FirstSelf
    <3>2. page + count' = page
      BY <1>1, <1>2
    <3> QED BY <2>1, <3>1, <3>2
  <2>4. Run(page, count') = {}
    BY <1>1, <1>2 DEF Run
  <2>5. ProbeInv'
    <3>1. start' = -1 /\ page' \in tree' /\ page' # NULL
      BY <1>3, <1>5, <1>8, <2>2
    <3>2. Run(page', count') \subseteq tree' /\ FirstFrom(tree', page' + count', next')
      BY <1>3, <2>3, <2>4
    <3>3. want' > 0 => count' <= want'
      BY <1>1, <1>2, <1>3
    <3> QED BY <3>1, <3>2, <3>3 DEF ProbeInv, Run, FirstFrom, NULL
  <2>6. SearchTypeOK'
    BY <1>1, <1>2, <1>3, <1>4, <2>1, <2>2 DEF SearchTypeOK
  <2>7. NothingMissed'
    BY <1>3, <1>6, <2>1 DEF NothingMissed, FitsIn, Run
  <2>8. CallInv' /\ SkipInv' /\ UnhookInv' /\ SearchIsFirstFit'
    BY <1>3, <1>4, <1>5, <2>1 DEF CallInv, SkipInv, UnhookInv, SearchIsFirstFit
  <2> QED BY <2>5, <2>6, <2>7, <2>8 DEF SearchInv
<1> QED BY <1>7, <1>8

(***************************************************************************)
(* Taking a page out of the tree leaves the rest of the run in it, so that *)
(* the successor read before the removal is the next page of the run.      *)
(***************************************************************************)
LEMMA UnhookStep == SearchInv /\ unhook_step => SearchInv'
<1> SUFFICES ASSUME SearchInv, unhook_step PROVE SearchInv'
  OBVIOUS
<1>1. PageCount \in Nat /\ NULL = PageCount
      /\ tree \subseteq Pages /\ before \subseteq Pages
      /\ (\A q \in Pages : q \in Nat /\ q < NULL)
      /\ want \in Int /\ page \in Nat /\ page <= NULL /\ next \in Nat /\ count \in Nat
  BY SearchFacts
<1>2. pc = "unhook" /\ count < want /\ tree' = tree \ {page}
      /\ page' = RB_NEXT(tree, page) /\ count' = count + 1
  BY DEF unhook_step, MoreToUnhook
<1>3. UNCHANGED <<before, want, start, pc, next, ret>>
  BY DEF unhook_step, caller
<1>4. SearchTypeOK /\ CallInv /\ UnhookInv
  BY DEF SearchInv
<1>5. /\ ret = Answer
      /\ ret # STREAM_ERROR
      /\ Run(ret, want) \subseteq before
      /\ tree = before \ Run(ret, count)
      /\ page = ret + count
  BY <1>2, <1>4 DEF UnhookInv
<1>6. ret \in Nat
  BY <1>1, <1>4, <1>5 DEF SearchTypeOK
<1>7. page \in Run(ret, want) /\ page < NULL
  BY <1>1, <1>2, <1>5, <1>6 DEF Run
<1>8. tree' = before \ Run(ret, count')
  BY <1>1, <1>2, <1>5, <1>6 DEF Run
<1>9. count' \in 0 .. PageCount /\ count' <= want
  BY <1>1, <1>2, <1>5, <1>6, <1>7
<1>10. count' < want => page' = ret + count'
  <2> SUFFICES ASSUME count' < want PROVE page' = page + 1
    BY <1>1, <1>2, <1>5, <1>6
  <2>1. page + 1 \in tree
    BY <1>1, <1>2, <1>5, <1>6 DEF Run
  <2>2. FirstFrom(tree, page + 1, RB_NEXT(tree, page)) \/ page >= NULL
    BY <1>1, TreeWalks
  <2>3. ~(page >= NULL)
    BY <1>1, <1>7
  <2>4. FirstFrom(tree, page + 1, page')
    BY <1>2, <2>2, <2>3
  <2> QED BY <1>1, <2>1, <2>4, FirstSelf, FirstUnique
<1>11. page' \in Pages \cup {NULL}
  BY <1>1, <1>2, TreeWalks
<1>12. SearchTypeOK'
  BY <1>1, <1>2, <1>3, <1>4, <1>9, <1>11 DEF SearchTypeOK
<1>13. Answer' = Answer
  BY <1>3 DEF Answer, FitsIn, Run
<1>14. UnhookInv'
  <2>1. ret' = Answer' /\ ret' # STREAM_ERROR /\ Run(ret', want') \subseteq before'
    BY <1>3, <1>5, <1>13
  <2>2. tree' = before' \ Run(ret', count')
    BY <1>3, <1>8
  <2>3. (want' > 0 => count' <= want') /\ (want' < 0 => count' = 0)
        /\ (count' < want' => page' = ret' + count')
    BY <1>1, <1>2, <1>3, <1>9, <1>10
  <2> QED BY <2>1, <2>2, <2>3 DEF UnhookInv, Run, STREAM_ERROR
<1>15. CallInv' /\ NothingMissed' /\ ProbeInv' /\ SkipInv' /\ SearchIsFirstFit'
  BY <1>2, <1>3, <1>4
     DEF CallInv, NothingMissed, ProbeInv, SkipInv, SearchIsFirstFit
<1> QED BY <1>12, <1>14, <1>15 DEF SearchInv

\* When unhooking ends, the whole run is gone and nothing else.
LEMMA UnhookReturn == SearchInv /\ unhook_return => SearchInv'
<1> SUFFICES ASSUME SearchInv, unhook_return PROVE SearchInv'
  OBVIOUS
<1>1. want \in Int /\ count \in Nat
  BY SearchFacts
<1>2. pc = "unhook" /\ ~(count < want) /\ pc' = "done"
  BY DEF unhook_return, MoreToUnhook
<1>3. UNCHANGED <<tree, before, want, start, page, next, count, ret>>
  BY DEF unhook_return, caller
<1>4. SearchTypeOK /\ CallInv /\ UnhookInv
  BY DEF SearchInv
<1>5. /\ ret = Answer
      /\ ret # STREAM_ERROR
      /\ tree = before \ Run(ret, count)
      /\ (want > 0 => count <= want)
      /\ (want < 0 => count = 0)
      /\ want # 0
  BY <1>2, <1>4 DEF UnhookInv, CallInv
<1>6. Run(ret, count) = Run(ret, want)
  <2>1. CASE want > 0
    BY <1>1, <1>2, <1>5, <2>1
  <2>2. CASE want < 0
    <3>1. ret \in Int
      BY PageAssumption, <1>4 DEF SearchTypeOK, Pages, NULL, STREAM_ERROR
    <3> QED BY <1>1, <1>5, <2>2, <3>1 DEF Run
  <2> QED BY <1>1, <1>5, <2>1, <2>2
<1>7. Answer' = Answer
  BY <1>3 DEF Answer, FitsIn, Run
<1>8. SearchIsFirstFit'
  <2>1. ret' = Answer' /\ ret' # STREAM_ERROR
    BY <1>3, <1>5, <1>7
  <2>2. tree' = before' \ Run(ret', want')
    BY <1>3, <1>5, <1>6
  <2> QED BY <2>1, <2>2 DEF SearchIsFirstFit, STREAM_ERROR, Run
<1>9. SearchTypeOK'
  BY <1>2, <1>3, <1>4 DEF SearchTypeOK
<1>10. CallInv' /\ NothingMissed' /\ ProbeInv' /\ SkipInv' /\ UnhookInv'
  BY <1>2, <1>3, <1>4 DEF CallInv, NothingMissed, ProbeInv, SkipInv, UnhookInv
<1> QED BY <1>8, <1>9, <1>10 DEF SearchInv
-----------------------------------------------------------------------------
\* Steps that change nothing.
LEMMA SearchStutter == SearchInv /\ UNCHANGED searchVars => SearchInv'
BY DEF searchVars, SearchInv, SearchTypeOK, CallInv, NothingMissed, ProbeInv, SkipInv, UnhookInv,
       SearchIsFirstFit, FirstFrom, Answer, FitsIn, Run, RB_FIND, NULL, STREAM_ERROR

(***************************************************************************)
(* For every pool, every set of free pages and every request, the page     *)
(* search of __peak_stream_claim() and __peak_stream_reclaim() answers     *)
(* with the first run that fits, fails only when there is none, and takes  *)
(* exactly the pages of that run from the tree.                            *)
(***************************************************************************)
THEOREM SearchFirstFit == SearchSpec => []SearchSound
<1>1. SearchInit => SearchInv
  BY SearchStarts
<1>2. SearchInv /\ [SearchNext]_searchVars => SearchInv'
  BY ProbeStep, ProbeReturnReclaim, ProbeReturnClaim, ClaimSkip, ClaimSkipped,
     UnhookStep, UnhookReturn, SearchStutter DEF SearchNext, returned
<1>3. SearchInv => SearchSound
  BY DEF SearchInv, SearchSound
<1> QED BY <1>1, <1>2, <1>3, PTL DEF SearchSpec
=============================================================================
