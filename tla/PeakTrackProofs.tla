--------------------------- MODULE PeakTrackProofs ---------------------------
(***************************************************************************)
(* The counters of lib/peak_audit.c and the flow tracker of                *)
(* lib/peak_track.c, for any number of threads, fields, flows and packets. *)
(***************************************************************************)
EXTENDS PeakTrack, FiniteSetTheorems, SequenceTheorems, PeakArithmetic
-----------------------------------------------------------------------------
(***************************************************************************)
(* The counters.  A step of a thread changes its own share of the sum over *)
(* all threads only; a merge moves the share into the export, where the    *)
(* next half of the loop's turn must not count it again.                   *)
(***************************************************************************)
AuditInv ==
  /\ AuditTypeOK
  /\ \A t \in Threads : merged[t] => Syncing(t)
  /\ AuditConserved

\* What overflow does to a sum: it may happen early or late.
LEMMA WrapFacts ==
  /\ \A a \in Int : Wrap(a) \in Counter /\ Wrap(a) \in Int
  /\ \A a, b \in Int : Wrap(Wrap(a) + b) = Wrap(a + b)
  /\ \A a \in Counter : a \in Int /\ Wrap(a) = a
<1>0. CounterSize \in Nat \ {0}
  BY AuditAssumption
<1>1. \A a \in Int : a % CounterSize \in Int /\ 0 <= a % CounterSize /\ a % CounterSize < CounterSize
  BY <1>0, DivMod
<1>2. \A a \in Int : Wrap(a) \in Counter /\ Wrap(a) \in Int
  BY <1>0, <1>1 DEF Wrap, Counter
<1>3. \A a, b \in Int : Wrap(Wrap(a) + b) = Wrap(a + b)
  BY <1>0, ModAdd DEF Wrap
<1>4. \A a \in Counter : a \in Int /\ Wrap(a) = a
  BY <1>0, ModSmall DEF Wrap, Counter
<1> QED BY <1>2, <1>3, <1>4

\* The shares of the threads are numbers.
LEMMA PendingInt ==
  ASSUME AuditTypeOK, NEW f \in Fields
  PROVE  Pending(f) \in [Threads -> Int]
BY DEF AuditTypeOK, Pending, Counter

\* A step of thread t adds to the sum what its share has grown by.
LEMMA PendingStep ==
  ASSUME AuditTypeOK, AuditTypeOK', NEW f \in Fields, NEW t \in Threads,
         \A u \in Threads \ {t} :
           local'[u] = local[u] /\ at'[u] = at[u] /\ merged'[u] = merged[u]
  PROVE  /\ SumFunction(Pending(f)) \in Int /\ SumFunction(Pending(f))' \in Int
         /\ Pending(f)[t] \in Int /\ Pending(f)'[t] \in Int
         /\ SumFunction(Pending(f))' =
              SumFunction(Pending(f)) + (Pending(f)'[t] - Pending(f)[t])
<1> DEFINE F == Pending(f)
           G == Pending(f)'
<1>1. F \in [Threads -> Int]
  BY PendingInt
<1>2. G \in [Threads -> Int]
  BY DEF AuditTypeOK, Pending, Counter
<1>3. \A u \in Threads \ {t} : F[u] = G[u]
  BY DEF Pending
<1>4. SumFunction(Pending(f))' = SumFunction(G)
  OBVIOUS
<1> HIDE DEF F, G
<1>5. /\ SumFunction(F) \in Int /\ SumFunction(G) \in Int
      /\ SumFunction(G) = SumFunction(F) + (G[t] - F[t])
  BY <1>1, <1>2, <1>3, AuditAssumption, SumChange
<1> QED BY <1>1, <1>2, <1>4, <1>5 DEF F, G

(***************************************************************************)
(* Counting: thread t adds k[f] to field f, of its own counters and of     *)
(* what was counted altogether.  A field that is set grows by the          *)
(* difference.                                                             *)
(***************************************************************************)
LEMMA CountingStep ==
  ASSUME AuditInv, NEW t \in Threads, ~Syncing(t), NEW k \in [Fields -> Int],
         local' = [local EXCEPT ![t] = [f \in Fields |-> Wrap(local[t][f] + k[f])]],
         counted' = [f \in Fields |-> Wrap(counted[f] + k[f])],
         UNCHANGED <<export, at, merged>>
  PROVE  AuditInv'
<1> DEFINE L == [f \in Fields |-> Wrap(local[t][f] + k[f])]
<1>0. /\ local \in [Threads -> [Fields -> Counter]] /\ export \in [Fields -> Counter]
      /\ counted \in [Fields -> Counter]
      /\ \A f \in Fields : /\ local[t][f] \in Int /\ export[f] \in Int
                           /\ counted[f] \in Int /\ k[f] \in Int
  BY WrapFacts DEF AuditInv, AuditTypeOK
<1>1. L \in [Fields -> Counter]
  BY <1>0, WrapFacts
<1>2. counted' \in [Fields -> Counter]
  BY <1>0, WrapFacts
<1>3. local' \in [Threads -> [Fields -> Counter]]
  <2> HIDE DEF L
  <2>1. local' = [local EXCEPT ![t] = L]
    BY DEF L
  <2> QED BY <1>0, <1>1, <2>1
<1>4. AuditTypeOK'
  BY <1>2, <1>3 DEF AuditInv, AuditTypeOK
<1>5. \A u \in Threads \ {t} : local'[u] = local[u] /\ at'[u] = at[u] /\ merged'[u] = merged[u]
  BY <1>0
<1>6. ~merged[t] /\ merged'[t] = merged[t]
  BY DEF AuditInv
<1>7. ASSUME NEW f \in Fields
      PROVE  counted'[f] = Wrap(export'[f] + SumFunction(Pending(f))')
  <2> DEFINE S == SumFunction(Pending(f))
             l == local[t][f]
             e == export[f]
  <2>1. Pending(f)[t] = l
    BY <1>6 DEF Pending
  <2>2. Pending(f)'[t] = Wrap(l + k[f])
    <3>1. local'[t][f] = Wrap(l + k[f])
      BY <1>0
    <3> QED BY <1>6, <3>1 DEF Pending
  <2>3. S \in Int /\ S' \in Int /\ S' = S + (Wrap(l + k[f]) - l)
    BY <1>4, <1>5, <2>1, <2>2, PendingStep DEF AuditInv
  <2>4. counted[f] = Wrap(e + S)
    BY DEF AuditInv, AuditConserved
  <2>5. counted'[f] = Wrap(counted[f] + k[f])
    OBVIOUS
  <2>6. l \in Int /\ e \in Int /\ k[f] \in Int
    BY <1>0
  <2>7. export'[f] = e
    OBVIOUS
  <2> DEFINE T == S'
             w == Wrap(l + k[f])
             n == k[f]
  <2>8. w \in Int
    <3>1. l + k[f] \in Int
      BY <2>6
    <3> QED BY <3>1, WrapFacts
  <2>9. Wrap(e + T) = Wrap(w + ((e + S) - l))
    <3>1. e + T = w + ((e + S) - l)
      BY <2>3, <2>6, <2>8
    <3> QED BY <3>1
  <2> HIDE DEF S, T, l, e, n
  <2>10. Wrap(w + ((e + S) - l)) = Wrap((l + n) + ((e + S) - l))
    <3>1. (e + S) - l \in Int /\ l + n \in Int
      BY <2>3, <2>6 DEF n
    <3> QED BY <3>1, WrapFacts DEF n
  <2>11. (l + n) + ((e + S) - l) = (e + S) + n
    BY <2>3, <2>6 DEF n
  <2>12. Wrap(Wrap(e + S) + n) = Wrap((e + S) + n)
    <3>1. e + S \in Int /\ n \in Int
      BY <2>3, <2>6 DEF n
    <3> QED BY <3>1, WrapFacts
  <2> QED BY <2>4, <2>5, <2>7, <2>9, <2>10, <2>11, <2>12 DEF T, S, n
<1>8. AuditConserved'
  BY <1>7 DEF AuditConserved, Wrap
<1>9. (\A u \in Threads : merged[u] => Syncing(u))'
  BY DEF AuditInv, Syncing
<1> QED BY <1>4, <1>8, <1>9 DEF AuditInv

\* A sync only moves what a thread has counted to the export.
LEMMA SyncStep ==
  ASSUME AuditInv, NEW t \in Threads, AuditSync(t)
  PROVE  AuditInv'
<1>0. /\ local \in [Threads -> [Fields -> Counter]] /\ export \in [Fields -> Counter]
      /\ counted \in [Fields -> Counter]
      /\ at \in [Threads -> 0 .. FieldCount] /\ merged \in [Threads -> BOOLEAN]
      /\ FieldCount \in Nat \ {0} /\ FieldCount \notin Fields
  BY AuditAssumption DEF AuditInv, AuditTypeOK, Fields
<1>1. CASE peak_audit_sync(t)
  <2>1. /\ at[t] = FieldCount /\ at' = [at EXCEPT ![t] = 0]
        /\ local' = local /\ export' = export /\ merged' = merged /\ counted' = counted
    BY <1>1 DEF peak_audit_sync, Syncing
  <2>2. ~merged[t]
    BY <2>1 DEF AuditInv, Syncing
  <2>3. AuditTypeOK'
    BY <1>0, <2>1 DEF AuditTypeOK
  <2>4. \A u \in Threads : (merged[u] => Syncing(u))'
    BY <1>0, <2>1, <2>2 DEF AuditInv, Syncing
  <2>5. \A f \in Fields : Pending(f)' = Pending(f)
    BY <1>0, <2>1, <2>2 DEF Pending
  <2>6. AuditConserved'
    BY <2>1, <2>5 DEF AuditInv, AuditConserved, Wrap
  <2> QED BY <2>3, <2>4, <2>6 DEF AuditInv
<1>2. CASE SyncMerge(t)
  <2> DEFINE i == at[t]
             w == Wrap(export[i] + local[t][i])
  <2>1. /\ i # FieldCount /\ ~merged[t] /\ merged' = [merged EXCEPT ![t] = TRUE]
        /\ export' = [export EXCEPT ![i] = w]
        /\ local' = local /\ at' = at /\ counted' = counted
    BY <1>2 DEF SyncMerge, Syncing
  <2>2. i \in Fields
    BY <1>0, <2>1 DEF Fields
  <2>3. w \in Counter
    <3>1. export[i] \in Counter /\ local[t][i] \in Counter
      BY <1>0, <2>2
    <3>2. export[i] \in Int /\ local[t][i] \in Int
      BY <3>1, WrapFacts
    <3>3. export[i] + local[t][i] \in Int
      BY <3>2
    <3> QED BY <3>3, WrapFacts
  <2> HIDE DEF w
  <2>4. AuditTypeOK'
    BY <1>0, <2>1, <2>3 DEF AuditTypeOK
  <2>5. \A u \in Threads : (merged[u] => Syncing(u))'
    BY <1>0, <2>1 DEF AuditInv, Syncing
  <2>6. ASSUME NEW f \in Fields, f # i
        PROVE  counted'[f] = Wrap(export'[f] + SumFunction(Pending(f))')
    <3>1. Pending(f)' = Pending(f) /\ export'[f] = export[f]
      BY <1>0, <2>1, <2>6 DEF Pending
    <3> QED BY <2>1, <3>1 DEF AuditInv, AuditConserved
  <2>7. ASSUME NEW f \in Fields, f = i
        PROVE  counted'[f] = Wrap(export'[f] + SumFunction(Pending(f))')
    <3> DEFINE S == SumFunction(Pending(f))
               T == SumFunction(Pending(f))'
               l == local[t][f]
               e == export[f]
    <3>1. Pending(f)[t] = l /\ Pending(f)'[t] = 0
      BY <1>0, <2>1, <2>7 DEF Pending
    <3>2. \A u \in Threads \ {t} : local'[u] = local[u] /\ at'[u] = at[u] /\ merged'[u] = merged[u]
      BY <1>0, <2>1
    <3>3. S \in Int /\ T \in Int /\ T = S + (0 - l)
      <4>1. AuditTypeOK
        BY DEF AuditInv
      <4> QED BY <4>1, <2>4, <3>1, <3>2, PendingStep
    <3>4. export'[f] = w
      BY <1>0, <2>1, <2>2, <2>7
    <3>5. counted'[f] = Wrap(e + S)
      BY <2>1, <2>2 DEF AuditInv, AuditConserved
    <3>6. l \in Int /\ e \in Int
      <4>1. l \in Counter /\ e \in Counter
        BY <1>0
      <4> QED BY <4>1, WrapFacts
    <3>7. w = Wrap(e + l)
      BY <2>7 DEF w
    <3> HIDE DEF S, T, l, e
    <3>8. Wrap(Wrap(e + l) + T) = Wrap((e + l) + T)
      <4>1. e + l \in Int
        BY <3>6
      <4> QED BY <3>3, <4>1, WrapFacts
    <3>9. (e + l) + T = e + S
      BY <3>3, <3>6
    <3> QED BY <3>4, <3>5, <3>7, <3>8, <3>9 DEF T
  <2>8. AuditConserved'
    BY <2>6, <2>7 DEF AuditConserved, Wrap
  <2> QED BY <2>4, <2>5, <2>8 DEF AuditInv
<1>3. CASE SyncWipe(t)
  <2> DEFINE i == at[t]
  <2>1. /\ i # FieldCount /\ merged[t] /\ merged' = [merged EXCEPT ![t] = FALSE]
        /\ local' = [local EXCEPT ![t][i] = 0] /\ at' = [at EXCEPT ![t] = @ + 1]
        /\ export' = export /\ counted' = counted
    BY <1>3 DEF SyncWipe, Syncing
  <2>2. i \in Fields /\ 0 \in Counter
    BY <1>0, <2>1, AuditAssumption DEF Fields, Counter
  <2>3. local' \in [Threads -> [Fields -> Counter]]
    BY <1>0, <2>1, <2>2
  <2>4. at' \in [Threads -> 0 .. FieldCount]
    <3>1. i + 1 \in 0 .. FieldCount
      BY <1>0, <2>2 DEF Fields
    <3> QED BY <1>0, <2>1, <3>1
  <2>5. AuditTypeOK'
    BY <1>0, <2>1, <2>3, <2>4 DEF AuditTypeOK
  <2>6. \A u \in Threads : (merged[u] => Syncing(u))'
    BY <1>0, <2>1 DEF AuditInv, Syncing
  <2>7. ASSUME NEW f \in Fields PROVE Pending(f)' = Pending(f)
    <3>1. \A u \in Threads \ {t} :
            local'[u] = local[u] /\ at'[u] = at[u] /\ merged'[u] = merged[u]
      BY <1>0, <2>1
    <3>2. ~merged'[t] /\ local'[t][f] = IF f = i THEN 0 ELSE local[t][f]
      BY <1>0, <2>1
    <3> QED BY <2>1, <3>1, <3>2 DEF Pending
  <2>8. AuditConserved'
    BY <2>1, <2>7 DEF AuditInv, AuditConserved, Wrap
  <2> QED BY <2>5, <2>6, <2>8 DEF AuditInv
<1> QED BY <1>1, <1>2, <1>3 DEF AuditSync

\* All counters are zero at first ...
LEMMA AuditInvInit == AuditInit => AuditInv
<1> SUFFICES ASSUME AuditInit PROVE AuditInv
  OBVIOUS
<1>1. AuditTypeOK
  BY AuditAssumption DEF AuditInit, AuditTypeOK, Counter, Fields
<1>2. \A t \in Threads : merged[t] => Syncing(t)
  BY DEF AuditInit
<1>3. ASSUME NEW f \in Fields PROVE SumFunction(Pending(f)) = 0
  <2>1. \A t \in Threads : Pending(f)[t] = 0
    BY DEF AuditInit, Pending
  <2> QED BY <1>1, <2>1, PendingInt, AuditAssumption, SumZero
<1>4. 0 \in Counter
  BY AuditAssumption DEF Counter
<1>5. Wrap(0) = 0
  BY <1>4, WrapFacts
<1>6. AuditConserved
  BY <1>3, <1>5 DEF AuditInit, AuditConserved
<1> QED BY <1>1, <1>2, <1>6 DEF AuditInv

\* Steps that leave the counters alone.
LEMMA AuditInvStutter ==
  ASSUME AuditInv, UNCHANGED auditVars
  PROVE  AuditInv'
<1>1. /\ local' = local /\ export' = export /\ at' = at /\ merged' = merged
      /\ counted' = counted
  BY DEF auditVars
<1>2. AuditTypeOK' /\ (\A t \in Threads : merged[t] => Syncing(t))'
  BY <1>1 DEF AuditInv, AuditTypeOK, Syncing
<1>3. \A f \in Fields : Pending(f)' = Pending(f)
  BY <1>1 DEF Pending
<1>4. AuditConserved'
  BY <1>1, <1>3 DEF AuditInv, AuditConserved, Wrap
<1> QED BY <1>2, <1>4 DEF AuditInv

\* ... and whatever a thread does with them keeps the books balanced.
LEMMA AuditInvStep == AuditInv /\ [AuditNext]_auditVars => AuditInv'
<1> SUFFICES ASSUME AuditInv, [AuditNext]_auditVars PROVE AuditInv'
  OBVIOUS
<1>0. /\ local \in [Threads -> [Fields -> Counter]] /\ counted \in [Fields -> Counter]
      /\ Values \subseteq Counter
  BY AuditAssumption DEF AuditInv, AuditTypeOK, Counter
<1>1. ASSUME NEW t \in Threads, NEW f \in 0 .. FieldCount, NEW v \in Values,
             peak_audit_add(t, f, v)
      PROVE  AuditInv'
  <2>1. CASE f \notin Fields
    <3>1. UNCHANGED auditVars
      BY <1>1, <2>1 DEF peak_audit_add, auditVars
    <3> QED BY <3>1, AuditInvStutter
  <2>2. CASE f \in Fields
    <3> DEFINE k == [g \in Fields |-> IF g = f THEN v ELSE 0]
    <3>1. /\ local' = [local EXCEPT ![t][f] = Wrap(@ + v)]
          /\ counted' = [counted EXCEPT ![f] = Wrap(@ + v)]
          /\ UNCHANGED <<export, at, merged>> /\ ~Syncing(t)
      BY <1>1, <2>2 DEF peak_audit_add, Count
    <3>2. k \in [Fields -> Int]
      BY <1>0, WrapFacts
    <3>3. \A g \in Fields : /\ Wrap(local[t][g] + 0) = local[t][g]
                            /\ Wrap(counted[g] + 0) = counted[g]
      <4>1. \A g \in Fields : local[t][g] \in Counter /\ counted[g] \in Counter
        BY <1>0
      <4>2. \A n \in Counter : n + 0 = n
        BY WrapFacts
      <4> QED BY <4>1, <4>2, WrapFacts
    <3>4. counted' = [g \in Fields |-> Wrap(counted[g] + k[g])]
      BY <1>0, <2>2, <3>1, <3>3
    <3>5. local' = [local EXCEPT ![t] = [g \in Fields |-> Wrap(local[t][g] + k[g])]]
      <4>1. [local[t] EXCEPT ![f] = Wrap(@ + v)] = [g \in Fields |-> Wrap(local[t][g] + k[g])]
        BY <1>0, <2>2, <3>3
      <4> QED BY <1>0, <3>1, <4>1
    <3> HIDE DEF k
    <3> QED BY <3>1, <3>2, <3>4, <3>5, CountingStep
  <2> QED BY <2>1, <2>2
<1>2. ASSUME NEW t \in Threads, NEW f \in 0 .. FieldCount, NEW v \in Values,
             peak_audit_set(t, f, v)
      PROVE  AuditInv'
  <2>1. CASE f \notin Fields
    <3>1. UNCHANGED auditVars
      BY <1>2, <2>1 DEF peak_audit_set, auditVars
    <3> QED BY <3>1, AuditInvStutter
  <2>2. CASE f \in Fields
    <3> DEFINE k == [g \in Fields |-> IF g = f THEN v - local[t][f] ELSE 0]
    <3>1. /\ local' = [local EXCEPT ![t][f] = v]
          /\ counted' = [counted EXCEPT ![f] = Wrap((@ + v) - local[t][f])]
          /\ UNCHANGED <<export, at, merged>> /\ ~Syncing(t)
      BY <1>2, <2>2 DEF peak_audit_set
    <3>2. v \in Int /\ local[t][f] \in Int /\ counted[f] \in Int /\ Wrap(v) = v
      BY <1>0, <2>2, WrapFacts
    <3>3. k \in [Fields -> Int]
      BY <3>2
    <3>4. \A g \in Fields : /\ Wrap(local[t][g] + 0) = local[t][g]
                            /\ Wrap(counted[g] + 0) = counted[g]
      <4>1. \A g \in Fields : local[t][g] \in Counter /\ counted[g] \in Counter
        BY <1>0
      <4>2. \A n \in Counter : n + 0 = n
        BY WrapFacts
      <4> QED BY <4>1, <4>2, WrapFacts
    <3>5. /\ local[t][f] + (v - local[t][f]) = v
          /\ (counted[f] + v) - local[t][f] = counted[f] + (v - local[t][f])
      BY <3>2
    <3>6. counted' = [g \in Fields |-> Wrap(counted[g] + k[g])]
      BY <1>0, <2>2, <3>1, <3>4, <3>5
    <3>7. local' = [local EXCEPT ![t] = [g \in Fields |-> Wrap(local[t][g] + k[g])]]
      <4>1. [local[t] EXCEPT ![f] = v] = [g \in Fields |-> Wrap(local[t][g] + k[g])]
        BY <1>0, <2>2, <3>2, <3>4, <3>5
      <4> QED BY <1>0, <3>1, <4>1
    <3> HIDE DEF k
    <3> QED BY <3>1, <3>3, <3>6, <3>7, CountingStep
  <2> QED BY <2>1, <2>2
<1>3. CASE UNCHANGED auditVars
  BY <1>3, AuditInvStutter
<1> QED BY <1>1, <1>2, <1>3, SyncStep DEF AuditNext

(***************************************************************************)
(* The export and what the threads have yet to merge are what was counted, *)
(* whatever threads count, set and sync at the same time.                  *)
(***************************************************************************)
THEOREM AuditConservation == AuditSpec => []AuditConserved
<1>1. AuditInv => AuditConserved
  BY DEF AuditInv
<1> QED BY <1>1, AuditInvInit, AuditInvStep, PTL DEF AuditSpec
-----------------------------------------------------------------------------
\* TAILQ_REMOVE unlinks the element itself, which a queue holds once.
LEMMA RemoveFirstInjective ==
  ASSUME NEW S, NEW s \in Seq(S), IsInjective(s), NEW n \in 1 .. Len(s)
  PROVE  RemoveFirst(s, s[n]) = RemoveAt(s, n)
<1>1. {i \in 1 .. Len(s) : s[i] = s[n]} = {n}
  BY DEF IsInjective
<1>2. Min({n}) = n
  BY DEF Min
<1>3. SelectInSeq(s, LAMBDA v : v = s[n]) = n
  BY <1>1, <1>2 DEF SelectInSeq
<1> QED BY <1>3 DEF RemoveFirst

\* Moving an element to the end of a queue permutes the queue.
LEMMA MovedSet ==
  ASSUME NEW s, NEW q, NEW L \in Nat, DOMAIN s = 1 .. L, DOMAIN q = 1 .. L,
         IsInjective(s), NEW n \in 1 .. L,
         \A i \in 1 .. L : q[i] = IF i = L THEN s[n] ELSE IF i < n THEN s[i] ELSE s[i + 1]
  PROVE  ToSet(q) = ToSet(s) /\ IsInjective(q)
<1> DEFINE from(k) == IF k = L THEN n ELSE IF k < n THEN k ELSE k + 1
           back(k) == IF k = n THEN L ELSE IF k < n THEN k ELSE k - 1
<1>1. \A k \in 1 .. L : from(k) \in 1 .. L /\ q[k] = s[from(k)]
  OBVIOUS
<1>2. \A k \in 1 .. L : back(k) \in 1 .. L /\ from(back(k)) = k
  OBVIOUS
<1>3. \A i, j \in 1 .. L : from(i) = from(j) => i = j
  OBVIOUS
<1> HIDE DEF from, back
<1>4. ToSet(q) = ToSet(s)
  BY <1>1, <1>2 DEF ToSet
<1>5. IsInjective(q)
  BY <1>1, <1>3 DEF IsInjective
<1> QED BY <1>4, <1>5

\* A chunk that is not in the queue goes to its end.
LEMMA AppendNew ==
  ASSUME NEW S, NEW s \in Seq(S), IsInjective(s), NEW e \in S, e \notin ToSet(s)
  PROVE  /\ Append(s, e) \in Seq(S) /\ Len(Append(s, e)) = Len(s) + 1
         /\ ToSet(Append(s, e)) = ToSet(s) \cup {e}
         /\ IsInjective(Append(s, e))
<1> DEFINE q == Append(s, e)
           L == Len(s)
<1>1. L \in Nat /\ DOMAIN s = 1 .. L
  OBVIOUS
<1>2. q \in Seq(S) /\ Len(q) = L + 1 /\ DOMAIN q = 1 .. L + 1
  BY AppendProperties
<1>3. (\A i \in 1 .. L : q[i] = s[i]) /\ q[L + 1] = e
  BY AppendProperties
<1>4. \A i \in 1 .. L : s[i] # e
  BY <1>1 DEF ToSet
<1>5. \A i \in 1 .. L + 1 : i = L + 1 \/ i \in 1 .. L
  BY <1>1
<1>6. L + 1 \in 1 .. L + 1 /\ 1 .. L \subseteq 1 .. L + 1
  BY <1>1
<1> HIDE DEF q, L
<1>7. ToSet(q) = ToSet(s) \cup {e}
  BY <1>1, <1>2, <1>3, <1>5, <1>6 DEF ToSet
<1>8. IsInjective(q)
  BY <1>1, <1>2, <1>3, <1>4, <1>5 DEF IsInjective
<1> QED BY <1>2, <1>7, <1>8 DEF q, L

\* The first chunk of a list is taken out.
LEMMA TailOld ==
  ASSUME NEW S, NEW s \in Seq(S), IsInjective(s), s # <<>>
  PROVE  /\ Head(s) \in S /\ Head(s) \in ToSet(s)
         /\ Tail(s) \in Seq(S) /\ Len(Tail(s)) = Len(s) - 1
         /\ ToSet(Tail(s)) = ToSet(s) \ {Head(s)}
         /\ IsInjective(Tail(s))
         /\ RemoveFirst(s, Head(s)) = Tail(s)
<1> DEFINE q == Tail(s)
           L == Len(s)
<1>1. L \in Nat /\ L >= 1 /\ DOMAIN s = 1 .. L /\ 1 \in 1 .. L /\ Head(s) = s[1] /\ s[1] \in S
  OBVIOUS
<1>2. q \in Seq(S) /\ Len(q) = L - 1 /\ DOMAIN q = 1 .. L - 1
  BY HeadTailProperties
<1>3. \A i \in 1 .. L - 1 : q[i] = s[i + 1]
  BY <1>2, HeadTailProperties
<1>4. RemoveFirst(s, s[1]) = RemoveAt(s, 1)
  BY <1>1, RemoveFirstInjective
<1>5. RemoveAt(s, 1) = q
  <2>1. RemoveAt(s, 1) \in Seq(S) /\ Len(RemoveAt(s, 1)) = L - 1
    BY <1>1, RemoveAtFacts
  <2>2. \A i \in 1 .. L - 1 : RemoveAt(s, 1)[i] = IF i < 1 THEN s[i] ELSE s[i + 1]
    BY <1>1, RemoveAtFacts
  <2>3. \A i \in 1 .. L - 1 : RemoveAt(s, 1)[i] = q[i]
    BY <1>1, <1>3, <2>2
  <2> QED BY <1>2, <2>1, <2>3, SeqEqual
<1> HIDE DEF q, L
<1>6. \A i \in 1 .. L - 1 : i + 1 \in 1 .. L /\ i + 1 # 1
  BY <1>1
<1>7. \A i \in 1 .. L : i # 1 => i - 1 \in 1 .. L - 1 /\ (i - 1) + 1 = i
  BY <1>1
<1>8. ToSet(q) = ToSet(s) \ {s[1]}
  <2>1. ASSUME NEW x \in ToSet(q) PROVE x \in ToSet(s) /\ x # s[1]
    <3>1. PICK i \in 1 .. L - 1 : q[i] = x
      BY <1>2 DEF ToSet
    <3> QED BY <1>1, <1>3, <1>6, <3>1 DEF ToSet, IsInjective
  <2>2. ASSUME NEW x \in ToSet(s), x # s[1] PROVE x \in ToSet(q)
    <3>1. PICK i \in 1 .. L : s[i] = x
      BY <1>1 DEF ToSet
    <3>2. q[i - 1] = x /\ i - 1 \in 1 .. L - 1
      BY <1>3, <1>7, <2>2, <3>1
    <3> QED BY <1>2, <3>2 DEF ToSet
  <2> QED BY <2>1, <2>2
<1>9. IsInjective(q)
  <2>1. ASSUME NEW i \in 1 .. L - 1, NEW j \in 1 .. L - 1, q[i] = q[j] PROVE i = j
    <3>1. i + 1 = j + 1
      BY <1>1, <1>3, <1>6, <2>1 DEF IsInjective
    <3> QED BY <1>1, <3>1
  <2> QED BY <1>2, <2>1 DEF IsInjective
<1>10. s[1] \in ToSet(s)
  BY <1>1 DEF ToSet
<1> QED BY <1>1, <1>2, <1>4, <1>5, <1>8, <1>9, <1>10 DEF q, L

\* The queue after a flow was touched.
LEMMA TouchedQueue ==
  ASSUME NEW S, NEW s \in Seq(S), IsInjective(s), NEW n \in 1 .. Len(s), NEW e \in S, s[n] = e
  PROVE  /\ RemoveFirst(s, e) = RemoveAt(s, n)
         /\ Append(RemoveFirst(s, e), e) \in Seq(S)
         /\ Len(Append(RemoveFirst(s, e), e)) = Len(s)
         /\ ToSet(Append(RemoveFirst(s, e), e)) = ToSet(s)
         /\ IsInjective(Append(RemoveFirst(s, e), e))
<1> DEFINE L == Len(s)
           q == Append(RemoveAt(s, n), e)
<1>0. L \in Nat /\ DOMAIN s = 1 .. L /\ n \in 1 .. L
  OBVIOUS
<1>1. RemoveFirst(s, e) = RemoveAt(s, n)
  BY RemoveFirstInjective
<1>2. q \in Seq(S) /\ Len(q) = L
  BY MoveToEnd
<1>3. \A i \in 1 .. L : q[i] = IF i = L THEN s[n] ELSE IF i < n THEN s[i] ELSE s[i + 1]
  BY MoveToEnd
<1>4. DOMAIN q = 1 .. L
  BY <1>2
<1> HIDE DEF L, q
<1>5. ToSet(q) = ToSet(s) /\ IsInjective(q)
  BY <1>0, <1>3, <1>4, MovedSet
<1> QED BY <1>1, <1>2, <1>5 DEF L, q
-----------------------------------------------------------------------------
(***************************************************************************)
(* A tracker.  Its queue and its tree hold the same chunks, as many as the *)
(* pool has given away, and the free list holds the others.                *)
(***************************************************************************)
QueueOK(queue, tree, n) ==
  /\ queue \in Seq(Chunks) /\ IsInjective(queue)
  /\ tree \in SUBSET Chunks /\ ToSet(queue) = tree
  /\ n \in 0 .. MaxFlows /\ Len(queue) = n /\ Cardinality(tree) = n

FreeOK(list, tree) ==
  /\ list \in Seq(Chunks) /\ IsInjective(list)
  /\ ToSet(list) = Chunks \ tree

\* A tree holds no more chunks than the pool has, and all of them at most.
LEMMA ChunksFinite ==
  /\ MaxFlows \in Nat \ {0} /\ IsFiniteSet(Chunks) /\ Cardinality(Chunks) = MaxFlows
  /\ \A tree \in SUBSET Chunks :
       /\ IsFiniteSet(tree) /\ Cardinality(tree) \in 0 .. MaxFlows
       /\ Cardinality(tree) = MaxFlows => tree = Chunks
<1>1. MaxFlows \in Nat \ {0}
  BY TrackAssumption
<1>2. IsFiniteSet(Chunks) /\ Cardinality(Chunks) = MaxFlows
  BY <1>1, FS_Interval DEF Chunks
<1>3. ASSUME NEW tree \in SUBSET Chunks
      PROVE  /\ IsFiniteSet(tree) /\ Cardinality(tree) \in 0 .. MaxFlows
             /\ Cardinality(tree) = MaxFlows => tree = Chunks
  <2>1. IsFiniteSet(tree) /\ Cardinality(tree) <= MaxFlows
        /\ (Cardinality(tree) = MaxFlows => tree = Chunks)
    BY <1>2, FS_Subset
  <2>2. Cardinality(tree) \in Nat
    BY <2>1, FS_CardinalityType
  <2> QED BY <1>1, <2>1, <2>2
<1> QED BY <1>1, <1>2, <1>3

\* Touching a flow, the oldest one too, leaves the queue complete.
LEMMA QueueTouch ==
  ASSUME NEW queue, NEW tree, NEW n, QueueOK(queue, tree, n), NEW c \in tree
  PROVE  QueueOK(Append(RemoveFirst(queue, c), c), tree, n)
<1>1. PICK i \in 1 .. Len(queue) : queue[i] = c
  BY DEF QueueOK, ToSet
<1>2. queue \in Seq(Chunks) /\ IsInjective(queue) /\ c \in Chunks
  BY DEF QueueOK
<1>3. /\ Append(RemoveFirst(queue, c), c) \in Seq(Chunks)
      /\ Len(Append(RemoveFirst(queue, c), c)) = Len(queue)
      /\ ToSet(Append(RemoveFirst(queue, c), c)) = ToSet(queue)
      /\ IsInjective(Append(RemoveFirst(queue, c), c))
  BY <1>1, <1>2, TouchedQueue
<1> QED BY <1>3 DEF QueueOK

\* A free chunk goes to the end of the queue.
LEMMA QueueAdd ==
  ASSUME NEW queue, NEW tree, NEW n, QueueOK(queue, tree, n), NEW c \in Chunks, c \notin tree
  PROVE  QueueOK(Append(queue, c), tree \cup {c}, n + 1)
<1>1. /\ Append(queue, c) \in Seq(Chunks) /\ Len(Append(queue, c)) = n + 1
      /\ ToSet(Append(queue, c)) = tree \cup {c} /\ IsInjective(Append(queue, c))
  BY AppendNew DEF QueueOK
<1>2. tree \cup {c} \in SUBSET Chunks /\ IsFiniteSet(tree)
  BY ChunksFinite DEF QueueOK
<1>3. Cardinality(tree \cup {c}) = n + 1
  BY <1>2, FS_AddElement DEF QueueOK
<1>4. n + 1 \in 0 .. MaxFlows
  BY <1>2, <1>3, ChunksFinite
<1> QED BY <1>1, <1>2, <1>3, <1>4 DEF QueueOK

\* prealloc_get() takes the first chunk of the free list.
LEMMA FreeTake ==
  ASSUME NEW list, NEW tree, FreeOK(list, tree), list # <<>>
  PROVE  /\ Head(list) \in Chunks /\ Head(list) \notin tree
         /\ FreeOK(Tail(list), tree \cup {Head(list)})
<1>1. /\ Head(list) \in Chunks /\ Head(list) \in ToSet(list)
      /\ Tail(list) \in Seq(Chunks) /\ IsInjective(Tail(list))
      /\ ToSet(Tail(list)) = ToSet(list) \ {Head(list)}
  BY TailOld DEF FreeOK
<1> QED BY <1>1 DEF FreeOK

\* The free list is empty when the queue holds every chunk, and only then.
LEMMA PoolFull ==
  ASSUME NEW queue, NEW tree, NEW n, QueueOK(queue, tree, n),
         NEW list, FreeOK(list, tree)
  PROVE  /\ list = <<>> => tree = Chunks /\ Len(queue) = MaxFlows /\ queue # <<>>
         /\ list # <<>> => Len(queue) # MaxFlows
<1>1. ASSUME list = <<>> PROVE tree = Chunks /\ Len(queue) = MaxFlows /\ queue # <<>>
  <2>1. ToSet(list) = {}
    BY <1>1 DEF ToSet
  <2>2. tree = Chunks
    BY <2>1 DEF FreeOK, QueueOK
  <2> QED BY <2>2, ChunksFinite DEF QueueOK
<1>2. ASSUME list # <<>> PROVE Len(queue) # MaxFlows
  <2>1. Head(list) \in Chunks /\ Head(list) \notin tree
    BY <1>2, FreeTake
  <2> QED BY <2>1, ChunksFinite DEF QueueOK
<1> QED BY <1>1, <1>2

\* A new pool and an empty tracker are consistent.
LEMMA PoolNew ==
  /\ FreeOK(NewPool, {})
  /\ QueueOK(<<>>, {}, 0)
<1>0. MaxFlows \in Nat \ {0}
  BY ChunksFinite
<1>1. NewPool \in Seq(Chunks) /\ IsInjective(NewPool) /\ ToSet(NewPool) = Chunks
  BY <1>0 DEF NewPool, Chunks, IsInjective, ToSet
<1>2. <<>> \in Seq(Chunks) /\ IsInjective(<<>>) /\ ToSet(<<>>) = {} /\ Len(<<>>) = 0
  BY DEF IsInjective, ToSet
<1>3. Cardinality({}) = 0
  BY FS_EmptySet
<1> QED BY <1>0, <1>1, <1>2, <1>3 DEF FreeOK, QueueOK

(***************************************************************************)
(* Every tracker, whether it is up or down.  The lengths follow from the   *)
(* sets; they are kept because the abstract tracker counts its queue.      *)
(***************************************************************************)
Known == [key : Keys, id : 0 .. next_flow_id - 1, li : 0 .. MaxIds]

PoolInv ==
  /\ TrackTypeOK
  /\ \A t \in Threads : \A c \in flows[t] : flow[t][c] \in Known
  /\ \A t \in Threads :
       /\ state[t] # "panic"
       /\ QueueOK(tos[t], flows[t], used[t])
       /\ state[t] = "up" => FreeOK(free[t], flows[t])
       /\ state[t] = "down" => flows[t] = {}

\* A new flow has a key of a packet and an id below the next one.
LEMMA FilledType ==
  ASSUME NEW old, NEW p \in Packets, next_flow_id \in 0 .. MaxIds, next_flow_id < MaxIds,
         next_flow_id' = next_flow_id + 1
  PROVE  /\ Fill(old, TRACK_KEY(p)) \in FlowType
         /\ Fill(old, TRACK_KEY(p)) \in Known'
         /\ Known \subseteq Known'
<1>1. TRACK_KEY(p) \in Keys
  BY DEF Keys
<1>2. /\ next_flow_id \in 0 .. MaxIds - 1 /\ 0 \in 0 .. MaxIds
      /\ next_flow_id \in 0 .. next_flow_id' - 1
      /\ 0 .. next_flow_id - 1 \subseteq 0 .. next_flow_id' - 1
  BY TrackAssumption
<1> QED BY <1>1, <1>2 DEF Fill, FlowType, Known

\* The trackers start with all chunks free ...
LEMMA PoolInvInit == Init => PoolInv
<1> SUFFICES ASSUME Init PROVE PoolInv
  OBVIOUS
<1>1. AuditTypeOK
  BY AuditInvInit DEF Init, AuditInv
<1>2. /\ FreeOK(NewPool, {}) /\ NewPool \in Seq(Chunks)
      /\ QueueOK(<<>>, {}, 0) /\ <<>> \in Seq(Chunks)
  BY PoolNew DEF FreeOK, QueueOK
<1>3. flow \in [Threads -> [Chunks -> FlowType]]
  BY DEF Init, FlowType
<1>4. MaxIds \in Nat /\ MaxFlows \in Nat
  BY TrackAssumption
<1>5. TrackTypeOK
  BY <1>1, <1>2, <1>3, <1>4 DEF Init, TrackTypeOK
<1> QED BY <1>2, <1>5 DEF Init, PoolInv

\* ... and every operation leaves pool, tree and queue in agreement.
LEMMA PoolInvStep ==
  ASSUME PoolInv, AuditTypeOK', [Next]_vars
  PROVE  PoolInv'
<1>0. /\ state \in [Threads -> {"up", "down", "panic"}] /\ free \in [Threads -> Seq(Chunks)]
      /\ used \in [Threads -> 0 .. MaxFlows] /\ tos \in [Threads -> Seq(Chunks)]
      /\ flows \in [Threads -> SUBSET Chunks] /\ flow \in [Threads -> [Chunks -> FlowType]]
      /\ next_flow_id \in 0 .. MaxIds /\ gone \in Nat
      /\ \A t \in Threads :
           /\ state[t] # "panic"
           /\ QueueOK(tos[t], flows[t], used[t])
           /\ state[t] = "up" => FreeOK(free[t], flows[t])
           /\ state[t] = "down" => flows[t] = {}
      /\ MaxFlows \in Nat /\ MaxIds \in Nat
      /\ \A t \in Threads : \A c \in flows[t] : flow[t][c] \in Known
  BY TrackAssumption DEF PoolInv, TrackTypeOK
<1>1. ASSUME NEW t \in Threads, NEW p \in Packets, AcquireHit(t, TRACK_KEY(p)) PROVE PoolInv'
  <2>1. PICK c \in flows[t] : tos' = [tos EXCEPT ![t] = Append(RemoveFirst(@, c), c)]
    BY <1>1 DEF AcquireHit, Find, Touch
  <2> DEFINE q == Append(RemoveFirst(tos[t], c), c)
  <2>2. QueueOK(q, flows[t], used[t])
    BY <1>0, QueueTouch
  <2>3. q \in Seq(Chunks)
    BY <2>2 DEF QueueOK
  <2>4. tos' = [tos EXCEPT ![t] = q]
    BY <2>1
  <2> HIDE DEF q
  <2>5. TrackTypeOK'
    BY <1>0, <1>1, <2>3, <2>4 DEF AcquireHit, TrackTypeOK
  <2>6. \A u \in Threads : \A d \in flows'[u] : flow'[u][d] \in Known'
    BY <1>0, <1>1 DEF AcquireHit, Known
  <2> QED BY <1>0, <1>1, <2>2, <2>4, <2>5, <2>6 DEF AcquireHit, PoolInv
<1>2. ASSUME NEW t \in Threads, NEW p \in Packets, AcquireNew(t, TRACK_KEY(p)),
             state[t] = "up"
      PROVE  PoolInv'
  <2> DEFINE c == Head(free[t])
             q == Append(tos[t], c)
             fl == Fill(flow[t][c], TRACK_KEY(p))
             f == flows[t] \cup {c}
             l == Tail(free[t])
             n == used[t] + 1
  <2>1. /\ free[t] # <<>> /\ next_flow_id < MaxIds
        /\ flow' = [flow EXCEPT ![t][c] = fl]
        /\ flows' = [flows EXCEPT ![t] = f]
        /\ tos' = [tos EXCEPT ![t] = q]
        /\ free' = [free EXCEPT ![t] = l]
        /\ used' = [used EXCEPT ![t] = n]
        /\ next_flow_id' = next_flow_id + 1
        /\ state' = state /\ gone' = gone
    BY <1>2 DEF AcquireNew, Insert, NextId, Fill
  <2>2. c \in Chunks /\ c \notin flows[t] /\ FreeOK(l, f)
    BY <1>0, <1>2, <2>1, FreeTake
  <2>3. QueueOK(q, f, n)
    BY <1>0, <2>2, QueueAdd
  <2>4. fl \in FlowType /\ fl \in Known' /\ Known \subseteq Known'
    BY <1>0, <2>1, FilledType
  <2>5. q \in Seq(Chunks) /\ n \in 0 .. MaxFlows /\ f \in SUBSET Chunks /\ l \in Seq(Chunks)
    BY <2>2, <2>3 DEF QueueOK, FreeOK
  <2> HIDE DEF c, q, fl, f, l, n
  <2>6. next_flow_id' \in 0 .. MaxIds
    BY <1>0, <2>1
  <2>7. TrackTypeOK'
    BY <1>0, <2>1, <2>2, <2>4, <2>5, <2>6 DEF TrackTypeOK
  <2>8. ASSUME NEW u \in Threads, NEW d \in flows'[u] PROVE flow'[u][d] \in Known'
    <3>1. CASE u = t /\ d = c
      BY <1>0, <2>1, <2>2, <2>4, <3>1
    <3>2. CASE ~(u = t /\ d = c)
      <4>1. d \in flows[u] /\ d \in Chunks
        BY <1>0, <2>1, <3>2 DEF f
      <4>2. flow'[u][d] = flow[u][d]
        BY <1>0, <2>1, <3>2, <4>1
      <4> QED BY <1>0, <2>4, <4>1, <4>2
    <3> QED BY <3>1, <3>2
  <2> QED BY <1>0, <1>2, <2>1, <2>2, <2>3, <2>7, <2>8 DEF PoolInv
<1>3. ASSUME NEW t \in Threads, NEW p \in Packets, AcquireRecycled(t, TRACK_KEY(p)),
             state[t] = "up"
      PROVE  PoolInv'
  <2> DEFINE v == Head(tos[t])
             q == Append(RemoveFirst(tos[t], v), v)
             fl == Fill(flow[t][v], TRACK_KEY(p))
  <2>1. /\ free[t] = <<>> /\ next_flow_id < MaxIds
        /\ flow' = [flow EXCEPT ![t][v] = fl]
        /\ flows' = [flows EXCEPT ![t] = (flows[t] \ {v}) \cup {v}]
        /\ tos' = [tos EXCEPT ![t] = q]
        /\ next_flow_id' = next_flow_id + 1
        /\ state' = state /\ gone' = gone /\ free' = free /\ used' = used
    BY <1>3 DEF AcquireRecycled, Victim, Insert, NextId, Fill
  <2>2. tos[t] # <<>>
    BY <1>0, <1>3, <2>1, PoolFull
  <2>3. v \in flows[t] /\ v \in Chunks
    BY <1>0, <2>2, TailOld DEF QueueOK
  <2>4. flows' = flows
    <3>1. (flows[t] \ {v}) \cup {v} = flows[t]
      BY <2>3
    <3> QED BY <1>0, <2>1, <3>1
  <2>5. QueueOK(q, flows[t], used[t])
    BY <1>0, <2>3, QueueTouch
  <2>6. fl \in FlowType /\ fl \in Known' /\ Known \subseteq Known'
    BY <1>0, <2>1, FilledType
  <2>7. q \in Seq(Chunks)
    BY <2>5 DEF QueueOK
  <2> HIDE DEF v, q, fl
  <2>8. next_flow_id' \in 0 .. MaxIds
    BY <1>0, <2>1
  <2>9. TrackTypeOK'
    BY <1>0, <2>1, <2>3, <2>4, <2>6, <2>7, <2>8 DEF TrackTypeOK
  <2>10. ASSUME NEW u \in Threads, NEW d \in flows'[u] PROVE flow'[u][d] \in Known'
    <3>1. CASE u = t /\ d = v
      BY <1>0, <2>1, <2>3, <2>6, <3>1
    <3>2. CASE ~(u = t /\ d = v)
      <4>1. d \in flows[u] /\ d \in Chunks
        BY <1>0, <2>4
      <4>2. flow'[u][d] = flow[u][d]
        BY <1>0, <2>1, <3>2, <4>1
      <4> QED BY <1>0, <2>6, <4>1, <4>2
    <3> QED BY <3>1, <3>2
  <2> QED BY <1>0, <2>1, <2>4, <2>5, <2>9, <2>10 DEF PoolInv
<1>4. ASSUME NEW t \in Threads, Classify(t) PROVE PoolInv'
  <2> DEFINE c == Last(tos[t])
             n == flow[t][c].id + 1
  <2>1. /\ tos[t] # <<>> /\ flow' = [flow EXCEPT ![t][c].li = n] /\ state[t] = "up"
        /\ state' = state /\ free' = free /\ used' = used /\ tos' = tos /\ flows' = flows
        /\ next_flow_id' = next_flow_id /\ gone' = gone
    BY <1>4 DEF Classify
  <2>2. c \in flows[t] /\ c \in Chunks
    <3>1. tos[t] \in Seq(Chunks) /\ ToSet(tos[t]) = flows[t]
      BY <1>0 DEF QueueOK
    <3> QED BY <2>1, <3>1 DEF Last, ToSet
  <2>3. [flow[t][c] EXCEPT !.li = n] \in Known /\ Known \subseteq FlowType
    <3>1. flow[t][c] \in Known
      BY <1>0, <2>2
    <3>2. n \in 0 .. MaxIds
      BY <1>0, <3>1 DEF Known
    <3>3. 0 .. next_flow_id - 1 \subseteq 0 .. MaxIds - 1
      BY <1>0
    <3> QED BY <3>1, <3>2, <3>3 DEF Known, FlowType
  <2> DEFINE fl == [flow[t][c] EXCEPT !.li = n]
  <2>4. flow' = [flow EXCEPT ![t][c] = fl] /\ Known' = Known
    BY <1>0, <2>1, <2>2 DEF Known
  <2> HIDE DEF fl, c
  <2>5. TrackTypeOK'
    BY <1>0, <2>1, <2>2, <2>3, <2>4 DEF TrackTypeOK, fl
  <2>6. ASSUME NEW u \in Threads, NEW d \in flows'[u] PROVE flow'[u][d] \in Known'
    <3>1. d \in flows[u] /\ d \in Chunks
      BY <1>0, <2>1
    <3>2. flow'[u][d] = IF u = t /\ d = c THEN fl ELSE flow[u][d]
      BY <1>0, <2>2, <2>4, <3>1
    <3> QED BY <1>0, <2>3, <2>4, <3>1, <3>2 DEF fl
  <2> QED BY <1>0, <2>1, <2>5, <2>6 DEF PoolInv
<1>5. ASSUME NEW t \in Threads, peak_track_exit(t) PROVE PoolInv'
  <2> DEFINE none == [c \in Chunks |-> NoFlow]
  <2>1. used[t] - Cardinality(flows[t]) = 0
    BY <1>0 DEF QueueOK
  <2>2. /\ state' = [state EXCEPT ![t] = "down"] /\ used' = [used EXCEPT ![t] = 0]
        /\ flows' = [flows EXCEPT ![t] = {}] /\ tos' = [tos EXCEPT ![t] = <<>>]
        /\ free' = [free EXCEPT ![t] = <<>>] /\ flow' = [flow EXCEPT ![t] = none]
        /\ gone' = gone + Cardinality(flows[t]) /\ next_flow_id' = next_flow_id
    BY <1>5, <2>1 DEF peak_track_exit
  <2>3. none \in [Chunks -> FlowType] /\ gone' \in Nat /\ 0 \in 0 .. MaxFlows
    <3>1. Cardinality(flows[t]) \in Nat
      BY <1>0 DEF QueueOK
    <3> QED BY <1>0, <2>2, <3>1 DEF FlowType
  <2> HIDE DEF none
  <2>4. TrackTypeOK'
    BY <1>0, <2>2, <2>3 DEF TrackTypeOK
  <2>5. \A u \in Threads : \A d \in flows'[u] : flow'[u][d] \in Known'
    BY <1>0, <2>2 DEF Known
  <2> QED BY <1>0, <2>2, <2>4, <2>5, PoolNew DEF PoolInv
<1>6. ASSUME NEW t \in Threads, peak_track_init(t) PROVE PoolInv'
  <2>1. /\ state[t] = "down" /\ state' = [state EXCEPT ![t] = "up"]
        /\ free' = [free EXCEPT ![t] = NewPool]
        /\ used' = used /\ tos' = tos /\ flows' = flows /\ flow' = flow
        /\ next_flow_id' = next_flow_id /\ gone' = gone
    BY <1>6 DEF peak_track_init
  <2>2. NewPool \in Seq(Chunks) /\ flows[t] = {}
    BY <1>0, <2>1, PoolNew DEF FreeOK
  <2>3. TrackTypeOK'
    BY <1>0, <2>1, <2>2 DEF TrackTypeOK
  <2>4. \A u \in Threads : \A d \in flows'[u] : flow'[u][d] \in Known'
    BY <1>0, <2>1 DEF Known
  <2> QED BY <1>0, <2>1, <2>2, <2>3, <2>4, PoolNew DEF PoolInv
<1>7. ASSUME UNCHANGED trackVars PROVE PoolInv'
  BY <1>0, <1>7 DEF trackVars, PoolInv, TrackTypeOK, Known
<1>8. ASSUME NEW t \in Threads, NEW p \in Packets, peak_track_acquire(t, p) PROVE PoolInv'
  <2>1. CASE AcquireFails(t, TRACK_KEY(p))
    BY <1>7, <2>1 DEF AcquireFails
  <2> QED BY <1>1, <1>2, <1>3, <1>8, <2>1 DEF peak_track_acquire
<1> QED BY <1>4, <1>5, <1>6, <1>7, <1>8 DEF Next, vars
-----------------------------------------------------------------------------
(***************************************************************************)
(* The flows.  A conversation is looked up before a flow is made for it,   *)
(* and the id of a new flow is the next one, which no flow can have yet.   *)
(***************************************************************************)
FlowInv ==
  /\ \A t \in Threads : \A c, d \in flows[t] : c # d => flow[t][c].key # flow[t][d].key
  /\ IdsUnique
  /\ FlowMemoryPrivate

\* A new flow in chunk c, free until now or recycled, is unlike all others.
LEMMA FlowInvNew ==
  ASSUME PoolInv, FlowInv, NEW t \in Threads, NEW c \in Chunks, NEW k, Find(t, k) = {},
         flow' = [flow EXCEPT ![t][c] = Fill(@, k)],
         flows' = [flows EXCEPT ![t] = flows[t] \cup {c}]
  PROVE  FlowInv'
<1>0. /\ flows \in [Threads -> SUBSET Chunks] /\ flow \in [Threads -> [Chunks -> FlowType]]
      /\ next_flow_id \in Nat
      /\ \A u \in Threads : \A d \in flows[u] : flow[u][d] \in Known
  BY TrackAssumption DEF PoolInv, TrackTypeOK
<1> DEFINE new == [key |-> k, id |-> next_flow_id, li |-> 0]
<1>1. flow' = [flow EXCEPT ![t][c] = new]
  BY DEF Fill
<1>2. \A u \in Threads : \A d \in flows[u] :
        /\ d \in Chunks
        /\ flow[u][d].id \in 0 .. next_flow_id - 1 /\ flow[u][d].id # next_flow_id
  BY <1>0 DEF Known
<1>3. \A d \in flows[t] : flow[t][d].key # k
  BY DEF Find
<1>4. new.key = k /\ new.id = next_flow_id /\ new.li = 0
  OBVIOUS
<1> HIDE DEF new
<1>5. \A u \in Threads : \A d \in flows'[u] :
        \/ u = t /\ d = c /\ flow'[u][d] = new
        \/ (u # t \/ d # c) /\ d \in flows[u] /\ flow'[u][d] = flow[u][d]
  BY <1>0, <1>1, <1>2
<1>6. \A u \in Threads : \A d, e \in flows'[u] : d # e => flow'[u][d].key # flow'[u][e].key
  BY <1>3, <1>4, <1>5 DEF FlowInv
<1>7. IdsUnique'
  <2> SUFFICES ASSUME NEW u \in Threads, NEW w \in Threads, NEW d \in flows'[u],
                      NEW e \in flows'[w], <<u, d>> # <<w, e>>
               PROVE  flow'[u][d].id # flow'[w][e].id
    BY DEF IdsUnique
  <2> QED BY <1>2, <1>4, <1>5 DEF FlowInv, IdsUnique
<1>8. FlowMemoryPrivate'
  BY <1>4, <1>5 DEF FlowInv, FlowMemoryPrivate
<1> QED BY <1>6, <1>7, <1>8 DEF FlowInv

\* No operation mixes flows up.
LEMMA FlowInvStep ==
  ASSUME PoolInv, FlowInv, [Next]_vars
  PROVE  FlowInv'
<1>0. /\ flows \in [Threads -> SUBSET Chunks] /\ flow \in [Threads -> [Chunks -> FlowType]]
      /\ tos \in [Threads -> Seq(Chunks)]
      /\ \A u \in Threads : /\ QueueOK(tos[u], flows[u], used[u])
                            /\ state[u] = "up" => FreeOK(free[u], flows[u])
      /\ \A u \in Threads : \A d \in flows[u] : flow[u][d] \in Known
  BY DEF PoolInv, TrackTypeOK
<1>1. ASSUME flows' = flows, flow' = flow PROVE FlowInv'
  BY <1>1 DEF FlowInv, IdsUnique, FlowMemoryPrivate
<1>2. ASSUME NEW t \in Threads, NEW p \in Packets, AcquireNew(t, TRACK_KEY(p)),
             state[t] = "up"
      PROVE  FlowInv'
  <2>1. Head(free[t]) \in Chunks
    BY <1>0, <1>2, FreeTake DEF AcquireNew
  <2> QED BY <1>2, <2>1, FlowInvNew DEF AcquireNew, Insert
<1>3. ASSUME NEW t \in Threads, NEW p \in Packets, AcquireRecycled(t, TRACK_KEY(p)),
             state[t] = "up"
      PROVE  FlowInv'
  <2> DEFINE v == Head(tos[t])
  <2>1. tos[t] # <<>>
    BY <1>0, <1>3, PoolFull DEF AcquireRecycled
  <2>2. v \in flows[t] /\ v \in Chunks
    BY <1>0, <2>1, TailOld DEF QueueOK
  <2>3. (flows[t] \ {v}) \cup {v} = flows[t] \cup {v}
    OBVIOUS
  <2> QED BY <1>3, <2>2, <2>3, FlowInvNew DEF AcquireRecycled, Insert, Victim
<1>4. ASSUME NEW t \in Threads, Classify(t) PROVE FlowInv'
  <2> DEFINE c == Last(tos[t])
  <2>1. /\ tos[t] # <<>> /\ flow' = [flow EXCEPT ![t][c].li = flow[t][c].id + 1]
        /\ flows' = flows
    BY <1>4 DEF Classify
  <2>2. c \in flows[t]
    <3>1. tos[t] \in Seq(Chunks) /\ ToSet(tos[t]) = flows[t]
      BY <1>0 DEF QueueOK
    <3> QED BY <2>1, <3>1 DEF Last, ToSet
  <2> HIDE DEF c
  <2>3. \A u \in Threads : \A d \in flows[u] :
          /\ flow'[u][d].key = flow[u][d].key /\ flow'[u][d].id = flow[u][d].id
          /\ flow'[u][d].li \in {flow[u][d].li, flow[u][d].id + 1}
    BY <1>0, <2>1, <2>2 DEF Known
  <2>4. IdsUnique'
    BY <2>1, <2>3 DEF FlowInv, IdsUnique
  <2>5. FlowMemoryPrivate'
    BY <2>1, <2>3 DEF FlowInv, FlowMemoryPrivate
  <2> QED BY <2>1, <2>3, <2>4, <2>5 DEF FlowInv
<1>5. ASSUME NEW t \in Threads, peak_track_exit(t) PROVE FlowInv'
  <2>1. /\ flows' = [flows EXCEPT ![t] = {}]
        /\ flow' = [flow EXCEPT ![t] = [c \in Chunks |-> NoFlow]]
    BY <1>5 DEF peak_track_exit
  <2>2. \A u \in Threads : \A d \in flows'[u] : d \in flows[u] /\ flow'[u][d] = flow[u][d]
    BY <1>0, <2>1
  <2> QED BY <2>2 DEF FlowInv, IdsUnique, FlowMemoryPrivate
<1>6. ASSUME NEW t \in Threads, NEW p \in Packets, peak_track_acquire(t, p) PROVE FlowInv'
  <2>1. CASE AcquireFails(t, TRACK_KEY(p))
    BY <1>1, <2>1 DEF AcquireFails, trackVars
  <2>2. CASE AcquireHit(t, TRACK_KEY(p))
    BY <1>1, <2>2 DEF AcquireHit
  <2> QED BY <1>2, <1>3, <1>6, <2>1, <2>2 DEF peak_track_acquire
<1> QED BY <1>1, <1>4, <1>5, <1>6 DEF Next, vars, trackVars, peak_track_init
-----------------------------------------------------------------------------
(***************************************************************************)
(* The counters of the tracker.                                            *)
(***************************************************************************)
Tracked == [t \in Threads |-> Cardinality(flows[t])]

CountInv ==
  /\ counted[AUDIT_TRACK_ADDED] = Wrap(next_flow_id)
  /\ Wrap(counted[AUDIT_TRACK_ADDED] - counted[AUDIT_TRACK_RECYCLED]) =
       Wrap(gone + SumFunction(Tracked))

\* The same for a difference.
LEMMA WrapMinus == \A a, b \in Int : Wrap(Wrap(a) - Wrap(b)) = Wrap(a - b)
<1> SUFFICES ASSUME NEW a \in Int, NEW b \in Int PROVE Wrap(Wrap(a) - Wrap(b)) = Wrap(a - b)
  OBVIOUS
<1>1. Wrap(a) \in Int /\ Wrap(b) \in Int
  BY WrapFacts
<1> DEFINE A == Wrap(a)
           B == Wrap(b)
           y == (a - b) - B
<1>2. Wrap(A + (0 - B)) = Wrap(a + (0 - B))
  <2>1. 0 - B \in Int
    BY <1>1
  <2> QED BY <2>1, WrapFacts
<1>3. Wrap(B + y) = Wrap(b + y)
  <2>1. y \in Int
    BY <1>1
  <2> QED BY <2>1, WrapFacts
<1> HIDE DEF A, B
<1>4. A + (0 - B) = A - B /\ a + (0 - B) = b + y /\ B + y = a - b
  BY <1>1 DEF A, B
<1> QED BY <1>2, <1>3, <1>4 DEF A, B

\* The three counters of the tracker are fields, and different ones.
LEMMA FieldFacts ==
  /\ AUDIT_TRACK_ADDED \in Fields /\ AUDIT_TRACK_RECYCLED \in Fields
  /\ AUDIT_TRACK_FAILED \in Fields
  /\ AUDIT_TRACK_ADDED # AUDIT_TRACK_RECYCLED /\ AUDIT_TRACK_ADDED # AUDIT_TRACK_FAILED
  /\ AUDIT_TRACK_RECYCLED # AUDIT_TRACK_FAILED
BY TrackAssumption, AuditAssumption
   DEF AUDIT_TRACK_ADDED, AUDIT_TRACK_RECYCLED, AUDIT_TRACK_FAILED, Fields

\* peak_audit_inc() of the fields in S.
LEMMA IncStep ==
  ASSUME AuditInv, NEW t \in Threads, ~Syncing(t), NEW S, Inc(t, S)
  PROVE  AuditInv'
<1>0. local \in [Threads -> [Fields -> Counter]] /\ counted \in [Fields -> Counter]
  BY DEF AuditInv, AuditTypeOK
<1> DEFINE k == [i \in Fields |-> IF i \in S THEN 1 ELSE 0]
<1>1. \A n \in Counter : Wrap(n + 0) = n
  <2>1. \A n \in Counter : n + 0 = n
    BY WrapFacts
  <2> QED BY <2>1, WrapFacts
<1>2. OneMore(counted, S) = [f \in Fields |-> Wrap(counted[f] + k[f])]
  BY <1>0, <1>1 DEF OneMore
<1>3. OneMore(local[t], S) = [f \in Fields |-> Wrap(local[t][f] + k[f])]
  BY <1>0, <1>1 DEF OneMore
<1>4. k \in [Fields -> Int]
  OBVIOUS
<1>5. local' = [local EXCEPT ![t] = OneMore(local[t], S)]
  BY <1>0 DEF Inc
<1>6. local' = [local EXCEPT ![t] = [f \in Fields |-> Wrap(local[t][f] + k[f])]]
  BY <1>3, <1>5
<1>7. counted' = [f \in Fields |-> Wrap(counted[f] + k[f])] /\ UNCHANGED <<export, at, merged>>
  BY <1>2 DEF Inc
<1> HIDE DEF k
<1> QED BY <1>4, <1>6, <1>7, CountingStep

\* The tracker only adds to the counters of its own thread.
LEMMA TrackAuditStep ==
  ASSUME AuditInv, [Next]_vars
  PROVE  AuditInv'
<1>1. ASSUME NEW t \in Threads, NEW p \in Packets, peak_track_acquire(t, p) PROVE AuditInv'
  BY <1>1, IncStep, AuditInvStutter
     DEF peak_track_acquire, AcquireHit, AcquireFails, AcquireNew, AcquireRecycled
<1>2. ASSUME NEW t \in Threads, Classify(t) \/ peak_track_exit(t) \/ peak_track_init(t)
      PROVE  AuditInv'
  BY <1>2, AuditInvStutter DEF Classify, peak_track_exit, peak_track_init
<1>3. CASE UNCHANGED vars
  BY <1>3, AuditInvStutter DEF vars
<1> QED BY <1>1, <1>2, <1>3, SyncStep DEF Next

\* A step of one thread changes its own term of the sum only.
LEMMA TrackedStep ==
  ASSUME PoolInv, NEW t \in Threads, NEW f \in SUBSET Chunks,
         flows' = [flows EXCEPT ![t] = f]
  PROVE  /\ SumFunction(Tracked) \in Int /\ SumFunction(Tracked)' \in Int
         /\ SumFunction(Tracked)' =
              SumFunction(Tracked) + (Cardinality(f) - Cardinality(flows[t]))
<1> DEFINE F == Tracked
           G == [u \in Threads |-> IF u = t THEN Cardinality(f) ELSE Cardinality(flows[u])]
<1>0. flows \in [Threads -> SUBSET Chunks]
  BY DEF PoolInv, TrackTypeOK
<1>1. \A x \in SUBSET Chunks : Cardinality(x) \in Int
  BY ChunksFinite
<1>2. F \in [Threads -> Int] /\ G \in [Threads -> Int]
  BY <1>0, <1>1 DEF Tracked
<1>3. Tracked' = G
  BY <1>0 DEF Tracked
<1>4. \A u \in Threads \ {t} : F[u] = G[u]
  BY DEF Tracked
<1>5. F[t] = Cardinality(flows[t]) /\ G[t] = Cardinality(f)
  BY DEF Tracked
<1> HIDE DEF F, G
<1>6. /\ SumFunction(F) \in Int /\ SumFunction(G) \in Int
      /\ SumFunction(G) = SumFunction(F) + (G[t] - F[t])
  BY <1>2, <1>4, AuditAssumption, SumChange
<1>7. SumFunction(Tracked)' = SumFunction(G)
  BY <1>3
<1> QED BY <1>5, <1>6, <1>7 DEF F

\* Every operation counts what it does to the trackers.
LEMMA CountInvStep ==
  ASSUME AuditInv, PoolInv, CountInv, [Next]_vars
  PROVE  CountInv'
<1> DEFINE A == AUDIT_TRACK_ADDED
           R == AUDIT_TRACK_RECYCLED
           S == SumFunction(Tracked)
<1>0. /\ counted \in [Fields -> Counter] /\ A \in Fields /\ R \in Fields /\ A # R
      /\ counted[A] \in Int /\ counted[R] \in Int /\ Wrap(counted[A]) = counted[A]
      /\ Wrap(counted[R]) = counted[R]
      /\ next_flow_id \in Int /\ gone \in Int
      /\ A # AUDIT_TRACK_FAILED /\ R # AUDIT_TRACK_FAILED
  <2>1. counted \in [Fields -> Counter] /\ next_flow_id \in Int /\ gone \in Int
    BY DEF AuditInv, AuditTypeOK, PoolInv, TrackTypeOK
  <2>2. counted[A] \in Counter /\ counted[R] \in Counter
    BY <2>1, FieldFacts
  <2> QED BY <2>1, <2>2, FieldFacts, WrapFacts
<1>1. flows \in [Threads -> SUBSET Chunks]
  BY DEF PoolInv, TrackTypeOK
<1>2. ASSUME flows' = flows, next_flow_id' = next_flow_id, gone' = gone,
             counted'[A] = counted[A], counted'[R] = counted[R]
      PROVE  CountInv'
  <2>1. Tracked' = Tracked
    BY <1>2 DEF Tracked
  <2> QED BY <1>2, <2>1 DEF CountInv, Wrap
<1> HIDE DEF A, R
<1>3. ASSUME NEW t \in Threads, NEW p \in Packets, AcquireNew(t, TRACK_KEY(p)),
             state[t] = "up"
      PROVE  CountInv'
  <2> DEFINE f == flows[t] \cup {Head(free[t])}
  <2>1. /\ flows' = [flows EXCEPT ![t] = f] /\ gone' = gone
        /\ next_flow_id' = next_flow_id + 1
        /\ counted' = OneMore(counted, {A})
    BY <1>3 DEF AcquireNew, Insert, NextId, Inc, A
  <2>2. f \in SUBSET Chunks /\ Cardinality(f) = Cardinality(flows[t]) + 1
        /\ Cardinality(flows[t]) \in Int
    <3>1. Head(free[t]) \in Chunks /\ Head(free[t]) \notin flows[t]
      BY <1>3, FreeTake DEF AcquireNew, PoolInv
    <3>2. flows[t] \in SUBSET Chunks
      BY <1>1
    <3> QED BY <3>1, <3>2, ChunksFinite, FS_AddElement
  <2> HIDE DEF f
  <2>3. S \in Int /\ S' = S + 1
    <3>1. S \in Int /\ S' = S + (Cardinality(f) - Cardinality(flows[t]))
      BY <2>1, <2>2, TrackedStep
    <3>2. Cardinality(f) - Cardinality(flows[t]) = 1
      BY <2>2
    <3> QED BY <3>1, <3>2
  <2>4. counted'[A] = Wrap(counted[A] + 1) /\ counted'[R] = counted[R]
    BY <1>0, <2>1 DEF OneMore
  <2>5. counted[A] = Wrap(next_flow_id) /\ Wrap(counted[A] - counted[R]) = Wrap(gone + S)
    BY DEF CountInv, A, R
  <2> HIDE DEF S
  <2>6. counted'[A] = Wrap(next_flow_id + 1)
    BY <1>0, <2>4, <2>5, WrapFacts
  <2>7. Wrap(counted'[A] - counted'[R]) = Wrap(gone + (S + 1))
    <3> DEFINE d == counted[A] - counted[R]
               g == gone + S
    <3>1. d \in Int /\ counted[A] + 1 \in Int /\ g \in Int
      BY <1>0, <2>3
    <3>2. Wrap(counted'[A] - counted'[R]) = Wrap((counted[A] + 1) - counted[R])
      BY <1>0, <2>4, <3>1, WrapMinus
    <3>3. (counted[A] + 1) - counted[R] = d + 1 /\ g + 1 = gone + (S + 1)
      BY <1>0, <2>3
    <3>4. Wrap(d) = Wrap(g)
      BY <2>5
    <3> HIDE DEF d, g
    <3>5. \A x \in Int : Wrap(Wrap(x) + 1) = Wrap(x + 1)
      <4>1. 1 \in Int
        OBVIOUS
      <4> QED BY <4>1, WrapFacts
    <3> QED BY <3>1, <3>2, <3>3, <3>4, <3>5
  <2> QED BY <2>1, <2>3, <2>6, <2>7 DEF CountInv, A, R, S, Wrap
<1>4. ASSUME NEW t \in Threads, NEW p \in Packets, AcquireRecycled(t, TRACK_KEY(p)),
             state[t] = "up"
      PROVE  CountInv'
  <2> DEFINE v == Head(tos[t])
  <2>1. /\ flows' = [flows EXCEPT ![t] = (flows[t] \ {v}) \cup {v}] /\ gone' = gone
        /\ next_flow_id' = next_flow_id + 1
        /\ counted' = OneMore(counted, {R, A})
    BY <1>4 DEF AcquireRecycled, Insert, NextId, Inc, Victim, A, R
  <2>2. v \in flows[t]
    <3>1. QueueOK(tos[t], flows[t], used[t]) /\ FreeOK(free[t], flows[t]) /\ free[t] = <<>>
      BY <1>4 DEF PoolInv, AcquireRecycled
    <3>2. tos[t] # <<>>
      BY <3>1, PoolFull
    <3> QED BY <3>1, <3>2, TailOld DEF QueueOK
  <2>3. flows' = flows
    <3>1. (flows[t] \ {v}) \cup {v} = flows[t]
      BY <2>2
    <3> QED BY <1>1, <2>1, <3>1
  <2>4. S' = S
    <3>1. Tracked' = Tracked
      BY <2>3 DEF Tracked
    <3> QED BY <3>1
  <2>5. counted'[A] = Wrap(counted[A] + 1) /\ counted'[R] = Wrap(counted[R] + 1)
    BY <1>0, <2>1 DEF OneMore
  <2>6. counted[A] = Wrap(next_flow_id) /\ Wrap(counted[A] - counted[R]) = Wrap(gone + S)
    BY DEF CountInv, A, R
  <2> HIDE DEF S
  <2>7. counted'[A] = Wrap(next_flow_id + 1)
    BY <1>0, <2>5, <2>6, WrapFacts
  <2>8. Wrap(counted'[A] - counted'[R]) = Wrap(gone + S)
    <3>1. counted[A] + 1 \in Int /\ counted[R] + 1 \in Int
          /\ (counted[A] + 1) - (counted[R] + 1) = counted[A] - counted[R]
      BY <1>0
    <3> QED BY <2>5, <2>6, <3>1, WrapMinus
  <2> QED BY <2>1, <2>4, <2>7, <2>8 DEF CountInv, A, R, S, Wrap
<1>5. ASSUME NEW t \in Threads, peak_track_exit(t) PROVE CountInv'
  <2> DEFINE n == Cardinality(flows[t])
  <2>1. /\ flows' = [flows EXCEPT ![t] = {}] /\ gone' = gone + n
        /\ next_flow_id' = next_flow_id /\ counted' = counted
    BY <1>5 DEF peak_track_exit, auditVars
  <2>2. n \in Int /\ Cardinality({}) = 0
    <3>1. flows[t] \in SUBSET Chunks
      BY <1>1
    <3> QED BY <3>1, ChunksFinite, FS_EmptySet
  <2>3. S \in Int /\ S' \in Int /\ S' = S + (0 - n)
    BY <2>1, <2>2, TrackedStep
  <2> HIDE DEF n, S
  <2>4. gone' + S' = gone + S
    BY <1>0, <2>1, <2>2, <2>3
  <2> QED BY <2>1, <2>4 DEF CountInv, S, Wrap
<1>6. ASSUME NEW t \in Threads, NEW p \in Packets, peak_track_acquire(t, p) PROVE CountInv'
  <2>1. CASE AcquireFails(t, TRACK_KEY(p))
    <3>1. counted' = OneMore(counted, {AUDIT_TRACK_FAILED}) /\ UNCHANGED trackVars
      BY <2>1 DEF AcquireFails, Inc
    <3>2. counted'[A] = counted[A] /\ counted'[R] = counted[R]
      BY <1>0, <3>1 DEF OneMore
    <3> QED BY <1>2, <3>1, <3>2 DEF trackVars
  <2>2. CASE AcquireHit(t, TRACK_KEY(p))
    BY <1>2, <2>2 DEF AcquireHit, auditVars
  <2> QED BY <1>3, <1>4, <1>6, <2>1, <2>2 DEF peak_track_acquire
<1>7. ASSUME NEW t \in Threads, Classify(t) \/ peak_track_init(t) PROVE CountInv'
  BY <1>2, <1>7 DEF Classify, peak_track_init, auditVars
<1>8. ASSUME NEW t \in Threads, AuditSync(t), UNCHANGED trackVars PROVE CountInv'
  BY <1>2, <1>8 DEF AuditSync, peak_audit_sync, SyncMerge, SyncWipe, trackVars
<1>9. CASE UNCHANGED vars
  BY <1>2, <1>9 DEF vars, trackVars, auditVars
<1> QED BY <1>5, <1>6, <1>7, <1>8, <1>9 DEF Next
-----------------------------------------------------------------------------
TrackInv == AuditInv /\ PoolInv /\ FlowInv /\ CountInv

\* The whole invariant holds at first ...
LEMMA TrackInvInit == Init => TrackInv
<1> SUFFICES ASSUME Init PROVE TrackInv
  OBVIOUS
<1>1. AuditInv /\ PoolInv
  BY AuditInvInit, PoolInvInit DEF Init
<1>2. FlowInv
  BY DEF Init, FlowInv, IdsUnique, FlowMemoryPrivate
<1>3. CountInv
  <2>1. Tracked \in [Threads -> Int] /\ \A t \in Threads : Tracked[t] = 0
    BY FS_EmptySet DEF Init, Tracked
  <2>2. SumFunction(Tracked) = 0
    BY <2>1, AuditAssumption, SumZero
  <2>3. counted[AUDIT_TRACK_ADDED] = 0 /\ counted[AUDIT_TRACK_RECYCLED] = 0
    BY FieldFacts DEF Init, AuditInit
  <2>4. Wrap(0) = 0
    <3>1. 0 \in Counter
      BY AuditAssumption DEF Counter
    <3> QED BY <3>1, WrapFacts
  <2> QED BY <2>2, <2>3, <2>4 DEF Init, CountInv
<1> QED BY <1>1, <1>2, <1>3 DEF TrackInv

\* ... through every step ...
LEMMA TrackInvStep == TrackInv /\ [Next]_vars => TrackInv'
<1> SUFFICES ASSUME TrackInv, [Next]_vars PROVE TrackInv'
  OBVIOUS
<1>1. AuditInv' /\ AuditTypeOK'
  BY TrackAuditStep DEF TrackInv, AuditInv
<1> QED BY <1>1, PoolInvStep, FlowInvStep, CountInvStep DEF TrackInv

\* ... and so always.
LEMMA TrackInvAlways == Spec => []TrackInv
BY TrackInvInit, TrackInvStep, PTL DEF Spec

\* The first property is part of it.
LEMMA PoolInvSound == PoolInv => PoolSound
BY DEF PoolInv, QueueOK, FreeOK, PoolSound, PoolConsistent

(***************************************************************************)
(* prealloc_exit() never finds a chunk missing: through recycling, refusal *)
(* and any number of exits and inits, pool, tree and queue agree.          *)
(***************************************************************************)
THEOREM TrackPool == Spec => []PoolSound
<1>1. TrackInv => PoolSound
  BY PoolInvSound DEF TrackInv
<1> QED BY <1>1, TrackInvAlways, PTL

\* The lower address comes first in a key.
LEMMA KeyOrder ==
  ASSUME NEW k \in Keys
  PROVE  k.addr[1] \in Int /\ k.addr[2] \in Int /\ k.addr[1] <= k.addr[2]
<1>1. PICK p \in Packets : k = TRACK_KEY(p)
  BY DEF Keys
<1>2. p.net_saddr \in Int /\ p.net_daddr \in Int
  BY TrackAssumption
<1> QED BY <1>1, <1>2 DEF TRACK_KEY

\* Two flows of one conversation would have keys in both orders.
LEMMA FlowsApartInv == PoolInv /\ FlowInv => FlowsApart
<1> SUFFICES ASSUME PoolInv, FlowInv PROVE OneFlowPerConversation
  BY DEF FlowInv, FlowsApart
<1> SUFFICES ASSUME NEW t \in Threads, NEW c \in flows[t], NEW d \in flows[t], c # d,
                    flow[t][d].key = Swap(flow[t][c].key)
             PROVE  flow[t][c].key.addr[1] = flow[t][c].key.addr[2]
  BY DEF OneFlowPerConversation, FlowInv
<1> DEFINE k == flow[t][c].key
           j == flow[t][d].key
<1>1. k \in Keys /\ j \in Keys
  BY DEF PoolInv, Known
<1>2. j.addr[1] = k.addr[2] /\ j.addr[2] = k.addr[1]
  BY DEF Swap
<1> HIDE DEF k, j
<1>3. k.addr[1] = k.addr[2]
  BY <1>1, <1>2, KeyOrder
<1> QED BY <1>3 DEF k

(***************************************************************************)
(* RB_INSERT never meets the key it inserts, both directions between two   *)
(* hosts share a flow, ids are unique across threads, and a recycled chunk *)
(* shows nothing of the flow before.                                       *)
(***************************************************************************)
THEOREM TrackFlows == Spec => []FlowsApart
<1>1. TrackInv => FlowsApart
  BY FlowsApartInv DEF TrackInv
<1> QED BY <1>1, TrackInvAlways, PTL

\* What the counters hold altogether is what was counted.
LEMMA CountsMatch == AuditInv /\ CountInv => AuditMatchesFlows
<1> SUFFICES ASSUME AuditInv, CountInv PROVE AuditMatchesFlows
  OBVIOUS
<1>1. \A f \in Fields : Total(f) = counted[f]
  BY DEF AuditInv, AuditConserved, Total
<1> QED BY <1>1, FieldFacts DEF CountInv, AuditMatchesFlows, Tracked

(***************************************************************************)
(* What the threads have counted, merged or not, is the number of ids that *)
(* were given out and the number of flows in the trackers, up to the width *)
(* of a counter.                                                           *)
(***************************************************************************)
THEOREM TrackCounts == Spec => []AuditMatchesFlows
<1>1. TrackInv => AuditMatchesFlows
  BY CountsMatch DEF TrackInv
<1> QED BY <1>1, TrackInvAlways, PTL
-----------------------------------------------------------------------------
(***************************************************************************)
(* The refinement.  The abstract queue of a thread is the concrete one     *)
(* seen through the chunks' keys and ids.                                  *)
(***************************************************************************)
Entry(t, c) == [key |-> flow[t][c].key, id |-> flow[t][c].id]

\* The abstract queue is as long as the queue and shows its flows in order.
LEMMA RecentFacts ==
  ASSUME PoolInv, NEW t \in Threads
  PROVE  /\ Recent(t) \in Seq([key : Keys, id : Nat]) /\ Len(Recent(t)) = Len(tos[t])
         /\ DOMAIN tos[t] = 1 .. Len(tos[t])
         /\ \A n \in 1 .. Len(tos[t]) :
              /\ tos[t][n] \in flows[t] /\ Recent(t)[n] = Entry(t, tos[t][n])
<1>1. QueueOK(tos[t], flows[t], used[t]) /\ \A c \in flows[t] : flow[t][c] \in Known
  BY DEF PoolInv
<1>2. tos[t] \in Seq(Chunks) /\ DOMAIN tos[t] = 1 .. Len(tos[t]) /\ Len(tos[t]) \in Nat
  BY <1>1 DEF QueueOK
<1>3. \A n \in 1 .. Len(tos[t]) : tos[t][n] \in flows[t]
  BY <1>1, <1>2 DEF QueueOK, ToSet
<1>4. next_flow_id \in Nat
  BY TrackAssumption DEF PoolInv, TrackTypeOK
<1>5. \A n \in 1 .. Len(tos[t]) : Entry(t, tos[t][n]) \in [key : Keys, id : Nat]
  BY <1>1, <1>3, <1>4 DEF Entry, Known
<1>6. Recent(t) = [n \in 1 .. Len(tos[t]) |-> Entry(t, tos[t][n])]
  BY <1>2 DEF Recent, Entry
<1> QED BY <1>2, <1>3, <1>5, <1>6

\* A function on an initial segment of the numbers is a sequence.
LEMMA IsSequence ==
  ASSUME NEW S, NEW n \in Nat, NEW z, z = [i \in 1 .. n |-> z[i]], \A i \in 1 .. n : z[i] \in S
  PROVE  z \in Seq(S) /\ Len(z) = n
<1>1. z \in [1 .. n -> S]
  OBVIOUS
<1> QED BY <1>1

\* What MoveToEnd says of the queue identifies it.
LEMMA MovedIs ==
  ASSUME NEW S, NEW s \in Seq(S), NEW n \in 1 .. Len(s), NEW z \in Seq(S), Len(z) = Len(s),
         \A i \in 1 .. Len(s) : z[i] = IF i = Len(s) THEN s[n] ELSE IF i < n THEN s[i] ELSE s[i + 1]
  PROVE  z = Append(RemoveAt(s, n), s[n])
<1> DEFINE x == s[n]
           v == Append(RemoveAt(s, n), x)
<1>1. x \in S /\ \A i \in 1 .. Len(s) :
                   z[i] = IF i = Len(s) THEN x ELSE IF i < n THEN s[i] ELSE s[i + 1]
  OBVIOUS
<1> HIDE DEF x
<1>2. v \in Seq(S) /\ Len(v) = Len(s)
  BY <1>1, MoveToEnd
<1>3. \A i \in 1 .. Len(s) : v[i] = IF i = Len(s) THEN x ELSE IF i < n THEN s[i] ELSE s[i + 1]
  BY <1>1, MoveToEnd
<1> HIDE DEF v
<1>4. \A i \in 1 .. Len(s) : z[i] = v[i]
  BY <1>1, <1>3
<1>5. z = v
  BY <1>2, <1>4, SeqEqual
<1> QED BY <1>5 DEF v, x

\* What Append does identifies its result.
LEMMA AppendedIs ==
  ASSUME NEW S, NEW s \in Seq(S), NEW e \in S, NEW z \in Seq(S), Len(z) = Len(s) + 1,
         \A i \in 1 .. Len(s) : z[i] = s[i], z[Len(s) + 1] = e
  PROVE  z = Append(s, e)
<1> DEFINE v == Append(s, e)
<1>1. v \in Seq(S) /\ Len(v) = Len(s) + 1 /\ v[Len(s) + 1] = e
  BY AppendProperties
<1>2. \A i \in 1 .. Len(s) : v[i] = s[i]
  BY AppendProperties
<1> HIDE DEF v
<1>3. ASSUME NEW i \in 1 .. Len(s) + 1 PROVE z[i] = v[i]
  <2>1. i = Len(s) + 1 \/ i \in 1 .. Len(s)
    OBVIOUS
  <2> QED BY <1>1, <1>2, <2>1
<1>4. z = v
  BY <1>1, <1>3, SeqEqual
<1> QED BY <1>4 DEF v

\* What the abstract tracker shows of a flow.
LEMMA EntryType ==
  ASSUME PoolInv, NEW t \in Threads, NEW c \in flows[t]
  PROVE  Entry(t, c) \in [key : Keys, id : Nat]
<1>1. flow[t][c] \in Known /\ next_flow_id \in Nat
  BY TrackAssumption DEF PoolInv, TrackTypeOK
<1> QED BY <1>1 DEF Entry, Known

Queues == [t \in Threads |-> Recent(t)]
Seen(t) == [c \in Chunks |-> Entry(t, c)]

\* The step of a thread changes no other thread's queue.
LEMMA OthersKept ==
  ASSUME NEW t \in Threads,
         \A u \in Threads \ {t} : tos'[u] = tos[u] /\ flow'[u] = flow[u]
  PROVE  Queues' = [Queues EXCEPT ![t] = Recent(t)']
<1>1. \A u \in Threads \ {t} : Recent(u)' = Recent(u)
  BY DEF Recent
<1> QED BY <1>1 DEF Queues

\* A known flow moves to the end of the abstract queue.
LEMMA HitRefines ==
  ASSUME PoolInv, NEW t \in Threads, NEW k, AcquireHit(t, k)
  PROVE  LRU!Hit(t, k)
<1>1. PICK c \in Find(t, k) : tos' = [tos EXCEPT ![t] = Append(RemoveFirst(@, c), c)]
  BY DEF AcquireHit, Touch
<1>2. /\ QueueOK(tos[t], flows[t], used[t]) /\ tos \in [Threads -> Seq(Chunks)]
      /\ c \in flows[t] /\ c \in Chunks /\ flow[t][c].key = k
  BY DEF PoolInv, TrackTypeOK, QueueOK, Find
<1>3. PICK n \in 1 .. Len(tos[t]) : tos[t][n] = c
  BY <1>2 DEF QueueOK, ToSet
<1>4. RemoveFirst(tos[t], c) = RemoveAt(tos[t], n)
  BY <1>2, <1>3, TouchedQueue DEF QueueOK
<1> DEFINE q == Append(RemoveAt(tos[t], n), c)
           r == Recent(t)
           P == [key : Keys, id : Nat]
<1>5. /\ tos'[t] = q /\ flow' = flow /\ next_flow_id' = next_flow_id
      /\ \A u \in Threads \ {t} : tos'[u] = tos[u] /\ flow'[u] = flow[u]
  BY <1>1, <1>2, <1>4 DEF AcquireHit
<1>6. /\ r \in Seq(P) /\ Len(r) = Len(tos[t]) /\ DOMAIN r = 1 .. Len(tos[t])
      /\ \A i \in 1 .. Len(tos[t]) : tos[t][i] \in flows[t] /\ r[i] = Entry(t, tos[t][i])
  <2>1. r \in Seq(P) /\ Len(r) = Len(tos[t])
    BY RecentFacts
  <2>2. \A i \in 1 .. Len(tos[t]) : tos[t][i] \in flows[t] /\ r[i] = Entry(t, tos[t][i])
    BY RecentFacts
  <2> HIDE DEF r, P
  <2> QED BY <2>1, <2>2
<1>7. /\ q \in Seq(Chunks) /\ \A i \in DOMAIN q : q[i] \in Chunks
  BY <1>2, <1>3, <1>4, TouchedQueue DEF QueueOK
<1>8. Len(q) = Len(tos[t]) /\ DOMAIN q = 1 .. Len(tos[t]) /\ ToSet(q) = flows[t]
  BY <1>2, <1>3, <1>4, <1>7, TouchedQueue DEF QueueOK
<1>9. \A i \in 1 .. Len(tos[t]) :
        /\ Recent(t)'[i] = Seen(t)[q[i]] /\ Seen(t)[q[i]] \in P
        /\ r[i] = Seen(t)[tos[t][i]]
  <2>1. \A d \in flows[t] : Seen(t)[d] = Entry(t, d) /\ Entry(t, d) \in P
    BY <1>2, EntryType DEF Seen, QueueOK
  <2>2. \A i \in 1 .. Len(tos[t]) : q[i] \in flows[t]
    BY <1>8 DEF ToSet
  <2>3. \A i \in 1 .. Len(tos[t]) : Recent(t)'[i] = Entry(t, q[i])
    BY <1>5, <1>8 DEF Recent, Entry
  <2> HIDE DEF q, r, P
  <2> QED BY <1>6, <2>1, <2>2, <2>3
<1>10. Recent(t)' = Append(RemoveAt(r, n), r[n])
  <2> DEFINE z == Recent(t)'
             L == Len(tos[t])
  <2>1. z = [i \in 1 .. L |-> z[i]] /\ L \in Nat
    BY <1>2, <1>5, <1>8 DEF Recent
  <2>2. \A i \in 1 .. L : q[i] = IF i = L THEN c ELSE IF i < n THEN tos[t][i] ELSE tos[t][i + 1]
    BY <1>2, <1>3, MoveToEnd
  <2> HIDE DEF r, P, z, q
  <2>3. z \in Seq(P) /\ Len(z) = L
    <3> HIDE DEF L
    <3>1. \A i \in 1 .. L : z[i] \in P
      BY <1>9 DEF z, L
    <3> QED BY <2>1, <3>1
  <2>4. r \in Seq(P) /\ Len(r) = L /\ n \in 1 .. L
    BY <1>3, <1>6
  <2>5. ASSUME NEW i \in 1 .. L
        PROVE  z[i] = IF i = L THEN r[n] ELSE IF i < n THEN r[i] ELSE r[i + 1]
    <3>1. z[i] = Seen(t)[q[i]] /\ r[i] = Seen(t)[tos[t][i]]
      BY <1>9 DEF z
    <3>2. r[n] = Seen(t)[c]
      BY <1>3, <1>9
    <3>3. i # L => r[i + 1] = Seen(t)[tos[t][i + 1]]
      <4>1. i # L => i + 1 \in 1 .. L
        BY <2>1
      <4> QED BY <1>9, <4>1
    <3>4. q[i] = IF i = L THEN c ELSE IF i < n THEN tos[t][i] ELSE tos[t][i + 1]
      BY <2>2
    <3> HIDE DEF L
    <3> QED BY <3>1, <3>2, <3>3, <3>4
  <2>6. z = Append(RemoveAt(r, n), r[n])
    <3> HIDE DEF L
    <3> QED BY <2>3, <2>4, <2>5, MovedIs
  <2> QED BY <2>6 DEF z
<1>11. Queues' = [Queues EXCEPT ![t] = Append(RemoveAt(Queues[t], n), Queues[t][n])]
  BY <1>5, <1>10, OthersKept DEF Queues
<1>12. n \in DOMAIN Queues[t] /\ Queues[t][n].key = k
  BY <1>2, <1>3, <1>6 DEF Queues, Entry
<1>13. LRU!RemoveAt(Queues[t], n) = RemoveAt(Queues[t], n)
  BY DEF RemoveAt, LRU!RemoveAt
<1> QED BY <1>5, <1>11, <1>12, <1>13 DEF LRU!Hit, Queues

\* A flow that is not in the queue is not known to the abstract tracker.
LEMMA NotKnown ==
  ASSUME PoolInv, NEW t \in Threads, NEW k, Find(t, k) = {}
  PROVE  ~LRU!Knows(t, k)
<1>1. \A n \in 1 .. Len(tos[t]) : tos[t][n] \in flows[t] /\ Recent(t)[n] = Entry(t, tos[t][n])
  BY RecentFacts
<1>2. DOMAIN Recent(t) = 1 .. Len(tos[t])
  <2>1. tos[t] \in Seq(Chunks)
    BY DEF PoolInv, TrackTypeOK
  <2> QED BY <2>1 DEF Recent
<1>3. ASSUME NEW n \in DOMAIN Recent(t) PROVE Recent(t)[n].key # k
  <2>1. tos[t][n] \in flows[t] /\ Recent(t)[n] = Entry(t, tos[t][n])
    BY <1>1, <1>2
  <2>2. flow[t][tos[t][n]].key # k
    BY <2>1 DEF Find
  <2> QED BY <2>1, <2>2 DEF Entry
<1>4. Queues[t] = Recent(t)
  BY DEF Queues
<1> QED BY <1>3, <1>4 DEF LRU!Knows, Queues

(***************************************************************************)
(* A new flow in chunk c.  What is left of the queue, s, holds other       *)
(* chunks only, so nothing of what the abstract queue r shows of it        *)
(* changes.                                                                *)
(***************************************************************************)
LEMMA RecentGrows ==
  ASSUME PoolInv, NEW t \in Threads, NEW c \in Chunks, NEW p \in Packets,
         NEW s \in Seq(Chunks), \A i \in 1 .. Len(s) : s[i] \in flows[t] /\ s[i] # c,
         NEW r \in Seq([key : Keys, id : Nat]), Len(r) = Len(s),
         \A i \in 1 .. Len(s) : r[i] = Entry(t, s[i]),
         \A d \in Chunks : d # c => flow'[t][d] = flow[t][d],
         flow'[t][c] = Fill(flow[t][c], TRACK_KEY(p)), tos'[t] = Append(s, c)
  PROVE  Recent(t)' = Append(r, [key |-> TRACK_KEY(p), id |-> next_flow_id])
<1> DEFINE P == [key : Keys, id : Nat]
           e == [key |-> TRACK_KEY(p), id |-> next_flow_id]
           z == Recent(t)'
           L == Len(s)
<1>0. L \in Nat /\ L + 1 \in Nat /\ next_flow_id \in Nat
  BY TrackAssumption DEF PoolInv, TrackTypeOK
<1>1. e \in P
  BY <1>0 DEF Keys
<1>3. DOMAIN Append(s, c) = 1 .. L + 1 /\ Append(s, c)[L + 1] = c
  BY AppendProperties
<1>4. \A i \in 1 .. L : Append(s, c)[i] = s[i]
  BY AppendProperties
<1>6. flow'[t][c].key = TRACK_KEY(p) /\ flow'[t][c].id = next_flow_id
  BY DEF Fill
<1>7. z = [i \in 1 .. L + 1 |-> [key |-> flow'[t][Append(s, c)[i]].key,
                                 id |-> flow'[t][Append(s, c)[i]].id]]
  BY <1>3 DEF Recent
<1>8. ASSUME NEW i \in 1 .. L PROVE z[i] = r[i]
  <2>1. i \in 1 .. L + 1 /\ Append(s, c)[i] = s[i] /\ s[i] \in Chunks /\ s[i] # c
    BY <1>0, <1>4
  <2>2. flow'[t][s[i]] = flow[t][s[i]]
    BY <2>1
  <2>3. z[i] = [key |-> flow'[t][s[i]].key, id |-> flow'[t][s[i]].id]
    BY <1>7, <2>1
  <2> QED BY <2>2, <2>3 DEF Entry
<1>9. z[L + 1] = e
  <2>1. L + 1 \in 1 .. L + 1
    BY <1>0
  <2> QED BY <1>3, <1>6, <1>7, <2>1
<1>10. z = [i \in 1 .. L + 1 |-> z[i]]
  BY <1>7
<1>5. r \in Seq(P) /\ Len(r) = L
  OBVIOUS
<1> HIDE DEF P, e, z, L
<1>11. \A i \in 1 .. L : r[i] \in P
  BY <1>5
<1>12. z \in Seq(P) /\ Len(z) = L + 1
  <2>1. \A i \in 1 .. L + 1 : i = L + 1 \/ i \in 1 .. L
    BY <1>0
  <2>2. \A i \in 1 .. L + 1 : z[i] \in P
    BY <1>1, <1>8, <1>9, <1>11, <2>1
  <2> DEFINE M == L + 1
  <2>3. M \in Nat /\ z = [i \in 1 .. M |-> z[i]] /\ \A i \in 1 .. M : z[i] \in P
    BY <1>0, <1>10, <2>2
  <2> HIDE DEF M
  <2>4. z \in Seq(P) /\ Len(z) = M
    BY <2>3, IsSequence
  <2> QED BY <2>4 DEF M
<1>13. z = Append(r, e)
  BY <1>1, <1>5, <1>8, <1>9, <1>12, AppendedIs
<1> QED BY <1>13 DEF z, e

\* A flow in a free chunk is a new flow of an instance that is not full ...
LEMMA NewRefines ==
  ASSUME PoolInv, NEW t \in Threads, NEW p \in Packets, AcquireNew(t, TRACK_KEY(p)),
         state[t] = "up"
  PROVE  LRU!Miss(t, TRACK_KEY(p))
<1> DEFINE k == TRACK_KEY(p)
           c == Head(free[t])
<1>1. /\ Find(t, k) = {} /\ free[t] # <<>>
      /\ flow' = [flow EXCEPT ![t][c] = Fill(@, k)]
      /\ tos' = [tos EXCEPT ![t] = Append(tos[t], c)]
      /\ next_flow_id' = next_flow_id + 1
  BY DEF AcquireNew, Insert, NextId
<1>2. QueueOK(tos[t], flows[t], used[t]) /\ FreeOK(free[t], flows[t]) /\ next_flow_id \in Nat
  BY TrackAssumption DEF PoolInv, TrackTypeOK
<1>3. c \in Chunks /\ c \notin flows[t] /\ Len(tos[t]) # MaxFlows
  BY <1>1, <1>2, FreeTake, PoolFull
<1>4. /\ Recent(t) \in Seq([key : Keys, id : Nat]) /\ Len(Recent(t)) = Len(tos[t])
      /\ tos[t] \in Seq(Chunks)
  BY <1>2, RecentFacts DEF QueueOK
<1>5. \A i \in 1 .. Len(tos[t]) : tos[t][i] \in flows[t] /\ Recent(t)[i] = Entry(t, tos[t][i])
  BY RecentFacts
<1> HIDE DEF c
<1>6. Queues' = [Queues EXCEPT ![t] = Append(Recent(t), [key |-> k, id |-> next_flow_id])]
  <2>1. \A i \in 1 .. Len(tos[t]) : tos[t][i] \in flows[t] /\ tos[t][i] # c
    BY <1>3, <1>5
  <2>2. \A i \in 1 .. Len(tos[t]) : Recent(t)[i] = Entry(t, tos[t][i])
    BY <1>5
  <2>3. /\ \A u \in Threads \ {t} : tos'[u] = tos[u] /\ flow'[u] = flow[u]
        /\ \A d \in Chunks : d # c => flow'[t][d] = flow[t][d]
        /\ flow'[t][c] = Fill(flow[t][c], k) /\ tos'[t] = Append(tos[t], c)
    BY <1>1, <1>3 DEF PoolInv, TrackTypeOK
  <2>4. Recent(t)' = Append(Recent(t), [key |-> k, id |-> next_flow_id])
    BY <1>3, <1>4, <2>1, <2>2, <2>3, RecentGrows
  <2> QED BY <2>3, <2>4, OthersKept
<1>7. /\ next_flow_id \in (0 .. next_flow_id' - 1) \ (0 .. next_flow_id - 1)
      /\ 0 .. next_flow_id' - 1 = (0 .. next_flow_id - 1) \cup {next_flow_id}
  BY <1>1, <1>2
<1>8. ~LRU!Knows(t, k)
  BY <1>1, NotKnown
<1>9. Queues[t] = Recent(t) /\ Len(Queues[t]) # MaxFlows
  BY <1>3, <1>4 DEF Queues
<1> QED BY <1>6, <1>7, <1>8, <1>9 DEF LRU!Miss, Queues

\* ... and one in a recycled chunk takes the place of the oldest.
LEMMA RecycledRefines ==
  ASSUME PoolInv, NEW t \in Threads, NEW p \in Packets, AcquireRecycled(t, TRACK_KEY(p)),
         state[t] = "up"
  PROVE  LRU!Miss(t, TRACK_KEY(p))
<1> DEFINE k == TRACK_KEY(p)
           v == Head(tos[t])
           s == Tail(tos[t])
           r == Tail(Recent(t))
           P == [key : Keys, id : Nat]
<1>1. /\ Find(t, k) = {} /\ free[t] = <<>> /\ t \notin NoTimeout
      /\ flow' = [flow EXCEPT ![t][v] = Fill(@, k)]
      /\ tos' = [tos EXCEPT ![t] = Append(RemoveFirst(tos[t], v), v)]
      /\ next_flow_id' = next_flow_id + 1
  BY DEF AcquireRecycled, Insert, NextId, MayForget, Victim
<1>2. QueueOK(tos[t], flows[t], used[t]) /\ FreeOK(free[t], flows[t]) /\ next_flow_id \in Nat
  BY TrackAssumption DEF PoolInv, TrackTypeOK
<1>3. tos[t] # <<>> /\ Len(tos[t]) = MaxFlows /\ MaxFlows \in Nat \ {0}
  BY <1>1, <1>2, PoolFull, ChunksFinite
<1>4. /\ tos[t] \in Seq(Chunks) /\ v \in Chunks /\ s \in Seq(Chunks)
      /\ Len(s) = Len(tos[t]) - 1 /\ RemoveFirst(tos[t], v) = s
      /\ ToSet(s) = flows[t] \ {v}
  BY <1>2, <1>3, TailOld DEF QueueOK
<1>5. Recent(t) \in Seq(P) /\ Len(Recent(t)) = Len(tos[t])
  BY RecentFacts
<1>6. \A i \in 1 .. Len(tos[t]) : Recent(t)[i] = Entry(t, tos[t][i])
  BY RecentFacts
<1>7. \A i \in 1 .. Len(s) : s[i] \in flows[t] /\ s[i] # v
  <2> HIDE DEF s, v
  <2>1. DOMAIN s = 1 .. Len(s)
    BY <1>4
  <2> QED BY <1>4, <2>1 DEF ToSet
<1> DEFINE R == Recent(t)
<1>8. r \in Seq(P) /\ Len(r) = Len(s) /\ \A i \in 1 .. Len(s) : r[i] = R[i + 1]
  <2> HIDE DEF R, P, s
  <2>1. R # <<>>
    BY <1>3, <1>5 DEF R
  <2> QED BY <1>4, <1>5, <2>1, HeadTailProperties DEF R
<1>9. \A i \in 1 .. Len(s) : s[i] = tos[t][i + 1] /\ i + 1 \in 1 .. Len(tos[t])
  BY <1>3, <1>4, HeadTailProperties
<1>10. \A i \in 1 .. Len(s) : r[i] = Entry(t, s[i])
  <2> HIDE DEF r, s
  <2> QED BY <1>6, <1>8, <1>9
<1>11. Queues' = [Queues EXCEPT ![t] = Append(r, [key |-> k, id |-> next_flow_id])]
  <2>1. /\ \A u \in Threads \ {t} : tos'[u] = tos[u] /\ flow'[u] = flow[u]
        /\ \A d \in Chunks : d # v => flow'[t][d] = flow[t][d]
        /\ flow'[t][v] = Fill(flow[t][v], k) /\ tos'[t] = Append(s, v)
    BY <1>1, <1>4 DEF PoolInv, TrackTypeOK
  <2>2. v \in Chunks /\ s \in Seq(Chunks) /\ r \in Seq([key : Keys, id : Nat]) /\ Len(r) = Len(s)
    BY <1>4, <1>8
  <2> HIDE DEF r, s, v, R
  <2>3. Recent(t)' = Append(r, [key |-> k, id |-> next_flow_id])
    BY <1>7, <1>10, <2>1, <2>2, RecentGrows
  <2> QED BY <2>1, <2>3, OthersKept
<1>12. /\ next_flow_id \in (0 .. next_flow_id' - 1) \ (0 .. next_flow_id - 1)
       /\ 0 .. next_flow_id' - 1 = (0 .. next_flow_id - 1) \cup {next_flow_id}
  BY <1>1, <1>2
<1>13. ~LRU!Knows(t, k)
  BY <1>1, NotKnown
<1>14. Queues[t] = Recent(t) /\ Len(Queues[t]) = MaxFlows
  BY <1>3, <1>5 DEF Queues
<1> QED BY <1>1, <1>11, <1>12, <1>13, <1>14 DEF LRU!Miss, Queues

\* Steps the abstract tracker does not see.
LEMMA SeenSame ==
  ASSUME tos' = tos, next_flow_id' = next_flow_id,
         \A t \in Threads : \A n \in DOMAIN tos[t] :
           /\ flow'[t][tos[t][n]].key = flow[t][tos[t][n]].key
           /\ flow'[t][tos[t][n]].id = flow[t][tos[t][n]].id
  PROVE  UNCHANGED <<[t \in Threads |-> Recent(t)], 0 .. next_flow_id - 1>>
<1>1. \A t \in Threads : Recent(t)' = Recent(t)
  BY DEF Recent
<1>2. [t \in Threads |-> Recent(t)]' = [t \in Threads |-> Recent(t)]
  BY <1>1
<1>3. (0 .. next_flow_id - 1)' = 0 .. next_flow_id - 1
  OBVIOUS
<1> QED BY <1>2, <1>3

\* The mark a caller leaves in its flow is not visible.
LEMMA ClassifyHidden ==
  ASSUME PoolInv, NEW t \in Threads, Classify(t)
  PROVE  UNCHANGED <<[u \in Threads |-> Recent(u)], 0 .. next_flow_id - 1>>
<1> DEFINE c == Last(tos[t])
<1>0. /\ flow \in [Threads -> [Chunks -> FlowType]] /\ tos \in [Threads -> Seq(Chunks)]
      /\ ToSet(tos[t]) = flows[t] /\ \A d \in flows[t] : flow[t][d] \in Known
  BY DEF PoolInv, TrackTypeOK, QueueOK
<1>1. /\ tos[t] # <<>> /\ tos' = tos /\ next_flow_id' = next_flow_id
      /\ flow' = [flow EXCEPT ![t][c].li = flow[t][c].id + 1]
  BY DEF Classify
<1>2. c \in flows[t]
  BY <1>0, <1>1 DEF Last, ToSet
<1> HIDE DEF c
<1>3. ASSUME NEW u \in Threads, NEW n \in DOMAIN tos[u]
      PROVE  /\ flow'[u][tos[u][n]].key = flow[u][tos[u][n]].key
             /\ flow'[u][tos[u][n]].id = flow[u][tos[u][n]].id
  <2> DEFINE d == tos[u][n]
  <2>1. d \in Chunks
    BY <1>0
  <2> HIDE DEF d
  <2>2. flow'[u][d].key = flow[u][d].key /\ flow'[u][d].id = flow[u][d].id
    BY <1>0, <1>1, <1>2, <2>1 DEF Known
  <2> QED BY <2>2 DEF d
<1> QED BY <1>1, <1>3, SeenSame

\* peak_track_exit() forgets every flow of its instance only.
LEMMA ExitRefines ==
  ASSUME PoolInv, NEW t \in Threads, peak_track_exit(t)
  PROVE  LRU!Forget(t)
<1>0. flow \in [Threads -> [Chunks -> FlowType]] /\ tos \in [Threads -> Seq(Chunks)]
  BY DEF PoolInv, TrackTypeOK
<1>1. /\ tos' = [tos EXCEPT ![t] = <<>>] /\ next_flow_id' = next_flow_id
      /\ flow' = [flow EXCEPT ![t] = [c \in Chunks |-> NoFlow]]
  BY DEF peak_track_exit
<1>2. tos'[t] = <<>> /\ \A u \in Threads \ {t} : tos'[u] = tos[u] /\ flow'[u] = flow[u]
  BY <1>0, <1>1
<1>3. Recent(t)' = <<>>
  BY <1>2 DEF Recent
<1>4. Queues' = [Queues EXCEPT ![t] = <<>>]
  BY <1>2, <1>3, OthersKept
<1> QED BY <1>1, <1>4 DEF LRU!Forget, Queues

\* Every step is one of the abstract tracker or none.
LEMMA StepRefines ==
  TrackInv /\ [Next]_vars =>
    [LRU!Next]_<<[t \in Threads |-> Recent(t)], 0 .. next_flow_id - 1>>
<1> SUFFICES ASSUME TrackInv, [Next]_vars
             PROVE  LRU!Next \/ UNCHANGED <<[t \in Threads |-> Recent(t)], 0 .. next_flow_id - 1>>
  OBVIOUS
<1>0. PoolInv
  BY DEF TrackInv
<1>1. ASSUME NEW t \in Threads, NEW p \in Packets, peak_track_acquire(t, p)
      PROVE  LRU!Next \/ UNCHANGED <<[u \in Threads |-> Recent(u)], 0 .. next_flow_id - 1>>
  <2>1. TRACK_KEY(p) \in Keys
    BY DEF Keys
  <2>2. CASE AcquireHit(t, TRACK_KEY(p))
    BY <1>0, <2>1, <2>2, HitRefines DEF LRU!Next
  <2>3. CASE AcquireFails(t, TRACK_KEY(p))
    <3>1. tos' = tos /\ flow' = flow /\ next_flow_id' = next_flow_id
      BY <2>3 DEF AcquireFails, trackVars
    <3> QED BY <3>1, SeenSame
  <2>4. CASE AcquireNew(t, TRACK_KEY(p))
    BY <1>0, <1>1, <2>1, <2>4, NewRefines DEF LRU!Next, peak_track_acquire
  <2>5. CASE AcquireRecycled(t, TRACK_KEY(p))
    BY <1>0, <1>1, <2>1, <2>5, RecycledRefines DEF LRU!Next, peak_track_acquire
  <2> QED BY <1>1, <2>2, <2>3, <2>4, <2>5 DEF peak_track_acquire
<1>2. ASSUME NEW t \in Threads, peak_track_exit(t) PROVE LRU!Next
  BY <1>0, <1>2, ExitRefines DEF LRU!Next
<1>3. ASSUME tos' = tos, flow' = flow, next_flow_id' = next_flow_id
      PROVE  UNCHANGED <<[u \in Threads |-> Recent(u)], 0 .. next_flow_id - 1>>
  BY <1>3, SeenSame
<1>4. ASSUME NEW t \in Threads, peak_track_init(t) \/ UNCHANGED trackVars
      PROVE  UNCHANGED <<[u \in Threads |-> Recent(u)], 0 .. next_flow_id - 1>>
  BY <1>3, <1>4 DEF peak_track_init, trackVars
<1>5. CASE UNCHANGED vars
  BY <1>3, <1>5 DEF vars, trackVars
<1> QED BY <1>0, <1>1, <1>2, <1>4, <1>5, ClassifyHidden DEF Next

\* No tracker knows a flow at first.
LEMMA InitRefines == Init => LRU!Init
<1> SUFFICES ASSUME Init PROVE LRU!Init
  OBVIOUS
<1>1. \A t \in Threads : Recent(t) = <<>>
  BY DEF Init, Recent
<1>2. 0 .. next_flow_id - 1 = {}
  BY DEF Init
<1> QED BY <1>1, <1>2 DEF LRU!Init

(***************************************************************************)
(* Every tracker, on whatever thread and whatever else the threads do, is  *)
(* the tracker peak_track(3) promises: its queue is the order of use, a    *)
(* known flow keeps its id, and only the flow unused for the longest time  *)
(* makes room.                                                             *)
(***************************************************************************)
THEOREM TrackImplementsLRU == Spec => ImplementsLRU
BY InitRefines, StepRefines, TrackInvAlways, PTL DEF Spec, ImplementsLRU, LRU!Spec
=============================================================================
