-------------------------- MODULE PeakThreadsProofs --------------------------
(***************************************************************************)
(* What threads share: the barrier of include/peak_sys.h, and with the     *)
(* clocks of include/peak_timeslice.h the buckets of include/peak_token.h. *)
(***************************************************************************)
EXTENDS PeakBarrier, PeakToken, PeakArithmetic

(***************************************************************************)
(* Safety of the barrier of include/peak_sys.h for any finite number of    *)
(* threads and any width of an unsigned int that can count them.           *)
(*                                                                         *)
(* Everything rests on the counters being exact: the last arrival finds    *)
(* count = threads, that is, as many blocked threads as there are          *)
(* registered threads minus one.  It is itself registered and not blocked, *)
(* so all the others are blocked.  That stays so until it wakes them,      *)
(* since a positive count makes barrier_join() and barrier_leave() fail.   *)
(* The argument needs pthread_cond_wait() to return only when signalled:   *)
(* the invariant speaks of the states before the first spurious wakeup.    *)
(***************************************************************************)
\* An unsigned int holds every number of registered threads, and wraps at 0.
LEMMA UintFacts ==
  /\ UintSize \in Nat /\ UintSize > 0
  /\ \A n \in Int : Uint(n) \in 0 .. UintSize - 1
  /\ \A n \in 0 .. UintSize - 1 : Uint(n) = n
  /\ Uint(0 - 1) = UintSize - 1
  /\ Uint(UintSize) = 0
<1>1. UintSize \in Nat /\ UintSize > 0
  <2>1. Cardinality(Threads) \in Nat
    BY ThreadsAssumption, FS_CardinalityType
  <2> QED BY <2>1, UintAssumption
<1>2. \A n \in Int : Uint(n) \in 0 .. UintSize - 1
  BY <1>1 DEF Uint
<1>3. \A n \in 0 .. UintSize - 1 : Uint(n) = n
  BY <1>1 DEF Uint
<1>4. Uint(0 - 1) = UintSize - 1
  BY <1>1 DEF Uint
<1>5. Uint(UintSize) = 0
  BY <1>1 DEF Uint
<1> QED BY <1>1, <1>2, <1>3, <1>4, <1>5

\* barrier_init() leaves 0U - 1U in threads.
LEMMA InitTyping == BarrierInit => BarrierTypeOK
<1> SUFFICES ASSUME BarrierInit PROVE BarrierTypeOK
  OBVIOUS
<1>1. up \in BOOLEAN /\ stray \in BOOLEAN
  BY DEF BarrierInit
<1>2. threads \in 0 .. UintSize - 1 /\ count \in 0 .. UintSize - 1
  BY UintFacts DEF BarrierInit
<1>3. pc \in [Threads -> Places] /\ ret \in [Threads -> 0 .. UintSize - 1]
  BY UintFacts DEF BarrierInit, Places
<1> QED BY <1>1, <1>2, <1>3 DEF BarrierTypeOK

(***************************************************************************)
(* The unsigned counters never leave their range: barrier_wait() only      *)
(* increments count below threads, and threads wraps around at 0U - 1U.    *)
(***************************************************************************)
THEOREM BarrierTyping == BarrierSpec => []BarrierTypeOK
<1>1. BarrierInit => BarrierTypeOK
  BY InitTyping
<1>2. BarrierTypeOK /\ [BarrierNext]_barrierVars => BarrierTypeOK'
  <2> SUFFICES ASSUME BarrierTypeOK, [BarrierNext]_barrierVars PROVE BarrierTypeOK'
    OBVIOUS
  <2> USE UintFacts DEF BarrierTypeOK, Places
  <2>1. ASSUME NEW t \in Threads, barrier_join(t) PROVE BarrierTypeOK'
    BY <2>1 DEF barrier_join
  <2>2. ASSUME NEW t \in Threads, barrier_leave(t) PROVE BarrierTypeOK'
    BY <2>2 DEF barrier_leave
  <2>3. ASSUME NEW t \in Threads, barrier_wait(t) PROVE BarrierTypeOK'
    <3>1. CASE Block(t)
      BY <2>3, <3>1 DEF barrier_wait, Block
    <3>2. CASE Serialise(t)
      BY <2>3, <3>2 DEF barrier_wait, Serialise
    <3> QED BY <2>3, <3>1, <3>2 DEF barrier_wait
  <2>4. ASSUME NEW t \in Threads, barrier_wait_return(t) PROVE BarrierTypeOK'
    BY <2>4 DEF barrier_wait_return
  <2>5. ASSUME NEW t \in Threads, barrier_wake(t) PROVE BarrierTypeOK'
    <3>1. CASE Broadcast(t)
      BY <2>5, <3>1 DEF barrier_wake, Broadcast
    <3>2. CASE NoWake(t)
      BY <2>5, <3>2 DEF barrier_wake, NoWake
    <3> QED BY <2>5, <3>1, <3>2 DEF barrier_wake
  <2>6. ASSUME NEW t \in Threads, pthread_cond_wait_spurious(t) PROVE BarrierTypeOK'
    <3>1. stray' \in BOOLEAN
      BY <2>6 DEF pthread_cond_wait_spurious
    <3>2. /\ pc' \in [Threads -> Places] /\ up' = up /\ threads' = threads
          /\ count' = count /\ ret' = ret
      BY <2>6 DEF pthread_cond_wait_spurious
    <3> QED BY <3>1, <3>2
  <2>7. CASE barrier_exit
    <3>1. up' \in BOOLEAN
      BY <2>7 DEF barrier_exit
    <3>2. /\ threads' \in 0 .. UintSize - 1 /\ count' \in 0 .. UintSize - 1
          /\ pc' = pc /\ ret' = ret /\ stray' = stray
      BY <2>7 DEF barrier_exit
    <3> QED BY <3>1, <3>2
  <2>8. CASE barrier_init
    BY <2>8 DEF barrier_init
  <2>9. CASE UNCHANGED barrierVars
    BY <2>9 DEF barrierVars
  <2> QED
    BY <2>1, <2>2, <2>3, <2>4, <2>5, <2>6, <2>7, <2>8, <2>9 DEF BarrierNext, Step
<1> QED BY <1>1, <1>2, PTL DEF BarrierSpec
-----------------------------------------------------------------------------
\* threads, without the modulus: one less than the number of registered threads.
ThreadsExact ==
  threads = IF Members = {} THEN UintSize - 1 ELSE Cardinality(Members) - 1

\* A serialising thread with company keeps the count, and the door, closed.
RoundClosed ==
  \A s \in Threads : pc[s] = "serial" /\ ret[s] >= 2 => count >= 1

(***************************************************************************)
(* The inductive invariant.  A barrier that is down has no members, and    *)
(* RoundClosed is what keeps others from joining or leaving a round.       *)
(***************************************************************************)
BarrierInv ==
  /\ BarrierTypeOK
  /\ ~stray => /\ ~up => Members = {}
               /\ up => count = Cardinality(Blocked)
               /\ up => ThreadsExact
               /\ OneSerialThread
               /\ SerialExclusion
               /\ RoundClosed

\* Members and Blocked are finite, and unsigned ints can count them.
LEMMA MembersFinite ==
  ASSUME BarrierTypeOK
  PROVE  /\ IsFiniteSet(Members) /\ IsFiniteSet(Blocked)
         /\ Cardinality(Members) \in 0 .. UintSize - 1
         /\ Cardinality(Blocked) \in 0 .. UintSize - 1
         /\ Blocked \subseteq Members
         /\ Members # {} => Cardinality(Members) >= 1
<1>1. Members \subseteq Threads /\ Blocked \subseteq Members
  BY DEF Members, Blocked
<1>2. IsFiniteSet(Members) /\ Cardinality(Members) <= Cardinality(Threads)
  BY <1>1, ThreadsAssumption, FS_Subset
<1>3. IsFiniteSet(Blocked) /\ Cardinality(Blocked) <= Cardinality(Members)
  BY <1>1, <1>2, FS_Subset
<1>4. /\ Cardinality(Members) \in Nat /\ Cardinality(Blocked) \in Nat
      /\ Cardinality(Threads) \in Nat
  BY <1>2, <1>3, ThreadsAssumption, FS_CardinalityType
<1>5. Members # {} => Cardinality(Members) # 0
  BY <1>2, FS_EmptySet
<1> QED BY <1>1, <1>2, <1>3, <1>4, <1>5, UintAssumption

\* The unsigned view of threads that the runs check.
LEMMA ThreadsExactUint ==
  ASSUME BarrierTypeOK, ThreadsExact
  PROVE  threads = Uint(Cardinality(Members) - 1)
<1>1. CASE Members = {}
  <2>1. Cardinality(Members) = 0
    BY <1>1, FS_EmptySet
  <2> QED BY <1>1, <2>1, UintFacts DEF ThreadsExact
<1>2. CASE Members # {}
  BY <1>2, MembersFinite, UintFacts DEF ThreadsExact
<1> QED BY <1>1, <1>2

(***************************************************************************)
(* The last arrival is the only registered thread that is not blocked:     *)
(* what barrier_wait() concludes from count >= threads.                    *)
(***************************************************************************)
LEMMA LastArrivalAlone ==
  ASSUME BarrierTypeOK, count = Cardinality(Blocked), ThreadsExact,
         NEW t \in Threads, pc[t] = "running", count >= threads
  PROVE  /\ Members \ {t} = Blocked
         /\ count = threads
         /\ threads = Cardinality(Members) - 1
<1>1. t \in Members /\ t \notin Blocked
  BY DEF Members, Blocked
<1>2. threads = Cardinality(Members) - 1
  BY <1>1 DEF ThreadsExact
<1> DEFINE R == Members \ {t}
<1>3. IsFiniteSet(R) /\ Cardinality(R) = Cardinality(Members) - 1
  BY <1>1, MembersFinite, FS_RemoveElement
<1>4. Blocked \subseteq R
  BY <1>1, MembersFinite
<1>5. Cardinality(Blocked) <= Cardinality(R)
  BY <1>3, <1>4, FS_Subset
<1>6. Cardinality(Blocked) = Cardinality(R)
  BY <1>2, <1>3, <1>5, MembersFinite
<1>7. Blocked = R
  BY <1>3, <1>4, <1>6, FS_Subset
<1> QED BY <1>2, <1>3, <1>6, <1>7

(***************************************************************************)
(* One step per action; a step after which there has been no spurious      *)
(* wakeup is not one, and starts from a state before it.                   *)
(***************************************************************************)
LEMMA BarrierInvStep ==
  ASSUME ~stray', BarrierInv, BarrierTypeOK', [BarrierNext]_barrierVars
  PROVE  BarrierInv'
<1>S. ~stray
  BY DEF BarrierNext, Step, barrier_join, barrier_leave, barrier_wait,
         barrier_wait_return, barrier_wake, pthread_cond_wait_spurious,
         barrier_exit, barrier_init, barrierVars
<1> USE <1>S
<1> DEFINE M == Members
           B == Blocked
<1>0. /\ BarrierTypeOK
      /\ ~up => M = {}
      /\ up => count = Cardinality(B)
      /\ up => ThreadsExact
      /\ OneSerialThread
      /\ SerialExclusion
      /\ RoundClosed
  BY DEF BarrierInv
<1>F. /\ IsFiniteSet(M) /\ IsFiniteSet(B)
      /\ Cardinality(M) \in 0 .. UintSize - 1
      /\ Cardinality(B) \in 0 .. UintSize - 1
      /\ B \subseteq M
      /\ M # {} => Cardinality(M) >= 1
  BY <1>0, MembersFinite
<1>F1. IsFiniteSet(M') /\ Cardinality(M') \in Nat
  <2>1. M' \subseteq Threads
    BY DEF Members
  <2> QED BY <2>1, ThreadsAssumption, FS_Subset, FS_CardinalityType
<1>1. ASSUME NEW t \in Threads, barrier_join(t) PROVE BarrierInv'
  <2>0. up /\ up' /\ pc[t] = "out" /\ count = 0 /\ count' = 0
    BY <1>1 DEF barrier_join
  <2>1. M' = M \cup {t} /\ t \notin M /\ B' = B
    BY <1>0, <1>1 DEF barrier_join, Members, Blocked, BarrierTypeOK
  <2>2. Cardinality(M') = Cardinality(M) + 1
    BY <1>F, <2>1, FS_AddElement
  <2>3. ThreadsExact'
    <3>1. M' # {}
      BY <2>1
    <3>2. CASE M = {}
      <4>1. threads = UintSize - 1 /\ Cardinality(M) = 0
        BY <1>0, <2>0, <3>2, FS_EmptySet DEF ThreadsExact
      <4>2. threads' = 0
        BY <1>1, <4>1, UintFacts DEF barrier_join
      <4> QED BY <2>2, <3>1, <4>1, <4>2 DEF ThreadsExact
    <3>3. CASE M # {}
      <4>1. threads = Cardinality(M) - 1
        BY <1>0, <2>0, <3>3 DEF ThreadsExact
      <4>2. threads' = Cardinality(M)
        BY <1>1, <1>F, <4>1, UintFacts DEF barrier_join
      <4> QED BY <1>F, <2>2, <3>1, <4>2 DEF ThreadsExact
    <3> QED BY <3>2, <3>3
  <2>4. OneSerialThread'
    BY <1>0, <1>1 DEF OneSerialThread, barrier_join, BarrierTypeOK
  <2>5. \A s \in Threads : ~(pc'[s] = "serial" /\ ret'[s] >= 2)
    BY <1>0, <1>1, <2>0 DEF RoundClosed, barrier_join, BarrierTypeOK
  <2> QED
    BY <1>0, <2>0, <2>1, <2>3, <2>4, <2>5
    DEF BarrierInv, SerialExclusion, RoundClosed
<1>2. ASSUME NEW t \in Threads, barrier_leave(t) PROVE BarrierInv'
  <2>0. pc[t] = "running" /\ count = 0 /\ count' = 0 /\ up' = up
    BY <1>2 DEF barrier_leave
  <2>1. M' = M \ {t} /\ t \in M /\ B' = B
    BY <1>0, <1>2 DEF barrier_leave, Members, Blocked, BarrierTypeOK
  <2>2. Cardinality(M') = Cardinality(M) - 1
    BY <1>F, <2>1, FS_RemoveElement
  <2>3. up
    BY <1>0, <2>1
  <2>4. threads = Cardinality(M) - 1
    BY <1>0, <2>1, <2>3 DEF ThreadsExact
  <2>5. ThreadsExact'
    <3>1. CASE M' = {}
      <4>1. Cardinality(M') = 0
        BY <3>1, FS_EmptySet
      <4>2. threads = 0
        BY <1>F, <2>2, <2>4, <4>1
      <4>3. threads' = UintSize - 1
        BY <1>2, <4>2, UintFacts DEF barrier_leave
      <4> QED BY <3>1, <4>3 DEF ThreadsExact
    <3>2. CASE M' # {}
      <4>1. Cardinality(M') # 0
        BY <1>F1, <3>2, FS_EmptySet
      <4>2. threads' = Cardinality(M) - 2
        BY <1>2, <1>F, <2>2, <2>4, <4>1, <1>F1, UintFacts DEF barrier_leave
      <4> QED BY <1>F, <2>2, <3>2, <4>2 DEF ThreadsExact
    <3> QED BY <3>1, <3>2
  <2>6. OneSerialThread'
    BY <1>0, <1>2 DEF OneSerialThread, barrier_leave, BarrierTypeOK
  <2>7. \A s \in Threads : ~(pc'[s] = "serial" /\ ret'[s] >= 2)
    BY <1>0, <1>2, <2>0 DEF RoundClosed, barrier_leave, BarrierTypeOK
  <2> QED
    BY <1>0, <2>0, <2>1, <2>3, <2>5, <2>6, <2>7
    DEF BarrierInv, SerialExclusion, RoundClosed
<1>3. ASSUME NEW t \in Threads, barrier_wait(t), Block(t) PROVE BarrierInv'
  <2>0. /\ pc[t] = "running" /\ count' = count + 1 /\ up' = up
        /\ threads' = threads /\ ret' = ret
    BY <1>3 DEF barrier_wait, Block
  <2>1. M' = M /\ B' = B \cup {t} /\ t \in M /\ t \notin B
    BY <1>0, <1>3, <2>0 DEF Block, Members, Blocked, BarrierTypeOK
  <2>2. Cardinality(B') = Cardinality(B) + 1
    BY <1>F, <2>1, FS_AddElement
  <2>3. up
    BY <1>0, <2>1
  <2>4. ThreadsExact'
    BY <1>0, <2>0, <2>1, <2>3 DEF ThreadsExact
  <2>5. OneSerialThread'
    BY <1>0, <1>3 DEF OneSerialThread, Block, BarrierTypeOK
  <2>6. SerialExclusion'
    <3> SUFFICES ASSUME NEW s \in Threads, pc'[s] = "serial", ret'[s] >= 2
                 PROVE  M' \ {s} \subseteq B'
      BY DEF SerialExclusion
    <3>1. pc[s] = "serial" /\ ret[s] >= 2
      BY <1>0, <1>3, <2>0 DEF Block, BarrierTypeOK
    <3> QED BY <1>0, <2>1, <3>1 DEF SerialExclusion
  <2>7. RoundClosed'
    BY <1>0, <1>3, <2>0 DEF RoundClosed, Block, BarrierTypeOK
  <2> QED
    BY <1>0, <2>0, <2>1, <2>2, <2>3, <2>4, <2>5, <2>6, <2>7 DEF BarrierInv
<1>4. ASSUME NEW t \in Threads, barrier_wait(t), Serialise(t) PROVE BarrierInv'
  <2>0. /\ pc[t] = "running" /\ count' = count /\ up' = up
        /\ threads' = threads /\ count >= threads
        /\ pc' = [pc EXCEPT ![t] = "serial"]
        /\ ret' = [ret EXCEPT ![t] = Uint(threads + 1)]
    BY <1>4 DEF barrier_wait, Serialise
  <2>1. M' = M /\ B' = B /\ t \in M /\ t \notin B
    BY <1>0, <2>0 DEF Members, Blocked, BarrierTypeOK
  <2>2. up
    BY <1>0, <2>1
  <2>3. M \ {t} = B /\ count = threads /\ threads = Cardinality(M) - 1
    BY <1>0, <2>0, <2>2, LastArrivalAlone
  <2>4. ThreadsExact'
    BY <1>0, <2>0, <2>1, <2>2 DEF ThreadsExact
  <2>5. \A s \in Threads : pc'[s] = "serial" => s = t
    <3> SUFFICES ASSUME NEW s \in Threads, pc'[s] = "serial", s # t
                 PROVE  FALSE
      OBVIOUS
    <3>1. pc[s] = "serial"
      BY <1>0, <2>0 DEF BarrierTypeOK
    <3> QED BY <2>3, <3>1 DEF Members, Blocked
  <2>6. OneSerialThread'
    BY <2>5 DEF OneSerialThread
  <2>7. SerialExclusion'
    BY <2>1, <2>3, <2>5 DEF SerialExclusion
  <2>8. RoundClosed'
    <3>1. ret'[t] = threads + 1
      <4>1. threads + 1 \in 0 .. UintSize - 1
        BY <1>F, <2>1, <2>3
      <4> QED BY <1>0, <2>0, <4>1, UintFacts DEF BarrierTypeOK
    <3>2. ret'[t] >= 2 => count' >= 1
      BY <1>0, <2>0, <2>3, <3>1 DEF BarrierTypeOK
    <3> QED BY <2>5, <3>2 DEF RoundClosed
  <2> QED
    BY <1>0, <2>0, <2>1, <2>2, <2>4, <2>6, <2>7, <2>8 DEF BarrierInv
<1>5. ASSUME NEW t \in Threads, barrier_wait_return(t) PROVE BarrierInv'
  <2>0. /\ pc[t] = "waking" /\ pc' = [pc EXCEPT ![t] = "running"]
        /\ ret' = [ret EXCEPT ![t] = 0]
        /\ up' = up /\ threads' = threads /\ count' = count
    BY <1>5 DEF barrier_wait_return
  <2>1. M' = M /\ B' = B
    BY <1>0, <2>0 DEF Members, Blocked, BarrierTypeOK
  <2>2. (up => ThreadsExact)'
    BY <1>0, <2>0, <2>1 DEF ThreadsExact
  <2>3. \A s \in Threads : pc'[s] = "serial" => pc[s] = "serial" /\ ret'[s] = ret[s]
    BY <1>0, <2>0 DEF BarrierTypeOK
  <2>4. OneSerialThread' /\ SerialExclusion' /\ RoundClosed'
    BY <1>0, <2>0, <2>1, <2>3 DEF OneSerialThread, SerialExclusion, RoundClosed
  <2> QED BY <1>0, <2>0, <2>1, <2>2, <2>4 DEF BarrierInv
<1>6. ASSUME NEW t \in Threads, barrier_wake(t), Broadcast(t) PROVE BarrierInv'
  <2>0. /\ pc[t] = "serial" /\ count' = 0
        /\ up' = up /\ threads' = threads /\ ret' = ret
    BY <1>6 DEF barrier_wake, Broadcast
  <2>1. M' = M /\ B' = {}
    BY <1>0, <1>6, <2>0 DEF Broadcast, Members, Blocked, BarrierTypeOK
  <2>2. (up => ThreadsExact)'
    BY <1>0, <2>0, <2>1 DEF ThreadsExact
  <2>3. \A s \in Threads : pc'[s] # "serial"
    BY <1>0, <1>6, <2>0 DEF Broadcast, OneSerialThread, BarrierTypeOK
  <2>4. OneSerialThread' /\ SerialExclusion' /\ RoundClosed'
    BY <2>3 DEF OneSerialThread, SerialExclusion, RoundClosed
  <2>5. Cardinality(B') = 0
    BY <2>1, FS_EmptySet
  <2> QED BY <1>0, <2>0, <2>1, <2>2, <2>4, <2>5 DEF BarrierInv
<1>7. ASSUME NEW t \in Threads, barrier_wake(t), NoWake(t) PROVE BarrierInv'
  <2>0. /\ pc[t] = "serial" /\ pc' = [pc EXCEPT ![t] = "running"]
        /\ count' = count /\ up' = up /\ threads' = threads /\ ret' = ret
    BY <1>7 DEF barrier_wake, NoWake
  <2>1. M' = M /\ B' = B
    BY <1>0, <2>0 DEF Members, Blocked, BarrierTypeOK
  <2>2. (up => ThreadsExact)'
    BY <1>0, <2>0, <2>1 DEF ThreadsExact
  <2>3. \A s \in Threads : pc'[s] # "serial"
    BY <1>0, <2>0 DEF OneSerialThread, BarrierTypeOK
  <2>4. OneSerialThread' /\ SerialExclusion' /\ RoundClosed'
    BY <2>3 DEF OneSerialThread, SerialExclusion, RoundClosed
  <2> QED BY <1>0, <2>0, <2>1, <2>2, <2>4 DEF BarrierInv
<1>8. CASE barrier_exit
  <2>0. /\ M = {} /\ pc' = pc /\ ret' = ret /\ ~up'
    BY <1>8 DEF barrier_exit
  <2>1. M' = {} /\ \A s \in Threads : pc'[s] # "serial"
    BY <2>0 DEF Members
  <2>2. OneSerialThread' /\ SerialExclusion' /\ RoundClosed'
    BY <2>1 DEF OneSerialThread, SerialExclusion, RoundClosed
  <2> QED BY <2>0, <2>1, <2>2 DEF BarrierInv
<1>9. CASE barrier_init
  <2>0. /\ ~up /\ M = {} /\ pc' = pc /\ ret' = ret /\ up'
        /\ threads' = UintSize - 1 /\ count' = 0
    BY <1>0, <1>9, UintFacts DEF barrier_init
  <2>1. M' = {} /\ B' = {} /\ \A s \in Threads : pc'[s] # "serial"
    BY <2>0, <1>F DEF Members, Blocked
  <2>2. OneSerialThread' /\ SerialExclusion' /\ RoundClosed'
    BY <2>1 DEF OneSerialThread, SerialExclusion, RoundClosed
  <2>3. Cardinality(B') = 0
    BY <2>1, FS_EmptySet
  <2> QED BY <2>0, <2>1, <2>2, <2>3 DEF BarrierInv, ThreadsExact
<1>10. CASE UNCHANGED barrierVars
  <2>1. /\ pc' = pc /\ ret' = ret /\ up' = up
        /\ threads' = threads /\ count' = count
    BY <1>10 DEF barrierVars
  <2>2. M' = M /\ B' = B
    BY <2>1 DEF Members, Blocked
  <2> QED
    BY <1>0, <2>1, <2>2
    DEF BarrierInv, ThreadsExact, OneSerialThread, SerialExclusion, RoundClosed
<1>11. \A t \in Threads : ~pthread_cond_wait_spurious(t)
  BY DEF pthread_cond_wait_spurious
<1> QED
  BY <1>1, <1>2, <1>3, <1>4, <1>5, <1>6, <1>7, <1>8, <1>9, <1>10, <1>11
  DEF BarrierNext, Step, barrier_wait, barrier_wake

\* Nobody is registered with a barrier that was just initialised.
LEMMA BarrierInvInit == BarrierInit => BarrierInv
<1> SUFFICES ASSUME BarrierInit PROVE BarrierInv
  OBVIOUS
<1>1. Members = {} /\ Blocked = {}
  BY DEF BarrierInit, Members, Blocked
<1>2. Cardinality(Blocked) = 0
  BY <1>1, FS_EmptySet
<1>3. BarrierTypeOK
  BY InitTyping
<1>4. \A s \in Threads : pc[s] # "serial"
  BY DEF BarrierInit
<1>5. ThreadsExact
  BY <1>1, UintFacts DEF BarrierInit, ThreadsExact
<1> QED
  BY <1>1, <1>2, <1>3, <1>4, <1>5
  DEF BarrierInit, BarrierInv, OneSerialThread, SerialExclusion, RoundClosed

LEMMA BarrierInvAlways == BarrierSpec => []BarrierInv
<1>1. BarrierInv /\ [BarrierNext]_barrierVars /\ BarrierTypeOK' => BarrierInv'
  <2>1. CASE stray'
    BY <2>1 DEF BarrierInv
  <2>2. CASE ~stray'
    BY <2>2, BarrierInvStep
  <2> QED BY <2>1, <2>2
<1> QED BY <1>1, BarrierInvInit, BarrierTyping, PTL DEF BarrierSpec

(***************************************************************************)
(* The counters barrier_wait() decides on are exact in every reachable     *)
(* state before the first spurious wakeup, whatever the number of threads. *)
(***************************************************************************)
THEOREM BarrierCounters == BarrierSpec => []CountersExact
<1>1. BarrierInv => CountersExact
  BY ThreadsExactUint DEF BarrierInv, CountersExact
<1> QED BY <1>1, BarrierInvAlways, PTL

(***************************************************************************)
(* A barrier round has one serialising thread, and when the round has at   *)
(* least two threads, all the others are blocked until it calls            *)
(* barrier_wake(), as long as no wakeup is spurious.                       *)
(***************************************************************************)
THEOREM BarrierExclusion == BarrierSpec => [](OneSerialThread /\ SerialExclusion)
<1>1. BarrierInv => OneSerialThread /\ SerialExclusion
  BY DEF BarrierInv, OneSerialThread, SerialExclusion
<1> QED BY <1>1, BarrierInvAlways, PTL

(***************************************************************************)
(* Two callers of one round never both serialise: the return value of      *)
(* barrier_wait() selects one thread at most.                              *)
(***************************************************************************)
THEOREM BarrierOneSerial == BarrierSpec => []OneSerialThread
BY BarrierExclusion, PTL
-----------------------------------------------------------------------------
(***************************************************************************)
(* The clocks of include/peak_timeslice.h and the buckets of               *)
(* include/peak_token.h, for every resolution, any number of threads and   *)
(* any numbers of tokens.                                                  *)
(*                                                                         *)
(* A clock is the time of the last packet less an offset.  A leap forward  *)
(* moves all the clocks by as much as the time moved in their unit; a leap *)
(* back leaves all of them where they are, although each one decides about *)
(* itself.  So only what is left of a division by Res gets into the drift, *)
(* once for every leap back.                                               *)
(***************************************************************************)
\* What is left of time t in the finer unit.
Rest(t, fine, coarse) == In(t, fine) - Res * In(t, coarse)

\* How far the finer clock is ahead of what is left of the time.
Lag(fine, coarse) == (mono[fine] - Res * mono[coarse]) - Rest(ts, fine, coarse)

LagBounded(fine, coarse) ==
  Lag(fine, coarse) \in -((Res - 1) * (leaps + 1)) .. (Res - 1) * leaps

ClockInv ==
  /\ ClockTypeOK
  /\ \A u \in Units : mono[u] = In(ts, u) - off[u]
  /\ LagBounded("msec", "sec") /\ LagBounded("usec", "msec")

\* The resolution of the clock is positive.
LEMMA ResNat == Res \in Nat \ {0} /\ Res * Res \in Nat \ {0}
BY ClockAssumption

\* What goes into the bucket in a span of time is a number.
LEMMA InNat ==
  ASSUME NEW t \in Nat, NEW u \in Units
  PROVE  In(t, u) \in Nat
<1>1. t \div Res \in Nat /\ t \div (Res * Res) \in Nat
  BY ResNat, DivTwice
<1> QED BY <1>1 DEF In, Sec, Units

\* Whatever the unit, time is in the same order.
LEMMA InMonotone ==
  ASSUME NEW s \in Nat, NEW t \in Nat, s <= t, NEW u \in Units
  PROVE  In(s, u) <= In(t, u)
<1>1. s \div Res <= t \div Res
  BY ResNat, DivMonotone
<1> DEFINE M == Res * Res
<1>2. M \in Nat \ {0}
  BY ResNat
<1> HIDE DEF M
<1>3. s \div M <= t \div M
  BY <1>2, DivMonotone
<1> QED BY <1>1, <1>3 DEF In, Sec, Units, M

\* Less than Res is left of any time.
LEMMA RestBound ==
  ASSUME NEW t \in Nat
  PROVE  Rest(t, "msec", "sec") \in 0 .. Res - 1 /\ Rest(t, "usec", "msec") \in 0 .. Res - 1
<1>1. (t \div Res) - Res * (t \div (Res * Res)) \in 0 .. Res - 1
  BY ResNat, DivTwice
<1>2. t - Res * (t \div Res) \in 0 .. Res - 1
  <2>1. /\ t \div Res \in Int /\ t % Res \in Int /\ t = Res * (t \div Res) + (t % Res)
        /\ 0 <= t % Res /\ t % Res < Res
    BY ResNat, DivMod
  <2> DEFINE q == t \div Res
             r == t % Res
  <2> HIDE DEF q, r
  <2>2. q \in Int /\ r \in Int /\ t = Res * q + r /\ 0 <= r /\ r < Res
    BY <2>1 DEF q, r
  <2>3. t - Res * q \in 0 .. Res - 1
    BY <2>2, ResNat
  <2> QED BY <2>3 DEF q
<1> QED BY <1>1, <1>2 DEF Rest, In, Sec
-----------------------------------------------------------------------------
\* The clock starts in its invariant ...
LEMMA ClockInvInit == ClockInit => ClockInv
<1> SUFFICES ASSUME ClockInit PROVE ClockInv
  OBVIOUS
<1>0. ts \in Timestamps /\ ts \in Nat
  BY ClockAssumption DEF ClockInit, Timestamps
<1>1. \A u \in Units : In(ts, u) \in Nat
  BY <1>0, InNat
<1>2. ClockTypeOK
  <2>1. off \in [Units -> Int] /\ mono \in [Units -> Nat]
    BY <1>1 DEF ClockInit
  <2>2. leaps \in 0 .. MaxLeaps
    BY ClockAssumption DEF ClockInit
  <2> QED BY <1>0, <2>1, <2>2 DEF ClockInit, ClockTypeOK
<1>3. \A u \in Units : mono[u] = In(ts, u) - off[u]
  BY <1>1 DEF ClockInit
<1>4. mono["sec"] = 0 /\ mono["msec"] = 0 /\ mono["usec"] = 0 /\ leaps = 0
  BY DEF ClockInit, Units
<1> DEFINE A == Rest(ts, "msec", "sec")
           B == Rest(ts, "usec", "msec")
<1>5. A \in 0 .. Res - 1 /\ B \in 0 .. Res - 1
  BY <1>0, RestBound
<1> HIDE DEF A, B
<1>6. Lag("msec", "sec") = -A /\ Lag("usec", "msec") = -B
  BY <1>4, <1>5, ResNat DEF Lag, A, B
<1>7. LagBounded("msec", "sec") /\ LagBounded("usec", "msec")
  BY <1>4, <1>5, <1>6, ResNat DEF LagBounded
<1> QED BY <1>2, <1>3, <1>7 DEF ClockInv

\* The time that TIMESLICE_ADVANCE() is told.
Passed(t) == IF live THEN netmap_ts(t) ELSE t

(***************************************************************************)
(* A packet moves all the clocks by as much as the time moves forward, and *)
(* none of them when it leaps back.                                        *)
(***************************************************************************)
LEMMA PacketMoves ==
  ASSUME ClockInv, NEW t \in Timestamps, Packet(t)
  PROVE  /\ ts' \in Timestamps /\ live' = live
         /\ off' \in [Units -> Int] /\ mono' \in [Units -> Nat]
         /\ \A u \in Units : mono'[u] = In(ts', u) - off'[u]
         /\ ts' >= ts => /\ leaps' = leaps
                         /\ \A u \in Units : mono'[u] = mono[u] + (In(ts', u) - In(ts, u))
         /\ ts' < ts => /\ leaps' = leaps + 1 /\ leaps < MaxLeaps
                        /\ \A u \in Units : mono'[u] = mono[u]
<1> DEFINE p == Passed(t)
<1>0. ts \in Nat /\ ts \in Timestamps
  BY ClockAssumption DEF ClockInv, ClockTypeOK, Timestamps
<1>1. p \in Timestamps /\ p \in Nat
  BY <1>0, ClockAssumption DEF Passed, netmap_ts, Timestamps
<1>2. /\ ts' = p /\ live' = live /\ TIMESLICE_ADVANCE(p)
      /\ p < ts => leaps < MaxLeaps
      /\ leaps' = IF p < ts THEN leaps + 1 ELSE leaps
  <2>1. CASE FromFile(t)
    BY <2>1 DEF FromFile, Advance, Passed
  <2>2. CASE FromNetmap(t)
    BY <2>2 DEF FromNetmap, Advance, Passed
  <2> QED BY <2>1, <2>2 DEF Packet
<1> HIDE DEF p
<1>3. \A u \in Units : /\ In(p, u) \in Nat /\ In(ts, u) \in Nat
                       /\ mono[u] \in Nat /\ off[u] \in Int
                       /\ mono[u] = In(ts, u) - off[u]
  BY <1>0, <1>1, InNat DEF ClockInv, ClockTypeOK
<1> DEFINE o == [u \in Units |-> Recalibrated(In(p, u), mono[u], off[u])]
<1>4. off' = o /\ mono' = [u \in Units |-> In(p, u) - o[u]]
  BY <1>2 DEF TIMESLICE_ADVANCE
<1>5. \A u \in Units :
        /\ off'[u] \in Int /\ mono'[u] \in Nat /\ mono'[u] = In(p, u) - off'[u]
        /\ mono'[u] = IF In(p, u) < In(ts, u) THEN mono[u]
                      ELSE mono[u] + (In(p, u) - In(ts, u))
  <2> TAKE u \in Units
  <2>1. /\ off'[u] = IF In(p, u) - off[u] < mono[u] THEN In(p, u) - mono[u] ELSE off[u]
        /\ mono'[u] = In(p, u) - off'[u]
    BY <1>4 DEF Recalibrated
  <2> QED BY <1>3, <2>1
<1>6. off' \in [Units -> Int] /\ mono' \in [Units -> Nat]
  <2>1. off' = [u \in Units |-> off'[u]] /\ mono' = [u \in Units |-> mono'[u]]
    BY <1>4
  <2> HIDE DEF o
  <2> QED BY <1>5, <2>1
<1>7. ASSUME p >= ts, NEW u \in Units
      PROVE  mono'[u] = mono[u] + (In(p, u) - In(ts, u))
  <2>1. In(ts, u) <= In(p, u)
    BY <1>0, <1>1, <1>7, InMonotone
  <2> QED BY <1>3, <1>5, <2>1
<1>8. ASSUME p < ts, NEW u \in Units
      PROVE  mono'[u] = mono[u]
  <2>1. In(p, u) <= In(ts, u)
    BY <1>0, <1>1, <1>8, InMonotone
  <2> QED BY <1>3, <1>5, <2>1
<1> QED BY <1>0, <1>1, <1>2, <1>5, <1>6, <1>7, <1>8

\* The drift between a clock and the next finer one.
LEMMA LagStep ==
  ASSUME NEW fine \in Units, NEW coarse \in Units,
         ClockInv, NEW t \in Timestamps, Packet(t),
         LagBounded(fine, coarse),
         Rest(ts, fine, coarse) \in 0 .. Res - 1, Rest(ts', fine, coarse) \in 0 .. Res - 1
  PROVE  LagBounded(fine, coarse)'
<1> DEFINE a == Rest(ts, fine, coarse)
           b == Rest(ts', fine, coarse)
           K == Lag(fine, coarse)
           L == Lag(fine, coarse)'
<1>0. ts \in Nat /\ ts' \in Nat /\ leaps \in Nat
  BY PacketMoves, ClockAssumption DEF ClockInv, ClockTypeOK, Timestamps
<1>1. /\ mono[fine] \in Nat /\ mono[coarse] \in Nat
      /\ mono'[fine] \in Nat /\ mono'[coarse] \in Nat
      /\ In(ts, fine) \in Nat /\ In(ts, coarse) \in Nat
      /\ In(ts', fine) \in Nat /\ In(ts', coarse) \in Nat
  BY <1>0, PacketMoves, InNat DEF ClockInv, ClockTypeOK
<1>2. K = (mono[fine] - Res * mono[coarse]) - a
  BY DEF Lag
<1>3. L = (mono'[fine] - Res * mono'[coarse]) - b
  BY DEF Lag, Rest, In, Sec
<1>4. a = In(ts, fine) - Res * In(ts, coarse) /\ b = In(ts', fine) - Res * In(ts', coarse)
  BY DEF Rest
<1>5. a \in 0 .. Res - 1 /\ b \in 0 .. Res - 1
  OBVIOUS
<1>6. K \in -((Res - 1) * (leaps + 1)) .. (Res - 1) * leaps
  BY DEF LagBounded
<1> HIDE DEF a, b, K, L
<1>7. CASE ts' >= ts
  <2>1. /\ leaps' = leaps
        /\ mono'[fine] = mono[fine] + (In(ts', fine) - In(ts, fine))
        /\ mono'[coarse] = mono[coarse] + (In(ts', coarse) - In(ts, coarse))
    BY <1>7, PacketMoves
  <2> DEFINE mf == mono[fine]  mc == mono[coarse]
             x == In(ts, fine)  y == In(ts, coarse)
             xx == In(ts', fine)  yy == In(ts', coarse)
  <2>2. /\ mf \in Nat /\ mc \in Nat /\ x \in Nat /\ y \in Nat /\ xx \in Nat /\ yy \in Nat
        /\ K = (mf - Res * mc) - a /\ a = x - Res * y /\ b = xx - Res * yy
        /\ L = ((mf + (xx - x)) - Res * (mc + (yy - y))) - b
    BY <1>1, <1>2, <1>3, <1>4, <2>1
  <2> HIDE DEF mf, mc, x, y, xx, yy
  <2>3. L = K
    BY <2>2, ResNat
  <2> QED BY <1>6, <2>1, <2>3 DEF LagBounded, L
<1>8. CASE ts' < ts
  <2>1. leaps' = leaps + 1 /\ mono'[fine] = mono[fine] /\ mono'[coarse] = mono[coarse]
    BY <1>8, PacketMoves
  <2> DEFINE d == mono[fine] - Res * mono[coarse]
  <2>2. d \in Int /\ K = d - a /\ L = d - b
    BY <1>1, <1>2, <1>3, <2>1, ResNat
  <2> HIDE DEF d
  <2>3. L = K + (a - b) /\ K \in Int /\ L \in Int
    BY <1>5, <2>2, ResNat
  <2>4. (Res - 1) * ((leaps + 1) + 1) = (Res - 1) * (leaps + 1) + (Res - 1)
    BY <1>0, ResNat
  <2>5. (Res - 1) * (leaps + 1) = (Res - 1) * leaps + (Res - 1)
    BY <1>0, ResNat
  <2>6. (Res - 1) * leaps \in Int /\ Res - 1 \in Int
    BY <1>0, ResNat
  <2>7. L \in -((Res - 1) * ((leaps + 1) + 1)) .. (Res - 1) * (leaps + 1)
    BY <1>5, <1>6, <2>3, <2>4, <2>5, <2>6
  <2> QED BY <2>1, <2>7 DEF LagBounded, L
<1> QED BY <1>0, <1>7, <1>8

\* ... and a packet keeps it there.
LEMMA ClockInvPacket ==
  ASSUME ClockInv, NEW t \in Timestamps, Packet(t)
  PROVE  ClockInv'
<1>0. ts \in Nat /\ ts' \in Nat
  BY PacketMoves, ClockAssumption DEF ClockInv, ClockTypeOK, Timestamps
<1>1. ClockTypeOK'
  <2>1. leaps' \in 0 .. MaxLeaps
    BY PacketMoves, <1>0, ClockAssumption DEF ClockInv, ClockTypeOK
  <2> QED BY <2>1, PacketMoves DEF ClockInv, ClockTypeOK, Timestamps
<1>2. \A u \in Units : mono'[u] = In(ts', u) - off'[u]
  BY PacketMoves
<1>3. (\A u \in Units : mono[u] = In(ts, u) - off[u])'
  BY <1>2 DEF In, Sec
<1>4. LagBounded("msec", "sec")'
  BY <1>0, RestBound, LagStep DEF Units, ClockInv
<1>5. LagBounded("usec", "msec")'
  BY <1>0, RestBound, LagStep DEF Units, ClockInv
<1> QED BY <1>1, <1>3, <1>4, <1>5 DEF ClockInv

\* Steps that leave the clock alone.
LEMMA ClockInvStutter ==
  ASSUME ClockInv, UNCHANGED clockVars
  PROVE  ClockInv'
<1>1. live' = live /\ ts' = ts /\ off' = off /\ mono' = mono /\ leaps' = leaps
  BY DEF clockVars
<1> QED BY <1>1 DEF ClockInv, ClockTypeOK, LagBounded, Lag, Rest, In, Sec
-----------------------------------------------------------------------------
(***************************************************************************)
(* The inductive invariant of the buckets.  A balance is above minus the   *)
(* largest request, as nothing is granted without a token; no time slice,  *)
(* and so no bucket, is ahead of the clock.                                *)
(***************************************************************************)
TokenInv ==
  /\ TypeOK
  /\ ClockInv
  /\ ticks \in Nat /\ earned \in Nat /\ spent \in Int
  /\ \A t \in Threads : now[t] <= mono["msec"]
  /\ ts_ms <= mono["msec"]
  /\ have > -Burst
  /\ spent + have <= Rate + earned
  /\ RoundingBounded
  /\ SavingsBounded

\* The largest request is one of the requests.
LEMMA BurstFacts == Burst \in Wants /\ Burst \in Nat \ {0} /\ \A want \in Wants : want <= Burst
<1>1. PICK most \in Wants : \A want \in Wants : want <= most
  BY TokenAssumption
<1>2. \E x \in Wants : \A y \in Wants : x >= y
  BY <1>1, TokenAssumption
<1>3. Max(Wants) \in Wants /\ \A y \in Wants : Max(Wants) >= y
  BY <1>2 DEF Max
<1> QED BY <1>3, TokenAssumption DEF Burst

\* The rate is a number.
LEMMA RateNat == Rate \in Nat
BY TokenAssumption

\* What a thread may give back is a number, and not more than the largest.
LEMMA LentFacts ==
  ASSUME NEW F \in [Threads -> Wants \cup {0}]
  PROVE  F \in [Threads -> Int] /\ \A t \in Threads : F[t] <= Burst
<1>1. \A n \in Wants \cup {0} : n \in Int /\ n <= Burst
  BY BurstFacts, TokenAssumption
<1>2. \A t \in Threads : F[t] \in Int /\ F[t] <= Burst
  BY <1>1
<1>3. F = [t \in Threads |-> F[t]]
  OBVIOUS
<1> QED BY <1>2, <1>3

\* What the threads hold on loan is a number.
LEMMA LentNat ==
  /\ \A n \in Wants \cup {0} : n \in Nat
  /\ TypeOK => \A t \in Threads : lent[t] \in Wants \cup {0} /\ lent[t] \in Nat
<1>1. \A n \in Wants \cup {0} : n \in Nat
  BY TokenAssumption
<1>2. TypeOK => \A t \in Threads : lent[t] \in Wants \cup {0}
  BY DEF TypeOK
<1> QED BY <1>1, <1>2

\* All that the threads might give back.
LEMMA LentBound ==
  ASSUME TypeOK
  PROVE  SumFunction(lent) <= Burst * Cardinality(Threads)
<1>1. lent \in [Threads -> Int] /\ \A t \in Threads : lent[t] <= Burst
  BY LentFacts DEF TypeOK
<1> QED BY <1>1, BurstFacts, TokenAssumption, ThreadsAssumption, SumBound

\* What becomes of it when a thread gets or gives back tokens.
LEMMA LentChange ==
  ASSUME TypeOK, NEW t \in Threads, NEW n \in Wants \cup {0},
         lent' = [lent EXCEPT ![t] = n]
  PROVE  /\ SumFunction(lent) \in Int /\ SumFunction(lent)' \in Int
         /\ SumFunction(lent)' = SumFunction(lent) + (n - lent[t])
         /\ lent' \in [Threads -> Wants \cup {0}]
<1> DEFINE G == [lent EXCEPT ![t] = n]
<1>0. lent \in [Threads -> Wants \cup {0}] /\ G \in [Threads -> Wants \cup {0}]
  BY DEF TypeOK
<1>1. /\ lent \in [Threads -> Int] /\ G \in [Threads -> Int] /\ G[t] = n
      /\ \A d \in Threads \ {t} : lent[d] = G[d]
      /\ G \in [Threads -> Wants \cup {0}]
  <2>1. G[t] = n /\ \A d \in Threads \ {t} : lent[d] = G[d]
    BY <1>0
  <2> HIDE DEF G
  <2> QED BY <1>0, <2>1, LentFacts
<1> HIDE DEF G
<1>2. /\ SumFunction(lent) \in Int /\ SumFunction(G) \in Int
      /\ SumFunction(G) = SumFunction(lent) + (G[t] - lent[t])
  BY <1>1, TokenAssumption, ThreadsAssumption, SumChange
<1>3. SumFunction(lent)' = SumFunction(G)
  <2>1. SumFunction(lent)' = SumFunction(lent')
    OBVIOUS
  <2> QED BY <2>1 DEF G
<1> QED BY <1>1, <1>2, <1>3 DEF G

\* A thread is credited for whole tokens, and less than one is lost.
LEMMA CreditFacts ==
  ASSUME TypeOK, NEW t \in Threads
  PROVE  /\ Credit(t) \in Nat
         /\ ~Earns(t) => Credit(t) = 0
         /\ Earns(t) => LET due == (now[t] - ts_ms) * Rate IN
              Res * Credit(t) <= due /\ due <= Res * Credit(t) + (Res - 1)
<1>1. CASE ~Earns(t)
  BY <1>1 DEF Credit
<1>2. CASE Earns(t)
  <2> DEFINE due == (now[t] - ts_ms) * Rate
             c == due \div Res
             r == due % Res
  <2>1. due \in Nat
    <3>1. now[t] - ts_ms \in Nat
      BY <1>2 DEF Earns, TypeOK
    <3> QED BY <3>1, RateNat
  <2>2. Credit(t) = c
    BY <1>2 DEF Credit
  <2> HIDE DEF due
  <2>3. c \in Int /\ r \in Int /\ due = Res * c + r /\ 0 <= r /\ r < Res
    BY <2>1, ResNat, DivMod
  <2>4. c \in Nat
    BY <2>1, ResNat, DivTwice
  <2> HIDE DEF c, r
  <2>5. Res * c <= due /\ due <= Res * c + (Res - 1)
    BY <2>1, <2>3, <2>4, ResNat
  <2> QED BY <1>2, <2>2, <2>4, <2>5 DEF due
<1> QED BY <1>1, <1>2

\* The balance a thread finds.
LEMMA BalanceFacts ==
  ASSUME TokenInv, NEW t \in Threads
  PROVE  /\ Balance(t) \in Int
         /\ Balance(t) <= have + Credit(t)
         /\ Balance(t) > -Burst
         /\ ~Earns(t) => Balance(t) = have
         /\ Earns(t) => Balance(t) <= Rate
<1>1. Credit(t) \in Nat /\ (~Earns(t) => Credit(t) = 0)
  BY CreditFacts DEF TokenInv
<1>2. have \in Int /\ have > -Burst
  BY DEF TokenInv, TypeOK
<1> QED BY <1>1, <1>2, RateNat, BurstFacts DEF Balance, Limited

\* The bucket's time moves with what is earned in it.
LEMMA CountStep ==
  ASSUME TokenInv, NEW t \in Threads, Count(t)
  PROVE  /\ ClockInv' /\ clockVars' = clockVars /\ mono' = mono /\ now' = now
         /\ ts_ms' \in Nat /\ ts_ms' <= mono["msec"]
         /\ calls' \in 0 .. MaxCalls
         /\ ticks' \in Nat /\ earned' \in Nat /\ earned' = earned + Credit(t)
         /\ RoundingBounded'
<1>1. ClockInv' /\ clockVars' = clockVars /\ mono' = mono /\ now' = now
  BY ClockInvStutter DEF Count, TokenInv, clockVars
<1>2. /\ now[t] \in Nat /\ now[t] <= mono["msec"] /\ ts_ms \in Nat /\ ts_ms <= mono["msec"]
      /\ calls \in 0 .. MaxCalls /\ ticks \in Nat /\ earned \in Nat
  BY DEF TokenInv, TypeOK
<1>3. Credit(t) \in Nat
  BY CreditFacts DEF TokenInv
<1>4. ts_ms' = (IF Earns(t) THEN now[t] ELSE ts_ms) /\ calls' = calls + 1 /\ calls < MaxCalls
  BY DEF Count
<1>5. ticks' = (IF Earns(t) THEN ticks + 1 ELSE ticks) /\ earned' = earned + Credit(t)
  BY DEF Count
<1>6. Rate * ts_ms - Res * earned \in 0 .. (Res - 1) * ticks
  BY DEF TokenInv, RoundingBounded
<1>7. Rate * ts_ms' - Res * earned' \in 0 .. (Res - 1) * ticks'
  <2>1. CASE ~Earns(t)
    <3>1. Credit(t) = 0
      BY <2>1, CreditFacts DEF TokenInv
    <3>2. earned' = earned /\ ts_ms' = ts_ms /\ ticks' = ticks
      BY <1>2, <1>4, <1>5, <2>1, <3>1
    <3> QED BY <1>6, <3>2
  <2>2. CASE Earns(t)
    <3> DEFINE c == Credit(t)
               n == now[t]
               due == (n - ts_ms) * Rate
    <3>1. Res * c <= due /\ due <= Res * c + (Res - 1)
      BY <2>2, CreditFacts DEF TokenInv
    <3>2. ts_ms' = n /\ ticks' = ticks + 1 /\ earned' = earned + c
      BY <1>4, <1>5, <2>2
    <3>3. c \in Nat /\ n \in Nat
      BY <1>2, <1>3
    <3> HIDE DEF c, n
    <3>4. Rate * n = Rate * ts_ms + due /\ due \in Int /\ Rate * ts_ms \in Int
      BY <1>2, <3>3, RateNat
    <3>5. Res * (earned + c) = Res * earned + Res * c /\ Res * earned \in Int /\ Res * c \in Int
      BY <1>2, <3>3, ResNat
    <3>6. /\ (Res - 1) * (ticks + 1) = (Res - 1) * ticks + (Res - 1)
          /\ (Res - 1) * ticks \in Int /\ Res - 1 \in Int
      BY <1>2, ResNat
    <3> HIDE DEF due
    <3>7. Rate * n - Res * (earned + c) \in 0 .. (Res - 1) * (ticks + 1)
      BY <1>6, <3>1, <3>4, <3>5, <3>6
    <3> QED BY <3>2, <3>7
  <2> QED BY <2>1, <2>2
<1>8. RoundingBounded'
  BY <1>7 DEF RoundingBounded
<1>9. ts_ms' \in Nat /\ ts_ms' <= mono["msec"] /\ ticks' \in Nat /\ earned' \in Nat
  BY <1>2, <1>3, <1>4, <1>5
<1>10. calls' \in 0 .. MaxCalls
  BY <1>2, <1>4, TokenAssumption
<1> QED BY <1>1, <1>5, <1>8, <1>9, <1>10


(***************************************************************************)
(* What a call does to the savings.  Either the bucket earns, and has no   *)
(* more than its rate before the call takes or gives, or it does not, and  *)
(* tokens only move between the bucket and the thread.                     *)
(***************************************************************************)
LEMMA SavingsStep ==
  ASSUME TokenInv, NEW t \in Threads, NEW n \in Wants \cup {0}, NEW b \in Int,
         lent' = [lent EXCEPT ![t] = n], have' = b,
         b + n <= Balance(t) + lent[t],
         Earns(t) => b + SumFunction(lent)' <= Rate + Burst * Cardinality(Threads)
  PROVE  SavingsBounded'
<1>1. /\ SumFunction(lent) \in Int /\ SumFunction(lent)' \in Int
      /\ SumFunction(lent)' = SumFunction(lent) + (n - lent[t])
  BY LentChange DEF TokenInv
<1>2. Burst * Cardinality(Threads) \in Int
  BY BurstFacts, TokenAssumption, ThreadsAssumption, FS_CardinalityType
<1>3. lent[t] \in Int /\ n \in Int /\ have \in Int /\ Balance(t) \in Int
  <2>1. lent[t] \in Nat /\ n \in Nat
    BY LentNat DEF TokenInv
  <2>2. have \in Int /\ Balance(t) \in Int
    BY BalanceFacts DEF TokenInv, TypeOK
  <2> QED BY <2>1, <2>2
<1>4. have + SumFunction(lent) <= Rate + Burst * Cardinality(Threads)
  BY DEF TokenInv, SavingsBounded
<1>5. b + SumFunction(lent)' <= Rate + Burst * Cardinality(Threads)
  <2>1. CASE ~Earns(t)
    <3>1. Balance(t) = have
      BY <2>1, BalanceFacts
    <3> QED BY <1>1, <1>2, <1>3, <1>4, <3>1, RateNat
  <2> QED BY <2>1
<1> QED BY <1>5 DEF SavingsBounded, Burst

\* The bucket starts in its invariant ...
LEMMA TokenInvInit == Init => TokenInv
<1> SUFFICES ASSUME Init PROVE TokenInv
  OBVIOUS
<1>1. ClockInv /\ ClockTypeOK
  BY ClockInvInit DEF Init, ClockInv
<1>2. mono["msec"] = 0
  BY DEF Init, ClockInit, Units
<1>3. TypeOK
  BY <1>1, RateNat, TokenAssumption DEF Init, TypeOK
<1>4. RoundingBounded
  BY RateNat, ResNat DEF Init, RoundingBounded
<1>5. SavingsBounded
  <2>1. lent \in [Threads -> Int] /\ \A t \in Threads : lent[t] = 0
    BY DEF Init
  <2>2. SumFunction(lent) = 0
    BY <2>1, TokenAssumption, ThreadsAssumption, SumZero
  <2>3. Burst * Cardinality(Threads) \in Nat
    BY BurstFacts, TokenAssumption, ThreadsAssumption, FS_CardinalityType
  <2> QED BY <2>2, <2>3, RateNat DEF Init, SavingsBounded
<1> QED BY <1>1, <1>2, <1>3, <1>4, <1>5, RateNat, BurstFacts DEF Init, TokenInv

\* ... every step of every thread keeps it there ...
LEMMA TokenInvStep == TokenInv /\ [Next]_vars => TokenInv'
<1> SUFFICES ASSUME TokenInv, [Next]_vars PROVE TokenInv'
  OBVIOUS
<1> USE DEF TokenInv
<1>0. /\ have \in Int /\ earned \in Nat /\ spent \in Int /\ Burst \in Nat \ {0}
      /\ Rate \in Nat /\ spent + have <= Rate + earned /\ have > -Burst
  BY RateNat, BurstFacts DEF TypeOK
<1>1. ASSUME NEW t \in Timestamps, Packet(t), UNCHANGED tokenVars PROVE TokenInv'
  <2>1. ClockInv' /\ ClockTypeOK'
    BY <1>1, ClockInvPacket DEF ClockInv
  <2>2. /\ now' = now /\ have' = have /\ ts_ms' = ts_ms /\ lent' = lent /\ calls' = calls
        /\ ticks' = ticks /\ earned' = earned /\ spent' = spent
    BY <1>1 DEF tokenVars
  <2>3. mono'["msec"] >= mono["msec"] /\ mono["msec"] \in Nat /\ mono'["msec"] \in Nat
    <3>1. "msec" \in Units
      BY DEF Units
    <3>2. ts \in Nat /\ ts' \in Nat
      BY <1>1, PacketMoves, ClockAssumption DEF ClockInv, ClockTypeOK, Timestamps
    <3>3. In(ts, "msec") \in Nat /\ In(ts', "msec") \in Nat
      BY <3>1, <3>2, InNat
    <3>4. ts <= ts' => In(ts, "msec") <= In(ts', "msec")
      BY <3>1, <3>2, InMonotone
    <3>5. mono["msec"] \in Nat /\ mono'["msec"] \in Nat
      BY <1>1, <3>1, PacketMoves DEF ClockInv, ClockTypeOK
    <3> QED BY <1>1, <3>1, <3>2, <3>3, <3>4, <3>5, PacketMoves
  <2>4. (\A u \in Threads : now[u] <= mono["msec"])'
    BY <2>2, <2>3 DEF TypeOK
  <2>5. (ts_ms <= mono["msec"])'
    BY <2>2, <2>3 DEF TypeOK
  <2>6. TypeOK'
    BY <2>1, <2>2 DEF TypeOK
  <2>7. SavingsBounded'
    BY <2>2 DEF SavingsBounded, Burst
  <2> QED BY <1>0, <2>1, <2>2, <2>4, <2>5, <2>6, <2>7 DEF RoundingBounded, Burst
<1>2. ASSUME NEW t \in Threads, Slice(t) PROVE TokenInv'
  <2>1. /\ clockVars' = clockVars /\ have' = have /\ ts_ms' = ts_ms /\ lent' = lent
        /\ calls' = calls /\ ticks' = ticks /\ earned' = earned /\ spent' = spent
        /\ now' = [now EXCEPT ![t] = mono["msec"]] /\ mono' = mono
    BY <1>2 DEF Slice, clockVars
  <2>2. ClockInv' /\ ClockTypeOK'
    BY <2>1, ClockInvStutter DEF ClockInv
  <2>3. mono["msec"] \in Nat
    BY DEF ClockInv, ClockTypeOK, Units
  <2>4. now' \in [Threads -> Nat] /\ (\A u \in Threads : now[u] <= mono["msec"])'
    BY <2>1, <2>3 DEF TypeOK
  <2>5. TypeOK'
    BY <2>1, <2>2, <2>4 DEF TypeOK
  <2>6. SavingsBounded'
    BY <2>1 DEF SavingsBounded, Burst
  <2> QED BY <1>0, <2>1, <2>2, <2>4, <2>5, <2>6 DEF RoundingBounded, Burst
<1>3. ASSUME NEW t \in Threads, Count(t), NEW n \in Wants \cup {0},
             lent' = [lent EXCEPT ![t] = n],
             have' \in Int, have' > -Burst, have' + n <= Balance(t) + lent[t],
             spent' \in Int, spent' + have' <= Rate + earned',
             Earns(t) => have' + SumFunction(lent)' <= Rate + Burst * Cardinality(Threads)
      PROVE  TokenInv'
  <2>1. /\ ClockInv' /\ mono' = mono /\ now' = now
        /\ ts_ms' \in Nat /\ ts_ms' <= mono["msec"] /\ calls' \in 0 .. MaxCalls
        /\ ticks' \in Nat /\ earned' \in Nat /\ RoundingBounded'
    BY <1>3, CountStep
  <2>2. lent' \in [Threads -> Wants \cup {0}]
    BY <1>3, LentChange
  <2>3. TypeOK'
    BY <1>3, <2>1, <2>2 DEF TypeOK, ClockInv
  <2>4. SavingsBounded'
    BY <1>3, SavingsStep
  <2> QED BY <1>3, <2>1, <2>3, <2>4 DEF Burst
<1>4. ASSUME NEW t \in Threads, NEW want \in Wants, Request(t, want) PROVE TokenInv'
  <2>1. Count(t)
    BY <1>4 DEF Request
  <2>2. Balance(t) \in Int /\ Balance(t) <= have + Credit(t) /\ Balance(t) > -Burst
    BY BalanceFacts
  <2>3. Earns(t) => Balance(t) <= Rate
    BY BalanceFacts
  <2>4. earned' = earned + Credit(t) /\ Credit(t) \in Nat
    BY <2>1, CountStep, CreditFacts
  <2>5. want \in Nat /\ want > 0 /\ want <= Burst
    BY BurstFacts, TokenAssumption
  <2>6. lent[t] \in Wants \cup {0} /\ lent[t] \in Nat
    BY LentNat
  <2>7. Burst * Cardinality(Threads) \in Int
    BY BurstFacts, TokenAssumption, ThreadsAssumption, FS_CardinalityType
  <2>8. CASE Grants(Balance(t))
    <3>1. /\ have' = Balance(t) - want /\ spent' = spent + want
          /\ lent' = [lent EXCEPT ![t] = want]
      BY <1>4, <2>8 DEF Request
    <3>2. Balance(t) > 0
      BY <2>8 DEF Grants
    <3>3. SumFunction(lent)' \in Int /\ SumFunction(lent)' <= Burst * Cardinality(Threads)
      <4>1. lent' \in [Threads -> Wants \cup {0}]
        BY <3>1, LentChange
      <4>2. lent' \in [Threads -> Int] /\ \A u \in Threads : lent'[u] <= Burst
        BY <4>1, LentFacts
      <4>3. SumFunction(lent') <= Burst * Cardinality(Threads)
        BY <4>2, BurstFacts, TokenAssumption, ThreadsAssumption, SumBound
      <4>4. SumFunction(lent)' \in Int
        BY <3>1, LentChange
      <4> QED BY <4>3, <4>4
    <3>4. Earns(t) => have' + SumFunction(lent)' <= Rate + Burst * Cardinality(Threads)
      BY <1>0, <2>2, <2>3, <2>5, <2>7, <3>1, <3>3
    <3>5. /\ have' \in Int /\ have' > -Burst /\ have' + want <= Balance(t) + lent[t]
          /\ spent' \in Int /\ spent' + have' <= Rate + earned'
      BY <1>0, <2>2, <2>4, <2>5, <2>6, <3>1, <3>2
    <3> QED BY <1>3, <2>1, <3>1, <3>4, <3>5
  <2>9. CASE ~Grants(Balance(t))
    <3>1. have' = Balance(t) /\ spent' = spent /\ lent' = lent
      BY <1>4, <2>9 DEF Request
    <3>2. lent' = [lent EXCEPT ![t] = lent[t]]
      BY <3>1 DEF TypeOK
    <3>3. SumFunction(lent)' \in Int /\ SumFunction(lent)' <= Burst * Cardinality(Threads)
      BY <2>6, <3>1, <3>2, LentChange, LentBound
    <3>4. Earns(t) => have' + SumFunction(lent)' <= Rate + Burst * Cardinality(Threads)
      BY <1>0, <2>2, <2>3, <2>7, <3>1, <3>3
    <3>5. /\ have' \in Int /\ have' > -Burst /\ have' + lent[t] <= Balance(t) + lent[t]
          /\ spent' \in Int /\ spent' + have' <= Rate + earned'
      BY <1>0, <2>2, <2>4, <2>6, <3>1
    <3> QED BY <1>3, <2>1, <2>6, <3>2, <3>4, <3>5
  <2> QED BY <2>8, <2>9
<1>5. ASSUME NEW t \in Threads, Reimburse(t) PROVE TokenInv'
  <2>1. /\ Count(t) /\ have' = Balance(t) + lent[t] /\ spent' = spent - lent[t]
        /\ lent' = [lent EXCEPT ![t] = 0]
    BY <1>5 DEF Reimburse
  <2>2. Balance(t) \in Int /\ Balance(t) <= have + Credit(t) /\ Balance(t) > -Burst
    BY BalanceFacts
  <2>3. Earns(t) => Balance(t) <= Rate
    BY BalanceFacts
  <2>4. earned' = earned + Credit(t) /\ Credit(t) \in Nat
    BY <2>1, CountStep, CreditFacts
  <2>5. lent[t] \in Nat
    BY LentNat
  <2>6. Burst * Cardinality(Threads) \in Int
    BY BurstFacts, TokenAssumption, ThreadsAssumption, FS_CardinalityType
  <2>7. /\ SumFunction(lent) \in Int /\ SumFunction(lent)' \in Int
        /\ SumFunction(lent)' = SumFunction(lent) - lent[t]
        /\ SumFunction(lent) <= Burst * Cardinality(Threads)
    <3>1. /\ SumFunction(lent) \in Int /\ SumFunction(lent)' \in Int
          /\ SumFunction(lent)' = SumFunction(lent) + (0 - lent[t])
      BY <2>1, LentChange
    <3> QED BY <2>5, <3>1, LentBound
  <2>8. Earns(t) => have' + SumFunction(lent)' <= Rate + Burst * Cardinality(Threads)
    BY <1>0, <2>1, <2>2, <2>3, <2>5, <2>6, <2>7
  <2>9. /\ have' \in Int /\ have' > -Burst /\ have' + 0 <= Balance(t) + lent[t]
        /\ spent' \in Int /\ spent' + have' <= Rate + earned'
    BY <1>0, <2>1, <2>2, <2>4, <2>5
  <2> QED BY <1>3, <2>1, <2>8, <2>9
<1>6. ASSUME UNCHANGED vars PROVE TokenInv'
  <2>1. /\ clockVars' = clockVars /\ have' = have /\ ts_ms' = ts_ms /\ lent' = lent
        /\ calls' = calls /\ ticks' = ticks /\ earned' = earned /\ spent' = spent
        /\ now' = now /\ mono' = mono
    BY <1>6 DEF vars, tokenVars, clockVars
  <2>2. ClockInv' /\ ClockTypeOK'
    BY <2>1, ClockInvStutter DEF ClockInv
  <2>3. TypeOK'
    BY <2>1, <2>2 DEF TypeOK
  <2>4. SavingsBounded'
    BY <2>1 DEF SavingsBounded, Burst
  <2> QED BY <2>1, <2>2, <2>3, <2>4 DEF RoundingBounded, Burst
<1>7. ASSUME Whatever PROVE TokenInv'
  <2>1. /\ clockVars' = clockVars /\ have' = have /\ ts_ms' = ts_ms /\ lent' = lent
        /\ calls' = calls + 1 /\ calls < MaxCalls
        /\ ticks' = ticks /\ earned' = earned /\ spent' = spent
        /\ now' = now /\ mono' = mono
    BY <1>7 DEF Whatever, clockVars
  <2>2. ClockInv' /\ ClockTypeOK'
    BY <2>1, ClockInvStutter DEF ClockInv
  <2>3. calls' \in 0 .. MaxCalls
    BY <2>1, TokenAssumption DEF TypeOK
  <2>4. TypeOK'
    BY <2>1, <2>2, <2>3 DEF TypeOK
  <2>5. SavingsBounded'
    BY <2>1 DEF SavingsBounded, Burst
  <2> QED BY <2>1, <2>2, <2>4, <2>5 DEF RoundingBounded, Burst
<1>8. ASSUME NEW t \in Threads, NEW want \in Wants, peak_token_credit(t, want) PROVE TokenInv'
  BY <1>4, <1>7, <1>8 DEF peak_token_credit
<1> QED BY <1>1, <1>2, <1>5, <1>6, <1>8 DEF Next

\* ... so it never leaves it.
LEMMA TokenInvAlways == Spec => []TokenInv
BY TokenInvInit, TokenInvStep, PTL DEF Spec
-----------------------------------------------------------------------------
(***************************************************************************)
(* Threads that share a bucket get no more out of it, and no more into it, *)
(* than its rate allows for, whatever the order they come in and however   *)
(* old their time slices are.                                              *)
(***************************************************************************)
THEOREM TokenCredit == Spec => []CreditSound
<1>1. TokenInv => CreditSound
  <2> SUFFICES ASSUME TokenInv PROVE CreditSound
    OBVIOUS
  <2>1. /\ have \in Int /\ earned \in Nat /\ spent \in Int /\ ts_ms \in Nat /\ ticks \in Nat
        /\ spent + have <= Rate + earned /\ have > -Burst
    BY DEF TokenInv, TypeOK
  <2>2. Rate * ts_ms - Res * earned >= 0
    BY <2>1, RateNat, ResNat DEF TokenInv, RoundingBounded
  <2>3. spent <= Rate + earned + Burst - 1
    BY <2>1, RateNat, BurstFacts
  <2>4. Res * spent <= Res * (Rate + earned + Burst - 1)
    BY <2>1, <2>3, RateNat, BurstFacts, ResNat
  <2>5. Res * (Rate + earned + Burst - 1) = Res * (Rate + Burst) + Res * earned - Res
    BY <2>1, RateNat, BurstFacts, ResNat
  <2>6. /\ Res * spent \in Int /\ Res * (Rate + Burst) \in Int /\ Res * earned \in Int
        /\ Rate * ts_ms \in Int
    BY <2>1, RateNat, BurstFacts, ResNat
  <2>7. Res * spent < Res * (Rate + Burst) + Rate * ts_ms
    BY <2>2, <2>4, <2>5, <2>6, ResNat
  <2> QED BY <2>7 DEF TokenInv, CreditSound, SpendBounded
<1> QED BY <1>1, TokenInvAlways, PTL

(***************************************************************************)
(* A call loses less than a token by rounding, and never gains one.        *)
(***************************************************************************)
THEOREM TokenRounding == Spec => []RoundingBounded
BY TokenInvAlways, PTL DEF TokenInv

(***************************************************************************)
(* The three clocks drift apart by no more than one unit for every leap of *)
(* the timestamps back.                                                    *)
(***************************************************************************)
THEOREM ClockDrift == Spec => []DriftBounded
<1>1. ClockInv => DriftBounded
  <2> SUFFICES ASSUME ClockInv PROVE DriftBounded
    OBVIOUS
  <2> DEFINE most == Res * (1 + leaps) - 1
  <2>0. leaps \in Nat /\ ts \in Nat
    BY ClockAssumption DEF ClockInv, ClockTypeOK, Timestamps
  <2>1. ASSUME NEW d \in Int, NEW a \in 0 .. Res - 1,
               d - a \in -((Res - 1) * (leaps + 1)) .. (Res - 1) * leaps
        PROVE  d \in -most .. most
    <3>1. (Res - 1) * (leaps + 1) = (Res - 1) * leaps + (Res - 1)
      BY <2>0, ResNat
    <3>2. most = (Res - 1) * leaps + (Res - 1) + leaps
      BY <2>0, ResNat
    <3>3. (Res - 1) * leaps \in Int /\ Res \in Int
      BY <2>0, ResNat
    <3> HIDE DEF most
    <3> QED BY <2>0, <2>1, <3>1, <3>2, <3>3
  <2>2. mono["sec"] \in Nat /\ mono["msec"] \in Nat /\ mono["usec"] \in Nat
    BY DEF ClockInv, ClockTypeOK, Units
  <2>3. mono["msec"] - Res * mono["sec"] \in Int /\ mono["usec"] - Res * mono["msec"] \in Int
    BY <2>2, ResNat
  <2>4. Rest(ts, "msec", "sec") \in 0 .. Res - 1 /\ Rest(ts, "usec", "msec") \in 0 .. Res - 1
    BY <2>0, RestBound
  <2> HIDE DEF most
  <2>5. mono["msec"] - Res * mono["sec"] \in -most .. most
    BY <2>1, <2>3, <2>4 DEF ClockInv, LagBounded, Lag
  <2>6. mono["usec"] - Res * mono["msec"] \in -most .. most
    BY <2>1, <2>3, <2>4 DEF ClockInv, LagBounded, Lag
  <2> QED BY <2>5, <2>6 DEF DriftBounded, most
<1>2. TokenInv => DriftBounded
  BY <1>1 DEF TokenInv
<1> QED BY <1>2, TokenInvAlways, PTL

(***************************************************************************)
(* No packet takes a clock back, and none of the clocks stands still or    *)
(* falls behind while the time it measures goes forward.                   *)
(***************************************************************************)
THEOREM ClockForward == Spec => ClocksForward
<1> DEFINE A == \A u \in Units :
         /\ mono'[u] >= mono[u]
         /\ In(ts', u) > In(ts, u) => mono'[u] - mono[u] = In(ts', u) - In(ts, u)
<1>1. ASSUME ClockInv, NEW t \in Timestamps, Packet(t) PROVE A
  <2>0. ts \in Nat /\ ts' \in Nat
    BY <1>1, PacketMoves, ClockAssumption DEF ClockInv, ClockTypeOK, Timestamps
  <2> SUFFICES ASSUME NEW u \in Units
               PROVE  /\ mono'[u] >= mono[u]
                      /\ In(ts', u) > In(ts, u) =>
                           mono'[u] - mono[u] = In(ts', u) - In(ts, u)
    OBVIOUS
  <2>1. In(ts, u) \in Nat /\ In(ts', u) \in Nat /\ mono[u] \in Nat /\ mono'[u] \in Nat
    BY <1>1, <2>0, InNat, PacketMoves DEF ClockInv, ClockTypeOK
  <2>2. CASE ts' >= ts
    <3>1. In(ts, u) <= In(ts', u)
      BY <2>0, <2>2, InMonotone
    <3>2. mono'[u] = mono[u] + (In(ts', u) - In(ts, u))
      BY <1>1, <2>2, PacketMoves
    <3> QED BY <2>1, <3>1, <3>2
  <2>3. CASE ts' < ts
    <3>1. In(ts', u) <= In(ts, u)
      BY <2>0, <2>3, InMonotone
    <3>2. mono'[u] = mono[u]
      BY <1>1, <2>3, PacketMoves
    <3> QED BY <2>1, <3>1, <3>2
  <2> QED BY <2>0, <2>2, <2>3
<1>2. TokenInv /\ [Next]_vars => [A]_clockVars
  <2> SUFFICES ASSUME TokenInv, Next, clockVars' # clockVars PROVE A
    BY DEF vars
  <2>1. PICK t \in Timestamps : Packet(t)
    BY DEF Next, Slice, peak_token_credit, Request, Whatever, Reimburse, Count
  <2> QED BY <1>1, <2>1 DEF TokenInv
<1> QED BY <1>2, TokenInvAlways, PTL DEF Spec, ClocksForward
=============================================================================
