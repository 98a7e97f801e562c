----------------------------- MODULE PeakBarrier -----------------------------
(***************************************************************************)
(* The dynamic thread barrier of include/peak_sys.h (barrier_t).           *)
(*                                                                         *)
(* Every function of the barrier runs under barrier->mutex from its first  *)
(* to its last statement, so each is one atomic action, with a single      *)
(* exception: pthread_cond_wait() inside barrier_wait() releases the mutex *)
(* and blocks.  barrier_wait() is therefore two actions: the entry up to   *)
(* the blocking call, and the return once the thread has been signalled    *)
(* and owns the mutex again.                                               *)
(*                                                                         *)
(* barrier->threads is the number of registered threads minus one, kept in *)
(* an unsigned int that starts at 0U - 1U; UintSize is 2^32 in the code.   *)
(***************************************************************************)
EXTENDS PeakThreads, Integers

CONSTANT UintSize  \* number of values of an unsigned int

ASSUME UintAssumption ==
  /\ UintSize \in Nat
  /\ Cardinality(Threads) < UintSize

VARIABLES
  up,       \* has the barrier been initialised and not yet destroyed?
  threads,  \* barrier->threads
  count,    \* barrier->count, the number of threads blocked in barrier_wait
  pc,       \* where each thread is
  ret,      \* last value barrier_wait() returned to each thread
  stray     \* history: has pthread_cond_wait() returned without a signal?

barrierVars == <<up, threads, count, pc, ret, stray>>

(***************************************************************************)
(* "out"      not registered                                               *)
(* "running"  registered, doing the work the barrier is there to stop      *)
(* "blocked"  inside pthread_cond_wait()                                   *)
(* "waking"   taken off the condition variable, wants the mutex back       *)
(* "serial"   the last one to arrive: serialises, then must call wake      *)
(***************************************************************************)
Places == {"out", "running", "blocked", "waking", "serial"}

Members == {t \in Threads : pc[t] # "out"}
Blocked == {t \in Threads : pc[t] = "blocked"}

Uint(n) == n % UintSize

BarrierTypeOK ==
  /\ up \in BOOLEAN
  /\ threads \in 0 .. UintSize - 1
  /\ count \in 0 .. UintSize - 1
  /\ pc \in [Threads -> Places]
  /\ ret \in [Threads -> 0 .. UintSize - 1]
  /\ stray \in BOOLEAN
-----------------------------------------------------------------------------
\* barrier_init() on fresh memory.
BarrierInit ==
  /\ up = TRUE
  /\ threads = Uint(0 - 1)
  /\ count = 0
  /\ pc = [t \in Threads |-> "out"]
  /\ ret = [t \in Threads |-> 0]
  /\ stray = FALSE

\* A variant that forgets to look at the count.
JoinAnytime(t) ==
  /\ up
  /\ pc[t] = "out"
  /\ threads' = Uint(threads + 1)
  /\ pc' = [pc EXCEPT ![t] = "running"]
  /\ UNCHANGED <<up, count, ret, stray>>

(***************************************************************************)
(* A thread polls barrier_join() until it returns zero; a call that        *)
(* returns one changes nothing.                                            *)
(***************************************************************************)
barrier_join(t) ==
  /\ up
  /\ pc[t] = "out"
  /\ count = 0
  /\ threads' = Uint(threads + 1)
  /\ pc' = [pc EXCEPT ![t] = "running"]
  /\ UNCHANGED <<up, count, ret, stray>>

(***************************************************************************)
(* A call of barrier_leave() that returns one changes nothing: the thread  *)
(* stays registered and goes on taking part in the synchronisation.        *)
(***************************************************************************)
barrier_leave(t) ==
  /\ pc[t] = "running"
  /\ count = 0
  /\ threads' = Uint(threads - 1)
  /\ pc' = [pc EXCEPT ![t] = "out"]
  /\ UNCHANGED <<up, count, ret, stray>>

\* barrier_wait() up to pthread_cond_wait(), when it is not the last arrival.
Block(t) ==
  /\ count < threads
  /\ count' = count + 1
  /\ pc' = [pc EXCEPT ![t] = "blocked"]
  /\ UNCHANGED ret

\* A variant that is off by one.
SerialiseEarly(t) ==
  /\ count + 1 >= threads
  /\ pc' = [pc EXCEPT ![t] = "serial"]
  /\ ret' = [ret EXCEPT ![t] = Uint(threads + 1)]
  /\ UNCHANGED count

\* barrier_wait() of the last arrival: returns the number of participants.
Serialise(t) ==
  /\ count >= threads
  /\ pc' = [pc EXCEPT ![t] = "serial"]
  /\ ret' = [ret EXCEPT ![t] = Uint(threads + 1)]
  /\ UNCHANGED count

barrier_wait(t) ==
  /\ pc[t] = "running"
  /\ Block(t) \/ Serialise(t)
  /\ UNCHANGED <<up, threads, stray>>

\* barrier_wait() after pthread_cond_wait(): the mutex is back, return zero.
barrier_wait_return(t) ==
  /\ pc[t] = "waking"
  /\ pc' = [pc EXCEPT ![t] = "running"]
  /\ ret' = [ret EXCEPT ![t] = 0]
  /\ UNCHANGED <<up, threads, count, stray>>

\* A variant with pthread_cond_signal(): one waiter only.
SignalOne(t) ==
  /\ count = threads
  /\ count' = 0
  /\ \E w \in IF Blocked = {} THEN {t} ELSE Blocked :
       pc' = [pc EXCEPT ![w] = "waking", ![t] = "running"]

\* A variant that forgets to reset the counter.
BroadcastNoReset(t) ==
  /\ count = threads
  /\ count' = count
  /\ pc' = [u \in Threads |-> IF u = t THEN "running"
                              ELSE IF pc[u] = "blocked" THEN "waking"
                              ELSE pc[u]]

\* pthread_cond_broadcast() and the reset of the counter.
Broadcast(t) ==
  /\ count = threads
  /\ count' = 0
  /\ pc' = [u \in Threads |-> IF u = t THEN "running"
                              ELSE IF pc[u] = "blocked" THEN "waking"
                              ELSE pc[u]]

(***************************************************************************)
(* barrier_wake(), called by the serialising thread when it is done.  A    *)
(* count that differs from threads makes the call a no-op.                 *)
(***************************************************************************)
NoWake(t) ==
  /\ count # threads
  /\ pc' = [pc EXCEPT ![t] = "running"]
  /\ UNCHANGED count

barrier_wake(t) ==
  /\ pc[t] = "serial"
  /\ Broadcast(t) \/ NoWake(t)
  /\ UNCHANGED <<up, threads, ret, stray>>

\* POSIX: "Spurious wakeups from the pthread_cond_wait() function may occur."
pthread_cond_wait_spurious(t) ==
  /\ pc[t] = "blocked"
  /\ pc' = [pc EXCEPT ![t] = "waking"]
  /\ stray' = TRUE
  /\ UNCHANGED <<up, threads, count, ret>>

\* barrier_exit() by the owner, once nobody uses the barrier any more.
barrier_exit ==
  /\ up
  /\ Members = {}
  /\ up' = FALSE
  /\ threads' = 0
  /\ count' = 0
  /\ UNCHANGED <<pc, ret, stray>>

barrier_init ==
  /\ ~up
  /\ up' = TRUE
  /\ threads' = Uint(0 - 1)
  /\ count' = 0
  /\ UNCHANGED <<pc, ret, stray>>

Step(t) ==
  \/ barrier_join(t)
  \/ barrier_leave(t)
  \/ barrier_wait(t)
  \/ barrier_wait_return(t)
  \/ barrier_wake(t)
  \/ pthread_cond_wait_spurious(t)

BarrierNext ==
  \/ \E t \in Threads : Step(t)
  \/ barrier_exit
  \/ barrier_init

BarrierSpec == BarrierInit /\ [][BarrierNext]_barrierVars

(***************************************************************************)
(* The caller's side of the contract: a registered thread keeps reaching   *)
(* its next barrier_wait(), a serialising thread finishes and calls        *)
(* barrier_wake(), and a signalled thread is eventually scheduled.         *)
(***************************************************************************)
BarrierFairness ==
  \A t \in Threads :
    /\ WF_barrierVars(barrier_wait(t))
    /\ WF_barrierVars(barrier_wait_return(t))
    /\ WF_barrierVars(barrier_wake(t))

FairBarrierSpec == BarrierSpec /\ BarrierFairness
-----------------------------------------------------------------------------
(***************************************************************************)
(* The counters tell the truth: count is the number of threads inside      *)
(* pthread_cond_wait() and threads + 1 the number of registered threads.   *)
(* barrier_wait() decides who serialises on nothing else.  It holds until  *)
(* pthread_cond_wait() returns without a signal for the first time.        *)
(***************************************************************************)
CountersExact ==
  ~stray /\ up => /\ count = Cardinality(Blocked)
                  /\ threads = Uint(Cardinality(Members) - 1)

(***************************************************************************)
(* However threads join, leave and go round the barrier, barrier_wait()    *)
(* makes at most one of them the serialising thread at any time, until the *)
(* first spurious wakeup.                                                  *)
(***************************************************************************)
OneSerialThread ==
  ~stray => \A s, t \in Threads : pc[s] = "serial" /\ pc[t] = "serial" => s = t

(***************************************************************************)
(* A thread to which barrier_wait() returned two or more serialises alone: *)
(* every other registered thread stays blocked until it calls wake, as     *)
(* long as there is no spurious wakeup.                                    *)
(***************************************************************************)
SerialExclusion ==
  ~stray => \A s \in Threads :
    pc[s] = "serial" /\ ret[s] >= 2 => Members \ {s} \subseteq Blocked

(***************************************************************************)
(* Nobody is left behind in barrier_wait(): a blocked thread runs again.   *)
(* A lost wakeup, or a counter that no longer meets threads, breaks it.    *)
(***************************************************************************)
BlockedRunsAgain ==
  \A t \in Threads : pc[t] = "blocked" ~> pc[t] = "running"
=============================================================================
