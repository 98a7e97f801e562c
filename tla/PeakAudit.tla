------------------------------ MODULE PeakAudit ------------------------------
(***************************************************************************)
(* The runtime counters of lib/peak_audit.c.                               *)
(*                                                                         *)
(* Every thread counts in its own __thread structure, without locks.       *)
(* peak_audit_sync() walks over the fields and merges each of them into a  *)
(* shared export with an atomic add, then wipes its own; several threads   *)
(* may be anywhere in that loop at the same time.  Counters are uint64_t;  *)
(* CounterSize is 2^64 in the code.                                        *)
(***************************************************************************)
EXTENDS Integers, FiniteSets, FiniteSetsExt

CONSTANTS
  Threads,      \* the threads that count
  FieldCount,   \* AUDIT_MAX
  CounterSize,  \* number of values of a uint64_t
  Values        \* the values passed to peak_audit_add() and peak_audit_set()

ASSUME AuditAssumption ==
  /\ IsFiniteSet(Threads)
  /\ FieldCount \in Nat \ {0}
  /\ CounterSize \in Nat \ {0}
  /\ Values \subseteq 0 .. CounterSize - 1

VARIABLES
  local,    \* audit_thread of each thread
  export,   \* the shared structure all threads sync to
  at,       \* the sync loop's i of each thread; FieldCount when not syncing
  merged,   \* has the thread added field at[t], but not wiped it yet?
  counted   \* history: what was counted in each field since the start

auditVars == <<local, export, at, merged, counted>>

Fields == 0 .. FieldCount - 1
Counter == 0 .. CounterSize - 1

Wrap(n) == n % CounterSize

AuditTypeOK ==
  /\ local \in [Threads -> [Fields -> Counter]]
  /\ export \in [Fields -> Counter]
  /\ at \in [Threads -> 0 .. FieldCount]
  /\ merged \in [Threads -> BOOLEAN]
  /\ counted \in [Fields -> Counter]

Syncing(t) == at[t] # FieldCount
-----------------------------------------------------------------------------
AuditInit ==
  /\ local = [t \in Threads |-> [f \in Fields |-> 0]]
  /\ export = [f \in Fields |-> 0]
  /\ at = [t \in Threads |-> FieldCount]
  /\ merged = [t \in Threads |-> FALSE]
  /\ counted = [f \in Fields |-> 0]

\* The effect of counting n more in field f, on the thread's own counters.
Count(t, f, n) ==
  /\ local' = [local EXCEPT ![t][f] = Wrap(@ + n)]
  /\ counted' = [counted EXCEPT ![f] = Wrap(@ + n)]

\* peak_audit_add(); peak_audit_inc() adds one.  Other fields are ignored.
peak_audit_add(t, f, value) ==
  /\ ~Syncing(t)
  /\ IF f \in Fields THEN Count(t, f, value) ELSE UNCHANGED <<local, counted>>
  /\ UNCHANGED <<export, at, merged>>

\* peak_audit_set() forgets what the field held.
peak_audit_set(t, f, value) ==
  /\ ~Syncing(t)
  /\ IF f \in Fields
     THEN /\ local' = [local EXCEPT ![t][f] = value]
          /\ counted' = [counted EXCEPT ![f] = Wrap((@ + value) - local[t][f])]
     ELSE UNCHANGED <<local, counted>>
  /\ UNCHANGED <<export, at, merged>>

\* peak_audit_sync() is called.
peak_audit_sync(t) ==
  /\ ~Syncing(t)
  /\ at' = [at EXCEPT ![t] = 0]
  /\ UNCHANGED <<local, export, merged, counted>>

\* A variant that overwrites the export.
SyncStore(t) ==
  /\ Syncing(t) /\ ~merged[t]
  /\ export' = [export EXCEPT ![at[t]] = local[t][at[t]]]
  /\ merged' = [merged EXCEPT ![t] = TRUE]
  /\ UNCHANGED <<local, at, counted>>

\* One turn of its loop, first half: the atomic add.
SyncMerge(t) ==
  /\ Syncing(t) /\ ~merged[t]
  /\ export' = [export EXCEPT ![at[t]] = Wrap(@ + local[t][at[t]])]
  /\ merged' = [merged EXCEPT ![t] = TRUE]
  /\ UNCHANGED <<local, at, counted>>

\* A variant that leaves the field for the next round.
SyncKeep(t) ==
  /\ Syncing(t) /\ merged[t]
  /\ merged' = [merged EXCEPT ![t] = FALSE]
  /\ at' = [at EXCEPT ![t] = @ + 1]
  /\ UNCHANGED <<local, export, counted>>

\* Second half: the thread wipes its own field and goes on with the next.
SyncWipe(t) ==
  /\ Syncing(t) /\ merged[t]
  /\ local' = [local EXCEPT ![t][at[t]] = 0]
  /\ merged' = [merged EXCEPT ![t] = FALSE]
  /\ at' = [at EXCEPT ![t] = @ + 1]
  /\ UNCHANGED <<export, counted>>

AuditSync(t) == peak_audit_sync(t) \/ SyncMerge(t) \/ SyncWipe(t)

\* Any thread may count, overwrite or sync; AUDIT_MAX itself is out of range.
AuditNext ==
  \E t \in Threads :
    \/ \E f \in 0 .. FieldCount, v \in Values : peak_audit_add(t, f, v)
    \/ \E f \in 0 .. FieldCount, v \in Values : peak_audit_set(t, f, v)
    \/ AuditSync(t)

AuditSpec == AuditInit /\ [][AuditNext]_auditVars
-----------------------------------------------------------------------------
\* What the threads have counted in field f and not merged yet.
Pending(f) ==
  [t \in Threads |-> IF at[t] = f /\ merged[t] THEN 0 ELSE local[t][f]]

(***************************************************************************)
(* Nothing is lost and nothing is counted twice, at any point of any       *)
(* number of concurrent syncs: the export plus what the threads have yet   *)
(* to merge is what was counted, modulo the width of a counter.            *)
(***************************************************************************)
AuditConserved ==
  \A f \in Fields : counted[f] = Wrap(export[f] + SumFunction(Pending(f)))
=============================================================================
