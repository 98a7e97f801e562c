---------------------------- MODULE PeakTrackLRU -----------------------------
(***************************************************************************)
(* What peak_track(3) promises, without memory, trees or queues: every     *)
(* instance remembers the flows it was asked for, each under an id that no *)
(* flow of any instance ever had before.  A full instance forgets the flow *)
(* that was not asked for the longest, or refuses when told not to.        *)
(***************************************************************************)
EXTENDS Naturals, Sequences, SequencesExt

CONSTANTS
  Instances,  \* one flow tracker per thread
  Keys,       \* flow keys
  MaxFlows,   \* capacity of an instance
  NoTimeout   \* the instances that refuse instead of forgetting

VARIABLES
  recent,  \* per instance: its flows [key, id], least recently used first
  ids      \* the ids given out so far

Knows(i, k) == \E n \in DOMAIN recent[i] : recent[i][n].key = k

Init ==
  /\ recent = [i \in Instances |-> <<>>]
  /\ ids = {}

\* A known flow moves to the end and keeps its id.
Hit(i, k) ==
  /\ \E n \in DOMAIN recent[i] :
       /\ recent[i][n].key = k
       /\ recent' = [recent EXCEPT ![i] = Append(RemoveAt(@, n), @[n])]
  /\ UNCHANGED ids

\* A new flow gets a new id, and maybe the place of the oldest one.
Miss(i, k) ==
  /\ ~Knows(i, k)
  /\ Len(recent[i]) = MaxFlows => i \notin NoTimeout
  /\ \E id \in ids' \ ids :
       /\ ids' = ids \cup {id}
       /\ recent' = [recent EXCEPT ![i] =
            Append(IF Len(@) = MaxFlows THEN Tail(@) ELSE @,
                   [key |-> k, id |-> id])]

\* The instance is destroyed, and may be created anew.
Forget(i) ==
  /\ recent' = [recent EXCEPT ![i] = <<>>]
  /\ UNCHANGED ids

Next ==
  \E i \in Instances :
    \/ \E k \in Keys : Hit(i, k) \/ Miss(i, k)
    \/ Forget(i)

Spec == Init /\ [][Next]_<<recent, ids>>
=============================================================================
