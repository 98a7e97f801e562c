------------------------------ MODULE PeakTrack ------------------------------
(***************************************************************************)
(* The flow tracker of lib/peak_track.c, on top of the chunk pool of       *)
(* include/peak_prealloc.h and the counters of lib/peak_audit.c.           *)
(*                                                                         *)
(* Every thread has its own tracker, as peak_track(3) recommends; what the *)
(* threads share is next_flow_id, incremented atomically, and the export   *)
(* of the counters.  An acquire touches shared memory once, in its atomic  *)
(* increment, so it is one action.                                         *)
(*                                                                         *)
(* A tracker keeps each flow in a chunk of its pool, in a red-black tree   *)
(* ordered by key and in a queue ordered by use.  Addresses are compared   *)
(* with memcmp(): they are numbers here.                                   *)
(***************************************************************************)
EXTENDS PeakAudit, PeakTrackKey, Sequences, SequencesExt

CONSTANTS
  Packets,    \* packets that may arrive, see PeakTrackKey
  MaxFlows,   \* max_flows of peak_track_init()
  NoTimeout,  \* the threads whose tracker has no_timeout set
  MaxIds      \* bound: the flow ids given out before the model stops adding

ASSUME TrackAssumption ==
  /\ FieldCount >= 3
  /\ \A p \in Packets : p.net_saddr \in Int /\ p.net_daddr \in Int
  /\ MaxFlows \in Nat \ {0}
  /\ NoTimeout \subseteq Threads
  /\ MaxIds \in Nat

VARIABLES
  state,         \* per thread: "up", "down", or "panic"
  free,          \* per thread: the pool's free list, a stack of chunks
  used,          \* per thread: the pool's used
  tos,           \* per thread: the queue of chunks, least recently used first
  flows,         \* per thread: the chunks in the tree
  flow,          \* per thread and chunk: [key, id, li]
  next_flow_id,  \* shared
  gone           \* history: flows released by peak_track_exit()

trackVars == <<state, free, used, tos, flows, flow, next_flow_id, gone>>
vars == <<trackVars, auditVars>>

Chunks == 1 .. MaxFlows

\* The last fields of the audit enumeration.
AUDIT_TRACK_ADDED    == FieldCount - 3
AUDIT_TRACK_RECYCLED == FieldCount - 2
AUDIT_TRACK_FAILED   == FieldCount - 1

Keys == {TRACK_KEY(p) : p \in Packets}
NoKey == [addr |-> <<0, 0>>, port |-> <<0, 0>>, type |-> 0]
NoFlow == [key |-> NoKey, id |-> 0, li |-> 0]

\* li is 0, or the id of the flow it was found for, plus one.
FlowType == [key : Keys, id : 0 .. MaxIds - 1, li : 0 .. MaxIds] \cup {NoFlow}

TrackTypeOK ==
  /\ AuditTypeOK
  /\ state \in [Threads -> {"up", "down", "panic"}]
  /\ free \in [Threads -> Seq(Chunks)]
  /\ used \in [Threads -> 0 .. MaxFlows]
  /\ tos \in [Threads -> Seq(Chunks)]
  /\ flows \in [Threads -> SUBSET Chunks]
  /\ flow \in [Threads -> [Chunks -> FlowType]]
  /\ next_flow_id \in 0 .. MaxIds
  /\ gone \in Nat
-----------------------------------------------------------------------------
\* prealloc_init(): the chunks in the order of their addresses.
NewPool == [n \in Chunks |-> n]

Init ==
  /\ AuditInit
  /\ state = [t \in Threads |-> "up"]
  /\ free = [t \in Threads |-> NewPool]
  /\ used = [t \in Threads |-> 0]
  /\ tos = [t \in Threads |-> <<>>]
  /\ flows = [t \in Threads |-> {}]
  /\ flow = [t \in Threads |-> [c \in Chunks |-> NoFlow]]
  /\ next_flow_id = 0
  /\ gone = 0

\* f with one more in every field of S.
OneMore(f, S) == [i \in Fields |-> IF i \in S THEN Wrap(f[i] + 1) ELSE f[i]]

\* A variant that does not count the flow that made room for another.
IncFirst(t, S) ==
  /\ local' = [local EXCEPT ![t] = OneMore(@, {Min(S)})]
  /\ counted' = OneMore(counted, {Min(S)})
  /\ UNCHANGED <<export, at, merged>>

\* peak_audit_inc() of each field in S, which are all different.
Inc(t, S) ==
  /\ local' = [local EXCEPT ![t] = OneMore(@, S)]
  /\ counted' = OneMore(counted, S)
  /\ UNCHANGED <<export, at, merged>>

\* RB_FIND(): the chunks of the tree with key k, one at most.
Find(t, k) == {c \in flows[t] : flow[t][c].key = k}

\* A variant that forgets to take the flow out of the queue first.
TouchTwice(t, c) == tos' = [tos EXCEPT ![t] = Append(@, c)]

\* The flow becomes the most recently used one.
Touch(t, c) == tos' = [tos EXCEPT ![t] = Append(RemoveFirst(@, c), c)]

\* The key is known.
AcquireHit(t, k) ==
  /\ \E c \in Find(t, k) : Touch(t, c)
  /\ UNCHANGED <<auditVars, state, free, used, flows, flow, next_flow_id, gone>>

\* A variant that ignores no_timeout.
MayForgetAlways(t) == TRUE

\* May the tracker forget flows to make room?
MayForget(t) == t \notin NoTimeout

\* No chunk is left and the tracker must not forget flows: NULL.
AcquireFails(t, k) ==
  /\ Find(t, k) = {}
  /\ free[t] = <<>>
  /\ ~MayForget(t)
  /\ Inc(t, {AUDIT_TRACK_FAILED})
  /\ UNCHANGED trackVars

\* Variants that skip the memset(), or use the id after the increment.
FillKeepingLi(old, k) == [key |-> k, id |-> next_flow_id, li |-> old.li]

\* memset(), memcpy() of the key, and the id, into a chunk that held old.
Fill(old, k) == [key |-> k, id |-> next_flow_id, li |-> 0]

\* A variant in which the increment gets lost.
NextIdLost == UNCHANGED next_flow_id

\* __sync_fetch_and_add(&next_flow_id, 1)
NextId == next_flow_id' = next_flow_id + 1

\* The new flow goes into chunk c, the tree and the end of the queue.
Insert(t, c, k, queue, tree) ==
  /\ flow' = [flow EXCEPT ![t][c] = Fill(@, k)]
  /\ flows' = [flows EXCEPT ![t] = tree \cup {c}]
  /\ tos' = [tos EXCEPT ![t] = Append(queue, c)]
  /\ NextId
  /\ UNCHANGED <<state, gone>>

\* A chunk is left.
AcquireNew(t, k) ==
  /\ Find(t, k) = {}
  /\ free[t] # <<>>
  /\ next_flow_id < MaxIds
  /\ Insert(t, Head(free[t]), k, tos[t], flows[t])
  /\ free' = [free EXCEPT ![t] = Tail(@)]
  /\ used' = [used EXCEPT ![t] = @ + 1]
  /\ Inc(t, {AUDIT_TRACK_ADDED})

\* A variant that recycles the flow used last.
VictimNewest(t) == Last(tos[t])

\* The flow that was not acquired for the longest time.
Victim(t) == Head(tos[t])

\* No chunk is left: the victim's is put back and comes out again at once.
AcquireRecycled(t, k) ==
  /\ Find(t, k) = {}
  /\ free[t] = <<>>
  /\ MayForget(t)
  /\ next_flow_id < MaxIds
  /\ LET v == Victim(t) IN
       Insert(t, v, k, RemoveFirst(tos[t], v), flows[t] \ {v})
  /\ Inc(t, {AUDIT_TRACK_RECYCLED, AUDIT_TRACK_ADDED})
  /\ UNCHANGED <<free, used>>

peak_track_acquire(t, p) ==
  /\ state[t] = "up"
  /\ ~Syncing(t)
  /\ LET k == TRACK_KEY(p) IN
       \/ AcquireHit(t, k)
       \/ AcquireFails(t, k)
       \/ AcquireNew(t, k)
       \/ AcquireRecycled(t, k)

\* peek_packet(): the caller leaves a mark in the flow it has acquired last.
Classify(t) ==
  /\ state[t] = "up"
  /\ ~Syncing(t)
  /\ tos[t] # <<>>
  /\ flow[t][Last(tos[t])].li = 0
  /\ flow' = [flow EXCEPT ![t][Last(tos[t])].li = flow[t][Last(tos[t])].id + 1]
  /\ UNCHANGED <<auditVars, state, free, used, tos, flows, next_flow_id, gone>>

\* peak_track_exit(): empties the tree into the pool, which checks its used.
peak_track_exit(t) ==
  LET left == used[t] - Cardinality(flows[t]) IN
  /\ state[t] = "up"
  /\ ~Syncing(t)
  /\ state' = [state EXCEPT ![t] = IF left = 0 THEN "down" ELSE "panic"]
  /\ used' = [used EXCEPT ![t] = left]
  /\ flows' = [flows EXCEPT ![t] = {}]
  /\ tos' = [tos EXCEPT ![t] = <<>>]
  /\ free' = [free EXCEPT ![t] = <<>>]
  /\ flow' = [flow EXCEPT ![t] = [c \in Chunks |-> NoFlow]]
  /\ gone' = gone + Cardinality(flows[t])
  /\ UNCHANGED <<auditVars, next_flow_id>>

peak_track_init(t) ==
  /\ state[t] = "down"
  /\ state' = [state EXCEPT ![t] = "up"]
  /\ free' = [free EXCEPT ![t] = NewPool]
  /\ UNCHANGED <<auditVars, used, tos, flows, flow, next_flow_id, gone>>

Next ==
  \E t \in Threads :
    \/ \E p \in Packets : peak_track_acquire(t, p)
    \/ Classify(t)
    \/ peak_track_exit(t)
    \/ peak_track_init(t)
    \/ AuditSync(t) /\ UNCHANGED trackVars

Spec == Init /\ [][Next]_vars
-----------------------------------------------------------------------------
(***************************************************************************)
(* Pool, tree and queue agree about every chunk: a chunk is free or it is  *)
(* a flow, in tree and queue once, and peak_track_exit() finds no missing  *)
(* chunk.                                                                  *)
(***************************************************************************)
PoolConsistent ==
  \A t \in Threads :
    /\ state[t] # "panic"
    /\ state[t] = "up" =>
         /\ ToSet(tos[t]) = flows[t] /\ IsInjective(tos[t])
         /\ ToSet(free[t]) = Chunks \ flows[t] /\ IsInjective(free[t])
         /\ used[t] = Cardinality(flows[t])

\* The key of the packets that go the other way.
Swap(k) ==
  [addr |-> <<k.addr[2], k.addr[1]>>, port |-> <<k.port[2], k.port[1]>>,
   type |-> k.type]

(***************************************************************************)
(* A conversation has one flow in a tracker: no key is in the tree twice,  *)
(* which RB_INSERT would panic about, and the two directions of traffic    *)
(* between two hosts never end up in two flows.  Between two ports of one  *)
(* host they do: equal addresses say nothing about the order of the ports. *)
(***************************************************************************)
OneFlowPerConversation ==
  \A t \in Threads : \A c, d \in flows[t] :
    c # d => /\ flow[t][d].key # flow[t][c].key
             /\ flow[t][d].key = Swap(flow[t][c].key) =>
                  flow[t][c].key.addr[1] = flow[t][c].key.addr[2]

\* Flow ids are unique even across trackers that work in parallel.
IdsUnique ==
  \A t, u \in Threads : \A c \in flows[t], d \in flows[u] :
    <<t, c>> # <<u, d>> => flow[t][c].id # flow[u][d].id

(***************************************************************************)
(* The memory of a flow is private: what a caller left in it is never seen *)
(* by the caller of another flow, not even when the chunk is recycled.     *)
(***************************************************************************)
FlowMemoryPrivate ==
  \A t \in Threads : \A c \in flows[t] : flow[t][c].li \in {0, flow[t][c].id + 1}

\* A field's total over the export and the threads that still hold a share.
Total(f) == Wrap(export[f] + SumFunction(Pending(f)))

(***************************************************************************)
(* The statistics add up at any time, in the middle of a sync as well: as  *)
(* many flows were added as ids were given out, and those that were        *)
(* neither recycled nor released are in the trackers.                      *)
(***************************************************************************)
AuditMatchesFlows ==
  /\ Total(AUDIT_TRACK_ADDED) = Wrap(next_flow_id)
  /\ Wrap(Total(AUDIT_TRACK_ADDED) - Total(AUDIT_TRACK_RECYCLED)) =
       Wrap(gone + SumFunction([t \in Threads |-> Cardinality(flows[t])]))

(***************************************************************************)
(* The tracker implements PeakTrackLRU: the queue is the order of use, a   *)
(* known flow keeps its id, and only the flow unused for the longest time  *)
(* is forgotten.                                                           *)
(***************************************************************************)
Recent(t) ==
  [n \in DOMAIN tos[t] |->
     [key |-> flow[t][tos[t][n]].key, id |-> flow[t][tos[t][n]].id]]

LRU == INSTANCE PeakTrackLRU WITH
         Instances <- Threads,
         recent <- [t \in Threads |-> Recent(t)],
         ids <- 0 .. next_flow_id - 1

ImplementsLRU == LRU!Spec

(***************************************************************************)
(* Pool, tree and queue are what they should be and agree about every      *)
(* chunk, through recycling, refusal, exit and a new init.                 *)
(***************************************************************************)
PoolSound == TrackTypeOK /\ PoolConsistent

(***************************************************************************)
(* Flows do not mix: a conversation has one flow, its id is no other's in  *)
(* any thread, and nothing of the chunk's former owner shows.              *)
(***************************************************************************)
FlowsApart == OneFlowPerConversation /\ IdsUnique /\ FlowMemoryPrivate
=============================================================================
