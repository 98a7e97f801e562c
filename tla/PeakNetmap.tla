----------------------------- MODULE PeakNetmap ------------------------------
(***************************************************************************)
(* The netmap wrapper of lib/peak_netmap.c.                                *)
(*                                                                         *)
(* A table of attached devices, each with rings whose slots point at       *)
(* buffers shared with the kernel.  A thread claims one packet at a time,  *)
(* which stays in its slot, and releases it: dropped, forwarded by a flag  *)
(* in the slot, or sent by swapping the buffer with one of a TX ring.      *)
(*                                                                         *)
(* Two threads use it as peak_netmap(3) recommends: one receives and sends *)
(* between peak_netmap_lock() and peak_netmap_unlock(), one attaches and   *)
(* detaches, which both give up when the lock is taken.  The kernel is     *)
(* external: it works on the RX rings of a descriptor in a poll() of it,   *)
(* and on TX rings from the NIOCTXSYNC of a send on, at its own speed.     *)
(*                                                                         *)
(* A slot's buffer is represented by the packet in it.  An identity is     *)
(* free for another packet once the kernel is done with the packet; what   *)
(* is left in the buffer is nothing then, and must not get out.            *)
(*                                                                         *)
(* An adapter has one wire ring and the host ring per direction.  Of a     *)
(* pipe the master is written and the slave is read.  The code does not    *)
(* look at a host ring of the slave, but it sends to the ring behind the   *)
(* last one of a master as to any other: there is a TX host ring, and what *)
(* becomes of the packets in it is up to the kernel.                       *)
(*                                                                         *)
(* The kernel keeps the buffers 0 and 1 for itself, so the panic about a   *)
(* slot with one of them is left out, as time stamps are.                  *)
(***************************************************************************)
EXTENDS Integers, Sequences, FiniteSets, SequencesExt

CONSTANTS
  Nics,       \* names of network adapters
  Pipes,      \* names of netmap pipes
  MaxDev,     \* NETMAP_MAX
  RingSize,   \* ring->num_slots
  Modes,      \* the modes callers pass
  MaxPackets  \* bound: packets in the rings at any time

ASSUME NetmapAssumption ==
  /\ MaxDev \in Nat \ {0} /\ RingSize \in Nat \ {0, 1} /\ MaxPackets \in Nat
  /\ Modes \subseteq {"dflt", "wire", "host"}

Devs == [ifname : Nics, type : {"nic"}]
          \cup [ifname : Pipes, type : {"master", "slave"}]
Names == Nics \cup Pipes

Ring(d, way, side) == [dev |-> d, way |-> way, side |-> side]
RxRings ==
  {Ring(d, "rx", "wire") : d \in {e \in Devs : e.type # "master"}}
    \cup {Ring(d, "rx", "host") : d \in {e \in Devs : e.type = "nic"}}
TxRings ==
  {Ring(d, "tx", side) : d \in {e \in Devs : e.type # "slave"}, side \in {"wire", "host"}}
Rings == RxRings \cup TxRings

Slots == 0 .. RingSize - 1
Packets == 1 .. MaxPackets
Nothing == 0

\* What the caller may decide about a packet.
None == <<"none">>
Dropped == <<"drop">>
Forwarded == <<"forward">>
Sent(r) == <<"sent", r>>

VARIABLES
  locked,     \* is netmap_mutex taken by peak_netmap_lock()?
  dev,        \* self->dev up to self->count
  fd,         \* self->fd: whose descriptor is polled at each position
  last,       \* self->last, the position served last; positions count from 1
  ring,       \* per ring: [slot, fwd, hw, cur, tail]; head is always cur
  priv,       \* netmap_priv: {} or the claimed {[ring, i, at, id]}
  polling,    \* {} or the {[name, mode]} of a peak_netmap_recv() in poll()
  verdict,    \* history per packet: what the caller decided
  wrong,      \* history: has the kernel done anything else to a packet?
  overtaken   \* history per device: turns of others while it had a packet

table == <<dev, fd, last>>
history == <<overtaken, wrong>>
vars == <<locked, table, ring, priv, polling, verdict, history>>

RingType ==
  [slot : [Slots -> Packets \cup {Nothing}], fwd : [Slots -> BOOLEAN],
   hw : Slots, cur : Slots, tail : Slots]

TypeOK ==
  /\ locked \in BOOLEAN
  /\ dev \in Seq(Devs) /\ Len(dev) <= MaxDev
  /\ fd \in Seq(Devs) /\ Len(fd) = Len(dev)
  /\ last \in 1 .. MaxDev
  /\ DOMAIN ring = Rings /\ \A r \in Rings : ring[r] \in RingType
  /\ priv \subseteq [ring : RxRings, i : Slots, at : 1 .. MaxDev, id : Packets]
  /\ Cardinality(priv) <= 1
  /\ polling \subseteq [name : Names \cup {"any"}, mode : Modes]
  /\ verdict \in [Packets -> {None, Dropped, Forwarded} \cup {Sent(r) : r \in TxRings}]
  /\ overtaken \in [Devs -> Nat]
  /\ wrong \in BOOLEAN
-----------------------------------------------------------------------------
\* A freshly registered ring: nothing received, all to send.
FreshRing(r) ==
  [slot |-> [i \in Slots |-> Nothing], fwd |-> [i \in Slots |-> FALSE],
   hw |-> 0, cur |-> 0, tail |-> IF r.way = "rx" THEN 0 ELSE RingSize - 1]

Init ==
  /\ locked = FALSE
  /\ dev = <<>> /\ fd = <<>> /\ last = 1
  /\ ring = [r \in Rings |-> FreshRing(r)]
  /\ priv = {} /\ polling = {}
  /\ verdict = [p \in Packets |-> None]
  /\ overtaken = [d \in Devs |-> 0]
  /\ wrong = FALSE

nm_ring_next(i) == (i + 1) % RingSize
nm_ring_empty(r) == ring[r].cur = ring[r].tail

Attached(d) == \E j \in DOMAIN dev : dev[j] = d

\* Where packet p is: a slot of a ring.
Places(p) == {x \in Rings \X Slots : ring[x[1]].slot[x[2]] = p}

\* Is slot k of ring r released, and the kernel has yet to look at it?
Released(r, k) ==
  (k - ring[r].hw) % RingSize < (ring[r].cur - ring[r].hw) % RingSize

\* peak_netmap_find(): the positions with the name, but for an ignored type.
Find(name, ignore) ==
  {j \in DOMAIN dev :
     dev[j].ifname = name /\ ~(ignore # "nic" /\ dev[j].type = ignore)}
First(S) == CHOOSE j \in S : \A k \in S : j <= k

\* The other end of a pipe may be attached under the same name.
OtherEnd(type) ==
  CASE type = "master" -> "slave" [] type = "slave" -> "master" [] OTHER -> type
-----------------------------------------------------------------------------
\* A variant that does not care about the lock.
MayConfigureAlways == TRUE

\* pthread_mutex_trylock()
MayConfigure == ~locked

\* self->count < lengthof(self->dev)
HasRoom == Len(dev) < MaxDev

(***************************************************************************)
(* _peak_netmap_attach() for adapters, masters and slaves.  Calls that     *)
(* fail (busy, already attached, table full, no device) change nothing.    *)
(***************************************************************************)
peak_netmap_attach(d) ==
  /\ MayConfigure
  /\ Find(d.ifname, OtherEnd(d.type)) = {}
  /\ HasRoom
  /\ dev' = Append(dev, d)
  /\ fd' = Append(fd, d)
  /\ overtaken' = [e \in Devs |-> 0]
  /\ UNCHANGED <<locked, last, ring, priv, polling, verdict, wrong>>

\* A variant that moves the device but forgets its descriptor.
FillHoleDevOnly(j) ==
  /\ dev' = Front([dev EXCEPT ![j] = Last(dev)])
  /\ fd' = Front(fd)

\* The last element of the table replaces the dead one.
FillHole(j) ==
  /\ dev' = Front([dev EXCEPT ![j] = Last(dev)])
  /\ fd' = Front([fd EXCEPT ![j] = Last(fd)])

\* peak_netmap_detach() of the first device with the name.
peak_netmap_detach(name) ==
  /\ MayConfigure
  /\ Find(name, "nic") # {}
  /\ LET j == First(Find(name, "nic")) IN
       /\ FillHole(j)
       /\ ring' = [r \in Rings |->
                     IF r.dev = dev[j] THEN FreshRing(r) ELSE ring[r]]
       /\ verdict' = [p \in Packets |->
                        IF \E x \in Places(p) : x[1].dev = dev[j] THEN None
                        ELSE verdict[p]]
  /\ overtaken' = [d \in Devs |-> 0]
  /\ UNCHANGED <<locked, last, priv, polling, wrong>>

peak_netmap_lock ==
  /\ ~locked
  /\ locked' = TRUE
  /\ UNCHANGED <<table, ring, priv, polling, verdict, history>>

\* The caller releases its packet first; the code relies on that.
peak_netmap_unlock ==
  /\ locked /\ polling = {} /\ priv = {}
  /\ locked' = FALSE
  /\ UNCHANGED <<table, ring, priv, polling, verdict, history>>
-----------------------------------------------------------------------------
\* __peak_netmap_recv(): the RX rings of d a mode looks at, in their order.
RxOrder(d, mode) ==
  LET wire == <<Ring(d, "rx", "wire")>>  host == <<Ring(d, "rx", "host")>> IN
  CASE d.type = "master" -> <<>>
    [] d.type = "slave"  -> wire
    [] d.type = "nic" /\ mode = "dflt" -> host \o wire
    [] d.type = "nic" /\ mode = "host" -> host
    [] d.type = "nic" /\ mode = "wire" -> wire

Ready(d, mode) ==
  {n \in DOMAIN RxOrder(d, mode) : ~nm_ring_empty(RxOrder(d, mode)[n])}

\* ___peak_netmap_recv() of the first ring with a packet, at position j.
Claim(j, mode) ==
  LET r == RxOrder(dev[j], mode)[First(Ready(dev[j], mode))] IN
  priv' = {[ring |-> r, i |-> ring[r].cur, at |-> j,
            id |-> ring[r].slot[ring[r].cur]]}

\* _peak_netmap_recv(): the k-th position tried, after the last one served.
Turn(k) == 1 + (((last - 1) + k) % Len(dev))

\* The first position in that order with a packet.
Turns(mode) == {k \in DOMAIN dev : Ready(dev[Turn(k)], mode) # {}}

\* A variant that forgets whose turn it was.
ServeSame(j) == UNCHANGED last

\* self->last = j
Serve(j) == last' = j

\* History: which devices with a packet are passed over for position j.
Overtake(j, mode) ==
  overtaken' = [d \in Devs |->
    IF Attached(d) /\ d # dev[j] /\ Ready(d, mode) # {}
    THEN overtaken[d] + 1 ELSE 0]

\* May this thread receive at all?  "must release claimed packet first"
MayRecv == locked /\ polling = {} /\ priv = {}

\* peak_netmap_recv() that finds a packet on any device without polling.
recv_any(mode) ==
  /\ MayRecv
  /\ Turns(mode) # {}
  /\ LET j == Turn(First(Turns(mode))) IN
       Claim(j, mode) /\ Serve(j) /\ Overtake(j, mode)
  /\ UNCHANGED <<locked, dev, fd, ring, polling, verdict, wrong>>

\* The same with an interface name; it takes no turn.
recv_from(name, mode) ==
  /\ MayRecv
  /\ Find(name, "master") # {}
  /\ LET j == First(Find(name, "master")) IN
       /\ Ready(dev[j], mode) # {}
       /\ Claim(j, mode)
       /\ overtaken' = [overtaken EXCEPT ![dev[j]] = 0]
  /\ UNCHANGED <<locked, table, ring, polling, verdict, wrong>>

\* The positions of fd that a poll looks at, and the rings behind them.
Polled(name) ==
  IF name = "any" THEN DOMAIN fd
  ELSE {j \in Find(name, "master") : j = First(Find(name, "master"))}
PolledRings(name) == {r \in RxRings : \E j \in Polled(name) : fd[j] = r.dev}

(***************************************************************************)
(* Entering poll(), the kernel takes back the released slots of RX rings.  *)
(* It passes on what is flagged, leaving the flag alone, and forgets the   *)
(* rest; a slot without a flag may hold nothing, after a send.             *)
(***************************************************************************)
nm_rxsync(rings) ==
  LET back == {x \in rings \X Slots : Released(x[1], x[2])}
      Slot(x) == ring[x[1]].slot[x[2]]
      Right(x) == IF ring[x[1]].fwd[x[2]]
                  THEN Slot(x) # Nothing /\ verdict[Slot(x)] = Forwarded
                  ELSE Slot(x) # Nothing => verdict[Slot(x)] = Dropped
  IN
  /\ ring' = [r \in Rings |->
                IF r \in rings
                THEN [ring[r] EXCEPT
                        !.hw = ring[r].cur,
                        !.slot = [k \in Slots |-> IF <<r, k>> \in back THEN Nothing ELSE @[k]]]
                ELSE ring[r]]
  /\ verdict' = [p \in Packets |->
                   IF \E x \in back : Slot(x) = p THEN None ELSE verdict[p]]
  /\ wrong' = (wrong \/ \E x \in back : ~Right(x))

\* It has nothing yet and polls, all the descriptors or the one with the name.
recv_poll(name, mode) ==
  /\ MayRecv
  /\ IF name = "any" THEN Turns(mode) = {}
     ELSE /\ Find(name, "master") # {}
          /\ Ready(dev[First(Find(name, "master"))], mode) = {}
  /\ polling' = {[name |-> name, mode |-> mode]}
  /\ nm_rxsync(PolledRings(name))
  /\ UNCHANGED <<locked, table, priv, overtaken>>

\* POLLIN: a descriptor is readable when any of its RX rings is.
Readable(d) == \E r \in RxRings : r.dev = d /\ ~nm_ring_empty(r)

\* poll() times out.
recv_timeout ==
  /\ polling # {}
  /\ polling' = {}
  /\ UNCHANGED <<locked, table, ring, priv, verdict, history>>

\* poll() returns; the device may turn out to have nothing for the mode.
recv_polled ==
  \E c \in polling :
    LET readable == {j \in Polled(c.name) : Readable(fd[j])}
        j == First(readable)
    IN
    /\ readable # {}
    /\ polling' = {}
    /\ IF Ready(dev[j], c.mode) # {} THEN Claim(j, c.mode) ELSE UNCHANGED priv
    /\ IF c.name = "any"
       THEN Serve(j) /\ Overtake(j, c.mode)
       ELSE UNCHANGED last /\ overtaken' = [overtaken EXCEPT ![dev[j]] = 0]
    /\ UNCHANGED <<locked, dev, fd, ring, verdict, wrong>>

\* source->head = source->cur = nm_ring_next(source, source->cur)
Release(rs) == [rs EXCEPT !.cur = nm_ring_next(@)]

\* History: the packet in the slot of the claim.
Decide(c, v) ==
  verdict' = [verdict EXCEPT ![ring[c.ring].slot[c.i]] = v]

\* peak_netmap_forward(): the kernel shall pass the packet on.
peak_netmap_forward ==
  /\ locked
  /\ \E c \in priv :
       /\ ring' = [ring EXCEPT ![c.ring] = [Release(@) EXCEPT !.fwd[c.i] = TRUE]]
       /\ Decide(c, Forwarded)
  /\ priv' = {}
  /\ UNCHANGED <<locked, table, polling, history>>

\* A variant that leaves the flag of the packet before.
DropFlagged(c) == [ring EXCEPT ![c.ring] = Release(@)]

\* peak_netmap_drop() clears the flag of the slot.
Drop(c) == [ring EXCEPT ![c.ring] = [Release(@) EXCEPT !.fwd[c.i] = FALSE]]

\* peak_netmap_send() without an interface.
peak_netmap_drop ==
  /\ locked
  /\ \E c \in priv : ring' = Drop(c) /\ Decide(c, Dropped)
  /\ priv' = {}
  /\ UNCHANGED <<locked, table, polling, history>>

\* A variant that copies the buffer index and keeps it.
SwapHalf(c, t) ==
  [ring EXCEPT
     ![t] = [Release(@) EXCEPT !.slot[ring[t].cur] = ring[c.ring].slot[c.i]],
     ![c.ring] = [Release(@) EXCEPT !.fwd[c.i] = FALSE]]

\* _peak_netmap_send(): the zero-copy magic.
Swap(c, t) ==
  [ring EXCEPT
     ![t] = [Release(@) EXCEPT !.slot[ring[t].cur] = ring[c.ring].slot[c.i]],
     ![c.ring] = [Release(@) EXCEPT !.slot[c.i] = ring[t].slot[ring[t].cur],
                                    !.fwd[c.i] = FALSE]]

\* peak_netmap_send(); a full ring or an unknown name leave the packet claimed.
peak_netmap_send(name, mode) ==
  /\ locked
  /\ Find(name, "slave") # {}
  /\ \E c \in priv :
       LET d == dev[First(Find(name, "slave"))]
           t == Ring(d, "tx", IF mode = "host" THEN "host" ELSE "wire")
       IN  /\ ~nm_ring_empty(t)
           /\ ring' = Swap(c, t)
           /\ Decide(c, Sent(t))
  /\ priv' = {}
  /\ UNCHANGED <<locked, table, polling, history>>
-----------------------------------------------------------------------------
\* In poll(), the kernel receives a packet into the slot at the tail.
nm_arrive(r) ==
  /\ \E c \in polling : r \in PolledRings(c.name)
  /\ nm_ring_next(ring[r].tail) # ring[r].hw
  /\ \E p \in Packets :
       /\ Places(p) = {} /\ \A q \in 1 .. p - 1 : Places(q) # {}
       /\ ring' = [ring EXCEPT ![r].slot[ring[r].tail] = p,
                               ![r].tail = nm_ring_next(@)]
  /\ UNCHANGED <<locked, table, priv, polling, verdict, history>>

\* The kernel transmits the next slot of a TX ring and gives it back.
nm_txsync(r) ==
  LET k == ring[r].hw  p == ring[r].slot[k] IN
  /\ k # ring[r].cur
  /\ ring' = [ring EXCEPT ![r].hw = nm_ring_next(@), ![r].slot[k] = Nothing,
                          ![r].tail = nm_ring_next(@)]
  /\ verdict' = [q \in Packets |-> IF q = p THEN None ELSE verdict[q]]
  /\ wrong' = (wrong \/ p = Nothing \/ verdict[p] # Sent(r))
  /\ UNCHANGED <<locked, table, priv, polling, overtaken>>

Next ==
  \/ \E d \in Devs : peak_netmap_attach(d)
  \/ \E name \in Names : peak_netmap_detach(name)
  \/ peak_netmap_lock
  \/ peak_netmap_unlock
  \/ \E mode \in Modes : recv_any(mode)
  \/ \E name \in Names, mode \in Modes : recv_from(name, mode)
  \/ \E name \in Names \cup {"any"}, mode \in Modes : recv_poll(name, mode)
  \/ recv_timeout
  \/ recv_polled
  \/ peak_netmap_forward
  \/ peak_netmap_drop
  \/ \E name \in Names, mode \in Modes : peak_netmap_send(name, mode)
  \/ \E r \in RxRings : nm_arrive(r)
  \/ \E r \in TxRings : nm_txsync(r)

Spec == Init /\ [][Next]_vars
-----------------------------------------------------------------------------
(***************************************************************************)
(* No device is in the table twice, and the descriptor polled at a         *)
(* position is that of the device at this position, whatever holes were    *)
(* filled: a readable descriptor is read from the right device.            *)
(***************************************************************************)
TableConsistent == IsInjective(dev) /\ fd = dev

(***************************************************************************)
(* A claimed packet stays what it was until it is released, whatever is    *)
(* attached and detached meanwhile: its ring is mapped, its slot is the    *)
(* next to be released and holds its buffer, and its interface name, a     *)
(* pointer into the table, is that of the device it came from.             *)
(***************************************************************************)
ClaimValid ==
  \A c \in priv :
    /\ c.at \in DOMAIN dev /\ dev[c.at] = c.ring.dev
    /\ c.i = ring[c.ring].cur
    /\ ~nm_ring_empty(c.ring)
    /\ ring[c.ring].slot[c.i] = c.id

(***************************************************************************)
(* Every packet is in one slot, however buffers were swapped, and gets out *)
(* once, as decided: what is dropped never leaves, not even by a flag or a *)
(* buffer left over from another packet, and what is forwarded or sent is  *)
(* on its way until the kernel has done just that.                         *)
(***************************************************************************)
DeliveredOnce ==
  /\ ~wrong
  /\ \A p \in Packets :
       /\ Cardinality(Places(p)) <= 1
       /\ verdict[p] # None => \E x \in Places(p) : Released(x[1], x[2])

\* The caller asks for packets in one mode only.
OneMode == \A m, n \in Modes : m = n

(***************************************************************************)
(* peak_netmap_recv() of any device is fair, with polls, fruitless ones    *)
(* and receptions by name in between as well: while the table stays as it  *)
(* is, fewer turns than there are devices pass over one with a packet.     *)
(* This is for a caller that sticks to one mode: a poll in another one may *)
(* find packets at once, and it serves the first device, not the next.     *)
(***************************************************************************)
NoDeviceOvertaken ==
  OneMode => \A d \in Devs : Attached(d) => overtaken[d] < Len(dev)

(***************************************************************************)
(* Whatever is attached and detached around a receiver, the table and its  *)
(* descriptors agree and a claimed packet stays what it was.               *)
(***************************************************************************)
ClaimSound == TypeOK /\ TableConsistent /\ ClaimValid
=============================================================================
