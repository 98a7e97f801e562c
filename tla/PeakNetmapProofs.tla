-------------------------- MODULE PeakNetmapProofs ---------------------------
(***************************************************************************)
(* The netmap wrapper of lib/peak_netmap.c, for any adapters and pipes,    *)
(* tables and rings of any size and any number of packets.                 *)
(*                                                                         *)
(* The slots of a ring are looked at by their distance from the slot the   *)
(* kernel comes to next: first those the caller has released, then those   *)
(* it owns, then the kernel's.  What a slot of each part holds is an       *)
(* invariant of every ring; that no packet is in two slots lets a decision *)
(* about one of them leave all the others as they were.                    *)
(***************************************************************************)
EXTENDS PeakNetmap, FiniteSetTheorems, SequenceTheorems, PeakArithmetic

\* The distance of slot k from the slot the kernel comes to next.
At(rs, k) == (k - rs.hw) % RingSize

\* The caller is between the kernel's hardware pointer and its tail.
RingOK(rs) == At(rs, rs.cur) <= At(rs, rs.tail)

\* What a slot of an RX ring holds: decided, received, or nothing.
RxSlotOK(rs, V, k) ==
  /\ At(rs, k) < At(rs, rs.cur) =>
       IF rs.fwd[k] THEN rs.slot[k] # Nothing /\ V[rs.slot[k]] = Forwarded
       ELSE rs.slot[k] # Nothing => V[rs.slot[k]] = Dropped
  /\ At(rs, rs.cur) <= At(rs, k) /\ At(rs, k) < At(rs, rs.tail) =>
       rs.slot[k] # Nothing /\ V[rs.slot[k]] = None
  /\ At(rs, rs.tail) <= At(rs, k) => rs.slot[k] = Nothing

\* What a slot of a TX ring holds: a packet to be sent there, or nothing.
TxSlotOK(rs, V, r, k) ==
  /\ At(rs, k) < At(rs, rs.cur) => rs.slot[k] # Nothing /\ V[rs.slot[k]] = Sent(r)
  /\ At(rs, rs.cur) <= At(rs, k) => rs.slot[k] = Nothing

\* All but one slot of a TX ring are the caller's or wait for the kernel.
TxFull(rs) == At(rs, rs.tail) = RingSize - 1

RingsInv ==
  /\ \A r \in Rings : RingOK(ring[r])
  /\ \A r \in RxRings : \A k \in Slots : RxSlotOK(ring[r], verdict, k)
  /\ \A r \in TxRings : TxFull(ring[r]) /\ \A k \in Slots : TxSlotOK(ring[r], verdict, r, k)

\* No packet is in two slots.
Unique ==
  \A r, s \in Rings : \A k, l \in Slots :
    ring[r].slot[k] = ring[s].slot[l] /\ ring[r].slot[k] # Nothing => r = s /\ k = l

\* A packet that is decided about is on its way.
OnItsWay ==
  \A p \in Packets : verdict[p] # None =>
    \E r \in Rings, k \in Slots : ring[r].slot[k] = p /\ At(ring[r], k) < At(ring[r], ring[r].cur)

\* The threads: a packet is claimed and a poll runs under the lock only.
LockInv ==
  /\ priv # {} => locked /\ polling = {}
  /\ polling # {} => locked

NetInv ==
  /\ TypeOK
  /\ TableConsistent
  /\ ClaimValid
  /\ LockInv
  /\ RingsInv
  /\ Unique
  /\ OnItsWay
  /\ ~wrong

\* How many turns there are until position j is tried, from 1 on.
Rank(j) == ((j - last - 1) % Len(dev)) + 1

\* No device is passed over more often than turns have gone by since it came
\* to be the last in line.
BehindTurns == \A j \in DOMAIN dev : overtaken[dev[j]] + Rank(j) <= Len(dev)

\* Does a device have a packet for a mode, with its rings as in rg?
ReadyIn(rg, d, m) ==
  \E n \in DOMAIN RxOrder(d, m) : rg[RxOrder(d, m)[n]].cur # rg[RxOrder(d, m)[n]].tail

\* A device that is passed over has a packet.
PassedReady ==
  \A j \in DOMAIN dev, m \in Modes : overtaken[dev[j]] > 0 => ReadyIn(ring, dev[j], m)

\* One that has been served, or a poll that found nothing, starts anew.
ClaimedServed == \A c \in priv : overtaken[c.ring.dev] = 0
PolledFresh ==
  \A c \in polling : c.name = "any" => \A j \in DOMAIN dev : overtaken[dev[j]] = 0

FairInv == OneMode => BehindTurns /\ PassedReady /\ ClaimedServed /\ PolledFresh
-----------------------------------------------------------------------------
\* There are two slots or more.
LEMMA RingSizeFacts == RingSize \in Nat \ {0} /\ RingSize >= 2 /\ RingSize \in Int
BY NetmapAssumption

\* The remainder that a distance is.
LEMMA DistanceValue ==
  ASSUME NEW h \in Slots, NEW k \in Slots
  PROVE  /\ (k - h) % RingSize = IF h <= k THEN k - h ELSE (k - h) + RingSize
         /\ (k - h) % RingSize \in Slots
<1>1. RingSize \in Nat \ {0} /\ h \in Int /\ k \in Int /\ 0 <= h /\ h < RingSize
      /\ 0 <= k /\ k < RingSize
  BY RingSizeFacts DEF Slots
<1>2. CASE h <= k
  <2>1. k - h \in Int /\ 0 <= k - h /\ k - h < RingSize
    BY <1>1, <1>2
  <2>2. (k - h) % RingSize = k - h
    BY <1>1, <2>1, ModSmall
  <2> QED BY <1>1, <1>2, <2>1, <2>2 DEF Slots
<1>3. CASE ~(h <= k)
  <2> DEFINE a == (k - h) + RingSize
  <2>1. a \in Int /\ 0 <= a /\ a < RingSize /\ k - h \in Int
    BY <1>1, <1>3
  <2>2. a % RingSize = a
    BY <1>1, <2>1, ModSmall
  <2>3. ((k - h) + RingSize * 1) % RingSize = (k - h) % RingSize
    <3> DEFINE b == k - h
    <3>1. b \in Int
      BY <2>1
    <3> HIDE DEF b
    <3>2. \A e \in Int : (b + RingSize * e) % RingSize = b % RingSize
      BY <1>1, <3>1, ModMultiple
    <3>3. 1 \in Int
      OBVIOUS
    <3> QED BY <3>2, <3>3, Zenon DEF b
  <2>4. (k - h) + RingSize * 1 = a
    BY <1>1
  <2>5. (k - h) % RingSize = a
    BY <2>2, <2>3, <2>4
  <2> QED BY <1>1, <1>3, <2>1, <2>5 DEF Slots
<1> QED BY <1>2, <1>3

\* The slot behind a slot.
LEMMA NextValue ==
  ASSUME NEW i \in Slots
  PROVE  /\ nm_ring_next(i) = IF i = RingSize - 1 THEN 0 ELSE i + 1
         /\ nm_ring_next(i) \in Slots
<1>1. RingSize \in Nat \ {0} /\ RingSize >= 2 /\ i \in Int /\ 0 <= i /\ i < RingSize
  BY RingSizeFacts DEF Slots
<1>2. CASE i = RingSize - 1
  <2>1. (RingSize * 1 + 0) % RingSize = 0
    BY <1>1, DivModUnique
  <2>2. i + 1 = RingSize * 1 + 0
    BY <1>1, <1>2
  <2> QED BY <1>1, <1>2, <2>1, <2>2 DEF Slots, nm_ring_next
<1>3. CASE i # RingSize - 1
  <2>1. i + 1 \in Int /\ 0 <= i + 1 /\ i + 1 < RingSize
    BY <1>1, <1>3
  <2>2. (i + 1) % RingSize = i + 1
    BY <1>1, <2>1, ModSmall
  <2> QED BY <1>1, <1>3, <2>1, <2>2 DEF Slots, nm_ring_next
<1> QED BY <1>2, <1>3

\* The parts of a ring.
LEMMA RingParts ==
  ASSUME NEW rs \in RingType
  PROVE  /\ rs.hw \in Slots /\ rs.cur \in Slots /\ rs.tail \in Slots
         /\ rs.slot \in [Slots -> Packets \cup {Nothing}]
         /\ rs.fwd \in [Slots -> BOOLEAN]
         /\ \A k \in Slots : /\ At(rs, k) = IF rs.hw <= k THEN k - rs.hw
                                            ELSE (k - rs.hw) + RingSize
                             /\ At(rs, k) \in Slots
                             /\ rs.slot[k] \in Packets \cup {Nothing}
BY DistanceValue DEF RingType, At

\* Slots are numbers below RingSize.
LEMMA SlotValue ==
  ASSUME NEW k \in Slots
  PROVE  k \in Int /\ 0 <= k /\ k < RingSize
BY RingSizeFacts DEF Slots

\* A slot at the caller's position is released: the caller moves on by one.
LEMMA Advance ==
  ASSUME NEW rs \in RingType, NEW q \in RingType, RingOK(rs), rs.cur # rs.tail,
         q.hw = rs.hw, q.tail = rs.tail, q.cur = nm_ring_next(rs.cur)
  PROVE  /\ RingOK(q)
         /\ At(rs, rs.cur) < At(rs, rs.tail)
         /\ At(q, q.cur) = At(rs, rs.cur) + 1
         /\ At(q, q.tail) = At(rs, rs.tail)
         /\ \A k \in Slots : At(q, k) = At(rs, k) /\ (At(rs, k) = At(rs, rs.cur) <=> k = rs.cur)
<1>1. RingSize \in Int /\ RingSize >= 2
  BY RingSizeFacts
<1> DEFINE h == rs.hw
           c == rs.cur
           t == rs.tail
           n == nm_ring_next(rs.cur)
           D(k) == IF h <= k THEN k - h ELSE (k - h) + RingSize
<1>2. h \in Slots /\ c \in Slots /\ t \in Slots /\ n \in Slots
  BY RingParts, NextValue
<1>3. n = IF c = RingSize - 1 THEN 0 ELSE c + 1
  BY <1>2, NextValue
<1>4. \A k \in Slots : At(rs, k) = D(k) /\ At(q, k) = D(k)
  <2>1. \A k \in Slots : At(rs, k) = D(k)
    BY RingParts
  <2> QED BY <2>1 DEF At
<1>5. \A k \in Slots : k \in Int /\ 0 <= k /\ k < RingSize
  BY SlotValue
<1>6. D(c) <= D(t) /\ c # t
  BY <1>2, <1>4 DEF RingOK
<1> HIDE DEF h, c, t, n
<1>7. D(c) < D(t) /\ D(n) = D(c) + 1
  BY <1>1, <1>2, <1>3, <1>5, <1>6
<1>8. \A k \in Slots : D(k) = D(c) <=> k = c
  BY <1>1, <1>2, <1>5
<1>9. D(n) <= D(t)
  BY <1>1, <1>2, <1>5, <1>7
<1> HIDE DEF D
<1>10. At(rs, c) = D(c) /\ At(rs, t) = D(t) /\ At(q, n) = D(n) /\ At(q, t) = D(t)
  BY <1>2, <1>4
<1>11. q.cur = n /\ q.tail = t /\ rs.cur = c /\ rs.tail = t
  BY DEF n, t, c
<1> QED BY <1>4, <1>7, <1>8, <1>9, <1>10, <1>11 DEF RingOK

\* The kernel receives into the slot at the tail, which moves on by one.
LEMMA Receive ==
  ASSUME NEW rs \in RingType, NEW q \in RingType, RingOK(rs),
         nm_ring_next(rs.tail) # rs.hw,
         q.hw = rs.hw, q.cur = rs.cur, q.tail = nm_ring_next(rs.tail)
  PROVE  /\ RingOK(q)
         /\ At(q, q.cur) = At(rs, rs.cur)
         /\ At(q, q.tail) = At(rs, rs.tail) + 1
         /\ \A k \in Slots : At(q, k) = At(rs, k) /\ (At(rs, k) = At(rs, rs.tail) <=> k = rs.tail)
<1>1. RingSize \in Int /\ RingSize >= 2
  BY RingSizeFacts
<1> DEFINE h == rs.hw
           c == rs.cur
           t == rs.tail
           n == nm_ring_next(rs.tail)
           D(k) == IF h <= k THEN k - h ELSE (k - h) + RingSize
<1>2. h \in Slots /\ c \in Slots /\ t \in Slots /\ n \in Slots
  BY RingParts, NextValue
<1>3. (n = IF t = RingSize - 1 THEN 0 ELSE t + 1) /\ n # h
  BY <1>2, NextValue
<1>4. \A k \in Slots : At(rs, k) = D(k) /\ At(q, k) = D(k)
  <2>1. \A k \in Slots : At(rs, k) = D(k)
    BY RingParts
  <2> QED BY <2>1 DEF At
<1>5. \A k \in Slots : k \in Int /\ 0 <= k /\ k < RingSize
  BY SlotValue
<1>6. D(c) <= D(t)
  BY <1>2, <1>4 DEF RingOK
<1> HIDE DEF h, c, t, n
<1>7. D(n) = D(t) + 1
  BY <1>1, <1>2, <1>3, <1>5
<1>8. \A k \in Slots : D(k) = D(t) <=> k = t
  BY <1>1, <1>2, <1>5
<1>9. D(c) <= D(n)
  BY <1>1, <1>2, <1>5, <1>6, <1>7
<1> HIDE DEF D
<1>10. At(rs, c) = D(c) /\ At(rs, t) = D(t) /\ At(q, n) = D(n) /\ At(q, c) = D(c)
  BY <1>2, <1>4
<1>11. q.cur = c /\ q.tail = n /\ rs.cur = c /\ rs.tail = t
  BY DEF n, t, c
<1> QED BY <1>4, <1>7, <1>8, <1>9, <1>10, <1>11 DEF RingOK

\* The kernel takes back all the released slots: its pointer catches up.
LEMMA TakeBack ==
  ASSUME NEW rs \in RingType, NEW q \in RingType, RingOK(rs),
         q.hw = rs.cur, q.cur = rs.cur, q.tail = rs.tail
  PROVE  /\ RingOK(q)
         /\ At(q, q.cur) = 0
         /\ \A k \in Slots :
              /\ At(q, q.tail) <= At(q, k)
                   <=> At(rs, k) < At(rs, rs.cur) \/ At(rs, rs.tail) <= At(rs, k)
              /\ At(rs, k) < At(rs, rs.cur) => ~(At(rs, rs.tail) <= At(rs, k))
              /\ At(q, k) >= 0
<1>1. RingSize \in Int /\ RingSize >= 2
  BY RingSizeFacts
<1> DEFINE h == rs.hw
           c == rs.cur
           t == rs.tail
           D(k) == IF h <= k THEN k - h ELSE (k - h) + RingSize
           E(k) == IF c <= k THEN k - c ELSE (k - c) + RingSize
<1>2. h \in Slots /\ c \in Slots /\ t \in Slots
  BY RingParts
<1>4. \A k \in Slots : At(rs, k) = D(k) /\ At(q, k) = E(k)
  BY RingParts
<1>5. \A k \in Slots : k \in Int /\ 0 <= k /\ k < RingSize
  BY SlotValue
<1>6. D(c) <= D(t)
  BY <1>2, <1>4 DEF RingOK
<1>10. At(rs, rs.cur) = D(c) /\ At(rs, rs.tail) = D(t)
       /\ At(q, q.cur) = E(c) /\ At(q, q.tail) = E(t)
  BY <1>2, <1>4
<1> HIDE DEF h, c, t
<1>7. E(c) = 0 /\ E(c) <= E(t)
  BY <1>1, <1>2, <1>5
<1>8. \A k \in Slots : /\ E(t) <= E(k) <=> D(k) < D(c) \/ D(t) <= D(k)
                       /\ D(k) < D(c) => ~(D(t) <= D(k))
                       /\ E(k) >= 0
  BY <1>1, <1>2, <1>5, <1>6
<1> HIDE DEF D, E
<1> QED BY <1>4, <1>7, <1>8, <1>10 DEF RingOK

\* The kernel sends one slot and gives it back at the tail.
LEMMA Transmit ==
  ASSUME NEW rs \in RingType, NEW q \in RingType, RingOK(rs), TxFull(rs),
         rs.hw # rs.cur,
         q.hw = nm_ring_next(rs.hw), q.cur = rs.cur, q.tail = nm_ring_next(rs.tail)
  PROVE  /\ RingOK(q) /\ TxFull(q)
         /\ At(rs, rs.hw) = 0 /\ 0 < At(rs, rs.cur)
         /\ At(q, q.cur) = At(rs, rs.cur) - 1
         /\ At(q, rs.hw) = RingSize - 1
         /\ \A k \in Slots : k # rs.hw => At(q, k) = At(rs, k) - 1
         /\ At(q, q.cur) <= RingSize - 1
<1>1. RingSize \in Int /\ RingSize >= 2
  BY RingSizeFacts
<1> DEFINE h == rs.hw
           c == rs.cur
           t == rs.tail
           g == nm_ring_next(rs.hw)
           n == nm_ring_next(rs.tail)
           D(k) == IF h <= k THEN k - h ELSE (k - h) + RingSize
           E(k) == IF g <= k THEN k - g ELSE (k - g) + RingSize
<1>2. h \in Slots /\ c \in Slots /\ t \in Slots /\ n \in Slots /\ g \in Slots
  BY RingParts, NextValue
<1>3. /\ n = IF t = RingSize - 1 THEN 0 ELSE t + 1
      /\ g = IF h = RingSize - 1 THEN 0 ELSE h + 1
      /\ h # c
  BY <1>2, NextValue
<1>4. \A k \in Slots : At(rs, k) = D(k) /\ At(q, k) = E(k)
  BY RingParts
<1>5. \A k \in Slots : k \in Int /\ 0 <= k /\ k < RingSize
  BY SlotValue
<1>6. D(c) <= D(t) /\ D(t) = RingSize - 1
  BY <1>2, <1>4 DEF RingOK, TxFull
<1>10. /\ At(rs, rs.cur) = D(c) /\ At(rs, rs.tail) = D(t) /\ At(rs, rs.hw) = D(h)
       /\ At(q, q.cur) = E(c) /\ At(q, q.tail) = E(n) /\ At(q, rs.hw) = E(h)
  BY <1>2, <1>4
<1>11. rs.hw = h
  OBVIOUS
<1> HIDE DEF h, c, t, n, g
<1>7. D(h) = 0 /\ 0 < D(c) /\ E(c) = D(c) - 1 /\ E(h) = RingSize - 1
  BY <1>1, <1>2, <1>3, <1>5
<1>8. \A k \in Slots : k # h => E(k) = D(k) - 1
  BY <1>1, <1>2, <1>3, <1>5
<1>9. E(n) = RingSize - 1 /\ E(c) <= E(n) /\ E(c) <= RingSize - 1
  BY <1>1, <1>2, <1>3, <1>5, <1>6
<1> HIDE DEF D, E
<1> QED BY <1>4, <1>7, <1>8, <1>9, <1>10, <1>11 DEF RingOK, TxFull
-----------------------------------------------------------------------------
\* The type invariant by the parts that the actions change together.
TableType ==
  /\ locked \in BOOLEAN
  /\ dev \in Seq(Devs) /\ Len(dev) <= MaxDev
  /\ last \in 1 .. MaxDev
RingsType == DOMAIN ring = Rings /\ \A r \in Rings : ring[r] \in RingType
PrivType ==
  /\ priv \subseteq [ring : RxRings, i : Slots, at : 1 .. MaxDev, id : Packets]
  /\ Cardinality(priv) <= 1
PollingType == polling \subseteq [name : Names \cup {"any"}, mode : Modes]
VerdictType == verdict \in [Packets -> {None, Dropped, Forwarded} \cup {Sent(r) : r \in TxRings}]
OvertakenType == overtaken \in [Devs -> Nat]

TypeParts ==
  /\ TableType /\ RingsType /\ PrivType /\ PollingType /\ VerdictType /\ OvertakenType
  /\ wrong \in BOOLEAN

\* What is said about packets and rings.
PacketInv == RingsInv /\ Unique /\ OnItsWay /\ ~wrong

\* The type invariant is that of its parts.
LEMMA TypeSplit ==
  /\ TableConsistent => (TypeOK <=> TypeParts)
  /\ NetInv <=> TypeParts /\ TableConsistent /\ ClaimValid /\ LockInv /\ PacketInv
<1>1. TableConsistent => (TypeOK <=> TypeParts)
  BY DEF TypeOK, TypeParts, TableType, RingsType, PrivType, PollingType, VerdictType,
         OvertakenType, TableConsistent
<1> QED BY <1>1 DEF NetInv, PacketInv

\* The same in the next state.
LEMMA TypeSplitPrime ==
  TypeParts' /\ TableConsistent' /\ ClaimValid' /\ LockInv' /\ PacketInv' => NetInv'
<1>1. TableConsistent' => (TypeOK' <=> TypeParts')
  BY DEF TypeOK, TypeParts, TableType, RingsType, PrivType, PollingType, VerdictType,
         OvertakenType, TableConsistent
<1> QED BY <1>1 DEF NetInv, PacketInv

\* Steps that leave the packets where they are.
LEMMA PacketsStay ==
  ASSUME PacketInv, UNCHANGED <<ring, verdict, wrong>>
  PROVE  PacketInv'
BY DEF PacketInv, RingsInv, Unique, OnItsWay, RingOK, RxSlotOK, TxSlotOK, TxFull, At

\* First() is the smallest of the positions.
LEMMA FirstOf ==
  ASSUME NEW S, S \subseteq Nat, S # {}
  PROVE  First(S) \in S /\ \A k \in S : First(S) <= k
<1>1. First(S) = Min(S)
  BY DEF First, Min
<1> QED BY <1>1, MinNat

\* The RX rings looked at are rings of the device.
LEMMA RxOrderRings ==
  ASSUME NEW d \in Devs, NEW mode \in Modes
  PROVE  /\ DOMAIN RxOrder(d, mode) \subseteq Nat
         /\ \A n \in DOMAIN RxOrder(d, mode) :
              RxOrder(d, mode)[n] \in RxRings /\ RxOrder(d, mode)[n].dev = d
<1>1. mode \in {"dflt", "wire", "host"}
  BY NetmapAssumption
<1>2. d.type \in {"nic", "master", "slave"}
  BY DEF Devs
<1> DEFINE w == Ring(d, "rx", "wire")
           h == Ring(d, "rx", "host")
<1>3. w.dev = d /\ h.dev = d
  BY DEF Ring
<1>4. CASE d.type = "master"
  <2>1. RxOrder(d, mode) = <<>>
    BY <1>4 DEF RxOrder
  <2> QED BY <2>1
<1>5. CASE d.type = "slave"
  <2>1. RxOrder(d, mode) = <<w>>
    BY <1>5 DEF RxOrder
  <2>2. w \in RxRings
    BY <1>5 DEF RxRings
  <2> HIDE DEF w
  <2> QED BY <1>3, <2>1, <2>2
<1>6. CASE d.type = "nic"
  <2>1. RxOrder(d, mode) \in {<<h>> \o <<w>>, <<h>>, <<w>>}
    BY <1>1, <1>6 DEF RxOrder
  <2>2. w \in RxRings /\ h \in RxRings
    BY <1>6 DEF RxRings
  <2> HIDE DEF w, h
  <2> QED BY <1>3, <2>1, <2>2
<1> QED BY <1>2, <1>4, <1>5, <1>6

\* A claim is of a packet that the ring holds at the caller's position.
LEMMA ClaimStep ==
  ASSUME NetInv, NEW j \in DOMAIN dev, NEW mode \in Modes,
         Ready(dev[j], mode) # {}, Claim(j, mode), UNCHANGED <<ring, dev>>
  PROVE  PrivType' /\ ClaimValid'
<1>1. TableType /\ RingsType /\ RingsInv
  BY TypeSplit DEF TypeParts, PacketInv
<1>2. dev[j] \in Devs /\ j \in 1 .. MaxDev
  BY <1>1, NetmapAssumption DEF TableType
<1> DEFINE n == First(Ready(dev[j], mode))
           r == RxOrder(dev[j], mode)[n]
           c == [ring |-> r, i |-> ring[r].cur, at |-> j, id |-> ring[r].slot[ring[r].cur]]
<1>3. Ready(dev[j], mode) \subseteq Nat
  BY <1>2, RxOrderRings DEF Ready
<1>4. n \in Ready(dev[j], mode)
  BY <1>3, FirstOf
<1>5. n \in DOMAIN RxOrder(dev[j], mode) /\ ~nm_ring_empty(r)
  BY <1>4 DEF Ready
<1>6. r \in RxRings /\ r.dev = dev[j]
  BY <1>2, <1>5, RxOrderRings
<1>7. priv' = {c}
  BY DEF Claim
<1> HIDE DEF n, r
<1>8. r \in Rings /\ ring[r] \in RingType
  BY <1>1, <1>6 DEF Rings, RingsType
<1> DEFINE rs == ring[r]
<1>9. rs.cur # rs.tail /\ RingOK(rs) /\ RxSlotOK(rs, verdict, rs.cur) /\ rs.cur \in Slots
      /\ rs.slot[rs.cur] \in Packets \cup {Nothing}
  BY <1>1, <1>5, <1>6, <1>8, RingParts DEF RingsInv, nm_ring_empty
<1>10. At(rs, rs.cur) < At(rs, rs.tail)
  <2>1. rs \in RingType
    BY <1>8
  <2> HIDE DEF rs
  <2>2. rs.hw \in Slots /\ rs.cur \in Slots /\ rs.tail \in Slots
    BY <2>1, RingParts
  <2>3. \A k \in Slots : At(rs, k) = IF rs.hw <= k THEN k - rs.hw ELSE (k - rs.hw) + RingSize
    BY <2>1, RingParts
  <2>4. \A k \in Slots : k \in Int /\ 0 <= k /\ k < RingSize
    BY SlotValue
  <2> QED BY <1>9, <2>2, <2>3, <2>4, RingSizeFacts DEF RingOK
<1>11. At(rs, rs.cur) <= At(rs, rs.cur)
  <2>1. At(rs, rs.cur) \in Slots
    BY <1>8, <1>9, RingParts
  <2> QED BY <2>1, SlotValue
<1>12. rs.slot[rs.cur] \in Packets
  BY <1>9, <1>10, <1>11 DEF RxSlotOK
<1>13. c \in [ring : RxRings, i : Slots, at : 1 .. MaxDev, id : Packets]
  BY <1>2, <1>6, <1>9, <1>12
<1>14. PrivType'
  <2>1. Cardinality(priv') = 1
    BY <1>7, FS_Singleton
  <2> HIDE DEF c
  <2> QED BY <1>7, <1>13, <2>1 DEF PrivType
<1>15. c.at = j /\ c.ring = r /\ c.i = ring[r].cur /\ c.id = ring[r].slot[ring[r].cur]
  OBVIOUS
<1>16. ClaimValid'
  <2> HIDE DEF c
  <2> QED BY <1>5, <1>6, <1>7, <1>15 DEF ClaimValid, nm_ring_empty
<1> QED BY <1>14, <1>16

\* With the table and the rings, a claim stays what it was.
LEMMA ClaimStays ==
  ASSUME ClaimValid, UNCHANGED <<ring, dev, priv>>
  PROVE  ClaimValid'
BY DEF ClaimValid, nm_ring_empty

\* Nothing claimed, nothing to go wrong.
LEMMA NoClaim ==
  ASSUME priv' = {}
  PROVE  PrivType' /\ ClaimValid'
<1>1. Cardinality(priv') = 0
  BY FS_EmptySet
<1> QED BY <1>1 DEF PrivType, ClaimValid

\* Attaching adds a device that is not in the table yet.
LEMMA AttachStep ==
  ASSUME NetInv, NEW d \in Devs, peak_netmap_attach(d)
  PROVE  NetInv'
<1>1. TypeParts /\ TableConsistent /\ ClaimValid /\ LockInv /\ PacketInv
  BY TypeSplit
<1>2. ~locked /\ Find(d.ifname, OtherEnd(d.type)) = {} /\ Len(dev) < MaxDev
      /\ dev' = Append(dev, d) /\ fd' = Append(fd, d)
      /\ overtaken' = [e \in Devs |-> 0]
      /\ UNCHANGED <<locked, last, ring, priv, polling, verdict, wrong>>
  BY DEF peak_netmap_attach, MayConfigure, HasRoom
<1>3. priv = {} /\ priv' = {} /\ polling = {}
  BY <1>1, <1>2 DEF LockInv
<1>4. dev \in Seq(Devs) /\ Len(dev) \in Nat /\ MaxDev \in Nat
  BY <1>1, NetmapAssumption DEF TypeParts, TableType
<1>5. dev' \in Seq(Devs) /\ Len(dev') = Len(dev) + 1
      /\ (\A j \in 1 .. Len(dev) : dev'[j] = dev[j]) /\ dev'[Len(dev) + 1] = d
  BY <1>2, <1>4, AppendProperties
<1>6. d.type \in {"nic", "master", "slave"}
  BY DEF Devs
<1>7. \A j \in 1 .. Len(dev) : dev[j] # d
  <2> SUFFICES ASSUME NEW j \in 1 .. Len(dev), dev[j] = d PROVE FALSE
    OBVIOUS
  <2>1. j \in DOMAIN dev
    BY <1>4
  <2>2. j \notin Find(d.ifname, OtherEnd(d.type))
    BY <1>2
  <2>3. ~(OtherEnd(d.type) # "nic" /\ d.type = OtherEnd(d.type))
    BY <1>6 DEF OtherEnd
  <2> QED BY <2>1, <2>2, <2>3 DEF Find
<1>8. TableConsistent'
  <2>1. fd' = dev'
    BY <1>1, <1>2 DEF TableConsistent
  <2>2. \A a, b \in 1 .. Len(dev) : dev[a] = dev[b] => a = b
    BY <1>1, <1>4 DEF TableConsistent, IsInjective
  <2>3. DOMAIN dev' = 1 .. Len(dev) + 1
    BY <1>4, <1>5
  <2>4. IsInjective(dev')
    <3> SUFFICES ASSUME NEW a \in 1 .. Len(dev) + 1, NEW b \in 1 .. Len(dev) + 1,
                        dev'[a] = dev'[b]
                 PROVE  a = b
      BY <2>3 DEF IsInjective
    <3>1. a \in 1 .. Len(dev) \/ a = Len(dev) + 1
      BY <1>4
    <3>2. b \in 1 .. Len(dev) \/ b = Len(dev) + 1
      BY <1>4
    <3> QED BY <1>5, <1>7, <2>2, <3>1, <3>2
  <2> QED BY <2>1, <2>4 DEF TableConsistent
<1>9. TableType' /\ RingsType' /\ PollingType' /\ VerdictType' /\ OvertakenType' /\ wrong' \in BOOLEAN
  BY <1>1, <1>2, <1>4, <1>5
     DEF TypeParts, TableType, RingsType, PollingType, VerdictType, OvertakenType
<1>10. PrivType' /\ ClaimValid'
  BY <1>3, NoClaim
<1>11. LockInv'
  BY <1>1, <1>2 DEF LockInv
<1>12. PacketInv'
  BY <1>1, <1>2, PacketsStay
<1>13. TypeParts'
  BY <1>9, <1>10 DEF TypeParts
<1> QED BY <1>8, <1>10, <1>11, <1>12, <1>13, TypeSplitPrime

\* The lock.
LEMMA LockStep ==
  ASSUME NetInv, peak_netmap_lock \/ peak_netmap_unlock \/ recv_timeout
  PROVE  NetInv'
<1>1. TypeParts /\ TableConsistent /\ ClaimValid /\ LockInv /\ PacketInv
  BY TypeSplit
<1>2. UNCHANGED <<dev, fd, last, ring, priv, verdict, overtaken, wrong>>
      /\ locked' \in BOOLEAN /\ (polling' = polling \/ polling' = {})
  BY <1>1 DEF peak_netmap_lock, peak_netmap_unlock, recv_timeout, table, history,
              TypeParts, TableType
<1>3. TypeParts'
  BY <1>1, <1>2 DEF TypeParts, TableType, RingsType, PrivType, PollingType, VerdictType,
                    OvertakenType
<1>4. TableConsistent'
  BY <1>1, <1>2 DEF TableConsistent, IsInjective
<1>5. ClaimValid'
  BY <1>1, <1>2, ClaimStays
<1>6. LockInv'
  BY <1>1 DEF LockInv, peak_netmap_lock, peak_netmap_unlock, recv_timeout
<1>7. PacketInv'
  BY <1>1, <1>2, PacketsStay
<1> QED BY <1>3, <1>4, <1>5, <1>6, <1>7, TypeSplitPrime

\* What a reception does to the table and to the history of turns.
LEMMA ServeStep ==
  ASSUME NetInv, locked, priv = {}, NEW j \in DOMAIN dev, NEW mode \in Modes,
         IF Ready(dev[j], mode) # {} THEN Claim(j, mode) ELSE UNCHANGED priv,
         \/ Serve(j) /\ Overtake(j, mode)
         \/ UNCHANGED last /\ overtaken' = [overtaken EXCEPT ![dev[j]] = 0],
         polling' = {}, UNCHANGED <<locked, dev, fd, ring, verdict, wrong>>
  PROVE  NetInv'
<1>1. TypeParts /\ TableConsistent /\ ClaimValid /\ LockInv /\ PacketInv
  BY TypeSplit
<1>2. j \in 1 .. MaxDev /\ dev[j] \in Devs
  BY <1>1, NetmapAssumption DEF TypeParts, TableType
<1>3. TableType'
  BY <1>1, <1>2 DEF TypeParts, TableType, Serve
<1>4. OvertakenType'
  <2>1. CASE Overtake(j, mode)
    BY <1>1, <2>1 DEF TypeParts, OvertakenType, Overtake
  <2>2. CASE overtaken' = [overtaken EXCEPT ![dev[j]] = 0]
    BY <1>1, <2>2 DEF TypeParts, OvertakenType
  <2> QED BY <2>1, <2>2
<1>5. PrivType' /\ ClaimValid'
  <2>1. CASE Ready(dev[j], mode) # {}
    BY <2>1, ClaimStep
  <2>2. CASE Ready(dev[j], mode) = {}
    BY <2>2, NoClaim
  <2> QED BY <2>1, <2>2
<1>6. RingsType' /\ PollingType' /\ VerdictType' /\ wrong' \in BOOLEAN
  BY <1>1 DEF TypeParts, RingsType, PollingType, VerdictType
<1>7. TableConsistent'
  BY <1>1 DEF TableConsistent, IsInjective
<1>8. LockInv'
  BY DEF LockInv
<1>9. PacketInv'
  BY <1>1, PacketsStay
<1>10. TypeParts'
  BY <1>3, <1>4, <1>5, <1>6 DEF TypeParts
<1> QED BY <1>5, <1>7, <1>8, <1>9, <1>10, TypeSplitPrime

\* The position that is served is one of the table.
LEMMA TurnInTable ==
  ASSUME TableType, NEW mode \in Modes, Turns(mode) # {}
  PROVE  /\ Turn(First(Turns(mode))) \in DOMAIN dev
         /\ Ready(dev[Turn(First(Turns(mode)))], mode) # {}
         /\ First(Turns(mode)) \in DOMAIN dev
         /\ \A k \in Turns(mode) : First(Turns(mode)) <= k
<1>1. dev \in Seq(Devs) /\ Len(dev) \in Nat /\ DOMAIN dev = 1 .. Len(dev) /\ last \in Int
  BY NetmapAssumption DEF TableType
<1>2. Turns(mode) \subseteq Nat
  BY <1>1 DEF Turns
<1> DEFINE k == First(Turns(mode))
<1>3. k \in Turns(mode) /\ \A l \in Turns(mode) : k <= l
  BY <1>2, FirstOf
<1>4. k \in 1 .. Len(dev) /\ Ready(dev[Turn(k)], mode) # {}
  BY <1>1, <1>3 DEF Turns
<1> HIDE DEF k
<1>5. Len(dev) \in Nat \ {0} /\ (last - 1) + k \in Int
  BY <1>1, <1>4
<1>6. Turn(k) \in 1 .. Len(dev)
  <2> DEFINE a == (last - 1) + k
             L == Len(dev)
  <2> HIDE DEF a, L
  <2>1. L \in Nat \ {0} /\ a \in Int
    BY <1>5 DEF a, L
  <2>2. a % L \in Int /\ 0 <= a % L /\ a % L < L
    BY <2>1, DivMod
  <2>3. 1 + (a % L) \in 1 .. L
    BY <2>1, <2>2
  <2> QED BY <2>3 DEF Turn, a, L
<1> QED BY <1>1, <1>3, <1>4, <1>6 DEF k

\* A reception that finds a packet.
LEMMA RecvAnyStep ==
  ASSUME NetInv, NEW mode \in Modes, recv_any(mode)
  PROVE  NetInv'
<1>1. TableType
  BY TypeSplit DEF TypeParts
<1> DEFINE j == Turn(First(Turns(mode)))
<1>2. j \in DOMAIN dev /\ Ready(dev[j], mode) # {}
  BY <1>1, TurnInTable DEF recv_any
<1>3. /\ locked /\ priv = {} /\ polling = {}
      /\ Claim(j, mode) /\ Serve(j) /\ Overtake(j, mode)
      /\ UNCHANGED <<locked, dev, fd, ring, polling, verdict, wrong>>
  BY DEF recv_any, MayRecv
<1> HIDE DEF j
<1> QED BY <1>2, <1>3, ServeStep

\* Positions found are positions of the table.
LEMMA FindInTable ==
  ASSUME TableType, NEW name, NEW ignore, Find(name, ignore) # {}
  PROVE  /\ First(Find(name, ignore)) \in Find(name, ignore)
         /\ First(Find(name, ignore)) \in DOMAIN dev
<1>1. Find(name, ignore) \subseteq DOMAIN dev /\ DOMAIN dev \subseteq Nat
  BY DEF Find, TableType
<1> QED BY <1>1, FirstOf

\* A reception by name that finds a packet.
LEMMA RecvFromStep ==
  ASSUME NetInv, NEW name \in Names, NEW mode \in Modes, recv_from(name, mode)
  PROVE  NetInv'
<1>1. TableType
  BY TypeSplit DEF TypeParts
<1> DEFINE j == First(Find(name, "master"))
<1>2. j \in DOMAIN dev
  BY <1>1, FindInTable DEF recv_from
<1>3. /\ locked /\ priv = {} /\ polling = {}
      /\ Ready(dev[j], mode) # {}
      /\ Claim(j, mode)
      /\ overtaken' = [overtaken EXCEPT ![dev[j]] = 0]
      /\ UNCHANGED <<locked, dev, fd, last, ring, polling, verdict, wrong>>
  BY DEF recv_from, MayRecv, table
<1> HIDE DEF j
<1> QED BY <1>2, <1>3, ServeStep

\* What is polled are descriptors of the table.
LEMMA PolledInTable ==
  ASSUME TableType, TableConsistent, NEW name
  PROVE  Polled(name) \subseteq DOMAIN dev /\ DOMAIN dev \subseteq Nat
BY DEF Polled, Find, TableType, TableConsistent

\* The end of a poll.
LEMMA RecvPolledStep ==
  ASSUME NetInv, recv_polled
  PROVE  NetInv'
<1>1. TableType /\ TableConsistent /\ LockInv /\ PollingType
  BY TypeSplit DEF TypeParts
<1>2. PICK c \in polling :
        LET readable == {i \in Polled(c.name) : Readable(fd[i])}
            j == First(readable)
        IN
        /\ readable # {}
        /\ polling' = {}
        /\ IF Ready(dev[j], c.mode) # {} THEN Claim(j, c.mode) ELSE UNCHANGED priv
        /\ IF c.name = "any"
           THEN Serve(j) /\ Overtake(j, c.mode)
           ELSE UNCHANGED last /\ overtaken' = [overtaken EXCEPT ![dev[j]] = 0]
        /\ UNCHANGED <<locked, dev, fd, ring, verdict, wrong>>
  BY DEF recv_polled
<1> DEFINE R == {i \in Polled(c.name) : Readable(fd[i])}
           j == First(R)
<1>3. R \subseteq DOMAIN dev /\ DOMAIN dev \subseteq Nat
  BY <1>1, PolledInTable
<1>4. j \in DOMAIN dev
  BY <1>2, <1>3, FirstOf
<1>5. c.mode \in Modes
  BY <1>1 DEF PollingType
<1>6. locked /\ priv = {}
  BY <1>1 DEF LockInv
<1>7. /\ IF Ready(dev[j], c.mode) # {} THEN Claim(j, c.mode) ELSE UNCHANGED priv
      /\ \/ Serve(j) /\ Overtake(j, c.mode)
         \/ UNCHANGED last /\ overtaken' = [overtaken EXCEPT ![dev[j]] = 0]
      /\ polling' = {} /\ UNCHANGED <<locked, dev, fd, ring, verdict, wrong>>
  BY <1>2
<1> HIDE DEF j
<1> QED BY <1>4, <1>5, <1>6, <1>7, ServeStep
-----------------------------------------------------------------------------
\* A slot does not mind what is decided about packets elsewhere.
LEMMA SlotStays ==
  ASSUME NEW rs, NEW V, NEW W, NEW r, NEW k,
         rs.slot[k] # Nothing => W[rs.slot[k]] = V[rs.slot[k]]
  PROVE  /\ RxSlotOK(rs, V, k) => RxSlotOK(rs, W, k)
         /\ TxSlotOK(rs, V, r, k) => TxSlotOK(rs, W, r, k)
BY DEF RxSlotOK, TxSlotOK

\* A ring that was registered just now is as it should be.
LEMMA FreshRingOK ==
  ASSUME NEW r \in Rings, NEW V
  PROVE  /\ FreshRing(r) \in RingType
         /\ RingOK(FreshRing(r))
         /\ r \in RxRings => \A k \in Slots : RxSlotOK(FreshRing(r), V, k)
         /\ r \in TxRings => /\ TxFull(FreshRing(r))
                             /\ \A k \in Slots : TxSlotOK(FreshRing(r), V, r, k)
         /\ \A k \in Slots : FreshRing(r).slot[k] = Nothing
<1>1. RingSize \in Int /\ RingSize >= 2
  BY RingSizeFacts
<1>2. 0 \in Slots /\ RingSize - 1 \in Slots
  BY <1>1 DEF Slots
<1> DEFINE rs == FreshRing(r)
<1>3. /\ rs.hw = 0 /\ rs.cur = 0
      /\ rs.tail = IF r.way = "rx" THEN 0 ELSE RingSize - 1
      /\ rs.slot = [k \in Slots |-> Nothing]
      /\ rs.fwd = [k \in Slots |-> FALSE]
  BY DEF FreshRing
<1>4. rs \in RingType
  BY <1>2 DEF FreshRing, RingType
<1> HIDE DEF rs
<1>5. \A k \in Slots : rs.slot[k] = Nothing /\ k \in Int /\ 0 <= k /\ k < RingSize
  BY <1>3, SlotValue
<1>6. \A k \in Slots : At(rs, k) = k
  BY <1>3, <1>4, <1>5, RingParts
<1>7. r \in RxRings => r.way = "rx"
  BY DEF RxRings, Ring
<1>8. r \in TxRings => r.way = "tx"
  BY DEF TxRings, Ring
<1>9. At(rs, rs.cur) = 0 /\ At(rs, rs.tail) = rs.tail /\ rs.tail >= 0
  BY <1>1, <1>2, <1>3, <1>6
<1>10. RingOK(rs)
  BY <1>3, <1>9 DEF RingOK
<1>11. \A k \in Slots : ~(At(rs, k) < At(rs, rs.cur))
  BY <1>1, <1>5, <1>6, <1>9
<1>12. r \in RxRings => \A k \in Slots : RxSlotOK(rs, V, k)
  <2> SUFFICES ASSUME r \in RxRings, NEW k \in Slots PROVE RxSlotOK(rs, V, k)
    OBVIOUS
  <2>1. At(rs, rs.tail) = 0
    BY <1>3, <1>7, <1>9
  <2>2. ~(At(rs, k) < At(rs, rs.tail))
    BY <1>1, <1>5, <1>6, <2>1
  <2> QED BY <1>5, <1>11, <2>2 DEF RxSlotOK
<1>13. r \in TxRings => TxFull(rs) /\ \A k \in Slots : TxSlotOK(rs, V, r, k)
  BY <1>3, <1>5, <1>8, <1>9, <1>11 DEF TxFull, TxSlotOK
<1> QED BY <1>4, <1>5, <1>10, <1>12, <1>13 DEF rs

\* Where a packet is, in terms of rings and slots.
LEMMA PlacesOf ==
  ASSUME NEW p
  PROVE  /\ \A x \in Places(p) : /\ x[1] \in Rings /\ x[2] \in Slots
                                 /\ x = <<x[1], x[2]>>
                                 /\ ring[x[1]].slot[x[2]] = p
         /\ \A r \in Rings, k \in Slots : ring[r].slot[k] = p => <<r, k>> \in Places(p)
BY DEF Places

(***************************************************************************)
(* Packets of the device that is detached are gone with its rings, all the *)
(* others are where they were.                                             *)
(***************************************************************************)
LEMMA DetachPackets ==
  ASSUME RingsType, VerdictType, PacketInv, NEW d,
         ring' = [r \in Rings |-> IF r.dev = d THEN FreshRing(r) ELSE ring[r]],
         verdict' = [p \in Packets |->
                       IF \E x \in Places(p) : x[1].dev = d THEN None ELSE verdict[p]],
         wrong' = wrong
  PROVE  RingsType' /\ VerdictType' /\ PacketInv'
<1>1. RingsInv /\ Unique /\ OnItsWay /\ ~wrong
  BY DEF PacketInv
<1>2. \A r \in Rings : ring'[r] = IF r.dev = d THEN FreshRing(r) ELSE ring[r]
  OBVIOUS
<1>3. \A p \in Packets : verdict'[p] = IF \E x \in Places(p) : x[1].dev = d THEN None
                                       ELSE verdict[p]
  OBVIOUS
<1>4. RingsType'
  BY <1>2, FreshRingOK DEF RingsType
<1>5. VerdictType'
  BY DEF VerdictType
<1>6. \A r \in Rings, k \in Slots :
        r.dev # d /\ ring[r].slot[k] # Nothing
          => verdict'[ring[r].slot[k]] = verdict[ring[r].slot[k]]
  <2> SUFFICES ASSUME NEW r \in Rings, NEW k \in Slots, r.dev # d, ring[r].slot[k] # Nothing
               PROVE  verdict'[ring[r].slot[k]] = verdict[ring[r].slot[k]]
    OBVIOUS
  <2> DEFINE p == ring[r].slot[k]
  <2>1. p \in Packets
    BY RingParts DEF RingsType
  <2>2. \A x \in Places(p) : x[1] = r
    <3> TAKE x \in Places(p)
    <3>1. x[1] \in Rings /\ x[2] \in Slots /\ ring[x[1]].slot[x[2]] = p
      BY PlacesOf
    <3> QED BY <1>1, <3>1 DEF Unique
  <2> HIDE DEF p
  <2>3. verdict'[p] = verdict[p]
    BY <1>3, <2>1, <2>2
  <2> QED BY <2>3 DEF p
<1>7. RingsInv'
  <2>1. \A r \in Rings : RingOK(ring'[r])
    BY <1>1, <1>2, FreshRingOK DEF RingsInv
  <2>2. \A r \in RxRings : \A k \in Slots : RxSlotOK(ring'[r], verdict', k)
    <3> SUFFICES ASSUME NEW r \in RxRings, NEW k \in Slots
                 PROVE  RxSlotOK(ring'[r], verdict', k)
      OBVIOUS
    <3>1. r \in Rings
      BY DEF Rings
    <3>2. CASE r.dev = d
      BY <1>2, <3>1, <3>2, FreshRingOK
    <3>3. CASE r.dev # d
      <4>1. RxSlotOK(ring[r], verdict, k)
        BY <1>1 DEF RingsInv
      <4>2. RxSlotOK(ring[r], verdict', k)
        BY <1>6, <3>1, <3>3, <4>1, SlotStays
      <4> QED BY <1>2, <3>1, <3>3, <4>2
    <3> QED BY <3>2, <3>3
  <2>3. \A r \in TxRings : TxFull(ring'[r]) /\ \A k \in Slots : TxSlotOK(ring'[r], verdict', r, k)
    <3> SUFFICES ASSUME NEW r \in TxRings
                 PROVE  TxFull(ring'[r]) /\ \A k \in Slots : TxSlotOK(ring'[r], verdict', r, k)
      OBVIOUS
    <3>1. r \in Rings
      BY DEF Rings
    <3>2. CASE r.dev = d
      BY <1>2, <3>1, <3>2, FreshRingOK
    <3>3. CASE r.dev # d
      <4>1. TxFull(ring[r]) /\ \A k \in Slots : TxSlotOK(ring[r], verdict, r, k)
        BY <1>1 DEF RingsInv
      <4>2. \A k \in Slots : TxSlotOK(ring[r], verdict', r, k)
        BY <1>6, <3>1, <3>3, <4>1, SlotStays
      <4> QED BY <1>2, <3>1, <3>3, <4>1, <4>2
    <3> QED BY <3>2, <3>3
  <2> QED BY <2>1, <2>2, <2>3 DEF RingsInv
<1>8. \A r \in Rings, k \in Slots :
        ring'[r].slot[k] # Nothing => ring'[r] = ring[r] /\ r.dev # d
  BY <1>2, FreshRingOK
<1>9. Unique'
  BY <1>1, <1>8 DEF Unique
<1>10. OnItsWay'
  <2> SUFFICES ASSUME NEW p \in Packets, verdict'[p] # None
               PROVE  \E r \in Rings, k \in Slots :
                        /\ ring'[r].slot[k] = p
                        /\ At(ring'[r], k) < At(ring'[r], ring'[r].cur)
    BY DEF OnItsWay
  <2>1. verdict[p] # None /\ ~\E x \in Places(p) : x[1].dev = d
    BY <1>3
  <2>2. PICK r \in Rings, k \in Slots :
          ring[r].slot[k] = p /\ At(ring[r], k) < At(ring[r], ring[r].cur)
    BY <1>1, <2>1 DEF OnItsWay
  <2>3. <<r, k>> \in Places(p)
    BY <2>2, PlacesOf
  <2>4. r.dev # d
    BY <2>1, <2>3
  <2> QED BY <1>2, <2>2, <2>4
<1> QED BY <1>1, <1>4, <1>5, <1>7, <1>9, <1>10 DEF PacketInv

\* A table with a hole filled by its last element.
LEMMA HoleFilled ==
  ASSUME NEW S, NEW s \in Seq(S), NEW j \in DOMAIN s
  PROVE  /\ Front([s EXCEPT ![j] = Last(s)]) \in Seq(S)
         /\ Len(Front([s EXCEPT ![j] = Last(s)])) = Len(s) - 1
         /\ \A i \in 1 .. Len(s) - 1 :
              Front([s EXCEPT ![j] = Last(s)])[i] = IF i = j THEN s[Len(s)] ELSE s[i]
<1>1. Len(s) \in Nat /\ j \in 1 .. Len(s) /\ s[Len(s)] \in S
  OBVIOUS
<1> DEFINE u == [s EXCEPT ![j] = Last(s)]
           n == Len(s)
<1>2. u \in Seq(S) /\ Len(u) = n /\ \A i \in 1 .. n : u[i] = IF i = j THEN s[n] ELSE s[i]
  BY <1>1, ExceptSeq DEF Last
<1>3. n \in Nat /\ n - 1 \in Nat
  BY <1>1
<1> HIDE DEF u, n
<1>4. Front(u) = SubSeq(u, 1, n - 1)
  BY <1>2 DEF Front
<1>6. /\ SubSeq(u, 1, n - 1) \in Seq(S)
      /\ Len(SubSeq(u, 1, n - 1)) = n - 1
      /\ \A i \in 1 .. n - 1 : SubSeq(u, 1, n - 1)[i] = u[i]
  BY <1>2, <1>3
<1>7. \A i \in 1 .. n - 1 : i \in 1 .. n
  BY <1>3
<1> QED BY <1>2, <1>4, <1>6, <1>7 DEF u, n

\* Detaching a device leaves the others and their packets.
LEMMA DetachStep ==
  ASSUME NetInv, NEW name \in Names, peak_netmap_detach(name)
  PROVE  NetInv'
<1>1. TypeParts /\ TableConsistent /\ ClaimValid /\ LockInv /\ PacketInv
  BY TypeSplit
<1> DEFINE j == First(Find(name, "nic"))
           d == dev[j]
<1>2. /\ ~locked
      /\ Find(name, "nic") # {}
      /\ FillHole(j)
      /\ ring' = [r \in Rings |-> IF r.dev = d THEN FreshRing(r) ELSE ring[r]]
      /\ verdict' = [p \in Packets |->
                       IF \E x \in Places(p) : x[1].dev = d THEN None ELSE verdict[p]]
      /\ overtaken' = [e \in Devs |-> 0]
      /\ UNCHANGED <<locked, last, priv, polling, wrong>>
  BY DEF peak_netmap_detach, MayConfigure
<1>3. priv = {} /\ priv' = {}
  BY <1>1, <1>2 DEF LockInv
<1>4. dev \in Seq(Devs) /\ Len(dev) \in Nat /\ Len(dev) <= MaxDev /\ MaxDev \in Nat
      /\ DOMAIN dev = 1 .. Len(dev)
  BY <1>1, NetmapAssumption DEF TypeParts, TableType
<1>5. j \in DOMAIN dev
  BY <1>1, <1>2, FindInTable DEF TypeParts
<1> HIDE DEF j
<1>6. RingsType' /\ VerdictType' /\ PacketInv'
  <2> HIDE DEF d
  <2> QED BY <1>1, <1>2, DetachPackets DEF TypeParts
<1>7. /\ dev' = Front([dev EXCEPT ![j] = Last(dev)])
      /\ fd' = Front([fd EXCEPT ![j] = Last(fd)])
  BY <1>2 DEF FillHole
<1>8. /\ dev' \in Seq(Devs) /\ Len(dev') = Len(dev) - 1
      /\ \A i \in 1 .. Len(dev) - 1 : dev'[i] = IF i = j THEN dev[Len(dev)] ELSE dev[i]
  BY <1>4, <1>5, <1>7, HoleFilled
<1>9. TableConsistent'
  <2>1. fd' = dev'
    BY <1>1, <1>7 DEF TableConsistent
  <2>2. \A a, b \in 1 .. Len(dev) : dev[a] = dev[b] => a = b
    BY <1>1, <1>4 DEF TableConsistent, IsInjective
  <2>3. DOMAIN dev' = 1 .. Len(dev) - 1
    BY <1>4, <1>8
  <2>4. IsInjective(dev')
    <3> SUFFICES ASSUME NEW a \in 1 .. Len(dev) - 1, NEW b \in 1 .. Len(dev) - 1,
                        dev'[a] = dev'[b]
                 PROVE  a = b
      BY <2>3 DEF IsInjective
    <3>1. /\ dev'[a] = IF a = j THEN dev[Len(dev)] ELSE dev[a]
          /\ dev'[b] = IF b = j THEN dev[Len(dev)] ELSE dev[b]
      BY <1>8
    <3>2. /\ a \in 1 .. Len(dev) /\ b \in 1 .. Len(dev) /\ Len(dev) \in 1 .. Len(dev)
          /\ a # Len(dev) /\ b # Len(dev)
      <4> DEFINE L == Len(dev)
      <4>1. L \in Nat /\ a \in 1 .. L - 1 /\ b \in 1 .. L - 1
        BY <1>4
      <4> HIDE DEF L
      <4>2. a \in 1 .. L /\ b \in 1 .. L /\ L \in 1 .. L /\ a # L /\ b # L
        BY <4>1
      <4> QED BY <4>2 DEF L
    <3> QED BY <2>2, <3>1, <3>2
  <2> QED BY <2>1, <2>4 DEF TableConsistent
<1>10. TableType'
  BY <1>1, <1>2, <1>4, <1>8 DEF TypeParts, TableType
<1>11. PollingType' /\ OvertakenType' /\ wrong' \in BOOLEAN
  BY <1>1, <1>2 DEF TypeParts, PollingType, OvertakenType
<1>12. PrivType' /\ ClaimValid'
  BY <1>3, NoClaim
<1>13. LockInv'
  BY <1>1, <1>2 DEF LockInv
<1>14. TypeParts'
  BY <1>6, <1>10, <1>11, <1>12 DEF TypeParts
<1> QED BY <1>6, <1>9, <1>12, <1>13, <1>14, TypeSplitPrime

\* The kernel does to the released slots of RX rings what was decided.
LEMMA RxSyncPackets ==
  ASSUME RingsType, VerdictType, PacketInv, NEW rings \in SUBSET RxRings, nm_rxsync(rings)
  PROVE  RingsType' /\ VerdictType' /\ PacketInv'
<1>1. RingsInv /\ Unique /\ OnItsWay /\ ~wrong
  BY DEF PacketInv
<1> DEFINE Rel(r, k) == At(ring[r], k) < At(ring[r], ring[r].cur)
           back == {x \in rings \X Slots : Released(x[1], x[2])}
<1>2. \A r, k : Released(r, k) <=> Rel(r, k)
  BY DEF Released, At
<1>3. /\ \A x \in back : x[1] \in rings /\ x[2] \in Slots /\ Rel(x[1], x[2])
      /\ \A r \in rings, k \in Slots : Rel(r, k) <=> <<r, k>> \in back
  BY <1>2
<1>4. /\ ring' = [r \in Rings |->
                IF r \in rings
                THEN [ring[r] EXCEPT
                        !.hw = ring[r].cur,
                        !.slot = [k \in Slots |-> IF <<r, k>> \in back THEN Nothing ELSE @[k]]]
                ELSE ring[r]]
      /\ verdict' = [p \in Packets |->
                   IF \E x \in back : ring[x[1]].slot[x[2]] = p THEN None ELSE verdict[p]]
      /\ wrong' = (wrong \/ \E x \in back :
            ~(IF ring[x[1]].fwd[x[2]]
              THEN ring[x[1]].slot[x[2]] # Nothing /\ verdict[ring[x[1]].slot[x[2]]] = Forwarded
              ELSE ring[x[1]].slot[x[2]] # Nothing => verdict[ring[x[1]].slot[x[2]]] = Dropped))
  BY DEF nm_rxsync
<1> HIDE DEF back
<1>5. rings \subseteq Rings /\ rings \subseteq RxRings /\ RxRings \subseteq Rings /\ TxRings \subseteq Rings
  BY DEF Rings
<1>6. \A r \in RxRings, s \in TxRings : r # s
  BY DEF RxRings, TxRings, Ring
<1>7. \A r \in Rings : r \notin rings => ring'[r] = ring[r]
  BY <1>4
<1>8. \A r \in rings :
        /\ ring'[r] \in RingType
        /\ ring'[r].hw = ring[r].cur /\ ring'[r].cur = ring[r].cur /\ ring'[r].tail = ring[r].tail
        /\ \A k \in Slots : ring'[r].slot[k] = IF Rel(r, k) THEN Nothing ELSE ring[r].slot[k]
  <2> SUFFICES ASSUME NEW r \in rings
               PROVE  /\ ring'[r] \in RingType
                      /\ ring'[r].hw = ring[r].cur /\ ring'[r].cur = ring[r].cur
                      /\ ring'[r].tail = ring[r].tail
                      /\ \A k \in Slots : ring'[r].slot[k] = IF Rel(r, k) THEN Nothing
                                                             ELSE ring[r].slot[k]
    OBVIOUS
  <2> DEFINE sl == [k \in Slots |-> IF <<r, k>> \in back THEN Nothing ELSE ring[r].slot[k]]
  <2>1. ring'[r] = [ring[r] EXCEPT !.hw = ring[r].cur, !.slot = sl]
    BY <1>4, <1>5
  <2>2. ring[r] \in RingType
    BY <1>5 DEF RingsType
  <2>3. sl \in [Slots -> Packets \cup {Nothing}]
    BY <2>2, RingParts
  <2>4. \A k \in Slots : sl[k] = IF Rel(r, k) THEN Nothing ELSE ring[r].slot[k]
    BY <1>3
  <2> HIDE DEF sl, Rel
  <2>5. ring'[r] \in RingType /\ ring'[r].slot = sl
        /\ ring'[r].hw = ring[r].cur /\ ring'[r].cur = ring[r].cur /\ ring'[r].tail = ring[r].tail
    BY <2>1, <2>2, <2>3 DEF RingType
  <2> QED BY <2>4, <2>5
<1>9. RingsType'
  <2>1. DOMAIN ring' = Rings
    BY <1>4
  <2> QED BY <1>7, <1>8, <2>1 DEF RingsType
<1>10. VerdictType'
  BY <1>4 DEF VerdictType
<1>11. \A p \in Packets :
         verdict'[p] = IF \E x \in back : ring[x[1]].slot[x[2]] = p THEN None ELSE verdict[p]
  BY <1>4
<1>12. \A r \in Rings, k \in Slots :
         ring[r].slot[k] \in Packets \cup {Nothing}
  BY RingParts DEF RingsType
<1>13. ~wrong'
  <2>1. \A x \in back : RxSlotOK(ring[x[1]], verdict, x[2]) /\ Rel(x[1], x[2])
    BY <1>1, <1>3, <1>5 DEF RingsInv
  <2> QED BY <1>1, <1>4, <2>1 DEF RxSlotOK
<1>14. \A r \in Rings, k \in Slots :
         ring[r].slot[k] # Nothing /\ r \notin rings
           => verdict'[ring[r].slot[k]] = verdict[ring[r].slot[k]]
  <2> SUFFICES ASSUME NEW r \in Rings, NEW k \in Slots, ring[r].slot[k] # Nothing, r \notin rings
               PROVE  verdict'[ring[r].slot[k]] = verdict[ring[r].slot[k]]
    OBVIOUS
  <2>1. \A x \in back : ring[x[1]].slot[x[2]] # ring[r].slot[k]
    <3> SUFFICES ASSUME NEW x \in back, ring[x[1]].slot[x[2]] = ring[r].slot[k]
                 PROVE  FALSE
      OBVIOUS
    <3>1. x[1] \in rings /\ x[1] \in Rings /\ x[2] \in Slots
      BY <1>3, <1>5
    <3>2. x[1] = r
      BY <1>1, <3>1 DEF Unique
    <3> QED BY <3>1, <3>2
  <2>2. ring[r].slot[k] \in Packets
    BY <1>12
  <2> QED BY <1>11, <2>1, <2>2
<1>15. \A r \in Rings : RingOK(ring'[r])
  <2> SUFFICES ASSUME NEW r \in Rings PROVE RingOK(ring'[r])
    OBVIOUS
  <2>1. RingOK(ring[r]) /\ ring[r] \in RingType
    BY <1>1 DEF RingsInv, RingsType
  <2>2. CASE r \in rings
    BY <1>8, <2>1, <2>2, TakeBack
  <2>3. CASE r \notin rings
    BY <1>7, <2>1, <2>3
  <2> QED BY <2>2, <2>3
<1>16. \A r \in RxRings : \A k \in Slots : RxSlotOK(ring'[r], verdict', k)
  <2> SUFFICES ASSUME NEW r \in RxRings, NEW k \in Slots
               PROVE  RxSlotOK(ring'[r], verdict', k)
    OBVIOUS
  <2>1. RingOK(ring[r]) /\ ring[r] \in RingType /\ RxSlotOK(ring[r], verdict, k) /\ r \in Rings
    BY <1>1, <1>5 DEF RingsInv, RingsType
  <2>2. CASE r \notin rings
    BY <1>7, <1>14, <2>1, <2>2, SlotStays
  <2>3. CASE r \in rings
    <3> DEFINE rs == ring[r]
               q == ring'[r]
    <3>1. /\ At(q, q.cur) = 0
          /\ At(q, q.tail) <= At(q, k) <=> Rel(r, k) \/ At(rs, rs.tail) <= At(rs, k)
          /\ At(q, k) >= 0
      BY <1>8, <2>1, <2>3, TakeBack
    <3>2. q.slot[k] = IF Rel(r, k) THEN Nothing ELSE rs.slot[k]
      BY <1>8, <2>3
    <3>3. /\ At(rs, k) \in Int /\ At(rs, rs.tail) \in Int /\ At(rs, rs.cur) \in Int
          /\ At(q, k) \in Int /\ At(q, q.tail) \in Int
      <4>1. q \in RingType
        BY <1>8, <2>3
      <4>2. \A u \in RingType : At(u, k) \in Slots /\ At(u, u.cur) \in Slots /\ At(u, u.tail) \in Slots
        BY RingParts
      <4> QED BY <2>1, <4>1, <4>2, SlotValue
    <3>4. ~Rel(r, k) /\ ~(At(rs, rs.tail) <= At(rs, k)) =>
            rs.slot[k] # Nothing /\ verdict[rs.slot[k]] = None
      BY <2>1, <3>3 DEF RxSlotOK
    <3>5. rs.slot[k] \in Packets /\ verdict[rs.slot[k]] = None => verdict'[rs.slot[k]] = None
      BY <1>11
    <3>6. rs.slot[k] \in Packets \cup {Nothing}
      BY <1>12, <2>1
    <3>7. ~Rel(r, k) /\ At(rs, rs.tail) <= At(rs, k) => rs.slot[k] = Nothing
      BY <2>1 DEF RxSlotOK
    <3>8. ~(At(q, k) < At(q, q.cur))
      BY <3>1, <3>3
    <3>9. At(q, k) < At(q, q.tail) => q.slot[k] # Nothing /\ verdict'[q.slot[k]] = None
      <4>1. At(q, k) < At(q, q.tail) => ~(At(q, q.tail) <= At(q, k))
        BY <3>3
      <4> HIDE DEF q, rs, Rel
      <4> QED BY <3>1, <3>2, <3>4, <3>5, <3>6, <4>1
    <3>10. At(q, q.tail) <= At(q, k) => q.slot[k] = Nothing
      <4> HIDE DEF q, rs, Rel
      <4> QED BY <3>1, <3>2, <3>7
    <3> HIDE DEF q, rs, Rel
    <3>11. RxSlotOK(q, verdict', k)
      BY <3>8, <3>9, <3>10 DEF RxSlotOK
    <3> QED BY <3>11 DEF q
  <2> QED BY <2>2, <2>3
<1>17. \A r \in TxRings : TxFull(ring'[r]) /\ \A k \in Slots : TxSlotOK(ring'[r], verdict', r, k)
  <2> SUFFICES ASSUME NEW r \in TxRings
               PROVE  TxFull(ring'[r]) /\ \A k \in Slots : TxSlotOK(ring'[r], verdict', r, k)
    OBVIOUS
  <2>1. r \in Rings /\ r \notin rings
    BY <1>5, <1>6
  <2>2. ring'[r] = ring[r]
    BY <1>7, <2>1
  <2>3. TxFull(ring[r]) /\ \A k \in Slots : TxSlotOK(ring[r], verdict, r, k)
    BY <1>1 DEF RingsInv
  <2>4. \A k \in Slots : TxSlotOK(ring[r], verdict', r, k)
    BY <1>14, <2>1, <2>3, SlotStays
  <2> QED BY <2>2, <2>3, <2>4
<1>18. \A r \in Rings, k \in Slots :
         ring'[r].slot[k] # Nothing => ring'[r].slot[k] = ring[r].slot[k]
  BY <1>7, <1>8
<1>19. Unique'
  BY <1>1, <1>18 DEF Unique
<1>20. OnItsWay'
  <2> SUFFICES ASSUME NEW p \in Packets, verdict'[p] # None
               PROVE  \E r \in Rings, k \in Slots :
                        /\ ring'[r].slot[k] = p
                        /\ At(ring'[r], k) < At(ring'[r], ring'[r].cur)
    BY DEF OnItsWay
  <2>1. verdict[p] # None /\ ~\E x \in back : ring[x[1]].slot[x[2]] = p
    BY <1>11
  <2>2. PICK r \in Rings, k \in Slots :
          ring[r].slot[k] = p /\ At(ring[r], k) < At(ring[r], ring[r].cur)
    BY <1>1, <2>1 DEF OnItsWay
  <2>3. r \notin rings
    <3> SUFFICES ASSUME r \in rings PROVE FALSE
      OBVIOUS
    <3>1. <<r, k>> \in back
      BY <1>3, <2>2
    <3> QED BY <2>1, <2>2, <3>1
  <2> QED BY <1>7, <2>2, <2>3
<1>21. RingsInv'
  BY <1>15, <1>16, <1>17 DEF RingsInv
<1> QED BY <1>9, <1>10, <1>13, <1>19, <1>20, <1>21 DEF PacketInv

\* Entering a poll.
LEMMA RecvPollStep ==
  ASSUME NetInv, NEW name \in Names \cup {"any"}, NEW mode \in Modes, recv_poll(name, mode)
  PROVE  NetInv'
<1>1. TypeParts /\ TableConsistent /\ ClaimValid /\ LockInv /\ PacketInv
  BY TypeSplit
<1>2. /\ locked /\ priv = {}
      /\ polling' = {[name |-> name, mode |-> mode]}
      /\ nm_rxsync(PolledRings(name))
      /\ UNCHANGED <<locked, dev, fd, last, priv, overtaken>>
  BY DEF recv_poll, MayRecv, table
<1>3. PolledRings(name) \in SUBSET RxRings
  BY DEF PolledRings
<1>4. RingsType' /\ VerdictType' /\ PacketInv'
  BY <1>1, <1>2, <1>3, RxSyncPackets DEF TypeParts
<1>5. PrivType' /\ ClaimValid'
  BY <1>2, NoClaim
<1>6. TableType' /\ OvertakenType'
  BY <1>1, <1>2 DEF TypeParts, TableType, OvertakenType
<1>7. PollingType'
  BY <1>2 DEF PollingType
<1>8. LockInv'
  BY <1>2 DEF LockInv
<1>9. TableConsistent'
  BY <1>1, <1>2 DEF TableConsistent, IsInjective
<1>10. wrong' \in BOOLEAN
  BY <1>2, Zenon DEF nm_rxsync
<1>11. TypeParts'
  BY <1>4, <1>5, <1>6, <1>7, <1>10 DEF TypeParts
<1> QED BY <1>4, <1>5, <1>8, <1>9, <1>11, TypeSplitPrime

\* What is known of a claimed packet.
LEMMA ClaimFacts ==
  ASSUME NetInv, NEW c \in priv
  PROVE  /\ c.ring \in RxRings /\ c.ring \in Rings /\ c.i \in Slots /\ c.id \in Packets
         /\ c.id # Nothing
         /\ ring[c.ring] \in RingType /\ RingOK(ring[c.ring])
         /\ c.i = ring[c.ring].cur /\ ring[c.ring].cur # ring[c.ring].tail
         /\ ring[c.ring].slot[c.i] = c.id
<1>1. PrivType /\ RingsType /\ ClaimValid /\ RingsInv
  BY TypeSplit DEF TypeParts, PacketInv
<1>2. c.ring \in RxRings /\ c.i \in Slots /\ c.id \in Packets
  BY <1>1 DEF PrivType
<1>3. c.id # Nothing
  BY <1>2, NetmapAssumption DEF Packets, Nothing
<1> QED BY <1>1, <1>2, <1>3 DEF ClaimValid, RingsType, RingsInv, Rings, nm_ring_empty

\* The verdicts are different things.
LEMMA Verdicts ==
  /\ None # Dropped /\ None # Forwarded /\ Dropped # Forwarded
  /\ \A r : Sent(r) # None
BY DEF None, Dropped, Forwarded, Sent

\* A packet is dropped or forwarded where it is.
LEMMA DecidePackets ==
  ASSUME NetInv, NEW c \in priv, NEW b \in BOOLEAN,
         ring' = [ring EXCEPT ![c.ring] = [Release(@) EXCEPT !.fwd[c.i] = b]],
         Decide(c, IF b THEN Forwarded ELSE Dropped), wrong' = wrong
  PROVE  RingsType' /\ VerdictType' /\ PacketInv'
<1>1. RingsType /\ VerdictType /\ RingsInv /\ Unique /\ OnItsWay /\ ~wrong
  BY TypeSplit DEF TypeParts, PacketInv
<1> DEFINE s == c.ring
           i == c.i
           p0 == c.id
           v == IF b THEN Forwarded ELSE Dropped
           rs == ring[s]
           q == [Release(rs) EXCEPT !.fwd[i] = b]
<1>2. /\ s \in RxRings /\ s \in Rings /\ i \in Slots /\ p0 \in Packets /\ p0 # Nothing
      /\ rs \in RingType /\ RingOK(rs)
      /\ i = rs.cur /\ rs.cur # rs.tail /\ rs.slot[i] = p0
  BY ClaimFacts
<1>3. /\ DOMAIN ring' = Rings /\ ring'[s] = q
      /\ \A r \in Rings : r # s => ring'[r] = ring[r]
  BY <1>1, <1>2 DEF RingsType
<1>4. verdict' = [verdict EXCEPT ![p0] = v]
  BY <1>2 DEF Decide
<1>5. /\ verdict'[p0] = v
      /\ \A p \in Packets : p # p0 => verdict'[p] = verdict[p]
  BY <1>1, <1>2, <1>4 DEF VerdictType
<1>6. VerdictType'
  BY <1>1, <1>2, <1>4 DEF VerdictType
<1>7. nm_ring_next(rs.cur) \in Slots
  BY <1>2, NextValue
<1>8. /\ q \in RingType /\ q.hw = rs.hw /\ q.tail = rs.tail /\ q.cur = nm_ring_next(rs.cur)
      /\ q.slot = rs.slot /\ q.fwd = [rs.fwd EXCEPT ![i] = b]
  <2> HIDE DEF rs, i, v
  <2> QED BY <1>2, <1>7 DEF Release, RingType
<1> HIDE DEF q, rs, s, i, p0
<1>9. /\ RingOK(q)
      /\ At(rs, rs.cur) < At(rs, rs.tail)
      /\ At(q, q.cur) = At(rs, rs.cur) + 1
      /\ At(q, q.tail) = At(rs, rs.tail)
      /\ \A k \in Slots : At(q, k) = At(rs, k) /\ (At(rs, k) = At(rs, rs.cur) <=> k = rs.cur)
  BY <1>2, <1>8, Advance
<1>10. \A k \in Slots : At(rs, k) \in Int
  BY <1>2, RingParts, SlotValue
<1>11. rs.cur \in Slots /\ rs.tail \in Slots /\ At(rs, rs.cur) \in Int /\ At(rs, rs.tail) \in Int
  BY <1>2, <1>10, RingParts
<1>12. RingsType'
  BY <1>1, <1>3, <1>8 DEF RingsType
<1>13. \A r \in Rings, k \in Slots : ring'[r].slot[k] = ring[r].slot[k]
  BY <1>3, <1>8 DEF rs
<1>14. Unique'
  BY <1>1, <1>13 DEF Unique
<1>15. \A r \in Rings, k \in Slots :
         /\ ring[r].slot[k] \in Packets \cup {Nothing}
         /\ ring[r].slot[k] = p0 => r = s /\ k = i
  <2>1. ring[s].slot[i] = p0 /\ p0 # Nothing
    BY <1>2 DEF rs
  <2>2. \A r \in Rings, k \in Slots : ring[r].slot[k] = p0 => r = s /\ k = i
    BY <1>1, <1>2, <2>1 DEF Unique
  <2> QED BY <1>1, <2>2, RingParts DEF RingsType
<1>16. \A r \in Rings, k \in Slots :
         ring[r].slot[k] # Nothing /\ ~(r = s /\ k = i)
           => verdict'[ring[r].slot[k]] = verdict[ring[r].slot[k]]
  BY <1>5, <1>15
<1>17. \A r \in Rings : RingOK(ring'[r])
  BY <1>1, <1>3, <1>9 DEF RingsInv
<1>18. \A r \in RxRings : \A k \in Slots : RxSlotOK(ring'[r], verdict', k)
  <2> SUFFICES ASSUME NEW r \in RxRings, NEW k \in Slots
               PROVE  RxSlotOK(ring'[r], verdict', k)
    OBVIOUS
  <2>1. r \in Rings /\ RxSlotOK(ring[r], verdict, k)
    BY <1>1 DEF Rings, RingsInv
  <2>2. CASE r # s
    BY <1>3, <1>16, <2>1, <2>2, SlotStays
  <2>3. CASE r = s
    <3>1. RxSlotOK(q, verdict', k)
      <4>1. CASE k = i
        <5>1. At(q, k) = At(rs, rs.cur) /\ q.fwd[k] = b /\ q.slot[k] = p0
          BY <1>2, <1>8, <1>9, <4>1, RingParts
        <5>2. At(q, k) < At(q, q.cur) /\ ~(At(q, q.cur) <= At(q, k)) /\ ~(At(q, q.tail) <= At(q, k))
          BY <1>9, <1>11, <5>1
        <5> QED BY <1>2, <1>5, <5>1, <5>2 DEF RxSlotOK
      <4>2. CASE k # i
        <5>1. RxSlotOK(rs, verdict', k)
          BY <1>16, <2>1, <2>3, <4>2, SlotStays DEF rs
        <5>2. q.slot[k] = rs.slot[k] /\ q.fwd[k] = rs.fwd[k] /\ At(q, k) = At(rs, k)
          BY <1>2, <1>8, <1>9, <4>2, RingParts
        <5>3. At(rs, k) # At(rs, rs.cur) /\ At(rs, k) \in Int
          BY <1>2, <1>9, <1>10, <4>2
        <5>4. /\ At(q, k) < At(q, q.cur) => At(rs, k) < At(rs, rs.cur)
              /\ At(q, q.cur) <= At(q, k) => At(rs, rs.cur) <= At(rs, k)
          BY <1>9, <1>11, <5>2, <5>3
        <5> QED BY <1>9, <5>1, <5>2, <5>4 DEF RxSlotOK
      <4> QED BY <4>1, <4>2
    <3> QED BY <1>3, <2>3, <3>1
  <2> QED BY <2>2, <2>3
<1>19. \A r \in TxRings : TxFull(ring'[r]) /\ \A k \in Slots : TxSlotOK(ring'[r], verdict', r, k)
  <2> SUFFICES ASSUME NEW r \in TxRings
               PROVE  TxFull(ring'[r]) /\ \A k \in Slots : TxSlotOK(ring'[r], verdict', r, k)
    OBVIOUS
  <2>1. r \in Rings /\ r # s
    BY <1>2 DEF Rings, RxRings, TxRings, Ring
  <2>2. TxFull(ring[r]) /\ \A k \in Slots : TxSlotOK(ring[r], verdict, r, k)
    BY <1>1 DEF RingsInv
  <2>3. \A k \in Slots : TxSlotOK(ring[r], verdict', r, k)
    BY <1>16, <2>1, <2>2, SlotStays
  <2> QED BY <1>3, <2>1, <2>2, <2>3
<1>20. OnItsWay'
  <2> SUFFICES ASSUME NEW p \in Packets, verdict'[p] # None
               PROVE  \E r \in Rings, k \in Slots :
                        /\ ring'[r].slot[k] = p
                        /\ At(ring'[r], k) < At(ring'[r], ring'[r].cur)
    BY DEF OnItsWay
  <2>1. CASE p = p0
    <3>1. ring'[s].slot[i] = p0
      BY <1>2, <1>3, <1>8
    <3>2. At(q, i) = At(rs, rs.cur)
      BY <1>2, <1>9
    <3>3. At(q, i) < At(q, q.cur)
      BY <1>9, <1>11, <3>2
    <3> QED BY <1>2, <1>3, <2>1, <3>1, <3>3
  <2>2. CASE p # p0
    <3>1. PICK r \in Rings, k \in Slots :
            ring[r].slot[k] = p /\ At(ring[r], k) < At(ring[r], ring[r].cur)
      BY <1>1, <1>5, <2>2 DEF OnItsWay
    <3>2. CASE r # s
      BY <1>3, <3>1, <3>2
    <3>3. CASE r = s
      <4>1. At(rs, k) < At(rs, rs.cur) /\ rs.slot[k] = p
        BY <3>1, <3>3 DEF rs
      <4>2. At(q, k) < At(q, q.cur) /\ q.slot[k] = p
        BY <1>8, <1>9, <1>10, <1>11, <4>1
      <4> QED BY <1>2, <1>3, <4>2
    <3> QED BY <3>2, <3>3
  <2> QED BY <2>1, <2>2
<1>21. RingsInv'
  BY <1>17, <1>18, <1>19 DEF RingsInv
<1> QED BY <1>1, <1>6, <1>12, <1>14, <1>20, <1>21 DEF PacketInv

\* What a decision about a packet leaves alone.
LEMMA ReleaseRest ==
  ASSUME NetInv, priv' = {}, UNCHANGED <<locked, dev, fd, last, polling, overtaken, wrong>>,
         RingsType' /\ VerdictType' /\ PacketInv'
  PROVE  NetInv'
<1>1. TypeParts /\ TableConsistent /\ LockInv
  BY TypeSplit
<1>2. PrivType' /\ ClaimValid'
  BY NoClaim
<1>3. TableType' /\ OvertakenType' /\ PollingType' /\ wrong' \in BOOLEAN
  BY <1>1 DEF TypeParts, TableType, OvertakenType, PollingType
<1>4. LockInv'
  BY <1>1 DEF LockInv
<1>5. TableConsistent'
  BY <1>1 DEF TableConsistent, IsInjective
<1>6. TypeParts'
  BY <1>2, <1>3 DEF TypeParts
<1> QED BY <1>2, <1>4, <1>5, <1>6, TypeSplitPrime

\* Forwarding and dropping.
LEMMA ForwardDropStep ==
  ASSUME NetInv, peak_netmap_forward \/ peak_netmap_drop
  PROVE  NetInv'
<1>1. priv' = {} /\ UNCHANGED <<locked, dev, fd, last, polling, overtaken, wrong>>
  BY DEF peak_netmap_forward, peak_netmap_drop, table, history
<1>2. PICK c \in priv, b \in BOOLEAN :
        /\ ring' = [ring EXCEPT ![c.ring] = [Release(@) EXCEPT !.fwd[c.i] = b]]
        /\ Decide(c, IF b THEN Forwarded ELSE Dropped)
  <2>1. CASE peak_netmap_forward
    <3>1. PICK c \in priv :
            /\ ring' = [ring EXCEPT ![c.ring] = [Release(@) EXCEPT !.fwd[c.i] = TRUE]]
            /\ Decide(c, Forwarded)
      BY <2>1 DEF peak_netmap_forward
    <3> QED BY <3>1
  <2>2. CASE peak_netmap_drop
    <3>1. PICK c \in priv :
            /\ ring' = [ring EXCEPT ![c.ring] = [Release(@) EXCEPT !.fwd[c.i] = FALSE]]
            /\ Decide(c, Dropped)
      BY <2>2 DEF peak_netmap_drop, Drop
    <3> QED BY <3>1
  <2> QED BY <2>1, <2>2
<1>3. RingsType' /\ VerdictType' /\ PacketInv'
  BY <1>1, <1>2, DecidePackets
<1> QED BY <1>1, <1>3, ReleaseRest

\* A packet changes places with the nothing at the caller's slot of a TX ring.
LEMMA SwapPackets ==
  ASSUME NetInv, NEW c \in priv, NEW t \in TxRings, ~nm_ring_empty(t),
         ring' = Swap(c, t), Decide(c, Sent(t)), wrong' = wrong
  PROVE  RingsType' /\ VerdictType' /\ PacketInv'
<1>1. RingsType /\ VerdictType /\ RingsInv /\ Unique /\ OnItsWay /\ ~wrong
  BY TypeSplit DEF TypeParts, PacketInv
<1> DEFINE s == c.ring
           i == c.i
           p0 == c.id
           rs == ring[s]
           rt == ring[t]
           l == rt.cur
           q == [Release(rs) EXCEPT !.slot[i] = Nothing, !.fwd[i] = FALSE]
           u == [Release(rt) EXCEPT !.slot[l] = p0]
<1>2. /\ s \in RxRings /\ s \in Rings /\ i \in Slots /\ p0 \in Packets /\ p0 # Nothing
      /\ rs \in RingType /\ RingOK(rs)
      /\ i = rs.cur /\ rs.cur # rs.tail /\ rs.slot[i] = p0
  BY ClaimFacts
<1>3. /\ t \in Rings /\ t # s /\ rt \in RingType /\ RingOK(rt) /\ TxFull(rt)
      /\ l \in Slots /\ rt.cur # rt.tail /\ TxSlotOK(rt, verdict, t, l)
  <2>1. t \in Rings /\ t # s
    BY <1>2 DEF Rings, RxRings, TxRings, Ring
  <2>2. rt \in RingType
    BY <1>1, <2>1 DEF RingsType
  <2>3. l \in Slots
    BY <2>2, RingParts
  <2> QED BY <1>1, <2>1, <2>2, <2>3 DEF RingsInv, nm_ring_empty
<1>4. rt.slot[l] = Nothing
  <2>1. At(rt, l) \in Slots
    BY <1>3, RingParts
  <2>2. At(rt, l) <= At(rt, rt.cur) /\ At(rt, rt.cur) <= At(rt, l)
    BY <2>1, SlotValue
  <2> QED BY <1>3, <2>2 DEF TxSlotOK
<1>5. /\ DOMAIN ring' = Rings /\ ring'[s] = q /\ ring'[t] = u
      /\ \A r \in Rings : r # s /\ r # t => ring'[r] = ring[r]
  <2>1. ring' = [ring EXCEPT ![t] = u, ![s] = q]
    BY <1>2, <1>4 DEF Swap
  <2> HIDE DEF q, u
  <2> QED BY <1>1, <1>2, <1>3, <2>1 DEF RingsType
<1>6. verdict' = [verdict EXCEPT ![p0] = Sent(t)]
  BY <1>2 DEF Decide
<1>7. /\ verdict'[p0] = Sent(t)
      /\ \A p \in Packets : p # p0 => verdict'[p] = verdict[p]
  BY <1>1, <1>2, <1>6 DEF VerdictType
<1>8. VerdictType'
  BY <1>1, <1>2, <1>6 DEF VerdictType
<1>9. nm_ring_next(rs.cur) \in Slots /\ nm_ring_next(rt.cur) \in Slots
  BY <1>2, <1>3, NextValue
<1>10. /\ q \in RingType /\ q.hw = rs.hw /\ q.tail = rs.tail /\ q.cur = nm_ring_next(rs.cur)
       /\ q.slot = [rs.slot EXCEPT ![i] = Nothing] /\ q.fwd = [rs.fwd EXCEPT ![i] = FALSE]
  <2> HIDE DEF rs, i
  <2> QED BY <1>2, <1>9 DEF Release, RingType
<1>11. /\ u \in RingType /\ u.hw = rt.hw /\ u.tail = rt.tail /\ u.cur = nm_ring_next(rt.cur)
       /\ u.slot = [rt.slot EXCEPT ![l] = p0]
  <2> HIDE DEF rt, p0
  <2> QED BY <1>2, <1>3, <1>9 DEF Release, RingType
<1>12. /\ \A k \in Slots : /\ q.slot[k] = IF k = i THEN Nothing ELSE rs.slot[k]
                           /\ q.fwd[k] = IF k = i THEN FALSE ELSE rs.fwd[k]
       /\ \A k \in Slots : u.slot[k] = IF k = l THEN p0 ELSE rt.slot[k]
  <2> HIDE DEF q, u, rs, rt, i, l, p0
  <2>1. /\ rs.slot \in [Slots -> Packets \cup {Nothing}]
        /\ rs.fwd \in [Slots -> BOOLEAN]
        /\ rt.slot \in [Slots -> Packets \cup {Nothing}]
    BY <1>2, <1>3, RingParts
  <2>2. \A k \in Slots : q.slot[k] = IF k = i THEN Nothing ELSE rs.slot[k]
    BY <1>2, <1>10, <2>1
  <2>3. \A k \in Slots : q.fwd[k] = IF k = i THEN FALSE ELSE rs.fwd[k]
    BY <1>2, <1>10, <2>1
  <2>4. \A k \in Slots : u.slot[k] = IF k = l THEN p0 ELSE rt.slot[k]
    BY <1>3, <1>11, <2>1
  <2> QED BY <2>2, <2>3, <2>4
<1>13. l = rt.cur /\ ring[s] = rs /\ ring[t] = rt
  OBVIOUS
<1> HIDE DEF q, u, rs, rt, s, i, l, p0
<1>14. /\ RingOK(q)
       /\ At(rs, rs.cur) < At(rs, rs.tail)
       /\ At(q, q.cur) = At(rs, rs.cur) + 1
       /\ At(q, q.tail) = At(rs, rs.tail)
       /\ \A k \in Slots : At(q, k) = At(rs, k) /\ (At(rs, k) = At(rs, rs.cur) <=> k = rs.cur)
  BY <1>2, <1>10, Advance
<1>15. /\ RingOK(u)
       /\ At(u, u.cur) = At(rt, rt.cur) + 1
       /\ At(u, u.tail) = At(rt, rt.tail)
       /\ \A k \in Slots : At(u, k) = At(rt, k) /\ (At(rt, k) = At(rt, rt.cur) <=> k = rt.cur)
  BY <1>3, <1>11, Advance
<1>16. /\ \A k \in Slots : At(rs, k) \in Int /\ At(rt, k) \in Int
       /\ At(rs, rs.cur) \in Int /\ At(rs, rs.tail) \in Int /\ At(rt, rt.cur) \in Int
  <2>1. \A k \in Slots : At(rs, k) \in Int /\ At(rt, k) \in Int
    BY <1>2, <1>3, RingParts, SlotValue
  <2>2. rs.cur \in Slots /\ rs.tail \in Slots /\ rt.cur \in Slots
    BY <1>2, <1>3, RingParts
  <2> QED BY <2>1, <2>2
<1>17. RingsType'
  BY <1>1, <1>5, <1>10, <1>11 DEF RingsType
<1>18. \A r \in Rings, k \in Slots :
         /\ ring[r].slot[k] \in Packets \cup {Nothing}
         /\ ring[r].slot[k] = p0 => r = s /\ k = i
  <2>1. ring[s].slot[i] = p0 /\ p0 # Nothing
    BY <1>2, <1>13
  <2>2. \A r \in Rings, k \in Slots : ring[r].slot[k] = p0 => r = s /\ k = i
    BY <1>1, <1>2, <2>1 DEF Unique
  <2> QED BY <1>1, <2>2, RingParts DEF RingsType
<1>19. \A r \in Rings, k \in Slots :
         ring'[r].slot[k] = IF r = s /\ k = i THEN Nothing
                            ELSE IF r = t /\ k = l THEN p0 ELSE ring[r].slot[k]
  <2> TAKE r \in Rings, k \in Slots
  <2>1. CASE r = s
    <3>1. ring'[r].slot[k] = q.slot[k] /\ ring[r].slot[k] = rs.slot[k] /\ r # t
      BY <1>3, <1>5, <1>13, <2>1
    <3> QED BY <1>12, <2>1, <3>1
  <2>2. CASE r = t
    <3>1. ring'[r].slot[k] = u.slot[k] /\ ring[r].slot[k] = rt.slot[k] /\ r # s
      BY <1>3, <1>5, <1>13, <2>2
    <3> QED BY <1>12, <2>2, <3>1
  <2>3. CASE r # s /\ r # t
    BY <1>5, <2>3
  <2> QED BY <2>1, <2>2, <2>3
<1>20. Unique'
  <2> SUFFICES ASSUME NEW r1 \in Rings, NEW r2 \in Rings, NEW k1 \in Slots, NEW k2 \in Slots,
                      ring'[r1].slot[k1] = ring'[r2].slot[k2], ring'[r1].slot[k1] # Nothing
               PROVE  r1 = r2 /\ k1 = k2
    BY DEF Unique
  <2>1. ~(r1 = s /\ k1 = i) /\ ~(r2 = s /\ k2 = i)
    BY <1>19
  <2>2. CASE ring'[r1].slot[k1] = p0
    <3>1. r1 = t /\ k1 = l
      BY <1>18, <1>19, <2>1, <2>2
    <3>2. r2 = t /\ k2 = l
      <4>1. ring'[r2].slot[k2] = p0
        BY <2>2
      <4> QED BY <1>18, <1>19, <2>1, <4>1
    <3> QED BY <3>1, <3>2
  <2>3. CASE ring'[r1].slot[k1] # p0
    <3>1. ring'[r1].slot[k1] = ring[r1].slot[k1]
      BY <1>19, <2>1, <2>3
    <3>2. ring'[r2].slot[k2] = ring[r2].slot[k2]
      <4>1. ring'[r2].slot[k2] # p0
        BY <2>3
      <4> QED BY <1>19, <2>1, <4>1
    <3>3. ring[r1].slot[k1] = ring[r2].slot[k2] /\ ring[r1].slot[k1] # Nothing
      BY <3>1, <3>2
    <3> QED BY <1>1, <3>3 DEF Unique
  <2> QED BY <2>2, <2>3
<1>21. \A r \in Rings, k \in Slots :
         ring[r].slot[k] # Nothing /\ ~(r = s /\ k = i)
           => verdict'[ring[r].slot[k]] = verdict[ring[r].slot[k]]
  BY <1>7, <1>18
<1>22. \A r \in Rings : RingOK(ring'[r])
  BY <1>1, <1>5, <1>14, <1>15 DEF RingsInv
<1>23. \A r \in RxRings : \A k \in Slots : RxSlotOK(ring'[r], verdict', k)
  <2> SUFFICES ASSUME NEW r \in RxRings, NEW k \in Slots
               PROVE  RxSlotOK(ring'[r], verdict', k)
    OBVIOUS
  <2>1. r \in Rings /\ RxSlotOK(ring[r], verdict, k)
    BY <1>1 DEF Rings, RingsInv
  <2>2. CASE r # s
    <3>1. r # t
      BY DEF RxRings, TxRings, Ring
    <3> QED BY <1>5, <1>21, <2>1, <2>2, <3>1, SlotStays
  <2>3. CASE r = s
    <3>1. RxSlotOK(q, verdict', k)
      <4>1. CASE k = i
        <5>1. At(q, k) = At(rs, rs.cur) /\ q.fwd[k] = FALSE /\ q.slot[k] = Nothing
          BY <1>2, <1>12, <1>14, <4>1
        <5>2. ~(At(q, q.cur) <= At(q, k))
          BY <1>14, <1>16, <5>1
        <5> QED BY <5>1, <5>2 DEF RxSlotOK
      <4>2. CASE k # i
        <5>1. RxSlotOK(rs, verdict', k)
          BY <1>13, <1>21, <2>1, <2>3, <4>2, SlotStays
        <5>2. q.slot[k] = rs.slot[k] /\ q.fwd[k] = rs.fwd[k] /\ At(q, k) = At(rs, k)
          BY <1>12, <1>14, <4>2
        <5>3. At(rs, k) # At(rs, rs.cur) /\ At(rs, k) \in Int
          BY <1>2, <1>14, <1>16, <4>2
        <5>4. /\ At(q, k) < At(q, q.cur) => At(rs, k) < At(rs, rs.cur)
              /\ At(q, q.cur) <= At(q, k) => At(rs, rs.cur) <= At(rs, k)
          BY <1>14, <1>16, <5>2, <5>3
        <5> QED BY <1>14, <5>1, <5>2, <5>4 DEF RxSlotOK
      <4> QED BY <4>1, <4>2
    <3> QED BY <1>5, <2>3, <3>1
  <2> QED BY <2>2, <2>3
<1>24. \A r \in TxRings : TxFull(ring'[r]) /\ \A k \in Slots : TxSlotOK(ring'[r], verdict', r, k)
  <2> SUFFICES ASSUME NEW r \in TxRings
               PROVE  TxFull(ring'[r]) /\ \A k \in Slots : TxSlotOK(ring'[r], verdict', r, k)
    OBVIOUS
  <2>1. r \in Rings /\ r # s
    BY <1>2 DEF Rings, RxRings, TxRings, Ring
  <2>2. TxFull(ring[r]) /\ \A k \in Slots : TxSlotOK(ring[r], verdict, r, k)
    BY <1>1 DEF RingsInv
  <2>3. \A k \in Slots : TxSlotOK(ring[r], verdict', r, k)
    BY <1>21, <2>1, <2>2, SlotStays
  <2>4. CASE r # t
    BY <1>5, <2>1, <2>2, <2>3, <2>4
  <2>5. CASE r = t
    <3>1. TxFull(u)
      BY <1>13, <1>15, <2>2, <2>5 DEF TxFull
    <3>2. \A k \in Slots : TxSlotOK(u, verdict', t, k)
      <4> SUFFICES ASSUME NEW k \in Slots PROVE TxSlotOK(u, verdict', t, k)
        OBVIOUS
      <4>1. CASE k = l
        <5>1. At(u, k) = At(rt, rt.cur) /\ u.slot[k] = p0
          BY <1>12, <1>13, <1>15, <4>1
        <5>2. ~(At(u, u.cur) <= At(u, k))
          BY <1>15, <1>16, <5>1
        <5> QED BY <1>2, <1>7, <5>1, <5>2 DEF TxSlotOK
      <4>2. CASE k # l
        <5>1. TxSlotOK(rt, verdict', t, k)
          BY <1>13, <2>3, <2>5
        <5>2. u.slot[k] = rt.slot[k] /\ At(u, k) = At(rt, k)
          BY <1>12, <1>15, <4>2
        <5>3. At(rt, k) # At(rt, rt.cur) /\ At(rt, k) \in Int
          BY <1>13, <1>15, <1>16, <4>2
        <5>4. /\ At(u, k) < At(u, u.cur) => At(rt, k) < At(rt, rt.cur)
              /\ At(u, u.cur) <= At(u, k) => At(rt, rt.cur) <= At(rt, k)
          BY <1>15, <1>16, <5>2, <5>3
        <5> QED BY <5>1, <5>2, <5>4 DEF TxSlotOK
      <4> QED BY <4>1, <4>2
    <3> QED BY <1>5, <2>5, <3>1, <3>2
  <2> QED BY <2>4, <2>5
<1>25. OnItsWay'
  <2> SUFFICES ASSUME NEW p \in Packets, verdict'[p] # None
               PROVE  \E r \in Rings, k \in Slots :
                        /\ ring'[r].slot[k] = p
                        /\ At(ring'[r], k) < At(ring'[r], ring'[r].cur)
    BY DEF OnItsWay
  <2>1. CASE p = p0
    <3>1. ring'[t].slot[l] = p0
      BY <1>3, <1>5, <1>12
    <3>2. At(u, l) = At(rt, rt.cur)
      BY <1>3, <1>13, <1>15
    <3>3. At(u, l) < At(u, u.cur)
      BY <1>15, <1>16, <3>2
    <3> QED BY <1>3, <1>5, <2>1, <3>1, <3>3
  <2>2. CASE p # p0
    <3>1. PICK r \in Rings, k \in Slots :
            ring[r].slot[k] = p /\ At(ring[r], k) < At(ring[r], ring[r].cur)
      BY <1>1, <1>7, <2>2 DEF OnItsWay
    <3>2. CASE r # s /\ r # t
      BY <1>5, <3>1, <3>2
    <3>3. CASE r = s
      <4>1. At(rs, k) < At(rs, rs.cur) /\ rs.slot[k] = p
        BY <1>13, <3>1, <3>3
      <4>2. k # i
        BY <1>2, <2>2, <4>1
      <4>3. At(q, k) = At(rs, k) /\ q.slot[k] = p
        BY <1>12, <1>14, <4>1, <4>2
      <4>4. At(q, k) < At(q, q.cur)
        BY <1>14, <1>16, <4>1, <4>3
      <4> QED BY <1>2, <1>5, <4>3, <4>4
    <3>4. CASE r = t
      <4>1. At(rt, k) < At(rt, rt.cur) /\ rt.slot[k] = p
        BY <1>13, <3>1, <3>4
      <4>2. At(rt, k) \in Int /\ At(rt, rt.cur) \in Int /\ k # rt.cur
        BY <1>15, <1>16, <4>1
      <4>3. At(u, k) = At(rt, k) /\ u.slot[k] = p
        BY <1>12, <1>13, <1>15, <4>1, <4>2
      <4>4. At(u, k) < At(u, u.cur)
        BY <1>15, <4>1, <4>2, <4>3
      <4> QED BY <1>3, <1>5, <4>3, <4>4
    <3> QED BY <3>2, <3>3, <3>4
  <2> QED BY <2>1, <2>2
<1>26. RingsInv'
  BY <1>22, <1>23, <1>24 DEF RingsInv
<1> QED BY <1>1, <1>8, <1>17, <1>20, <1>25, <1>26 DEF PacketInv

\* A send swaps with a TX ring: the device it finds is no slave, whatever the mode.
LEMMA SendRing ==
  ASSUME NetInv, NEW name \in Names, NEW mode \in Modes, peak_netmap_send(name, mode)
  PROVE  \E c \in priv, t \in TxRings :
           ~nm_ring_empty(t) /\ ring' = Swap(c, t) /\ Decide(c, Sent(t))
<1> DEFINE j == First(Find(name, "slave"))
           t == Ring(dev[j], "tx", IF mode = "host" THEN "host" ELSE "wire")
<1>1. Find(name, "slave") # {}
  BY DEF peak_netmap_send
<1>2. TableType
  BY DEF NetInv, TypeOK, TableType
<1>3. j \in Find(name, "slave") /\ j \in DOMAIN dev
  BY <1>1, <1>2, FindInTable
<1>4. dev[j].type # "slave"
  BY <1>3 DEF Find
<1>5. dev[j] \in Devs
  BY <1>2, <1>3 DEF TableType
<1>6. t \in TxRings
  BY <1>4, <1>5 DEF TxRings
<1>7. \E c \in priv : ~nm_ring_empty(t) /\ ring' = Swap(c, t) /\ Decide(c, Sent(t))
  BY DEF peak_netmap_send
<1> QED BY <1>6, <1>7

\* Sending.
LEMMA SendStep ==
  ASSUME NetInv, NEW name \in Names, NEW mode \in Modes, peak_netmap_send(name, mode)
  PROVE  NetInv'
<1>1. priv' = {} /\ UNCHANGED <<locked, dev, fd, last, polling, overtaken, wrong>>
  BY DEF peak_netmap_send, table, history
<1>2. PICK c \in priv, t \in TxRings :
        ~nm_ring_empty(t) /\ ring' = Swap(c, t) /\ Decide(c, Sent(t))
  BY SendRing
<1>3. RingsType' /\ VerdictType' /\ PacketInv'
  BY <1>1, <1>2, SwapPackets
<1> QED BY <1>1, <1>3, ReleaseRest

\* A packet that arrives is new, and so is the slot it is put into.
LEMMA ArriveStep ==
  ASSUME NetInv, NEW s \in RxRings, nm_arrive(s)
  PROVE  NetInv'
<1>1. TypeParts /\ TableConsistent /\ LockInv /\ PacketInv
  BY TypeSplit
<1>2. RingsType /\ VerdictType /\ RingsInv /\ Unique /\ OnItsWay /\ ~wrong
  BY <1>1 DEF TypeParts, PacketInv
<1> DEFINE rs == ring[s]
<1>3. PICK p0 \in Packets :
        /\ Places(p0) = {}
        /\ ring' = [ring EXCEPT ![s].slot[ring[s].tail] = p0, ![s].tail = nm_ring_next(@)]
  BY DEF nm_arrive
<1>4. /\ polling # {} /\ nm_ring_next(rs.tail) # rs.hw
      /\ UNCHANGED <<locked, dev, fd, last, priv, polling, verdict, overtaken, wrong>>
  BY DEF nm_arrive, table, history
<1>5. priv = {} /\ priv' = {}
  BY <1>1, <1>4 DEF LockInv
<1>6. s \in Rings /\ rs \in RingType /\ RingOK(rs) /\ rs.tail \in Slots
  <2>1. s \in Rings /\ rs \in RingType /\ RingOK(rs)
    BY <1>2 DEF Rings, RingsType, RingsInv
  <2> QED BY <2>1, RingParts
<1> DEFINE l == rs.tail
           q == [rs EXCEPT !.slot[l] = p0, !.tail = nm_ring_next(l)]
<1>7. /\ DOMAIN ring' = Rings /\ ring'[s] = q
      /\ \A r \in Rings : r # s => ring'[r] = ring[r]
  BY <1>2, <1>3, <1>6 DEF RingsType
<1>8. nm_ring_next(l) \in Slots
  BY <1>6, NextValue
<1>9. /\ q \in RingType /\ q.hw = rs.hw /\ q.cur = rs.cur /\ q.tail = nm_ring_next(rs.tail)
      /\ q.slot = [rs.slot EXCEPT ![l] = p0] /\ q.fwd = rs.fwd
  <2> HIDE DEF rs
  <2> QED BY <1>6, <1>8 DEF RingType
<1>10. \A k \in Slots : q.slot[k] = IF k = l THEN p0 ELSE rs.slot[k]
  <2> HIDE DEF rs, q, l
  <2>1. rs.slot \in [Slots -> Packets \cup {Nothing}]
    BY <1>6, RingParts
  <2> QED BY <1>9, <2>1
<1>11. ring[s] = rs /\ l = rs.tail /\ l \in Slots
  BY <1>6
<1> HIDE DEF q, rs, l
<1>12. p0 # Nothing
  BY NetmapAssumption DEF Packets, Nothing
<1>13. \A r \in Rings, k \in Slots : ring[r].slot[k] # p0
  BY <1>3, PlacesOf
<1>14. verdict[p0] = None
  BY <1>2, <1>13 DEF OnItsWay
<1>15. /\ RingOK(q)
       /\ At(q, q.cur) = At(rs, rs.cur)
       /\ At(q, q.tail) = At(rs, rs.tail) + 1
       /\ \A k \in Slots : At(q, k) = At(rs, k) /\ (At(rs, k) = At(rs, rs.tail) <=> k = rs.tail)
  BY <1>4, <1>6, <1>9, Receive
<1>16. /\ \A k \in Slots : At(rs, k) \in Int
       /\ At(rs, rs.cur) \in Int /\ At(rs, rs.tail) \in Int
  <2>1. \A k \in Slots : At(rs, k) \in Int
    BY <1>6, RingParts, SlotValue
  <2>2. rs.cur \in Slots /\ rs.tail \in Slots
    BY <1>6, RingParts
  <2> QED BY <2>1, <2>2
<1>17. RingsType'
  BY <1>2, <1>7, <1>9 DEF RingsType
<1>18. \A r \in Rings, k \in Slots :
         ring'[r].slot[k] = IF r = s /\ k = l THEN p0 ELSE ring[r].slot[k]
  BY <1>7, <1>10, <1>11
<1>19. Unique'
  <2> SUFFICES ASSUME NEW r1 \in Rings, NEW r2 \in Rings, NEW k1 \in Slots, NEW k2 \in Slots,
                      ring'[r1].slot[k1] = ring'[r2].slot[k2], ring'[r1].slot[k1] # Nothing
               PROVE  r1 = r2 /\ k1 = k2
    BY DEF Unique
  <2>1. ring'[r1].slot[k1] = IF r1 = s /\ k1 = l THEN p0 ELSE ring[r1].slot[k1]
    BY <1>18
  <2>2. ring'[r2].slot[k2] = IF r2 = s /\ k2 = l THEN p0 ELSE ring[r2].slot[k2]
    BY <1>18
  <2>3. ring[r1].slot[k1] # p0 /\ ring[r2].slot[k2] # p0
    BY <1>13
  <2>4. CASE r1 = s /\ k1 = l
    BY <2>1, <2>2, <2>3, <2>4
  <2>5. CASE ~(r1 = s /\ k1 = l)
    <3>1. ring[r1].slot[k1] = ring[r2].slot[k2] /\ ring[r1].slot[k1] # Nothing
      BY <2>1, <2>2, <2>3, <2>5
    <3> QED BY <1>2, <3>1 DEF Unique
  <2> QED BY <2>4, <2>5
<1>20. \A r \in Rings : RingOK(ring'[r])
  BY <1>2, <1>7, <1>15 DEF RingsInv
<1>21. \A r \in RxRings : \A k \in Slots : RxSlotOK(ring'[r], verdict, k)
  <2> SUFFICES ASSUME NEW r \in RxRings, NEW k \in Slots
               PROVE  RxSlotOK(ring'[r], verdict, k)
    OBVIOUS
  <2>1. r \in Rings /\ RxSlotOK(ring[r], verdict, k)
    BY <1>2 DEF Rings, RingsInv
  <2>2. CASE r # s
    BY <1>7, <2>1, <2>2
  <2>3. CASE r = s
    <3>1. RxSlotOK(q, verdict, k)
      <4>1. CASE k = l
        <5>1. At(q, k) = At(rs, rs.tail) /\ q.slot[k] = p0
          BY <1>10, <1>11, <1>15, <4>1
        <5>2. At(rs, rs.cur) <= At(rs, rs.tail)
          BY <1>6 DEF RingOK
        <5>3. ~(At(q, k) < At(q, q.cur)) /\ ~(At(q, q.tail) <= At(q, k))
          BY <1>15, <1>16, <5>1, <5>2
        <5> QED BY <1>12, <1>14, <5>1, <5>3 DEF RxSlotOK
      <4>2. CASE k # l
        <5>1. RxSlotOK(rs, verdict, k)
          BY <1>11, <2>1, <2>3
        <5>2. q.slot[k] = rs.slot[k] /\ q.fwd[k] = rs.fwd[k] /\ At(q, k) = At(rs, k)
          BY <1>9, <1>10, <1>15, <4>2
        <5>3. At(rs, k) # At(rs, rs.tail) /\ At(rs, k) \in Int
          BY <1>11, <1>15, <1>16, <4>2
        <5>4. /\ At(q, k) < At(q, q.tail) => At(rs, k) < At(rs, rs.tail)
              /\ At(q, q.tail) <= At(q, k) => At(rs, rs.tail) <= At(rs, k)
          BY <1>15, <1>16, <5>2, <5>3
        <5> QED BY <1>15, <5>1, <5>2, <5>4 DEF RxSlotOK
      <4> QED BY <4>1, <4>2
    <3> QED BY <1>7, <2>3, <3>1
  <2> QED BY <2>2, <2>3
<1>22. \A r \in TxRings : TxFull(ring'[r]) /\ \A k \in Slots : TxSlotOK(ring'[r], verdict, r, k)
  <2> SUFFICES ASSUME NEW r \in TxRings
               PROVE  TxFull(ring'[r]) /\ \A k \in Slots : TxSlotOK(ring'[r], verdict, r, k)
    OBVIOUS
  <2>1. r \in Rings /\ r # s
    BY DEF Rings, RxRings, TxRings, Ring
  <2>2. TxFull(ring[r]) /\ \A k \in Slots : TxSlotOK(ring[r], verdict, r, k)
    BY <1>2 DEF RingsInv
  <2> QED BY <1>7, <2>1, <2>2
<1>23. OnItsWay'
  <2> SUFFICES ASSUME NEW p \in Packets, verdict[p] # None
               PROVE  \E r \in Rings, k \in Slots :
                        /\ ring'[r].slot[k] = p
                        /\ At(ring'[r], k) < At(ring'[r], ring'[r].cur)
    BY <1>4 DEF OnItsWay
  <2>1. PICK r \in Rings, k \in Slots :
          ring[r].slot[k] = p /\ At(ring[r], k) < At(ring[r], ring[r].cur)
    BY <1>2 DEF OnItsWay
  <2>2. CASE r # s
    BY <1>7, <2>1, <2>2
  <2>3. CASE r = s
    <3>1. rs.slot[k] = p /\ At(rs, k) < At(rs, rs.cur)
      BY <1>11, <2>1, <2>3
    <3>2. At(rs, rs.cur) <= At(rs, rs.tail)
      BY <1>6 DEF RingOK
    <3>3. k # l
      BY <1>11, <1>16, <3>1, <3>2
    <3>4. q.slot[k] = p /\ At(q, k) < At(q, q.cur)
      BY <1>10, <1>15, <3>1, <3>3
    <3> QED BY <1>6, <1>7, <3>4
  <2> QED BY <2>2, <2>3
<1>24. RingsInv'
  BY <1>4, <1>20, <1>21, <1>22 DEF RingsInv
<1>25. VerdictType'
  BY <1>2, <1>4 DEF VerdictType
<1>26. PacketInv'
  BY <1>2, <1>4, <1>19, <1>23, <1>24 DEF PacketInv
<1> QED BY <1>4, <1>5, <1>17, <1>25, <1>26, ReleaseRest

\* What the kernel transmits was sent to that ring.
LEMMA TxSyncStep ==
  ASSUME NetInv, NEW s \in TxRings, nm_txsync(s)
  PROVE  NetInv'
<1>1. TypeParts /\ TableConsistent /\ ClaimValid /\ LockInv /\ PacketInv
  BY TypeSplit
<1>2. RingsType /\ VerdictType /\ RingsInv /\ Unique /\ OnItsWay /\ ~wrong
  BY <1>1 DEF TypeParts, PacketInv
<1> DEFINE rs == ring[s]
           l == rs.hw
           p0 == rs.slot[l]
<1>3. /\ l # rs.cur
      /\ ring' = [ring EXCEPT ![s].hw = nm_ring_next(@), ![s].slot[l] = Nothing,
                              ![s].tail = nm_ring_next(@)]
      /\ verdict' = [p \in Packets |-> IF p = p0 THEN None ELSE verdict[p]]
      /\ wrong' = (wrong \/ p0 = Nothing \/ verdict[p0] # Sent(s))
      /\ UNCHANGED <<locked, dev, fd, last, priv, polling, overtaken>>
  BY DEF nm_txsync, table
<1>4. /\ s \in Rings /\ rs \in RingType /\ RingOK(rs) /\ TxFull(rs)
      /\ l \in Slots /\ rs.tail \in Slots /\ TxSlotOK(rs, verdict, s, l)
  <2>1. s \in Rings /\ rs \in RingType /\ RingOK(rs) /\ TxFull(rs)
    BY <1>2 DEF Rings, RingsType, RingsInv
  <2>2. l \in Slots /\ rs.tail \in Slots
    BY <2>1, RingParts
  <2> QED BY <1>2, <2>1, <2>2 DEF RingsInv
<1> DEFINE q == [rs EXCEPT !.hw = nm_ring_next(l), !.slot[l] = Nothing, !.tail = nm_ring_next(rs.tail)]
<1>5. /\ DOMAIN ring' = Rings /\ ring'[s] = q
      /\ \A r \in Rings : r # s => ring'[r] = ring[r]
  BY <1>2, <1>3, <1>4 DEF RingsType
<1>6. nm_ring_next(l) \in Slots /\ nm_ring_next(rs.tail) \in Slots
  BY <1>4, NextValue
<1>7. /\ q \in RingType /\ q.hw = nm_ring_next(rs.hw) /\ q.cur = rs.cur
      /\ q.tail = nm_ring_next(rs.tail)
      /\ q.slot = [rs.slot EXCEPT ![l] = Nothing]
  <2> HIDE DEF rs
  <2> QED BY <1>4, <1>6 DEF RingType
<1>8. \A k \in Slots : q.slot[k] = IF k = l THEN Nothing ELSE rs.slot[k]
  <2>1. rs.slot \in [Slots -> Packets \cup {Nothing}]
    BY <1>4, RingParts
  <2> HIDE DEF rs, q, l
  <2> QED BY <1>7, <2>1
<1>9. ring[s] = rs /\ l = rs.hw /\ p0 = rs.slot[l]
  OBVIOUS
<1> HIDE DEF q, rs, l, p0
<1>10. /\ RingOK(q) /\ TxFull(q)
       /\ At(rs, rs.hw) = 0 /\ 0 < At(rs, rs.cur)
       /\ At(q, q.cur) = At(rs, rs.cur) - 1
       /\ At(q, rs.hw) = RingSize - 1
       /\ \A k \in Slots : k # rs.hw => At(q, k) = At(rs, k) - 1
       /\ At(q, q.cur) <= RingSize - 1
  BY <1>3, <1>4, <1>7, <1>9, Transmit
<1>11. /\ \A k \in Slots : At(rs, k) \in Int
       /\ At(rs, rs.cur) \in Int /\ RingSize \in Int
  <2>1. \A k \in Slots : At(rs, k) \in Int
    BY <1>4, RingParts, SlotValue
  <2>2. rs.cur \in Slots
    BY <1>4, RingParts
  <2> QED BY <2>1, <2>2, RingSizeFacts
<1>12. p0 # Nothing /\ verdict[p0] = Sent(s)
  BY <1>4, <1>9, <1>10 DEF TxSlotOK
<1>13. wrong' = FALSE
  BY <1>2, <1>3, <1>12
<1>14. \A r \in Rings, k \in Slots :
         /\ ring[r].slot[k] \in Packets \cup {Nothing}
         /\ ring[r].slot[k] = p0 => r = s /\ k = l
  <2>1. ring[s].slot[l] = p0 /\ p0 # Nothing
    BY <1>9, <1>12
  <2>2. \A r \in Rings, k \in Slots : ring[r].slot[k] = p0 => r = s /\ k = l
    BY <1>2, <1>4, <2>1 DEF Unique
  <2> QED BY <1>2, <2>2, RingParts DEF RingsType
<1>15. RingsType'
  BY <1>2, <1>5, <1>7 DEF RingsType
<1>16. VerdictType'
  BY <1>2, <1>3 DEF VerdictType
<1>17. \A p \in Packets : verdict'[p] = IF p = p0 THEN None ELSE verdict[p]
  BY <1>3
<1>18. \A r \in Rings, k \in Slots :
         ring[r].slot[k] # Nothing /\ ~(r = s /\ k = l)
           => verdict'[ring[r].slot[k]] = verdict[ring[r].slot[k]]
  BY <1>14, <1>17
<1>19. \A r \in Rings, k \in Slots :
         ring'[r].slot[k] # Nothing => ring'[r].slot[k] = ring[r].slot[k]
  <2> TAKE r \in Rings, k \in Slots
  <2>1. CASE r = s
    <3>1. ring'[r].slot[k] = q.slot[k] /\ ring[r].slot[k] = rs.slot[k]
      BY <1>5, <1>9, <2>1
    <3> QED BY <1>8, <3>1
  <2>2. CASE r # s
    BY <1>5, <2>2
  <2> QED BY <2>1, <2>2
<1>20. Unique'
  BY <1>2, <1>19 DEF Unique
<1>21. \A r \in Rings : RingOK(ring'[r])
  BY <1>2, <1>5, <1>10 DEF RingsInv
<1>22. \A r \in RxRings : \A k \in Slots : RxSlotOK(ring'[r], verdict', k)
  <2> SUFFICES ASSUME NEW r \in RxRings, NEW k \in Slots
               PROVE  RxSlotOK(ring'[r], verdict', k)
    OBVIOUS
  <2>1. r \in Rings /\ r # s
    BY DEF Rings, RxRings, TxRings, Ring
  <2>2. RxSlotOK(ring[r], verdict, k)
    BY <1>2 DEF RingsInv
  <2> QED BY <1>5, <1>18, <2>1, <2>2, SlotStays
<1>23. \A r \in TxRings : TxFull(ring'[r]) /\ \A k \in Slots : TxSlotOK(ring'[r], verdict', r, k)
  <2> SUFFICES ASSUME NEW r \in TxRings
               PROVE  TxFull(ring'[r]) /\ \A k \in Slots : TxSlotOK(ring'[r], verdict', r, k)
    OBVIOUS
  <2>1. r \in Rings /\ TxFull(ring[r]) /\ \A k \in Slots : TxSlotOK(ring[r], verdict, r, k)
    BY <1>2 DEF RingsInv, Rings
  <2>2. CASE r # s
    <3>1. \A k \in Slots : TxSlotOK(ring[r], verdict', r, k)
      BY <1>18, <2>1, <2>2, SlotStays
    <3> QED BY <1>5, <2>1, <2>2, <3>1
  <2>3. CASE r = s
    <3>1. \A k \in Slots : TxSlotOK(q, verdict', s, k)
      <4> SUFFICES ASSUME NEW k \in Slots PROVE TxSlotOK(q, verdict', s, k)
        OBVIOUS
      <4>1. CASE k = l
        <5>1. At(q, k) = RingSize - 1 /\ q.slot[k] = Nothing
          BY <1>8, <1>9, <1>10, <4>1
        <5>2. ~(At(q, k) < At(q, q.cur))
          BY <1>10, <1>11, <5>1
        <5> QED BY <5>1, <5>2 DEF TxSlotOK
      <4>2. CASE k # l
        <5>1. TxSlotOK(rs, verdict, s, k)
          BY <1>9, <2>1, <2>3
        <5>2. TxSlotOK(rs, verdict', s, k)
          BY <1>9, <1>18, <2>1, <2>3, <4>2, <5>1, SlotStays
        <5>3. q.slot[k] = rs.slot[k] /\ At(q, k) = At(rs, k) - 1
          BY <1>8, <1>9, <1>10, <4>2
        <5>4. /\ At(q, k) < At(q, q.cur) => At(rs, k) < At(rs, rs.cur)
              /\ At(q, q.cur) <= At(q, k) => At(rs, rs.cur) <= At(rs, k)
          BY <1>10, <1>11, <5>3
        <5> QED BY <5>2, <5>3, <5>4 DEF TxSlotOK
      <4> QED BY <4>1, <4>2
    <3> QED BY <1>5, <1>10, <2>3, <3>1
  <2> QED BY <2>2, <2>3
<1>24. OnItsWay'
  <2> SUFFICES ASSUME NEW p \in Packets, verdict'[p] # None
               PROVE  \E r \in Rings, k \in Slots :
                        /\ ring'[r].slot[k] = p
                        /\ At(ring'[r], k) < At(ring'[r], ring'[r].cur)
    BY DEF OnItsWay
  <2>1. p # p0 /\ verdict[p] # None
    BY <1>17
  <2>2. PICK r \in Rings, k \in Slots :
          ring[r].slot[k] = p /\ At(ring[r], k) < At(ring[r], ring[r].cur)
    BY <1>2, <2>1 DEF OnItsWay
  <2>3. CASE r # s
    BY <1>5, <2>2, <2>3
  <2>4. CASE r = s
    <3>1. rs.slot[k] = p /\ At(rs, k) < At(rs, rs.cur)
      BY <1>9, <2>2, <2>4
    <3>2. k # l
      BY <1>9, <2>1, <3>1
    <3>3. q.slot[k] = p /\ At(q, k) = At(rs, k) - 1
      BY <1>8, <1>9, <1>10, <3>1, <3>2
    <3>4. At(q, k) < At(q, q.cur)
      BY <1>10, <1>11, <3>1, <3>3
    <3> QED BY <1>4, <1>5, <3>3, <3>4
  <2> QED BY <2>3, <2>4
<1>25. PacketInv'
  BY <1>13, <1>20, <1>21, <1>22, <1>23, <1>24 DEF PacketInv, RingsInv
<1>26. PrivType'
  BY <1>1, <1>3 DEF TypeParts, PrivType
<1>27. ClaimValid'
  <2> SUFFICES ASSUME NEW c \in priv
               PROVE  /\ c.at \in DOMAIN dev /\ dev[c.at] = c.ring.dev
                      /\ c.i = ring'[c.ring].cur
                      /\ ring'[c.ring].cur # ring'[c.ring].tail
                      /\ ring'[c.ring].slot[c.i] = c.id
    BY <1>3 DEF ClaimValid, nm_ring_empty
  <2>1. c.ring \in RxRings /\ c.ring \in Rings
    BY ClaimFacts
  <2>2. c.ring # s
    BY <2>1 DEF RxRings, TxRings, Ring
  <2>3. ring'[c.ring] = ring[c.ring]
    BY <1>5, <2>1, <2>2
  <2> QED BY <1>1, <2>3 DEF ClaimValid, nm_ring_empty
<1>28. TableType' /\ OvertakenType' /\ PollingType' /\ wrong' \in BOOLEAN
  BY <1>1, <1>3, <1>13 DEF TypeParts, TableType, OvertakenType, PollingType
<1>29. LockInv' /\ TableConsistent'
  BY <1>1, <1>3 DEF LockInv, TableConsistent, IsInjective
<1>30. TypeParts'
  BY <1>15, <1>16, <1>26, <1>28 DEF TypeParts
<1> QED BY <1>25, <1>27, <1>29, <1>30, TypeSplitPrime
-----------------------------------------------------------------------------
\* Nothing attached, nothing received.
LEMMA NetInit == Init => NetInv
<1> SUFFICES ASSUME Init PROVE NetInv
  OBVIOUS
<1>1. /\ locked = FALSE /\ dev = <<>> /\ fd = <<>> /\ last = 1
      /\ ring = [r \in Rings |-> FreshRing(r)]
      /\ priv = {} /\ polling = {}
      /\ verdict = [p \in Packets |-> None]
      /\ overtaken = [d \in Devs |-> 0]
      /\ wrong = FALSE
  BY DEF Init
<1>2. MaxDev \in Nat /\ MaxDev >= 1
  BY NetmapAssumption
<1>3. TableType
  <2>1. dev \in Seq(Devs) /\ Len(dev) = 0
    BY <1>1, EmptySeq
  <2>2. last \in 1 .. MaxDev /\ Len(dev) <= MaxDev
    BY <1>1, <1>2, <2>1
  <2> QED BY <1>1, <2>1, <2>2 DEF TableType
<1>4. RingsType
  BY <1>1, FreshRingOK DEF RingsType
<1>5. PrivType
  BY <1>1, FS_EmptySet DEF PrivType
<1>6. PollingType /\ VerdictType /\ OvertakenType /\ wrong \in BOOLEAN
  BY <1>1 DEF PollingType, VerdictType, OvertakenType
<1>7. TableConsistent
  BY <1>1 DEF TableConsistent, IsInjective
<1>8. ClaimValid /\ LockInv
  BY <1>1 DEF ClaimValid, LockInv
<1>9. \A r \in Rings : ring[r] = FreshRing(r)
  BY <1>1
<1>10. RingsInv
  <2>1. RxRings \subseteq Rings /\ TxRings \subseteq Rings
    BY DEF Rings
  <2> QED BY <1>9, <2>1, FreshRingOK DEF RingsInv
<1>11. Unique
  BY <1>9, FreshRingOK DEF Unique
<1>12. OnItsWay
  BY <1>1 DEF OnItsWay
<1>13. PacketInv
  BY <1>1, <1>10, <1>11, <1>12 DEF PacketInv
<1> QED BY <1>3, <1>4, <1>5, <1>6, <1>7, <1>8, <1>13, TypeSplit DEF TypeParts

\* Steps that change nothing.
LEMMA NetStutter ==
  ASSUME NetInv, UNCHANGED vars
  PROVE  NetInv'
<1>1. UNCHANGED <<locked, dev, fd, last, ring, priv, polling, verdict, overtaken, wrong>>
  BY DEF vars, table, history
<1>2. TypeParts /\ TableConsistent /\ ClaimValid /\ LockInv /\ PacketInv
  BY TypeSplit
<1>3. TypeParts'
  BY <1>1, <1>2 DEF TypeParts, TableType, RingsType, PrivType, PollingType, VerdictType,
                    OvertakenType
<1>4. TableConsistent' /\ LockInv'
  BY <1>1, <1>2 DEF TableConsistent, IsInjective, LockInv
<1>5. ClaimValid' /\ PacketInv'
  BY <1>1, <1>2, ClaimStays, PacketsStay
<1> QED BY <1>3, <1>4, <1>5, TypeSplitPrime

\* Every step keeps the invariant.
LEMMA NetNext == NetInv /\ [Next]_vars => NetInv'
<1> SUFFICES ASSUME NetInv, [Next]_vars PROVE NetInv'
  OBVIOUS
<1>1. CASE \E d \in Devs : peak_netmap_attach(d)
  BY <1>1, AttachStep
<1>2. CASE \E name \in Names : peak_netmap_detach(name)
  BY <1>2, DetachStep
<1>3. CASE peak_netmap_lock \/ peak_netmap_unlock \/ recv_timeout
  BY <1>3, LockStep
<1>4. CASE \E mode \in Modes : recv_any(mode)
  BY <1>4, RecvAnyStep
<1>5. CASE \E name \in Names, mode \in Modes : recv_from(name, mode)
  BY <1>5, RecvFromStep
<1>6. CASE \E name \in Names \cup {"any"}, mode \in Modes : recv_poll(name, mode)
  BY <1>6, RecvPollStep
<1>7. CASE recv_polled
  BY <1>7, RecvPolledStep
<1>8. CASE peak_netmap_forward \/ peak_netmap_drop
  BY <1>8, ForwardDropStep
<1>9. CASE \E name \in Names, mode \in Modes : peak_netmap_send(name, mode)
  BY <1>9, SendStep
<1>10. CASE \E r \in RxRings : nm_arrive(r)
  BY <1>10, ArriveStep
<1>11. CASE \E r \in TxRings : nm_txsync(r)
  BY <1>11, TxSyncStep
<1>12. CASE UNCHANGED vars
  BY <1>12, NetStutter
<1> QED BY <1>1, <1>2, <1>3, <1>4, <1>5, <1>6, <1>7, <1>8, <1>9, <1>10, <1>11, <1>12
        DEF Next

\* Two slots never hold the same packet, so a packet has a place or none.
LEMMA OnePlace ==
  ASSUME Unique, NEW p \in Packets
  PROVE  Cardinality(Places(p)) <= 1
<1>1. p # Nothing
  BY NetmapAssumption DEF Packets, Nothing
<1>2. CASE Places(p) = {}
  <2>1. Cardinality(Places(p)) = 0
    BY <1>2, FS_EmptySet
  <2> QED BY <2>1
<1>3. CASE Places(p) # {}
  <2>1. PICK x \in Places(p) : TRUE
    BY <1>3
  <2>2. x[1] \in Rings /\ x[2] \in Slots /\ x = <<x[1], x[2]>> /\ ring[x[1]].slot[x[2]] = p
    BY PlacesOf
  <2>3. \A y \in Places(p) : y = x
    <3> TAKE y \in Places(p)
    <3>1. y[1] \in Rings /\ y[2] \in Slots /\ y = <<y[1], y[2]>> /\ ring[y[1]].slot[y[2]] = p
      BY PlacesOf
    <3>2. y[1] = x[1] /\ y[2] = x[2]
      BY <1>1, <2>2, <3>1 DEF Unique
    <3> QED BY <2>2, <3>1, <3>2
  <2>4. Places(p) = {x}
    BY <2>1, <2>3
  <2>5. Cardinality(Places(p)) = 1
    BY <2>4, FS_Singleton
  <2> QED BY <2>5
<1> QED BY <1>2, <1>3

\* What the invariant says about deliveries.
LEMMA InvDelivered == NetInv => DeliveredOnce
<1> SUFFICES ASSUME NetInv PROVE DeliveredOnce
  OBVIOUS
<1>1. Unique /\ OnItsWay /\ ~wrong
  BY DEF NetInv
<1>2. \A p \in Packets : Cardinality(Places(p)) <= 1
  BY <1>1, OnePlace
<1>3. \A p \in Packets : verdict[p] # None => \E x \in Places(p) : Released(x[1], x[2])
  <2> SUFFICES ASSUME NEW p \in Packets, verdict[p] # None
               PROVE  \E x \in Places(p) : Released(x[1], x[2])
    OBVIOUS
  <2>1. PICK r \in Rings, k \in Slots :
          ring[r].slot[k] = p /\ At(ring[r], k) < At(ring[r], ring[r].cur)
    BY <1>1 DEF OnItsWay
  <2>2. <<r, k>> \in Places(p) /\ Released(r, k)
    BY <2>1, PlacesOf DEF Released, At
  <2> QED BY <2>2
<1> QED BY <1>1, <1>2, <1>3 DEF DeliveredOnce

(***************************************************************************)
(* Whatever is attached and detached around a receiver, the table of       *)
(* lib/peak_netmap.c and its descriptors agree, and a claimed packet stays *)
(* what it was until it is released.                                       *)
(***************************************************************************)
THEOREM NetmapClaims == Spec => []ClaimSound
<1>1. NetInv => ClaimSound
  BY DEF NetInv, ClaimSound
<1> QED BY <1>1, NetInit, NetNext, PTL DEF Spec

(***************************************************************************)
(* However buffers are swapped by _peak_netmap_send(), flags are left in   *)
(* slots and rings wrap around: every packet is in one slot and gets out   *)
(* once, as peak_netmap_forward(), a send or a drop decided.               *)
(***************************************************************************)
THEOREM NetmapDelivery == Spec => []DeliveredOnce
BY InvDelivered, NetInit, NetNext, PTL DEF Spec
-----------------------------------------------------------------------------
\* The turn that a position gets by its rank is its own.
LEMMA RankTurn ==
  ASSUME TableType, NEW j \in DOMAIN dev
  PROVE  Rank(j) \in 1 .. Len(dev) /\ Turn(Rank(j)) = j
<1> DEFINE L == Len(dev)
           a == j - last - 1
           r == a % L
<1>1. L \in Nat \ {0} /\ j \in 1 .. L /\ last \in Int /\ a \in Int
  BY NetmapAssumption DEF TableType
<1> HIDE DEF L
<1>2. r \in Int /\ 0 <= r /\ r < L
  <2> HIDE DEF a
  <2> QED BY <1>1, DivMod
<1>3. (r + last) % L = (a + last) % L
  <2> HIDE DEF a
  <2> QED BY <1>1, ModAdd
<1>4. a + last = j - 1
  BY <1>1
<1>5. (j - 1) % L = j - 1
  <2> DEFINE b == j - 1
  <2>1. b \in Int /\ 0 <= b /\ b < L
    BY <1>1
  <2> HIDE DEF b
  <2>2. b % L = b
    BY <1>1, <2>1, ModSmall
  <2> QED BY <2>2 DEF b
<1>6. Rank(j) = r + 1
  BY DEF Rank, L
<1> HIDE DEF r, a
<1>7. (last - 1) + (r + 1) = r + last
  BY <1>1, <1>2
<1>8. Turn(r + 1) = 1 + ((r + last) % L)
  BY <1>7 DEF Turn, L
<1>9. Turn(r + 1) = j
  BY <1>1, <1>3, <1>4, <1>5, <1>8
<1>10. r + 1 \in 1 .. L
  BY <1>1, <1>2
<1> QED BY <1>6, <1>9, <1>10 DEF L

\* Serving the k-th in line moves everybody behind it up by k.
LEMMA RankMovesUp ==
  ASSUME TableType, NEW j \in DOMAIN dev, NEW k \in 1 .. Len(dev), k < Rank(j),
         last' = Turn(k), dev' = dev
  PROVE  Rank(j)' = Rank(j) - k
<1> DEFINE L == Len(dev)
           a == j - last - 1
           r == a % L
           p == a \div L
           b == (last - 1) + k
           x == b % L
           y == b \div L
<1>1. L \in Nat \ {0} /\ j \in 1 .. L /\ last \in Int /\ a \in Int /\ k \in 1 .. L /\ b \in Int
  BY NetmapAssumption DEF TableType
<1>2. Rank(j) = r + 1 /\ last' = 1 + x
  BY DEF Rank, Turn
<1>3. Rank(j)' = ((j - last' - 1) % L) + 1
  BY DEF Rank
<1> HIDE DEF L
<1>4. r \in Int /\ 0 <= r /\ r < L /\ p \in Int /\ a = L * p + r
  <2> HIDE DEF a
  <2> QED BY <1>1, DivMod
<1>5. x \in Int /\ y \in Int /\ b = L * y + x
  <2> HIDE DEF b
  <2> QED BY <1>1, DivMod
<1> HIDE DEF r, p, x, y
<1>6. r - k \in Int /\ 0 <= r - k /\ r - k < L
  BY <1>1, <1>2, <1>4
<1> DEFINE z == p + y
<1>7. j - last' - 1 = L * z + (r - k)
  <2>1. j - last' - 1 = (a - k) + (b - x)
    BY <1>1, <1>2, <1>5
  <2>2. b - x = L * y
    BY <1>1, <1>5
  <2>3. L * z = L * p + L * y
    BY <1>1, <1>4, <1>5
  <2>4. L * p \in Int /\ L * y \in Int
    BY <1>1, <1>4, <1>5
  <2> HIDE DEF z, a, b
  <2> QED BY <1>1, <1>4, <2>1, <2>2, <2>3, <2>4
<1>8. (L * z + (r - k)) % L = r - k
  <2> DEFINE w == r - k
  <2>1. w \in Int /\ 0 <= w /\ w < L /\ z \in Int
    BY <1>4, <1>5, <1>6
  <2> HIDE DEF w, z
  <2>2. (L * z + w) % L = w
    BY <1>1, <2>1, DivModUnique
  <2> QED BY <2>2 DEF w
<1>9. Rank(j)' = (r - k) + 1
  <2> HIDE DEF z
  <2> QED BY <1>3, <1>7, <1>8
<1> QED BY <1>1, <1>2, <1>4, <1>9

\* Only the one served last is last in line.
LEMMA RankNotLast ==
  ASSUME TableType, NEW i \in DOMAIN dev, NEW j \in DOMAIN dev, i # j,
         last' = j, dev' = dev
  PROVE  Rank(i)' <= Len(dev) - 1 /\ Rank(i)' \in Int
<1> DEFINE L == Len(dev)
           a == i - j - 1
<1>1. L \in Nat \ {0} /\ i \in 1 .. L /\ j \in 1 .. L /\ a \in Int
  BY DEF TableType
<1>2. Rank(i)' = (a % L) + 1
  BY DEF Rank
<1> HIDE DEF L
<1>3. CASE i > j
  <2>1. 0 <= a /\ a < L - 1 /\ a < L
    BY <1>1, <1>3
  <2> HIDE DEF a
  <2>2. a % L = a
    BY <1>1, <2>1, ModSmall
  <2>3. Rank(i)' <= L - 1 /\ Rank(i)' \in Int
    BY <1>1, <1>2, <2>1, <2>2
  <2> QED BY <2>3 DEF L
<1>4. CASE i < j
  <2> DEFINE b == a + L
  <2>1. b \in Int /\ 0 <= b /\ b < L - 1 /\ b < L
    BY <1>1, <1>4
  <2>2. a = L * (-1) + b
    BY <1>1
  <2> HIDE DEF a, b
  <2>3. \A e \in Int : (L * e + b) % L = b
    BY <1>1, <2>1, DivModUnique
  <2>4. -1 \in Int
    OBVIOUS
  <2>5. a % L = b
    BY <2>2, <2>3, <2>4, Zenon
  <2>6. Rank(i)' <= L - 1 /\ Rank(i)' \in Int
    BY <1>1, <1>2, <2>1, <2>5
  <2> QED BY <2>6 DEF L
<1> QED BY <1>1, <1>3, <1>4

\* A rank is a number from 1 up to the length of the table.
LEMMA RankBound ==
  ASSUME NEW L \in Nat, NEW j \in 1 .. L, NEW l \in Int
  PROVE  ((j - l - 1) % L) + 1 \in 1 .. L
<1> DEFINE a == j - l - 1
<1>1. L \in Nat \ {0} /\ a \in Int
  OBVIOUS
<1> HIDE DEF a
<1>2. a % L \in Int /\ 0 <= a % L /\ a % L < L
  BY <1>1, DivMod
<1>3. (a % L) + 1 \in 1 .. L
  BY <1>1, <1>2
<1> QED BY <1>3 DEF a

\* What the turns need to know of a state.
LEMMA TurnFacts ==
  ASSUME NetInv
  PROVE  /\ TableType /\ Len(dev) \in Nat /\ DOMAIN dev = 1 .. Len(dev) /\ last \in Int
         /\ \A j \in DOMAIN dev : /\ dev[j] \in Devs /\ overtaken[dev[j]] \in Nat
                                  /\ Rank(j) \in 1 .. Len(dev)
         /\ \A i, j \in DOMAIN dev : dev[i] = dev[j] => i = j
<1>1. TableType /\ OvertakenType /\ TableConsistent
  BY TypeSplit DEF TypeParts
<1>2. Len(dev) \in Nat /\ DOMAIN dev = 1 .. Len(dev) /\ last \in Int
  BY <1>1, NetmapAssumption DEF TableType
<1>3. \A j \in DOMAIN dev : dev[j] \in Devs /\ overtaken[dev[j]] \in Nat
  BY <1>1 DEF TableType, OvertakenType
<1>4. \A j \in DOMAIN dev : Rank(j) \in 1 .. Len(dev)
  BY <1>1, RankTurn
<1>5. \A i, j \in DOMAIN dev : dev[i] = dev[j] => i = j
  BY <1>1 DEF TableConsistent, IsInjective
<1> QED BY <1>1, <1>2, <1>3, <1>4, <1>5

\* ReadyIn() of the rings is Ready().
LEMMA ReadyMeaning ==
  ASSUME NEW d, NEW m
  PROVE  Ready(d, m) # {} <=> ReadyIn(ring, d, m)
BY DEF Ready, ReadyIn, nm_ring_empty

\* A device keeps its packets while its rings do.
LEMMA ReadyKept ==
  ASSUME NEW d \in Devs, NEW m \in Modes, NEW rg, NEW rh, ReadyIn(rg, d, m),
         \A r \in RxRings : r.dev = d /\ rg[r].cur # rg[r].tail => rh[r].cur # rh[r].tail
  PROVE  ReadyIn(rh, d, m)
BY RxOrderRings DEF ReadyIn

\* A claim is of the device at the position that is served.
LEMMA ClaimDevice ==
  ASSUME TableType, NEW j \in DOMAIN dev, NEW mode \in Modes,
         Ready(dev[j], mode) # {}, Claim(j, mode)
  PROVE  \A c \in priv' : c.ring.dev = dev[j]
<1>1. dev[j] \in Devs
  BY DEF TableType
<1> DEFINE n == First(Ready(dev[j], mode))
           r == RxOrder(dev[j], mode)[n]
<1>2. Ready(dev[j], mode) \subseteq Nat
  BY <1>1, RxOrderRings DEF Ready
<1>3. n \in Ready(dev[j], mode)
  BY <1>2, FirstOf
<1>4. n \in DOMAIN RxOrder(dev[j], mode)
  BY <1>3 DEF Ready
<1>5. r.dev = dev[j]
  BY <1>1, <1>4, RxOrderRings
<1>6. \A c \in priv' : c.ring = r
  BY DEF Claim
<1> QED BY <1>5, <1>6

\* Attaching and detaching start the history anew.
LEMMA FairTable ==
  ASSUME NetInv, NetInv', \/ \E d \in Devs : peak_netmap_attach(d)
                          \/ \E name \in Names : peak_netmap_detach(name)
  PROVE  FairInv'
<1>1. overtaken' = [e \in Devs |-> 0] /\ UNCHANGED <<locked, last, priv>> /\ ~locked
  BY DEF peak_netmap_attach, peak_netmap_detach, MayConfigure
<1>2. priv' = {}
  BY <1>1 DEF NetInv, LockInv
<1>3. dev' \in Seq(Devs) /\ last \in 1 .. MaxDev
  BY DEF NetInv, TypeOK
<1>4. Len(dev') \in Nat /\ DOMAIN dev' = 1 .. Len(dev') /\ last \in Int
      /\ \A j \in DOMAIN dev' : dev'[j] \in Devs
  BY <1>3, NetmapAssumption
<1>5. \A j \in DOMAIN dev' : overtaken'[dev'[j]] = 0
  BY <1>1, <1>4
<1>6. \A j \in DOMAIN dev' : Rank(j)' \in 1 .. Len(dev')
  BY <1>1, <1>4, RankBound DEF Rank
<1>7. BehindTurns'
  BY <1>4, <1>5, <1>6 DEF BehindTurns, Rank
<1>8. PassedReady' /\ PolledFresh'
  BY <1>5 DEF PassedReady, PolledFresh
<1>9. ClaimedServed'
  BY <1>2 DEF ClaimedServed
<1> QED BY <1>7, <1>8, <1>9 DEF FairInv

\* Steps that leave the table, the rings and the history alone.
LEMMA FairQuiet ==
  ASSUME FairInv, UNCHANGED <<dev, last, ring, overtaken>>,
         priv' \subseteq priv, polling' \subseteq polling
  PROVE  FairInv'
<1>1. CASE OneMode
  <2>1. BehindTurns /\ PassedReady /\ ClaimedServed /\ PolledFresh
    BY <1>1 DEF FairInv
  <2>2. BehindTurns'
    BY <2>1 DEF BehindTurns, Rank
  <2>3. PassedReady'
    BY <2>1 DEF PassedReady, ReadyIn
  <2>4. ClaimedServed' /\ PolledFresh'
    BY <2>1 DEF ClaimedServed, PolledFresh
  <2> QED BY <2>2, <2>3, <2>4 DEF FairInv
<1> QED BY <1>1 DEF FairInv, OneMode

\* Steps that only change rings, and leave those of passed devices readable.
LEMMA FairRings ==
  ASSUME NetInv, FairInv, UNCHANGED <<dev, last, overtaken>>,
         priv' \subseteq priv, polling' \subseteq polling,
         OneMode => \A r \in RxRings :
           overtaken[r.dev] # 0 /\ ring[r].cur # ring[r].tail => ring'[r].cur # ring'[r].tail
  PROVE  FairInv'
<1>1. CASE OneMode
  <2>1. BehindTurns /\ PassedReady /\ ClaimedServed /\ PolledFresh
    BY <1>1 DEF FairInv
  <2>2. BehindTurns'
    BY <2>1 DEF BehindTurns, Rank
  <2>3. PassedReady'
    <3> SUFFICES ASSUME NEW j \in DOMAIN dev, NEW m \in Modes, overtaken[dev[j]] > 0
                 PROVE  ReadyIn(ring', dev[j], m)
      BY DEF PassedReady, ReadyIn
    <3>1. ReadyIn(ring, dev[j], m)
      BY <2>1 DEF PassedReady
    <3>2. dev[j] \in Devs /\ overtaken[dev[j]] # 0
      BY TurnFacts
    <3>3. \A r \in RxRings : r.dev = dev[j] /\ ring[r].cur # ring[r].tail
                               => ring'[r].cur # ring'[r].tail
      BY <1>1, <3>2
    <3> QED BY <3>1, <3>2, <3>3, ReadyKept
  <2>4. ClaimedServed' /\ PolledFresh'
    BY <2>1 DEF ClaimedServed, PolledFresh
  <2> QED BY <2>2, <2>3, <2>4 DEF FairInv
<1> QED BY <1>1 DEF FairInv, OneMode

\* A reception by name takes no turn.
LEMMA FairByName ==
  ASSUME NetInv, FairInv, NEW j \in DOMAIN dev, UNCHANGED <<dev, last, ring>>,
         overtaken' = [overtaken EXCEPT ![dev[j]] = 0],
         \A c \in priv' : c.ring.dev = dev[j], polling' = {}
  PROVE  FairInv'
<1>1. CASE OneMode
  <2>1. BehindTurns /\ PassedReady
    BY <1>1 DEF FairInv
  <2>2. overtaken \in [Devs -> Nat] /\ dev[j] \in Devs
    BY TurnFacts DEF NetInv, TypeOK
  <2>3. /\ \A i \in DOMAIN dev : overtaken'[dev[i]] = IF i = j THEN 0 ELSE overtaken[dev[i]]
        /\ overtaken'[dev[j]] = 0
    BY <2>2, TurnFacts
  <2>4. BehindTurns'
    <3> SUFFICES ASSUME NEW i \in DOMAIN dev
                 PROVE  overtaken'[dev[i]] + Rank(i) <= Len(dev)
      BY DEF BehindTurns, Rank
    <3>1. overtaken[dev[i]] + Rank(i) <= Len(dev)
      BY <2>1 DEF BehindTurns
    <3>2. Rank(i) \in 1 .. Len(dev) /\ Len(dev) \in Nat
      BY TurnFacts
    <3>3. CASE i = j
      BY <2>3, <3>2, <3>3
    <3>4. CASE i # j
      BY <2>3, <3>1, <3>4
    <3> QED BY <3>3, <3>4
  <2>5. PassedReady'
    BY <2>1, <2>3 DEF PassedReady, ReadyIn
  <2>6. ClaimedServed' /\ PolledFresh'
    BY <2>3 DEF ClaimedServed, PolledFresh
  <2> QED BY <2>4, <2>5, <2>6 DEF FairInv
<1> QED BY <1>1 DEF FairInv, OneMode

\* What Overtake() counts.
LEMMA OvertakeCounts ==
  ASSUME NetInv, NEW j \in DOMAIN dev, NEW mode \in Modes, Overtake(j, mode)
  PROVE  \A i \in DOMAIN dev :
           overtaken'[dev[i]] = IF i # j /\ ReadyIn(ring, dev[i], mode)
                                THEN overtaken[dev[i]] + 1 ELSE 0
<1> TAKE i \in DOMAIN dev
<1>1. dev[i] \in Devs /\ (dev[i] = dev[j] <=> i = j)
  BY TurnFacts
<1>2. Attached(dev[i])
  BY DEF Attached
<1>3. Ready(dev[i], mode) # {} <=> ReadyIn(ring, dev[i], mode)
  BY ReadyMeaning
<1>4. overtaken'[dev[i]] = IF Attached(dev[i]) /\ dev[i] # dev[j] /\ Ready(dev[i], mode) # {}
                           THEN overtaken[dev[i]] + 1 ELSE 0
  BY <1>1 DEF Overtake
<1> QED BY <1>1, <1>2, <1>3, <1>4

\* A turn: those passed over move up by at least one.
LEMMA FairTurn ==
  ASSUME NetInv, FairInv, NEW mode \in Modes, recv_any(mode)
  PROVE  FairInv'
<1>1. CASE OneMode
  <2>1. BehindTurns /\ TableType
    BY <1>1, TurnFacts DEF FairInv
  <2> DEFINE k == First(Turns(mode))
             j == Turn(k)
  <2>2. /\ polling' = {} /\ Claim(j, mode) /\ last' = j /\ Overtake(j, mode)
        /\ UNCHANGED <<dev, ring>> /\ Turns(mode) # {}
    BY DEF recv_any, MayRecv, Serve
  <2>3. /\ j \in DOMAIN dev /\ Ready(dev[j], mode) # {} /\ k \in DOMAIN dev
        /\ \A l \in Turns(mode) : k <= l
    BY <2>1, <2>2, TurnInTable
  <2> HIDE DEF k
  <2>4. \A i \in DOMAIN dev :
          overtaken'[dev[i]] = IF i # j /\ ReadyIn(ring, dev[i], mode)
                               THEN overtaken[dev[i]] + 1 ELSE 0
    BY <2>2, <2>3, OvertakeCounts
  <2>5. \A i \in DOMAIN dev : Rank(i)' \in 1 .. Len(dev)
    <3>1. last' \in Int /\ Len(dev) \in Nat /\ DOMAIN dev = 1 .. Len(dev)
      BY <2>2, <2>3, TurnFacts
    <3> QED BY <2>2, <3>1, RankBound DEF Rank
  <2>6. BehindTurns'
    <3> SUFFICES ASSUME NEW i \in DOMAIN dev
                 PROVE  overtaken'[dev[i]] + Rank(i)' <= Len(dev)
      BY <2>2 DEF BehindTurns, Rank
    <3>1. /\ overtaken[dev[i]] + Rank(i) <= Len(dev) /\ overtaken[dev[i]] \in Nat
          /\ Rank(i) \in 1 .. Len(dev) /\ Len(dev) \in Nat /\ DOMAIN dev = 1 .. Len(dev)
      BY <2>1, TurnFacts DEF BehindTurns
    <3>2. CASE i # j /\ ReadyIn(ring, dev[i], mode)
      <4>1. Turn(Rank(i)) = i
        BY <2>1, RankTurn
      <4>2. Ready(dev[i], mode) # {}
        BY <3>2, ReadyMeaning
      <4>3. Rank(i) \in Turns(mode)
        BY <3>1, <4>1, <4>2 DEF Turns
      <4>4. k < Rank(i)
        <5>1. k <= Rank(i)
          BY <2>3, <4>3
        <5>2. k # Rank(i)
          BY <3>2, <4>1
        <5>3. k \in Int /\ Rank(i) \in Int
          BY <2>3, <3>1
        <5> QED BY <5>1, <5>2, <5>3
      <4>5. k \in 1 .. Len(dev)
        BY <2>3, <3>1
      <4>6. Rank(i)' = Rank(i) - k
        BY <2>1, <2>2, <4>4, <4>5, RankMovesUp
      <4>7. overtaken'[dev[i]] = overtaken[dev[i]] + 1
        BY <2>4, <3>2
      <4> QED BY <3>1, <4>5, <4>6, <4>7
    <3>3. CASE ~(i # j /\ ReadyIn(ring, dev[i], mode))
      <4>1. overtaken'[dev[i]] = 0
        BY <2>4, <3>3
      <4>2. Rank(i)' \in 1 .. Len(dev)
        BY <2>5
      <4> QED BY <3>1, <4>1, <4>2
    <3> QED BY <3>2, <3>3
  <2>7. PassedReady'
    <3> SUFFICES ASSUME NEW i \in DOMAIN dev, NEW m \in Modes, overtaken'[dev[i]] > 0
                 PROVE  ReadyIn(ring, dev[i], m)
      BY <2>2 DEF PassedReady, ReadyIn
    <3>1. m = mode
      BY <1>1 DEF OneMode
    <3> QED BY <2>4, <3>1
  <2>8. ClaimedServed'
    <3>1. \A c \in priv' : c.ring.dev = dev[j]
      BY <2>1, <2>2, <2>3, ClaimDevice
    <3>2. overtaken'[dev[j]] = 0
      BY <2>3, <2>4
    <3> QED BY <3>1, <3>2 DEF ClaimedServed
  <2>9. PolledFresh'
    BY <2>2 DEF PolledFresh
  <2> QED BY <2>6, <2>7, <2>8, <2>9 DEF FairInv
<1> QED BY <1>1 DEF FairInv, OneMode

\* A poll of all: nobody was passed over before, and the served one is last.
LEMMA FairPolledAny ==
  ASSUME NetInv, FairInv, OneMode, NEW j \in DOMAIN dev, NEW mode \in Modes,
         \A i \in DOMAIN dev : overtaken[dev[i]] = 0,
         last' = j, Overtake(j, mode), UNCHANGED <<dev, ring>>, polling' = {},
         \A c \in priv' : c.ring.dev = dev[j]
  PROVE  FairInv'
<1>1. TableType /\ Len(dev) \in Nat /\ DOMAIN dev = 1 .. Len(dev)
  BY TurnFacts
<1>2. \A i \in DOMAIN dev :
        overtaken'[dev[i]] = IF i # j /\ ReadyIn(ring, dev[i], mode) THEN 1 ELSE 0
  BY OvertakeCounts
<1>3. \A i \in DOMAIN dev : Rank(i)' \in 1 .. Len(dev)
  <2>1. last' \in Int
    BY <1>1
  <2> QED BY <1>1, <2>1, RankBound DEF Rank
<1>4. BehindTurns'
  <2> SUFFICES ASSUME NEW i \in DOMAIN dev
               PROVE  overtaken'[dev[i]] + Rank(i)' <= Len(dev)
    BY DEF BehindTurns, Rank
  <2>1. CASE i # j
    <3>1. Rank(i)' <= Len(dev) - 1 /\ Rank(i)' \in Int
      BY <1>1, <2>1, RankNotLast
    <3>2. overtaken'[dev[i]] \in {0, 1}
      BY <1>2
    <3> QED BY <1>1, <3>1, <3>2
  <2>2. CASE i = j
    <3>1. overtaken'[dev[i]] = 0 /\ Rank(i)' \in 1 .. Len(dev)
      BY <1>2, <1>3, <2>2
    <3> QED BY <1>1, <3>1
  <2> QED BY <2>1, <2>2
<1>5. PassedReady'
  <2> SUFFICES ASSUME NEW i \in DOMAIN dev, NEW m \in Modes, overtaken'[dev[i]] > 0
               PROVE  ReadyIn(ring, dev[i], m)
    BY DEF PassedReady, ReadyIn
  <2>1. m = mode
    BY DEF OneMode
  <2> QED BY <1>2, <2>1
<1>6. ClaimedServed' /\ PolledFresh'
  BY <1>2 DEF ClaimedServed, PolledFresh
<1> QED BY <1>4, <1>5, <1>6 DEF FairInv

\* Receptions by name, without polling.
LEMMA FairFrom ==
  ASSUME NetInv, FairInv, NEW name \in Names, NEW mode \in Modes, recv_from(name, mode)
  PROVE  FairInv'
<1> DEFINE j == First(Find(name, "master"))
<1>1. /\ polling' = {} /\ Find(name, "master") # {} /\ Ready(dev[j], mode) # {}
      /\ Claim(j, mode) /\ overtaken' = [overtaken EXCEPT ![dev[j]] = 0]
      /\ UNCHANGED <<dev, last, ring>>
  BY DEF recv_from, MayRecv, table
<1>2. TableType
  BY TurnFacts
<1>3. j \in DOMAIN dev
  BY <1>1, <1>2, FindInTable
<1> HIDE DEF j
<1>4. \A c \in priv' : c.ring.dev = dev[j]
  BY <1>1, <1>2, <1>3, ClaimDevice
<1> QED BY <1>1, <1>3, <1>4, FairByName

\* A poll returns.
LEMMA FairPolled ==
  ASSUME NetInv, FairInv, recv_polled
  PROVE  FairInv'
<1>1. TableType /\ TableConsistent /\ LockInv /\ PollingType
  BY TypeSplit DEF TypeParts
<1>2. PICK c \in polling :
        LET readable == {i \in Polled(c.name) : Readable(fd[i])}
            j == First(readable)
        IN
        /\ readable # {}
        /\ polling' = {}
        /\ IF Ready(dev[j], c.mode) # {} THEN Claim(j, c.mode) ELSE UNCHANGED priv
        /\ IF c.name = "any"
           THEN Serve(j) /\ Overtake(j, c.mode)
           ELSE UNCHANGED last /\ overtaken' = [overtaken EXCEPT ![dev[j]] = 0]
        /\ UNCHANGED <<locked, dev, fd, ring, verdict, wrong>>
  BY DEF recv_polled
<1> DEFINE R == {i \in Polled(c.name) : Readable(fd[i])}
           j == First(R)
<1>3. R \subseteq DOMAIN dev /\ DOMAIN dev \subseteq Nat
  BY <1>1, PolledInTable
<1>4. j \in DOMAIN dev
  BY <1>2, <1>3, FirstOf
<1>5. c.mode \in Modes
  BY <1>1 DEF PollingType
<1>6. priv = {}
  BY <1>1 DEF LockInv
<1>7. /\ IF Ready(dev[j], c.mode) # {} THEN Claim(j, c.mode) ELSE UNCHANGED priv
      /\ IF c.name = "any"
         THEN last' = j /\ Overtake(j, c.mode)
         ELSE UNCHANGED last /\ overtaken' = [overtaken EXCEPT ![dev[j]] = 0]
      /\ polling' = {} /\ UNCHANGED <<dev, ring>>
  BY <1>2 DEF Serve
<1> HIDE DEF j
<1>8. \A x \in priv' : x.ring.dev = dev[j]
  <2>1. CASE Ready(dev[j], c.mode) # {}
    BY <1>1, <1>4, <1>5, <1>7, <2>1, ClaimDevice
  <2>2. CASE Ready(dev[j], c.mode) = {}
    BY <1>6, <1>7, <2>2
  <2> QED BY <2>1, <2>2
<1>9. CASE c.name = "any" /\ OneMode
  <2>1. \A i \in DOMAIN dev : overtaken[dev[i]] = 0
    BY <1>9 DEF FairInv, PolledFresh
  <2> QED BY <1>4, <1>5, <1>7, <1>8, <1>9, <2>1, FairPolledAny
<1>10. CASE c.name # "any"
  BY <1>4, <1>7, <1>8, <1>10, FairByName
<1>11. CASE ~OneMode
  BY <1>11 DEF FairInv, OneMode
<1> QED BY <1>9, <1>10, <1>11

\* A poll starts: when all are polled, none has a packet.
LEMMA FairPoll ==
  ASSUME NetInv, FairInv, NEW name \in Names \cup {"any"}, NEW mode \in Modes,
         recv_poll(name, mode)
  PROVE  FairInv'
<1>1. CASE OneMode
  <2>1. BehindTurns /\ PassedReady /\ ClaimedServed
    BY <1>1 DEF FairInv
  <2>2. /\ UNCHANGED <<dev, last, priv, overtaken>> /\ nm_rxsync(PolledRings(name))
        /\ polling' = {[name |-> name, mode |-> mode]}
        /\ name = "any" => Turns(mode) = {}
    BY DEF recv_poll, table
  <2>3. BehindTurns'
    BY <2>1, <2>2 DEF BehindTurns, Rank
  <2>4. \A r \in RxRings : ring'[r].cur = ring[r].cur /\ ring'[r].tail = ring[r].tail
    <3> TAKE r \in RxRings
    <3>1. r \in Rings /\ ring[r] \in RingType
      BY DEF Rings, NetInv, TypeOK
    <3>2. \/ ring'[r] = ring[r]
          \/ \E f : ring'[r] = [ring[r] EXCEPT !.hw = ring[r].cur, !.slot = f]
      BY <2>2, <3>1 DEF nm_rxsync
    <3> QED BY <3>1, <3>2 DEF RingType
  <2>5. PassedReady'
    <3> SUFFICES ASSUME NEW j \in DOMAIN dev, NEW m \in Modes, overtaken[dev[j]] > 0
                 PROVE  ReadyIn(ring', dev[j], m)
      BY <2>2 DEF PassedReady, ReadyIn
    <3>1. ReadyIn(ring, dev[j], m) /\ dev[j] \in Devs
      BY <2>1, TurnFacts DEF PassedReady
    <3> QED BY <2>4, <3>1, ReadyKept
  <2>6. ClaimedServed'
    BY <2>1, <2>2 DEF ClaimedServed
  <2>7. ASSUME name = "any", NEW j \in DOMAIN dev
        PROVE  overtaken[dev[j]] = 0
    <3>1. TableType /\ Rank(j) \in DOMAIN dev /\ overtaken[dev[j]] \in Nat
      BY TurnFacts
    <3>2. Turn(Rank(j)) = j
      BY <3>1, RankTurn
    <3>3. Ready(dev[j], mode) = {}
      BY <2>2, <2>7, <3>1, <3>2 DEF Turns
    <3>4. ~ReadyIn(ring, dev[j], mode)
      BY <3>3, ReadyMeaning
    <3>5. ~(overtaken[dev[j]] > 0)
      BY <2>1, <3>4 DEF PassedReady
    <3> QED BY <3>1, <3>5
  <2>8. PolledFresh'
    BY <2>2, <2>7 DEF PolledFresh
  <2> QED BY <2>3, <2>5, <2>6, <2>8 DEF FairInv
<1> QED BY <1>1 DEF FairInv, OneMode

\* The claimed packet is released: its device was served just before.
LEMMA FairRelease ==
  ASSUME NetInv, FairInv, \/ peak_netmap_forward
                          \/ peak_netmap_drop
                          \/ \E name \in Names, mode \in Modes : peak_netmap_send(name, mode)
  PROVE  FairInv'
<1>1. priv' = {} /\ UNCHANGED <<dev, last, overtaken, polling>>
  BY DEF peak_netmap_forward, peak_netmap_drop, peak_netmap_send, table, history
<1>2. PICK c \in priv : \A r \in RxRings : r # c.ring => ring'[r] = ring[r]
  <2>1. DOMAIN ring = Rings /\ RxRings \subseteq Rings
    BY DEF NetInv, TypeOK, Rings
  <2>2. CASE peak_netmap_forward
    BY <2>1, <2>2 DEF peak_netmap_forward
  <2>3. CASE peak_netmap_drop
    BY <2>1, <2>3 DEF peak_netmap_drop, Drop
  <2>4. CASE \E name \in Names, mode \in Modes : peak_netmap_send(name, mode)
    <3>1. PICK x \in priv, t \in TxRings : ring' = Swap(x, t)
      BY <2>4, SendRing
    <3>2. \A r \in RxRings : r # t
      BY DEF RxRings, TxRings, Ring
    <3>3. \A r \in RxRings : r # x.ring => ring'[r] = ring[r]
      BY <2>1, <3>1, <3>2 DEF Swap
    <3> QED BY <3>3
  <2> QED BY <2>2, <2>3, <2>4
<1>3. OneMode => overtaken[c.ring.dev] = 0
  BY DEF FairInv, ClaimedServed
<1>4. OneMode => \A r \in RxRings :
        overtaken[r.dev] # 0 /\ ring[r].cur # ring[r].tail => ring'[r].cur # ring'[r].tail
  BY <1>2, <1>3
<1> QED BY <1>1, <1>4, FairRings

\* The kernel receives: no ring is emptied by it.
LEMMA FairArrive ==
  ASSUME NetInv, FairInv, NEW s \in RxRings, nm_arrive(s)
  PROVE  FairInv'
<1>1. /\ nm_ring_next(ring[s].tail) # ring[s].hw
      /\ UNCHANGED <<dev, last, overtaken, priv, polling>>
  BY DEF nm_arrive, table, history
<1>2. s \in Rings /\ ring[s] \in RingType /\ RingOK(ring[s]) /\ DOMAIN ring = Rings
  BY DEF Rings, NetInv, TypeOK, RingsInv
<1>3. PICK p \in Packets :
        ring' = [ring EXCEPT ![s].slot[ring[s].tail] = p, ![s].tail = nm_ring_next(@)]
  BY DEF nm_arrive
<1> DEFINE rs == ring[s]
           q == [rs EXCEPT !.slot[rs.tail] = p, !.tail = nm_ring_next(rs.tail)]
<1>4. ring'[s] = q /\ \A r \in RxRings : r # s => ring'[r] = ring[r]
  BY <1>2, <1>3 DEF Rings
<1>5. rs.tail \in Slots /\ nm_ring_next(rs.tail) \in Slots
  BY <1>2, RingParts, NextValue
<1>6. q \in RingType /\ q.hw = rs.hw /\ q.cur = rs.cur /\ q.tail = nm_ring_next(rs.tail)
  <2> HIDE DEF rs
  <2> QED BY <1>2, <1>5 DEF RingType, rs
<1>7. At(q, q.cur) = At(rs, rs.cur) /\ At(q, q.tail) = At(rs, rs.tail) + 1
  <2> HIDE DEF rs, q
  <2> QED BY <1>1, <1>2, <1>6, Receive DEF rs
<1>8. At(rs, rs.cur) <= At(rs, rs.tail) /\ At(rs, rs.cur) \in Int /\ At(rs, rs.tail) \in Int
  BY <1>2, RingParts, SlotValue DEF RingOK
<1> HIDE DEF rs, q
<1>9. q.cur # q.tail
  BY <1>7, <1>8
<1>10. \A r \in RxRings :
         overtaken[r.dev] # 0 /\ ring[r].cur # ring[r].tail => ring'[r].cur # ring'[r].tail
  BY <1>4, <1>9
<1> QED BY <1>1, <1>10, FairRings

\* The kernel transmits.
LEMMA FairTransmit ==
  ASSUME NetInv, FairInv, NEW s \in TxRings, nm_txsync(s)
  PROVE  FairInv'
<1>1. UNCHANGED <<dev, last, overtaken, priv, polling>>
  BY DEF nm_txsync, table
<1>2. \A r \in RxRings : ring'[r] = ring[r]
  <2>1. DOMAIN ring = Rings /\ RxRings \subseteq Rings
    BY DEF NetInv, TypeOK, Rings
  <2>2. \A r \in RxRings : r # s
    BY DEF RxRings, TxRings, Ring
  <2> QED BY <2>1, <2>2 DEF nm_txsync
<1> QED BY <1>1, <1>2, FairRings

\* The table is empty at first.
LEMMA FairInit == Init => FairInv
BY DEF Init, FairInv, BehindTurns, PassedReady, ClaimedServed, PolledFresh

\* Every step keeps the devices in line.
LEMMA FairNext == NetInv /\ FairInv /\ [Next]_vars => FairInv'
<1> SUFFICES ASSUME NetInv, FairInv, [Next]_vars PROVE FairInv'
  OBVIOUS
<1>1. NetInv'
  BY NetNext
<1>2. CASE \/ \E d \in Devs : peak_netmap_attach(d)
           \/ \E name \in Names : peak_netmap_detach(name)
  BY <1>1, <1>2, FairTable
<1>3. CASE peak_netmap_lock \/ peak_netmap_unlock \/ recv_timeout \/ UNCHANGED vars
  <2>1. UNCHANGED <<dev, last, ring, overtaken, priv>> /\ polling' \subseteq polling
    BY <1>3 DEF peak_netmap_lock, peak_netmap_unlock, recv_timeout, vars, table, history
  <2> QED BY <2>1, FairQuiet
<1>4. CASE \E mode \in Modes : recv_any(mode)
  BY <1>4, FairTurn
<1>5. CASE \E name \in Names, mode \in Modes : recv_from(name, mode)
  BY <1>5, FairFrom
<1>6. CASE \E name \in Names \cup {"any"}, mode \in Modes : recv_poll(name, mode)
  BY <1>6, FairPoll
<1>7. CASE recv_polled
  BY <1>7, FairPolled
<1>8. CASE \/ peak_netmap_forward
           \/ peak_netmap_drop
           \/ \E name \in Names, mode \in Modes : peak_netmap_send(name, mode)
  BY <1>8, FairRelease
<1>9. CASE \E r \in RxRings : nm_arrive(r)
  BY <1>9, FairArrive
<1>10. CASE \E r \in TxRings : nm_txsync(r)
  BY <1>10, FairTransmit
<1> QED BY <1>2, <1>3, <1>4, <1>5, <1>6, <1>7, <1>8, <1>9, <1>10 DEF Next

\* Those in line are never passed over as often as there are devices.
LEMMA FairBound == NetInv /\ FairInv => NoDeviceOvertaken
<1> SUFFICES ASSUME NetInv, FairInv, OneMode, NEW j \in DOMAIN dev
             PROVE  overtaken[dev[j]] < Len(dev)
  BY DEF NoDeviceOvertaken, Attached
<1>1. overtaken[dev[j]] + Rank(j) <= Len(dev)
  BY DEF FairInv, BehindTurns
<1>2. overtaken[dev[j]] \in Nat /\ Rank(j) \in 1 .. Len(dev) /\ Len(dev) \in Nat
  BY TurnFacts
<1> QED BY <1>1, <1>2

(***************************************************************************)
(* peak_netmap_recv() of any device is fair to a caller that sticks to one *)
(* mode, with any number of devices, fruitless polls and receptions by     *)
(* name in between: while the table stays as it is, fewer turns than there *)
(* are devices pass over one that has a packet.                            *)
(***************************************************************************)
THEOREM NetmapFairness == Spec => []NoDeviceOvertaken
BY FairBound, FairInit, FairNext, NetInit, NetNext, PTL DEF Spec
=============================================================================
