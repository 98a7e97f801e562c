------------------------------ MODULE PeakPeek -------------------------------
(***************************************************************************)
(* bin/peek: every packet of a trace file is parsed (PeakPacket), given to *)
(* its flow (the tracker as PeakTrackLRU specifies it, told not to forget) *)
(* and inspected (PeakLi), each direction of the flow until it has a       *)
(* label; then a line is printed with the label both directions share.     *)
(***************************************************************************)
EXTENDS PeakPacket, PeakTrackKey

CONSTANTS
  Traces,   \* trace files: sequences of frames
  MaxFlows  \* max_flows of the tracker

ASSUME PeekAssumption == MaxFlows \in Nat \ {0}
ASSUME TracesAssumption ==
  \A t \in Traces : t \in Seq(Range(t)) /\ \A f \in Range(t) : IsFrame(f)

VARIABLES
  trace,   \* the frames still to be read
  flows,   \* the tracker: flows [key, id, li], least recently used first
  next_id, \* next_flow_id
  drops,   \* the packet drop counters of peak_audit
  packet,  \* the packet the loop works on, and whether it was parsed
  shown,   \* what was printed for it: [flow, app], or nothing
  frame,   \* history: the frame that was read last, if any
  pc       \* "run", "exit", "panic", or "endless"

vars == <<trace, flows, next_id, drops, packet, shown, frame, pc>>

DropFields == {"LINK", "IPV4", "IPV6", "ICMP", "TCP", "UDP"}
Nothing == [flow |-> -1, app |-> ""]
NoPacket == [ret |-> "none"]

Init ==
  /\ trace \in Traces
  /\ flows = <<>>
  /\ next_id = 0
  /\ drops = [d \in DropFields |-> 0]
  /\ packet = NoPacket
  /\ shown = Nothing
  /\ frame = <<>>
  /\ pc = "run"

\* TRACK_KEY() and peak_track_acquire(): the table with the flow at its end.
Acquired(k) ==
  LET n == SelectInSeq(flows, LAMBDA f : f.key = k) IN
  IF n # 0 THEN Append(RemoveAt(flows, n), flows[n])
  ELSE Append(flows, [key |-> k, id |-> next_id, li |-> <<0, 0>>])

Known(k) == \E n \in DOMAIN flows : flows[n].key = k

\* The direction of the packet in its flow: 1 from the lower address.
Direction(p, f) == IF p.net_saddr = f.key.addr[1] THEN 1 ELSE 2

\* A variant that inspects every packet.
InspectAlways(p, f) == [f EXCEPT !.li[Direction(p, f)] = peak_li_get(p)]

\* The first label of a direction is kept.
Inspect(p, f) ==
  LET dir == Direction(p, f) IN
  IF f.li[dir] = LI_UNKNOWN THEN [f EXCEPT !.li[dir] = peak_li_get(p)] ELSE f

\* The next packet of the loop in main().
Load ==
  /\ pc = "run"
  /\ trace # <<>>
  /\ trace' = Tail(trace)
  /\ packet' = peak_packet_parse(Head(trace))
  /\ frame' = <<Head(trace)>>

\* Packets that could not be parsed, or hold no IP, are skipped.
Skip ==
  \/ packet'.ret = "drop"
  \/ packet'.ret = "ok" /\ packet'.packet.net_len = 0

\* peak_audit_inc() in the parser.
CountDrop ==
  drops' = [d \in DropFields |-> IF packet'.drop = d THEN drops[d] + 1 ELSE drops[d]]

SkipPacket ==
  /\ Load
  /\ CountDrop
  /\ Skip
  /\ shown' = Nothing
  /\ UNCHANGED <<flows, next_id, pc>>

\* peek_packet() with a packet whose flow fits into the tracker.
peek_packet ==
  /\ Load
  /\ CountDrop
  /\ packet'.ret = "ok" /\ ~Skip
  /\ \E p \in {packet'.packet} : \E k \in {TRACK_KEY(p)} :
     \E f \in {Inspect(p, Last(Acquired(k)))} :
       /\ Known(k) \/ Len(flows) < MaxFlows
       /\ flows' = Append(Front(Acquired(k)), f)
       /\ next_id' = IF Known(k) THEN next_id ELSE next_id + 1
       /\ shown' = [flow |-> f.id, app |-> peak_li_name(peak_li_merge(f.li))]
       /\ pc' = IF shown'.app = "panic" THEN "panic" ELSE pc

\* panic("tracker is empty")
TrackerFull ==
  /\ Load
  /\ CountDrop
  /\ packet'.ret = "ok" /\ ~Skip
  /\ ~Known(TRACK_KEY(packet'.packet)) /\ Len(flows) = MaxFlows
  /\ pc' = "panic"
  /\ shown' = Nothing
  /\ UNCHANGED <<flows, next_id>>

\* The parser does not come back.
ParserLoops ==
  /\ Load
  /\ CountDrop
  /\ packet'.ret = "endless"
  /\ pc' = "endless"
  /\ shown' = Nothing
  /\ UNCHANGED <<flows, next_id>>

\* peak_load_packet() returns 0: the tracker is released.
Exit ==
  /\ pc = "run"
  /\ trace = <<>>
  /\ pc' = "exit"
  /\ flows' = <<>>
  /\ shown' = Nothing
  /\ UNCHANGED <<trace, next_id, drops, packet, frame>>

Next == SkipPacket \/ peek_packet \/ TrackerFull \/ ParserLoops \/ Exit

Spec == Init /\ [][Next]_vars
-----------------------------------------------------------------------------
TypeOK ==
  /\ \A n \in DOMAIN flows :
       /\ flows[n].id \in 0 .. next_id - 1
       /\ flows[n].li \in (0 .. Len(Labels)) \X (0 .. Len(Labels))
  /\ drops \in [DropFields -> Nat]
  /\ pc \in {"run", "exit", "panic", "endless"}

\* The packet the loop works on was parsed and is IP.
Usable == packet.ret = "ok" /\ packet.packet.net_len > 0

(***************************************************************************)
(* The layers of a parsed packet nest: IP header, transport header and     *)
(* payload follow each other and end where the IP packet ends, so that no  *)
(* length has wrapped around.  Of an IPv6 packet this is only true when    *)
(* its length covers its extension headers: the parser does not compare    *)
(* the two.                                                                *)
(***************************************************************************)
LayersNest ==
  LET p == packet.packet IN
  /\ Usable
  /\ p.net_type \in {IPPROTO_TCP, IPPROTO_UDP, IPPROTO_ICMP}
  /\ p.mac_type = ETHERTYPE_IPV6 => p.net_hlen <= p.net_len
  => p.net_hlen + p.flow_hlen + p.app_len = p.net_len

(***************************************************************************)
(* The parser comes back from every frame, with one exception: a variable  *)
(* IPv6 extension header of length 0 is not stepped over, and when it      *)
(* announces another one the walk reads it again and again.                *)
(***************************************************************************)
ParserReturns ==
  pc = "endless" =>
    \E hdr \in Range(frame[1].net.ext) : hdr.len = 0 /\ hdr.nxt \in VariableHeaders

\* The packet that goes the other way.
Reversed(p) == [p EXCEPT !.flow_sport = p.flow_dport, !.flow_dport = p.flow_sport]

(***************************************************************************)
(* "This library tries to be as blunt as possible in matching both sides   *)
(* equally" (peak_li.3): the label does not depend on the direction the    *)
(* bytes were sent in.                                                     *)
(***************************************************************************)
DirectionBlind ==
  Usable => peak_li_get(packet.packet) = peak_li_get(Reversed(packet.packet))

\* The two signatures that look one byte behind the bytes they checked for.
EndsAtLastByte(p) ==
  \/ p.net_type = IPPROTO_TCP /\ p.app_len = 8 + Byte(p, 7)
  \/ p.net_type = IPPROTO_UDP /\ p.app_len = 7 + Byte(p, 6) + 2

(***************************************************************************)
(* What lies behind a payload has no say in its label.  LDAP and SNMP are  *)
(* left out where the payload ends with the length they checked: there     *)
(* they look at the byte behind it.                                        *)
(***************************************************************************)
LooksInside ==
  Usable /\ ~EndsAtLastByte(packet.packet) =>
    \A b \in {0, 2, 97, 255} :
      peak_li_get([packet.packet EXCEPT !.app.behind = b]) = peak_li_get(packet.packet)

(***************************************************************************)
(* peak_li_get() and peak_li_test() agree: the label that was found passes *)
(* its own test, and "undefined" means that no application does.           *)
(***************************************************************************)
GetPassesTest ==
  LET p == packet.packet
      label == peak_li_get(p) IN
  Usable =>
    /\ label > LI_UNDEFINED => peak_li_test(p, label)
    /\ label = LI_UNDEFINED => \A l \in DOMAIN Labels : ~peak_li_test(p, l)

(***************************************************************************)
(* A label that is printed has a name, and a policy that names it means    *)
(* the same label: enumeration and table agree both ways.                  *)
(***************************************************************************)
NamesRoundTrip ==
  \A n \in DOMAIN flows :
    LET label == peak_li_merge(flows[n].li) IN
    peak_li_number(peak_li_name(label)) = label

\* The ports of these protocols that one side of the packet alone uses.
Wellknown(p) ==
  IF p.flow_sport = p.flow_dport THEN {}
  ELSE {p.flow_sport, p.flow_dport} \cap {21, 25, 110, 194, 465, 587, 6667}

(***************************************************************************)
(* The excluded ports keep protocols apart that begin with the same words: *)
(* "USER" and "220" on the port of FTP are FTP, on those of POP3 and SMTP  *)
(* or of IRC they are never FTP or the other of the two; SMTP, which       *)
(* excludes the port of FTP alone, may still come first there.  Of two     *)
(* such ports the one may rule out what the other stands for, as that of   *)
(* SMTP does with FTP, and then no label need be left.                     *)
(***************************************************************************)
PortsSeparate ==
  LET p == packet.packet IN
  /\ Usable
  /\ p.net_type = IPPROTO_TCP
  /\ p.app.text \in {"USER", "220 "} /\ p.app_len >= 4
  => \A port \in Wellknown(p) : Wellknown(p) = {port} =>
       \/ port = 21 /\ peak_li_get(p) = LI("ftp")
       \/ port \in {25, 110, 465, 587} /\ peak_li_get(p) \in {LI("pop3"), LI("smtp")}
       \/ port \in {194, 6667} /\ peak_li_get(p) \in {LI("irc"), LI("smtp")}

\* The label of flow id in table T, LI_UNKNOWN when it is not there.
LabelIn(T, id) ==
  LET n == SelectInSeq(T, LAMBDA f : f.id = id) IN
  IF n = 0 THEN LI_UNKNOWN ELSE peak_li_merge(T[n].li)

(***************************************************************************)
(* The label of a flow is "remembered for all subsequent packets of the    *)
(* same flow" (peek.1), in the sense the two directions allow: it is never *)
(* taken back, "undefined" is final, and an application gives way only to  *)
(* one that comes later in the enumeration.                                *)
(***************************************************************************)
LabelRemembered ==
  [][\A n \in DOMAIN flows :
       pc' # "exit" =>
         LET old == peak_li_merge(flows[n].li)
             new == LabelIn(flows', flows[n].id) IN
         /\ new >= old
         /\ old = LI_UNDEFINED => new = old]_vars

(***************************************************************************)
(* peak_packet_parse() comes back from every frame but one kind, and with  *)
(* layers that fit into each other.                                        *)
(***************************************************************************)
ParserSound == TypeOK /\ LayersNest /\ ParserReturns

(***************************************************************************)
(* A label is decided by the payload: neither by the direction the packet  *)
(* went nor by the memory behind it.                                       *)
(***************************************************************************)
PayloadDecides == DirectionBlind /\ LooksInside

(***************************************************************************)
(* Labels mean one thing: finding and testing, naming and numbering agree, *)
(* and the well-known ports keep look-alikes apart.                        *)
(***************************************************************************)
LabelsAgree == GetPassesTest /\ NamesRoundTrip /\ PortsSeparate
=============================================================================
