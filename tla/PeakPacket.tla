----------------------------- MODULE PeakPacket ------------------------------
(***************************************************************************)
(* The packet parser of lib/peak_packet.c.                                 *)
(*                                                                         *)
(* A frame is described by the fields the parser looks at: type (of the    *)
(* link), ether (type), tag (the type behind a VLAN tag), net (the IP      *)
(* header), flow (the transport header, flow_at bytes behind the start of  *)
(* the IP header), stray (what a transport header reads as anywhere else)  *)
(* and app (the payload, see PeakLi).  IPv6 extension headers sit at their *)
(* offsets in net.ext.  Lengths keep the width they have in the code.      *)
(***************************************************************************)
EXTENDS PeakLi

CONSTANT MaxHeaders  \* bound: steps of the walk over IPv6 extension headers

ASSUME PacketAssumption == MaxHeaders \in Nat \ {0, 1}

LINKTYPE_NULL      == 0
LINKTYPE_ETHERNET  == 1
LINKTYPE_LINUX_SLL == 113
ETHERTYPE_IP   == 2048
ETHERTYPE_IPV6 == 34525
ETHERTYPE_VLAN == 33024

IPPROTO_FRAGMENT == 44
IPPROTO_NONE     == 59
VariableHeaders == {0, 43, 60, 50, 51}  \* HOPOPTS, ROUTING, DSTOPTS, ESP, AH

Uint8(x) == x % 256
Uint16(x) == x % 65536

(***************************************************************************)
(* What a frame is: a header field holds what fits into its bits.  The     *)
(* walk over IPv6 extension headers passes eight bytes or more in any two  *)
(* rounds that get it anywhere, so MaxHeaders rounds see all of a frame.   *)
(***************************************************************************)
Below(x, n) == x \in Nat /\ x < n

IPv4Header(ip) ==
  /\ Below(ip.v, 16) /\ Below(ip.hl, 16) /\ Below(ip.len, 65536) /\ Below(ip.p, 256)
  /\ ip.src \in Nat /\ ip.dst \in Nat

IPv6Header(ip) ==
  /\ Below(ip.plen, 65536) /\ Below(ip.nxt, 256)
  /\ ip.src \in Nat /\ ip.dst \in Nat
  /\ \A off \in DOMAIN ip.ext :
       /\ Below(ip.ext[off].nxt, 256) /\ Below(ip.ext[off].len, 256)
       /\ off \in Nat /\ off < 40 + 4 * (MaxHeaders - 3)

TransportHeader(h) ==
  /\ Below(h.sport, 65536) /\ Below(h.dport, 65536) /\ Below(h.ulen, 65536)
  /\ Below(h.off, 16)

\* The words of a payload are its first bytes.
Spells(app, word, bytes) ==
  app.text = word => \A i \in 0 .. 3 : i \in DOMAIN app.at /\ app.at[i] = bytes[i + 1]

Payload(app) ==
  /\ \A i \in DOMAIN app.at : Below(app.at[i], 256)
  /\ Below(app.behind, 256)
  /\ Spells(app, "USER", <<85, 83, 69, 82>>) /\ Spells(app, "220 ", <<50, 50, 48, 32>>)

\* memset(): the packet before anything is known of it.
Blank(f) ==
  [mac_type |-> 0, net_saddr |-> 0, net_daddr |-> 0, net_type |-> 0,
   net_hlen |-> 0, net_len |-> 0, flow_hlen |-> 0, flow_len |-> 0,
   flow_sport |-> 0, flow_dport |-> 0, app_len |-> 0, app |-> f.app,
   flow |-> f.flow]

\* What a parse returns: 0, 1 after counting a drop, or never.
Parsed(p) == [ret |-> "ok", drop |-> "none", packet |-> p]
Dropped(p, field) == [ret |-> "drop", drop |-> field, packet |-> p]
Endless(p) == [ret |-> "endless", drop |-> "none", packet |-> p]
-----------------------------------------------------------------------------
\* The extension header that starts off bytes behind the IP header's start.
Extension(f, off) ==
  IF off \in DOMAIN f.net.ext THEN f.net.ext[off] ELSE [nxt |-> IPPROTO_NONE, len |-> 0]

\* A variant that does not step over a fragment header.
RoundStays(f, w) ==
  LET hdr == Extension(f, w.off) IN
  IF w.state = "walk" /\ w.type = IPPROTO_FRAGMENT
  THEN [w EXCEPT !.type = hdr.nxt, !.hlen = Uint8(@ + 8)]
  ELSE [w EXCEPT !.state = "end"]

\* One round of the loop: w is next_type, next_hdr as an offset, and net_hlen.
IPv6Round(f, w) ==
  LET hdr == Extension(f, w.off) IN
  CASE w.state # "walk" -> w
    [] w.state = "walk" /\ w.type \in VariableHeaders ->
         IF hdr.len % 8 # 0 THEN [w EXCEPT !.state = "drop"]
         ELSE [w EXCEPT !.type = hdr.nxt, !.off = @ + hdr.len,
                        !.hlen = Uint8(@ + hdr.len)]
    [] w.state = "walk" /\ w.type = IPPROTO_FRAGMENT ->
         [w EXCEPT !.type = hdr.nxt, !.off = @ + 8, !.hlen = Uint8(@ + 8)]
    [] OTHER -> [w EXCEPT !.state = "end"]

\* The walk; one that takes more than MaxHeaders rounds goes in circles.
IPv6Walk(f) ==
  LET start == [type |-> f.net.nxt, off |-> 40, hlen |-> 40, state |-> "walk"]
      round[n \in 0 .. MaxHeaders] ==
        IF n = 0 THEN start ELSE IPv6Round(f, round[n - 1])
  IN round[MaxHeaders]

\* The transport header that is found behind net_hlen bytes.
Transport(f, p) == IF p.net_hlen = f.flow_at THEN f.flow ELSE f.stray

\* The payload begins behind flow_hlen bytes of transport header.
WithFlow(p, h, flow_hlen) ==
  [p EXCEPT !.app_len = Uint16(p.flow_len - flow_hlen), !.flow_hlen = flow_hlen,
            !.flow_sport = h.sport, !.flow_dport = h.dport]

\* A variant that forgets to compare with what the IP header announced.
udpUnchecked(p, h) ==
  IF h.sport = 0 \/ h.dport = 0 \/ h.ulen = 0 \/ h.ulen < 8
  THEN Dropped(p, "UDP") ELSE Parsed(WithFlow(p, h, 8))

peak_packet_udp(p, h) ==
  IF \/ p.flow_len < 8
     \/ h.sport = 0 \/ h.dport = 0
     \/ h.ulen = 0 \/ h.ulen < 8
  THEN Dropped(p, "UDP")
  ELSE Parsed(WithFlow(p, h, 8))

\* The combinations of flags no TCP sends.
BadFlags(flags) ==
  \/ "SYN" \in flags /\ "RST" \in flags
  \/ "SYN" \notin flags /\ flags \cap {"ACK", "RST"} = {}
  \/ "ACK" \notin flags /\ flags \cap {"FIN", "PUSH", "URG"} # {}

peak_packet_tcp(p, h) ==
  LET flow_hlen == 4 * h.off IN
  IF \/ flow_hlen < 20 \/ flow_hlen > 60
     \/ flow_hlen > p.flow_len
     \/ h.sport = 0 \/ h.dport = 0
     \/ BadFlags(h.flags)
  THEN Dropped(p, "TCP")
  ELSE Parsed(WithFlow(p, h, flow_hlen))

ICMP_MINLEN == 8

ParseIcmp(p) ==
  IF p.flow_len < ICMP_MINLEN THEN Dropped(p, "ICMP")
  ELSE Parsed([p EXCEPT !.app_len = p.flow_len - ICMP_MINLEN, !.flow_hlen = ICMP_MINLEN])

\* The next header's start and length, and the protocols known there.
ParseFlow(f, q) ==
  LET p == [q EXCEPT !.flow_len = Uint16(q.net_len - q.net_hlen)] IN
  CASE p.net_type = IPPROTO_TCP  -> peak_packet_tcp(p, Transport(f, p))
    [] p.net_type = IPPROTO_UDP  -> peak_packet_udp(p, Transport(f, p))
    [] p.net_type = IPPROTO_ICMP -> ParseIcmp(p)
    [] OTHER -> Parsed(p)

\* Into an IPv4 packet.
ParseIPv4(f, p) ==
  LET ip == f.net
      ip_hlen == 4 * ip.hl IN
  IF ip.v # 4 \/ ip_hlen < 20 \/ ip.len < ip_hlen
  THEN Dropped(p, "IPV4")
  ELSE ParseFlow(f, [p EXCEPT !.net_saddr = ip.src, !.net_daddr = ip.dst,
                              !.net_type = ip.p, !.net_hlen = ip_hlen,
                              !.net_len = ip.len])

\* Into an IPv6 packet.
peak_packet_ipv6(f, p) ==
  LET w == IPv6Walk(f)
      q == [p EXCEPT !.net_saddr = f.net.src, !.net_daddr = f.net.dst,
                     !.net_len = Uint16(40 + f.net.plen), !.net_hlen = w.hlen] IN
  CASE w.state = "drop" -> Dropped(q, "IPV6")
    [] w.state = "end"  -> ParseFlow(f, [q EXCEPT !.net_type = w.type])
    [] w.state = "walk" -> Endless(q)

\* The type of what the frame carries; a VLAN tag is looked behind once.
MacType(f) ==
  CASE f.type = LINKTYPE_NULL -> ETHERTYPE_IP
    [] f.type = LINKTYPE_ETHERNET -> IF f.ether = ETHERTYPE_VLAN THEN f.tag ELSE f.ether
    [] f.type = LINKTYPE_LINUX_SLL -> f.ether

LinkTypes == {LINKTYPE_NULL, LINKTYPE_ETHERNET, LINKTYPE_LINUX_SLL}

IsFrame(f) ==
  /\ Below(f.ether, 65536) /\ Below(f.tag, 65536)
  /\ f.type \in LinkTypes =>
       /\ MacType(f) = ETHERTYPE_IP => IPv4Header(f.net)
       /\ MacType(f) = ETHERTYPE_IPV6 => IPv6Header(f.net)
  /\ TransportHeader(f.flow) /\ TransportHeader(f.stray)
  /\ Payload(f.app)

\* Anything but IP parses well, with net_len 0 to tell.
peak_packet_parse(f) ==
  IF f.type \notin LinkTypes
  THEN Dropped(Blank(f), "LINK")
  ELSE LET p == [Blank(f) EXCEPT !.mac_type = MacType(f)] IN
       CASE p.mac_type = ETHERTYPE_IP   -> ParseIPv4(f, p)
         [] p.mac_type = ETHERTYPE_IPV6 -> peak_packet_ipv6(f, p)
         [] OTHER -> Parsed(p)
=============================================================================
