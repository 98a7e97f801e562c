--------------------------- MODULE MCPeakFlowsplit ---------------------------
(* PeakFlowsplit with short files of every format, whole and cut off.      *)
EXTENDS PeakFlowsplit

Over(proto, s, d, sp, dp) ==
  [net_saddr |-> s, net_daddr |-> d, flow_sport |-> sp, flow_dport |-> dp,
   net_type |-> proto]

From(s, d, sp, dp) == Over(6, s, d, sp, dp)

NoPacket == From(0, 0, 0, 0)

Pkt(hdr, ll, packet, cap, orig) ==
  [type |-> 6, ip |-> hdr > 0, hdr |-> hdr, ll |-> ll, packet |-> packet,
   cap |-> cap, orig |-> orig]

\* Both ways of a conversation, one of them cut short; two more, one of them
\* over UDP and one of a host with itself; no IP; and packets that are empty,
\* of which nothing was captured, or too large, as captured or on the wire.
Packets(ll) ==
  {Pkt(2, ll, From(1, 2, 80, 90), 2, 2), Pkt(1, ll, From(2, 1, 90, 80), 1, 3),
   Pkt(1, ll, Over(17, 1, 2, 80, 90), 1, 1), Pkt(1, ll, From(3, 3, 80, 90), 3, 3),
   Pkt(0, ll, NoPacket, 1, 1), Pkt(0, ll, NoPacket, 0, 0),
   Pkt(0, ll, NoPacket, 0, 1), Pkt(0, ll, NoPacket, 0, 2),
   Pkt(1, ll, From(1, 2, 80, 90), 7, 7), Pkt(1, ll, From(1, 2, 80, 90), 2, 7)}

\* A PCAP reader does not look at the length on the wire.
Captured(ll) == {p \in Packets(ll) : p.cap = 0 => p.orig = 0}

Block(type, ll, cap) ==
  [type |-> type, ip |-> FALSE, hdr |-> 0, ll |-> ll, packet |-> NoPacket,
   cap |-> cap, orig |-> 0]

Sll == 113

\* What may be in a PCAPNG file: interfaces, and blocks of another type.
Blocks ==
  {Pkt(2, 1, From(1, 2, 80, 90), 2, 2), Pkt(1, 1, From(2, 1, 90, 80), 1, 3),
   Pkt(1, Sll, From(1, 3, 80, 90), 1, 1), Pkt(0, 1, NoPacket, 0, 2),
   Pkt(1, 1, From(2, 1, 90, 80), 1, 7),
   [Pkt(1, 1, From(1, 2, 80, 90), 2, 2) EXCEPT !.type = 2],
   Block(1, 1, 3), Block(1, Sll, 3), Block(5, 0, 2), Block(5, 0, 0), Block(5, 0, 7)}

Input(fmt, version, ll, items, cut) ==
  [fmt |-> fmt, version |-> version, ll |-> ll, items |-> items, cut |-> cut]

Upto(S, n) == UNION {[1 .. k -> S] : k \in 0 .. n}

MCInputs ==
     {Input("pcap", <<2, 4>>, 1, items, cut) : items \in Upto(Captured(1), 3), cut \in 0 .. 2}
  \cup {Input("pcap_swap", <<2, 4>>, Sll, items, cut) : items \in Upto(Captured(Sll), 2), cut \in 0 .. 1}
  \cup {Input("erf", <<>>, 1, items, cut) : items \in Upto(Packets(1), 2), cut \in 0 .. 1}
  \cup {Input("netmon", v, ll, items, cut) :
         v \in {<<2, 0>>, <<1, 1>>}, ll \in {1, 2}, items \in Upto(Packets(1), 2), cut \in 0 .. 1}
  \cup {Input("pcapng", <<1, 0>>, 0, items, cut) : items \in Upto(Blocks, 3), cut \in 0 .. 2}

\* Files that end within their header are none of the tools'.
MCFiles == {in \in MCInputs : in.cut <= Len(FlattenSeq(Records(in)))}
=============================================================================
