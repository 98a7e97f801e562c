---------------------------- MODULE MCPeakTrack ------------------------------
(* PeakTrack with two conversations, both of them in both ways.            *)
EXTENDS PeakTrack

Packet(s, d, sp, dp) ==
  [net_saddr |-> s, net_daddr |-> d, flow_sport |-> sp, flow_dport |-> dp,
   net_type |-> 6]

\* A conversation both ways, and one between two ports of a single host.
MCPackets ==
  {Packet(1, 2, 80, 90), Packet(2, 1, 90, 80), Packet(1, 1, 80, 90),
   Packet(1, 1, 90, 80)}
=============================================================================
