----------------------------- MODULE PeakTrackKey ----------------------------
(***************************************************************************)
(* The key of a flow, lib/peak_track.h: both directions of a conversation  *)
(* have the same one.  A packet has at least the fields net_saddr,         *)
(* net_daddr, flow_sport, flow_dport and net_type; addresses, which        *)
(* netcmp() orders with memcmp(), are numbers.                             *)
(***************************************************************************)
EXTENDS Integers

\* A variant that always takes the source as the lower end.
KeyOneWay(p) ==
  [addr |-> <<p.net_saddr, p.net_daddr>>, port |-> <<p.flow_sport, p.flow_dport>>,
   type |-> p.net_type]

\* TRACK_KEY(): the lower address first; the ports follow the addresses.
TRACK_KEY(p) ==
  IF p.net_saddr < p.net_daddr
  THEN [addr |-> <<p.net_saddr, p.net_daddr>>,
        port |-> <<p.flow_sport, p.flow_dport>>, type |-> p.net_type]
  ELSE [addr |-> <<p.net_daddr, p.net_saddr>>,
        port |-> <<p.flow_dport, p.flow_sport>>, type |-> p.net_type]
=============================================================================
