---------------------------- MODULE MCPeakNetmap -----------------------------
(* PeakNetmap with a few devices and packets.                              *)
EXTENDS PeakNetmap
=============================================================================
