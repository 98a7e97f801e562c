-------------------------- MODULE MCPeakStreamProbe --------------------------
(* PeakStreamProbe over every set of free pages of a small pool.           *)
EXTENDS PeakStreamProbe

MCRequests == -2 .. 4
=============================================================================
