---------------------------- MODULE MCPeakAudit ------------------------------
(* PeakAudit with a few threads and fields; the threads are symmetric.     *)
EXTENDS PeakAudit, TLC

ThreadSymmetry == Permutations(Threads)
=============================================================================
