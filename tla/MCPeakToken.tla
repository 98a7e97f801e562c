----------------------------- MODULE MCPeakToken -----------------------------
(* PeakToken with a coarse clock, so that seconds pass within a few steps. *)
EXTENDS PeakToken, TLC

ThreadSymmetry == Permutations(Threads)
=============================================================================
