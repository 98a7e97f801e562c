---------------------------- MODULE MCPeakBarrier ----------------------------
(* PeakBarrier with a handful of threads; the threads are interchangeable. *)
EXTENDS PeakBarrier, TLC

ThreadSymmetry == Permutations(Threads)
=============================================================================
