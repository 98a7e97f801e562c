----------------------------- MODULE PeakThreads -----------------------------
(***************************************************************************)
(* The threads of a program that uses libpeak: those that may register     *)
(* with a barrier, or share a token bucket.  There are finitely many.      *)
(***************************************************************************)
EXTENDS FiniteSets

CONSTANT Threads

ASSUME ThreadsAssumption == IsFiniteSet(Threads)
=============================================================================
