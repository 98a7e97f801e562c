------------------------------ MODULE MCPeakJar ------------------------------
(***************************************************************************)
(* Jars of a few hundred bytes with the block headers of a 64-bit build.   *)
(***************************************************************************)
EXTENDS PeakJar
=============================================================================
