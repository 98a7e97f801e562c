---------------------------- MODULE MCPeakStream -----------------------------
(* PeakStream with a few pages and references; references are symmetric.   *)
EXTENDS PeakStream, TLC

RefSymmetry == Permutations(Refs)
=============================================================================
