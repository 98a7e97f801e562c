------------------------------ MODULE MCPeakGeo ------------------------------
(***************************************************************************)
(* PeakGeo with disjoint ranges, one that overlaps two of them, and one    *)
(* whose location is not known.                                            *)
(***************************************************************************)
EXTENDS PeakGeo

Csv(a, b, loc) == [min |-> a, max |-> b, location |-> loc]

MCEntries ==
  {Csv(1, 1, 1), Csv(2, 3, 2), Csv(4, 4, 3), Csv(6, 6, 1), Csv(7, 7, 2),
   Csv(8, 8, 3), Csv(7, 8, 1), Csv(5, 5, 0)}
=============================================================================
