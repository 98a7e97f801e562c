------------------------------ MODULE PeakPages ------------------------------
(***************************************************************************)
(* What the two models of lib/peak_stream.c have in common: the pages of a *)
(* pool, and the tree that keeps the free ones in the order of their       *)
(* index.                                                                  *)
(***************************************************************************)
EXTENDS Integers

CONSTANT PageCount  \* self->page_count

ASSUME PageAssumption == PageCount \in Nat \ {0}

VARIABLE tree  \* self->page_tree: indices of the free pages

Pages == 0 .. PageCount - 1

\* A run of n pages from page p on; empty when n is not positive.
Run(p, n) == p .. p + n - 1
=============================================================================
