\* Claims and releases of any size: five streams on four pages of two,
\* so that all pages can have a stream and one more asks.
CONSTANTS
  PageCount = 4
  PageSize = 2
  Refs = {r1, r2, r3, r4, r5}
  ClaimSizes = {1, 2, 3, 4, 5}
  ReleaseSizes = {1, 2, 3, 4}
SYMMETRY RefSymmetry
SPECIFICATION Spec
INVARIANTS PagesOwnedOnce ReferencesExact InBoundsByPage NothingLost
PROPERTY GrowKeepsData
CHECK_DEADLOCK FALSE
