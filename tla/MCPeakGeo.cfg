\* All orders of the input, as long as it fits into six chunks.
SPECIFICATION Spec
CONSTANTS
  Entries <- MCEntries
  PoolSize = 6
  Addresses = {1, 2, 3, 4, 5, 6, 7, 8}
CHECK_DEADLOCK FALSE
INVARIANTS TreeSound FileComplete LookupSound
PROPERTY WriteEnds
