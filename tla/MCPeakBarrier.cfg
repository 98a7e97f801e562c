\* Three threads join, leave and go round the barrier in any order, spurious
\* wakeups included.  No symmetry, since one of the properties is temporal.
CONSTANTS
  Threads = {t1, t2, t3}
  UintSize = 8
SPECIFICATION FairBarrierSpec
INVARIANTS CountersExact OneSerialThread SerialExclusion
PROPERTY BlockedRunsAgain
