\* Two microseconds per millisecond, two of those per second; three tokens.
SPECIFICATION Spec
CONSTANTS
  Res = 2
  Leap = 2
  MaxTime = 8
  MaxLeaps = 1
  Threads = {t1, t2}
  Rate = 3
  Wants = {1, 4}
  MaxCalls = 3
SYMMETRY ThreadSymmetry
CHECK_DEADLOCK FALSE
INVARIANTS DriftBounded CreditSound RoundingBounded
PROPERTY ClocksForward
