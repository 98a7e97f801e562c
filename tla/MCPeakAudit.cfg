\* Two threads count and sync; counters are so narrow that they wrap around.
CONSTANTS
  Threads = {t1, t2}
  FieldCount = 2
  CounterSize = 4
  Values = {1, 2}
SYMMETRY ThreadSymmetry
SPECIFICATION AuditSpec
INVARIANT AuditConserved
