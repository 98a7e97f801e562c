\* Two trackers in parallel, one of which must not forget; counters wrap.
CONSTANTS
  Threads = {t1, t2}
  FieldCount = 3
  CounterSize = 3
  Values = {}
  Packets <- MCPackets
  MaxFlows = 2
  NoTimeout = {t2}
  MaxIds = 3
SPECIFICATION Spec
INVARIANTS PoolSound FlowsApart AuditMatchesFlows
PROPERTY ImplementsLRU
