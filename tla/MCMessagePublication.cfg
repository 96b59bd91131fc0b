SPECIFICATION FairSpec
CONSTANTS
  k1 = k1
  k2 = k2
  b1 = b1
  b2 = b2
  s1 = s1
  Handlers = {1, 2, 3}
  Keys = {k1, k2}
  Bodies = {b1, b2}
  Streams = {s1}
  NoStream = NoStream
  None = None
  Requests <- AllRequests
  Workloads <- BothWorkloads
  MaxFailures <- BothBudgets
  MaxCrashes = 1
INVARIANTS TypeOK AnsweredCidIsDurable OneCidUntilCrash SequenceUniqueUntilFailure
PROPERTIES LedgerSpec EveryRequestAnswered
CHECK_DEADLOCK FALSE
