SPECIFICATION Spec
CONSTANTS
  Intents = {1, 2}
  None = None
  MaxTxs = 4
  Workloads <- OneLoad
INVARIANT DepositIsOwn
CHECK_DEADLOCK FALSE
