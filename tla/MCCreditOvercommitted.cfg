\* Two intents, credit for one of them, and one call of a tool that fails.
SPECIFICATION Spec
CONSTANTS
  Intents = {1, 2}
  None = None
  MaxTxs = 2
  Workloads <- OneFailure
INVARIANTS
  ExposureCovered
CHECK_DEADLOCK FALSE
