SPECIFICATION Spec
CONSTANTS
  Deposits = {d1, d2}
  Hashes = {h1}
  None = None
  Window = 1
  Delay = 1
  MaxProposals = 2
  Workloads <- AllLoads
  d1 = d1
  d2 = d2
  h1 = h1
INVARIANTS
  TypeOK
  NothingLostUntilFailure
  OneExecutionInFlight
  TimelockActsOnce
PROPERTIES
  TimelockFires
  ReadyIsExecuted
CHECK_DEADLOCK FALSE
