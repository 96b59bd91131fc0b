SPECIFICATION Spec
CONSTANTS
  Intents = {1, 2}
  None = None
  MaxTxs = 4
  Workloads <- AllLoads
INVARIANTS
  TypeOK
  OncePerIntent
  DepositIsReal
  BelievedReimbursed
PROPERTIES
  CreditSpec
CHECK_DEADLOCK FALSE
