SPECIFICATION Spec
CONSTANTS
  Markets <- TwoMarkets
  MaxRequests = 1
  Payloads <- SomePayloads
  PayloadOf <- SamePayload
  Withdrawals <- NoWithdrawal
  None = None
  Workloads <- EqualLoad
  p1 = p1
  p2 = p2
  w1 = w1
INVARIANTS
  ReimbursedOnce
CHECK_DEADLOCK FALSE
