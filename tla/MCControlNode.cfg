SPECIFICATION FairSpec
CONSTANTS
  Markets <- TwoMarkets
  MaxRequests = 2
  Payloads <- SomePayloads
  PayloadOf <- OwnPayload
  Withdrawals <- OneWithdrawal
  None = None
  Workloads <- AllLoads
  p1 = p1
  p2 = p2
  w1 = w1
INVARIANTS
  TypeOK
  ReimbursedOnceUntilFailure
  LiveIsTracked
  BelievedPaid
  DisputeJustifiedUntilFailure
PROPERTIES
  RequestedIsPaid
CHECK_DEADLOCK FALSE
