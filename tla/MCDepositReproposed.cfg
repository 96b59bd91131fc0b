SPECIFICATION Spec
CONSTANTS
  r1 = r1
  r2 = r2
  r3 = r3
  d1 = d1
  d2 = d2
  p1 = p1
  p2 = p2
  p3 = p3
  Handlers = {1, 2, 3}
  Requests = {r1, r2, r3}
  Deposits = {d1, d2}
  Payloads = {p1, p2, p3}
  DepositsOf <- Widened
  PayloadOf <- Repeated
  Settings <- Enforced
  None = None
  MaxFailures = 0
  MaxCrashes = 0
  MaxDeletions = 1
INVARIANTS DepositReimbursedOnce
CHECK_DEADLOCK FALSE
