SPECIFICATION Spec
CONSTANTS
  r1 = r1
  r2 = r2
  r3 = r3
  d1 = d1
  d2 = d2
  p1 = p1
  p2 = p2
  p3 = p3
  Handlers = {1, 2, 3}
  Requests = {r1, r2}
  Deposits = {d1, d2}
  Payloads = {p1, p2, p3}
  DepositsOf <- Overlapping
  PayloadOf <- Distinct
  Settings <- AnySettings
  None = None
  MaxFailures = 1
  MaxCrashes = 1
  MaxDeletions = 1
INVARIANTS TypeOK ResolvedWasProposed DepositOnceUntilFailure ChainsNeverBlock
PROPERTIES SubmissionIsFinal
CHECK_DEADLOCK FALSE
