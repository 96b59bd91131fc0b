\* Two handlers whose signature checks take up to two ticks, a queue of two, a
\* loop that leases both messages at once and may fail as often as it likes.
SPECIFICATION FairServiceSpec
CONSTANTS
  c1 = c1
  c2 = c2
  alice = alice
  r1 = r1
  r2 = r2
  SignedSenders = {alice}
  KeySenders = {}
  RequestIds = {r1, r2}
  NoRequestId = NoRequestId
  NoEntry = NoEntry
  NoBucket = NoBucket
  NoCall = NoCall
  Callers = {c1, c2}
  QueueLimit = 2
  DefaultTtl = 2
  MinTtl = 1
  MaxTtl = 3
  IdempotencyTtl = 1
  ReplayWindow = 3
  RefillPerTick = 0
  RateBurst = 0
  TokenCost = 1
  StaleRateWindow = 1
  MaxLag = 2
  AuthLag = 2
  MaxTime = 3
  MaxAccepted = 2
  MaxSkew = 1
  BatchSize = 2
  Requests <- MCRequests
INVARIANTS
  LeasesBelongToLoop
  SettledIsFinal
  RetriesFirst
PROPERTIES
  InboxSpec
  EveryMessageLeaves
