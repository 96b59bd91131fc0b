\* Two places in the queue, four acceptances, a burst of two and a refilled token
\* per tick, four ticks: a message is leased, given back, expires and is sent
\* again, and an idle bucket is forgotten and handed out anew.
SPECIFICATION Spec
CONSTANTS
  alice = alice
  bot = bot
  r1 = r1
  SignedSenders = {alice}
  KeySenders = {bot}
  RequestIds = {r1}
  NoRequestId = NoRequestId
  NoEntry = NoEntry
  NoBucket = NoBucket
  QueueLimit = 2
  DefaultTtl = 2
  MinTtl = 1
  MaxTtl = 3
  IdempotencyTtl = 1
  ReplayWindow = 3
  RefillPerTick = 1
  RateBurst = 2
  TokenCost = 1
  StaleRateWindow = 2
  MaxLag = 0
  MaxTime = 4
  MaxAccepted = 4
  Requests <- MCRequests
INVARIANTS
  CapacityBound
  OneLiveCopy
  NothingLost
  ReplayLockHolds
  TypeOK
  RateBound
PROPERTIES
  PoolSpec
