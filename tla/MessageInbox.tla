---------------------------- MODULE MessageInbox ----------------------------
(***************************************************************************)
(* The agent's in-memory message inbox (agent/src/lib/message-inbox.js):   *)
(* a bounded queue, the messages leased to the decision loop ("in         *)
(* flight"), the request cache that gives idempotency and replay locks,    *)
(* and one token bucket per sender.  Every operation first prunes what has *)
(* expired at the time it was handed, which may lag behind the clock:      *)
(* message-api.js reads Date.now() before it awaits the signature check.   *)
(*                                                                         *)
(* The JavaScript array is a function from the queued messages to places,  *)
(* the head being the message with the smallest place.                     *)
(***************************************************************************)
EXTENDS Integers, FiniteSets, SequencesExt

CONSTANTS
  SignedSenders,   \* senders authenticated by an eip191 signature
  KeySenders,      \* senders authenticated by an API key
  RequestIds,      \* request identifiers
  NoRequestId,     \* a request without identifier
  NoEntry,         \* a request with no entry in the request cache
  NoBucket,        \* a sender with no rate-limit state
  QueueLimit,      \* config.queueLimit
  DefaultTtl, MinTtl, MaxTtl,
  IdempotencyTtl,
  ReplayWindow,    \* config.signedReplayWindowSeconds, in clock ticks
  RefillPerTick,   \* token units added per tick (config.rateLimitPerMinute)
  RateBurst,       \* config.rateLimitBurst, in tokens
  TokenCost,       \* token units in one token (60000 in the code)
  StaleRateWindow, \* idle time after which a bucket is forgotten
  Requests,        \* the requests clients send
  MaxLag,          \* bound: how stale the time stamp of a request may be
  MaxTime,         \* bound on the clock
  MaxAccepted      \* bound on the number of accepted messages

Senders == SignedSenders \cup KeySenders

Request == [sender : Senders, requestId : RequestIds \cup {NoRequestId},
            signedAt : Nat, deadline : Nat, wellFormed : BOOLEAN]

Message == [id : Nat, sender : Senders, requestId : RequestIds \cup {NoRequestId},
            signedAt : Nat, receivedAt : Nat, expiresAt : Nat]
Acceptance == [message : Message, at : Nat]

CacheKeys == Senders \X RequestIds
CacheEntry == [message : Message, expiresAt : Nat, lock : BOOLEAN]
Bucket == [tokens : Nat, lastRefill : Nat, lastSeen : Nat]

ASSUME InboxAssumption ==
  /\ SignedSenders \cap KeySenders = {}
  /\ NoRequestId \notin RequestIds
  /\ NoEntry \notin CacheEntry /\ NoBucket \notin Bucket
  /\ Requests \subseteq Request
  /\ QueueLimit \in Nat \ {0}
  /\ MinTtl \in Nat \ {0}
  /\ DefaultTtl \in Nat /\ MaxTtl \in Nat
  /\ MinTtl <= DefaultTtl /\ DefaultTtl <= MaxTtl
  /\ IdempotencyTtl \in Nat \ {0}
  /\ ReplayWindow \in Nat
  /\ RefillPerTick \in Nat /\ RateBurst \in Nat /\ TokenCost \in Nat \ {0}
  /\ StaleRateWindow \in Nat
  /\ MaxLag \in Nat /\ MaxTime \in Nat /\ MaxAccepted \in Nat

VARIABLES
  clock,     \* Date.now()
  queue,     \* queued message |-> place
  inFlight,  \* messages handed out and not settled
  cache,     \* <<sender, requestId>> |-> cached entry
  buckets,   \* sender |-> token bucket
  accepted,  \* history: every message the inbox accepted, and when
  acked      \* history: the messages removed by an acknowledgement

inboxVars == <<queue, inFlight, cache, buckets, accepted, acked>>

Queued == DOMAIN queue
Pending == Queued \cup inFlight
Larger(a, b) == IF a >= b THEN a ELSE b
Smaller(a, b) == IF a <= b THEN a ELSE b

-----------------------------------------------------------------------------
(* pruneExpired: what is left of each container at time now.               *)

(* Variant for mutation: a queued message is dropped one tick early.       *)
FreshQueueEarly(now) == [m \in {x \in Queued : x.expiresAt > now + 1} |-> queue[m]]
FreshQueue(now) == [m \in {x \in Queued : x.expiresAt > now} |-> queue[m]]
FreshInFlight(now) == {m \in inFlight : m.expiresAt > now}
FreshCache(now) ==
  [k \in CacheKeys |-> IF cache[k] # NoEntry /\ cache[k].expiresAt <= now
                       THEN NoEntry ELSE cache[k]]
FreshBuckets(now) ==
  [s \in Senders |-> IF buckets[s] # NoBucket /\ now - buckets[s].lastSeen > StaleRateWindow
                     THEN NoBucket ELSE buckets[s]]

-----------------------------------------------------------------------------
(* consumeRateLimit: the bucket of s refilled up to now.                   *)

RateLimited == RefillPerTick > 0 /\ RateBurst > 0
(* Variant for mutation: the refill is not capped at the burst.            *)
RefilledUncapped(s, now) ==
  LET b == FreshBuckets(now)[s]
      full == RateBurst * TokenCost
  IN  IF b = NoBucket
      THEN [tokens |-> full, lastRefill |-> now, lastSeen |-> now]
      ELSE [tokens |-> b.tokens + Larger(0, now - b.lastRefill) * RefillPerTick,
            lastRefill |-> now, lastSeen |-> now]
Refilled(s, now) ==
  LET b == FreshBuckets(now)[s]
      known == IF b = NoBucket
               THEN [tokens |-> RateBurst * TokenCost, lastRefill |-> now, lastSeen |-> now]
               ELSE b
      elapsed == Larger(0, now - known.lastRefill)
  IN  [tokens |-> Smaller(RateBurst * TokenCost, known.tokens + elapsed * RefillPerTick),
       lastRefill |-> now, lastSeen |-> now]
HasToken(s, now) == ~RateLimited \/ Refilled(s, now).tokens >= TokenCost
(* Variant for mutation: a rejected request costs a token as well.         *)
ConsumedAlways(s, now) ==
  LET b == Refilled(s, now)
  IN  IF ~RateLimited THEN FreshBuckets(now)
      ELSE [FreshBuckets(now) EXCEPT ![s] = [b EXCEPT !.tokens = @ - TokenCost]]
Consumed(s, now) ==
  LET b == Refilled(s, now)
  IN  IF ~RateLimited THEN FreshBuckets(now)
      ELSE [FreshBuckets(now) EXCEPT
              ![s] = IF HasToken(s, now) THEN [b EXCEPT !.tokens = @ - TokenCost] ELSE b]

-----------------------------------------------------------------------------
(* normalizePayload: a request carries no deadline (0) or the time it is   *)
(* due; "wellFormed" stands for every other field check.                   *)

DeadlineOk(r, now) ==
  r.deadline = 0 \/ (MinTtl <= r.deadline - now /\ r.deadline - now <= MaxTtl)
PayloadOk(r, now) == r.wellFormed /\ DeadlineOk(r, now)
Normalized(r, now) ==
  [id |-> Cardinality(accepted) + 1, sender |-> r.sender, requestId |-> r.requestId,
   signedAt |-> r.signedAt, receivedAt |-> now,
   expiresAt |-> IF r.deadline = 0 THEN now + DefaultTtl ELSE r.deadline]

(* The cached answer for a request, once the cache has been pruned.        *)
CachedEntry(r, now) ==
  IF r.requestId = NoRequestId THEN NoEntry ELSE FreshCache(now)[<<r.sender, r.requestId>>]
IsLive(e, now) == e.message.expiresAt > now
ReplayBlocked(r, now) ==
  LET e == CachedEntry(r, now) IN e # NoEntry /\ ~IsLive(e, now) /\ e.lock
SignedPrecheckBlocks(r, now) == r.sender \in SignedSenders /\ ReplayBlocked(r, now)
IsDuplicate(r, now) ==
  LET e == CachedEntry(r, now) IN e # NoEntry /\ IsLive(e, now)
(* Variant for mutation: leased messages do not count.                     *)
HasRoomInQueue(now) == Cardinality(DOMAIN FreshQueue(now)) < QueueLimit
HasRoom(now) ==
  Cardinality(DOMAIN FreshQueue(now)) + Cardinality(FreshInFlight(now)) < QueueLimit

(* Variant for mutation: a request id may be forgotten before its message. *)
RetentionFixed(m, now) ==
  IF m.sender \in SignedSenders
  THEN Larger(IdempotencyTtl, Larger(m.signedAt, now) - now + ReplayWindow)
  ELSE IdempotencyTtl
(* Variant for mutation: the lock is counted from the acceptance, not from *)
(* the signature, which may be dated ahead of it.                          *)
RetentionUnanchored(m, now) ==
  LET unsigned == Larger(IdempotencyTtl, Larger(0, m.expiresAt - now))
  IN  IF m.sender \in SignedSenders THEN Larger(unsigned, ReplayWindow) ELSE unsigned
(* How long the request id of a freshly queued message stays cached.       *)
Retention(m, now) ==
  LET lifetime == Larger(0, m.expiresAt - now)
      replayLock == Larger(m.signedAt, now) - now + ReplayWindow
      unsigned == Larger(IdempotencyTtl, lifetime)
  IN  IF m.sender \in SignedSenders THEN Larger(unsigned, replayLock) ELSE unsigned

(* Array ends: push appends behind every place, unshift goes before.        *)
Places(q) == {q[m] : m \in DOMAIN q}
Pushed(q, m) ==
  LET back == IF DOMAIN q = {} THEN 0 ELSE 1 + Max(Places(q))
  IN  [x \in DOMAIN q \cup {m} |-> IF x = m THEN back ELSE q[x]]
(* Variant for mutation: messages given back go behind the others.         *)
UnshiftedBehind(q, ms, kept) ==
  LET back == IF DOMAIN q = {} THEN 0 ELSE Max(Places(q))
      index(m) == CHOOSE i \in DOMAIN ms : ms[i] = m
  IN  [x \in DOMAIN q \cup kept |-> IF x \in DOMAIN q THEN q[x] ELSE back + index(x)]
Unshifted(q, ms, kept) ==      \* the messages of kept, in the order of ms
  LET front == IF DOMAIN q = {} THEN 0 ELSE Min(Places(q))
      index(m) == CHOOSE i \in DOMAIN ms : ms[i] = m
      behind(x) == {m \in kept : index(x) <= index(m)}
  IN  [x \in DOMAIN q \cup kept |->
         IF x \in DOMAIN q THEN q[x] ELSE front - Cardinality(behind(x))]

(* An entry whose message expired and that holds no lock is dropped.       *)
CacheAfterLookup(r, now) ==
  LET e == CachedEntry(r, now)
  IN  IF e # NoEntry /\ ~IsLive(e, now) /\ ~e.lock
      THEN [FreshCache(now) EXCEPT ![<<r.sender, r.requestId>>] = NoEntry]
      ELSE FreshCache(now)
CachedWith(c, m, now) ==
  IF m.requestId = NoRequestId THEN c
  ELSE [c EXCEPT ![<<m.sender, m.requestId>>] =
          [message |-> m, expiresAt |-> now + Retention(m, now),
           lock |-> m.sender \in SignedSenders]]

-----------------------------------------------------------------------------
(* submitMessage, one action per outcome.  All of them prune first.        *)

Reject(r, now) ==        \* request_replay_blocked (precheck) or invalid_request
  /\ SignedPrecheckBlocks(r, now) \/ ~PayloadOk(r, now)
  /\ queue' = FreshQueue(now)
  /\ inFlight' = FreshInFlight(now)
  /\ cache' = FreshCache(now)
  /\ buckets' = FreshBuckets(now)
  /\ UNCHANGED <<accepted, acked>>

Admissible(r, now) == ~SignedPrecheckBlocks(r, now) /\ PayloadOk(r, now)

RejectRate(r, now) ==    \* rate_limited
  /\ Admissible(r, now)
  /\ ~HasToken(r.sender, now)
  /\ queue' = FreshQueue(now)
  /\ inFlight' = FreshInFlight(now)
  /\ cache' = FreshCache(now)
  /\ buckets' = Consumed(r.sender, now)
  /\ UNCHANGED <<accepted, acked>>

Answer(r, now) ==        \* duplicate, or queue_full; both spent a token
  /\ Admissible(r, now)
  /\ HasToken(r.sender, now)
  /\ IsDuplicate(r, now) \/ ~HasRoom(now)
  /\ queue' = FreshQueue(now)
  /\ inFlight' = FreshInFlight(now)
  /\ cache' = CacheAfterLookup(r, now)
  /\ buckets' = Consumed(r.sender, now)
  /\ UNCHANGED <<accepted, acked>>

Enqueue(r, now) ==       \* queued
  /\ Admissible(r, now)
  /\ HasToken(r.sender, now)
  /\ ~IsDuplicate(r, now)
  /\ HasRoom(now)
  /\ LET m == Normalized(r, now)
     IN  /\ queue' = Pushed(FreshQueue(now), m)
         /\ cache' = CachedWith(CacheAfterLookup(r, now), m, now)
         /\ accepted' = accepted \cup
              {[message |-> m, at |-> clock]}
  /\ inFlight' = FreshInFlight(now)
  /\ buckets' = Consumed(r.sender, now)
  /\ UNCHANGED acked

SubmitMessage(r, now) ==
  Reject(r, now) \/ RejectRate(r, now) \/ Answer(r, now) \/ Enqueue(r, now)

-----------------------------------------------------------------------------
(* The decision loop's side.                                               *)

(* takeBatch: the first maxItems messages of the pruned queue are leased.  *)
TakeBatch(maxItems, now) ==
  \E out \in SUBSET DOMAIN FreshQueue(now) :
    LET q == FreshQueue(now)
        rest == DOMAIN q \ out
    IN  /\ \A m \in out, n \in rest : q[m] < q[n]
        /\ Cardinality(out) = Smaller(maxItems, Cardinality(DOMAIN q))
        /\ queue' = [m \in rest |-> q[m]]
        /\ inFlight' = FreshInFlight(now) \cup out
        /\ cache' = FreshCache(now)
        /\ buckets' = FreshBuckets(now)
        /\ UNCHANGED <<accepted, acked>>

AckBatch(ms, now) ==
  /\ queue' = FreshQueue(now)
  /\ inFlight' = FreshInFlight(now) \ ms
  /\ acked' = acked \cup (FreshInFlight(now) \cap ms)
  /\ cache' = FreshCache(now)
  /\ buckets' = FreshBuckets(now)
  /\ UNCHANGED accepted

(* Variant for mutation: a message given back stays leased.                *)
RequeueBatchLeased(ms, now) ==
  /\ queue' = Unshifted(FreshQueue(now), ms, FreshInFlight(now) \cap Range(ms))
  /\ inFlight' = FreshInFlight(now)
  /\ cache' = FreshCache(now)
  /\ buckets' = FreshBuckets(now)
  /\ UNCHANGED <<accepted, acked>>

(* requeueBatch: the still leased messages of ms go back to the front, in  *)
(* the order of ms.                                                        *)
RequeueBatch(ms, now) ==
  LET kept == FreshInFlight(now) \cap Range(ms)
  IN  /\ queue' = Unshifted(FreshQueue(now), ms, kept)
      /\ inFlight' = FreshInFlight(now) \ kept
      /\ cache' = FreshCache(now)
      /\ buckets' = FreshBuckets(now)
      /\ UNCHANGED <<accepted, acked>>

Prune(now) ==            \* getQueueDepth, getPendingCount
  /\ queue' = FreshQueue(now)
  /\ inFlight' = FreshInFlight(now)
  /\ cache' = FreshCache(now)
  /\ buckets' = FreshBuckets(now)
  /\ UNCHANGED <<accepted, acked>>
-----------------------------------------------------------------------------
(* The inbox under its most general client: any request at any time up to  *)
(* MaxLag ticks old, any batch size, any subset of the leased messages     *)
(* settled or given back in any order.                                     *)

Init ==
  /\ clock = 0
  /\ queue = [m \in {} |-> 0]
  /\ inFlight = {}
  /\ cache = [k \in CacheKeys |-> NoEntry]
  /\ buckets = [s \in Senders |-> NoBucket]
  /\ accepted = {}
  /\ acked = {}

Tick ==
  /\ clock < MaxTime
  /\ clock' = clock + 1
  /\ UNCHANGED inboxVars

ClientSubmit ==
  /\ Cardinality(accepted) < MaxAccepted
  /\ \E r \in Requests, now \in Larger(0, clock - MaxLag)..clock : SubmitMessage(r, now)
  /\ UNCHANGED clock
ClientTake == (\E n \in 1..QueueLimit : TakeBatch(n, clock)) /\ UNCHANGED clock
ClientAck == (\E ms \in SUBSET inFlight : AckBatch(ms, clock)) /\ UNCHANGED clock
ClientRequeue ==
  /\ \E ms \in SUBSET inFlight : \E s \in SetToSeqs(ms) : RequeueBatch(s, clock)
  /\ UNCHANGED clock
ClientPrune == Prune(clock) /\ UNCHANGED clock

Next ==
  Tick \/ ClientSubmit \/ ClientTake \/ ClientAck \/ ClientRequeue \/ ClientPrune

vars == <<clock, queue, inFlight, cache, buckets, accepted, acked>>
Spec == Init /\ [][Next]_vars

-----------------------------------------------------------------------------
TypeOK ==
  /\ clock \in Nat
  /\ DOMAIN queue \subseteq Message /\ queue \in [DOMAIN queue -> Int]
  /\ inFlight \subseteq Message
  /\ cache \in [CacheKeys -> CacheEntry \cup {NoEntry}]
  /\ buckets \in [Senders -> Bucket \cup {NoBucket}]
  /\ accepted \subseteq Acceptance
  /\ acked \subseteq Message

(* Queued and leased messages together never exceed the queue limit        *)
(* (message-inbox.js:372 is the only guard; requeueBatch has none).        *)
CapacityBound == Cardinality(Queued) + Cardinality(inFlight) <= QueueLimit

(* A message is in one place only, and once it was acknowledged it is      *)
(* nowhere: a lease is either settled or given back, never both.           *)
SingleHome ==
  /\ Queued \cap inFlight = {}
  /\ Pending \cap acked = {}

(* "duplicate requests cannot enqueue a second live copy"                  *)
(* (message-inbox.js:403): two pending messages that are alive now never   *)
(* carry the same sender and request id, however late a request arrives    *)
(* with the time it was stamped with.                                      *)
OneLiveCopy ==
  \A m, n \in Pending :
    /\ m.expiresAt > clock /\ n.expiresAt > clock
    /\ m.requestId # NoRequestId
    /\ m.sender = n.sender /\ m.requestId = n.requestId
    => m = n

(* At-least-once: an accepted message that has not expired is queued,      *)
(* leased or acknowledged; take, requeue and prune lose nothing.           *)
NothingLost ==
  \A a \in accepted :
    a.message.expiresAt > clock => a.message \in Pending \cup acked

(* "lock duration fully covers signature-validity window"                  *)
(* (message-inbox.js:398): as long as the signature of an accepted request *)
(* has validity left, counted from the time it was signed, its request id  *)
(* is not accepted again.  What is not covered is the last instant of the  *)
(* validity: the signature check still lets an age of exactly the window   *)
(* pass (signed-request-auth.js:107 compares with >), where the entry is   *)
(* pruned already (message-inbox.js:71 compares with <=).                  *)
ValidityLeft(m, now) == now - m.signedAt < ReplayWindow
ReplayLockHolds ==
  \A a, b \in accepted :
    /\ a.message.id < b.message.id
    /\ a.message.sender \in SignedSenders
    /\ a.message.requestId # NoRequestId
    /\ a.message.sender = b.message.sender /\ a.message.requestId = b.message.requestId
    => ~ValidityLeft(a.message, b.at)

(* The inbox implements MessagePool: seen at the clock, every operation,   *)
(* also one with a late time stamp, is a step of the pool or leaves it     *)
(* alone. Messages are leased from the head of the line and given back to  *)
(* its head, leave only when they expire or are acknowledged, and no       *)
(* second live copy of a request enters.                                   *)
Live(S) == {m \in S : m.expiresAt > clock}
Line == {p \in Live(Queued) \X Live(Queued) : queue[p[1]] < queue[p[2]]}
Pool == INSTANCE MessagePool WITH
  Limit <- QueueLimit, waiting <- Live(Queued), ahead <- Line, leased <- Live(inFlight),
  seen <- {a.message : a \in accepted}
PoolSpec == Pool!Spec

(* Rate limiting: in every window of the clock a sender gets at most its   *)
(* burst plus what the window refills, also across the moment its idle     *)
(* bucket is forgotten and a full one is handed out again.                 *)
RateBound ==
  \A s \in Senders : \A from \in 0..clock : \A to \in from..clock :
    LET admitted == {a \in accepted : a.message.sender = s /\ a.message.receivedAt \in from..to}
    IN  Cardinality(admitted) * TokenCost <= RateBurst * TokenCost + (to - from) * RefillPerTick
=============================================================================
