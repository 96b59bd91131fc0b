------------------------- MODULE MessageInboxProofs -------------------------
(***************************************************************************)
(* What the inbox guarantees for every queue limit, every lifetime and     *)
(* every set of senders, request ids and requests.                         *)
(***************************************************************************)
EXTENDS MessageInbox, SharedLemmas, FiniteSetTheorems, TLAPS

-----------------------------------------------------------------------------
(* The inductive invariant.  Messages are recognised by their ids; every   *)
(* live pending message is the one its request id is cached with, for at   *)
(* least as long as it lives; and a signed request that was accepted is in *)
(* the cache, locked, as long as its signature has validity left.          *)
Key(m) == <<m.sender, m.requestId>>
Locked(a) ==
  /\ a.message.sender \in SignedSenders
  /\ a.message.requestId # NoRequestId
  /\ ValidityLeft(a.message, clock)

Finite == IsFiniteSet(Queued) /\ IsFiniteSet(inFlight) /\ IsFiniteSet(accepted)
IdsUnique ==
  /\ \A a \in accepted : a.message.id <= Cardinality(accepted)
  /\ \A a, b \in accepted : a.message.id = b.message.id => a = b
  /\ \A m \in Pending \cup acked : \E a \in accepted : a.message = m
CacheCoversPending ==
  \A m \in Pending :
    m.requestId # NoRequestId /\ m.expiresAt > clock =>
      /\ cache[Key(m)] # NoEntry
      /\ cache[Key(m)].message = m
      /\ cache[Key(m)].expiresAt >= m.expiresAt
CacheCoversLocks ==
  \A a \in accepted : Locked(a) =>
    /\ cache[Key(a.message)] # NoEntry
    /\ cache[Key(a.message)].message = a.message
    /\ cache[Key(a.message)].expiresAt >= a.message.signedAt + ReplayWindow
    /\ cache[Key(a.message)].lock

IInv ==
  /\ TypeOK /\ Finite /\ IdsUnique /\ SingleHome /\ CapacityBound
  /\ CacheCoversPending /\ CacheCoversLocks /\ NothingLost /\ ReplayLockHolds

-----------------------------------------------------------------------------
(* Types: pruning, refilling, pushing and caching stay in their sets.      *)

(* Pruning keeps the types and only drops what has expired.                *)
LEMMA PrunedTypes ==
  ASSUME TypeOK, NEW now \in 0..clock
  PROVE  /\ FreshQueue(now) \in [DOMAIN FreshQueue(now) -> Int]
         /\ DOMAIN FreshQueue(now) \subseteq Queued
         /\ DOMAIN FreshQueue(now) = {m \in Queued : m.expiresAt > now}
         /\ FreshInFlight(now) \subseteq inFlight
         /\ FreshCache(now) \in [CacheKeys -> CacheEntry \cup {NoEntry}]
         /\ FreshBuckets(now) \in [Senders -> Bucket \cup {NoBucket}]
<1>1. queue \in [Queued -> Int]
  BY DEF TypeOK, Queued
<1>2. DOMAIN FreshQueue(now) = {m \in Queued : m.expiresAt > now}
  BY DEF FreshQueue
<1>3. FreshQueue(now) \in [DOMAIN FreshQueue(now) -> Int]
  BY <1>1, <1>2 DEF FreshQueue
<1>4. FreshCache(now) \in [CacheKeys -> CacheEntry \cup {NoEntry}]
  BY DEF TypeOK, FreshCache
<1>5. FreshBuckets(now) \in [Senders -> Bucket \cup {NoBucket}]
  BY DEF TypeOK, FreshBuckets
<1> QED BY <1>2, <1>3, <1>4, <1>5 DEF FreshInFlight

(* A refilled bucket is a bucket; a token is taken only if there is one.   *)
LEMMA BucketTypes ==
  ASSUME TypeOK, NEW now \in 0..clock, NEW s \in Senders
  PROVE  Consumed(s, now) \in [Senders -> Bucket \cup {NoBucket}]
<1> DEFINE full == RateBurst * TokenCost
<1> DEFINE b == FreshBuckets(now)[s]
<1> DEFINE known == IF b = NoBucket
                    THEN [tokens |-> full, lastRefill |-> now, lastSeen |-> now] ELSE b
<1> DEFINE gain == Larger(0, now - known.lastRefill) * RefillPerTick
<1>1. now \in Nat /\ full \in Nat /\ TokenCost \in Nat
  BY InboxAssumption DEF TypeOK
<1>2. FreshBuckets(now) \in [Senders -> Bucket \cup {NoBucket}]
  BY PrunedTypes
<1>3. known \in Bucket
  BY <1>1, <1>2 DEF Bucket
<1>4. gain \in Nat
  <2>1. Larger(0, now - known.lastRefill) \in Nat
    BY <1>1, <1>3 DEF Larger, Bucket
  <2> QED BY <2>1, InboxAssumption
<1>5. Smaller(full, known.tokens + gain) \in Nat
  BY <1>1, <1>3, <1>4 DEF Smaller, Bucket
<1>6. Refilled(s, now) = [tokens |-> Smaller(full, known.tokens + gain),
                          lastRefill |-> now, lastSeen |-> now]
  BY DEF Refilled
<1>7. Refilled(s, now) \in Bucket
  BY <1>1, <1>5, <1>6 DEF Bucket
<1>8. HasToken(s, now) /\ RateLimited
        => [Refilled(s, now) EXCEPT !.tokens = @ - TokenCost] \in Bucket
  BY <1>1, <1>7 DEF HasToken, Bucket
<1> QED BY <1>2, <1>7, <1>8 DEF Consumed

(* A request id is kept for at least as long as its message lives.         *)
LEMMA RetentionBound ==
  ASSUME NEW m \in Message, NEW now \in Nat
  PROVE  /\ Retention(m, now) \in Nat
         /\ now + Retention(m, now) >= m.expiresAt
         /\ m.sender \in SignedSenders
              => now + Retention(m, now) >= m.signedAt + ReplayWindow
<1>1. m.expiresAt \in Nat /\ m.signedAt \in Nat
  BY DEF Message
<1> QED BY <1>1, InboxAssumption DEF Retention, Larger

(* A message that enters is typed, and takes the next number.              *)
LEMMA NormalizedType ==
  ASSUME TypeOK, IsFiniteSet(accepted), NEW r \in Requests, NEW now \in 0..clock
  PROVE  /\ Normalized(r, now) \in Message
         /\ Normalized(r, now).sender = r.sender
         /\ Normalized(r, now).requestId = r.requestId
         /\ Normalized(r, now).id = Cardinality(accepted) + 1
<1>1. r \in Request
  BY InboxAssumption
<1>2. Cardinality(accepted) + 1 \in Nat
  BY FS_CardinalityType
<1>3. now \in Nat
  BY DEF TypeOK
<1>4. (IF r.deadline = 0 THEN now + DefaultTtl ELSE r.deadline) \in Nat
  BY <1>1, <1>3, InboxAssumption DEF Request
<1> QED BY <1>1, <1>2, <1>3, <1>4 DEF Normalized, Message, Request

(* The two ends of a finite queue are integers, so new places are too.     *)
LEMMA PlacesType ==
  ASSUME NEW q, q \in [DOMAIN q -> Int], IsFiniteSet(DOMAIN q)
  PROVE  /\ \A m : Pushed(q, m) \in [DOMAIN q \cup {m} -> Int]
         /\ \A ms, kept : IsFiniteSet(kept) =>
              Unshifted(q, ms, kept) \in [DOMAIN q \cup kept -> Int]
<1>1. Places(q) \subseteq Int
  BY DEF Places
<1>2. IsFiniteSet(Places(q))
  <2>1. q \in Surjection(DOMAIN q, Places(q))
    BY DEF Surjection, Places
  <2> QED BY <2>1, FS_Surjection
<1>3. DOMAIN q # {} => Max(Places(q)) \in Int /\ Min(Places(q)) \in Int
  <2>1. DOMAIN q # {} => Places(q) # {}
    BY DEF Places
  <2> QED BY <1>1, <1>2, <2>1, EndsExist
<1>4. ASSUME NEW m
      PROVE Pushed(q, m) \in [DOMAIN q \cup {m} -> Int]
  <2> DEFINE back == IF DOMAIN q = {} THEN 0 ELSE 1 + Max(Places(q))
  <2>1. back \in Int
    BY <1>3
  <2>2. Pushed(q, m) = [x \in DOMAIN q \cup {m} |-> IF x = m THEN back ELSE q[x]]
    BY DEF Pushed
  <2> HIDE DEF back
  <2> QED BY <2>1, <2>2
<1>5. ASSUME NEW ms, NEW kept, IsFiniteSet(kept)
      PROVE  Unshifted(q, ms, kept) \in [DOMAIN q \cup kept -> Int]
  <2> DEFINE index(m) == CHOOSE i \in DOMAIN ms : ms[i] = m
  <2> DEFINE behind(x) == {m \in kept : index(x) <= index(m)}
  <2>1. \A x : behind(x) \subseteq kept
    OBVIOUS
  <2>2. \A x : Cardinality(behind(x)) \in Nat
    <3> HIDE DEF behind
    <3> QED BY <1>5, <2>1, FS_Subset, FS_CardinalityType
  <2> DEFINE front == IF DOMAIN q = {} THEN 0 ELSE Min(Places(q))
  <2>3. front \in Int
    BY <1>3
  <2>4. Unshifted(q, ms, kept) =
          [x \in DOMAIN q \cup kept |->
             IF x \in DOMAIN q THEN q[x] ELSE front - Cardinality(behind(x))]
    BY DEF Unshifted
  <2> HIDE DEF behind, front
  <2> QED BY <2>2, <2>3, <2>4
<1> QED BY <1>4, <1>5

(* Sizes of disjoint sets add up.                                          *)
LEMMA DisjointUnion ==
  ASSUME NEW S, NEW T, IsFiniteSet(S), IsFiniteSet(T), S \cap T = {}
  PROVE  /\ IsFiniteSet(S \cup T)
         /\ Cardinality(S) \in Nat /\ Cardinality(T) \in Nat
         /\ Cardinality(S \cup T) = Cardinality(S) + Cardinality(T)
<1>1. Cardinality(S) \in Nat /\ Cardinality(T) \in Nat
  BY FS_CardinalityType
<1>2. IsFiniteSet(S \cup T)
  BY FS_Union
<1>3. Cardinality(S \cup T) = Cardinality(S) + Cardinality(T) - Cardinality({})
  BY FS_Union
<1> QED BY <1>1, <1>2, <1>3, FS_EmptySet

-----------------------------------------------------------------------------
(* Steps that accept nothing.  They move pending messages between the      *)
(* queue and the leases, acknowledge some, and drop only what expired; the *)
(* cache keeps every entry that is live or locked.                         *)
LEMMA NoAcceptance ==
  ASSUME IInv, TypeOK', NEW now \in 0..clock,
         UNCHANGED <<clock, accepted>>,
         Pending' \subseteq Pending,
         Queued' \cap inFlight' = {},
         acked \subseteq acked', acked' \subseteq acked \cup Pending,
         Pending' \cap acked' = {},
         \A m \in Pending : m.expiresAt > now => m \in (Pending \cup acked)',
         \A k \in CacheKeys :
           /\ cache[k] # NoEntry
           /\ cache[k].expiresAt > now
           /\ cache[k].lock \/ cache[k].message.expiresAt > now
           => cache'[k] = cache[k]
  PROVE  IInv'
<1> USE DEF IInv
<1>1. clock \in Nat /\ now \in Nat /\ now <= clock
  BY DEF TypeOK
<1>2. \A m \in Message : m.expiresAt \in Nat /\ m.sender \in Senders
                         /\ (m.requestId # NoRequestId => Key(m) \in CacheKeys)
  BY DEF Message, CacheKeys, Key
<1>3. Pending \subseteq Message /\ \A a \in accepted : a \in Acceptance
  BY DEF TypeOK, Pending, Queued
<1>4. Finite'
  <2>1. IsFiniteSet(Pending)
    BY FS_Union DEF Finite, Pending
  <2>2. IsFiniteSet(Queued') /\ IsFiniteSet(inFlight')
    BY <2>1, FS_Subset DEF Pending
  <2> QED BY <2>2 DEF Finite
<1>5. CapacityBound'
  <2>1. /\ IsFiniteSet(Pending)
        /\ Cardinality(Pending) = Cardinality(Queued) + Cardinality(inFlight)
    BY DisjointUnion DEF Finite, SingleHome, Pending
  <2>2. Cardinality(Pending') = Cardinality(Queued') + Cardinality(inFlight')
    <3> DEFINE Q == Queued'
    <3> DEFINE F == inFlight'
    <3>1. IsFiniteSet(Q) /\ IsFiniteSet(F) /\ Q \cap F = {} /\ Pending' = Q \cup F
      BY <1>4 DEF Finite, Pending
    <3> HIDE DEF Q, F
    <3>2. Cardinality(Q \cup F) = Cardinality(Q) + Cardinality(F)
      BY <3>1, DisjointUnion
    <3> QED BY <3>1, <3>2 DEF Q, F
  <2>3. /\ Cardinality(Pending') \in Nat /\ Cardinality(Pending) \in Nat
        /\ Cardinality(Pending') <= Cardinality(Pending)
    BY <2>1, FS_Subset, FS_CardinalityType
  <2> QED BY <2>1, <2>2, <2>3, InboxAssumption DEF CapacityBound
<1>6. IdsUnique'
  BY DEF IdsUnique
<1>7. SingleHome'
  BY DEF SingleHome
<1>8. CacheCoversPending'
  <2> SUFFICES ASSUME NEW m \in Pending', m.requestId # NoRequestId, m.expiresAt > clock
               PROVE  /\ cache'[Key(m)] # NoEntry
                      /\ cache'[Key(m)].message = m
                      /\ cache'[Key(m)].expiresAt >= m.expiresAt
    BY DEF CacheCoversPending, Key
  <2>1. m \in Message /\ Key(m) \in CacheKeys
    BY <1>2, <1>3
  <2>2. /\ cache[Key(m)] # NoEntry
        /\ cache[Key(m)].message = m
        /\ cache[Key(m)].expiresAt >= m.expiresAt
    BY DEF CacheCoversPending
  <2>3. cache[Key(m)] \in CacheEntry
    BY <2>1, <2>2 DEF TypeOK
  <2>4. cache[Key(m)].expiresAt > now /\ m.expiresAt > now
    BY <1>1, <1>2, <2>1, <2>2, <2>3 DEF CacheEntry
  <2> QED BY <2>1, <2>2, <2>4
<1>9. CacheCoversLocks'
  <2> SUFFICES ASSUME NEW a \in accepted, Locked(a)
               PROVE  cache'[Key(a.message)] = cache[Key(a.message)]
    BY DEF CacheCoversLocks, Key, Locked
  <2>1. Key(a.message) \in CacheKeys
    BY <1>2, <1>3 DEF Acceptance, Locked
  <2>2. /\ cache[Key(a.message)] # NoEntry
        /\ cache[Key(a.message)].expiresAt >= a.message.signedAt + ReplayWindow
        /\ cache[Key(a.message)].lock
    BY DEF CacheCoversLocks
  <2>3. cache[Key(a.message)] \in CacheEntry /\ a.message \in Message
    BY <2>1, <2>2 DEF TypeOK, Acceptance
  <2>4. cache[Key(a.message)].expiresAt > now
    BY <1>1, <2>2, <2>3, InboxAssumption DEF Locked, ValidityLeft, Message, CacheEntry
  <2> QED BY <2>1, <2>2, <2>3, <2>4
<1>10. NothingLost'
  <2> SUFFICES ASSUME NEW a \in accepted, a.message.expiresAt > clock
               PROVE  a.message \in (Pending \cup acked)'
    BY DEF NothingLost
  <2>1. a.message \in Pending \cup acked
    BY DEF NothingLost
  <2>2. a.message.expiresAt > now
    BY <1>1, <1>2, <1>3 DEF Acceptance
  <2> QED BY <2>1, <2>2
<1>11. ReplayLockHolds'
  BY DEF ReplayLockHolds, ValidityLeft
<1> QED BY <1>4, <1>5, <1>6, <1>7, <1>8, <1>9, <1>10, <1>11

(* What pruning leaves: everything alive, and every live or locked entry.  *)
LEMMA CacheKept ==
  ASSUME TypeOK, NEW now \in 0..clock, NEW k \in CacheKeys,
         cache[k] # NoEntry, cache[k].expiresAt > now
  PROVE  FreshCache(now)[k] = cache[k]
<1>1. cache[k] \in CacheEntry
  BY DEF TypeOK
<1>2. ~(cache[k].expiresAt <= now)
  BY <1>1 DEF TypeOK, CacheEntry
<1> QED BY <1>2 DEF FreshCache

(* A lookup drops entries of the cache that are over, and no other.        *)
LEMMA LookupKeeps ==
  ASSUME TypeOK, NEW now \in 0..clock, NEW r \in Requests
  PROVE  /\ CacheAfterLookup(r, now) \in [CacheKeys -> CacheEntry \cup {NoEntry}]
         /\ \A k \in CacheKeys :
              /\ cache[k] # NoEntry
              /\ cache[k].expiresAt > now
              /\ cache[k].lock \/ cache[k].message.expiresAt > now
              => CacheAfterLookup(r, now)[k] = cache[k]
<1>1. FreshCache(now) \in [CacheKeys -> CacheEntry \cup {NoEntry}]
  BY PrunedTypes
<1>2. CacheAfterLookup(r, now) \in [CacheKeys -> CacheEntry \cup {NoEntry}]
  BY <1>1 DEF CacheAfterLookup
<1>3. ASSUME NEW k \in CacheKeys, cache[k] # NoEntry, cache[k].expiresAt > now,
             cache[k].lock \/ cache[k].message.expiresAt > now
      PROVE  CacheAfterLookup(r, now)[k] = cache[k]
  <2>1. FreshCache(now)[k] = cache[k]
    BY <1>3, CacheKept
  <2>2. CASE <<r.sender, r.requestId>> = k
    <3>1. r.requestId # NoRequestId
      BY <2>2, InboxAssumption DEF CacheKeys
    <3>2. CachedEntry(r, now) = cache[k]
      BY <2>1, <2>2, <3>1 DEF CachedEntry
    <3> QED BY <1>3, <2>1, <3>2 DEF CacheAfterLookup, IsLive
  <2>3. CASE <<r.sender, r.requestId>> # k
    BY <1>1, <2>1, <2>3 DEF CacheAfterLookup
  <2> QED BY <2>2, <2>3
<1> QED BY <1>2, <1>3

(* Pruning at a time not later than now, and nothing else.                 *)
LEMMA PruningOnly ==
  ASSUME IInv, NEW now \in 0..clock, UNCHANGED <<clock, accepted, acked>>,
         queue' = FreshQueue(now), inFlight' = FreshInFlight(now),
         buckets' \in [Senders -> Bucket \cup {NoBucket}],
         cache' \in [CacheKeys -> CacheEntry \cup {NoEntry}],
         \A k \in CacheKeys :
           /\ cache[k] # NoEntry
           /\ cache[k].expiresAt > now
           /\ cache[k].lock \/ cache[k].message.expiresAt > now
           => cache'[k] = cache[k]
  PROVE  IInv'
<1>1. TypeOK
  BY DEF IInv
<1>2. /\ Queued' = {m \in Queued : m.expiresAt > now}
      /\ queue' \in [DOMAIN queue' -> Int]
      /\ inFlight' = {m \in inFlight : m.expiresAt > now}
  BY <1>1, PrunedTypes DEF Queued, FreshInFlight
<1>3. TypeOK'
  BY <1>1, <1>2 DEF TypeOK, Queued
<1>4. /\ Pending' \subseteq Pending
      /\ Queued' \cap inFlight' = {}
      /\ Pending' \cap acked' = {}
      /\ \A m \in Pending : m.expiresAt > now => m \in (Pending \cup acked)'
  BY <1>2 DEF IInv, SingleHome, Pending
<1> QED BY <1>3, <1>4, NoAcceptance

(* Requests that are turned away only prune.                               *)
LEMMA RejectStep ==
  ASSUME IInv, NEW now \in 0..clock, NEW r \in Requests, UNCHANGED clock,
         Reject(r, now) \/ RejectRate(r, now) \/ Answer(r, now) \/ Prune(now)
  PROVE  IInv'
<1>1. TypeOK /\ r.sender \in Senders
  BY InboxAssumption DEF IInv, Request
<1>2. UNCHANGED <<accepted, acked>> /\ queue' = FreshQueue(now) /\ inFlight' = FreshInFlight(now)
  BY DEF Reject, RejectRate, Answer, Prune
<1>3. buckets' \in [Senders -> Bucket \cup {NoBucket}]
  BY <1>1, PrunedTypes, BucketTypes DEF Reject, RejectRate, Answer, Prune
<1>4. cache' = FreshCache(now) \/ cache' = CacheAfterLookup(r, now)
  BY DEF Reject, RejectRate, Answer, Prune
<1>5. cache' \in [CacheKeys -> CacheEntry \cup {NoEntry}]
  BY <1>1, <1>4, PrunedTypes, LookupKeeps
<1>6. \A k \in CacheKeys :
        /\ cache[k] # NoEntry
        /\ cache[k].expiresAt > now
        /\ cache[k].lock \/ cache[k].message.expiresAt > now
        => cache'[k] = cache[k]
  BY <1>1, <1>4, CacheKept, LookupKeeps
<1> QED BY <1>2, <1>3, <1>5, <1>6, PruningOnly

(* A batch moves from the queue to the leases.                             *)
LEMMA TakeStep ==
  ASSUME IInv, NEW now \in 0..clock, NEW n, TakeBatch(n, now), UNCHANGED clock
  PROVE  IInv'
<1>1. TypeOK
  BY DEF IInv
<1>2. PICK out \in SUBSET DOMAIN FreshQueue(now) :
        /\ queue' = [m \in DOMAIN FreshQueue(now) \ out |-> FreshQueue(now)[m]]
        /\ inFlight' = FreshInFlight(now) \cup out
        /\ cache' = FreshCache(now)
        /\ buckets' = FreshBuckets(now)
        /\ UNCHANGED <<accepted, acked>>
  BY DEF TakeBatch
<1>3. /\ Queued' = {m \in Queued : m.expiresAt > now} \ out
      /\ out \subseteq {m \in Queued : m.expiresAt > now}
      /\ queue' \in [DOMAIN queue' -> Int]
  BY <1>1, <1>2, PrunedTypes DEF Queued
<1>4. inFlight' = {m \in inFlight : m.expiresAt > now} \cup out
  BY <1>2 DEF FreshInFlight
<1>5. TypeOK'
  BY <1>1, <1>2, <1>3, <1>4, PrunedTypes DEF TypeOK, Queued
<1>6. /\ Pending' \subseteq Pending
      /\ Queued' \cap inFlight' = {}
      /\ Pending' \cap acked' = {}
      /\ \A m \in Pending : m.expiresAt > now => m \in (Pending \cup acked)'
  BY <1>2, <1>3, <1>4 DEF IInv, SingleHome, Pending
<1> QED BY <1>1, <1>2, <1>5, <1>6, CacheKept, NoAcceptance

(* What is acknowledged leaves the leases for good.                        *)
LEMMA AckStep ==
  ASSUME IInv, NEW now \in 0..clock, NEW ms, AckBatch(ms, now), UNCHANGED clock
  PROVE  IInv'
<1>1. TypeOK
  BY DEF IInv
<1>2. /\ Queued' = {m \in Queued : m.expiresAt > now}
      /\ queue' \in [DOMAIN queue' -> Int]
  BY <1>1, PrunedTypes DEF Queued, AckBatch
<1>3. /\ inFlight' = {m \in inFlight : m.expiresAt > now} \ ms
      /\ acked' = acked \cup ({m \in inFlight : m.expiresAt > now} \cap ms)
  BY DEF AckBatch, FreshInFlight
<1>4. TypeOK'
  BY <1>1, <1>2, <1>3, PrunedTypes DEF TypeOK, Queued, AckBatch
<1>5. /\ Pending' \subseteq Pending
      /\ Queued' \cap inFlight' = {}
      /\ Pending' \cap acked' = {}
      /\ acked \subseteq acked' /\ acked' \subseteq acked \cup Pending
      /\ \A m \in Pending : m.expiresAt > now => m \in (Pending \cup acked)'
  BY <1>2, <1>3 DEF IInv, SingleHome, Pending
<1>6. UNCHANGED accepted /\ cache' = FreshCache(now)
  BY DEF AckBatch
<1> QED BY <1>1, <1>4, <1>5, <1>6, CacheKept, NoAcceptance

(* What is given back was leased, so the limit needs no check.             *)
LEMMA RequeueStep ==
  ASSUME IInv, NEW now \in 0..clock, NEW ms, RequeueBatch(ms, now), UNCHANGED clock
  PROVE  IInv'
<1> DEFINE kept == FreshInFlight(now) \cap Range(ms)
<1>1. TypeOK
  BY DEF IInv
<1>2. /\ kept \subseteq {m \in inFlight : m.expiresAt > now}
      /\ inFlight' = {m \in inFlight : m.expiresAt > now} \ kept
      /\ queue' = Unshifted(FreshQueue(now), ms, kept)
      /\ cache' = FreshCache(now) /\ buckets' = FreshBuckets(now)
      /\ UNCHANGED <<accepted, acked>>
  BY DEF RequeueBatch, FreshInFlight
<1>3. IsFiniteSet(kept) /\ IsFiniteSet(DOMAIN FreshQueue(now))
  BY <1>1, PrunedTypes, FS_Subset DEF IInv, Finite, FreshInFlight
<1>4. /\ Queued' = {m \in Queued : m.expiresAt > now} \cup kept
      /\ queue' \in [DOMAIN queue' -> Int]
  <2> HIDE DEF kept
  <2>1. Unshifted(FreshQueue(now), ms, kept) \in [DOMAIN FreshQueue(now) \cup kept -> Int]
    BY <1>1, <1>3, PrunedTypes, PlacesType
  <2> QED BY <1>1, <1>2, <2>1, PrunedTypes DEF Queued
<1> HIDE DEF kept
<1>5. TypeOK'
  BY <1>1, <1>2, <1>4, PrunedTypes DEF TypeOK, Queued
<1>6. /\ Pending' \subseteq Pending
      /\ Queued' \cap inFlight' = {}
      /\ Pending' \cap acked' = {}
      /\ \A m \in Pending : m.expiresAt > now => m \in (Pending \cup acked)'
  BY <1>2, <1>4 DEF IInv, SingleHome, Pending
<1> QED BY <1>1, <1>2, <1>5, <1>6, CacheKept, NoAcceptance

-----------------------------------------------------------------------------
(* Accepting a message.  Its id is new, so it is in no container; and no   *)
(* live or locked entry of its key can be in the cache, since the cache    *)
(* would have answered "duplicate" or blocked the request.                 *)
LEMMA KeyIsFree ==
  ASSUME IInv, NEW now \in 0..clock, NEW r \in Requests, Enqueue(r, now),
         r.requestId # NoRequestId
  PROVE  LET k == <<r.sender, r.requestId>>
         IN  /\ k \in CacheKeys
             /\ cache[k] # NoEntry /\ cache[k].expiresAt > now =>
                  /\ ~(cache[k].message.expiresAt > now)
                  /\ ~(r.sender \in SignedSenders /\ cache[k].lock)
<1> DEFINE k == <<r.sender, r.requestId>>
<1>1. k \in CacheKeys
  BY InboxAssumption DEF CacheKeys, Request
<1>2. SUFFICES ASSUME cache[k] # NoEntry, cache[k].expiresAt > now
               PROVE  /\ ~(cache[k].message.expiresAt > now)
                      /\ ~(r.sender \in SignedSenders /\ cache[k].lock)
  BY <1>1
<1>3. CachedEntry(r, now) = cache[k]
  BY <1>1, <1>2, CacheKept DEF CachedEntry, IInv
<1>4. ~IsDuplicate(r, now) /\ ~SignedPrecheckBlocks(r, now)
  BY DEF Enqueue, Admissible
<1> QED BY <1>2, <1>3, <1>4 DEF IsDuplicate, SignedPrecheckBlocks, ReplayBlocked, IsLive

(* A message enters when there is room and no live copy of its request.    *)
LEMMA EnqueueStep ==
  ASSUME IInv, NEW now \in 0..clock, NEW r \in Requests, Enqueue(r, now), UNCHANGED clock
  PROVE  IInv'
<1> DEFINE m == Normalized(r, now)
<1> DEFINE a == [message |-> m, at |-> clock]
<1> DEFINE entry == [message |-> m, expiresAt |-> now + Retention(m, now),
                     lock |-> m.sender \in SignedSenders]
<1> DEFINE C == CacheAfterLookup(r, now)
<1>1. /\ TypeOK /\ Finite /\ IdsUnique /\ clock \in Nat /\ now \in Nat /\ now <= clock
      /\ IsFiniteSet(accepted) /\ Cardinality(accepted) \in Nat
  BY FS_CardinalityType DEF IInv, TypeOK, Finite
<1>2. /\ m \in Message /\ m.sender = r.sender /\ m.requestId = r.requestId
      /\ m.id = Cardinality(accepted) + 1
  BY <1>1, NormalizedType
<1>3. /\ Retention(m, now) \in Nat /\ now + Retention(m, now) >= m.expiresAt
      /\ m.sender \in SignedSenders => now + Retention(m, now) >= m.signedAt + ReplayWindow
  BY <1>1, <1>2, RetentionBound
<1> HIDE DEF m
<1>4. a \in Acceptance /\ a.message = m /\ a.at = clock
  BY <1>1, <1>2, <1>3 DEF Acceptance
<1>5. entry \in CacheEntry /\ entry.message = m
      /\ entry.expiresAt = now + Retention(m, now)
      /\ entry.lock = (m.sender \in SignedSenders)
  BY <1>1, <1>2, <1>3 DEF CacheEntry
<1>6. /\ queue' = Pushed(FreshQueue(now), m)
      /\ inFlight' = FreshInFlight(now)
      /\ cache' = CachedWith(C, m, now)
      /\ accepted' = accepted \cup {a}
      /\ buckets' = Consumed(r.sender, now)
      /\ acked' = acked
  BY DEF Enqueue, m
<1>7. m \notin Pending \cup acked /\ \A b \in accepted : b.message # m /\ b.message.id < m.id
  <2>1. \A b \in accepted : b.message \in Message
    BY <1>1 DEF TypeOK, Acceptance
  <2>2. \A b \in accepted : b.message.id <= Cardinality(accepted) /\ b.message.id \in Nat
    BY <1>1, <2>1 DEF IdsUnique, Message
  <2>3. \A b \in accepted : b.message # m /\ b.message.id < m.id
    BY <1>1, <1>2, <2>2
  <2> QED BY <1>1, <2>3 DEF IdsUnique
<1>8. /\ FreshQueue(now) \in [DOMAIN FreshQueue(now) -> Int]
      /\ DOMAIN FreshQueue(now) = {x \in Queued : x.expiresAt > now}
      /\ IsFiniteSet(DOMAIN FreshQueue(now))
      /\ IsFiniteSet(FreshInFlight(now))
  BY <1>1, PrunedTypes, FS_Subset DEF Finite
<1>9. /\ queue' \in [DOMAIN FreshQueue(now) \cup {m} -> Int]
      /\ Queued' = {x \in Queued : x.expiresAt > now} \cup {m}
      /\ inFlight' = {x \in inFlight : x.expiresAt > now}
  BY <1>6, <1>8, PlacesType DEF Queued, FreshInFlight
<1> HIDE DEF C, a, entry
<1>10. /\ C \in [CacheKeys -> CacheEntry \cup {NoEntry}]
       /\ m.requestId = NoRequestId => cache' = C
       /\ m.requestId # NoRequestId =>
            /\ Key(m) \in CacheKeys /\ cache'[Key(m)] = entry
            /\ \A k \in CacheKeys \ {Key(m)} : cache'[k] = C[k]
       /\ cache' \in [CacheKeys -> CacheEntry \cup {NoEntry}]
  <2>1. C \in [CacheKeys -> CacheEntry \cup {NoEntry}]
    BY <1>1, LookupKeeps DEF C
  <2>2. m.requestId # NoRequestId => Key(m) \in CacheKeys
    BY <1>2 DEF Key, CacheKeys, Message
  <2>3. cache' = IF m.requestId = NoRequestId THEN C ELSE [C EXCEPT ![Key(m)] = entry]
    BY <1>6 DEF CachedWith, Key, entry
  <2> QED BY <1>5, <2>1, <2>2, <2>3
<1>11. TypeOK'
  <2>1. buckets' \in [Senders -> Bucket \cup {NoBucket}]
    BY <1>1, <1>2, <1>6, BucketTypes DEF Message
  <2>2. clock' \in Nat /\ accepted' \subseteq Acceptance /\ acked' \subseteq Message
    BY <1>1, <1>4, <1>6 DEF TypeOK
  <2>3. /\ DOMAIN queue' \subseteq Message /\ queue' \in [DOMAIN queue' -> Int]
        /\ inFlight' \subseteq Message
    BY <1>1, <1>2, <1>8, <1>9 DEF TypeOK, Queued
  <2> QED BY <1>10, <2>1, <2>2, <2>3 DEF TypeOK
<1>12. Finite'
  <2>1. IsFiniteSet(Queued') /\ IsFiniteSet(accepted')
    BY <1>1, <1>6, <1>8, <1>9, FS_AddElement
  <2>2. IsFiniteSet(inFlight')
    BY <1>6, <1>8
  <2> QED BY <2>1, <2>2 DEF Finite
<1>13. IdsUnique'
  <2>1. a \notin accepted
    BY <1>4, <1>7
  <2>2. Cardinality(accepted') = Cardinality(accepted) + 1
    BY <1>1, <1>6, <2>1, FS_AddElement
  <2>3. \A b \in accepted' : b.message.id <= Cardinality(accepted')
    <3>1. \A b \in accepted : b.message.id \in Nat /\ b.message.id <= Cardinality(accepted)
      BY <1>1 DEF IdsUnique, TypeOK, Acceptance, Message
    <3> QED BY <1>1, <1>2, <1>4, <1>6, <2>2, <3>1
  <2>4. \A b, c \in accepted' : b.message.id = c.message.id => b = c
    <3>1. \A b \in accepted : b.message.id # m.id
      BY <1>1, <1>2, <1>7 DEF TypeOK, Acceptance, Message
    <3> QED BY <1>1, <1>4, <1>6, <3>1 DEF IdsUnique
  <2>5. \A x \in (Pending \cup acked)' : \E b \in accepted' : b.message = x
    <3>1. (Pending \cup acked)' \subseteq Pending \cup acked \cup {m}
      BY <1>6, <1>9 DEF Pending
    <3> QED BY <1>1, <1>4, <1>6, <3>1 DEF IdsUnique
  <2> QED BY <2>3, <2>4, <2>5 DEF IdsUnique
<1>14. SingleHome'
  BY <1>6, <1>7, <1>9 DEF IInv, SingleHome, Pending
<1>15. CapacityBound'
  <2> DEFINE Q == DOMAIN FreshQueue(now)
  <2>1. m \notin Q
    BY <1>7, <1>8 DEF Pending
  <2>2. Q' = Q' /\ Queued' = Q \cup {m}
    BY <1>8, <1>9
  <2>3. Cardinality(Queued') = Cardinality(Q) + 1
    BY <1>8, <2>1, <2>2, FS_AddElement
  <2>4. Cardinality(Q) + Cardinality(FreshInFlight(now)) < QueueLimit
    BY DEF Enqueue, HasRoom
  <2>5. Cardinality(Q) \in Nat /\ Cardinality(FreshInFlight(now)) \in Nat
    BY <1>8, FS_CardinalityType
  <2> HIDE DEF Q
  <2> QED BY <1>6, <2>3, <2>4, <2>5, InboxAssumption DEF CapacityBound
<1>16. ASSUME NEW k \in CacheKeys, cache[k] # NoEntry, cache[k].expiresAt > now,
              \/ cache[k].message.expiresAt > now
              \/ cache[k].lock /\ k[1] \in SignedSenders
       PROVE  cache'[k] = cache[k]
  <2>1. C[k] = cache[k]
    BY <1>1, <1>16, LookupKeeps DEF C
  <2>2. CASE m.requestId = NoRequestId
    BY <1>10, <2>1, <2>2
  <2>3. CASE m.requestId # NoRequestId
    <3>1. k # Key(m)
      BY <1>2, <1>16, <2>3, KeyIsFree DEF Key
    <3> QED BY <1>10, <2>1, <2>3, <3>1
  <2> QED BY <2>2, <2>3
<1>17. \A x \in Message : /\ x.expiresAt \in Nat /\ x.sender \in Senders
                          /\ (x.requestId # NoRequestId => Key(x) \in CacheKeys)
                          /\ Key(x)[1] = x.sender
  BY DEF Message, CacheKeys, Key
<1>18. CacheCoversPending'
  <2> SUFFICES ASSUME NEW x \in Pending', x.requestId # NoRequestId, x.expiresAt > clock
               PROVE  /\ cache'[Key(x)] # NoEntry
                      /\ cache'[Key(x)].message = x
                      /\ cache'[Key(x)].expiresAt >= x.expiresAt
    BY DEF CacheCoversPending, Key
  <2>1. CASE x = m
    BY <1>3, <1>5, <1>10, <2>1, InboxAssumption
  <2>2. CASE x # m
    <3>1. x \in Pending /\ x \in Message
      BY <1>1, <1>9, <2>2 DEF Pending, Queued, TypeOK
    <3>2. /\ Key(x) \in CacheKeys
          /\ cache[Key(x)] # NoEntry
          /\ cache[Key(x)].message = x
          /\ cache[Key(x)].expiresAt >= x.expiresAt
      BY <1>17, <3>1 DEF IInv, CacheCoversPending
    <3>3. cache[Key(x)] \in CacheEntry
      BY <1>1, <3>2 DEF TypeOK
    <3>4. cache[Key(x)].expiresAt > now /\ x.expiresAt > now
      BY <1>1, <1>17, <3>1, <3>2, <3>3 DEF CacheEntry
    <3> QED BY <1>16, <3>2, <3>4
  <2> QED BY <2>1, <2>2
<1>19. ASSUME NEW b \in accepted, Locked(b)
       PROVE  /\ cache'[Key(b.message)] = cache[Key(b.message)]
              /\ Key(b.message) \in CacheKeys
              /\ m.requestId # NoRequestId => Key(b.message) # Key(m)
  <2>1. b.message \in Message
    BY <1>1 DEF TypeOK, Acceptance
  <2>2. /\ Key(b.message) \in CacheKeys
        /\ cache[Key(b.message)] # NoEntry
        /\ cache[Key(b.message)] \in CacheEntry
        /\ cache[Key(b.message)].expiresAt >= b.message.signedAt + ReplayWindow
        /\ cache[Key(b.message)].lock
        /\ Key(b.message)[1] \in SignedSenders
    BY <1>1, <1>17, <1>19, <2>1 DEF IInv, CacheCoversLocks, Locked, TypeOK
  <2>3. cache[Key(b.message)].expiresAt > now
    BY <1>1, <1>19, <2>1, <2>2, InboxAssumption DEF Locked, ValidityLeft, Message, CacheEntry
  <2>4. m.requestId # NoRequestId => Key(b.message) # Key(m)
    BY <1>2, <2>2, <2>3, KeyIsFree DEF Key
  <2> QED BY <1>16, <2>2, <2>3, <2>4
<1>20. CacheCoversLocks'
  <2> SUFFICES ASSUME NEW b \in accepted', Locked(b)
               PROVE  /\ cache'[Key(b.message)] # NoEntry
                      /\ cache'[Key(b.message)].message = b.message
                      /\ cache'[Key(b.message)].expiresAt >= b.message.signedAt + ReplayWindow
                      /\ cache'[Key(b.message)].lock
    BY DEF CacheCoversLocks, Key, Locked, ValidityLeft
  <2>1. CASE b = a
    BY <1>3, <1>4, <1>5, <1>10, <2>1, InboxAssumption DEF Locked
  <2>2. CASE b \in accepted
    BY <1>19, <2>2 DEF IInv, CacheCoversLocks
  <2> QED BY <1>6, <2>1, <2>2
<1>21. NothingLost'
  <2> SUFFICES ASSUME NEW b \in accepted', b.message.expiresAt > clock
               PROVE  b.message \in (Pending \cup acked)'
    BY DEF NothingLost
  <2>1. CASE b = a
    BY <1>4, <1>9, <2>1 DEF Pending
  <2>2. CASE b \in accepted
    <3>1. b.message \in Pending \cup acked /\ b.message \in Message
      BY <1>1, <2>2 DEF IInv, NothingLost, TypeOK, Acceptance
    <3>2. b.message.expiresAt > now
      BY <1>1, <1>17, <3>1
    <3> QED BY <1>6, <1>9, <3>1, <3>2 DEF Pending
  <2> QED BY <1>6, <2>1, <2>2
<1>22. ReplayLockHolds'
  <2> SUFFICES ASSUME NEW b \in accepted', NEW c \in accepted',
                      b.message.id < c.message.id,
                      b.message.sender \in SignedSenders,
                      b.message.requestId # NoRequestId,
                      b.message.sender = c.message.sender,
                      b.message.requestId = c.message.requestId
               PROVE  ~ValidityLeft(b.message, c.at)
    BY DEF ReplayLockHolds, ValidityLeft
  <2>1. CASE b \in accepted /\ c \in accepted
    BY <2>1 DEF IInv, ReplayLockHolds
  <2>2. CASE b \in accepted /\ c = a
    <3>1. Key(b.message) = Key(m) /\ m.requestId # NoRequestId
      BY <1>4, <2>2 DEF Key
    <3>2. ~Locked(b)
      BY <1>19, <2>2, <3>1
    <3> QED BY <1>4, <2>2, <3>1, <3>2 DEF Locked
  <2>3. CASE b = a
    <3>1. c.message.id <= m.id
      BY <1>4, <1>6, <1>7, <1>2, <1>1 DEF TypeOK, Acceptance, Message
    <3>2. m.id \in Nat /\ c.message.id \in Nat
      BY <1>4, <1>6, <1>2, <1>1 DEF TypeOK, Acceptance, Message
    <3> QED BY <1>4, <2>3, <3>1, <3>2
  <2> QED BY <1>6, <2>1, <2>2, <2>3
<1> QED BY <1>11, <1>12, <1>13, <1>14, <1>15, <1>18, <1>20, <1>21, <1>22 DEF IInv

-----------------------------------------------------------------------------
(* Time only weakens what IInv asks.                                       *)
LEMMA TickStep ==
  ASSUME IInv, Tick
  PROVE  IInv'
<1> USE DEF IInv
<1>1. /\ clock \in Nat /\ clock' = clock + 1
      /\ UNCHANGED <<queue, inFlight, cache, buckets, accepted, acked>>
  BY DEF Tick, inboxVars, TypeOK
<1>2. TypeOK' /\ Finite' /\ IdsUnique' /\ SingleHome' /\ CapacityBound'
  BY <1>1 DEF TypeOK, Finite, IdsUnique, SingleHome, CapacityBound, Pending, Queued
<1>3. \A m \in Pending : m.expiresAt \in Nat
  BY DEF TypeOK, Pending, Queued, Message
<1>4. CacheCoversPending'
  BY <1>1, <1>3 DEF CacheCoversPending, Pending, Queued, Key
<1>5. \A a \in accepted : a.message.signedAt \in Nat /\ a.message.expiresAt \in Nat
  BY DEF TypeOK, Acceptance, Message
<1>6. CacheCoversLocks'
  BY <1>1, <1>5, InboxAssumption DEF CacheCoversLocks, Locked, ValidityLeft, Key
<1>7. NothingLost'
  BY <1>1, <1>5 DEF NothingLost, Pending, Queued
<1>8. ReplayLockHolds'
  BY <1>1 DEF ReplayLockHolds, ValidityLeft
<1> QED BY <1>2, <1>4, <1>6, <1>7, <1>8

(* Nothing happens.                                                        *)
LEMMA StutterStep ==
  ASSUME IInv, UNCHANGED vars
  PROVE  IInv'
BY DEF IInv, vars, TypeOK, Finite, IdsUnique, SingleHome, CapacityBound, CacheCoversPending,
       CacheCoversLocks, NothingLost, ReplayLockHolds, Pending, Queued, Key, Locked, ValidityLeft

(* The inbox starts empty.                                                 *)
LEMMA InitStep == Init => IInv
<1> SUFFICES ASSUME Init PROVE IInv
  OBVIOUS
<1>1. Queued = {} /\ inFlight = {} /\ accepted = {} /\ acked = {}
  BY DEF Init, Queued
<1>2. TypeOK
  BY <1>1 DEF Init, TypeOK, Queued
<1>3. Finite /\ CapacityBound
  BY <1>1, FS_EmptySet, InboxAssumption DEF Finite, CapacityBound
<1> QED BY <1>1, <1>2, <1>3 DEF IInv, IdsUnique, SingleHome, CacheCoversPending,
       CacheCoversLocks, NothingLost, ReplayLockHolds, Pending

(* Every step keeps the invariant.                                         *)
LEMMA NextStep == IInv /\ [Next]_vars => IInv'
<1> SUFFICES ASSUME IInv, [Next]_vars PROVE IInv'
  OBVIOUS
<1>1. clock \in Nat /\ clock \in 0..clock
  BY DEF IInv, TypeOK
<1>2. CASE Tick
  BY <1>2, TickStep
<1>3. CASE ClientSubmit
  <2>1. PICK r \in Requests, now \in Larger(0, clock - MaxLag)..clock : SubmitMessage(r, now)
    BY <1>3 DEF ClientSubmit
  <2>2. now \in 0..clock
    BY <1>1, InboxAssumption DEF Larger
  <2>3. UNCHANGED clock
    BY <1>3 DEF ClientSubmit
  <2> QED BY <2>1, <2>2, <2>3, RejectStep, EnqueueStep DEF SubmitMessage
<1>4. CASE ClientTake
  BY <1>1, <1>4, TakeStep DEF ClientTake
<1>5. CASE ClientAck
  BY <1>1, <1>5, AckStep DEF ClientAck
<1>6. CASE ClientRequeue
  BY <1>1, <1>6, RequeueStep DEF ClientRequeue
<1>7. CASE ClientPrune
  <2>1. UNCHANGED <<clock, accepted, acked>> /\ queue' = FreshQueue(clock)
        /\ inFlight' = FreshInFlight(clock)
        /\ cache' = FreshCache(clock) /\ buckets' = FreshBuckets(clock)
    BY <1>7 DEF ClientPrune, Prune
  <2>2. TypeOK
    BY DEF IInv
  <2> QED BY <1>1, <2>1, <2>2, PrunedTypes, CacheKept, PruningOnly
<1>8. CASE UNCHANGED vars
  BY <1>8, StutterStep
<1> QED BY <1>2, <1>3, <1>4, <1>5, <1>6, <1>7, <1>8 DEF Next

(* The strengthening holds in every reachable state of the inbox.          *)
THEOREM InboxInvariant == Spec => []IInv
BY InitStep, NextStep, PTL DEF Spec

(* Every container of the inbox holds what its code puts there.            *)
THEOREM InboxTypes == Spec => []TypeOK
<1>1. IInv => TypeOK
  BY DEF IInv
<1> QED BY <1>1, InboxInvariant, PTL

(* Queued and leased messages never exceed config.queueLimit, although     *)
(* requeueBatch pushes without looking at the limit.                       *)
THEOREM InboxCapacity == Spec => []CapacityBound
<1>1. IInv => CapacityBound
  BY DEF IInv
<1> QED BY <1>1, InboxInvariant, PTL

(* A message is queued, leased or acknowledged, never two of them.         *)
THEOREM InboxSingleHome == Spec => []SingleHome
<1>1. IInv => SingleHome
  BY DEF IInv
<1> QED BY <1>1, InboxInvariant, PTL

(* The request cache never lets a second live copy in, whatever the time   *)
(* to live, the idempotency window and the lag of the request.             *)
THEOREM InboxOneLiveCopy == Spec => []OneLiveCopy
<1>1. IInv => OneLiveCopy
  BY DEF IInv, CacheCoversPending, OneLiveCopy, Key
<1> QED BY <1>1, InboxInvariant, PTL

(* No accepted message disappears before it expires.                       *)
THEOREM InboxNothingLost == Spec => []NothingLost
<1>1. IInv => NothingLost
  BY DEF IInv
<1> QED BY <1>1, InboxInvariant, PTL

(* A signed request id is not accepted again while the signature of the    *)
(* first acceptance has validity left, however far ahead it was dated.     *)
THEOREM InboxReplayLock == Spec => []ReplayLockHolds
<1>1. IInv => ReplayLockHolds
  BY DEF IInv
<1> QED BY <1>1, InboxInvariant, PTL
-----------------------------------------------------------------------------
(* The pool of MessagePool. Its line is the order of the places: a message *)
(* that is pushed gets a place behind all others, those given back get     *)
(* places of their own before them.                                        *)

(* The messages that may still be taken are queued, at places below the    *)
(* count of accepted ones.                                                 *)
LEMMA FreshPlaces ==
  ASSUME IInv, NEW now \in 0..clock
  PROVE  /\ DOMAIN FreshQueue(now) \subseteq Queued
         /\ \A m \in DOMAIN FreshQueue(now) : FreshQueue(now)[m] = queue[m] /\ queue[m] \in Int
         /\ IsFiniteSet(DOMAIN FreshQueue(now))
         /\ FreshInFlight(now) \subseteq inFlight
<1>1. TypeOK /\ IsFiniteSet(Queued)
  BY DEF IInv, Finite
<1>2. DOMAIN FreshQueue(now) \subseteq Queued
  BY <1>1, PrunedTypes
<1>3. \A m \in DOMAIN FreshQueue(now) : FreshQueue(now)[m] = queue[m]
  BY DEF FreshQueue
<1>4. \A m \in Queued : queue[m] \in Int
  BY <1>1 DEF TypeOK, Queued
<1>5. IsFiniteSet(DOMAIN FreshQueue(now))
  BY <1>1, <1>2, FS_Subset
<1> QED BY <1>2, <1>3, <1>4, <1>5 DEF FreshInFlight

(* A message that is pushed gets a place behind all the others.            *)
LEMMA PushedBehind ==
  ASSUME NEW q, IsFiniteSet(DOMAIN q), \A m \in DOMAIN q : q[m] \in Int, NEW x
  PROVE  /\ DOMAIN Pushed(q, x) = DOMAIN q \cup {x}
         /\ \A m \in DOMAIN q : m # x =>
              Pushed(q, x)[m] = q[m] /\ Pushed(q, x)[m] < Pushed(q, x)[x]
<1> DEFINE back == IF DOMAIN q = {} THEN 0 ELSE 1 + Max(Places(q))
<1>1. Pushed(q, x) = [m \in DOMAIN q \cup {x} |-> IF m = x THEN back ELSE q[m]]
  BY DEF Pushed
<1>2. Places(q) \subseteq Int /\ IsFiniteSet(Places(q))
  <2>1. [m \in DOMAIN q |-> q[m]] \in Surjection(DOMAIN q, Places(q))
    BY DEF Surjection, Places
  <2>2. IsFiniteSet(Places(q))
    BY <2>1, FS_Surjection
  <2> QED BY <2>2 DEF Places
<1>3. \A m \in DOMAIN q : q[m] < back
  <2>1. ASSUME NEW m \in DOMAIN q PROVE q[m] < back
    <3>1. q[m] \in Places(q)
      BY DEF Places
    <3>2. Max(Places(q)) \in Int /\ q[m] <= Max(Places(q))
      BY <1>2, <3>1, EndsExist
    <3> QED BY <3>1, <3>2, <1>2
  <2> QED BY <2>1
<1> HIDE DEF back
<1> QED BY <1>1, <1>3

(* Messages of K, listed in ms, may be put before those of a queue.        *)
Returnable(q, ms, K) ==
  /\ IsFiniteSet(DOMAIN q) /\ \A m \in DOMAIN q : q[m] \in Int
  /\ DOMAIN ms \subseteq Int
  /\ K \subseteq Range(ms) /\ IsFiniteSet(K) /\ K \cap DOMAIN q = {}

(* They got places of their own there.                                     *)
Returned(q, K, u) ==
  /\ DOMAIN u = DOMAIN q \cup K
  /\ \A m \in DOMAIN q : u[m] = q[m]
  /\ \A x \in K : u[x] \in Int /\ \A m \in DOMAIN q : u[x] < u[m]
  /\ \A x, y \in K : x # y => u[x] # u[y]

(* Messages given back get different places, before all the others.        *)
LEMMA UnshiftedPlaces ==
  ASSUME NEW q, NEW ms, NEW K, Returnable(q, ms, K)
  PROVE  Returned(q, K, Unshifted(q, ms, K))
<1> DEFINE u == Unshifted(q, ms, K)
           front == IF DOMAIN q = {} THEN 0 ELSE Min(Places(q))
           index(m) == CHOOSE i \in DOMAIN ms : ms[i] = m
           behind(x) == {m \in K : index(x) <= index(m)}
<1>1. u = [x \in DOMAIN q \cup K |->
           IF x \in DOMAIN q THEN q[x] ELSE front - Cardinality(behind(x))]
  BY DEF Unshifted
<1> HIDE DEF u
<1> USE DEF Returnable
<1>2. \A x \in K : index(x) \in Int /\ ms[index(x)] = x
  BY DEF Range
<1>3. Places(q) \subseteq Int /\ IsFiniteSet(Places(q))
  <2>1. [m \in DOMAIN q |-> q[m]] \in Surjection(DOMAIN q, Places(q))
    BY DEF Surjection, Places
  <2>2. IsFiniteSet(Places(q))
    BY <2>1, FS_Surjection
  <2> QED BY <2>2 DEF Places
<1>4. front \in Int /\ \A m \in DOMAIN q : front <= q[m]
  <2>1. \A m \in DOMAIN q : q[m] \in Places(q)
    BY DEF Places
  <2>2. CASE DOMAIN q = {}
    BY <2>2
  <2>3. CASE DOMAIN q # {}
    <3>1. /\ Min(Places(q)) \in Places(q)
          /\ \A p \in Places(q) : Min(Places(q)) <= p
      BY <1>3, <2>1, <2>3, EndsExist
    <3> QED BY <1>3, <2>1, <2>3, <3>1
  <2> QED BY <2>2, <2>3
<1> HIDE DEF front, index
<1>5. ASSUME NEW x \in K
      PROVE  x \in behind(x) /\ IsFiniteSet(behind(x)) /\ Cardinality(behind(x)) \in Nat \ {0}
  <2>1. x \in behind(x)
    BY <1>2
  <2>2. IsFiniteSet(behind(x)) /\ Cardinality(behind(x)) \in Nat
    BY FS_Subset, FS_CardinalityType
  <2>3. Cardinality(behind(x)) # 0
    BY <2>1, <2>2, FS_EmptySet
  <2> QED BY <2>1, <2>2, <2>3
<1>6. ASSUME NEW x \in K, NEW y \in K, x # y
      PROVE  Cardinality(behind(x)) # Cardinality(behind(y))
  <2>1. index(x) \in Int /\ index(y) \in Int /\ index(x) # index(y)
    BY <1>2, <1>6
  <2>2. ASSUME NEW o \in K, NEW v \in K, index(o) < index(v)
        PROVE  Cardinality(behind(v)) < Cardinality(behind(o))
    <3>1. behind(v) \subseteq behind(o) /\ o \notin behind(v)
      <4>1. \A z \in K : index(v) <= index(z) => index(o) <= index(z)
        BY <1>2, <2>2
      <4>2. ~(index(v) <= index(o))
        BY <1>2, <2>2
      <4> QED BY <4>1, <4>2
    <3>2. o \in behind(o) /\ IsFiniteSet(behind(o))
      BY <1>5
    <3>3. behind(v) # behind(o)
      BY <3>1, <3>2
    <3>4. Cardinality(behind(o)) \in Nat /\ Cardinality(behind(v)) \in Nat
      BY <1>5
    <3> HIDE DEF behind
    <3>5. /\ Cardinality(behind(v)) <= Cardinality(behind(o))
          /\ Cardinality(behind(v)) # Cardinality(behind(o))
      BY <3>1, <3>2, <3>3, FS_Subset
    <3> QED BY <3>4, <3>5
  <2>3. Cardinality(behind(x)) \in Nat /\ Cardinality(behind(y)) \in Nat
    BY <1>5
  <2> HIDE DEF behind
  <2>4. CASE index(x) < index(y)
    <3>1. Cardinality(behind(y)) < Cardinality(behind(x))
      BY <2>2, <2>4
    <3> QED BY <2>3, <3>1
  <2>5. CASE index(y) < index(x)
    <3>1. Cardinality(behind(x)) < Cardinality(behind(y))
      BY <2>2, <2>5
    <3> QED BY <2>3, <3>1
  <2> QED BY <2>1, <2>4, <2>5
<1>7. \A x \in K : Cardinality(behind(x)) \in Nat \ {0}
  BY <1>5
<1> HIDE DEF behind
<1>8. \A x \in K : x \notin DOMAIN q /\ u[x] = front - Cardinality(behind(x))
  BY <1>1
<1>9. \A m \in DOMAIN q : u[m] = q[m]
  BY <1>1
<1>10. ASSUME NEW x \in K, NEW m \in DOMAIN q
       PROVE  u[x] < u[m]
  BY <1>4, <1>7, <1>8, <1>9
<1>11. ASSUME NEW x \in K, NEW y \in K, x # y
       PROVE  u[x] # u[y]
  BY <1>4, <1>6, <1>7, <1>8, <1>11
<1> QED BY <1>1, <1>4, <1>7, <1>8, <1>9, <1>10, <1>11 DEF Returned, u

(* A list of a finite set is numbered.                                     *)
LEMMA ListedInt ==
  ASSUME NEW S, IsFiniteSet(S), NEW ms \in SUBSET S, NEW s \in SetToSeqs(ms)
  PROVE  DOMAIN s \subseteq Int
<1>1. Cardinality(ms) \in Nat
  BY FS_Subset, FS_CardinalityType
<1> QED BY <1>1 DEF SetToSeqs

(* Pruning at a time that is past never touches what is alive.             *)
LEMMA LiveStays ==
  ASSUME IInv, NEW now \in 0..clock
  PROVE  /\ Live(Queued) = {m \in DOMAIN FreshQueue(now) : m.expiresAt > clock}
         /\ Live(inFlight) = {m \in FreshInFlight(now) : m.expiresAt > clock}
         /\ \A m \in Live(Queued) : FreshQueue(now)[m] = queue[m] /\ queue[m] \in Int
         /\ Live(Queued) \cap Live(inFlight) = {}
         /\ IsFiniteSet(Live(Queued)) /\ IsFiniteSet(Live(inFlight))
<1>1. \A m \in Pending : m.expiresAt \in Nat
  BY DEF IInv, TypeOK, Pending, Queued, Message
<1>2. \A m \in Pending : m.expiresAt > clock => m.expiresAt > now
  BY <1>1 DEF IInv, TypeOK
<1>3. DOMAIN FreshQueue(now) = {m \in Queued : m.expiresAt > now}
  BY PrunedTypes DEF IInv
<1>4. /\ Live(Queued) = {m \in DOMAIN FreshQueue(now) : m.expiresAt > clock}
      /\ Live(inFlight) = {m \in FreshInFlight(now) : m.expiresAt > clock}
  BY <1>2, <1>3 DEF Live, FreshInFlight, Pending
<1>5. \A m \in Live(Queued) : FreshQueue(now)[m] = queue[m] /\ queue[m] \in Int
  BY <1>4, FreshPlaces
<1>6. IsFiniteSet(Live(Queued)) /\ IsFiniteSet(Live(inFlight))
  BY FS_Subset DEF Live, IInv, Finite
<1> QED BY <1>4, <1>5, <1>6 DEF Live, IInv, SingleHome

(* The line of a step that moves nobody.                                   *)
LEMMA LineKept ==
  ASSUME Live(Queued)' = Live(Queued), \A m \in Live(Queued) : queue'[m] = queue[m]
  PROVE  Line' = Line
BY DEF Line

(* Pruning is not seen in the pool.                                        *)
LEMMA PruneIsQuiet ==
  ASSUME IInv, NEW now \in 0..clock, UNCHANGED <<clock, accepted, acked>>,
         queue' = FreshQueue(now), inFlight' = FreshInFlight(now)
  PROVE  UNCHANGED Pool!vars
<1>1. Live(Queued)' = Live(Queued) /\ Live(inFlight)' = Live(inFlight)
  BY LiveStays DEF Live, Queued
<1>2. Line' = Line
  BY <1>1, LiveStays, LineKept
<1> QED BY <1>1, <1>2 DEF Pool!vars

(* When time passes, the pool loses what expires.                          *)
LEMMA TickIsPass ==
  ASSUME IInv, Tick
  PROVE  Pool!Pass
<1>1. /\ clock \in Nat /\ clock' = clock + 1 /\ UNCHANGED <<queue, inFlight, accepted, acked>>
      /\ Queued' = Queued
  BY DEF Tick, inboxVars, IInv, TypeOK, Queued
<1>2. \A m \in Pending : m.expiresAt \in Nat /\ (m.expiresAt > clock' => m.expiresAt > clock)
  BY <1>1 DEF IInv, TypeOK, Pending, Queued, Message
<1>3. /\ Live(Queued)' = {m \in Live(Queued) : m.expiresAt > clock'}
      /\ Live(inFlight)' = {m \in Live(inFlight) : m.expiresAt > clock'}
  BY <1>1, <1>2 DEF Live, Pending
<1>4. Line' = Line \cap (Live(Queued)' \X Live(Queued)')
  BY <1>1, <1>3 DEF Line
<1> QED BY <1>1, <1>3, <1>4 DEF Pool!Pass, Pool!Alive

(* A batch is leased from the head of the line.                            *)
LEMMA TakeIsTake ==
  ASSUME IInv, NEW n, TakeBatch(n, clock), UNCHANGED clock
  PROVE  \E S \in SUBSET Live(Queued) : Pool!Take(S)
<1>1. clock \in 0..clock /\ clock \in Int
  BY DEF IInv, TypeOK
<1>2. PICK out \in SUBSET DOMAIN FreshQueue(clock) :
        /\ \A m \in out, o \in DOMAIN FreshQueue(clock) \ out :
             FreshQueue(clock)[m] < FreshQueue(clock)[o]
        /\ queue' = [m \in DOMAIN FreshQueue(clock) \ out |-> FreshQueue(clock)[m]]
        /\ inFlight' = FreshInFlight(clock) \cup out
        /\ UNCHANGED <<accepted, acked>>
  BY DEF TakeBatch
<1>3. /\ DOMAIN FreshQueue(clock) = Live(Queued) /\ FreshInFlight(clock) = Live(inFlight)
      /\ \A m \in Live(Queued) : FreshQueue(clock)[m] = queue[m]
  BY <1>1, PrunedTypes, LiveStays DEF IInv, Live, FreshInFlight
<1>4. /\ Queued' = Live(Queued) \ out /\ inFlight' = Live(inFlight) \cup out
      /\ \A m \in Queued' : queue'[m] = queue[m]
      /\ \A m \in out, o \in Live(Queued) \ out : queue[m] < queue[o]
  BY <1>2, <1>3 DEF Queued
<1>5. Live(Queued)' = Live(Queued) \ out /\ Live(inFlight)' = Live(inFlight) \cup out
  BY <1>2, <1>3, <1>4 DEF Live
<1>6. Line' = Line \cap (Live(Queued)' \X Live(Queued)')
  BY <1>4, <1>5 DEF Line, Live
<1>7. \A m \in out, o \in Live(Queued) \ out : <<m, o>> \in Line
  BY <1>2, <1>3, <1>4 DEF Line
<1> QED BY <1>2, <1>3, <1>5, <1>6, <1>7 DEF Pool!Take

(* What is acknowledged leaves the leases for good.                        *)
LEMMA AckIsAcknowledge ==
  ASSUME IInv, NEW ms, AckBatch(ms, clock), UNCHANGED clock
  PROVE  \E S \in SUBSET Live(inFlight) : Pool!Acknowledge(S)
<1>1. clock \in 0..clock
  BY DEF IInv, TypeOK
<1>2. /\ DOMAIN FreshQueue(clock) = Live(Queued) /\ FreshInFlight(clock) = Live(inFlight)
      /\ \A m \in Live(Queued) : FreshQueue(clock)[m] = queue[m]
  BY <1>1, PrunedTypes, LiveStays DEF IInv, Live, FreshInFlight
<1>3. /\ Queued' = Live(Queued) /\ inFlight' = Live(inFlight) \ ms
      /\ acked' = acked \cup (Live(inFlight) \cap ms)
      /\ UNCHANGED accepted
      /\ \A m \in Live(Queued) : queue'[m] = queue[m]
  BY <1>2 DEF AckBatch, Queued
<1>4. Live(Queued)' = Live(Queued) /\ Live(inFlight)' = Live(inFlight) \ (Live(inFlight) \cap ms)
  BY <1>3 DEF Live
<1>5. Line' = Line
  BY <1>3, <1>4, LineKept
<1> QED BY <1>3, <1>4, <1>5 DEF Pool!Acknowledge

(* Different places put a set of messages in line.                         *)
LEMMA PlacesAreALine ==
  ASSUME NEW S, NEW q, \A x \in S : q[x] \in Int, \A x, y \in S : q[x] = q[y] => x = y
  PROVE  {p \in S \X S : q[p[1]] < q[p[2]]} \in Pool!Lines(S)
<1> DEFINE R == {p \in S \X S : q[p[1]] < q[p[2]]}
<1>1. \A x, y \in S : <<x, y>> \in R <=> q[x] < q[y]
  OBVIOUS
<1>2. R \in SUBSET (S \X S)
  OBVIOUS
<1> HIDE DEF R
<1>3. ASSUME NEW x \in S, NEW y \in S
      PROVE  /\ x = y \/ <<x, y>> \in R \/ <<y, x>> \in R
             /\ ~(<<x, y>> \in R /\ <<y, x>> \in R)
             /\ \A o \in S : <<x, y>> \in R /\ <<y, o>> \in R => <<x, o>> \in R
  <2>1. q[x] \in Int /\ q[y] \in Int /\ (q[x] = q[y] => x = y)
    OBVIOUS
  <2>2. x = y \/ q[x] < q[y] \/ q[y] < q[x]
    BY <2>1
  <2>3. ~(q[x] < q[y] /\ q[y] < q[x])
    BY <2>1
  <2>4. \A o \in S : q[x] < q[y] /\ q[y] < q[o] => q[x] < q[o]
    BY <2>1
  <2> QED BY <1>1, <2>2, <2>3, <2>4
<1>4. R \in Pool!Lines(S)
  BY <1>2, <1>3, Zenon DEF Pool!Lines
<1> QED BY <1>4 DEF R

(* What is given back is lined up before those that wait.                  *)
LEMMA RequeueIsGiveBack ==
  ASSUME IInv, NEW ms \in SUBSET inFlight, NEW s \in SetToSeqs(ms),
         RequeueBatch(s, clock), UNCHANGED clock
  PROVE  \E S \in SUBSET Live(inFlight) : Pool!GiveBack(S)
<1> DEFINE q == FreshQueue(clock)
           K == FreshInFlight(clock) \cap Range(s)
           W == Live(Queued)
           R == {p \in K \X K : queue'[p[1]] < queue'[p[2]]}
<1>1. clock \in 0..clock /\ IsFiniteSet(inFlight)
  BY DEF IInv, TypeOK, Finite
<1>2. /\ DOMAIN q = W /\ FreshInFlight(clock) = Live(inFlight)
      /\ \A m \in W : q[m] = queue[m] /\ queue[m] \in Int
      /\ W \cap Live(inFlight) = {} /\ IsFiniteSet(W) /\ IsFiniteSet(Live(inFlight))
  BY <1>1, PrunedTypes, LiveStays DEF IInv, Live, FreshInFlight
<1>3. /\ queue' = Unshifted(q, s, K) /\ inFlight' = Live(inFlight) \ K
      /\ UNCHANGED <<accepted, acked>>
  BY <1>2 DEF RequeueBatch
<1>4. /\ K \in SUBSET Range(s) /\ K \in SUBSET Live(inFlight) /\ IsFiniteSet(K)
      /\ K \cap DOMAIN q = {} /\ DOMAIN s \subseteq Int
  <2>1. DOMAIN s \subseteq Int
    BY <1>1, ListedInt
  <2>2. K \in SUBSET Range(s) /\ K \in SUBSET Live(inFlight)
    BY <1>2
  <2>3. IsFiniteSet(K)
    BY <1>2, <2>2, FS_Subset
  <2> QED BY <1>2, <2>1, <2>2, <2>3
<1> HIDE DEF q, K, W
<1>5. /\ Queued' = W \cup K
      /\ \A x \in W : queue'[x] = queue[x]
      /\ \A x \in K : /\ queue'[x] \in Int
                      /\ \A y \in W : queue'[x] < queue'[y]
                      /\ \A y \in K : queue'[x] = queue'[y] => x = y
  <2>1. IsFiniteSet(DOMAIN q) /\ \A m \in DOMAIN q : q[m] \in Int
    BY <1>2 DEF W
  <2>2. /\ DOMAIN queue' = DOMAIN q \cup K
        /\ \A m \in DOMAIN q : queue'[m] = q[m]
        /\ \A x \in K : /\ queue'[x] \in Int
                        /\ \A m \in DOMAIN q : queue'[x] < queue'[m]
        /\ \A x, y \in K : x # y => queue'[x] # queue'[y]
    <3>1. queue' = Unshifted(q, s, K)
      BY <1>3
    <3>2. Returnable(q, s, K)
      BY <1>4, <2>1 DEF Returnable
    <3>3. Returned(q, K, queue')
      BY <3>1, <3>2, UnshiftedPlaces
    <3> QED BY <3>3 DEF Returned
  <2> QED BY <1>2, <2>2 DEF Queued
<1>6. Live(Queued)' = W \cup K /\ Live(inFlight)' = Live(inFlight) \ K
  BY <1>3, <1>4, <1>5 DEF Live, W
<1>7. R \in Pool!Lines(K)
  BY <1>5, PlacesAreALine
<1>8. Line' = Line \cup R \cup (K \X W)
  <2>1. \A x \in W, y \in K : ~(queue'[x] < queue'[y])
    BY <1>2, <1>5
  <2>2. Line' = {p \in (W \cup K) \X (W \cup K) : queue'[p[1]] < queue'[p[2]]}
    BY <1>6 DEF Line
  <2>3. Line = {p \in W \X W : queue'[p[1]] < queue'[p[2]]}
    BY <1>5 DEF Line, W
  <2> QED BY <1>5, <2>1, <2>2, <2>3
<1>9. Pool!GiveBack(K)
  <2>1. \E line \in Pool!Lines(K) : Line' = Line \cup line \cup (K \X W)
    BY <1>7, <1>8
  <2> QED BY <1>3, <1>6, <2>1 DEF Pool!GiveBack, W
<1> QED BY <1>4, <1>9

(* A message is told apart from everything accepted before by its id.      *)
LEMMA AcceptedIsNew ==
  ASSUME IInv, NEW now \in 0..clock, NEW r \in Requests
  PROVE  /\ Normalized(r, now) \in Message
         /\ Normalized(r, now).sender = r.sender
         /\ Normalized(r, now).requestId = r.requestId
         /\ \A b \in accepted : b.message # Normalized(r, now)
<1>1. /\ Normalized(r, now) \in Message
      /\ Normalized(r, now).sender = r.sender
      /\ Normalized(r, now).requestId = r.requestId
      /\ Normalized(r, now).id = Cardinality(accepted) + 1
      /\ Cardinality(accepted) \in Nat
  BY NormalizedType, FS_CardinalityType DEF IInv, Finite
<1>2. \A b \in accepted : b.message.id <= Cardinality(accepted)
  BY DEF IInv, IdsUnique
<1> QED BY <1>1, <1>2

(* A request enters at the end of the line when there is room and no live  *)
(* copy of it.                                                             *)
LEMMA EnqueueIsAccept ==
  ASSUME IInv, NEW now \in 0..clock, NEW r \in Requests, Enqueue(r, now), UNCHANGED clock
  PROVE  Pool!Next
<1> DEFINE q == FreshQueue(now)
           W == Live(Queued)
           L == Live(inFlight)
           seen == {a.message : a \in accepted}
<1>0. PICK m : m = Normalized(r, now)
  OBVIOUS
<1> DEFINE A == {x \in {m} : x.expiresAt > clock}
<1>1. /\ m \in Message /\ m.sender = r.sender /\ m.requestId = r.requestId
      /\ \A b \in accepted : b.message # m
  BY <1>0, AcceptedIsNew
<1>2. /\ queue' = Pushed(q, m) /\ inFlight' = FreshInFlight(now) /\ UNCHANGED acked
      /\ \E a : a.message = m /\ accepted' = accepted \cup {a}
      /\ Cardinality(DOMAIN q) + Cardinality(FreshInFlight(now)) < QueueLimit
  BY <1>0 DEF Enqueue, HasRoom
<1>3. /\ W = {x \in DOMAIN q : x.expiresAt > clock}
      /\ L = {x \in FreshInFlight(now) : x.expiresAt > clock}
      /\ \A x \in DOMAIN q : q[x] = queue[x] /\ q[x] \in Int
      /\ IsFiniteSet(DOMAIN q) /\ IsFiniteSet(FreshInFlight(now))
      /\ W \subseteq Queued /\ L \subseteq inFlight /\ W \cap L = {}
      /\ DOMAIN q \subseteq Queued
  BY LiveStays, FreshPlaces, FS_Subset DEF IInv, Finite, Live
<1>4. m \notin Pending /\ m \notin seen
  BY <1>1 DEF IInv, IdsUnique
<1>5. Cardinality(W \cup L) < QueueLimit
  <2>1. /\ IsFiniteSet(W) /\ IsFiniteSet(L)
        /\ Cardinality(W) <= Cardinality(DOMAIN q)
        /\ Cardinality(L) <= Cardinality(FreshInFlight(now))
    <3> HIDE DEF q, W, L
    <3>1. W \in SUBSET DOMAIN q /\ L \in SUBSET FreshInFlight(now)
      BY <1>3
    <3> QED BY <1>3, <3>1, FS_Subset
  <2>2. /\ Cardinality(W) \in Nat /\ Cardinality(L) \in Nat
        /\ Cardinality(W \cup L) = Cardinality(W) + Cardinality(L)
    <3> HIDE DEF W, L
    <3> QED BY <1>3, <2>1, DisjointUnion
  <2>3. Cardinality(DOMAIN q) \in Nat /\ Cardinality(FreshInFlight(now)) \in Nat
    <3> HIDE DEF q
    <3> QED BY <1>3, FS_CardinalityType
  <2> HIDE DEF q, W, L
  <2> QED BY <1>2, <2>1, <2>2, <2>3, InboxAssumption
<1>6. \A n \in W \cup L : ~Pool!SameRequest(m, n)
  <2> SUFFICES ASSUME NEW n \in W \cup L, m.requestId # NoRequestId,
                      m.sender = n.sender, m.requestId = n.requestId
               PROVE  FALSE
    BY DEF Pool!SameRequest
  <2> DEFINE k == <<r.sender, r.requestId>>
  <2>1. n \in Pending /\ n.expiresAt > clock /\ Key(n) = k
    BY <1>1, <1>3 DEF Live, Pending, Key
  <2>2. cache[k] # NoEntry /\ cache[k].message = n /\ cache[k].expiresAt >= n.expiresAt
    BY <2>1 DEF IInv, CacheCoversPending
  <2>3. k \in CacheKeys /\ n.expiresAt \in Nat /\ clock \in Nat
    BY <1>1, <2>1, InboxAssumption DEF IInv, TypeOK, Pending, Queued, Message, CacheKeys, Request
  <2>4. cache[k].expiresAt \in Nat
    BY <2>2, <2>3 DEF IInv, TypeOK, CacheEntry
  <2>5. cache[k].expiresAt > now /\ n.expiresAt > now
    BY <2>1, <2>2, <2>3, <2>4
  <2> QED BY <1>1, <2>2, <2>5, KeyIsFree
<1> HIDE DEF q, W, L, seen
<1>7. /\ Queued' = DOMAIN q \cup {m}
      /\ \A x \in DOMAIN q : x # m => queue'[x] = queue[x] /\ queue'[x] < queue'[m]
      /\ queue' \in [DOMAIN q \cup {m} -> Int]
  <2>1. IsFiniteSet(DOMAIN q) /\ \A x \in DOMAIN q : q[x] \in Int
    BY <1>3
  <2>2. /\ DOMAIN Pushed(q, m) = DOMAIN q \cup {m}
        /\ \A x \in DOMAIN q : x # m =>
             Pushed(q, m)[x] = q[x] /\ Pushed(q, m)[x] < Pushed(q, m)[m]
    BY <2>1, PushedBehind
  <2>3. q \in [DOMAIN q -> Int]
    BY PrunedTypes DEF q, IInv
  <2>4. Pushed(q, m) \in [DOMAIN q \cup {m} -> Int]
    BY <2>1, <2>3, PlacesType
  <2> QED BY <1>2, <1>3, <2>2, <2>4 DEF Queued
<1>8. Live(Queued)' = W \cup A /\ Live(inFlight)' = L
  BY <1>2, <1>3, <1>7 DEF Live
<1>9. Line' = Line \cup (W \X A)
  <2>1. /\ W \subseteq DOMAIN q /\ A \subseteq {m} /\ m \notin W
        /\ \A x \in W : queue'[x] = queue[x] /\ queue'[x] < queue'[m] /\ queue'[x] \in Int
    BY <1>3, <1>4, <1>7 DEF Pending
  <2>2. ~(queue'[m] < queue'[m]) /\ \A x \in W : ~(queue'[m] < queue'[x])
    <3>1. queue'[m] \in Int
      BY <1>7
    <3> QED BY <2>1, <3>1
  <2>3. Line' = {p \in (W \cup A) \X (W \cup A) : queue'[p[1]] < queue'[p[2]]}
    BY <1>8 DEF Line
  <2>4. Line = {p \in W \X W : queue'[p[1]] < queue'[p[2]]}
    BY <2>1 DEF Line, W
  <2> QED BY <2>1, <2>2, <2>3, <2>4
<1>10. seen' = seen \cup {m} /\ m \in seen' \ seen
  BY <1>2, <1>4 DEF seen
<1>11. Pool!Accept(m)
  <2>1. Pool!Alive({m}, clock) = A
    BY DEF Pool!Alive
  <2> HIDE DEF A
  <2>2. /\ Live(Queued)' = Live(Queued) \cup Pool!Alive({m}, clock)
        /\ Line' = Line \cup (Live(Queued) \X Pool!Alive({m}, clock))
        /\ UNCHANGED <<clock, Live(inFlight), acked>>
    BY <1>2, <1>8, <1>9, <2>1 DEF W, L
  <2>3. seen' = seen \cup {m} /\ m \notin seen
    BY <1>4, <1>10
  <2>4. Cardinality(Live(Queued) \cup Live(inFlight)) < QueueLimit
    BY <1>5 DEF W, L
  <2>5. \A n \in Live(Queued) \cup Live(inFlight) : ~Pool!SameRequest(m, n)
    BY <1>6 DEF W, L
  <2> QED BY <2>2, <2>3, <2>4, <2>5 DEF Pool!Accept, Pool!Cardinality, Cardinality, seen
<1> QED BY <1>10, <1>11 DEF Pool!Next, seen

(* Every step of the inbox is a step of the pool, or is not seen in it.    *)
LEMMA StepIsPool ==
  ASSUME IInv, [Next]_vars
  PROVE  [Pool!Next]_(Pool!vars)
<1>1. clock \in 0..clock
  BY DEF IInv, TypeOK
<1>2. CASE UNCHANGED vars
  <2>1. Live(Queued)' = Live(Queued) /\ Live(inFlight)' = Live(inFlight) /\ Line' = Line
    BY <1>2 DEF vars, Live, Queued, Line
  <2> QED BY <1>2, <2>1 DEF vars, Pool!vars
<1>3. CASE Tick
  BY <1>3, TickIsPass DEF Pool!Next
<1>4. CASE ClientSubmit
  <2>1. UNCHANGED clock /\ \E r \in Requests, now \in 0..clock : SubmitMessage(r, now)
    BY <1>1, <1>4, InboxAssumption DEF ClientSubmit, Larger
  <2>2. PICK r \in Requests, now \in 0..clock : SubmitMessage(r, now)
    BY <2>1
  <2>3. CASE Enqueue(r, now)
    BY <2>1, <2>3, EnqueueIsAccept
  <2>4. CASE ~Enqueue(r, now)
    <3>1. /\ queue' = FreshQueue(now) /\ inFlight' = FreshInFlight(now)
          /\ UNCHANGED <<clock, accepted, acked>>
      BY <2>1, <2>2, <2>4 DEF SubmitMessage, Reject, RejectRate, Answer
    <3> QED BY <3>1, PruneIsQuiet
  <2> QED BY <2>3, <2>4
<1>5. CASE ClientTake
  BY <1>5, TakeIsTake DEF ClientTake, Pool!Next
<1>6. CASE ClientAck
  BY <1>6, AckIsAcknowledge DEF ClientAck, Pool!Next
<1>7. CASE ClientRequeue
  BY <1>7, RequeueIsGiveBack DEF ClientRequeue, Pool!Next
<1>8. CASE ClientPrune
  BY <1>1, <1>8, PruneIsQuiet DEF ClientPrune, Prune
<1> QED BY <1>2, <1>3, <1>4, <1>5, <1>6, <1>7, <1>8 DEF Next

(* The inbox of message-inbox.js keeps the promise of MessagePool, for any *)
(* limit, lifetimes, rates, requests and lags: seen at the clock, messages *)
(* only enter at the end of a line without a live copy of themselves, are  *)
(* leased from its head, given back to it, acknowledged, or expire.        *)
THEOREM InboxIsPool == Spec => PoolSpec
<1>1. Init => Pool!Init
  BY DEF Init, Pool!Init, Live, Line, Queued
<1>2. IInv /\ [Next]_vars => [Pool!Next]_(Pool!vars)
  BY StepIsPool
<1> QED BY <1>1, <1>2, InboxInvariant, PTL DEF Spec, PoolSpec, Pool!Spec

-----------------------------------------------------------------------------
(* Rate limiting.  What a sender was admitted for since any time, and what *)
(* its bucket would hold if it were refilled now, are together at most a   *)
(* burst and what was refilled since.  It is exact that no time stamp is   *)
(* older than a bucket, and that a bucket is only forgotten once it is     *)
(* full.                                                                   *)
Burst == RateBurst * TokenCost
Prompt == MaxLag = 0
FullWhenForgotten == (StaleRateWindow + 1) * RefillPerTick >= Burst
Since(A, s, from) == {a \in A : a.message.sender = s /\ a.message.receivedAt >= from}
Content(b, now) ==
  IF b = NoBucket THEN Burst ELSE Smaller(Burst, b.tokens + (now - b.lastRefill) * RefillPerTick)
Fair(s) ==
  \A from \in 0..clock :
    Cardinality(Since(accepted, s, from)) * TokenCost + Content(buckets[s], clock)
      <= Burst + (clock - from) * RefillPerTick
Punctual ==
  /\ \A s \in Senders : buckets[s] # NoBucket =>
       buckets[s].lastRefill <= clock /\ buckets[s].lastSeen = buckets[s].lastRefill
  /\ \A a \in accepted : a.message.receivedAt <= clock
Metered == Punctual /\ RateBound /\ \A s \in Senders : Fair(s)

(* More time refills no less.                                              *)
LEMMA RefillGrows ==
  ASSUME NEW x \in Int, NEW y \in Int, NEW r \in Nat, x <= y
  PROVE  x * r \in Int /\ y * r \in Int /\ x * r <= y * r
<1>1. (y - x) * r >= 0
  OBVIOUS
<1> QED BY <1>1

(* The constants of a bucket are numbers.                                  *)
LEMMA RateNumbers ==
  /\ Burst \in Nat /\ RefillPerTick \in Nat /\ TokenCost \in Nat \ {0} /\ StaleRateWindow \in Nat
BY InboxAssumption DEF Burst

(* What a bucket holds is between nothing and a burst.                     *)
LEMMA ContentIs ==
  ASSUME NEW b \in Bucket \cup {NoBucket}, NEW now \in Nat,
         b # NoBucket => b.lastRefill <= now
  PROVE  Content(b, now) \in 0..Burst
<1>1. CASE b = NoBucket
  BY <1>1, RateNumbers DEF Content
<1>2. CASE b # NoBucket
  <2>1. b.tokens \in Nat /\ now - b.lastRefill \in Nat
    BY <1>2 DEF Bucket
  <2>2. (now - b.lastRefill) * RefillPerTick \in Nat
    BY <2>1, RateNumbers
  <2> QED BY <1>2, <2>1, <2>2, RateNumbers DEF Content, Smaller
<1> QED BY <1>1, <1>2

(* Forgetting an idle bucket gives nothing away.                           *)
LEMMA PrunedContent ==
  ASSUME TypeOK, Punctual, FullWhenForgotten, NEW s \in Senders
  PROVE  /\ Content(FreshBuckets(clock)[s], clock) = Content(buckets[s], clock)
         /\ FreshBuckets(clock)[s] \in {buckets[s], NoBucket}
<1> DEFINE b == buckets[s]
           idle == clock - b.lastRefill
<1>1. b \in Bucket \cup {NoBucket} /\ clock \in Nat
  BY DEF TypeOK
<1>2. CASE FreshBuckets(clock)[s] = b
  BY <1>2
<1>3. CASE FreshBuckets(clock)[s] # b
  <2>1. /\ b # NoBucket /\ clock - b.lastSeen > StaleRateWindow
        /\ FreshBuckets(clock)[s] = NoBucket
    BY <1>3 DEF FreshBuckets
  <2>2. b.tokens \in Nat /\ idle \in Int /\ StaleRateWindow + 1 <= idle
    BY <1>1, <2>1, RateNumbers DEF Punctual, Bucket
  <2>3. idle * RefillPerTick \in Int /\ idle * RefillPerTick >= Burst
    <3>1. StaleRateWindow + 1 \in Int /\ RefillPerTick \in Nat
      BY RateNumbers
    <3>2. (StaleRateWindow + 1) * RefillPerTick <= idle * RefillPerTick
      BY <2>2, <3>1, RefillGrows
    <3> HIDE DEF idle
    <3>3. idle * RefillPerTick \in Int /\ (StaleRateWindow + 1) * RefillPerTick \in Int
      BY <2>2, <3>1
    <3> QED BY <3>2, <3>3, RateNumbers DEF FullWhenForgotten
  <2>4. b.tokens + idle * RefillPerTick >= Burst
    <3> HIDE DEF idle, b
    <3> QED BY <2>2, <2>3, RateNumbers
  <2> QED BY <2>1, <2>4, RateNumbers DEF Content, Smaller
<1> QED BY <1>2, <1>3

(* A refilled bucket holds what it would have held; a token is taken if    *)
(* there is one.                                                           *)
LEMMA ConsumedContent ==
  ASSUME TypeOK, Punctual, FullWhenForgotten, RateLimited, NEW s \in Senders
  PROVE  /\ Refilled(s, clock).tokens = Content(buckets[s], clock)
         /\ Content(Consumed(s, clock)[s], clock) =
              IF HasToken(s, clock) THEN Content(buckets[s], clock) - TokenCost
              ELSE Content(buckets[s], clock)
         /\ Consumed(s, clock)[s].lastRefill = clock
         /\ Consumed(s, clock)[s].lastSeen = clock
         /\ \A t \in Senders \ {s} : Consumed(s, clock)[t] = FreshBuckets(clock)[t]
<1> DEFINE b == FreshBuckets(clock)[s]
           known == IF b = NoBucket THEN [tokens |-> Burst, lastRefill |-> clock, lastSeen |-> clock]
                    ELSE b
           level == Content(buckets[s], clock)
           full == [tokens |-> level, lastRefill |-> clock, lastSeen |-> clock]
<1>1. clock \in Nat /\ clock \in 0..clock
  BY DEF TypeOK
<1>2. level = Content(b, clock) /\ b \in {buckets[s], NoBucket}
  BY PrunedContent
<1>3. b \in Bucket \cup {NoBucket} /\ (b # NoBucket => b.lastRefill <= clock)
  BY <1>2 DEF Punctual, TypeOK
<1>4. level \in 0..Burst
  BY <1>1, <1>2, <1>3, ContentIs
<1>5. /\ known.tokens \in Nat /\ known.lastRefill \in Nat /\ known.lastRefill <= clock
  BY <1>1, <1>3, RateNumbers DEF Bucket
<1>6. Smaller(Burst, known.tokens + (clock - known.lastRefill) * RefillPerTick) = level
  <2>1. CASE b = NoBucket
    <3>1. (clock - clock) * RefillPerTick = 0
      BY <1>1, RateNumbers
    <3> QED BY <1>2, <2>1, <3>1, RateNumbers DEF Smaller, Content
  <2>2. CASE b # NoBucket
    BY <1>2, <2>2 DEF Content
  <2> QED BY <2>1, <2>2
<1>7. Larger(0, clock - known.lastRefill) = clock - known.lastRefill
  BY <1>1, <1>5 DEF Larger
<1>8. Refilled(s, clock) = full
  BY <1>6, <1>7 DEF Refilled, Burst
<1>9. FreshBuckets(clock) \in [Senders -> Bucket \cup {NoBucket}]
  BY <1>1, PrunedTypes
<1> HIDE DEF b, known, level
<1>10. HasToken(s, clock) <=> level >= TokenCost
  BY <1>8 DEF HasToken
<1>11. /\ Consumed(s, clock)[s] =
            IF HasToken(s, clock) THEN [full EXCEPT !.tokens = @ - TokenCost] ELSE full
       /\ \A t \in Senders \ {s} : Consumed(s, clock)[t] = FreshBuckets(clock)[t]
  BY <1>8, <1>9 DEF Consumed
<1>12. ASSUME NEW n \in 0..Burst
       PROVE  /\ [full EXCEPT !.tokens = n] \in Bucket
              /\ Content([full EXCEPT !.tokens = n], clock) = n
  <2>1. [full EXCEPT !.tokens = n] \in Bucket /\ [full EXCEPT !.tokens = n] # NoBucket
    <3>1. [full EXCEPT !.tokens = n] = [tokens |-> n, lastRefill |-> clock, lastSeen |-> clock]
      OBVIOUS
    <3>2. n \in Nat
      BY RateNumbers
    <3> QED BY <1>1, <3>1, <3>2, InboxAssumption DEF Bucket
  <2>2. (clock - clock) * RefillPerTick = 0
    BY <1>1, RateNumbers
  <2> QED BY <2>1, <2>2, RateNumbers DEF Content, Smaller
<1>13. level >= TokenCost => level - TokenCost \in 0..Burst
  BY <1>4, RateNumbers
<1>14. /\ full = [full EXCEPT !.tokens = level]
       /\ [full EXCEPT !.tokens = @ - TokenCost] = [full EXCEPT !.tokens = level - TokenCost]
  OBVIOUS
<1>15. Content(Consumed(s, clock)[s], clock) = IF HasToken(s, clock) THEN level - TokenCost ELSE level
  <2>1. CASE HasToken(s, clock)
    BY <1>10, <1>11, <1>12, <1>13, <1>14, <2>1
  <2>2. CASE ~HasToken(s, clock)
    BY <1>4, <1>11, <1>12, <1>14, <2>2
  <2> QED BY <2>1, <2>2
<1>16. /\ Refilled(s, clock).tokens = level
       /\ Consumed(s, clock)[s].lastRefill = clock /\ Consumed(s, clock)[s].lastSeen = clock
  BY <1>8, <1>11
<1> QED BY <1>11, <1>15, <1>16 DEF level

(* What is admitted up to now is what is admitted since a time.            *)
LEMMA SinceBounds ==
  ASSUME NEW A, A \subseteq Acceptance, IsFiniteSet(A), NEW now \in Nat, NEW s, NEW from \in 0..now,
         \A a \in A : a.message.receivedAt <= now, NEW c \in Nat,
         Cardinality(Since(A, s, from)) * TokenCost + c <= Burst + (now - from) * RefillPerTick
  PROVE  Cardinality({a \in A : a.message.sender = s /\ a.message.receivedAt \in from..now})
           * TokenCost <= Burst + (now - from) * RefillPerTick
<1>1. {a \in A : a.message.sender = s /\ a.message.receivedAt \in from..now} = Since(A, s, from)
  BY DEF Since, Acceptance, Message
<1>2. Since(A, s, from) \subseteq A
  BY DEF Since
<1>3. Cardinality(Since(A, s, from)) \in Nat
  BY <1>2, FS_Subset, FS_CardinalityType
<1>4. /\ Cardinality(Since(A, s, from)) * TokenCost \in Nat
      /\ Burst + (now - from) * RefillPerTick \in Int
  BY <1>3, RateNumbers
<1>5. Cardinality(Since(A, s, from)) * TokenCost <= Burst + (now - from) * RefillPerTick
  BY <1>4
<1> QED BY <1>1, <1>5

(* A window that is over admits no more; one up to now is bounded.         *)
LEMMA RateKept ==
  ASSUME TypeOK', Finite', Punctual', RateBound, \A s \in Senders : Fair(s)',
         clock \in Nat, clock' \in {clock, clock + 1}, accepted \subseteq accepted',
         \A a \in accepted' \ accepted : a.message.receivedAt = clock'
  PROVE  RateBound'
<1> SUFFICES ASSUME NEW s \in Senders, NEW from \in 0..clock', NEW to \in from..clock'
             PROVE Cardinality({a \in accepted' :
                     a.message.sender = s /\ a.message.receivedAt \in from..to}) * TokenCost
                   <= Burst + (to - from) * RefillPerTick
  BY DEF RateBound, Burst
<1>1. CASE to = clock'
  <2>1. PICK c : c = Content(buckets'[s], clock')
    OBVIOUS
  <2>2. c \in Nat
    BY <2>1, ContentIs DEF TypeOK, Punctual
  <2>3. Cardinality(Since(accepted', s, from)) * TokenCost + c <= Burst + (to - from) * RefillPerTick
    BY <1>1, <2>1 DEF Fair
  <2> QED BY <1>1, <2>2, <2>3, SinceBounds DEF TypeOK, Finite, Punctual
<1>2. CASE to # clock'
  <2>1. to \in from..clock /\ from \in 0..clock
    BY <1>2
  <2>2. {a \in accepted' : a.message.sender = s /\ a.message.receivedAt \in from..to}
          = {a \in accepted : a.message.sender = s /\ a.message.receivedAt \in from..to}
    BY <1>2
  <2> QED BY <2>1, <2>2 DEF RateBound, Burst
<1> QED BY <1>1, <1>2

(* A step at the present time admits one message for a token, or none.     *)
LEMMA MeteredKept ==
  ASSUME TypeOK, Finite, Metered, TypeOK', Finite', Punctual', clock' = clock,
         accepted \subseteq accepted',
         \A a \in accepted' \ accepted : a.message.receivedAt = clock,
         \A s \in Senders : \E new \in {0, 1} :
           /\ Content(buckets'[s], clock) + new * TokenCost <= Content(buckets[s], clock)
           /\ \A from \in 0..clock : Cardinality(Since(accepted', s, from))
                                     <= Cardinality(Since(accepted, s, from)) + new
  PROVE  Metered'
<1>1. ASSUME NEW s \in Senders PROVE Fair(s)'
  <2> SUFFICES ASSUME NEW from \in 0..clock
               PROVE Cardinality(Since(accepted', s, from)) * TokenCost + Content(buckets'[s], clock)
                     <= Burst + (clock - from) * RefillPerTick
    BY DEF Fair
  <2>1. PICK new \in {0, 1} :
          /\ Content(buckets'[s], clock) + new * TokenCost <= Content(buckets[s], clock)
          /\ Cardinality(Since(accepted', s, from)) <= Cardinality(Since(accepted, s, from)) + new
    OBVIOUS
  <2>2. /\ Content(buckets[s], clock) \in Int /\ Content(buckets'[s], clock) \in Int
    BY ContentIs, RateNumbers DEF TypeOK, Punctual, Metered
  <2>3. /\ Cardinality(Since(accepted, s, from)) \in Nat
        /\ Cardinality(Since(accepted', s, from)) \in Nat
    <3>1. Since(accepted, s, from) \subseteq accepted /\ Since(accepted', s, from) \subseteq accepted'
      BY DEF Since
    <3> QED BY <3>1, FS_Subset, FS_CardinalityType DEF Finite
  <2>4. Cardinality(Since(accepted, s, from)) * TokenCost + Content(buckets[s], clock)
          <= Burst + (clock - from) * RefillPerTick
    BY DEF Metered, Fair
  <2>5. PICK n \in Nat, k \in Nat, c \in Int, d \in Int :
          /\ n = Cardinality(Since(accepted, s, from)) /\ k = Cardinality(Since(accepted', s, from))
          /\ c = Content(buckets[s], clock) /\ d = Content(buckets'[s], clock)
    BY <2>2, <2>3
  <2>6. k * TokenCost <= (n + new) * TokenCost /\ (n + new) * TokenCost = n * TokenCost + new * TokenCost
    <3>1. TokenCost \in Nat
      BY RateNumbers
    <3>2. k <= n + new
      BY <2>1, <2>5
    <3> QED BY <3>1, <3>2, RefillGrows
  <2>7. /\ k * TokenCost \in Int /\ n * TokenCost \in Int /\ new * TokenCost \in Int
        /\ Burst + (clock - from) * RefillPerTick \in Int
    BY RateNumbers DEF TypeOK
  <2> QED BY <2>1, <2>4, <2>5, <2>6, <2>7
<1>2. RateBound'
  BY <1>1, RateKept DEF Metered, TypeOK
<1> QED BY <1>1, <1>2 DEF Metered

(* Pruning admits nothing and gives nothing away.                          *)
LEMMA PruningMetered ==
  ASSUME TypeOK, Finite, Metered, FullWhenForgotten, TypeOK', Finite',
         UNCHANGED <<clock, accepted>>, buckets' = FreshBuckets(clock)
  PROVE  Metered'
<1>1. \A s \in Senders : /\ Content(buckets'[s], clock) = Content(buckets[s], clock)
                        /\ buckets'[s] \in {buckets[s], NoBucket}
  BY PrunedContent DEF Metered
<1>2. Punctual'
  BY <1>1 DEF Metered, Punctual
<1>3. \A s \in Senders : Content(buckets[s], clock) \in Int
  BY ContentIs, RateNumbers DEF TypeOK, Metered, Punctual
<1>4. ASSUME NEW s \in Senders, NEW from \in 0..clock
      PROVE  Cardinality(Since(accepted, s, from)) \in Int
  <2>1. Since(accepted, s, from) \subseteq accepted
    BY DEF Since
  <2> QED BY <2>1, FS_Subset, FS_CardinalityType DEF Finite
<1>5. ASSUME NEW s \in Senders
      PROVE  /\ Content(buckets'[s], clock) + 0 * TokenCost <= Content(buckets[s], clock)
             /\ \A from \in 0..clock : Cardinality(Since(accepted', s, from))
                                       <= Cardinality(Since(accepted, s, from)) + 0
  BY <1>1, <1>3, <1>4, RateNumbers
<1> QED BY <1>2, <1>5, MeteredKept

(* A request with a valid form takes a token if there is one; it is        *)
(* admitted only if it took it.                                            *)
LEMMA ConsumedMetered ==
  ASSUME TypeOK, Finite, Metered, FullWhenForgotten, RateLimited, TypeOK', Finite', clock' = clock,
         NEW s \in Senders, buckets' = Consumed(s, clock),
         \/ accepted' = accepted
         \/ HasToken(s, clock) /\ \E a : /\ accepted' = accepted \cup {a}
                                        /\ a.message.sender = s /\ a.message.receivedAt = clock
  PROVE  Metered'
<1>1. /\ Content(buckets'[s], clock) = IF HasToken(s, clock) THEN Content(buckets[s], clock) - TokenCost
                                       ELSE Content(buckets[s], clock)
      /\ buckets'[s].lastRefill = clock /\ buckets'[s].lastSeen = clock
      /\ \A t \in Senders \ {s} : buckets'[t] = FreshBuckets(clock)[t]
  BY ConsumedContent DEF Metered
<1>2. \A t \in Senders \ {s} : /\ Content(buckets'[t], clock) = Content(buckets[t], clock)
                               /\ buckets'[t] \in {buckets[t], NoBucket}
  BY <1>1, PrunedContent DEF Metered
<1>3. clock \in Nat
  BY DEF TypeOK
<1>4. Punctual'
  BY <1>1, <1>2, <1>3 DEF Metered, Punctual
<1>5. \A t \in Senders : Content(buckets[t], clock) \in Int
  BY ContentIs DEF TypeOK, Metered, Punctual
<1>6. ASSUME NEW t \in Senders, NEW from \in 0..clock
      PROVE  Cardinality(Since(accepted, t, from)) \in Nat /\ IsFiniteSet(Since(accepted, t, from))
  <2>1. Since(accepted, t, from) \subseteq accepted
    BY DEF Since
  <2> QED BY <2>1, FS_Subset, FS_CardinalityType DEF Finite
<1>7. ASSUME NEW t \in Senders, accepted' = accepted \/ t # s
      PROVE  /\ Content(buckets'[t], clock) + 0 * TokenCost <= Content(buckets[t], clock)
             /\ \A from \in 0..clock : Cardinality(Since(accepted', t, from))
                                       <= Cardinality(Since(accepted, t, from)) + 0
  <2>1. Content(buckets'[t], clock) <= Content(buckets[t], clock)
    BY <1>1, <1>2, <1>5, RateNumbers
  <2>2. Content(buckets'[t], clock) \in Int
    BY <1>1, <1>2, <1>5, RateNumbers
  <2>3. \A from : Since(accepted', t, from) = Since(accepted, t, from)
    BY <1>7 DEF Since
  <2> QED BY <1>6, <2>1, <2>2, <2>3, RateNumbers
<1>8. CASE accepted' = accepted
  BY <1>4, <1>7, <1>8, MeteredKept
<1>9. ASSUME HasToken(s, clock), NEW a, accepted' = accepted \cup {a},
             a.message.sender = s, a.message.receivedAt = clock
      PROVE  Metered'
  <2>1. /\ Content(buckets'[s], clock) + 1 * TokenCost <= Content(buckets[s], clock)
        /\ \A from \in 0..clock : Cardinality(Since(accepted', s, from))
                                  <= Cardinality(Since(accepted, s, from)) + 1
    <3>1. Content(buckets'[s], clock) = Content(buckets[s], clock) - TokenCost
      BY <1>1, <1>9
    <3>2. ASSUME NEW from \in 0..clock
          PROVE  Cardinality(Since(accepted', s, from)) <= Cardinality(Since(accepted, s, from)) + 1
      <4>1. Since(accepted', s, from) = Since(accepted, s, from) \cup {a}
        BY <1>3, <1>9 DEF Since
      <4>2. PICK S : S = Since(accepted, s, from)
        OBVIOUS
      <4>3. IsFiniteSet(S) /\ Cardinality(S) \in Nat
        BY <1>6, <4>2
      <4>4. Cardinality(S \cup {a}) <= Cardinality(S) + 1
        BY <4>3, FS_AddElement
      <4> QED BY <4>1, <4>2, <4>4
    <3> QED BY <1>5, <3>1, <3>2, RateNumbers
  <2>2. \A b \in accepted' \ accepted : b.message.receivedAt = clock
    BY <1>9
  <2> QED BY <1>4, <1>7, <1>9, <2>1, <2>2, MeteredKept
<1> QED BY <1>8, <1>9

(* The clock refills every bucket and opens a window of its own.           *)
LEMMA TickMetered ==
  ASSUME TypeOK, Finite, Metered, Tick, TypeOK', Finite'
  PROVE  Metered'
<1>1. clock \in Nat /\ clock' = clock + 1 /\ UNCHANGED <<buckets, accepted>>
  BY DEF Tick, inboxVars, TypeOK
<1>2. Punctual'
  <2>1. /\ \A s \in Senders : buckets[s] # NoBucket => buckets[s].lastRefill \in Nat
        /\ \A a \in accepted : a.message.receivedAt \in Nat
    BY DEF TypeOK, Bucket, Acceptance, Message
  <2> QED BY <1>1, <2>1 DEF Metered, Punctual
<1>3. ASSUME NEW s \in Senders PROVE Fair(s)'
  <2> DEFINE b == buckets[s]
  <2> SUFFICES ASSUME NEW from \in 0..clock'
               PROVE Cardinality(Since(accepted, s, from)) * TokenCost + Content(b, clock')
                     <= Burst + (clock' - from) * RefillPerTick
    BY <1>1 DEF Fair
  <2>1. /\ b \in Bucket \cup {NoBucket} /\ clock' \in Nat
        /\ b # NoBucket => b.lastRefill <= clock /\ b.lastRefill <= clock'
    BY <1>1, <1>2 DEF TypeOK, Metered, Punctual
  <2>2. Content(b, clock) \in 0..Burst /\ Content(b, clock') \in 0..Burst
    BY <1>1, <2>1, ContentIs
  <2>3. Content(b, clock') <= Content(b, clock) + RefillPerTick
    <3>1. CASE b = NoBucket
      BY <3>1, RateNumbers DEF Content
    <3>2. CASE b # NoBucket
      <4>1. b.tokens \in Nat /\ clock - b.lastRefill \in Int
        BY <1>1, <2>1, <3>2 DEF Bucket
      <4>2. PICK x \in Int : x = clock - b.lastRefill /\ clock' - b.lastRefill = x + 1
        BY <1>1, <2>1, <3>2 DEF Bucket
      <4>3. (x + 1) * RefillPerTick = x * RefillPerTick + RefillPerTick /\ x * RefillPerTick \in Int
        BY RateNumbers
      <4> QED BY <3>2, <4>1, <4>2, <4>3, RateNumbers DEF Content, Smaller
    <3> QED BY <3>1, <3>2
  <2>4. CASE from \in 0..clock
    <3>1. Cardinality(Since(accepted, s, from)) * TokenCost + Content(b, clock)
            <= Burst + (clock - from) * RefillPerTick
      BY <2>4 DEF Metered, Fair
    <3>2. Since(accepted, s, from) \subseteq accepted
      BY DEF Since
    <3>3. Cardinality(Since(accepted, s, from)) * TokenCost \in Int
      BY <3>2, FS_Subset, FS_CardinalityType, RateNumbers DEF Finite
    <3>4. /\ (clock' - from) * RefillPerTick = (clock - from) * RefillPerTick + RefillPerTick
          /\ (clock - from) * RefillPerTick \in Int
      BY <1>1, RateNumbers
    <3> HIDE DEF b
    <3> QED BY <2>2, <2>3, <3>1, <3>3, <3>4, RateNumbers
  <2>5. CASE from = clock'
    <3>1. Since(accepted, s, from) = {}
      BY <1>1, <2>5 DEF Metered, Punctual, Since, TypeOK, Acceptance, Message
    <3>2. Cardinality(Since(accepted, s, from)) = 0
      BY <3>1, FS_EmptySet
    <3>3. (clock' - from) * RefillPerTick = 0 /\ 0 * TokenCost = 0
      BY <1>1, <2>5, RateNumbers
    <3> HIDE DEF b
    <3> QED BY <2>2, <3>2, <3>3, RateNumbers
  <2> QED BY <1>1, <2>4, <2>5
<1>4. RateBound'
  BY <1>1, <1>2, <1>3, RateKept DEF Metered
<1> QED BY <1>2, <1>3, <1>4 DEF Metered

(* Every step of the inbox whose requests are stamped at the clock.        *)
LEMMA MeteredStep ==
  ASSUME IInv, IInv', Metered, Prompt, RateLimited, FullWhenForgotten, [Next]_vars
  PROVE  Metered'
<1>1. TypeOK /\ Finite /\ TypeOK' /\ Finite' /\ clock \in Nat
  BY DEF IInv, TypeOK
<1>2. CASE Tick
  BY <1>1, <1>2, TickMetered
<1>3. CASE ClientSubmit
  <2>1. PICK r \in Requests, now \in Larger(0, clock - MaxLag)..clock : SubmitMessage(r, now)
    BY <1>3 DEF ClientSubmit
  <2>2. now = clock /\ clock' = clock
    BY <1>1, <1>3, <2>1 DEF Prompt, Larger, ClientSubmit
  <2>3. r.sender \in Senders /\ r \in Requests
    BY InboxAssumption DEF Request
  <2>4. CASE Reject(r, clock)
    BY <1>1, <2>2, <2>4, PruningMetered DEF Reject
  <2>5. CASE RejectRate(r, clock)
    BY <1>1, <2>2, <2>3, <2>5, ConsumedMetered DEF RejectRate
  <2>6. CASE Answer(r, clock)
    BY <1>1, <2>2, <2>3, <2>6, ConsumedMetered DEF Answer
  <2>7. CASE Enqueue(r, clock)
    <3> DEFINE m == Normalized(r, clock)
               a == [message |-> m, at |-> clock]
    <3>1. /\ accepted' = accepted \cup {a} /\ a.message = Normalized(r, clock)
      BY <2>7 DEF Enqueue
    <3>2. a.message.sender = r.sender /\ a.message.receivedAt = clock
      BY <3>1 DEF Normalized
    <3>3. HasToken(r.sender, clock) /\ buckets' = Consumed(r.sender, clock)
      BY <2>7 DEF Enqueue
    <3> QED BY <1>1, <2>2, <2>3, <3>1, <3>2, <3>3, ConsumedMetered
  <2> QED BY <2>1, <2>2, <2>4, <2>5, <2>6, <2>7 DEF SubmitMessage
<1>4. CASE ClientTake \/ ClientAck \/ ClientRequeue \/ ClientPrune
  <2>1. UNCHANGED <<clock, accepted>> /\ buckets' = FreshBuckets(clock)
    BY <1>4 DEF ClientTake, TakeBatch, ClientAck, AckBatch, ClientRequeue, RequeueBatch,
                ClientPrune, Prune
  <2> QED BY <1>1, <2>1, PruningMetered
<1>5. CASE UNCHANGED vars
  BY <1>5 DEF vars, Metered, Punctual, RateBound, Fair
<1> QED BY <1>2, <1>3, <1>4, <1>5 DEF Next

(* In every window of the clock a sender is admitted for a burst and what  *)
(* the window refills, also across the moment its idle bucket is forgotten *)
(* and a full one is handed out again (message-inbox.js:83), when          *)
(* requests are stamped at the clock and a bucket is kept until it is full.*)
THEOREM InboxRateBound ==
  ASSUME Prompt, RateLimited, FullWhenForgotten
  PROVE  Spec => []RateBound
<1>1. Init => Metered
  <2> SUFFICES ASSUME Init PROVE Metered
    OBVIOUS
  <2>1. clock = 0 /\ accepted = {} /\ \A s \in Senders : buckets[s] = NoBucket
    BY DEF Init
  <2>2. \A s \in Senders : \A from : Since(accepted, s, from) = {}
    BY <2>1 DEF Since
  <2>3. Cardinality({}) = 0
    BY FS_EmptySet
  <2>4. \A s \in Senders : Fair(s)
    <3> SUFFICES ASSUME NEW s \in Senders, NEW from \in 0..clock
                 PROVE Cardinality(Since(accepted, s, from)) * TokenCost
                       + Content(buckets[s], clock) <= Burst + (clock - from) * RefillPerTick
      BY DEF Fair
    <3>1. from = 0 /\ (clock - from) * RefillPerTick = 0 /\ 0 * TokenCost = 0
      BY <2>1, RateNumbers
    <3>2. Content(buckets[s], clock) = Burst
      BY <2>1 DEF Content
    <3>3. Cardinality(Since(accepted, s, from)) = 0
      BY <2>2, <2>3
    <3> QED BY <3>1, <3>2, <3>3, RateNumbers
  <2>5. RateBound
    <3> SUFFICES ASSUME NEW s \in Senders, NEW from \in 0..clock, NEW to \in from..clock
                 PROVE Cardinality({a \in accepted :
                         a.message.sender = s /\ a.message.receivedAt \in from..to}) * TokenCost
                       <= Burst + (to - from) * RefillPerTick
      BY DEF RateBound, Burst
    <3>1. /\ {a \in accepted : a.message.sender = s /\ a.message.receivedAt \in from..to} = {}
          /\ (to - from) * RefillPerTick = 0 /\ 0 * TokenCost = 0
      BY <2>1, RateNumbers
    <3> QED BY <2>3, <3>1, RateNumbers
  <2> QED BY <2>1, <2>4, <2>5 DEF Metered, Punctual
<1>2. IInv /\ IInv' /\ Metered /\ [Next]_vars => Metered'
  BY MeteredStep
<1>3. Metered => RateBound
  BY DEF Metered
<1> QED BY <1>1, <1>2, <1>3, InboxInvariant, PTL DEF Spec
=============================================================================
