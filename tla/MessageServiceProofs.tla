------------------------ MODULE MessageServiceProofs ------------------------
(***************************************************************************)
(* What the message API and the loop of the agent guarantee together, for  *)
(* every number of concurrent requests, every batch size, every delay of   *)
(* the signature checks and every outcome of the decisions.                *)
(***************************************************************************)
EXTENDS MessageService, MessageInboxProofs

-----------------------------------------------------------------------------
(* Giving messages back.  requeueBatch looks at the order of its argument  *)
(* only among the messages it finds leased, so that giving back a batch    *)
(* is giving back the leased part of it.                                   *)
Place(s, m) == CHOOSE i \in DOMAIN s : s[i] = m
Agree(s, t, K) == \A x, y \in K : Place(s, x) <= Place(s, y) <=> Place(t, x) <= Place(t, y)

(* The place of a message that a sequence lists once.                      *)
LEMMA PlaceIsUnique ==
  ASSUME NEW S, NEW s, Chain(s, S), NEW i \in DOMAIN s
  PROVE  Place(s, s[i]) = i /\ i \in 1..Len(s) /\ Len(s) \in Nat
<1>1. DOMAIN s = 1..Len(s) /\ Len(s) \in Nat
  BY DEF Chain
<1>2. \A j \in DOMAIN s : s[j] = s[i] => j = i
  BY DEF Chain, IsInjective
<1>3. Place(s, s[i]) \in DOMAIN s /\ s[Place(s, s[i])] = s[i]
  BY DEF Place
<1> QED BY <1>1, <1>2, <1>3

(* A sequence of a set that lists each element once.                       *)
LEMMA ListsAreChains ==
  ASSUME NEW K, IsFiniteSet(K), NEW s \in SetToSeqs(K)
  PROVE  Chain(s, K) /\ Range(s) = K /\ Len(s) = Cardinality(K)
<1>1. Cardinality(K) \in Nat
  BY FS_CardinalityType
<1>2. /\ s \in [1..Cardinality(K) -> K]
      /\ \A i, j \in 1..Cardinality(K) : i # j => s[i] # s[j]
  BY DEF SetToSeqs
<1>3. Chain(s, K) /\ Len(s) = Cardinality(K)
  <2>1. s \in Seq(K)
    BY <1>1, <1>2
  <2>2. IsInjective(s)
    BY <1>2 DEF IsInjective
  <2> QED BY <1>1, <1>2, <2>1, <2>2 DEF Chain
<1>4. Range(s) = K
  <2>1. s \in Injection(1..Cardinality(K), K)
    BY <1>2 DEF Injection, IsInjective
  <2>2. Range(s) \subseteq K /\ IsFiniteSet(Range(s))
    BY <1>2, FS_Subset DEF Range
  <2>3. s \in Bijection(1..Cardinality(K), Range(s))
    BY <1>2 DEF Bijection, Injection, Surjection, IsInjective, Range
  <2>4. IsFiniteSet(1..Cardinality(K)) /\ Cardinality(1..Cardinality(K)) = Cardinality(K)
    BY <1>1, FS_Interval
  <2>5. Cardinality(Range(s)) = Cardinality(K)
    BY <2>3, <2>4, FS_Bijection DEF ExistsBijection
  <2> QED BY <2>2, <2>5, FS_Subset
<1> QED BY <1>3, <1>4

(* Whatever part of a list one keeps can be listed in the same order.      *)
LEMMA PartsAreListed ==
  ASSUME NEW S, NEW b, Chain(b, S), NEW K \in SUBSET Range(b)
  PROVE  IsFiniteSet(Range(b)) /\ \E s \in SetToSeqs(K) : Agree(s, b, K)
<1> DEFINE listed(T) == \E s \in SetToSeqs(T) : Agree(s, b, T)
<1> DEFINE Bad == {T \in SUBSET K : ~listed(T)}
<1> DEFINE R == StrictSubsetOrdering(K)
<1>1. Len(b) \in Nat /\ DOMAIN b = 1..Len(b)
  BY DEF Chain
<1>2. IsFiniteSet(Range(b))
  <2>1. b \in Surjection(DOMAIN b, Range(b))
    BY DEF Surjection, Range, Chain
  <2>2. IsFiniteSet(DOMAIN b)
    BY <1>1, FS_Interval
  <2> QED BY <2>1, <2>2, FS_Surjection
<1>3. IsFiniteSet(K) /\ SUBSET K = FiniteSubsetsOf(K)
  BY <1>2, FS_Subset, FS_FiniteSubsetsOfFinite
<1>4. \A x \in K : Place(b, x) \in 1..Len(b) /\ b[Place(b, x)] = x
  <2>1. ASSUME NEW x \in K PROVE Place(b, x) \in 1..Len(b) /\ b[Place(b, x)] = x
    <3>1. PICK i \in DOMAIN b : b[i] = x
      BY DEF Range
    <3> QED BY <3>1, PlaceIsUnique
  <2> QED BY <2>1
<1>5. Bad = {}
  <2>1. SUFFICES ASSUME Bad # {} PROVE FALSE
    OBVIOUS
  <2>2. IsWellFoundedOn(R, SUBSET K)
    BY <1>3, FS_StrictSubsetOrderingWellFounded
  <2>3. PICK T \in Bad : \A U \in Bad : <<U, T>> \notin R
    <3> HIDE DEF Bad, R
    <3>1. Bad \subseteq SUBSET K
      BY DEF Bad
    <3> QED BY <2>1, <2>2, <3>1, WFMin
  <2>4. T \in SUBSET K /\ ~listed(T) /\ IsFiniteSet(T)
    BY <1>3, FS_Subset
  <2>5. CASE T = {}
    <3>1. Cardinality(T) = 0
      BY <2>5, FS_EmptySet
    <3>2. <<>> \in SetToSeqs(T)
      BY <2>5, <3>1 DEF SetToSeqs
    <3>3. Agree(<<>>, b, T)
      BY <2>5 DEF Agree
    <3> QED BY <2>4, <3>2, <3>3
  <2>6. CASE T # {}
    <3>1. PICK m \in T : \A x \in T : Place(b, x) <= Place(b, m)
      <4> DEFINE P == {Place(b, x) : x \in T}
      <4>1. P \subseteq 1..Len(b) /\ P # {}
        BY <1>4, <2>4, <2>6
      <4>2. IsFiniteSet(P) /\ P \subseteq Int
        <5>1. IsFiniteSet(1..Len(b)) /\ 1..Len(b) \subseteq Int
          BY <1>1, FS_Interval
        <5> HIDE DEF P
        <5> QED BY <4>1, <5>1, FS_Subset
      <4>3. Max(P) \in P /\ \A i \in P : i <= Max(P)
        <5> HIDE DEF P
        <5> QED BY <4>1, <4>2, EndsExist
      <4> QED BY <4>3
    <3> DEFINE U == T \ {m}
    <3>2. U \in SUBSET K /\ U \notin Bad
      <4>1. U \in SUBSET K /\ T \in SUBSET K /\ U # T
        BY <2>4, <3>1
      <4>2. <<U, T>> \in R
        BY <4>1 DEF StrictSubsetOrdering
      <4> QED BY <2>3, <4>1, <4>2
    <3>3. PICK s \in SetToSeqs(U) : Agree(s, b, U)
      BY <3>2
    <3>4. IsFiniteSet(U) /\ Cardinality(U) \in Nat /\ Cardinality(T) = Cardinality(U) + 1
      <4>1. IsFiniteSet(U) /\ Cardinality(U) \in Nat
        BY <1>3, <3>2, FS_Subset, FS_CardinalityType
      <4>2. U \cup {m} = T /\ m \notin U
        BY <3>1
      <4> HIDE DEF U
      <4> QED BY <4>1, <4>2, FS_AddElement
    <3> HIDE DEF U, Bad, R
    <3>5. Chain(s, U) /\ Range(s) = U /\ Len(s) = Cardinality(U)
      BY <3>3, <3>4, ListsAreChains
    <3> DEFINE t == Append(s, m)
               n == Len(s)
    <3>6. /\ n \in Nat /\ DOMAIN s = 1..n /\ t \in [1..n + 1 -> U \cup {m}]
          /\ t[n + 1] = m /\ \A i \in 1..n : t[i] = s[i] /\ s[i] \in U
      <4>1. s \in Seq(U) /\ n \in Nat /\ DOMAIN s = 1..n
        BY <3>5 DEF Chain
      <4>2. s \in Seq(U \cup {m})
        BY <4>1
      <4>3. t \in Seq(U \cup {m}) /\ Len(t) = n + 1 /\ DOMAIN t = 1..n + 1
        BY <4>1, <4>2
      <4>4. t[n + 1] = m /\ \A i \in 1..n : t[i] = s[i] /\ s[i] \in U
        BY <4>1, <4>2
      <4> HIDE DEF t
      <4> QED BY <4>1, <4>3, <4>4
    <3> HIDE DEF t
    <3>7. T = U \cup {m} /\ m \notin U /\ n + 1 = Cardinality(T)
      BY <3>1, <3>4, <3>5 DEF U
    <3>8. \A i, j \in 1..n + 1 : i # j => t[i] # t[j]
      <4>1. \A i, j \in 1..n : i # j => s[i] # s[j]
        BY <3>5, <3>6 DEF Chain, IsInjective
      <4>2. \A i \in 1..n + 1 : i \in 1..n \/ i = n + 1
        BY <3>6
      <4> QED BY <3>6, <3>7, <4>1, <4>2
    <3>9. t \in SetToSeqs(T)
      BY <3>6, <3>7, <3>8 DEF SetToSeqs
    <3>10. Place(t, m) = n + 1 /\ \A x \in U : Place(t, x) = Place(s, x) /\ Place(s, x) \in 1..n
      <4>1. Chain(t, T)
        BY <2>4, <3>9, ListsAreChains
      <4>2. DOMAIN t = 1..n + 1 /\ n + 1 \in DOMAIN t
        BY <3>6
      <4>3. Place(t, m) = n + 1
        <5>1. Place(t, t[n + 1]) = n + 1
          BY <4>1, <4>2, PlaceIsUnique
        <5> QED BY <5>1, <3>6
      <4>4. ASSUME NEW x \in U PROVE Place(t, x) = Place(s, x) /\ Place(s, x) \in 1..n
        <5>1. PICK i \in 1..n : s[i] = x
          BY <3>5, <3>6 DEF Range
        <5>2. Place(s, x) = i
          BY <3>5, <3>6, <5>1, PlaceIsUnique
        <5>3. i \in DOMAIN t /\ t[i] = x
          BY <3>6, <4>2, <5>1
        <5>4. Place(t, t[i]) = i
          BY <4>1, <5>3, PlaceIsUnique
        <5> QED BY <5>2, <5>3, <5>4
      <4> QED BY <4>3, <4>4
    <3>11. Agree(t, b, T)
      <4>1. \A x \in T : Place(b, x) \in Int /\ (x = m \/ x \in U)
        BY <1>1, <1>4, <2>4, <3>7
      <4>2. \A x \in U : Place(b, x) # Place(b, m)
        BY <1>4, <2>4, <3>7
      <4>3. \A x \in U : Place(b, x) < Place(b, m)
        BY <3>1, <3>7, <4>1, <4>2
      <4>4. \A x, y \in U : Place(s, x) <= Place(s, y) <=> Place(b, x) <= Place(b, y)
        BY <3>3 DEF Agree
      <4>5. \A x \in U : Place(t, x) < Place(t, m) /\ Place(t, x) \in Int
        BY <3>6, <3>10
      <4>6. ASSUME NEW x \in T, NEW y \in T
            PROVE  Place(t, x) <= Place(t, y) <=> Place(b, x) <= Place(b, y)
        <5>1. CASE x = m /\ y = m
          BY <3>6, <3>10, <4>1, <5>1
        <5>2. CASE x = m /\ y \in U
          BY <3>6, <3>10, <4>1, <4>3, <4>5, <5>2
        <5>3. CASE x \in U /\ y = m
          BY <3>6, <3>10, <4>1, <4>3, <4>5, <5>3
        <5>4. CASE x \in U /\ y \in U
          BY <3>10, <4>4, <5>4
        <5> QED BY <4>1, <5>1, <5>2, <5>3, <5>4
      <4> QED BY <4>6 DEF Agree
    <3> QED BY <2>4, <3>9, <3>11
  <2> QED BY <2>5, <2>6
<1>6. listed(K)
  BY <1>5
<1> QED BY <1>2, <1>6

(* Two lists that agree on the messages given back put them in the same    *)
(* places.                                                                 *)
LEMMA AgreeingLists ==
  ASSUME NEW q, NEW s, NEW t, NEW K, Agree(s, t, K)
  PROVE  Unshifted(q, s, K) = Unshifted(q, t, K)
<1> DEFINE front == IF DOMAIN q = {} THEN 0 ELSE Min(Places(q))
           behind(l, x) == {m \in K : Place(l, x) <= Place(l, m)}
<1>1. \A x \in K : behind(s, x) = behind(t, x)
  BY DEF Agree
<1>2. \A l : Unshifted(q, l, K)
               = [x \in DOMAIN q \cup K |->
                    IF x \in DOMAIN q THEN q[x] ELSE front - Cardinality(behind(l, x))]
  BY DEF Unshifted, Place
<1> HIDE DEF front, behind
<1>3. \A x \in DOMAIN q \cup K : x \notin DOMAIN q => behind(s, x) = behind(t, x)
  BY <1>1
<1> QED BY <1>2, <1>3

(* Giving back a list of messages is a step of the general client.         *)
LEMMA GivenBack ==
  ASSUME NEW b, Chain(b, Message), RequeueBatch(b, clock), UNCHANGED clock
  PROVE  ClientRequeue
<1> DEFINE K == inFlight \cap Range(b)
           kept == FreshInFlight(clock) \cap Range(b)
<1>1. PICK s \in SetToSeqs(K) : Agree(s, b, K)
  BY PartsAreListed
<1>2. Range(s) = K
  <2>1. IsFiniteSet(K)
    BY PartsAreListed, FS_Subset
  <2> QED BY <1>1, <2>1, ListsAreChains
<1>3. kept \subseteq K /\ FreshInFlight(clock) \cap Range(s) = kept
  BY <1>2 DEF FreshInFlight
<1>4. Agree(s, b, kept)
  BY <1>1, <1>3 DEF Agree
<1>5. Unshifted(FreshQueue(clock), s, kept) = Unshifted(FreshQueue(clock), b, kept)
  BY <1>4, AgreeingLists
<1>6. RequeueBatch(s, clock)
  BY <1>3, <1>5 DEF RequeueBatch
<1>7. K \in SUBSET inFlight
  OBVIOUS
<1> QED BY <1>1, <1>6, <1>7 DEF ClientRequeue
-----------------------------------------------------------------------------
(* The invariant.  What the loop still has to settle was accepted, is not  *)
(* queued and covers all the leases; a handler's time stamp is no older    *)
(* than its signature check may take; and what was settled or tried was    *)
(* accepted, so that a message that arrives is none of it.                 *)
EverAccepted == {a.message : a \in accepted}
CallsFresh ==
  /\ calls \in [Callers -> [request : Requests, now : Nat] \cup {NoCall}]
  /\ \A c \in Callers : calls[c] # NoCall =>
       calls[c].now <= clock /\ clock <= calls[c].now + AuthLag
BatchApart ==
  /\ Chain(batch, Message)
  /\ Range(batch) \subseteq attempted
  /\ Range(batch) \cap Queued = {}
HistoryAccepted == settled \cup attempted \subseteq EverAccepted
SInv ==
  /\ IInv /\ CallsFresh /\ BatchApart /\ HistoryAccepted
  /\ LeasesBelongToLoop /\ SettledIsFinal /\ RetriesFirst

(* What a step of the inbox leaves of the queue keeps its places.          *)
Thinned(K) == K \subseteq Queued /\ \A m \in K : queue'[m] = queue[m]

(* A pruned queue keeps the places of those that stay.                     *)
LEMMA PrunedPlaces ==
  ASSUME IInv, NEW now \in 0..clock, queue' = FreshQueue(now)
  PROVE  Thinned(Queued')
<1>1. Queued' = DOMAIN FreshQueue(now)
  BY DEF Queued
<1> QED BY <1>1, FreshPlaces DEF Thinned

(* Messages given back get places before all the others.                   *)
LEMMA UnshiftedBefore ==
  ASSUME NEW q, IsFiniteSet(DOMAIN q), \A m \in DOMAIN q : q[m] \in Int,
         NEW S, NEW ms, Chain(ms, S), NEW K \in SUBSET Range(ms), K \cap DOMAIN q = {}
  PROVE  /\ DOMAIN Unshifted(q, ms, K) = DOMAIN q \cup K
         /\ \A m \in DOMAIN q : Unshifted(q, ms, K)[m] = q[m]
         /\ \A x \in K : \A m \in DOMAIN q : Unshifted(q, ms, K)[x] < Unshifted(q, ms, K)[m]
<1>1. IsFiniteSet(K)
  BY PartsAreListed, FS_Subset
<1>2. DOMAIN ms \subseteq Int
  BY DEF Chain
<1>3. Returnable(q, ms, K)
  BY <1>1, <1>2 DEF Returnable
<1>4. Returned(q, K, Unshifted(q, ms, K))
  BY <1>3, UnshiftedPlaces
<1> QED BY <1>4 DEF Returned
-----------------------------------------------------------------------------
(* What the calls of the inbox do to the queue, to the leases and to the   *)
(* accepted messages.                                                      *)

(* A request leaves the inbox pruned, or appends a message never seen.     *)
LEMMA SubmitEffect ==
  ASSUME IInv, NEW now \in 0..clock, NEW r \in Requests, SubmitMessage(r, now)
  PROVE  /\ inFlight' \subseteq inFlight
         /\ \/ Thinned(Queued') /\ EverAccepted' = EverAccepted
            \/ \E x \in Message :
                 /\ Thinned(Queued' \ {x})
                 /\ \A m \in Queued' \ {x} : queue'[m] < queue'[x]
                 /\ EverAccepted' = EverAccepted \cup {x}
                 /\ \A m \in EverAccepted : m.id < x.id
<1>1. CASE Reject(r, now) \/ RejectRate(r, now) \/ Answer(r, now)
  <2>1. queue' = FreshQueue(now) /\ inFlight' = FreshInFlight(now) /\ accepted' = accepted
    BY <1>1 DEF Reject, RejectRate, Answer
  <2>2. Thinned(Queued') /\ inFlight' \subseteq inFlight
    BY <2>1, PrunedPlaces, FreshPlaces
  <2> QED BY <2>1, <2>2 DEF EverAccepted
<1>2. CASE Enqueue(r, now)
  <2> DEFINE q == FreshQueue(now)
  <2>1. PICK x : /\ x = Normalized(r, now)
                 /\ queue' = Pushed(q, x)
                 /\ accepted' = accepted \cup
                      {[message |-> x, at |-> clock]}
                 /\ inFlight' = FreshInFlight(now)
    BY <1>2 DEF Enqueue
  <2>2. x.id = Cardinality(accepted) + 1 /\ Cardinality(accepted) \in Nat
    BY <2>1, NormalizedType, FS_CardinalityType DEF IInv, Finite
  <2>3. /\ Queued' = DOMAIN q \cup {x}
        /\ \A m \in DOMAIN q : m # x => queue'[m] = queue[m] /\ queue'[m] < queue'[x]
    <3>1. IsFiniteSet(DOMAIN q) /\ \A m \in DOMAIN q : q[m] \in Int /\ q[m] = queue[m]
      BY FreshPlaces
    <3> HIDE DEF q
    <3> QED BY <2>1, <3>1, PushedBehind DEF Queued
  <2>4. DOMAIN q \subseteq Queued
    BY FreshPlaces
  <2> HIDE DEF q
  <2>5. Thinned(Queued' \ {x}) /\ \A m \in Queued' \ {x} : queue'[m] < queue'[x]
    BY <2>3, <2>4 DEF Thinned
  <2>6. EverAccepted' = EverAccepted \cup {x}
    <3>1. PICK a : a.message = x /\ accepted' = accepted \cup {a}
      BY <2>1
    <3> QED BY <3>1 DEF EverAccepted
  <2>7. \A m \in EverAccepted : m.id < x.id
    <3>1. \A a \in accepted : a.message.id <= Cardinality(accepted) /\ a.message.id \in Nat
      BY DEF IInv, IdsUnique, TypeOK, Acceptance, Message
    <3> QED BY <2>2, <3>1 DEF EverAccepted
  <2>8. inFlight' \subseteq inFlight
    BY <2>1, FreshPlaces
  <2>9. x \in Message
    BY <2>1, NormalizedType DEF IInv, Finite
  <2> QED BY <2>5, <2>6, <2>7, <2>8, <2>9
<1> QED BY <1>1, <1>2 DEF SubmitMessage

(* What is taken was queued and is not any more.                           *)
LEMMA TakeEffect ==
  ASSUME IInv, NEW now \in 0..clock, NEW n, TakeBatch(n, now)
  PROVE  /\ Thinned(Queued')
         /\ UNCHANGED accepted
         /\ (inFlight' \ FreshInFlight(now)) \subseteq Queued \ Queued'
         /\ inFlight' \subseteq inFlight \cup (inFlight' \ FreshInFlight(now))
<1> DEFINE q == FreshQueue(now)
<1>1. PICK out \in SUBSET DOMAIN q :
        /\ queue' = [m \in DOMAIN q \ out |-> q[m]]
        /\ inFlight' = FreshInFlight(now) \cup out
        /\ UNCHANGED accepted
  BY DEF TakeBatch
<1>2. DOMAIN q \subseteq Queued /\ (\A m \in DOMAIN q : q[m] = queue[m])
      /\ FreshInFlight(now) \subseteq inFlight
  BY FreshPlaces
<1> HIDE DEF q
<1>3. Queued' = DOMAIN q \ out /\ \A m \in Queued' : queue'[m] = q[m]
  BY <1>1 DEF Queued
<1>4. Thinned(Queued')
  BY <1>2, <1>3 DEF Thinned
<1> QED BY <1>1, <1>2, <1>3, <1>4

(* What is given back was leased, and is ahead of the others.              *)
LEMMA RequeueEffect ==
  ASSUME IInv, NEW now \in 0..clock, NEW ms, Chain(ms, Message), RequeueBatch(ms, now)
  PROVE  \E K \in SUBSET (inFlight \cap Range(ms)) :
           /\ Thinned(Queued' \ K)
           /\ \A x \in K : \A m \in Queued' \ K : queue'[x] < queue'[m]
           /\ inFlight' \subseteq inFlight \ Range(ms)
           /\ UNCHANGED <<accepted, acked>>
<1> DEFINE q == FreshQueue(now)
           K == FreshInFlight(now) \cap Range(ms)
<1>1. /\ queue' = Unshifted(q, ms, K) /\ inFlight' = FreshInFlight(now) \ K
      /\ UNCHANGED <<accepted, acked>>
  BY DEF RequeueBatch
<1>2. /\ DOMAIN q \subseteq Queued
      /\ \A m \in DOMAIN q : q[m] = queue[m] /\ queue[m] \in Int
      /\ IsFiniteSet(DOMAIN q) /\ FreshInFlight(now) \subseteq inFlight
  BY FreshPlaces
<1>3. K \subseteq inFlight \cap Range(ms) /\ inFlight' \subseteq inFlight \ Range(ms)
  BY <1>1, <1>2
<1>4. K \cap DOMAIN q = {}
  BY <1>2 DEF IInv, SingleHome
<1>5. /\ Queued' = DOMAIN q \cup K
      /\ \A m \in DOMAIN q : queue'[m] = q[m]
      /\ \A x \in K : \A m \in DOMAIN q : queue'[x] < queue'[m]
  <2>1. K \in SUBSET Range(ms) /\ \A m \in DOMAIN q : q[m] \in Int
    BY <1>2
  <2> HIDE DEF q, K
  <2>2. IsFiniteSet(DOMAIN q)
    BY <1>2
  <2>3. /\ DOMAIN Unshifted(q, ms, K) = DOMAIN q \cup K
        /\ \A m \in DOMAIN q : Unshifted(q, ms, K)[m] = q[m]
        /\ \A x \in K : \A m \in DOMAIN q : Unshifted(q, ms, K)[x] < Unshifted(q, ms, K)[m]
    BY <1>4, <2>1, <2>2, UnshiftedBefore
  <2>4. queue' = Unshifted(q, ms, K)
    BY <1>1
  <2> QED BY <2>3, <2>4 DEF Queued
<1> HIDE DEF q, K
<1>6. Queued' \ K = DOMAIN q
  BY <1>4, <1>5
<1>7. Thinned(Queued' \ K)
  BY <1>2, <1>5, <1>6 DEF Thinned
<1>8. \A x \in K : \A m \in Queued' \ K : queue'[x] < queue'[m]
  BY <1>5, <1>6
<1> QED BY <1>1, <1>3, <1>7, <1>8
-----------------------------------------------------------------------------
(* Every step of the service is a call of the inbox or leaves it alone.    *)

(* A batch larger than the queue limit takes what there is.                *)
LEMMA TakenByLoop ==
  ASSUME IInv, TakeBatch(BatchSize, clock), UNCHANGED clock
  PROVE  ClientTake
<1> DEFINE c == Cardinality(DOMAIN FreshQueue(clock))
           n == IF BatchSize <= QueueLimit THEN BatchSize ELSE QueueLimit
<1>1. c \in Nat /\ c <= QueueLimit
  <2>1. clock \in 0..clock
    BY DEF IInv, TypeOK
  <2>2. IsFiniteSet(Queued) /\ DOMAIN FreshQueue(clock) \subseteq Queued
    BY <2>1, FreshPlaces DEF IInv, Finite
  <2>3. c \in Nat /\ c <= Cardinality(Queued) /\ Cardinality(Queued) \in Nat
    BY <2>2, FS_Subset, FS_CardinalityType
  <2>4. Cardinality(inFlight) \in Nat
    BY FS_CardinalityType DEF IInv, Finite
  <2>5. Cardinality(Queued) + Cardinality(inFlight) <= QueueLimit
    BY DEF IInv, CapacityBound
  <2> HIDE DEF c
  <2> QED BY <2>3, <2>4, <2>5, InboxAssumption
<1>2. n \in 1..QueueLimit
  BY InboxAssumption, ServiceAssumption
<1>3. Smaller(n, c) = Smaller(BatchSize, c)
  <2> HIDE DEF c
  <2> QED BY <1>1, InboxAssumption, ServiceAssumption DEF Smaller
<1> HIDE DEF n
<1>4. TakeBatch(n, clock)
  BY <1>3 DEF TakeBatch
<1> QED BY <1>2, <1>4 DEF ClientTake

(* An acknowledgement of a message whose lease is gone does nothing.       *)
LEMMA AckedByLoop ==
  ASSUME NEW h, AckBatch({h}, clock), UNCHANGED clock
  PROVE  ClientAck
<1> DEFINE ms == inFlight \cap {h}
<1>1. /\ FreshInFlight(clock) \ ms = FreshInFlight(clock) \ {h}
      /\ FreshInFlight(clock) \cap ms = FreshInFlight(clock) \cap {h}
  BY DEF FreshInFlight
<1> HIDE DEF ms
<1>2. AckBatch(ms, clock)
  BY <1>1 DEF AckBatch
<1>3. ms \in SUBSET inFlight
  BY DEF ms
<1> QED BY <1>2, <1>3 DEF ClientAck

(* The active message alone is a list.                                     *)
LEMMA Single ==
  ASSUME Chain(batch, Message), batch # <<>>
  PROVE  /\ Chain(<<Head(batch)>>, Message) /\ Range(<<Head(batch)>>) = {Head(batch)}
         /\ Head(batch) \in Range(batch)
<1>1. Head(batch) \in Range(batch) /\ Head(batch) \in Message
  BY FirstIsAhead DEF Chain
<1> DEFINE h == Head(batch)
<1>2. h \in Message
  BY <1>1
<1> HIDE DEF h
<1>3. <<h>> \in Seq(Message) /\ IsInjective(<<h>>) /\ Range(<<h>>) = {h}
  BY <1>2 DEF IsInjective, Range
<1> QED BY <1>1, <1>3 DEF Chain, h

(* A submission of an authenticated request is one of a client of the      *)
(* inbox: its clock reading is at most as old as the inbox allows.         *)
LEMMA SubmitIsClient ==
  ASSUME SInv, NEW c \in Callers, Submit(c)
  PROVE  ClientSubmit /\ calls[c].request \in Requests /\ calls[c].now \in 0..clock
<1>1. /\ calls[c].request \in Requests /\ calls[c].now \in Nat
      /\ calls[c].now <= clock /\ clock <= calls[c].now + AuthLag /\ clock \in Nat
  BY DEF Submit, SInv, CallsFresh, IInv, TypeOK
<1>2. calls[c].now \in Larger(0, clock - MaxLag)..clock
  BY <1>1, InboxAssumption, ServiceAssumption DEF Larger
<1>3. SubmitMessage(calls[c].request, calls[c].now) /\ UNCHANGED clock
      /\ Cardinality(accepted) < MaxAccepted
  BY DEF Submit
<1> QED BY <1>1, <1>2, <1>3 DEF ClientSubmit

(* Every step of the service is a step of the inbox or leaves it alone.    *)
LEMMA StepOfTheInbox ==
  ASSUME SInv, [ServiceNext]_serviceAllVars
  PROVE  [Next]_vars
<1>1. IInv /\ Chain(batch, Message)
  BY DEF SInv, BatchApart
<1>2. CASE ServiceTick
  BY <1>2 DEF ServiceTick, Next
<1>3. ASSUME NEW c \in Callers, Authenticate(c) \/ Submit(c) PROVE [Next]_vars
  BY <1>3, SubmitIsClient DEF Authenticate, Next
<1>4. CASE LoopTake
  BY <1>1, <1>4, TakenByLoop DEF LoopTake, Next
<1>5. ASSUME NEW status \in Statuses, LoopSettle(status) PROVE Next
  <2>1. batch # <<>> /\ UNCHANGED clock
    BY <1>5 DEF LoopSettle
  <2>2. CASE ShouldRequeue(status)
    <3>1. RequeueBatch(<<Head(batch)>>, clock)
      BY <1>5, <2>2 DEF LoopSettle
    <3> QED BY <1>1, <2>1, <3>1, Single, GivenBack DEF Next
  <2>3. CASE ~ShouldRequeue(status)
    BY <1>5, <2>1, <2>3, AckedByLoop DEF LoopSettle, Next
  <2> QED BY <2>2, <2>3
<1>6. CASE LoopError
  BY <1>1, <1>6, GivenBack DEF LoopError, Next
<1>7. CASE UNCHANGED serviceAllVars
  BY <1>7 DEF serviceAllVars
<1> QED BY <1>2, <1>3, <1>4, <1>5, <1>6, <1>7 DEF ServiceNext
-----------------------------------------------------------------------------
(* The steps preserve the invariant.                                       *)
Core ==
  BatchApart /\ HistoryAccepted /\ LeasesBelongToLoop /\ SettledIsFinal /\ RetriesFirst

(* Steps that only take messages away.                                     *)
LEMMA ThinnedCore ==
  ASSUME Core, Thinned(Queued'), inFlight' \subseteq inFlight,
         EverAccepted' = EverAccepted, UNCHANGED <<batch, attempted, settled>>
  PROVE  Core'
<1>1. Queued' \subseteq Queued /\ \A m \in Queued' : queue'[m] = queue[m]
  BY DEF Thinned
<1>2. BatchApart'
  BY <1>1 DEF Core, BatchApart
<1>3. HistoryAccepted'
  BY DEF Core, HistoryAccepted
<1>4. LeasesBelongToLoop'
  BY DEF Core, LeasesBelongToLoop
<1>5. SettledIsFinal'
  BY <1>1 DEF Core, SettledIsFinal
<1>6. RetriesFirst'
  BY <1>1 DEF Core, RetriesFirst
<1> QED BY <1>2, <1>3, <1>4, <1>5, <1>6 DEF Core

(* A message that arrives was neither leased nor settled before.           *)
LEMMA SubmitCore ==
  ASSUME SInv, NEW c \in Callers, Submit(c)
  PROVE  Core'
<1>1. IInv /\ Core
  BY DEF SInv, Core
<1>2. UNCHANGED <<batch, attempted, settled>>
  BY DEF Submit
<1>3. SubmitMessage(calls[c].request, calls[c].now)
  BY DEF Submit
<1>4. calls[c].request \in Requests /\ calls[c].now \in 0..clock
  BY SubmitIsClient
<1>5. /\ inFlight' \subseteq inFlight
      /\ \/ Thinned(Queued') /\ EverAccepted' = EverAccepted
         \/ \E x \in Message :
              /\ Thinned(Queued' \ {x})
              /\ \A m \in Queued' \ {x} : queue'[m] < queue'[x]
              /\ EverAccepted' = EverAccepted \cup {x}
              /\ \A m \in EverAccepted : m.id < x.id
  BY <1>1, <1>3, <1>4, SubmitEffect
<1>6. CASE Thinned(Queued') /\ EverAccepted' = EverAccepted
  BY <1>1, <1>2, <1>5, <1>6, ThinnedCore
<1>7. ASSUME NEW x \in Message, Thinned(Queued' \ {x}),
             \A m \in Queued' \ {x} : queue'[m] < queue'[x],
             EverAccepted' = EverAccepted \cup {x}, \A m \in EverAccepted : m.id < x.id
      PROVE  Core'
  <2>1. /\ Queued' \ {x} \subseteq Queued
        /\ \A m \in Queued' \ {x} : queue'[m] = queue[m]
    BY <1>7 DEF Thinned
  <2>2. \A m \in EverAccepted : m.id \in Nat
    BY DEF SInv, IInv, TypeOK, Acceptance, Message, EverAccepted
  <2>3. x \notin EverAccepted
    BY <1>7, <2>2
  <2>4. x \notin settled /\ x \notin attempted /\ x \notin Range(batch)
    BY <1>1, <2>3 DEF Core, HistoryAccepted, BatchApart
  <2>5. BatchApart'
    BY <1>1, <1>2, <2>1, <2>4 DEF Core, BatchApart
  <2>6. HistoryAccepted'
    BY <1>1, <1>2, <1>7 DEF Core, HistoryAccepted
  <2>7. LeasesBelongToLoop'
    BY <1>1, <1>2, <1>5 DEF Core, LeasesBelongToLoop
  <2>8. SettledIsFinal'
    BY <1>1, <1>2, <2>1, <2>4 DEF Core, SettledIsFinal
  <2>9. RetriesFirst'
    <3>1. Queued \subseteq EverAccepted
      BY DEF SInv, IInv, IdsUnique, Pending, EverAccepted
    <3>2. SUFFICES ASSUME NEW m \in Queued', NEW n \in Queued',
                          \/ m \in attempted /\ n \notin attempted
                          \/ m \notin attempted /\ n \notin attempted /\ m.id < n.id
                   PROVE  queue'[m] < queue'[n]
      BY <1>2 DEF RetriesFirst
    <3>3. x.id \in Nat
      BY <1>7 DEF Message
    <3>4. CASE n = x
      BY <1>7, <2>4, <3>2, <3>3, <3>4
    <3>5. CASE n # x /\ m # x
      BY <1>1, <2>1, <3>2, <3>5 DEF Core, RetriesFirst
    <3>6. CASE n # x /\ m = x
      <4>1. n.id \in Nat /\ n.id < x.id
        BY <1>7, <2>1, <2>2, <3>1, <3>6
      <4> QED BY <2>4, <3>2, <3>3, <3>6, <4>1
    <3> QED BY <3>4, <3>5, <3>6
  <2> QED BY <2>5, <2>6, <2>7, <2>8, <2>9 DEF Core
<1> QED BY <1>5, <1>6, <1>7

(* The loop leases messages nobody else has.                               *)
LEMMA TakeCore ==
  ASSUME SInv, LoopTake
  PROVE  Core'
<1> DEFINE new == inFlight' \ FreshInFlight(clock)
<1>1. IInv /\ Core /\ clock \in 0..clock
  BY DEF SInv, Core, IInv, TypeOK
<1>2. /\ batch = <<>> /\ UNCHANGED settled
      /\ attempted' = attempted \cup Range(batch') /\ batch' \in InOrder(new)
  BY DEF LoopTake
<1>3. /\ Thinned(Queued') /\ UNCHANGED accepted
      /\ new \subseteq Queued \ Queued' /\ inFlight' \subseteq inFlight \cup new
  BY <1>1, TakeEffect DEF LoopTake
<1>4. Queued \subseteq Message /\ IsFiniteSet(Queued) /\ Queued \subseteq EverAccepted
  BY <1>1 DEF IInv, TypeOK, Queued, Finite, IdsUnique, Pending, EverAccepted
<1> HIDE DEF new
<1>5. Chain(batch', new) /\ Range(batch') = new
  <2>1. IsFiniteSet(new)
    BY <1>3, <1>4, FS_Subset
  <2>2. batch' \in SetToSeqs(new)
    BY <1>2 DEF InOrder
  <2> QED BY <2>1, <2>2, ListsAreChains
<1>6. Chain(batch', Message)
  BY <1>3, <1>4, <1>5 DEF Chain
<1>7. Queued' \subseteq Queued /\ \A m \in Queued' : queue'[m] = queue[m]
  BY <1>3 DEF Thinned
<1>8. BatchApart'
  BY <1>2, <1>3, <1>5, <1>6 DEF BatchApart
<1>9. HistoryAccepted'
  BY <1>1, <1>2, <1>3, <1>4, <1>5 DEF Core, HistoryAccepted, EverAccepted
<1>10. LeasesBelongToLoop'
  <2>1. inFlight = {}
    BY <1>1, <1>2 DEF Core, LeasesBelongToLoop, Range
  <2> QED BY <1>3, <1>5, <2>1 DEF LeasesBelongToLoop
<1>11. SettledIsFinal'
  BY <1>1, <1>2, <1>3, <1>5, <1>7 DEF Core, SettledIsFinal
<1>12. RetriesFirst'
  <2>1. \A m \in Queued' : m \in attempted' <=> m \in attempted
    BY <1>2, <1>3, <1>5
  <2> QED BY <1>1, <1>7, <2>1 DEF Core, RetriesFirst
<1> QED BY <1>8, <1>9, <1>10, <1>11, <1>12 DEF Core

(* A batch, or its head, goes back to the front of the queue.              *)
LEMMA RequeueCore ==
  ASSUME SInv, NEW ms, Chain(ms, Message), Range(ms) \subseteq Range(batch),
         RequeueBatch(ms, clock), Chain(batch', Message),
         Range(batch') = Range(batch) \ Range(ms), UNCHANGED <<attempted, settled>>
  PROVE  Core'
<1>1. IInv /\ Core /\ clock \in 0..clock
  BY DEF SInv, Core, IInv, TypeOK
<1>2. PICK K \in SUBSET (inFlight \cap Range(ms)) :
           /\ Thinned(Queued' \ K)
           /\ \A x \in K : \A m \in Queued' \ K : queue'[x] < queue'[m]
           /\ inFlight' \subseteq inFlight \ Range(ms)
           /\ UNCHANGED <<accepted, acked>>
  BY <1>1, RequeueEffect
<1>3. /\ Queued' \ K \subseteq Queued
      /\ \A m \in Queued' \ K : queue'[m] = queue[m]
  BY <1>2 DEF Thinned
<1>4. Range(batch) \subseteq attempted /\ Range(batch) \cap Queued = {}
  BY <1>1 DEF Core, BatchApart
<1>5. BatchApart'
  BY <1>2, <1>3, <1>4 DEF BatchApart
<1>6. HistoryAccepted'
  BY <1>1, <1>2 DEF Core, HistoryAccepted, EverAccepted
<1>7. LeasesBelongToLoop'
  BY <1>1, <1>2 DEF Core, LeasesBelongToLoop
<1>8. SettledIsFinal'
  BY <1>1, <1>2, <1>3 DEF Core, SettledIsFinal
<1>9. RetriesFirst'
  <2>1. SUFFICES ASSUME NEW m \in Queued', NEW n \in Queued',
                        \/ m \in attempted /\ n \notin attempted
                        \/ m \notin attempted /\ n \notin attempted /\ m.id < n.id
                 PROVE  queue'[m] < queue'[n]
    BY DEF RetriesFirst
  <2>2. n \notin K
    BY <1>2, <1>4, <2>1
  <2>3. CASE m \in K
    BY <1>2, <2>2, <2>3
  <2>4. CASE m \notin K
    BY <1>1, <1>3, <2>1, <2>2, <2>4 DEF Core, RetriesFirst
  <2> QED BY <2>3, <2>4
<1> QED BY <1>5, <1>6, <1>7, <1>8, <1>9 DEF Core

(* The decision engine has dealt with the active message: its lease ends   *)
(* and nothing brings it back.                                             *)
LEMMA AckCore ==
  ASSUME SInv, batch # <<>>, AckBatch({Head(batch)}, clock), batch' = Tail(batch),
         settled' = settled \cup {Head(batch)}, UNCHANGED attempted
  PROVE  Core'
<1> DEFINE h == Head(batch)
<1>1. IInv /\ Core /\ clock \in 0..clock
  BY DEF SInv, Core, IInv, TypeOK
<1>2. /\ Chain(batch, Message) /\ Range(batch) \subseteq attempted
      /\ Range(batch) \cap Queued = {} /\ attempted \subseteq EverAccepted
  BY <1>1 DEF Core, BatchApart, HistoryAccepted
<1>3. Chain(batch', Message) /\ Range(batch') = Range(batch) \ {h} /\ h \in Range(batch)
  BY <1>2, FirstLeft, Single
<1>4. /\ queue' = FreshQueue(clock) /\ inFlight' \subseteq FreshInFlight(clock) \ {h}
      /\ UNCHANGED accepted
  BY DEF AckBatch
<1>5. settled' = settled \cup {h}
  OBVIOUS
<1> HIDE DEF h
<1>6. Thinned(Queued') /\ inFlight' \subseteq inFlight \ {h}
  BY <1>1, <1>4, PrunedPlaces, FreshPlaces
<1>7. Queued' \subseteq Queued /\ \A m \in Queued' : queue'[m] = queue[m]
  BY <1>6 DEF Thinned
<1>8. BatchApart'
  BY <1>2, <1>3, <1>7 DEF BatchApart
<1>9. HistoryAccepted'
  BY <1>1, <1>2, <1>3, <1>4, <1>5 DEF Core, HistoryAccepted, EverAccepted
<1>10. LeasesBelongToLoop'
  BY <1>1, <1>3, <1>6 DEF Core, LeasesBelongToLoop
<1>11. SettledIsFinal'
  BY <1>1, <1>2, <1>3, <1>5, <1>7 DEF Core, SettledIsFinal
<1>12. RetriesFirst'
  BY <1>1, <1>7 DEF Core, RetriesFirst
<1> QED BY <1>8, <1>9, <1>10, <1>11, <1>12 DEF Core

(* The handlers' time stamps stay recent: the clock waits for them.        *)
LEMMA CallsStep ==
  ASSUME SInv, [ServiceNext]_serviceAllVars
  PROVE  CallsFresh'
<1>1. clock \in Nat /\ CallsFresh
  BY DEF SInv, IInv, TypeOK
<1>2. /\ calls \in [Callers -> [request : Requests, now : Nat] \cup {NoCall}]
      /\ \A c \in Callers : calls[c] # NoCall =>
           calls[c] \in [request : Requests, now : Nat]
           /\ calls[c].now <= clock /\ clock <= calls[c].now + AuthLag
  BY <1>1 DEF CallsFresh
<1>3. CASE ServiceTick
  <2>1. /\ clock' = clock + 1 /\ calls' = calls
        /\ \A c \in Callers : calls[c] # NoCall => clock < calls[c].now + AuthLag
    BY <1>3 DEF ServiceTick, Tick, serviceVars
  <2> QED BY <1>1, <1>2, <2>1, InboxAssumption, ServiceAssumption DEF CallsFresh
<1>4. ASSUME NEW c \in Callers, Authenticate(c) PROVE CallsFresh'
  <2>1. PICK r \in Requests : calls' = [calls EXCEPT ![c] = [request |-> r, now |-> clock]]
    BY <1>4 DEF Authenticate
  <2>2. clock' = clock
    BY <1>4 DEF Authenticate, vars
  <2>3. [request |-> r, now |-> clock] \in [request : Requests, now : Nat]
    BY <1>1
  <2>4. clock <= clock + AuthLag
    BY <1>1, InboxAssumption, ServiceAssumption
  <2> QED BY <1>1, <1>2, <2>1, <2>2, <2>3, <2>4 DEF CallsFresh
<1>5. ASSUME NEW c \in Callers, Submit(c) PROVE CallsFresh'
  <2>1. calls' = [calls EXCEPT ![c] = NoCall] /\ clock' = clock
    BY <1>5 DEF Submit
  <2> QED BY <1>2, <2>1 DEF CallsFresh
<1>6. CASE LoopTake \/ (\E status \in Statuses : LoopSettle(status)) \/ LoopError
            \/ UNCHANGED serviceAllVars
  <2>1. calls' = calls /\ clock' = clock
    BY <1>6 DEF LoopTake, LoopSettle, LoopError, serviceAllVars, serviceVars, vars
  <2> QED BY <1>1, <2>1 DEF CallsFresh
<1> QED BY <1>3, <1>4, <1>5, <1>6 DEF ServiceNext

(* The invariant holds when the node starts.                               *)
LEMMA ServiceStart == ServiceInit => SInv
<1> SUFFICES ASSUME ServiceInit PROVE SInv
  OBVIOUS
<1>1. IInv
  BY InitStep DEF ServiceInit
<1>2. Queued = {} /\ inFlight = {} /\ batch = <<>> /\ attempted = {} /\ settled = {}
  BY DEF ServiceInit, Init, Queued
<1>3. CallsFresh
  BY DEF ServiceInit, CallsFresh
<1>4. Chain(batch, Message) /\ Range(batch) = {}
  BY <1>2, EmptyChain
<1> QED BY <1>1, <1>2, <1>3, <1>4 DEF SInv, BatchApart, HistoryAccepted, LeasesBelongToLoop,
       SettledIsFinal, RetriesFirst

(* Every step of the service keeps the invariant.                          *)
LEMMA ServiceStep == SInv /\ [ServiceNext]_serviceAllVars => SInv'
<1> SUFFICES ASSUME SInv, [ServiceNext]_serviceAllVars PROVE SInv'
  OBVIOUS
<1>1. IInv' /\ CallsFresh'
  BY StepOfTheInbox, NextStep, CallsStep DEF SInv
<1>2. Core /\ Chain(batch, Message)
  BY DEF SInv, Core, BatchApart
<1>3. CASE ServiceTick \/ (\E c \in Callers : Authenticate(c)) \/ UNCHANGED serviceAllVars
  <2>1. UNCHANGED <<queue, inFlight, accepted, batch, attempted, settled>>
    BY <1>3 DEF ServiceTick, Tick, inboxVars, serviceVars, Authenticate, serviceAllVars, vars
  <2>2. Thinned(Queued') /\ EverAccepted' = EverAccepted /\ inFlight' \subseteq inFlight
    BY <2>1 DEF Thinned, Queued, EverAccepted
  <2>3. Core'
    BY <1>2, <2>1, <2>2, ThinnedCore
  <2> QED BY <1>1, <2>3 DEF SInv, Core
<1>4. CASE \E c \in Callers : Submit(c)
  BY <1>1, <1>4, SubmitCore DEF SInv, Core
<1>5. CASE LoopTake
  BY <1>1, <1>5, TakeCore DEF SInv, Core
<1>6. ASSUME NEW status \in Statuses, LoopSettle(status) PROVE SInv'
  <2>1. batch # <<>> /\ batch' = Tail(batch) /\ UNCHANGED attempted
    BY <1>6 DEF LoopSettle
  <2>2. Chain(batch', Message) /\ Range(batch') = Range(batch) \ {Head(batch)}
    BY <1>2, <2>1, FirstLeft
  <2>3. CASE ShouldRequeue(status)
    <3>1. RequeueBatch(<<Head(batch)>>, clock) /\ UNCHANGED settled
      BY <1>6, <2>3 DEF LoopSettle
    <3>2. /\ Chain(<<Head(batch)>>, Message) /\ Range(<<Head(batch)>>) = {Head(batch)}
          /\ Head(batch) \in Range(batch)
      BY <1>2, <2>1, Single
    <3> DEFINE ms == <<Head(batch)>>
    <3>3. Chain(ms, Message) /\ Range(ms) \subseteq Range(batch)
          /\ Range(batch') = Range(batch) \ Range(ms) /\ RequeueBatch(ms, clock)
      BY <2>2, <3>1, <3>2
    <3> HIDE DEF ms
    <3>4. Core'
      BY <2>1, <2>2, <3>1, <3>3, RequeueCore
    <3> QED BY <1>1, <3>4 DEF SInv, Core
  <2>4. CASE ~ShouldRequeue(status)
    <3>1. AckBatch({Head(batch)}, clock) /\ settled' = settled \cup {Head(batch)}
      BY <1>6, <2>4 DEF LoopSettle
    <3>2. Core'
      BY <2>1, <3>1, AckCore
    <3> QED BY <1>1, <3>2 DEF SInv, Core
  <2> QED BY <2>3, <2>4
<1>7. CASE LoopError
  <2>1. RequeueBatch(batch, clock) /\ batch' = <<>> /\ UNCHANGED <<attempted, settled>>
    BY <1>7 DEF LoopError
  <2>2. Chain(batch', Message) /\ Range(batch') = Range(batch) \ Range(batch)
    BY <2>1, EmptyChain
  <2>3. Core'
    BY <1>2, <2>1, <2>2, RequeueCore
  <2> QED BY <1>1, <2>3 DEF SInv, Core
<1> QED BY <1>3, <1>4, <1>5, <1>6, <1>7 DEF ServiceNext

-----------------------------------------------------------------------------
(* The invariant holds in every reachable state of the service.            *)
THEOREM ServiceInvariant == ServiceSpec => []SInv
BY ServiceStart, ServiceStep, PTL DEF ServiceSpec

(* Whatever the interleaving of the HTTP handlers of message-api.js and    *)
(* the loop of message-loop.js, the inbox is used as its general client    *)
(* uses it: the theorems about the inbox hold of the running service.      *)
THEOREM ServiceIsInbox == ServiceSpec => InboxSpec
<1>1. ServiceInit => Init
  BY DEF ServiceInit
<1>2. SInv /\ [ServiceNext]_serviceAllVars => [Next]_vars
  BY StepOfTheInbox
<1> QED BY <1>1, <1>2, ServiceInvariant, PTL DEF ServiceSpec, InboxSpec, Spec

(* So the service keeps the promise of MessagePool too: between the HTTP   *)
(* handlers and the loop no accepted message is lost, doubled or served    *)
(* out of line.                                                            *)
THEOREM ServiceIsPool == ServiceSpec => PoolSpec
BY ServiceIsInbox, InboxIsPool, PTL DEF InboxSpec

(* An idle loop leaves no message leased: processQueuedUserMessages gives  *)
(* back or settles what it took, on its error path too.                    *)
THEOREM ServiceLeases == ServiceSpec => []LeasesBelongToLoop
<1>1. SInv => LeasesBelongToLoop
  BY DEF SInv
<1> QED BY <1>1, ServiceInvariant, PTL

(* A message the decision engine has dealt with is never decided again.    *)
THEOREM ServiceSettled == ServiceSpec => []SettledIsFinal
<1>1. SInv => SettledIsFinal
  BY DEF SInv
<1> QED BY <1>1, ServiceInvariant, PTL

(* Messages given back are ahead of those never tried, which keep their    *)
(* order of arrival.                                                       *)
THEOREM ServiceRetries == ServiceSpec => []RetriesFirst
<1>1. SInv => RetriesFirst
  BY DEF SInv
<1> QED BY <1>1, ServiceInvariant, PTL
=============================================================================
