------------------------- MODULE ControlNodeProofs -------------------------
(***************************************************************************)
(* What the control node guarantees for every set of markets, requests and *)
(* withdrawals, every delay of the transactions and every number of        *)
(* deletions, failures and restarts.                                       *)
(***************************************************************************)
EXTENDS ControlNode, SharedLemmas

LogEvent == [kind : {"proposed", "executed", "deleted"}, hash : Hashes,
             market : Markets \cup {None}]

-----------------------------------------------------------------------------
(* The log of the Governor.                                                *)

(* A finite set of places has a latest one.                                *)
LEMMA LatestIs ==
  ASSUME NEW S, S \subseteq Int, IsFiniteSet(S), S # {}
  PROVE  Latest(S) \in S /\ \A i \in S : i <= Latest(S)
<1>1. \E i \in S : \A j \in S : j <= i
  BY EndsExist
<1> QED BY <1>1 DEF Latest

At(l, h) == {i \in DOMAIN l : l[i].hash = h}
LiveAt(l, h) == At(l, h) # {} /\ l[Latest(At(l, h))].kind = "proposed"

(* The events of a hash have a latest one.                                 *)
LEMMA LatestEvent ==
  ASSUME NEW R, NEW l \in Seq(R), NEW h, At(l, h) # {}
  PROVE  /\ Latest(At(l, h)) \in 1..Len(l) /\ l[Latest(At(l, h))].hash = h
         /\ \A i \in At(l, h) : i <= Latest(At(l, h))
<1>1. Len(l) \in Nat /\ DOMAIN l = 1..Len(l)
  OBVIOUS
<1>2. IsFiniteSet(1..Len(l)) /\ At(l, h) \subseteq 1..Len(l)
  BY <1>1, FS_Interval DEF At
<1>3. IsFiniteSet(At(l, h)) /\ At(l, h) \subseteq Int
  BY <1>1, <1>2, FS_Subset
<1>4. Latest(At(l, h)) \in At(l, h) /\ \A i \in At(l, h) : i <= Latest(At(l, h))
  BY <1>3, LatestIs
<1> QED BY <1>2, <1>4 DEF At

(* A new event is the latest of its hash, and decides whether it is live.  *)
GrownTo(l, t, x) ==
  /\ Len(l) \in Nat /\ Len(t) = Len(l) + 1
  /\ DOMAIN l = 1..Len(l) /\ DOMAIN t = 1..Len(l) + 1
  /\ t[Len(l) + 1] = x /\ \A i \in 1..Len(l) : t[i] = l[i]
  /\ \A h : At(t, h) = IF x.hash = h THEN At(l, h) \cup {Len(l) + 1} ELSE At(l, h)
  /\ \A h : LiveAt(t, h) <=> IF x.hash = h THEN x.kind = "proposed" ELSE LiveAt(l, h)
  /\ Latest(At(t, x.hash)) = Len(l) + 1

(* The log after one more event, and what of it is live.                   *)
LEMMA Grown ==
  ASSUME NEW R, NEW l \in Seq(R), NEW x \in R, NEW t, t = Append(l, x)
  PROVE  GrownTo(l, t, x)
<1> DEFINE n == Len(l)
<1>1. /\ t \in Seq(R) /\ n \in Nat /\ Len(t) = n + 1
      /\ DOMAIN l = 1..n /\ DOMAIN t = 1..n + 1
      /\ t[n + 1] = x /\ \A i \in 1..n : t[i] = l[i]
  OBVIOUS
<1>2. DOMAIN t = DOMAIN l \cup {n + 1} /\ n + 1 \notin DOMAIN l
  BY <1>1
<1> HIDE DEF n
<1>3. \A h : At(t, h) = IF x.hash = h THEN At(l, h) \cup {n + 1} ELSE At(l, h)
  BY <1>1, <1>2 DEF At
<1>4. Latest(At(t, x.hash)) = n + 1
  <2>1. n + 1 \in At(t, x.hash)
    BY <1>3
  <2>2. /\ Latest(At(t, x.hash)) \in 1..n + 1
        /\ n + 1 <= Latest(At(t, x.hash))
    BY <1>1, <2>1, LatestEvent
  <2> QED BY <1>1, <2>2
<1>5. \A h : LiveAt(t, h) <=> IF x.hash = h THEN x.kind = "proposed" ELSE LiveAt(l, h)
  <2>1. ASSUME NEW h, x.hash = h PROVE LiveAt(t, h) <=> x.kind = "proposed"
    BY <1>1, <1>3, <1>4, <2>1 DEF LiveAt
  <2>2. ASSUME NEW h, x.hash # h PROVE LiveAt(t, h) <=> LiveAt(l, h)
    <3>1. At(t, h) = At(l, h)
      BY <1>3, <2>2
    <3>2. At(l, h) # {} => t[Latest(At(l, h))] = l[Latest(At(l, h))]
      BY <1>1, LatestEvent DEF n
    <3> QED BY <3>1, <3>2 DEF LiveAt
  <2> QED BY <2>1, <2>2
<1> QED BY <1>1, <1>3, <1>4, <1>5 DEF n, GrownTo

(* A proposal that is live in the log is live.                             *)
LEMMA LiveIsAt ==
  ASSUME NEW h
  PROVE  EventsOf(h) = At(log, h) /\ (Live(h) <=> LiveAt(log, h))
BY DEF EventsOf, At, Live, LiveAt

-----------------------------------------------------------------------------
(* What the handlers do to the entry of a market.                          *)
LEMMA EntryFields ==
  ASSUME NEW e \in Entry
  PROVE  /\ e.cid \in 0..MaxRequests /\ e.gen \in Nat /\ e.dispatched \in BOOLEAN
         /\ e.tx \in Ids \cup {None} /\ e.hash \in Payloads \cup {None}
         /\ e.submitted \in BOOLEAN /\ e.reimbursed \in BOOLEAN
BY DEF Entry

(* A deletion resets an entry and raises its retry generation.             *)
LEMMA ResetEntry ==
  ASSUME NEW e \in Entry
  PROVE  /\ Reset(e) \in Entry /\ Reset(e).tx = None /\ Reset(e).hash = None
         /\ Reset(e).gen = e.gen + 1 /\ Reset(e).reimbursed = FALSE
<1>1. e.gen + 1 \in Nat
  BY EntryFields
<1>2. Reset(e) \in Entry
  BY <1>1 DEF Reset, Entry
<1> QED BY <1>2 DEF Reset, Entry

(* Giving a transaction up leaves the hash and the generation.             *)
LEMMA AbandonedEntry ==
  ASSUME NEW e \in Entry
  PROVE  /\ Abandoned(e) \in Entry /\ Abandoned(e).tx = None
         /\ Abandoned(e).hash = e.hash /\ Abandoned(e).gen = e.gen
         /\ Abandoned(e).reimbursed = e.reimbursed
BY DEF Abandoned, Entry

(* The events of a scan pay an entry or reset it.                          *)
LEMMA AppliedEntry ==
  ASSUME NEW e \in Entry, NEW X, NEW D, NEW f, f = AppliedTo(e, X, D)
  PROVE  /\ f \in Entry
         /\ \/ /\ f.tx = e.tx /\ f.hash = e.hash /\ f.gen = e.gen
               /\ f.reimbursed => e.reimbursed \/ e.hash \in X
            \/ /\ e.hash \in D /\ f.tx = None /\ f.hash = None /\ f.gen = e.gen + 1
               /\ ~f.reimbursed
<1>1. CASE e.hash \in X
  BY <1>1 DEF AppliedTo, Entry
<1>2. CASE e.hash \notin X /\ e.hash \in D
  BY <1>2, ResetEntry DEF AppliedTo
<1>3. CASE e.hash \notin X /\ e.hash \notin D
  BY <1>3 DEF AppliedTo
<1> QED BY <1>1, <1>2, <1>3

(* The answer of a call changes the transaction and the hash of an entry   *)
(* only when it says that the request was sent.                            *)
LEMMA DigestedEntry ==
  ASSUME NEW e \in Entry, NEW a \in Answer, NEW f, f = Digested(e, a)
  PROVE  /\ f \in Entry /\ f.gen = e.gen /\ f.reimbursed = e.reimbursed
         /\ f.tx = IF a.kind = "sent" THEN a.tx ELSE e.tx
         /\ f.hash = IF a.kind = "sent" /\ a.hash # None THEN a.hash ELSE e.hash
<1>1. /\ a.kind \in {"sent", "skipped", "uncertain", "failed"}
      /\ a.tx \in Ids \cup {None} /\ a.hash \in Payloads \cup {None}
  BY DEF Answer
<1>2. CASE a.kind = "sent"
  BY <1>1, <1>2 DEF Digested, Entry
<1>3. CASE a.kind = "skipped"
  BY <1>1, <1>3 DEF Digested, Entry
<1>4. CASE a.kind = "uncertain"
  BY <1>1, <1>4 DEF Digested, Entry
<1>5. CASE a.kind = "failed"
  BY <1>1, <1>5 DEF Digested, Entry
<1> QED BY <1>1, <1>2, <1>3, <1>4, <1>5
-----------------------------------------------------------------------------
(* The shape of a state: its types, what the stage of the loop says about  *)
(* the call, and how many generations of requests there can be: each one   *)
(* is due to a deletion that was scanned, again after every restart.       *)
Publication == [phase : {"none", "trading", "settled"}, request : 0..MaxRequests,
                latest : BOOLEAN]
WorldTypes ==
  /\ published \in [Markets -> Publication]
  /\ txs \in [Ids -> {"none", "pool", "mined", "reverted"}]
  /\ archived \subseteq Ids /\ violating \subseteq Withdrawals
LogTypes == log \in Seq(LogEvent) /\ cursor \in 0..Len(log) /\ known \subseteq Hashes
NodeTypes ==
  /\ mem \in State /\ disk \in State
  /\ stage \in {"idle", "refresh", "decide", "call", "output"}
  /\ call \in Ids \cup Withdrawals \cup {None}
  /\ answer \in Answer \cup {None} /\ changed \in BOOLEAN
Stages ==
  /\ (stage \in {"call", "output"}) <=> (call # None)
  /\ (stage = "output") <=> (answer # None)
  /\ call \in Withdrawals => mem.pending = call

Deletions == {i \in DOMAIN log : log[i].kind = "deleted" /\ log[i].hash \in Payloads}
Scanned == {i \in Deletions : i <= cursor}
Counts ==
  /\ workload \in Workloads
  /\ failures \in 0..workload.failures /\ crashes \in 0..workload.crashes
  /\ deletions \in 0..workload.deletions
  /\ Cardinality(Deletions) <= deletions
Within(e, n) == e.gen <= n
MaxGeneration == crashes * deletions + Cardinality(Scanned)
Generations ==
  \A m \in Markets : Within(mem.markets[m], MaxGeneration) /\ Within(disk.markets[m], MaxGeneration)

Shape == WorldTypes /\ LogTypes /\ NodeTypes /\ Stages /\ Counts /\ Generations

(* The types of what a behaviour is limited to.                            *)
LEMMA WorkloadFields ==
  ASSUME NEW w \in Workloads
  PROVE  /\ w.failures \in Nat /\ w.crashes \in Nat /\ w.deletions \in Nat
         /\ w.requests \in 0..MaxRequests
BY ControlAssumption

(* The types of the state the node keeps.                                  *)
LEMMA StateFields ==
  ASSUME NEW s \in State
  PROVE  /\ s.markets \in [Markets -> Entry] /\ s.pending \in Withdrawals \cup {None}
         /\ s.disputed \in SUBSET Withdrawals
         /\ \A m \in Markets : s.markets[m] \in Entry
BY DEF State

(* The counters are numbers within their limits.                           *)
LEMMA CountTypes ==
  ASSUME Shape
  PROVE  /\ failures \in Nat /\ crashes \in Nat /\ deletions \in Nat
         /\ crashes * deletions \in Nat
         /\ workload.deletions \in Nat /\ workload.crashes \in Nat
         /\ deletions <= workload.deletions /\ crashes <= workload.crashes
<1>1. /\ failures \in Nat /\ crashes \in Nat /\ deletions \in Nat
      /\ workload.deletions \in Nat /\ workload.crashes \in Nat
      /\ deletions <= workload.deletions /\ crashes <= workload.crashes
  BY WorkloadFields DEF Shape, Counts
<1>2. crashes * deletions \in Nat
  BY <1>1
<1> QED BY <1>1, <1>2

(* The types of an event of the log.                                       *)
LEMMA EventFields ==
  ASSUME LogTypes, NEW i \in DOMAIN log
  PROVE  /\ log[i] \in LogEvent /\ log[i].hash \in Hashes
         /\ log[i].market \in Markets \cup {None}
         /\ log[i].kind \in {"proposed", "executed", "deleted"}
<1>1. log[i] \in LogEvent
  BY DEF LogTypes
<1> QED BY <1>1 DEF LogEvent

(* There are finitely many deletions, and no more of them were scanned     *)
(* than there are.                                                         *)
LEMMA DeletionsFinite ==
  ASSUME LogTypes
  PROVE  /\ IsFiniteSet(Deletions) /\ IsFiniteSet(Scanned)
         /\ Cardinality(Deletions) \in Nat /\ Cardinality(Scanned) \in Nat
         /\ Cardinality(Scanned) <= Cardinality(Deletions)
<1>1. Len(log) \in Nat /\ DOMAIN log = 1..Len(log)
  BY DEF LogTypes
<1>2. IsFiniteSet(1..Len(log)) /\ Deletions \subseteq 1..Len(log) /\ Scanned \subseteq Deletions
  BY <1>1, FS_Interval DEF Deletions, Scanned
<1>3. IsFiniteSet(Deletions)
  BY <1>2, FS_Subset
<1> QED BY <1>2, <1>3, FS_Subset, FS_CardinalityType

(* Products of numbers grow with their factors.                            *)
LEMMA Products ==
  ASSUME NEW a \in Nat, NEW b \in Nat, NEW c \in Nat, NEW d \in Nat, a <= c, b <= d
  PROVE  a * b <= c * d
<1>1. PICK i \in Nat : c = a + i
  <2>1. c - a \in Nat /\ c = a + (c - a)
    OBVIOUS
  <2> QED BY <2>1
<1>2. PICK j \in Nat : d = b + j
  <2>1. d - b \in Nat /\ d = b + (d - b)
    OBVIOUS
  <2> QED BY <2>1
<1>3. c * d = a * b + a * j + i * b + i * j
  BY <1>1, <1>2
<1>4. a * j \in Nat /\ i * b \in Nat /\ i * j \in Nat /\ a * b \in Nat
  BY <1>1, <1>2
<1> QED BY <1>3, <1>4

(* What the generations are bounded by.                                    *)
LEMMA GenerationsEnd ==
  ASSUME Shape
  PROVE  MaxGeneration \in Nat /\ MaxGen \in Int /\ MaxGeneration <= MaxGen
<1> DEFINE G == {w.deletions * (w.crashes + 1) : w \in Workloads}
           n == workload.deletions * (workload.crashes + 1)
<1>1. IsFiniteSet(G)
  <2> DEFINE f == [w \in Workloads |-> w.deletions * (w.crashes + 1)]
  <2>1. f \in Surjection(Workloads, G)
    BY DEF Surjection
  <2>2. IsFiniteSet(Workloads)
    BY ControlAssumption
  <2> HIDE DEF f, G
  <2> QED BY <2>1, <2>2, FS_Surjection
<1>2. G \subseteq Int
  <2>1. ASSUME NEW w \in Workloads PROVE w.deletions * (w.crashes + 1) \in Int
    BY WorkloadFields
  <2> QED BY <2>1
<1>3. n \in G
  BY DEF Shape, Counts
<1>4. n <= MaxGen
  <2> HIDE DEF n
  <2>1. MaxGen = Max(G)
    BY DEF MaxGen
  <2> HIDE DEF G
  <2> QED BY <1>1, <1>2, <1>3, <2>1, EndsExist
<1>5. Cardinality(Scanned) \in Nat /\ Cardinality(Scanned) <= deletions
  BY DeletionsFinite, CountTypes DEF Shape, Counts
<1>6. MaxGeneration \in Nat /\ MaxGeneration <= crashes * deletions + deletions
  BY <1>5, CountTypes DEF MaxGeneration
<1>7. crashes * deletions + deletions = deletions * (crashes + 1)
  BY CountTypes
<1>8. deletions * (crashes + 1) <= n
  <2>1. /\ deletions \in Nat /\ workload.deletions \in Nat /\ deletions <= workload.deletions
        /\ crashes + 1 \in Nat /\ workload.crashes + 1 \in Nat
        /\ crashes + 1 <= workload.crashes + 1
    BY CountTypes
  <2> QED BY ONLY <2>1, Products
<1>9. deletions * (crashes + 1) \in Nat /\ n \in Int /\ MaxGen \in Int
  <2>1. deletions * (crashes + 1) \in Nat /\ n \in Int
    BY CountTypes
  <2>2. MaxGen = Max(G)
    BY DEF MaxGen
  <2>3. MaxGen \in G
    <3> HIDE DEF G
    <3> QED BY <1>1, <1>2, <1>3, <2>2, EndsExist
  <2> QED BY <1>2, <2>1, <2>3
<1> HIDE DEF n
<1> QED BY <1>4, <1>6, <1>7, <1>8, <1>9, CountTypes

(* Every request in use has a generation within the bound.                 *)
LEMMA EntriesWithin ==
  ASSUME Shape, NEW m \in Markets
  PROVE  /\ mem.markets[m] \in Entry /\ disk.markets[m] \in Entry
         /\ mem.markets[m].gen <= MaxGen /\ disk.markets[m].gen <= MaxGen
<1>1. mem.markets[m] \in Entry /\ disk.markets[m] \in Entry
  BY StateFields DEF Shape, NodeTypes
<1>2. mem.markets[m].gen \in Nat /\ disk.markets[m].gen \in Nat
  BY <1>1, EntryFields
<1>3. mem.markets[m].gen <= MaxGeneration /\ disk.markets[m].gen <= MaxGeneration
  BY DEF Shape, Generations, Within
<1>4. MaxGeneration \in Nat /\ MaxGen \in Int /\ MaxGeneration <= MaxGen
  BY GenerationsEnd
<1> QED BY <1>1, <1>2, <1>3, <1>4

(* A new event leaves what was scanned alone.                              *)
LEMMA EventLog ==
  ASSUME LogTypes, NEW kind \in {"proposed", "executed", "deleted"}, NEW h \in Hashes,
         NEW m \in Markets \cup {None}, log' = Event(kind, h, m), UNCHANGED <<cursor, known>>
  PROVE  /\ LogTypes' /\ Scanned' = Scanned
         /\ Cardinality(Deletions') <= Cardinality(Deletions) + 1
         /\ Cardinality(Deletions) \in Nat /\ Cardinality(Deletions') \in Nat
         /\ kind # "deleted" \/ h \notin Payloads => Deletions' = Deletions
<1> DEFINE x == [kind |-> kind, hash |-> h, market |-> m]
           n == Len(log)
<1>1. x \in LogEvent /\ log' = Append(log, x) /\ log \in Seq(LogEvent)
  BY DEF LogEvent, Event, LogTypes
<1>2. x.kind = kind /\ x.hash = h
  OBVIOUS
<1> HIDE DEF x
<1>3. /\ log' \in Seq(LogEvent) /\ n \in Nat /\ Len(log') = n + 1
      /\ DOMAIN log = 1..n /\ DOMAIN log' = 1..n + 1
      /\ log'[n + 1] = x /\ \A i \in 1..n : log'[i] = log[i]
  BY <1>1
<1>4. cursor \in 0..n
  BY DEF LogTypes
<1> HIDE DEF n
<1>5. LogTypes'
  BY <1>3, <1>4 DEF LogTypes
<1>6. DOMAIN log' = DOMAIN log \cup {n + 1} /\ n + 1 \notin DOMAIN log
  BY <1>3
<1>7. Deletions' = IF kind = "deleted" /\ h \in Payloads THEN Deletions \cup {n + 1}
                   ELSE Deletions
  BY <1>2, <1>3, <1>6 DEF Deletions
<1>8. ~(n + 1 <= cursor)
  BY <1>3, <1>4
<1>9. Scanned' = Scanned
  BY <1>7, <1>8 DEF Scanned
<1>10. IsFiniteSet(Deletions) /\ Cardinality(Deletions) \in Nat
  BY DeletionsFinite
<1>11. /\ Cardinality(Deletions \cup {n + 1}) <= Cardinality(Deletions) + 1
       /\ Cardinality(Deletions \cup {n + 1}) \in Nat
  <2>1. IsFiniteSet(Deletions \cup {n + 1})
    BY <1>10, FS_AddElement
  <2>2. Cardinality(Deletions \cup {n + 1}) \in Nat
    BY <2>1, FS_CardinalityType
  <2>3. \/ Cardinality(Deletions \cup {n + 1}) = Cardinality(Deletions)
        \/ Cardinality(Deletions \cup {n + 1}) = Cardinality(Deletions) + 1
    BY <1>10, FS_AddElement
  <2> QED BY <1>10, <2>2, <2>3
<1> QED BY <1>5, <1>7, <1>9, <1>10, <1>11

(* Steps that delete no reimbursement and scan nothing.                    *)
LEMMA Assembled ==
  ASSUME Shape, WorldTypes', LogTypes', NodeTypes', Stages',
         UNCHANGED <<workload, crashes, deletions>>, failures' \in 0..workload.failures,
         Deletions' = Deletions, Scanned' = Scanned,
         \A m \in Markets : Within(mem'.markets[m], MaxGeneration)
                            /\ Within(disk'.markets[m], MaxGeneration)
  PROVE  Shape'
<1>1. Counts'
  BY DEF Shape, Counts
<1>2. MaxGeneration' = MaxGeneration
  BY DEF MaxGeneration
<1>3. Generations'
  BY <1>2 DEF Generations, Within
<1> QED BY <1>1, <1>3 DEF Shape

(* At most one failure is added, within the limit.                         *)
LEMMA FailureCount ==
  ASSUME Shape, NEW b, Fails \/ NoFailure \/ FailsIf(b)
  PROVE  failures' \in 0..workload.failures
<1>1. failures \in 0..workload.failures /\ workload.failures \in Nat
  BY WorkloadFields DEF Shape, Counts
<1> QED BY <1>1 DEF Fails, NoFailure, FailsIf

(* Steps of the chain and of the agent leave the node alone.               *)
LEMMA OutsideShape ==
  ASSUME Shape, WorldTypes', UNCHANGED nodeVars, UNCHANGED bounds,
         \/ UNCHANGED log
         \/ \E kind \in {"proposed", "executed", "deleted"}, h \in Hashes,
               m \in Markets \cup {None} :
              log' = Event(kind, h, m) /\ (kind # "deleted" \/ h \notin Payloads)
  PROVE  Shape'
<1>1. UNCHANGED <<mem, disk, cursor, known, stage, call, answer, changed>>
      /\ UNCHANGED <<workload, failures, crashes, deletions>>
  BY DEF nodeVars, bounds
<1>2. NodeTypes' /\ Stages'
  BY <1>1 DEF Shape, NodeTypes, Stages
<1>3. LogTypes' /\ Deletions' = Deletions /\ Scanned' = Scanned
  <2>1. CASE UNCHANGED log
    BY <1>1, <2>1 DEF Shape, LogTypes, Deletions, Scanned
  <2>2. ASSUME NEW kind \in {"proposed", "executed", "deleted"}, NEW h \in Hashes,
               NEW m \in Markets \cup {None}, log' = Event(kind, h, m),
               kind # "deleted" \/ h \notin Payloads
        PROVE  LogTypes' /\ Deletions' = Deletions /\ Scanned' = Scanned
    BY <1>1, <2>2, EventLog DEF Shape
  <2> QED BY <2>1, <2>2
<1>4. failures' \in 0..workload.failures
  BY <1>1 DEF Shape, Counts
<1>5. \A m \in Markets : Within(mem'.markets[m], MaxGeneration)
                         /\ Within(disk'.markets[m], MaxGeneration)
  BY <1>1 DEF Shape, Generations
<1> QED BY <1>1, <1>2, <1>3, <1>4, <1>5, Assembled

(* The market of the latest event of a hash.                               *)
LEMMA LatestMarket ==
  ASSUME LogTypes, NEW h, EventsOf(h) # {}
  PROVE  log[Latest(EventsOf(h))].market \in Markets \cup {None}
<1>1. At(log, h) # {} /\ EventsOf(h) = At(log, h)
  BY LiveIsAt
<1>2. log \in Seq(LogEvent)
  BY DEF LogTypes
<1>3. Latest(At(log, h)) \in 1..Len(log)
  BY <1>1, <1>2, LatestEvent
<1>4. log[Latest(At(log, h))] \in LogEvent
  BY <1>2, <1>3
<1> QED BY <1>1, <1>4 DEF LogEvent

(* The hash of a request is a payload of its market, never a withdrawal.   *)
LEMMA HashTypes ==
  ASSUME NEW id \in Ids
  PROVE  /\ HashOf(id) \in Payloads /\ id.market \in Markets /\ HashOf(id) \in Hashes
         /\ id.cid \in 1..MaxRequests /\ HashOf(id) = PayloadOf[id.market][id.cid]
         /\ HashOf(id) \notin Withdrawals /\ HashOf(id) # None
BY ControlAssumption DEF HashOf, Ids, Hashes

(* Mining a transaction.                                                   *)
LEMMA MinedTypes ==
  ASSUME Shape, NEW id \in Ids
  PROVE  /\ Mined(id, txs) \in [Ids -> {"none", "pool", "mined", "reverted"}]
         /\ Mined(id, txs)[id] = IF Live(HashOf(id)) THEN "reverted" ELSE "mined"
         /\ \A other \in Ids : other # id => Mined(id, txs)[other] = txs[other]
BY DEF Mined, Shape, WorldTypes

(* The steps of the Governor keep the shape of a state.                    *)
LEMMA ChainShape ==
  ASSUME Shape, Governor
  PROVE  Shape'
<1>1. LogTypes /\ WorldTypes
  BY DEF Shape
<1>2. ASSUME NEW id \in Ids, Mine(id) PROVE Shape'
  <2>1. txs' = Mined(id, txs) /\ log' = Proposed(id)
        /\ UNCHANGED <<nodeVars, worldVars, bounds>>
    BY <1>2 DEF Mine
  <2>2. WorldTypes'
    BY <1>1, <2>1, MinedTypes DEF WorldTypes, worldVars
  <2>3. HashOf(id) \in Hashes /\ id.market \in Markets \cup {None}
    BY HashTypes
  <2>4. log' = log \/ log' = Event("proposed", HashOf(id), id.market)
    BY <2>1 DEF Proposed
  <2> QED BY <2>1, <2>2, <2>3, <2>4, OutsideShape
<1>3. ASSUME NEW h \in Hashes, Execute(h) PROVE Shape'
  <2>1. /\ Live(h) /\ log' = Event("executed", h, log[Latest(EventsOf(h))].market)
        /\ UNCHANGED <<nodeVars, txs, worldVars, bounds>>
    BY <1>3 DEF Execute
  <2>2. log[Latest(EventsOf(h))].market \in Markets \cup {None}
    BY <1>1, <2>1, LatestMarket DEF Live
  <2>3. WorldTypes'
    BY <1>1, <2>1 DEF WorldTypes, worldVars
  <2> QED BY <2>1, <2>2, <2>3, OutsideShape
<1>4. ASSUME NEW h \in Hashes, Delete(h) PROVE Shape'
  <2>1. /\ Live(h) /\ log' = Event("deleted", h, log[Latest(EventsOf(h))].market)
        /\ deletions < workload.deletions /\ deletions' = deletions + 1
        /\ UNCHANGED <<nodeVars, txs, worldVars, workload, failures, crashes>>
    BY <1>4 DEF Delete
  <2>2. log[Latest(EventsOf(h))].market \in Markets \cup {None}
    BY <1>1, <2>1, LatestMarket DEF Live
  <2>3. WorldTypes'
    BY <1>1, <2>1 DEF WorldTypes, worldVars
  <2>4. UNCHANGED <<mem, disk, cursor, known, stage, call, answer, changed>>
    BY <2>1 DEF nodeVars
  <2>5. NodeTypes' /\ Stages'
    BY <2>4 DEF Shape, NodeTypes, Stages
  <2>6. LogTypes' /\ Scanned' = Scanned /\ Cardinality(Deletions') <= Cardinality(Deletions) + 1
    BY <1>1, <2>1, <2>2, <2>4, EventLog
  <2>7. Counts'
    <3>1. Cardinality(Deletions') \in Nat /\ Cardinality(Deletions) \in Nat
      BY <1>1, <2>1, <2>2, <2>4, EventLog
    <3> QED BY <2>1, <2>6, <3>1, CountTypes DEF Shape, Counts
  <2>8. Generations'
    <3>1. crashes * deletions <= crashes * deletions'
      BY <2>1, CountTypes, Products
    <3>2. crashes * deletions' \in Nat
      BY <2>1, CountTypes
    <3>3. MaxGeneration' = crashes * deletions' + Cardinality(Scanned)
      BY <2>1, <2>6 DEF MaxGeneration
    <3>4. MaxGeneration <= MaxGeneration' /\ MaxGeneration \in Nat /\ MaxGeneration' \in Nat
      BY <1>1, <3>1, <3>2, <3>3, DeletionsFinite, CountTypes DEF MaxGeneration
    <3>5. \A m \in Markets : mem.markets[m].gen \in Nat /\ disk.markets[m].gen \in Nat
      BY EntriesWithin, EntryFields
    <3> QED BY <2>4, <3>4, <3>5 DEF Shape, Generations, Within
  <2> QED BY <2>3, <2>5, <2>6, <2>7, <2>8 DEF Shape
<1>5. ASSUME NEW w \in Withdrawals, ProposeWithdrawal(w) PROVE Shape'
  <2>1. /\ log' = Event("proposed", w, None) /\ violating' \subseteq violating \cup {w}
        /\ UNCHANGED <<nodeVars, txs, published, archived, bounds>>
    BY <1>5 DEF ProposeWithdrawal
  <2>2. w \in Hashes
    BY DEF Hashes
  <2>3. WorldTypes'
    BY <1>1, <2>1 DEF WorldTypes
  <2> QED BY <2>1, <2>2, <2>3, OutsideShape
<1> QED BY <1>2, <1>3, <1>4, <1>5 DEF Governor

(* The steps of the agent do as well.                                      *)
LEMMA AgentShape ==
  ASSUME Shape, Agent
  PROVE  Shape'
<1>1. PICK m \in Markets : Trade(m) \/ Settle(m) \/ Request(m) \/ Snapshot(m)
  BY DEF Agent
<1>2. WorldTypes /\ workload \in Workloads
  BY DEF Shape, Counts
<1>3. published[m] \in Publication
  BY <1>2 DEF WorldTypes
<1>4. PICK p \in Publication : published' = [published EXCEPT ![m] = p]
  <2>1. CASE Trade(m)
    <3> DEFINE p == [published[m] EXCEPT !.phase = "trading"]
    <3>1. p \in Publication
      BY <1>3 DEF Publication
    <3>2. published' = [published EXCEPT ![m] = p]
      BY <2>1 DEF Trade
    <3> QED BY <3>1, <3>2
  <2>2. CASE Settle(m)
    <3> DEFINE p == [published[m] EXCEPT !.phase = "settled"]
    <3>1. p \in Publication
      BY <1>3 DEF Publication
    <3>2. published' = [published EXCEPT ![m] = p]
      BY <2>2 DEF Settle
    <3> QED BY <3>1, <3>2
  <2>3. CASE Request(m)
    <3> DEFINE p == [published[m] EXCEPT !.request = @ + 1, !.latest = TRUE]
    <3>1. published[m].request + 1 \in 0..MaxRequests
      BY <1>2, <1>3, <2>3, WorkloadFields, ControlAssumption DEF Publication, Request
    <3>2. p \in Publication
      BY <1>3, <3>1 DEF Publication
    <3>3. published' = [published EXCEPT ![m] = p]
      BY <2>3 DEF Request
    <3> QED BY <3>2, <3>3
  <2>4. CASE Snapshot(m)
    <3> DEFINE p == [published[m] EXCEPT !.latest = FALSE]
    <3>1. p \in Publication
      BY <1>3 DEF Publication
    <3>2. published' = [published EXCEPT ![m] = p]
      BY <2>4 DEF Snapshot
    <3> QED BY <3>1, <3>2
  <2> QED BY <1>1, <2>1, <2>2, <2>3, <2>4
<1>5. /\ violating' \subseteq violating \cup Withdrawals
      /\ UNCHANGED <<nodeVars, chainVars, archived, bounds>>
  BY <1>1 DEF Trade, Settle, Request, Snapshot
<1>6. WorldTypes'
  BY <1>2, <1>4, <1>5 DEF WorldTypes, chainVars
<1> QED BY <1>5, <1>6, OutsideShape DEF chainVars
-----------------------------------------------------------------------------
(* The steps of the loop, as far as the invariants look at them.           *)

(* Poll scans from the cursor, or from the end when the history cannot be  *)
(* read.  An entry is reset by a deletion in the range, or keeps its       *)
(* request and counts as reimbursed when its hash was executed.            *)
PolledEntry(e, f, from) ==
  /\ f \in Entry
  /\ \/ /\ f.tx = e.tx /\ f.hash = e.hash /\ f.gen = e.gen
        /\ f.reimbursed => \/ e.reimbursed
                           \/ \E i \in DOMAIN log : log[i].kind = "executed"
                                                    /\ log[i].hash = e.hash
     \/ /\ \E i \in DOMAIN log : i > from /\ log[i].kind = "deleted" /\ log[i].hash = e.hash
        /\ f.tx = None /\ f.hash = None /\ f.gen = e.gen + 1
        /\ f.reimbursed = FALSE

(* Poll, with the range it scans.                                          *)
LEMMA PollIs ==
  ASSUME Shape, Poll
  PROVE  \E from \in {cursor, Len(log)} :
           /\ from # cursor => cursor = 0 /\ Fails
           /\ from = cursor => NoFailure
           /\ known' \subseteq known \cup {log[i].hash : i \in DOMAIN log}
           /\ mem' \in State /\ mem'.pending \in {mem.pending, None}
           /\ \A m \in Markets : PolledEntry(mem.markets[m], mem'.markets[m], from)
<1>1. PICK from \in {cursor, Len(log)} :
       /\ (from # cursor => cursor = 0) /\ FailsIf(from # cursor)
       /\ known' = LiveAfter(from, Len(log))
       /\ \E stale \in SUBSET {m \in Markets : mem.markets[m].dispatched},
            pending \in {mem.pending, None} :
            LET Kept(m) == [mem.markets[m] EXCEPT !.dispatched = @ /\ m \notin stale] IN
            mem' = [mem EXCEPT !.pending = pending,
                     !.markets = [m \in Markets |->
                       AppliedTo(Kept(m), Found("executed", from, Len(log)),
                                 Found("deleted", from, Len(log)))]]
  BY DEF Poll
<1> DEFINE X == Found("executed", from, Len(log))
           D == Found("deleted", from, Len(log))
<1>2. PICK stale \in SUBSET {m \in Markets : mem.markets[m].dispatched},
            pending \in {mem.pending, None} :
            mem' = [mem EXCEPT !.pending = pending,
                     !.markets = [m \in Markets |->
                       AppliedTo([mem.markets[m] EXCEPT !.dispatched = @ /\ m \notin stale],
                                 X, D)]]
  BY <1>1
<1>3. Len(log) \in Nat /\ DOMAIN log = 1..Len(log) /\ cursor \in 0..Len(log)
  BY DEF Shape, LogTypes
<1>4. from \in 0..Len(log)
  BY <1>1, <1>3
<1>5. \A i \in from + 1..Len(log) : i \in DOMAIN log /\ i > from
  <2>1. PICK n \in Nat : n = Len(log)
    BY <1>3
  <2>2. from \in 0..n /\ DOMAIN log = 1..n
    BY <1>3, <1>4, <2>1
  <2>3. \A i \in from + 1..n : i \in 1..n /\ i > from
    BY ONLY <2>1, <2>2
  <2> QED BY <2>1, <2>2, <2>3
<1>15. /\ \A h \in X : \E i \in DOMAIN log : log[i].kind = "executed" /\ log[i].hash = h
       /\ \A h \in D : \E i \in DOMAIN log : i > from /\ log[i].kind = "deleted"
                                             /\ log[i].hash = h
  BY ONLY <1>5 DEF Found
<1> HIDE DEF X, D
<1>6. mem \in State
  BY DEF Shape, NodeTypes
<1> DEFINE Kept(m) == [mem.markets[m] EXCEPT !.dispatched = @ /\ m \notin stale]
           F == [m \in Markets |-> AppliedTo(Kept(m), X, D)]
<1>7. ASSUME NEW m \in Markets
      PROVE  /\ Kept(m) \in Entry /\ Kept(m).tx = mem.markets[m].tx
             /\ Kept(m).hash = mem.markets[m].hash /\ Kept(m).gen = mem.markets[m].gen
             /\ Kept(m).reimbursed = mem.markets[m].reimbursed
  <2>1. mem.markets[m] \in Entry
    BY <1>6, StateFields
  <2> QED BY <2>1 DEF Entry
<1>8. ASSUME NEW m \in Markets PROVE PolledEntry(mem.markets[m], F[m], from)
  <2>1. F[m] = AppliedTo(Kept(m), X, D)
    OBVIOUS
  <2>2. Kept(m) \in Entry
    BY <1>7
  <2>3. /\ F[m] \in Entry
        /\ \/ /\ F[m].tx = Kept(m).tx /\ F[m].hash = Kept(m).hash /\ F[m].gen = Kept(m).gen
              /\ F[m].reimbursed => Kept(m).reimbursed \/ Kept(m).hash \in X
           \/ /\ Kept(m).hash \in D /\ F[m].tx = None /\ F[m].hash = None
              /\ F[m].gen = Kept(m).gen + 1 /\ ~F[m].reimbursed
    <3> HIDE DEF F, Kept
    <3> QED BY <2>1, <2>2, AppliedEntry
  <2>4. /\ Kept(m).tx = mem.markets[m].tx
        /\ Kept(m).hash = mem.markets[m].hash /\ Kept(m).gen = mem.markets[m].gen
        /\ Kept(m).reimbursed = mem.markets[m].reimbursed
    BY <1>7
  <2>5. F[m].reimbursed \in BOOLEAN
    <3> HIDE DEF F
    <3> QED BY <2>3, EntryFields
  <2> HIDE DEF F, Kept
  <2> QED BY <1>15, <2>3, <2>4, <2>5 DEF PolledEntry
<1>9. mem' = [mem EXCEPT !.pending = pending, !.markets = F]
  BY <1>2
<1>10. F \in [Markets -> Entry]
  BY <1>8 DEF PolledEntry
<1> HIDE DEF F
<1>11. mem' \in State /\ mem'.pending = pending /\ mem'.markets = F
  BY <1>6, <1>9, <1>10 DEF State
<1>12. known' \subseteq known \cup {log[i].hash : i \in DOMAIN log}
  <2>1. from + 1..Len(log) \subseteq DOMAIN log
    BY <1>5
  <2> QED BY <1>1, <2>1 DEF LiveAfter
<1>13. from # cursor => cursor = 0 /\ Fails
  BY <1>1 DEF FailsIf
<1>14. from = cursor => NoFailure
  BY <1>1 DEF FailsIf
<1> QED BY <1>8, <1>11, <1>12, <1>13, <1>14

(* Poll keeps the shape: an entry whose generation it raises was deleted   *)
(* in the range, so that more deletions are scanned afterwards.            *)
LEMMA PollShape ==
  ASSUME Shape, Poll
  PROVE  Shape'
<1>1. PICK from \in {cursor, Len(log)} :
           /\ from # cursor => cursor = 0 /\ Fails
           /\ from = cursor => NoFailure
           /\ known' \subseteq known \cup {log[i].hash : i \in DOMAIN log}
           /\ mem' \in State /\ mem'.pending \in {mem.pending, None}
           /\ \A m \in Markets : PolledEntry(mem.markets[m], mem'.markets[m], from)
  BY PollIs
<1>2. /\ stage = "idle" /\ stage' = "refresh" /\ cursor' = Len(log) /\ changed' = (mem' # mem)
      /\ UNCHANGED <<disk, call, answer, chainVars, worldVars, workload, crashes, deletions>>
  BY DEF Poll
<1>3. WorldTypes'
  BY <1>2 DEF Shape, WorldTypes, chainVars, worldVars
<1>4. UNCHANGED log
  BY <1>2 DEF chainVars
<1>5. Len(log) \in Nat /\ DOMAIN log = 1..Len(log) /\ cursor \in 0..Len(log)
  BY DEF Shape, LogTypes
<1>6. LogTypes'
  <2>1. \A i \in DOMAIN log : log[i].hash \in Hashes
    BY EventFields DEF Shape
  <2> QED BY <1>1, <1>2, <1>4, <1>5, <2>1 DEF Shape, LogTypes
<1>7. call = None /\ answer = None
  BY <1>2 DEF Shape, Stages
<1>8. call \notin Withdrawals
  BY <1>7, ControlAssumption
<1>9. NodeTypes' /\ Stages'
  BY <1>1, <1>2, <1>7, <1>8 DEF Shape, NodeTypes, Stages
<1>10. failures' \in 0..workload.failures
  BY <1>1, FailureCount
<1>11. Deletions' = Deletions
  BY <1>4 DEF Deletions
<1>12. Counts'
  BY <1>2, <1>10, <1>11 DEF Shape, Counts
<1>13. Scanned' = Deletions
  BY <1>2, <1>4, <1>5, <1>11 DEF Scanned, Deletions
<1>14. /\ IsFiniteSet(Deletions) /\ Cardinality(Deletions) \in Nat
       /\ Cardinality(Scanned) \in Nat /\ Cardinality(Scanned) <= Cardinality(Deletions)
  BY DeletionsFinite DEF Shape
<1>15. /\ MaxGeneration' = crashes * deletions + Cardinality(Deletions)
       /\ MaxGeneration = crashes * deletions + Cardinality(Scanned)
       /\ crashes * deletions \in Nat
  BY <1>2, <1>13, CountTypes DEF MaxGeneration
<1>16. Generations'
  <2>1. ASSUME NEW m \in Markets
        PROVE  Within(mem'.markets[m], MaxGeneration') /\ Within(disk'.markets[m], MaxGeneration')
    <3>1. /\ mem.markets[m] \in Entry /\ mem.markets[m].gen \in Nat
          /\ disk.markets[m].gen \in Nat /\ disk' = disk
      BY <1>2, EntriesWithin, EntryFields
    <3>2. mem.markets[m].gen <= MaxGeneration /\ disk.markets[m].gen <= MaxGeneration
      BY DEF Shape, Generations, Within
    <3>3. PolledEntry(mem.markets[m], mem'.markets[m], from)
      BY <1>1
    <3>4. CASE mem'.markets[m].gen = mem.markets[m].gen
      BY <1>14, <1>15, <3>1, <3>2, <3>4 DEF Within
    <3>5. CASE /\ \E i \in DOMAIN log : i > from /\ log[i].kind = "deleted"
                                       /\ log[i].hash = mem.markets[m].hash
               /\ mem'.markets[m].hash = None
               /\ mem'.markets[m].gen = mem.markets[m].gen + 1
      <4>1. PICK i \in DOMAIN log : i > from /\ log[i].kind = "deleted"
                                    /\ log[i].hash = mem.markets[m].hash
        BY <3>5
      <4>2. log[i].hash \in Hashes /\ mem.markets[m].hash \in Payloads \cup {None}
        BY <3>1, <4>1, EntryFields, EventFields DEF Shape
      <4>3. log[i].hash \in Payloads
        BY <4>1, <4>2, ControlAssumption DEF Hashes
      <4>4. ~(i <= cursor)
        <5>1. PICK n \in Nat : n = Len(log)
          BY <1>5
        <5>2. i \in 1..n /\ cursor \in 0..n /\ from \in {cursor, n}
          BY <1>1, <1>5, <4>1, <5>1
        <5> QED BY ONLY <4>1, <5>1, <5>2
      <4>5. i \in Deletions /\ i \notin Scanned
        BY <4>1, <4>3, <4>4 DEF Deletions, Scanned
      <4>6. Scanned \subseteq Deletions
        BY DEF Scanned
      <4>7. Cardinality(Scanned) < Cardinality(Deletions)
        <5>1. Cardinality(Scanned) # Cardinality(Deletions)
          BY <1>14, <4>5, <4>6, FS_Subset
        <5> QED BY <1>14, <5>1
      <4> QED BY <1>14, <1>15, <3>1, <3>2, <3>5, <4>7 DEF Within
    <3> QED BY <3>3, <3>4, <3>5 DEF PolledEntry
  <2> QED BY <2>1 DEF Generations, Within
<1> QED BY <1>3, <1>6, <1>9, <1>12, <1>16 DEF Shape

(* Refresh gives an entry the hash of its mined transaction, or gives the  *)
(* transaction up.                                                         *)
RefreshedEntry(e, f) ==
  /\ f \in Entry /\ f.gen = e.gen /\ f.reimbursed = e.reimbursed
  /\ \/ f.tx = e.tx /\ f.hash = e.hash
     \/ /\ e.tx # None /\ e.hash = None /\ f.hash = None /\ f.tx = None
        /\ Fails \/ txs[e.tx] = "reverted"
     \/ /\ e.tx # None /\ txs[e.tx] = "mined" /\ e.hash = None
        /\ f.tx = e.tx /\ f.hash = HashOf(e.tx)

(* Refresh, as far as the entries go.                                      *)
LEMMA RefreshIs ==
  ASSUME Shape, Refresh
  PROVE  /\ mem' \in State /\ mem'.pending = mem.pending
         /\ failures' \in 0..workload.failures
         /\ \A m \in Markets : RefreshedEntry(mem.markets[m], mem'.markets[m])
<1>1. PICK unread \in SUBSET Unresolved, late \in SUBSET Unresolved :
       /\ FailsIf(unread # {})
       /\ late \subseteq unread
       /\ mem' = [mem EXCEPT !.markets = [m \in Markets |->
            CASE m \in late -> Abandoned(mem.markets[m])
              [] m \in Unresolved \ unread -> Refreshed(m)
              [] OTHER -> mem.markets[m]]]
  BY DEF Refresh
<1> DEFINE F == [m \in Markets |->
            CASE m \in late -> Abandoned(mem.markets[m])
              [] m \in Unresolved \ unread -> Refreshed(m)
              [] OTHER -> mem.markets[m]]
<1>2. mem \in State
  BY DEF Shape, NodeTypes
<1>3. ASSUME NEW m \in Markets PROVE RefreshedEntry(mem.markets[m], F[m])
  <2> DEFINE e == mem.markets[m]
  <2>1. e \in Entry
    BY <1>2, StateFields
  <2>2. m \in Unresolved => e.tx # None /\ e.hash = None /\ e.tx \in Ids
    BY <2>1, EntryFields DEF Unresolved
  <2>3. CASE m \in late
    <3>1. F[m] = Abandoned(e)
      <4>1. m \notin Unresolved \ unread
        BY <1>1, <2>3
      <4> QED BY <2>3, <4>1
    <3>2. m \in Unresolved /\ Fails
      BY <1>1, <2>3 DEF FailsIf
    <3>3. e.tx # None /\ e.hash = None
      BY <2>2, <3>2
    <3> HIDE DEF F
    <3>4. RefreshedEntry(e, F[m])
      <4> HIDE DEF e
      <4> QED BY <2>1, <3>1, <3>2, <3>3, AbandonedEntry DEF RefreshedEntry
    <3> QED BY <3>4
  <2>4. CASE m \notin late /\ m \in Unresolved \ unread
    <3>1. F[m] = Refreshed(m)
      BY <2>4
    <3>2. CASE txs[e.tx] = "mined"
      <4>1. F[m] = [e EXCEPT !.hash = HashOf(e.tx)]
        BY <3>1, <3>2 DEF Refreshed
      <4>2. HashOf(e.tx) \in Payloads \cup {None}
        BY <2>2, <2>4, HashTypes
      <4> HIDE DEF F, e
      <4>3. F[m] \in Entry
        BY <2>1, <4>1, <4>2 DEF Entry
      <4>4. F[m].hash = HashOf(e.tx) /\ F[m].tx = e.tx /\ F[m].gen = e.gen
            /\ F[m].reimbursed = e.reimbursed
        BY <2>1, <4>1 DEF Entry
      <4>5. e.tx # None /\ e.hash = None
        BY <2>2, <2>4
      <4> QED BY <3>2, <4>3, <4>4, <4>5 DEF RefreshedEntry, e
    <3>3. CASE txs[e.tx] = "reverted"
      <4>1. F[m] = Abandoned(e)
        BY <3>1, <3>3 DEF Refreshed
      <4>2. e.tx # None /\ e.hash = None
        BY <2>2, <2>4
      <4> HIDE DEF F
      <4> QED BY <2>1, <3>3, <4>1, <4>2, AbandonedEntry DEF RefreshedEntry
    <3>4. CASE txs[e.tx] # "mined" /\ txs[e.tx] # "reverted"
      <4>1. F[m] = e
        BY <3>1, <3>4 DEF Refreshed
      <4> HIDE DEF F
      <4> QED BY <2>1, <4>1 DEF RefreshedEntry
    <3> QED BY <3>2, <3>3, <3>4
  <2>5. CASE m \notin late /\ m \notin Unresolved \ unread
    <3>1. F[m] = e
      BY <2>5
    <3> HIDE DEF F
    <3> QED BY <2>1, <3>1 DEF RefreshedEntry
  <2> QED BY <2>3, <2>4, <2>5
<1>4. mem' = [mem EXCEPT !.markets = F]
  BY <1>1
<1>5. F \in [Markets -> Entry]
  <2>1. \A m \in Markets : F[m] \in Entry
    BY <1>3 DEF RefreshedEntry
  <2> QED BY <2>1
<1>6. failures' \in 0..workload.failures
  BY <1>1, FailureCount
<1> HIDE DEF F
<1>7. mem' \in State /\ mem'.markets = F /\ mem'.pending = mem.pending
  BY <1>2, <1>4, <1>5 DEF State
<1> QED BY <1>3, <1>6, <1>7

(* What Decide does to an entry changes neither its transaction nor its    *)
(* hash.                                                                   *)
Same(e, f) ==
  /\ f \in Entry /\ f.tx = e.tx /\ f.hash = e.hash /\ f.reimbursed = e.reimbursed
  /\ f.gen \in {0, e.gen}
Alike(s, t) == t \in State /\ \A m \in Markets : Same(s.markets[m], t.markets[m])

(* A state like the one in memory needs no more generations.               *)
LEMMA AlikeGenerations ==
  ASSUME Shape, NEW t, Alike(mem, t), NEW m \in Markets
  PROVE  /\ t.markets[m].gen \in 0..MaxGen /\ Within(t.markets[m], MaxGeneration)
         /\ t.markets[m] \in Entry
<1>1. t.markets[m].gen \in {0, mem.markets[m].gen} /\ t.markets[m] \in Entry
  BY DEF Alike, Same
<1>2. mem.markets[m].gen <= MaxGeneration
  BY DEF Shape, Generations, Within
<1>3. mem.markets[m].gen \in Nat
  BY EntriesWithin, EntryFields
<1>4. MaxGeneration \in Nat /\ MaxGen \in Int /\ MaxGeneration <= MaxGen
  BY GenerationsEnd
<1> QED BY <1>1, <1>2, <1>3, <1>4 DEF Within

(* Synchronising with the published requests tracks nothing new.           *)
LEMMA SyncedIs ==
  ASSUME Shape, NEW t, t = [mem EXCEPT !.markets = [m \in Markets |-> Synced(m)]]
  PROVE  Alike(mem, t) /\ t.pending = mem.pending /\ t.disputed = mem.disputed
<1>1. mem \in State
  BY DEF Shape, NodeTypes
<1> DEFINE F == [m \in Markets |-> Synced(m)]
<1>2. ASSUME NEW m \in Markets PROVE Same(mem.markets[m], F[m])
  <2> DEFINE e == mem.markets[m]
  <2>1. e \in Entry
    BY <1>1, StateFields
  <2>2. published[m].request \in 0..MaxRequests
    BY DEF Shape, WorldTypes, Publication
  <2>3. F[m] = e \/ F[m] = [e EXCEPT !.cid = published[m].request, !.gen = 0,
                                     !.dispatched = FALSE, !.submitted = FALSE]
    BY DEF Synced
  <2> HIDE DEF F, e
  <2>4. CASE F[m] = e
    BY <2>1, <2>4 DEF Same, e
  <2>5. CASE F[m] = [e EXCEPT !.cid = published[m].request, !.gen = 0,
                              !.dispatched = FALSE, !.submitted = FALSE]
    <3>1. F[m] \in Entry
      <4>1. /\ e.tx \in Ids \cup {None} /\ e.hash \in Payloads \cup {None}
            /\ e.reimbursed \in BOOLEAN /\ 0 \in Nat
        BY <2>1, EntryFields
      <4> QED BY <2>1, <2>2, <2>5, <4>1 DEF Entry
    <3>2. F[m].tx = e.tx /\ F[m].hash = e.hash /\ F[m].reimbursed = e.reimbursed
          /\ F[m].gen = 0
      BY <2>1, <2>5 DEF Entry
    <3> QED BY <3>1, <3>2 DEF Same, e
  <2> QED BY <2>3, <2>4, <2>5
<1>3. F \in [Markets -> Entry]
  <2>1. \A m \in Markets : F[m] \in Entry
    BY <1>2 DEF Same
  <2> QED BY <2>1
<1> HIDE DEF F
<1>4. t = [mem EXCEPT !.markets = F]
  BY DEF F
<1>5. t \in State /\ t.markets = F /\ t.pending = mem.pending /\ t.disputed = mem.disputed
  BY <1>1, <1>3, <1>4 DEF State
<1> QED BY <1>2, <1>5 DEF Alike

(* Neither does dispatching a request.                                     *)
LEMMA DispatchIs ==
  ASSUME Shape, NEW s, Alike(mem, s), NEW m \in Markets, NEW t, t = Dispatch(s, m)
  PROVE  Alike(mem, t) /\ t.pending = s.pending
         /\ \A n \in Markets : t.markets[n].tx = s.markets[n].tx
<1>1. s \in State /\ s.markets \in [Markets -> Entry]
  BY StateFields DEF Alike
<1>2. published[m].request \in 0..MaxRequests
  BY DEF Shape, WorldTypes, Publication
<1> DEFINE e == s.markets[m]
           f == [e EXCEPT !.dispatched = TRUE, !.cid = published[m].request]
           F == [s.markets EXCEPT ![m] = f]
<1>3. e \in Entry
  BY <1>1
<1>4. t = [s EXCEPT !.markets = F]
  BY <1>1, <1>3 DEF Dispatch, State, Entry
<1> HIDE DEF e
<1>5. f \in Entry /\ f.tx = e.tx /\ f.hash = e.hash /\ f.reimbursed = e.reimbursed
      /\ f.gen = e.gen
  BY <1>2, <1>3 DEF Entry
<1> HIDE DEF f
<1>6. F \in [Markets -> Entry] /\ F[m] = f /\ \A n \in Markets : n # m => F[n] = s.markets[n]
  BY <1>1, <1>5
<1> HIDE DEF F
<1>7. t \in State /\ t.markets = F /\ t.pending = s.pending
  BY <1>1, <1>4, <1>6 DEF State
<1>8. \A n \in Markets : Same(mem.markets[n], F[n]) /\ F[n].tx = s.markets[n].tx
  BY <1>5, <1>6 DEF Alike, Same, e
<1> QED BY <1>7, <1>8 DEF Alike

(* The tool calls to choose from: a dispute of the pending withdrawal or   *)
(* of a live one while a market blocks it, or a request for a market that  *)
(* tracks nothing.                                                         *)
Disputes(s, t, w, blocked) ==
  /\ w \in Withdrawals /\ t.pending = w /\ t.markets = s.markets
  /\ w = s.pending \/ (w \in known /\ (blocked => \E m \in Markets : Open(m)))
Requests(s, t, id) ==
  /\ id \in Ids /\ t.pending = s.pending
  /\ t.markets[id.market].tx = None /\ t.markets[id.market].hash = None

(* The tool calls Decide chooses from are of these kinds.                  *)
LEMMA ToolCallIs ==
  ASSUME Shape, NEW s, Alike(mem, s), NEW unread, NEW c \in ToolCalls(s, unread)
  PROVE  /\ Alike(mem, c.state)
         /\ \/ c.call = None /\ c.state = s
            \/ Disputes(s, c.state, c.call, unread = {})
            \/ Requests(s, c.state, c.call)
<1>1. s \in State
  BY DEF Alike
<1>2. s.pending \in Withdrawals \cup {None} /\ s.markets \in [Markets -> Entry]
  BY <1>1, StateFields
<1>3. CASE s.pending # None
  <2>1. c = [state |-> s, call |-> s.pending]
    BY <1>3 DEF ToolCalls
  <2>2. c.state = s /\ c.call = s.pending
    BY <2>1
  <2> QED BY <1>2, <1>3, <2>2 DEF Disputes
<1>4. CASE s.pending = None /\ Violations(unread) # {}
  <2>1. PICK w \in Violations(unread) : c = [state |-> [s EXCEPT !.pending = w], call |-> w]
    BY <1>4 DEF ToolCalls
  <2>2. c.state = [s EXCEPT !.pending = w] /\ c.call = w
    BY <2>1
  <2>3. w \in known /\ w \in Withdrawals /\ Blocking(unread) # {}
    BY <2>1 DEF Violations
  <2>4. unread = {} => \E m \in Markets : Open(m)
    BY <2>3 DEF Blocking
  <2>5. c.state \in State /\ c.state.pending = w /\ c.state.markets = s.markets
    BY <1>1, <2>2, <2>3 DEF State
  <2>6. Disputes(s, c.state, c.call, unread = {})
    BY <2>2, <2>3, <2>4, <2>5 DEF Disputes
  <2>7. Alike(mem, c.state)
    BY <2>5 DEF Alike
  <2> QED BY <2>6, <2>7
<1>5. CASE s.pending = None /\ Violations(unread) = {} /\ known = {} /\ Ready(s, unread) # {}
  <2> DEFINE m == First(Ready(s, unread))
  <2>1. c = [state |-> Dispatch(s, m), call |-> RequestOf(s, m)]
    BY <1>5 DEF ToolCalls
  <2>2. c.state = Dispatch(s, m) /\ c.call = RequestOf(s, m)
    BY <2>1
  <2>3. Ready(s, unread) \subseteq Markets
    BY DEF Ready
  <2>4. \E n \in Ready(s, unread) : \A other \in Ready(s, unread) : n <= other
    <3>1. IsFiniteSet(Ready(s, unread)) /\ Ready(s, unread) \subseteq Int
      BY <2>3, ControlAssumption, FS_Subset, FS_CardinalityType
    <3> QED BY <1>5, <3>1, EndsExist
  <2>5. m \in Ready(s, unread)
    BY <2>4 DEF First
  <2> HIDE DEF m
  <2>6. /\ m \in Markets /\ published[m].request > 0
        /\ s.markets[m].tx = None /\ s.markets[m].hash = None
    BY <2>5 DEF Ready
  <2>7. Alike(mem, c.state) /\ c.state.pending = s.pending
        /\ \A n \in Markets : c.state.markets[n].tx = s.markets[n].tx
    BY <2>2, <2>6, DispatchIs
  <2>8. c.state.markets[m].hash = s.markets[m].hash
    BY <2>6, <2>7 DEF Alike, Same
  <2>9. published[m].request \in 1..MaxRequests
    <3>1. published[m].request \in 0..MaxRequests
      BY <2>6 DEF Shape, WorldTypes, Publication
    <3> QED BY <2>6, <3>1
  <2>10. s.markets[m].gen \in 0..MaxGen
    BY <2>6, AlikeGenerations
  <2>11. c.call \in Ids /\ c.call.market = m
    BY <2>2, <2>6, <2>9, <2>10 DEF RequestOf, Ids
  <2> QED BY <2>6, <2>7, <2>8, <2>11 DEF Requests
<1>6. CASE /\ s.pending = None /\ Violations(unread) = {}
           /\ ~(known = {} /\ Ready(s, unread) # {})
  <2>1. c = [state |-> s, call |-> None]
    BY <1>6 DEF ToolCalls
  <2> QED BY <2>1
<1> QED BY <1>3, <1>4, <1>5, <1>6

(* Decide: the new state in memory is like the old one, what is written is *)
(* one of the two or like them, and the call is one of those above.        *)
LEMMA DecideIs ==
  ASSUME Shape, Decide
  PROVE  /\ Alike(mem, mem') /\ (disk' = disk \/ Alike(mem, disk'))
         /\ disk'.pending \in {disk.pending, mem.pending, mem'.pending}
         /\ \/ mem'.pending = mem.pending
            \/ /\ mem'.pending \in known \cap Withdrawals
               /\ failures' = failures => \E m \in Markets : Open(m)
         /\ \/ stage' = "idle" /\ call' = None
            \/ stage' = "call" /\ call' \in Withdrawals /\ mem'.pending = call'
            \/ /\ stage' = "call" /\ call' \in Ids
               /\ mem'.markets[call'.market].tx = None
               /\ mem'.markets[call'.market].hash = None
         /\ failures' \in 0..workload.failures
<1> DEFINE synced == [mem EXCEPT !.markets = [m \in Markets |-> Synced(m)]]
           stored == IF changed \/ synced # mem THEN synced ELSE disk
<1>1. Alike(mem, synced) /\ synced.pending = mem.pending
  BY SyncedIs
<1>2. /\ stage = "decide"
      /\ \/ \E unread \in SUBSET {m \in Markets : published[m].phase = "settled"} :
              /\ Cardinality(unread) <= 1 /\ FailsIf(unread # {})
              /\ \E c \in ToolCalls(synced, unread) :
                   /\ mem' = c.state /\ call' = c.call
                   /\ disk' = IF c.call = None THEN stored ELSE c.state
                   /\ stage' = IF c.call = None THEN "idle" ELSE "call"
         \/ /\ Fails /\ mem' = synced /\ stage' = "idle"
            /\ UNCHANGED <<disk, call>>
         \/ \E c \in ToolCalls(synced, {}) :
              /\ Fails /\ mem' = c.state /\ disk' = stored /\ stage' = "idle"
              /\ UNCHANGED call
  BY DEF Decide
<1>3. call = None
  BY <1>2 DEF Shape, Stages
<1>4. stored = disk \/ stored = synced
  OBVIOUS
<1>5. failures \in Nat
  BY CountTypes
<1> HIDE DEF synced, stored
<1>6. failures' \in 0..workload.failures
  BY <1>2, FailureCount
<1>7. ASSUME NEW c, NEW unread, c \in ToolCalls(synced, unread)
      PROVE  /\ Alike(mem, c.state)
             /\ \/ c.call = None /\ c.state = synced
                \/ Disputes(synced, c.state, c.call, unread = {})
                \/ Requests(synced, c.state, c.call)
  BY <1>1, <1>7, ToolCallIs
<1>8. ASSUME NEW unread, FailsIf(unread # {}), NEW c \in ToolCalls(synced, unread),
             mem' = c.state
      PROVE  \/ mem'.pending = mem.pending
             \/ /\ mem'.pending \in known \cap Withdrawals
                /\ failures' = failures => \E m \in Markets : Open(m)
  <2>1. CASE c.call = None /\ c.state = synced
    BY <1>1, <1>8, <2>1
  <2>2. CASE Disputes(synced, c.state, c.call, unread = {})
    <3>1. failures' = failures => unread = {}
      BY <1>5, <1>8 DEF FailsIf, Fails
    <3> QED BY <1>1, <1>8, <2>2, <3>1 DEF Disputes
  <2>3. CASE Requests(synced, c.state, c.call)
    BY <1>1, <1>8, <2>3 DEF Requests
  <2> QED BY <1>7, <1>8, <2>1, <2>2, <2>3
<1>9. CASE \E unread \in SUBSET {m \in Markets : published[m].phase = "settled"} :
              /\ Cardinality(unread) <= 1 /\ FailsIf(unread # {})
              /\ \E c \in ToolCalls(synced, unread) :
                   /\ mem' = c.state /\ call' = c.call
                   /\ disk' = IF c.call = None THEN stored ELSE c.state
                   /\ stage' = IF c.call = None THEN "idle" ELSE "call"
  <2>1. PICK unread : /\ FailsIf(unread # {})
                      /\ \E c \in ToolCalls(synced, unread) :
                           /\ mem' = c.state /\ call' = c.call
                           /\ disk' = IF c.call = None THEN stored ELSE c.state
                           /\ stage' = IF c.call = None THEN "idle" ELSE "call"
    BY <1>9
  <2>2. PICK c \in ToolCalls(synced, unread) :
           /\ mem' = c.state /\ call' = c.call
           /\ disk' = IF c.call = None THEN stored ELSE c.state
           /\ stage' = IF c.call = None THEN "idle" ELSE "call"
    BY <2>1
  <2>3. /\ Alike(mem, c.state)
        /\ \/ c.call = None /\ c.state = synced
           \/ Disputes(synced, c.state, c.call, unread = {})
           \/ Requests(synced, c.state, c.call)
    BY <1>7, <2>2
  <2>4. Alike(mem, mem') /\ disk' \in {disk, synced, mem'}
    BY <1>4, <2>2, <2>3
  <2>5. \/ mem'.pending = mem.pending
        \/ /\ mem'.pending \in known \cap Withdrawals
           /\ failures' = failures => \E m \in Markets : Open(m)
    BY <1>8, <2>1, <2>2
  <2>6. \/ stage' = "idle" /\ call' = None
        \/ stage' = "call" /\ call' \in Withdrawals /\ mem'.pending = call'
        \/ /\ stage' = "call" /\ call' \in Ids
           /\ mem'.markets[call'.market].tx = None
           /\ mem'.markets[call'.market].hash = None
    <3>1. CASE c.call = None
      BY <2>2, <3>1
    <3>2. CASE Disputes(synced, c.state, c.call, unread = {})
      BY <2>2, <3>2, ControlAssumption DEF Disputes
    <3>3. CASE Requests(synced, c.state, c.call)
      BY <2>2, <3>3, CallsApart DEF Requests
    <3> QED BY <2>3, <3>1, <3>2, <3>3
  <2> QED BY <1>1, <1>6, <2>4, <2>5, <2>6
<1>10. CASE Fails /\ mem' = synced /\ stage' = "idle" /\ UNCHANGED <<disk, call>>
  BY <1>1, <1>3, <1>6, <1>10
<1>11. CASE \E c \in ToolCalls(synced, {}) :
              /\ Fails /\ mem' = c.state /\ disk' = stored /\ stage' = "idle"
              /\ UNCHANGED call
  <2>1. PICK c \in ToolCalls(synced, {}) :
              /\ Fails /\ mem' = c.state /\ disk' = stored /\ stage' = "idle"
              /\ UNCHANGED call
    BY <1>11
  <2>2. Alike(mem, mem') /\ disk' \in {disk, synced}
    BY <1>4, <1>7, <2>1
  <2>3. \/ mem'.pending = mem.pending
        \/ mem'.pending \in known \cap Withdrawals
    <3>1. \/ c.call = None /\ c.state = synced
          \/ Disputes(synced, c.state, c.call, {} = {})
          \/ Requests(synced, c.state, c.call)
      BY <1>7, <2>1
    <3> QED BY <1>1, <2>1, <3>1 DEF Disputes, Requests
  <2>4. failures' # failures
    BY <1>5, <2>1 DEF Fails
  <2> QED BY <1>1, <1>3, <1>6, <2>1, <2>2, <2>3, <2>4
<1> QED BY <1>2, <1>9, <1>10, <1>11

(* Output gives the entry of the market that was called the transaction    *)
(* and the hash of the answer, and nothing else a transaction or a hash.   *)
OutputEntry(e, f, a) ==
  /\ f \in Entry /\ f.gen = e.gen /\ f.reimbursed = e.reimbursed
  /\ f.tx = IF a.kind = "sent" THEN a.tx ELSE e.tx
  /\ f.hash = IF a.kind = "sent" /\ a.hash # None THEN a.hash ELSE e.hash

(* What an answer does to the state of the node.                           *)
LEMMA DigestIs ==
  ASSUME NEW s \in State, NEW a \in Answer, NEW t, t = Digest(s, a),
         call \in Ids \cup Withdrawals, call \in Withdrawals /\ a.kind = "sent" => s.pending # None
  PROVE  /\ t \in State /\ t.pending \in {s.pending, None}
         /\ a.kind # "sent" => t.pending = s.pending
         /\ \A m \in Markets : IF call \in Ids /\ m = call.market
                               THEN OutputEntry(s.markets[m], t.markets[m], a)
                               ELSE t.markets[m] = s.markets[m]
<1>1. s.markets \in [Markets -> Entry] /\ s.pending \in Withdrawals \cup {None}
  BY StateFields
<1>2. CASE call \in Ids
  <2> DEFINE n == call.market
             f == Digested(s.markets[n], a)
             F == [s.markets EXCEPT ![n] = f]
  <2>1. n \in Markets
    BY <1>2, HashTypes
  <2>2. OutputEntry(s.markets[n], f, a)
    BY <1>1, <2>1, DigestedEntry DEF OutputEntry
  <2>3. t = [s EXCEPT !.markets = F]
    BY <1>2, <2>1 DEF Digest, State
  <2>4. f \in Entry
    BY <2>2 DEF OutputEntry
  <2> HIDE DEF f, n
  <2>5. F \in [Markets -> Entry] /\ F[n] = f /\ \A m \in Markets : m # n => F[m] = s.markets[m]
    BY <1>1, <2>1, <2>4
  <2> HIDE DEF F
  <2>6. t \in State /\ t.pending = s.pending /\ t.markets = F
    BY <2>3, <2>5 DEF State
  <2>7. ASSUME NEW m \in Markets
        PROVE  IF m = n THEN OutputEntry(s.markets[m], t.markets[m], a)
               ELSE t.markets[m] = s.markets[m]
    <3>1. CASE m = n
      <4>1. t.markets[m] = f
        BY <2>5, <2>6, <3>1
      <4> QED BY <2>2, <3>1, <4>1
    <3>2. CASE m # n
      BY <2>5, <2>6, <3>2
    <3> QED BY <3>1, <3>2
  <2>8. n = call.market
    BY DEF n
  <2> QED BY ONLY <1>2, <2>6, <2>7, <2>8
<1>3. CASE call \notin Ids /\ a.kind = "sent"
  <2>1. t = [s EXCEPT !.disputed = @ \cup {s.pending}, !.pending = None]
    BY <1>3 DEF Digest
  <2>2. s.pending \in Withdrawals
    BY <1>1, <1>3
  <2>3. t \in State /\ t.pending = None /\ t.markets = s.markets
    BY <2>1, <2>2 DEF State
  <2> QED BY <1>3, <2>3
<1>4. CASE call \notin Ids /\ a.kind # "sent"
  <2>1. t = s
    BY <1>4 DEF Digest
  <2> QED BY <1>4, <2>1
<1> QED BY <1>2, <1>3, <1>4

(* Output, as far as the entries and the persisted state go.               *)
LEMMA OutputIs ==
  ASSUME Shape, Output
  PROVE  /\ call \in Ids \cup Withdrawals /\ answer \in Answer
         /\ mem' \in State /\ mem'.pending \in {mem.pending, None} /\ disk' \in {disk, mem'}
         /\ \A m \in Markets : IF call \in Ids /\ m = call.market
                               THEN OutputEntry(mem.markets[m], mem'.markets[m], answer)
                               ELSE mem'.markets[m] = mem.markets[m]
         /\ failures' \in 0..workload.failures
<1> DEFINE first == Digest(mem, answer)
           again == Digest(first, Failed)
<1>1. stage = "output" /\ mem \in State /\ mem.pending \in Withdrawals \cup {None}
  BY StateFields DEF Output, Shape, NodeTypes
<1>2. call # None /\ answer # None /\ (call \in Withdrawals => mem.pending = call)
  BY <1>1 DEF Shape, Stages
<1>3. call \in Ids \cup Withdrawals /\ answer \in Answer
  BY <1>2 DEF Shape, NodeTypes
<1>4. Failed \in Answer /\ Failed.kind = "failed"
  BY DEF Failed, Answer
<1>5. /\ first \in State /\ first.pending \in {mem.pending, None}
      /\ \A m \in Markets : IF call \in Ids /\ m = call.market
                            THEN OutputEntry(mem.markets[m], first.markets[m], answer)
                            ELSE first.markets[m] = mem.markets[m]
  BY <1>1, <1>2, <1>3, DigestIs
<1>6. \/ /\ NoFailure /\ mem' = first
         /\ disk' = IF call \in Withdrawals /\ answer.kind = "failed" THEN disk ELSE first
      \/ /\ Fails /\ mem' = again
         /\ disk' \in {disk} \cup (IF call \in Ids THEN {again} ELSE {})
  BY DEF Output
<1>7. failures' \in 0..workload.failures
  BY <1>6, FailureCount
<1> HIDE DEF first
<1>8. /\ again \in State /\ again.pending = first.pending
      /\ \A m \in Markets : IF call \in Ids /\ m = call.market
                            THEN OutputEntry(first.markets[m], again.markets[m], Failed)
                            ELSE again.markets[m] = first.markets[m]
  BY <1>3, <1>4, <1>5, DigestIs
<1> HIDE DEF again
<1>9. \A m \in Markets : IF call \in Ids /\ m = call.market
                         THEN OutputEntry(mem.markets[m], again.markets[m], answer)
                         ELSE again.markets[m] = mem.markets[m]
  BY <1>4, <1>5, <1>8 DEF OutputEntry
<1>10. mem' = first \/ mem' = again
  BY <1>6
<1>11. disk' \in {disk, mem'}
  BY <1>6
<1> QED BY <1>3, <1>5, <1>7, <1>8, <1>9, <1>10, <1>11

-----------------------------------------------------------------------------
(* The shape is kept by the loop and by a crash.                           *)
LEMMA LoopShape ==
  ASSUME Shape, Refresh \/ Decide \/ Publish \/ Dispute \/ Output
  PROVE  Shape'
<1>1. /\ WorldTypes /\ LogTypes /\ NodeTypes /\ Stages
  BY DEF Shape
<1>2. MaxGeneration \in Nat
  BY GenerationsEnd
<1>3. \A m \in Markets : /\ Within(mem.markets[m], MaxGeneration)
                         /\ Within(disk.markets[m], MaxGeneration)
  BY DEF Shape, Generations
<1>4. CASE Refresh
  <2>1. /\ mem' \in State /\ mem'.pending = mem.pending
        /\ failures' \in 0..workload.failures
        /\ \A m \in Markets : RefreshedEntry(mem.markets[m], mem'.markets[m])
    BY <1>4, RefreshIs
  <2>2. /\ stage = "refresh" /\ stage' = "decide" /\ changed' = (changed \/ mem' # mem)
        /\ UNCHANGED <<disk, cursor, known, call, answer, log, txs, published, archived, violating, workload, crashes, deletions>>
    BY <1>4 DEF Refresh, chainVars, worldVars
  <2>3. WorldTypes' /\ LogTypes' /\ Deletions' = Deletions /\ Scanned' = Scanned
    BY <1>1, <2>2 DEF WorldTypes, LogTypes, Deletions, Scanned
  <2>4. NodeTypes' /\ Stages'
    BY <1>1, <2>1, <2>2 DEF NodeTypes, Stages
  <2>5. \A m \in Markets : Within(mem'.markets[m], MaxGeneration)
                           /\ Within(disk'.markets[m], MaxGeneration)
    BY <1>3, <2>1, <2>2 DEF Within, RefreshedEntry
  <2> QED BY <2>1, <2>2, <2>3, <2>4, <2>5, Assembled
<1>5. CASE Decide
  <2>1. /\ Alike(mem, mem') /\ (disk' = disk \/ Alike(mem, disk'))
        /\ \/ stage' = "idle" /\ call' = None
           \/ stage' = "call" /\ call' \in Withdrawals /\ mem'.pending = call'
           \/ stage' = "call" /\ call' \in Ids
        /\ failures' \in 0..workload.failures
    BY <1>5, DecideIs
  <2>2. /\ stage = "decide" /\ changed' = FALSE
        /\ UNCHANGED <<cursor, known, answer, log, txs, published, archived, violating, workload, crashes, deletions>>
    BY <1>5 DEF Decide, chainVars, worldVars
  <2>3. WorldTypes' /\ LogTypes' /\ Deletions' = Deletions /\ Scanned' = Scanned
    BY <1>1, <2>2 DEF WorldTypes, LogTypes, Deletions, Scanned
  <2>4. mem' \in State /\ disk' \in State
    BY <1>1, <2>1 DEF Alike, NodeTypes
  <2>5. NodeTypes'
    BY <1>1, <2>1, <2>2, <2>4 DEF NodeTypes
  <2>6. Stages'
    BY <1>1, <2>1, <2>2, CallsApart, ControlAssumption DEF Stages
  <2>7. \A m \in Markets : Within(mem'.markets[m], MaxGeneration)
                           /\ Within(disk'.markets[m], MaxGeneration)
    BY <1>3, <2>1, AlikeGenerations
  <2> QED BY <2>1, <2>2, <2>3, <2>5, <2>6, <2>7, Assembled
<1>6. CASE Output
  <2>1. /\ mem' \in State /\ disk' \in {disk, mem'}
        /\ \A m \in Markets : IF call \in Ids /\ m = call.market
                              THEN OutputEntry(mem.markets[m], mem'.markets[m], answer)
                              ELSE mem'.markets[m] = mem.markets[m]
        /\ failures' \in 0..workload.failures
    BY <1>6, OutputIs
  <2>2. /\ stage' = "idle" /\ call' = None /\ answer' = None
        /\ UNCHANGED <<cursor, known, changed, log, txs, published, archived, violating, workload, crashes, deletions>>
    BY <1>6 DEF Output, chainVars, worldVars
  <2>3. WorldTypes' /\ LogTypes' /\ Deletions' = Deletions /\ Scanned' = Scanned
    BY <1>1, <2>2 DEF WorldTypes, LogTypes, Deletions, Scanned
  <2>4. NodeTypes' /\ Stages'
    BY <1>1, <2>1, <2>2, ControlAssumption DEF NodeTypes, Stages
  <2>5. \A m \in Markets : Within(mem'.markets[m], MaxGeneration)
                           /\ Within(disk'.markets[m], MaxGeneration)
    BY <1>3, <2>1 DEF Within, OutputEntry
  <2> QED BY <2>1, <2>2, <2>3, <2>4, <2>5, Assembled
<1>7. CASE Publish
  <2>1. /\ stage = "call" /\ call \in Ids /\ stage' = "output"
        /\ UNCHANGED <<mem, disk, cursor, known, call, changed, published, violating, workload, crashes, deletions>>
    BY <1>7 DEF Publish, PublishRefused, PublishSkipped, PublishSent, PublishUnclear, Answers
  <2>2. failures' \in 0..workload.failures
    <3>1. \E b : Fails \/ NoFailure \/ FailsIf(b)
      BY <1>7 DEF Publish, PublishRefused, PublishSkipped, PublishSent, PublishUnclear
    <3> QED BY <3>1, FailureCount
  <2>3. answer' \in Answer
    <3>1. HashOf(call) \in Payloads
      BY <2>1, HashTypes
    <3>2. PICK kind \in {"sent", "skipped", "uncertain", "failed"}, tx \in Ids \cup {None},
               hash \in Payloads \cup {None} : answer' = [kind |-> kind, tx |-> tx, hash |-> hash]
      BY <1>7, <2>1, <3>1 DEF Publish, PublishRefused, PublishSkipped, PublishSent,
                              PublishUnclear, Answers
    <3> QED BY <3>2 DEF Answer
  <2>4. answer' # None
    BY <2>3, CallsApart
  <2>5. archived' \subseteq Ids
    BY <1>1, <1>7, <2>1 DEF Publish, PublishRefused, PublishSkipped, PublishSent,
                            PublishUnclear, Archive, WorldTypes
  <2>6. /\ txs' \in [Ids -> {"none", "pool", "mined", "reverted"}]
        /\ log' = log \/ log' = Event("proposed", HashOf(call), call.market)
    <3>1. \/ UNCHANGED chainVars \/ ToPool(call) \/ ToChain(call)
      BY <1>7 DEF Publish, PublishRefused, PublishSkipped, PublishSent, PublishUnclear
    <3>2. CASE UNCHANGED chainVars
      BY <1>1, <3>2 DEF chainVars, WorldTypes
    <3>3. CASE ToPool(call)
      BY <1>1, <3>3 DEF ToPool, WorldTypes
    <3>4. CASE ToChain(call)
      BY <2>1, <3>4, MinedTypes DEF ToChain, Proposed
    <3> QED BY <3>1, <3>2, <3>3, <3>4
  <2>7. HashOf(call) \in Hashes /\ call.market \in Markets \cup {None}
    BY <2>1, HashTypes
  <2>8. LogTypes' /\ Deletions' = Deletions /\ Scanned' = Scanned
    <3>1. CASE log' = log
      BY <1>1, <2>1, <3>1 DEF LogTypes, Deletions, Scanned
    <3>2. CASE log' = Event("proposed", HashOf(call), call.market)
      BY <1>1, <2>1, <2>7, <3>2, EventLog
    <3> QED BY <2>6, <3>1, <3>2
  <2>9. WorldTypes'
    BY <1>1, <2>1, <2>5, <2>6 DEF WorldTypes
  <2>10. NodeTypes' /\ Stages'
    <3>1. call # None
      BY <2>1, CallsApart
    <3> QED BY <1>1, <2>1, <2>3, <2>4, <3>1 DEF NodeTypes, Stages
  <2>11. \A m \in Markets : Within(mem'.markets[m], MaxGeneration)
                            /\ Within(disk'.markets[m], MaxGeneration)
    BY <1>3, <2>1
  <2> QED BY <2>1, <2>2, <2>8, <2>9, <2>10, <2>11, Assembled
<1>8. CASE Dispute
  <2>1. /\ stage = "call" /\ call \in Withdrawals
        /\ call' = IF stage' = "idle" THEN None ELSE call
        /\ UNCHANGED <<mem, disk, cursor, known, changed, txs, published, archived, violating, workload, crashes, deletions>>
    BY <1>8 DEF Dispute, worldVars
  <2>2. failures' \in 0..workload.failures
    <3>1. \E b : Fails \/ NoFailure \/ FailsIf(b)
      BY <1>8 DEF Dispute, DisputeSent, DisputeRefused, DisputeLost, DisputeNotRun
    <3> QED BY <3>1, FailureCount
  <2>3. call # None /\ answer = None /\ call \in Hashes /\ call \notin Payloads
    BY <1>1, <2>1, ControlAssumption DEF Stages, Hashes
  <2>4. \/ stage' = "output" /\ answer' \in Answer /\ answer' # None
        \/ stage' = "idle" /\ answer' = None
    <3>1. \/ stage' = "idle" /\ answer' = answer
          \/ stage' = "output" /\ \E kind \in {"sent", "failed"} :
                answer' = [kind |-> kind, tx |-> None, hash |-> None]
      BY <1>8 DEF Dispute, DisputeSent, DisputeRefused, DisputeLost, DisputeNotRun, Answers
    <3>2. \A kind \in {"sent", "failed"} : [kind |-> kind, tx |-> None, hash |-> None] \in Answer
      BY DEF Answer
    <3> QED BY <2>3, <3>1, <3>2, CallsApart
  <2>5. log' = log \/ log' = Event("deleted", call, None)
    BY <1>8 DEF Dispute, DisputeSent, DisputeRefused, DisputeLost, DisputeNotRun
  <2>6. LogTypes' /\ Deletions' = Deletions /\ Scanned' = Scanned
    <3>1. CASE log' = log
      BY <1>1, <2>1, <3>1 DEF LogTypes, Deletions, Scanned
    <3>2. CASE log' = Event("deleted", call, None)
      BY <1>1, <2>1, <2>3, <3>2, EventLog
    <3> QED BY <2>5, <3>1, <3>2
  <2>7. WorldTypes'
    BY <1>1, <2>1 DEF WorldTypes
  <2>8. NodeTypes' /\ Stages'
    BY <1>1, <2>1, <2>3, <2>4, ControlAssumption DEF NodeTypes, Stages
  <2>9. \A m \in Markets : Within(mem'.markets[m], MaxGeneration)
                           /\ Within(disk'.markets[m], MaxGeneration)
    BY <1>3, <2>1
  <2> QED BY <2>1, <2>2, <2>6, <2>7, <2>8, <2>9, Assembled
<1> QED BY <1>4, <1>5, <1>6, <1>7, <1>8

(* A restart may scan every deletion once more.                            *)
LEMMA CrashShape ==
  ASSUME Shape, Crash
  PROVE  Shape'
<1>1. /\ crashes < workload.crashes /\ crashes' = crashes + 1
      /\ mem' = disk /\ cursor' = 0 /\ known' = {} /\ changed' = FALSE
      /\ stage' = "idle" /\ call' = None /\ answer' = None
      /\ UNCHANGED <<disk, log, txs, published, archived, violating, workload, failures, deletions>>
  BY DEF Crash, chainVars, worldVars
<1>2. WorldTypes'
  BY <1>1 DEF Shape, WorldTypes
<1>3. Len(log) \in Nat /\ DOMAIN log = 1..Len(log)
  BY DEF Shape, LogTypes
<1>4. LogTypes' /\ Deletions' = Deletions
  BY <1>1, <1>3 DEF Shape, LogTypes, Deletions
<1>5. NodeTypes' /\ Stages'
  BY <1>1, ControlAssumption DEF Shape, NodeTypes, Stages
<1>6. Counts'
  BY <1>1, <1>4, CountTypes DEF Shape, Counts
<1>7. Cardinality(Scanned) \in Nat /\ Cardinality(Scanned) <= deletions
  BY DeletionsFinite, CountTypes DEF Shape, Counts
<1>8. MaxGeneration' = (crashes + 1) * deletions
  <2>1. Scanned' = {}
    BY <1>1, <1>3, <1>4 DEF Scanned, Deletions
  <2>2. (crashes + 1) * deletions + 0 = (crashes + 1) * deletions
    BY CountTypes
  <2> QED BY <1>1, <2>1, <2>2, FS_EmptySet DEF MaxGeneration
<1>9. (crashes + 1) * deletions = crashes * deletions + deletions
  BY CountTypes
<1>10. MaxGeneration <= MaxGeneration' /\ MaxGeneration \in Nat /\ MaxGeneration' \in Nat
  BY <1>7, <1>8, <1>9, CountTypes DEF MaxGeneration
<1>11. \A m \in Markets : disk.markets[m].gen \in Nat
  BY EntriesWithin, EntryFields
<1>12. Generations'
  BY <1>1, <1>10, <1>11 DEF Shape, Generations, Within
<1> QED BY <1>2, <1>4, <1>5, <1>6, <1>12 DEF Shape

(* The initial states have the shape.                                      *)
LEMMA InitShape ==
  ASSUME Init
  PROVE  Shape
<1>1. /\ published = [m \in Markets |-> [phase |-> "none", request |-> 0, latest |-> FALSE]]
      /\ log = <<>> /\ txs = [id \in Ids |-> "none"]
      /\ archived = {} /\ violating = {}
      /\ mem = NoState /\ disk = NoState /\ cursor = 0 /\ known = {}
      /\ stage = "idle" /\ call = None /\ answer = None /\ changed = FALSE
      /\ workload \in Workloads /\ failures = 0 /\ crashes = 0 /\ deletions = 0
  BY DEF Init
<1>2. MaxRequests \in Nat
  BY ControlAssumption
<1>3. WorldTypes
  BY <1>1, <1>2 DEF WorldTypes, Publication
<1>4. LogTypes /\ Len(log) = 0 /\ DOMAIN log = {}
  BY <1>1 DEF LogTypes
<1>5. NoEntry \in Entry
  BY <1>2 DEF NoEntry, Entry
<1>6. NoState \in State
  BY <1>5 DEF NoState, State
<1>7. NodeTypes /\ Stages
  BY <1>1, <1>6, ControlAssumption DEF NodeTypes, Stages
<1>8. Deletions = {} /\ Scanned = {} /\ Cardinality({}) = 0
  BY <1>4, FS_EmptySet DEF Deletions, Scanned
<1>9. workload.failures \in Nat /\ workload.crashes \in Nat /\ workload.deletions \in Nat
  BY <1>1, WorkloadFields
<1>10. Counts
  BY <1>1, <1>8, <1>9 DEF Counts
<1>11. MaxGeneration = 0
  BY <1>1, <1>8 DEF MaxGeneration
<1>12. \A m \in Markets : mem.markets[m].gen = 0 /\ disk.markets[m].gen = 0
  BY <1>1 DEF NoState, NoEntry
<1>13. Generations
  BY <1>11, <1>12 DEF Generations, Within
<1> QED BY <1>3, <1>4, <1>7, <1>10, <1>13 DEF Shape

(* Every step keeps it.                                                    *)
LEMMA ShapeStep ==
  ASSUME Shape, [Next]_vars
  PROVE  Shape'
<1>1. CASE Next
  BY <1>1, PollShape, LoopShape, ChainShape, AgentShape, CrashShape DEF Next, Loop
<1>2. CASE UNCHANGED vars
  <2>1. /\ UNCHANGED <<mem, disk, cursor, known, stage, call, answer, changed>>
        /\ UNCHANGED <<log, txs, published, archived, violating>>
        /\ UNCHANGED <<workload, failures, crashes, deletions>>
    BY <1>2 DEF vars, nodeVars, chainVars, worldVars, bounds
  <2>2. WorldTypes' /\ UNCHANGED nodeVars /\ UNCHANGED bounds
    BY <2>1 DEF Shape, WorldTypes, nodeVars, bounds
  <2> QED BY <2>1, <2>2, OutsideShape
<1> QED BY <1>1, <1>2

(* So every reachable state has it.                                        *)
LEMMA ShapeAlways == Spec => []Shape
BY InitShape, ShapeStep, PTL DEF Spec

(* Every variable keeps its type, whatever fails: in particular the retry  *)
(* generation of an entry, raised by every deletion the node scans and     *)
(* persisted over restarts that scan the history again, stays within what  *)
(* the requests of the proposal node are identified by.                    *)
THEOREM ControlTypes == Spec => []TypeOK
<1>1. Shape => TypeOK
  <2> SUFFICES ASSUME Shape PROVE TypeOK
    OBVIOUS
  <2>1. \A m \in Markets : \A e \in {mem.markets[m], disk.markets[m]} : e.gen <= MaxGen
    BY EntriesWithin
  <2> QED BY <2>1 DEF TypeOK, Shape, WorldTypes, LogTypes, NodeTypes, Counts, Publication, LogEvent
<1> QED BY <1>1, ShapeAlways, PTL
-----------------------------------------------------------------------------
(* Disputes.                                                               *)

(* What a new event changes about the proposals.                           *)
LEMMA LogGrows ==
  ASSUME LogTypes, NEW kind \in {"proposed", "executed", "deleted"}, NEW h \in Hashes,
         NEW m \in Markets \cup {None}, log' = Event(kind, h, m)
  PROVE  /\ Len(log) \in Nat /\ DOMAIN log = 1..Len(log) /\ DOMAIN log' = 1..Len(log) + 1
         /\ Len(log') = Len(log) + 1
         /\ log'[Len(log) + 1] = [kind |-> kind, hash |-> h, market |-> m]
         /\ \A i \in 1..Len(log) : log'[i] = log[i]
         /\ \A g : EventsOf(g)' = IF g = h THEN EventsOf(g) \cup {Len(log) + 1} ELSE EventsOf(g)
         /\ \A g : Live(g)' <=> IF g = h THEN kind = "proposed" ELSE Live(g)
         /\ Latest(EventsOf(h)') = Len(log) + 1
<1> DEFINE x == [kind |-> kind, hash |-> h, market |-> m]
<1>1. x \in LogEvent /\ log' = Append(log, x) /\ log \in Seq(LogEvent)
      /\ x.hash = h /\ x.kind = kind
  BY DEF LogEvent, Event, LogTypes
<1>2. \A g : /\ EventsOf(g) = At(log, g) /\ (Live(g) <=> LiveAt(log, g))
             /\ EventsOf(g)' = At(log', g) /\ (Live(g)' <=> LiveAt(log', g))
  BY DEF EventsOf, At, Live, LiveAt
<1> HIDE DEF x
<1>3. PICK l \in Seq(LogEvent) : l = log
  BY <1>1
<1>4. PICK t : t = log' /\ t = Append(l, x)
  BY <1>1, <1>3
<1>5. GrownTo(l, t, x)
  BY <1>1, <1>3, <1>4, Grown
<1>6. /\ Len(log) \in Nat /\ Len(log') = Len(log) + 1
      /\ DOMAIN log = 1..Len(log) /\ DOMAIN log' = 1..Len(log) + 1
      /\ log'[Len(log) + 1] = x /\ \A i \in 1..Len(log) : log'[i] = log[i]
      /\ \A g : At(log', g) = IF x.hash = g THEN At(log, g) \cup {Len(log) + 1} ELSE At(log, g)
      /\ \A g : LiveAt(log', g) <=> IF x.hash = g THEN x.kind = "proposed" ELSE LiveAt(log, g)
      /\ Latest(At(log', x.hash)) = Len(log) + 1
  BY ONLY <1>3, <1>4, <1>5 DEF GrownTo
<1> QED BY <1>1, <1>2, <1>6 DEF x

(* The new event has a place of its own.                                   *)
Placed(k, kind, h, m) ==
  /\ DOMAIN log' = DOMAIN log \cup {k} /\ k \notin DOMAIN log
  /\ log'[k].kind = kind /\ log'[k].hash = h /\ log'[k].market = m
  /\ \A i \in DOMAIN log : log'[i] = log[i]

(* A new event is put at a place the log did not have.                     *)
LEMMA NewPlace ==
  ASSUME LogTypes, NEW kind \in {"proposed", "executed", "deleted"}, NEW h \in Hashes,
         NEW m \in Markets \cup {None}, log' = Event(kind, h, m)
  PROVE  \E k : Placed(k, kind, h, m)
<1>1. /\ Len(log) \in Nat /\ DOMAIN log = 1..Len(log) /\ DOMAIN log' = 1..Len(log) + 1
      /\ log'[Len(log) + 1] = [kind |-> kind, hash |-> h, market |-> m]
      /\ \A i \in 1..Len(log) : log'[i] = log[i]
  BY LogGrows
<1>2. PICK n \in Nat : n = Len(log)
  BY <1>1
<1>3. DOMAIN log = 1..n /\ DOMAIN log' = 1..n + 1
  BY <1>1, <1>2
<1>4. DOMAIN log' = DOMAIN log \cup {n + 1} /\ n + 1 \notin DOMAIN log
  BY ONLY <1>2, <1>3
<1>5. log'[n + 1] = [kind |-> kind, hash |-> h, market |-> m]
  BY <1>1, <1>2
<1>6. log'[n + 1].kind = kind /\ log'[n + 1].hash = h /\ log'[n + 1].market = m
  BY <1>5
<1>7. \A i \in DOMAIN log : log'[i] = log[i]
  BY <1>1
<1>8. Placed(n + 1, kind, h, m)
  BY <1>4, <1>6, <1>7 DEF Placed
<1> QED BY <1>8

(* A withdrawal that is live while a market is open counts as violating,   *)
(* what the node knows was proposed, and a withdrawal it disputes or has   *)
(* persisted for a dispute is not a live innocent one.                     *)
AnyOpen == \E m \in Markets : Open(m)
Blocked == \A w \in Withdrawals : Live(w) /\ AnyOpen => w \in violating
Known == \A h \in known : EventsOf(h) # {}
Guilty(w) == EventsOf(w) # {} /\ (Live(w) => w \in violating)
Accused == failures = 0 => \A w \in {mem.pending, disk.pending} \cap Withdrawals : Guilty(w)
Courts == Blocked /\ Known /\ Accused

(* What a step has to show about withdrawals: nothing becomes live but by  *)
(* a proposal, and only live withdrawals come to be disputed.              *)
LEMMA CourtsKept ==
  ASSUME Courts, Blocked', Known', failures' = 0 => failures = 0,
         violating \subseteq violating',
         \A w \in Withdrawals : EventsOf(w) # {} =>
            EventsOf(w)' # {} /\ (Live(w)' => Live(w)),
         failures' = 0 =>
           \A w \in {mem'.pending, disk'.pending} \cap Withdrawals :
             w \in {mem.pending, disk.pending} \/ (w \in known /\ AnyOpen)
  PROVE  Courts'
<1>1. ASSUME failures' = 0, NEW w \in Withdrawals, w \in {mem'.pending, disk'.pending}
      PROVE  Guilty(w)'
  <2>1. failures = 0
    BY <1>1
  <2>2. EventsOf(w) # {} /\ (Live(w) => w \in violating)
    <3>1. CASE w \in {mem.pending, disk.pending}
      BY <2>1, <3>1 DEF Courts, Accused, Guilty
    <3>2. CASE w \in known /\ AnyOpen
      BY <3>2 DEF Courts, Known, Blocked
    <3> QED BY <1>1, <3>1, <3>2
  <2>3. EventsOf(w)' # {} /\ (Live(w)' => Live(w))
    BY <2>2
  <2> QED BY <2>2, <2>3 DEF Guilty
<1>2. Accused'
  BY <1>1 DEF Accused
<1> QED BY <1>2 DEF Courts

(* Steps that leave the chain and the publications alone.                  *)
LEMMA CourtsOfNode ==
  ASSUME Shape, Courts, UNCHANGED <<log, published, violating>>,
         failures' = 0 => failures = 0,
         known' \subseteq known \cup {log[i].hash : i \in DOMAIN log},
         failures' = 0 =>
           \A w \in {mem'.pending, disk'.pending} \cap Withdrawals :
             w \in {mem.pending, disk.pending} \/ (w \in known /\ AnyOpen)
  PROVE  Courts'
<1>1. \A h : EventsOf(h)' = EventsOf(h) /\ (Live(h)' <=> Live(h))
  BY DEF EventsOf, Live
<1>2. AnyOpen' <=> AnyOpen
  BY DEF AnyOpen, Open
<1>3. Blocked'
  BY <1>1, <1>2 DEF Courts, Blocked
<1>4. \A i \in DOMAIN log : EventsOf(log[i].hash) # {}
  BY DEF EventsOf
<1>5. Known'
  <2>1. \A h \in known' : EventsOf(h) # {}
    BY <1>4 DEF Courts, Known
  <2> QED BY <1>1, <2>1 DEF Known
<1> QED BY <1>1, <1>3, <1>5, CourtsKept

(* Steps that append an event and leave the node alone.                    *)
LEMMA CourtsOfChain ==
  ASSUME Shape, Courts, NEW kind \in {"proposed", "executed", "deleted"}, NEW h \in Hashes,
         NEW m \in Markets \cup {None}, log' = Event(kind, h, m),
         UNCHANGED <<mem, disk, known, published>>, failures' = 0 => failures = 0,
         violating \subseteq violating',
         kind = "proposed" =>
            h \in Payloads \/ (EventsOf(h) = {} /\ (AnyOpen => h \in violating'))
  PROVE  Courts'
<1>1. /\ \A g : EventsOf(g)' = IF g = h THEN EventsOf(g) \cup {Len(log) + 1} ELSE EventsOf(g)
      /\ \A g : Live(g)' <=> IF g = h THEN kind = "proposed" ELSE Live(g)
  BY LogGrows DEF Shape
<1>2. \A g : EventsOf(g) # {} => EventsOf(g)' # {}
  BY <1>1
<1>3. AnyOpen' <=> AnyOpen
  BY DEF AnyOpen, Open
<1>4. h \in Payloads => h \notin Withdrawals
  BY ControlAssumption
<1>5. \A w \in Withdrawals : EventsOf(w) # {} => (Live(w)' => Live(w))
  <2>1. ASSUME NEW w \in Withdrawals, EventsOf(w) # {}, Live(w)' PROVE Live(w)
    <3>1. CASE w = h
      <4>1. kind = "proposed"
        BY <1>1, <2>1, <3>1
      <4> QED BY <1>4, <2>1, <3>1, <4>1
    <3>2. CASE w # h
      BY <1>1, <2>1, <3>2
    <3> QED BY <3>1, <3>2
  <2> QED BY <2>1
<1>6. Blocked'
  <2>1. ASSUME NEW w \in Withdrawals, Live(w)', AnyOpen' PROVE w \in violating'
    <3>1. CASE w = h
      <4>1. kind = "proposed"
        BY <1>1, <2>1, <3>1
      <4> QED BY <1>3, <1>4, <2>1, <3>1, <4>1
    <3>2. CASE w # h
      <4>1. Live(w)
        BY <1>1, <2>1, <3>2
      <4> QED BY <1>3, <2>1, <4>1 DEF Courts, Blocked
    <3> QED BY <3>1, <3>2
  <2> QED BY <2>1 DEF Blocked
<1>7. Known'
  BY <1>2 DEF Courts, Known
<1> QED BY <1>2, <1>5, <1>6, <1>7, CourtsKept

(* A step adds no failure or one.                                          *)
LEMMA FailureOnce ==
  ASSUME Shape, NEW b, Fails \/ NoFailure \/ FailsIf(b)
  PROVE  failures' = 0 => failures = 0
<1>1. failures \in Nat
  BY CountTypes
<1> QED BY <1>1 DEF Fails, NoFailure, FailsIf

(* Every step keeps what is known about withdrawals.                       *)
LEMMA CourtsStep ==
  ASSUME Shape, Courts, [Next]_vars
  PROVE  Courts'
<1>1. LogTypes /\ WorldTypes
  BY DEF Shape
<1>2. None \notin Withdrawals
  BY ControlAssumption
<1>3. CASE Poll
  <2>1. /\ \E b : Fails \/ NoFailure \/ FailsIf(b)
        /\ known' \subseteq known \cup {log[i].hash : i \in DOMAIN log}
        /\ mem'.pending \in {mem.pending, None}
    BY <1>3, PollIs
  <2>2. UNCHANGED <<disk, log, published, violating>>
    BY <1>3 DEF Poll, chainVars, worldVars
  <2> QED BY <1>2, <2>1, <2>2, FailureOnce, CourtsOfNode
<1>4. CASE Refresh
  <2>1. \E b : FailsIf(b)
    BY <1>4 DEF Refresh
  <2>2. UNCHANGED <<disk, known, log, published, violating>> /\ mem'.pending = mem.pending
    BY <1>4, RefreshIs DEF Refresh, chainVars, worldVars
  <2> QED BY <2>1, <2>2, FailureOnce, CourtsOfNode
<1>5. CASE Decide
  <2>1. \E b : Fails \/ NoFailure \/ FailsIf(b)
    BY <1>5 DEF Decide
  <2>2. /\ disk'.pending \in {disk.pending, mem.pending, mem'.pending}
        /\ \/ mem'.pending = mem.pending
           \/ mem'.pending \in known /\ (failures' = failures => AnyOpen)
    BY <1>5, DecideIs DEF AnyOpen
  <2>3. UNCHANGED <<known, log, published, violating>>
    BY <1>5 DEF Decide, chainVars, worldVars
  <2>4. failures' = 0 => failures = 0
    BY <2>1, FailureOnce
  <2> QED BY <2>2, <2>3, <2>4, CourtsOfNode
<1>6. CASE Output
  <2>1. \E b : Fails \/ NoFailure \/ FailsIf(b)
    BY <1>6 DEF Output
  <2>2. mem'.pending \in {mem.pending, None} /\ disk' \in {disk, mem'}
    BY <1>6, OutputIs
  <2>3. UNCHANGED <<known, log, published, violating>>
    BY <1>6 DEF Output, chainVars, worldVars
  <2> QED BY <1>2, <2>1, <2>2, <2>3, FailureOnce, CourtsOfNode
<1>7. CASE Crash
  <2>1. /\ mem' = disk /\ known' = {}
        /\ UNCHANGED <<disk, log, published, violating, failures>>
    BY <1>7 DEF Crash, chainVars, worldVars
  <2> QED BY <2>1, CourtsOfNode
<1>8. CASE Publish
  <2>1. \E b : Fails \/ NoFailure \/ FailsIf(b)
    BY <1>8 DEF Publish, PublishRefused, PublishSkipped, PublishSent, PublishUnclear
  <2>2. call \in Ids /\ UNCHANGED <<mem, disk, known, published, violating>>
    BY <1>8 DEF Publish
  <2>3. log' = log \/ log' = Event("proposed", HashOf(call), call.market)
    BY <1>8 DEF Publish, PublishRefused, PublishSkipped, PublishSent, PublishUnclear,
                chainVars, ToPool, ToChain, Proposed
  <2>4. failures' = 0 => failures = 0
    BY <2>1, FailureOnce
  <2>5. CASE log' = log
    BY <2>2, <2>4, <2>5, CourtsOfNode
  <2>6. CASE log' = Event("proposed", HashOf(call), call.market)
    BY <2>2, <2>4, <2>6, HashTypes, CourtsOfChain
  <2> QED BY <2>3, <2>5, <2>6
<1>9. CASE Dispute
  <2>1. \E b : Fails \/ NoFailure \/ FailsIf(b)
    BY <1>9 DEF Dispute, DisputeSent, DisputeRefused, DisputeLost, DisputeNotRun
  <2>2. call \in Withdrawals /\ UNCHANGED <<mem, disk, known, published, violating>>
    BY <1>9 DEF Dispute, worldVars
  <2>3. log' = log \/ log' = Event("deleted", call, None)
    BY <1>9 DEF Dispute, DisputeSent, DisputeRefused, DisputeLost, DisputeNotRun
  <2>4. failures' = 0 => failures = 0
    BY <2>1, FailureOnce
  <2>5. CASE log' = log
    BY <2>2, <2>4, <2>5, CourtsOfNode
  <2>6. CASE log' = Event("deleted", call, None)
    <3>1. call \in Hashes
      BY <2>2 DEF Hashes
    <3> QED BY <2>2, <2>4, <2>6, <3>1, CourtsOfChain
  <2> QED BY <2>3, <2>5, <2>6
<1>10. ASSUME NEW id \in Ids, Mine(id) PROVE Courts'
  <2>1. UNCHANGED <<mem, disk, known, published, violating, failures>>
    BY <1>10 DEF Mine, nodeVars, worldVars, bounds
  <2>2. log' = log \/ log' = Event("proposed", HashOf(id), id.market)
    BY <1>10 DEF Mine, Proposed
  <2>3. CASE log' = log
    BY <2>1, <2>3, CourtsOfNode
  <2>4. CASE log' = Event("proposed", HashOf(id), id.market)
    BY <2>1, <2>4, HashTypes, CourtsOfChain
  <2> QED BY <2>2, <2>3, <2>4
<1>11. ASSUME NEW h \in Hashes, Execute(h) \/ Delete(h) PROVE Courts'
  <2>1. /\ UNCHANGED <<mem, disk, known, published, violating, failures>>
        /\ Live(h)
    BY <1>11 DEF Execute, Delete, nodeVars, worldVars, bounds
  <2>2. PICK kind \in {"executed", "deleted"} :
          log' = Event(kind, h, log[Latest(EventsOf(h))].market)
    BY <1>11 DEF Execute, Delete
  <2>3. log[Latest(EventsOf(h))].market \in Markets \cup {None}
    BY <1>1, <2>1, LatestMarket DEF Live
  <2> QED BY <2>1, <2>2, <2>3, CourtsOfChain
<1>12. ASSUME NEW w \in Withdrawals, ProposeWithdrawal(w) PROVE Courts'
  <2>1. /\ UNCHANGED <<mem, disk, known, published, failures>>
        /\ EventsOf(w) = {} /\ log' = Event("proposed", w, None)
        /\ violating \subseteq violating' /\ (AnyOpen => w \in violating')
    BY <1>12 DEF ProposeWithdrawal, nodeVars, bounds, AnyOpen
  <2>2. w \in Hashes
    BY DEF Hashes
  <2> QED BY <2>1, <2>2, CourtsOfChain
<1>13. ASSUME NEW m \in Markets, Trade(m) \/ Settle(m) \/ Request(m) \/ Snapshot(m) PROVE Courts'
  <2>1. UNCHANGED <<mem, disk, known, log, failures>>
    BY <1>13 DEF Trade, Settle, Request, Snapshot, nodeVars, chainVars, bounds
  <2>2. \A h : EventsOf(h)' = EventsOf(h) /\ (Live(h)' <=> Live(h))
    BY <2>1 DEF EventsOf, Live
  <2>3. violating \subseteq violating'
    BY <1>13 DEF Trade, Settle, Request, Snapshot
  <2>4. \A w \in Withdrawals : Live(w) /\ AnyOpen' => w \in violating'
    <3>1. CASE Trade(m)
      BY <3>1 DEF Trade
    <3>2. CASE Settle(m) \/ Request(m) \/ Snapshot(m)
      <4>1. /\ \/ published' = [published EXCEPT ![m].phase = "settled"]
               \/ published' = [published EXCEPT ![m].request = @ + 1, ![m].latest = TRUE]
               \/ published' = [published EXCEPT ![m].latest = FALSE]
            /\ violating' = violating
        BY <3>2 DEF Settle, Request, Snapshot
      <4>2. published \in [Markets -> Publication]
        BY <1>1 DEF WorldTypes
      <4>3. \A n \in Markets : published'[n].phase \in {published[n].phase, "settled"}
        BY <4>1, <4>2 DEF Publication
      <4>4. AnyOpen' => AnyOpen
        BY <4>3 DEF AnyOpen, Open
      <4> QED BY <4>1, <4>4 DEF Courts, Blocked
    <3> QED BY <1>13, <3>1, <3>2
  <2>5. Blocked'
    BY <2>2, <2>4 DEF Blocked
  <2>6. Known'
    BY <2>1, <2>2 DEF Courts, Known
  <2> QED BY <2>1, <2>2, <2>3, <2>5, <2>6, CourtsKept
<1>14. CASE UNCHANGED vars
  <2>1. UNCHANGED <<mem, disk, known, log, published, violating, failures>>
    BY <1>14 DEF vars, nodeVars, chainVars, worldVars, bounds
  <2> QED BY <2>1, CourtsOfNode
<1>15. CASE Governor
  BY <1>10, <1>11, <1>12, <1>15 DEF Governor
<1>16. CASE Agent
  BY <1>13, <1>16 DEF Agent
<1> QED BY <1>3, <1>4, <1>5, <1>6, <1>7, <1>8, <1>9, <1>14, <1>15, <1>16 DEF Next, Loop

(* Until a call fails, a dispute that the oracle would accept is about a   *)
(* withdrawal that was live while a market was not settled: the withdrawal *)
(* that node-controller.js persists before disputing, and finds again      *)
(* after a restart, was not proposed anew in the meantime.                 *)
THEOREM ControlDisputes == Spec => []DisputeJustifiedUntilFailure
<1>1. Init => Courts
  <2> SUFFICES ASSUME Init PROVE Courts
    OBVIOUS
  <2>1. log = <<>> /\ known = {} /\ mem = NoState /\ disk = NoState
    BY DEF Init
  <2>2. \A h : EventsOf(h) = {} /\ ~Live(h)
    BY <2>1 DEF EventsOf, Live
  <2>3. mem.pending = None /\ disk.pending = None
    BY <2>1 DEF NoState
  <2> QED BY <2>1, <2>2, <2>3, ControlAssumption DEF Courts, Blocked, Known, Accused
<1>2. Shape /\ Courts /\ [Next]_vars => Courts'
  BY CourtsStep
<1>3. Shape /\ Courts => DisputeJustifiedUntilFailure
  <2> SUFFICES ASSUME Shape, Courts, failures = 0, call \in Withdrawals, Live(call)
               PROVE  call \in violating
    BY DEF DisputeJustifiedUntilFailure, DisputeJustified
  <2>1. call = mem.pending
    BY DEF Shape, Stages
  <2> QED BY <2>1 DEF Courts, Accused, Guilty
<1> QED BY <1>1, <1>2, <1>3, ShapeAlways, PTL DEF Spec
-----------------------------------------------------------------------------
(* Whose proposals there are, and which of them the node tracks.           *)

(* The proposal node sends only what it has archived, so nothing twice.    *)
Sent == \A id \in Ids : txs[id] # "none" => id \in archived

(* What Publish does to the transactions.                                  *)
LEMMA PublishIs ==
  ASSUME Shape, Sent, Publish
  PROVE  /\ call \in Ids /\ stage = "call" /\ stage' = "output"
         /\ archived \subseteq archived' /\ answer' \in Answer
         /\ UNCHANGED <<mem, disk, cursor, known, call, changed, published, violating, workload, crashes, deletions>>
         /\ \E b : Fails \/ NoFailure \/ FailsIf(b)
         /\ \/ UNCHANGED <<log, txs>> /\ answer'.tx = None /\ answer'.hash = None
            \/ /\ txs[call] = "none" /\ ~Live(HashOf(call)) /\ call \in archived'
               /\ \/ /\ txs' = [txs EXCEPT ![call] = "pool"] /\ UNCHANGED log
                     /\ answer'.hash = None
                     /\ \/ answer'.tx = call /\ answer'.kind = "sent"
                        \/ answer'.tx = None /\ Fails
                  \/ /\ txs' = [txs EXCEPT ![call] = "mined"]
                     /\ log' = Event("proposed", HashOf(call), call.market)
                     /\ answer'.tx = call /\ answer'.hash = HashOf(call)
                     /\ answer'.kind = "sent"
<1>1. /\ call \in Ids /\ stage = "call" /\ stage' = "output"
      /\ UNCHANGED <<mem, disk, cursor, known, call, changed, published, violating, workload, crashes, deletions>>
  BY DEF Publish, PublishRefused, PublishSkipped, PublishSent, PublishUnclear, Answers
<1>2. \E b : Fails \/ NoFailure \/ FailsIf(b)
  BY DEF Publish, PublishRefused, PublishSkipped, PublishSent, PublishUnclear
<1>3. txs[call] \in {"none", "pool", "mined", "reverted"}
  BY <1>1 DEF Shape, WorldTypes
<1>4. call \notin archived => txs[call] = "none"
  BY <1>1, <1>3 DEF Sent
<1>5. HashOf(call) \in Payloads
  BY <1>1, HashTypes
<1>6. \A kind \in {"sent", "skipped", "uncertain", "failed"}, tx \in Ids \cup {None},
         hash \in Payloads \cup {None} : [kind |-> kind, tx |-> tx, hash |-> hash] \in Answer
  BY DEF Answer
<1>7. CASE PublishRefused
  <2>1. answer' = [kind |-> "failed", tx |-> None, hash |-> None]
        /\ UNCHANGED <<log, txs, archived>>
    BY <1>7 DEF PublishRefused, Answers, chainVars
  <2> QED BY <1>1, <1>2, <1>6, <2>1
<1>8. CASE PublishSkipped
  <2>1. answer' = [kind |-> "skipped", tx |-> None, hash |-> None]
        /\ UNCHANGED <<log, txs>> /\ archived' = archived \cup {call}
    BY <1>8 DEF PublishSkipped, Answers, chainVars, Archive
  <2> QED BY <1>1, <1>2, <1>6, <2>1
<1>9. CASE PublishSent
  <2>1. call \notin archived /\ ~Live(HashOf(call)) /\ archived' = archived \cup {call}
    BY <1>9 DEF PublishSent, Archive
  <2>2. CASE ToPool(call) /\ Answers("sent", call, None)
    <3>1. /\ txs' = [txs EXCEPT ![call] = "pool"] /\ UNCHANGED log
          /\ answer' = [kind |-> "sent", tx |-> call, hash |-> None]
      BY <2>2 DEF ToPool, Answers
    <3> QED BY <1>1, <1>2, <1>4, <1>6, <2>1, <3>1
  <2>3. CASE ToChain(call) /\ Answers("sent", call, HashOf(call))
    <3>1. /\ txs' = [txs EXCEPT ![call] = "mined"]
          /\ log' = Event("proposed", HashOf(call), call.market)
          /\ answer' = [kind |-> "sent", tx |-> call, hash |-> HashOf(call)]
      BY <2>1, <2>3 DEF ToChain, Mined, Proposed, Answers
    <3> QED BY <1>1, <1>2, <1>4, <1>5, <1>6, <2>1, <3>1
  <2> QED BY <1>9, <2>2, <2>3 DEF PublishSent
<1>10. CASE PublishUnclear
  <2>1. call \notin archived /\ ~Live(HashOf(call)) /\ archived' = archived \cup {call}
        /\ Fails /\ (ToPool(call) \/ UNCHANGED chainVars)
    BY <1>10 DEF PublishUnclear, Archive
  <2>2. PICK kind \in {"failed", "uncertain"} :
          answer' = [kind |-> kind, tx |-> None, hash |-> None]
    BY <1>10 DEF PublishUnclear, Answers
  <2>3. answer' \in Answer /\ answer'.tx = None /\ answer'.hash = None
    BY <1>6, <2>2
  <2>4. CASE ToPool(call)
    BY <1>1, <1>2, <1>4, <2>1, <2>3, <2>4 DEF ToPool
  <2>5. CASE UNCHANGED chainVars
    BY <1>1, <1>2, <2>1, <2>3, <2>5 DEF chainVars
  <2> QED BY <2>1, <2>4, <2>5
<1> QED BY <1>7, <1>8, <1>9, <1>10 DEF Publish

(* A mined transaction stays mined, and nothing is sent twice.             *)
LEMMA TxsStep ==
  ASSUME Shape, Sent, [Next]_vars
  PROVE  Sent' /\ \A id \in Ids : txs[id] = "mined" => txs'[id] = "mined"
<1>1. txs \in [Ids -> {"none", "pool", "mined", "reverted"}]
  BY DEF Shape, WorldTypes
<1>2. CASE Publish
  <2>1. call \in Ids /\ archived \subseteq archived'
        /\ \/ UNCHANGED txs
           \/ /\ txs[call] = "none" /\ call \in archived'
              /\ \/ txs' = [txs EXCEPT ![call] = "pool"]
                 \/ txs' = [txs EXCEPT ![call] = "mined"]
    BY <1>2, PublishIs
  <2> QED BY <1>1, <2>1 DEF Sent
<1>3. ASSUME NEW id \in Ids, Mine(id) PROVE Sent' /\ \A o \in Ids : txs[o] = "mined" => txs'[o] = "mined"
  <2>1. txs[id] = "pool" /\ txs' = Mined(id, txs) /\ archived' = archived
    BY <1>3 DEF Mine, worldVars
  <2>2. \A other \in Ids : other # id => txs'[other] = txs[other]
    BY <2>1, MinedTypes
  <2> QED BY <2>1, <2>2 DEF Sent
<1>4. CASE UNCHANGED <<txs, archived>>
  BY <1>4 DEF Sent
<1>5. \/ Publish \/ (\E id \in Ids : Mine(id)) \/ UNCHANGED <<txs, archived>>
  <2>1. CASE Poll \/ Refresh \/ Decide \/ Dispute \/ Output \/ Crash
    BY <2>1 DEF Poll, Refresh, Decide, Dispute, Output, Crash, chainVars, worldVars
  <2>2. CASE Agent
    BY <2>2 DEF Agent, Trade, Settle, Request, Snapshot, chainVars
  <2>3. CASE Governor
    BY <2>3 DEF Governor, Execute, Delete, ProposeWithdrawal, worldVars
  <2>4. CASE UNCHANGED vars
    BY <2>4 DEF vars, chainVars, worldVars
  <2> QED BY <2>1, <2>2, <2>3, <2>4 DEF Next, Loop
<1> QED BY <1>2, <1>3, <1>4, <1>5

(* The events there can be: a request or a withdrawal is proposed, a live  *)
(* proposal is executed or deleted, or the node disputes a withdrawal.     *)
Happens(kind, h, m) ==
  \/ kind = "proposed" /\ \E id \in Ids : h = HashOf(id) /\ m = id.market
  \/ kind \in {"proposed", "deleted"} /\ h \in Withdrawals /\ m = None
  \/ kind \in {"executed", "deleted"} /\ Live(h) /\ m = log[Latest(EventsOf(h))].market

(* No step adds another event to the log.                                  *)
LEMMA LogStep ==
  ASSUME Shape, Sent, [Next]_vars
  PROVE  \/ log' = log
         \/ \E kind \in {"proposed", "executed", "deleted"}, h \in Hashes,
               m \in Markets \cup {None} : Happens(kind, h, m) /\ log' = Event(kind, h, m)
<1>1. LogTypes
  BY DEF Shape
<1>2. CASE Publish
  <2>1. call \in Ids /\ (log' = log \/ log' = Event("proposed", HashOf(call), call.market))
    BY <1>2, PublishIs
  <2> QED BY <2>1, HashTypes DEF Happens
<1>3. CASE Dispute
  <2>1. call \in Withdrawals /\ (log' = log \/ log' = Event("deleted", call, None))
    BY <1>3 DEF Dispute, DisputeSent, DisputeRefused, DisputeLost, DisputeNotRun
  <2>2. call \in Hashes
    BY <2>1 DEF Hashes
  <2> QED BY <2>1, <2>2 DEF Happens
<1>4. ASSUME NEW id \in Ids, Mine(id)
      PROVE  \/ log' = log
             \/ \E kind \in {"proposed", "executed", "deleted"}, h \in Hashes,
                   m \in Markets \cup {None} : Happens(kind, h, m) /\ log' = Event(kind, h, m)
  BY <1>4, HashTypes DEF Mine, Proposed, Happens
<1>5. ASSUME NEW h \in Hashes, Execute(h) \/ Delete(h)
      PROVE  \E kind \in {"proposed", "executed", "deleted"}, m \in Markets \cup {None} :
               Happens(kind, h, m) /\ log' = Event(kind, h, m)
  <2>1. Live(h)
    BY <1>5 DEF Execute, Delete
  <2>2. PICK kind \in {"executed", "deleted"} :
          log' = Event(kind, h, log[Latest(EventsOf(h))].market)
    BY <1>5 DEF Execute, Delete
  <2>3. log[Latest(EventsOf(h))].market \in Markets \cup {None}
    BY <1>1, <2>1, LatestMarket DEF Live
  <2> QED BY <2>1, <2>2, <2>3 DEF Happens
<1>6. ASSUME NEW w \in Withdrawals, ProposeWithdrawal(w)
      PROVE  \E kind \in {"proposed", "executed", "deleted"}, m \in Markets \cup {None} :
               w \in Hashes /\ Happens(kind, w, m) /\ log' = Event(kind, w, m)
  BY <1>6 DEF ProposeWithdrawal, Happens, Hashes
<1>7. CASE Poll \/ Refresh \/ Decide \/ Output \/ Crash
  BY <1>7 DEF Poll, Refresh, Decide, Output, Crash, chainVars
<1>8. CASE Agent
  BY <1>8 DEF Agent, Trade, Settle, Request, Snapshot, chainVars
<1>9. CASE UNCHANGED vars
  BY <1>9 DEF vars, chainVars
<1>10. CASE Governor
  BY <1>4, <1>5, <1>6, <1>10 DEF Governor
<1> QED BY <1>2, <1>3, <1>7, <1>8, <1>9, <1>10 DEF Next, Loop

(* An event of a reimbursement carries its market, and no other event a    *)
(* market.                                                                 *)
PayloadsOf(m) == {PayloadOf[m][c] : c \in 1..MaxRequests}
OwnEvent(x) == IF x.hash \in Payloads THEN x.market \in Markets /\ x.hash \in PayloadsOf(x.market)
               ELSE x.market = None
OwnEvents == \A i \in DOMAIN log : OwnEvent(log[i])

(* Every step keeps the events with their markets.                         *)
LEMMA OwnEventsStep ==
  ASSUME Shape, Sent, OwnEvents, [Next]_vars
  PROVE  OwnEvents'
<1>1. CASE log' = log
  BY <1>1 DEF OwnEvents
<1>2. ASSUME NEW kind \in {"proposed", "executed", "deleted"}, NEW h \in Hashes,
             NEW m \in Markets \cup {None}, Happens(kind, h, m), log' = Event(kind, h, m)
      PROVE  OwnEvents'
  <2> DEFINE x == [kind |-> kind, hash |-> h, market |-> m]
  <2>1. OwnEvent(x)
    <3>1. x.hash = h /\ x.market = m
      OBVIOUS
    <3> HIDE DEF x
    <3>2. CASE \E id \in Ids : h = HashOf(id) /\ m = id.market
      BY <3>1, <3>2, HashTypes DEF OwnEvent, PayloadsOf
    <3>3. CASE h \in Withdrawals /\ m = None
      BY <3>1, <3>3, ControlAssumption DEF OwnEvent
    <3>4. CASE Live(h) /\ m = log[Latest(EventsOf(h))].market
      <4>1. At(log, h) # {} /\ EventsOf(h) = At(log, h) /\ log \in Seq(LogEvent)
        BY <3>4, LiveIsAt DEF Live, Shape, LogTypes
      <4>2. Latest(At(log, h)) \in DOMAIN log /\ log[Latest(At(log, h))].hash = h
        BY <4>1, LatestEvent
      <4>3. OwnEvent(log[Latest(At(log, h))])
        BY <4>2 DEF OwnEvents
      <4> QED BY <3>1, <3>4, <4>1, <4>2, <4>3 DEF OwnEvent
    <3> QED BY <1>2, <3>2, <3>3, <3>4 DEF Happens
  <2>2. /\ Len(log) \in Nat /\ DOMAIN log = 1..Len(log) /\ DOMAIN log' = 1..Len(log) + 1
        /\ log'[Len(log) + 1] = x /\ \A i \in 1..Len(log) : log'[i] = log[i]
    BY <1>2, LogGrows DEF Shape
  <2> HIDE DEF x
  <2>3. ASSUME NEW i \in DOMAIN log' PROVE OwnEvent(log'[i])
    <3>1. i \in 1..Len(log) \/ i = Len(log) + 1
      BY <2>2
    <3> QED BY <2>1, <2>2, <3>1 DEF OwnEvents
  <2> QED BY <2>3 DEF OwnEvents, OwnEvent
<1> QED BY <1>1, <1>2, LogStep

(* The transaction an entry tracks is one of its market, and its hash is   *)
(* the one of that transaction, which was mined.  An answer is about the   *)
(* request that was made, and that request was made for an entry that      *)
(* tracked nothing.                                                        *)
Own(e, m, t) ==
  /\ e.tx # None => e.tx.market = m
  /\ e.hash # None => e.tx # None /\ e.hash = HashOf(e.tx) /\ t[e.tx] = "mined"
OwnEntries == \A m \in Markets : Own(mem.markets[m], m, txs) /\ Own(disk.markets[m], m, txs)
OwnAnswer ==
  answer # None =>
    /\ answer.tx # None => call \in Ids /\ answer.tx = call /\ answer.kind = "sent"
    /\ answer.hash # None => answer.tx # None /\ answer.hash = HashOf(call) /\ txs[call] = "mined"
Untracked ==
  call \in Ids => mem.markets[call.market].tx = None /\ mem.markets[call.market].hash = None
Belongs == Sent /\ OwnEvents /\ OwnEntries /\ OwnAnswer /\ Untracked

(* An entry stays one of its market while mined transactions stay mined.   *)
LEMMA OwnKept ==
  ASSUME NEW e \in Entry, NEW m, NEW t, NEW u, Own(e, m, t),
         \A id \in Ids : t[id] = "mined" => u[id] = "mined"
  PROVE  Own(e, m, u)
<1>1. e.tx \in Ids \cup {None}
  BY EntryFields
<1> QED BY <1>1 DEF Own

(* Every step keeps entries and answers with the market they are about.    *)
LEMMA BelongsStep ==
  ASSUME Shape, Belongs, [Next]_vars
  PROVE  Belongs'
<1>1. Sent' /\ \A id \in Ids : txs[id] = "mined" => txs'[id] = "mined"
  BY TxsStep DEF Belongs
<1>2. OwnEvents'
  BY OwnEventsStep DEF Belongs
<1>3. mem \in State /\ disk \in State /\ \A m \in Markets : mem.markets[m] \in Entry /\ disk.markets[m] \in Entry
  BY StateFields DEF Shape, NodeTypes
<1>4. ASSUME NEW m \in Markets PROVE Own(mem.markets[m], m, txs') /\ Own(disk.markets[m], m, txs')
  BY <1>1, <1>3, OwnKept DEF Belongs, OwnEntries
<1>5. ASSUME \A m \in Markets : Own(mem'.markets[m], m, txs') /\ Own(disk'.markets[m], m, txs')
      PROVE  OwnEntries'
  BY <1>5 DEF OwnEntries, Own
<1>6. CASE UNCHANGED <<mem, disk, call, answer>>
  <2>1. OwnEntries'
    BY <1>4, <1>5, <1>6
  <2>2. Untracked'
    BY <1>6 DEF Belongs, Untracked
  <2>3. OwnAnswer'
    <3>1. answer # None /\ answer.hash # None => call \in Ids
      BY DEF Belongs, OwnAnswer
    <3> QED BY <1>1, <1>6, <3>1 DEF Belongs, OwnAnswer
  <2> QED BY <1>1, <1>2, <2>1, <2>2, <2>3 DEF Belongs
<1>7. CASE Poll
  <2>1. PICK from \in {cursor, Len(log)} :
          \A m \in Markets : PolledEntry(mem.markets[m], mem'.markets[m], from)
    BY <1>7, PollIs
  <2>2. stage = "idle" /\ UNCHANGED <<disk, call, answer>>
    BY <1>7 DEF Poll
  <2>3. call = None /\ answer = None
    BY <2>2 DEF Shape, Stages
  <2>4. OwnEntries'
    <3>1. \A m \in Markets : Own(mem'.markets[m], m, txs')
      BY <1>4, <2>1 DEF PolledEntry, Own
    <3> QED BY <1>4, <1>5, <2>2, <3>1
  <2> QED BY <1>1, <1>2, <2>2, <2>3, <2>4, CallsApart DEF Belongs, OwnAnswer, Untracked
<1>8. CASE Refresh
  <2>1. \A m \in Markets : RefreshedEntry(mem.markets[m], mem'.markets[m])
    BY <1>8, RefreshIs
  <2>2. stage = "refresh" /\ UNCHANGED <<disk, call, answer, txs>>
    BY <1>8 DEF Refresh, chainVars
  <2>3. call = None /\ answer = None
    BY <2>2 DEF Shape, Stages
  <2>4. OwnEntries'
    <3>1. \A m \in Markets : Own(mem'.markets[m], m, txs')
      BY <1>4, <2>1, <2>2 DEF RefreshedEntry, Own
    <3> QED BY <1>4, <1>5, <2>2, <3>1
  <2> QED BY <1>1, <1>2, <2>2, <2>3, <2>4, CallsApart DEF Belongs, OwnAnswer, Untracked
<1>9. CASE Decide
  <2>1. /\ Alike(mem, mem') /\ (disk' = disk \/ Alike(mem, disk'))
        /\ \/ call' \notin Ids
           \/ /\ mem'.markets[call'.market].tx = None
              /\ mem'.markets[call'.market].hash = None
    <3>1. \A w \in Withdrawals : w \notin Ids
      BY CallsApart
    <3> QED BY <1>9, <3>1, DecideIs, CallsApart
  <2>2. stage = "decide" /\ UNCHANGED answer
    BY <1>9 DEF Decide
  <2>3. answer = None
    BY <2>2 DEF Shape, Stages
  <2>4. \A m \in Markets : Own(mem'.markets[m], m, txs')
    BY <1>4, <2>1 DEF Alike, Same, Own
  <2>5. \A m \in Markets : Own(disk'.markets[m], m, txs')
    <3>1. CASE disk' = disk
      BY <1>4, <3>1
    <3>2. CASE Alike(mem, disk')
      BY <1>4, <3>2 DEF Alike, Same, Own
    <3> QED BY <2>1, <3>1, <3>2
  <2>6. OwnEntries'
    BY <1>5, <2>4, <2>5
  <2> QED BY <1>1, <1>2, <2>1, <2>2, <2>3, <2>6 DEF Belongs, OwnAnswer, Untracked
<1>10. CASE Publish
  <2>1. /\ call \in Ids /\ UNCHANGED <<mem, disk, call>> /\ answer' \in Answer
        /\ \/ answer'.tx = None /\ answer'.hash = None
           \/ answer'.tx = call /\ answer'.kind = "sent" /\ answer'.hash = None
           \/ answer'.tx = call /\ answer'.kind = "sent" /\ answer'.hash = HashOf(call)
              /\ txs' = [txs EXCEPT ![call] = "mined"]
    BY <1>10, PublishIs DEF Belongs
  <2>2. OwnEntries'
    BY <1>4, <1>5, <2>1
  <2>3. txs' = [txs EXCEPT ![call] = "mined"] => txs'[call] = "mined"
    BY <2>1 DEF Shape, WorldTypes
  <2>4. call # None
    BY <2>1, CallsApart
  <2>5. OwnAnswer'
    BY <2>1, <2>3, <2>4 DEF OwnAnswer
  <2>6. Untracked'
    BY <2>1 DEF Belongs, Untracked
  <2> QED BY <1>1, <1>2, <2>2, <2>5, <2>6 DEF Belongs
<1>11. CASE Dispute
  <2>1. /\ call \in Withdrawals /\ UNCHANGED <<mem, disk>> /\ call' \in {None, call}
    BY <1>11 DEF Dispute
  <2>2. answer' = answer \/ (answer'.tx = None /\ answer'.hash = None)
    BY <1>11 DEF Dispute, DisputeSent, DisputeRefused, DisputeLost, DisputeNotRun, Answers
  <2>3. answer = None
    BY <1>11 DEF Dispute, Shape, Stages
  <2>4. call' \notin Ids
    BY <2>1, CallsApart
  <2>5. OwnEntries'
    BY <1>4, <1>5, <2>1
  <2> QED BY <1>1, <1>2, <2>2, <2>3, <2>4, <2>5 DEF Belongs, OwnAnswer, Untracked
<1>12. CASE Output
  <2>1. /\ call \in Ids \cup Withdrawals /\ answer \in Answer /\ disk' \in {disk, mem'}
        /\ \A m \in Markets : IF call \in Ids /\ m = call.market
                              THEN OutputEntry(mem.markets[m], mem'.markets[m], answer)
                              ELSE mem'.markets[m] = mem.markets[m]
    BY <1>12, OutputIs
  <2>2. call' = None /\ answer' = None /\ UNCHANGED txs
    BY <1>12 DEF Output, chainVars
  <2>3. answer # None
    BY <2>1, CallsApart
  <2>4. ASSUME NEW m \in Markets PROVE Own(mem'.markets[m], m, txs')
    <3>1. CASE call \in Ids /\ m = call.market
      <4>1. OutputEntry(mem.markets[m], mem'.markets[m], answer)
        BY <2>1, <3>1
      <4>2. mem.markets[m].tx = None /\ mem.markets[m].hash = None
        BY <3>1 DEF Belongs, Untracked
      <4>3. mem'.markets[m].tx # None => mem'.markets[m].tx = call
        BY <2>3, <4>1, <4>2 DEF OutputEntry, Belongs, OwnAnswer
      <4>4. mem'.markets[m].hash # None =>
              mem'.markets[m].tx = call /\ mem'.markets[m].hash = HashOf(call) /\ txs[call] = "mined"
        BY <2>3, <4>1, <4>2 DEF OutputEntry, Belongs, OwnAnswer
      <4>5. call # None
        BY <3>1, CallsApart
      <4> QED BY <2>2, <3>1, <4>3, <4>4, <4>5 DEF Own
    <3>2. CASE ~(call \in Ids /\ m = call.market)
      BY <1>4, <2>1, <3>2
    <3> QED BY <3>1, <3>2
  <2>5. OwnEntries'
    BY <1>4, <1>5, <2>1, <2>4
  <2> QED BY <1>1, <1>2, <2>2, <2>5, CallsApart DEF Belongs, OwnAnswer, Untracked
<1>13. CASE Crash
  <2>1. mem' = disk /\ disk' = disk /\ call' = None /\ answer' = None
    BY <1>13 DEF Crash
  <2>2. OwnEntries'
    BY <1>4, <1>5, <2>1
  <2> QED BY <1>1, <1>2, <2>1, <2>2, CallsApart DEF Belongs, OwnAnswer, Untracked
<1>14. CASE Governor \/ Agent \/ UNCHANGED vars
  <2>1. UNCHANGED nodeVars
    BY <1>14 DEF Governor, Agent, Mine, Execute, Delete, ProposeWithdrawal,
                 Trade, Settle, Request, Snapshot, vars, nodeVars
  <2> QED BY <1>6, <2>1 DEF nodeVars
<1> QED BY <1>7, <1>8, <1>9, <1>10, <1>11, <1>12, <1>13, <1>14 DEF Next, Loop

(* So they always are.                                                     *)
LEMMA BelongsAlways == Spec => []Belongs
<1>1. Init => Belongs
  <2> SUFFICES ASSUME Init PROVE Belongs
    OBVIOUS
  <2>1. /\ log = <<>> /\ txs = [id \in Ids |-> "none"] /\ mem = NoState /\ disk = NoState
        /\ call = None /\ answer = None
    BY DEF Init
  <2>2. Sent /\ OwnEvents
    BY <2>1 DEF Sent, OwnEvents
  <2>3. \A m \in Markets : /\ mem.markets[m].tx = None /\ mem.markets[m].hash = None
                           /\ disk.markets[m].tx = None /\ disk.markets[m].hash = None
    BY <2>1 DEF NoState, NoEntry
  <2>4. OwnEntries
    BY <2>3 DEF OwnEntries, Own
  <2> QED BY <2>1, <2>2, <2>4, CallsApart DEF Belongs, OwnAnswer, Untracked
<1> QED BY <1>1, BelongsStep, ShapeAlways, PTL DEF Spec
-----------------------------------------------------------------------------
(* Reimbursements.  What is said below needs the transactions that pay     *)
(* different markets to differ: the Governor tells proposals apart by      *)
(* nothing else.                                                           *)
MarketsApart ==
  \A m, n \in Markets : \A c, d \in 1..MaxRequests : PayloadOf[m][c] = PayloadOf[n][d] => m = n

Payments(m) == {i \in DOMAIN log : log[i].kind = "executed" /\ log[i].market = m}

(* How often a market was paid is a number.                                *)
LEMMA PaidIs ==
  ASSUME LogTypes, NEW m
  PROVE  /\ Paid(m) \in Nat /\ Paid(m) = Cardinality(Payments(m)) /\ IsFiniteSet(Payments(m))
         /\ (Paid(m) > 0) <=> (Payments(m) # {})
<1>1. Len(log) \in Nat /\ DOMAIN log = 1..Len(log)
  BY DEF LogTypes
<1>2. IsFiniteSet(1..Len(log)) /\ Payments(m) \subseteq 1..Len(log)
  <2>1. Payments(m) \subseteq DOMAIN log
    BY DEF Payments
  <2>2. \A n \in Nat : IsFiniteSet(1..n)
    BY FS_Interval
  <2> QED BY <1>1, <2>1, <2>2
<1>3. IsFiniteSet(Payments(m)) /\ Paid(m) = Cardinality(Payments(m))
  BY <1>2, FS_Subset DEF Paid, Payments
<1>4. Paid(m) \in Nat
  BY <1>3, FS_CardinalityType
<1>5. Paid(m) = 0 <=> Payments(m) = {}
  BY <1>3, FS_EmptySet
<1> QED BY <1>3, <1>4, <1>5

(* Only an execution pays, and only the market of its event.               *)
LEMMA PaidGrows ==
  ASSUME LogTypes, NEW kind \in {"proposed", "executed", "deleted"}, NEW h \in Hashes,
         NEW m \in Markets \cup {None}, log' = Event(kind, h, m), NEW n
  PROVE  Paid(n)' = IF kind = "executed" /\ m = n THEN Paid(n) + 1 ELSE Paid(n)
<1>2. PICK k : Placed(k, kind, h, m)
  BY NewPlace
<1>3. /\ DOMAIN log' = DOMAIN log \cup {k} /\ k \notin DOMAIN log
      /\ log'[k].kind = kind /\ log'[k].hash = h /\ log'[k].market = m
      /\ \A i \in DOMAIN log : log'[i] = log[i]
  BY <1>2 DEF Placed
<1>4. Payments(n)' = IF kind = "executed" /\ m = n THEN Payments(n) \cup {k} ELSE Payments(n)
  BY <1>3 DEF Payments
<1>5. k \notin Payments(n)
  BY <1>3 DEF Payments
<1>6. IsFiniteSet(Payments(n)) /\ Paid(n) = Cardinality(Payments(n)) /\ Paid(n) \in Nat
  BY PaidIs
<1>7. Cardinality(Payments(n) \cup {k}) = Cardinality(Payments(n)) + 1
  BY <1>5, <1>6, FS_AddElement
<1>8. Paid(n)' = Cardinality(Payments(n)')
  BY DEF Paid, Payments
<1> QED BY <1>4, <1>6, <1>7, <1>8

(* What was paid stays paid.                                               *)
LEMMA PaidStays ==
  ASSUME Shape, Sent, [Next]_vars, NEW m, Paid(m) > 0
  PROVE  Paid(m)' > 0
<1>1. Paid(m) \in Nat
  BY PaidIs DEF Shape
<1>2. CASE log' = log
  BY <1>2 DEF Paid
<1>3. ASSUME NEW kind \in {"proposed", "executed", "deleted"}, NEW h \in Hashes,
             NEW n \in Markets \cup {None}, log' = Event(kind, h, n)
      PROVE  Paid(m)' > 0
  BY <1>1, <1>3, PaidGrows DEF Shape
<1> QED BY <1>2, <1>3, LogStep

(* The market of an event is that of the request with its hash.            *)
LEMMA OwnMarket ==
  ASSUME MarketsApart, OwnEvents, NEW i \in DOMAIN log, NEW id \in Ids, log[i].hash = HashOf(id)
  PROVE  log[i].market = id.market
<1>1. HashOf(id) \in Payloads /\ id.market \in Markets /\ HashOf(id) \in PayloadsOf(id.market)
  BY HashTypes DEF PayloadsOf
<1>2. log[i].market \in Markets /\ log[i].hash \in PayloadsOf(log[i].market)
  BY <1>1 DEF OwnEvents, OwnEvent
<1> QED BY <1>1, <1>2 DEF MarketsApart, PayloadsOf

(* An entry comes to be reimbursed only by an execution of its own hash    *)
(* that was scanned, or by reading it back after a restart.                *)
LEMMA BelievedStep ==
  ASSUME MarketsApart, Shape, Belongs, BelievedPaid, [Next]_vars
  PROVE  BelievedPaid'
<1>1. \A m \in Markets : Paid(m) > 0 => Paid(m)' > 0
  BY PaidStays DEF Belongs
<1>2. ASSUME NEW m \in Markets, mem'.markets[m].reimbursed \/ disk'.markets[m].reimbursed
      PROVE  \/ mem.markets[m].reimbursed \/ disk.markets[m].reimbursed
             \/ Paid(m)' > 0
  <2>1. mem.markets[m] \in Entry /\ disk.markets[m] \in Entry
    BY EntriesWithin
  <2>2. CASE Poll
    <3>1. PICK from \in {cursor, Len(log)} : PolledEntry(mem.markets[m], mem'.markets[m], from)
      BY <2>2, PollIs
    <3>2. disk' = disk /\ log' = log
      BY <2>2 DEF Poll, chainVars
    <3>3. CASE \E i \in DOMAIN log : log[i].kind = "executed" /\ log[i].hash = mem.markets[m].hash
      <4>1. PICK i \in DOMAIN log : log[i].kind = "executed" /\ log[i].hash = mem.markets[m].hash
        BY <3>3
      <4>2. mem.markets[m].hash # None
        BY <4>1, EventFields, ControlAssumption DEF Shape, Hashes
      <4>3. /\ mem.markets[m].tx \in Ids /\ mem.markets[m].tx.market = m
            /\ log[i].hash = HashOf(mem.markets[m].tx)
        BY <2>1, <4>1, <4>2, EntryFields DEF Belongs, OwnEntries, Own
      <4>4. log[i].market = m
        BY <4>3, OwnMarket DEF Belongs
      <4>5. Payments(m) # {}
        BY <4>1, <4>4 DEF Payments
      <4>6. Paid(m) > 0
        BY <4>5, PaidIs DEF Shape
      <4> QED BY <1>1, <4>6
    <3> QED BY <1>2, <3>1, <3>2, <3>3 DEF PolledEntry
  <2>3. CASE Refresh
    <3>1. RefreshedEntry(mem.markets[m], mem'.markets[m]) /\ disk' = disk
      BY <2>3, RefreshIs DEF Refresh
    <3> QED BY <1>2, <3>1 DEF RefreshedEntry
  <2>4. CASE Decide
    <3>1. Alike(mem, mem') /\ (disk' = disk \/ Alike(mem, disk'))
      BY <2>4, DecideIs
    <3> QED BY <1>2, <3>1 DEF Alike, Same
  <2>5. CASE Output
    <3>1. /\ disk' \in {disk, mem'}
          /\ \/ OutputEntry(mem.markets[m], mem'.markets[m], answer)
             \/ mem'.markets[m] = mem.markets[m]
      BY <2>5, OutputIs
    <3> QED BY <1>2, <3>1 DEF OutputEntry
  <2>6. CASE Crash
    BY <1>2, <2>6 DEF Crash
  <2>7. CASE Publish \/ Dispute \/ Governor \/ Agent \/ UNCHANGED vars
    <3>1. UNCHANGED <<mem, disk>>
      BY <2>7 DEF Publish, Dispute, Governor, Agent, Mine, Execute, Delete, ProposeWithdrawal,
                  Trade, Settle, Request, Snapshot, vars, nodeVars
    <3> QED BY <1>2, <3>1
  <2> QED BY <2>2, <2>3, <2>4, <2>5, <2>6, <2>7 DEF Next, Loop
<1>3. ASSUME NEW m \in Markets, mem'.markets[m].reimbursed \/ disk'.markets[m].reimbursed
      PROVE  Paid(m)' > 0
  BY <1>1, <1>2, <1>3 DEF BelievedPaid
<1> QED BY <1>3 DEF BelievedPaid

(* A market that the node takes for reimbursed was reimbursed, also after  *)
(* failures and restarts that replay the history of the Governor, as long  *)
(* as no two markets are reimbursed by equal transactions.                 *)
THEOREM ControlBelieved ==
  ASSUME MarketsApart
  PROVE  Spec => []BelievedPaid
<1>1. Init => BelievedPaid
  BY DEF Init, NoState, NoEntry, BelievedPaid
<1>2. Shape /\ Belongs /\ BelievedPaid /\ [Next]_vars => BelievedPaid'
  BY BelievedStep
<1> QED BY <1>1, <1>2, ShapeAlways, BelongsAlways, PTL DEF Spec
-----------------------------------------------------------------------------
(* One reimbursement at a time: as long as nothing fails, a market without *)
(* a tracked request has no live proposal, was not paid and has no         *)
(* deletion the node has not seen, and so has one whose request is still   *)
(* in the pool.  A request that was mined is the only one that may be      *)
(* live, is paid once, and is given up for another only when the node sees *)
(* that it was deleted.  Every transaction in the pool is tracked.         *)
Calm == failures = 0 /\ crashes = 0
Quiet(m) == \A h \in PayloadsOf(m) : ~Live(h)
Unseen(m) == \E i \in DOMAIN log : i > cursor /\ log[i].kind = "deleted" /\ log[i].market = m
Waiting(m) == Quiet(m) /\ Paid(m) = 0 /\ ~Unseen(m)
Made(m, h) ==
  /\ \A g \in PayloadsOf(m) : Live(g) => g = h
  /\ Paid(m) <= 1
  /\ Unseen(m) => Quiet(m) /\ Paid(m) = 0
  /\ Paid(m) > 0 => Quiet(m)
Tracked(m, id) ==
  \/ mem.markets[m].tx = id
  \/ answer # None /\ call \in Ids /\ call.market = m /\ answer.tx = id
Account(m) ==
  /\ (\A id \in Ids : ~Tracked(m, id)) => Waiting(m)
  /\ \A id \in Ids : Tracked(m, id) =>
       \/ txs[id] = "pool" /\ Waiting(m)
       \/ txs[id] = "mined" /\ Made(m, HashOf(id))
Pooled == \A id \in Ids : txs[id] = "pool" => Tracked(id.market, id)
Books == (\A m \in Markets : Account(m)) /\ Pooled
OneAtATime == Calm => Books

(* A market tracks one request, one of its own.                            *)
LEMMA TrackedOnce ==
  ASSUME Belongs, NEW m \in Markets, NEW a \in Ids, Tracked(m, a)
  PROVE  a.market = m /\ \A b \in Ids : Tracked(m, b) => b = a
<1>1. a # None
  BY CallsApart
<1>2. \A b \in Ids : b # None
  BY CallsApart
<1> QED BY <1>1, <1>2 DEF Belongs, OwnEntries, Own, OwnAnswer, Untracked, Tracked

(* A calm step starts in a calm state, fails nothing and is no restart.    *)
LEMMA CalmStep ==
  ASSUME Shape, [Next]_vars, Calm'
  PROVE  Calm /\ ~Fails /\ ~Crash
<1>1. failures \in Nat /\ crashes \in Nat
  BY CountTypes
<1>2. ~Fails /\ ~Crash
  BY <1>1 DEF Fails, Crash, Calm
<1>3. failures' = failures \/ Fails \/ Crash
  <2>1. CASE Loop
    BY <2>1 DEF Loop, Poll, Refresh, Decide, Publish, PublishRefused, PublishSkipped, PublishSent,
       PublishUnclear, Dispute, DisputeSent, DisputeRefused, DisputeLost, DisputeNotRun, Output,
       FailsIf, NoFailure
  <2>2. CASE Governor \/ Agent \/ UNCHANGED vars
    BY <2>2 DEF Governor, Agent, Mine, Execute, Delete, ProposeWithdrawal,
                Trade, Settle, Request, Snapshot, vars, bounds
  <2> QED BY <2>1, <2>2 DEF Next
<1>4. crashes' = crashes \/ Crash
  <2>1. CASE Loop
    BY <2>1 DEF Loop, Poll, Refresh, Decide, Publish, Dispute, Output
  <2>2. CASE Governor \/ Agent \/ UNCHANGED vars
    BY <2>2 DEF Governor, Agent, Mine, Execute, Delete, ProposeWithdrawal,
                Trade, Settle, Request, Snapshot, vars, bounds
  <2> QED BY <2>1, <2>2 DEF Next
<1> QED BY <1>2, <1>3, <1>4 DEF Calm

(* A step that changes nothing about the proposals and the transactions of *)
(* a market.                                                               *)
Untouched(m) ==
  /\ \A g \in PayloadsOf(m) : Live(g)' <=> Live(g)
  /\ Paid(m)' = Paid(m) /\ (Unseen(m)' <=> Unseen(m))

(* Such a step keeps what is known about the market.                       *)
LEMMA UntouchedAccount ==
  ASSUME NEW m, Untouched(m)
  PROVE  /\ Waiting(m)' <=> Waiting(m)
         /\ \A h : Made(m, h)' <=> Made(m, h)
<1>1. Quiet(m)' <=> Quiet(m)
  BY DEF Untouched, Quiet
<1>2. Waiting(m)' <=> Waiting(m)
  BY <1>1 DEF Untouched, Waiting
<1>3. ASSUME NEW h PROVE Made(m, h)' <=> Made(m, h)
  BY <1>1 DEF Untouched, Made
<1> QED BY <1>2, <1>3

(* So it does when the tracked requests and their transactions stay.       *)
LEMMA AccountKept ==
  ASSUME NEW m \in Markets, Account(m), Untouched(m),
         \A id \in Ids : Tracked(m, id)' <=> Tracked(m, id),
         \A id \in Ids : Tracked(m, id) => txs'[id] = txs[id]
  PROVE  Account(m)'
<1>1. (Waiting(m)' <=> Waiting(m)) /\ \A h : Made(m, h)' <=> Made(m, h)
  BY UntouchedAccount
<1>2. (\A id \in Ids : ~Tracked(m, id)') => Waiting(m)'
  BY <1>1 DEF Account
<1>3. ASSUME NEW id \in Ids, Tracked(m, id)'
      PROVE  \/ txs'[id] = "pool" /\ Waiting(m)'
             \/ txs'[id] = "mined" /\ Made(m, HashOf(id))'
  <2>1. Tracked(m, id) /\ txs'[id] = txs[id]
    BY <1>3
  <2>2. \/ txs[id] = "pool" /\ Waiting(m)
        \/ txs[id] = "mined" /\ Made(m, HashOf(id))
    BY <2>1 DEF Account
  <2>3. Made(m, HashOf(id))' <=> Made(m, HashOf(id))
    BY <1>1
  <2> QED BY <1>1, <2>1, <2>2, <2>3
<1> QED BY <1>2, <1>3 DEF Account

(* A step that leaves the Governor, the scan and what is tracked alone.    *)
LEMMA BooksKept ==
  ASSUME Books, UNCHANGED <<log, cursor, txs>>,
         \A m \in Markets : \A id \in Ids : Tracked(m, id)' <=> Tracked(m, id)
  PROVE  Books'
<1>1. \A m \in Markets : Untouched(m)
  BY DEF Untouched, Live, EventsOf, Paid, Unseen
<1>2. \A m \in Markets : Account(m)'
  BY <1>1, AccountKept DEF Books
<1>3. Pooled'
  BY HashTypes DEF Books, Pooled
<1> QED BY <1>2, <1>3 DEF Books

(* An event of another market.                                             *)
LEMMA ElsewhereUntouched ==
  ASSUME Shape, NEW kind \in {"proposed", "executed", "deleted"}, NEW h \in Hashes,
         NEW n \in Markets \cup {None}, log' = Event(kind, h, n), cursor' = cursor,
         NEW m \in Markets, n # m, h \notin PayloadsOf(m)
  PROVE  Untouched(m)
<1>1. /\ Len(log) \in Nat /\ DOMAIN log = 1..Len(log) /\ DOMAIN log' = 1..Len(log) + 1
      /\ log'[Len(log) + 1] = [kind |-> kind, hash |-> h, market |-> n]
      /\ \A i \in 1..Len(log) : log'[i] = log[i]
      /\ \A g : Live(g)' <=> IF g = h THEN kind = "proposed" ELSE Live(g)
  BY LogGrows DEF Shape
<1>2. \A g \in PayloadsOf(m) : Live(g)' <=> Live(g)
  BY <1>1
<1>3. Paid(m)' = Paid(m)
  BY PaidGrows DEF Shape
<1>4. Unseen(m)' <=> Unseen(m)
  <2>1. PICK k : Placed(k, kind, h, n)
    BY NewPlace DEF Shape
  <2>2. /\ DOMAIN log' = DOMAIN log \cup {k} /\ log'[k].market = n
        /\ \A i \in DOMAIN log : log'[i] = log[i]
    BY <2>1 DEF Placed
  <2> QED BY <2>2 DEF Unseen
<1> QED BY <1>2, <1>3, <1>4 DEF Untouched

(* The market of an event is the only one with its hash.                   *)
LEMMA OneMarket ==
  ASSUME MarketsApart, NEW m \in Markets, NEW n \in Markets, NEW h \in PayloadsOf(m),
         h \in PayloadsOf(n)
  PROVE  m = n
BY DEF MarketsApart, PayloadsOf

(* A mined transaction of a market that waits makes its proposal.          *)
LEMMA Proposes ==
  ASSUME Shape, NEW id \in Ids, Waiting(id.market), cursor' = cursor,
         log' = Event("proposed", HashOf(id), id.market)
  PROVE  Made(id.market, HashOf(id))'
<1> DEFINE m == id.market
           h == HashOf(id)
<1>1. m \in Markets /\ h \in Hashes
  BY HashTypes
<1> HIDE DEF m, h
<1>2. /\ Len(log) \in Nat /\ DOMAIN log = 1..Len(log) /\ DOMAIN log' = 1..Len(log) + 1
      /\ log'[Len(log) + 1] = [kind |-> "proposed", hash |-> h, market |-> m]
      /\ \A i \in 1..Len(log) : log'[i] = log[i]
      /\ \A g : Live(g)' <=> IF g = h THEN TRUE ELSE Live(g)
  BY <1>1, LogGrows DEF Shape, m, h
<1>3. Paid(m)' = 0
  BY <1>1, PaidGrows DEF Shape, Waiting, m, h
<1>4. ~Unseen(m)'
  <2>1. PICK k : Placed(k, "proposed", h, m)
    BY <1>1, NewPlace DEF Shape, m, h
  <2>2. /\ DOMAIN log' = DOMAIN log \cup {k} /\ log'[k].kind = "proposed"
        /\ \A i \in DOMAIN log : log'[i] = log[i]
    BY <2>1 DEF Placed
  <2> QED BY <2>2 DEF Unseen, Waiting, m
<1>5. \A g \in PayloadsOf(m) : Live(g)' => g = h
  BY <1>2 DEF Waiting, Quiet, m
<1>6. Made(m, h)'
  BY <1>3, <1>4, <1>5 DEF Made
<1> QED BY <1>6 DEF m, h

(* The end of the live proposal of a market.                               *)
LEMMA Ends ==
  ASSUME Shape, NEW kind \in {"executed", "deleted"}, NEW m \in Markets, NEW h \in PayloadsOf(m),
         Live(h), h \in Hashes, log' = Event(kind, h, m), UNCHANGED <<nodeVars, txs>>, Account(m)
  PROVE  Account(m)'
<1>1. /\ Len(log) \in Nat /\ DOMAIN log = 1..Len(log) /\ DOMAIN log' = 1..Len(log) + 1
      /\ log'[Len(log) + 1] = [kind |-> kind, hash |-> h, market |-> m]
      /\ \A i \in 1..Len(log) : log'[i] = log[i]
      /\ \A g : Live(g)' <=> IF g = h THEN FALSE ELSE Live(g)
  BY LogGrows DEF Shape
<1>2. Paid(m)' = (IF kind = "executed" THEN Paid(m) + 1 ELSE Paid(m)) /\ Paid(m) \in Nat
  BY PaidGrows, PaidIs DEF Shape
<1>3. ~Quiet(m) /\ ~Waiting(m)
  BY DEF Quiet, Waiting
<1>4. \A id \in Ids : Tracked(m, id)' <=> Tracked(m, id)
  BY DEF Tracked, nodeVars
<1>5. ~Unseen(m) /\ kind = "executed" => ~Unseen(m)'
  <2>1. PICK k : Placed(k, kind, h, m)
    BY NewPlace DEF Shape
  <2>2. /\ DOMAIN log' = DOMAIN log \cup {k} /\ log'[k].kind = kind
        /\ \A i \in DOMAIN log : log'[i] = log[i]
    BY <2>1 DEF Placed
  <2> QED BY <2>2 DEF Unseen, nodeVars
<1>6. ASSUME NEW id \in Ids, Tracked(m, id)
      PROVE  txs'[id] = "mined" /\ Made(m, HashOf(id))'
  <2>1. txs[id] = "mined" /\ Made(m, HashOf(id))
    BY <1>3, <1>6 DEF Account
  <2>2. ~Unseen(m) /\ Paid(m) = 0
    BY <1>2, <1>3, <2>1 DEF Made
  <2>3. \A g \in PayloadsOf(m) : ~Live(g)'
    <3>1. \A g \in PayloadsOf(m) : Live(g) => g = h
      BY <2>1 DEF Made
    <3> QED BY <1>1, <3>1
  <2>4. Quiet(m)'
    BY <2>3 DEF Quiet
  <2>5. Paid(m)' <= 1 /\ (Unseen(m)' => Paid(m)' = 0)
    BY <1>2, <1>5, <2>2
  <2>6. Made(m, HashOf(id))'
    BY <2>3, <2>4, <2>5 DEF Made
  <2> QED BY <2>1, <2>6
<1>7. \E id \in Ids : Tracked(m, id)
  BY <1>3 DEF Account
<1> QED BY <1>4, <1>6, <1>7 DEF Account

(* A request is sent, or is mined: no other market is concerned.           *)
LEMMA SentBooks ==
  ASSUME Shape, Belongs, Books, NEW id \in Ids, NEW status \in {"pool", "mined"},
         txs' = [txs EXCEPT ![id] = status],
         \/ status = "pool" /\ Waiting(id.market)'
         \/ status = "mined" /\ Made(id.market, HashOf(id))',
         \A o \in Ids : Tracked(id.market, o)' <=> o = id,
         \A o \in Ids : Tracked(id.market, o) => o = id,
         \A m \in Markets : m # id.market =>
            Untouched(m) /\ \A o \in Ids : Tracked(m, o)' <=> Tracked(m, o)
  PROVE  Books'
<1>1. txs \in [Ids -> {"none", "pool", "mined", "reverted"}]
  BY DEF Shape, WorldTypes
<1>2. txs'[id] = status /\ \A o \in Ids : o # id => txs'[o] = txs[o]
  BY <1>1
<1>3. ASSUME NEW m \in Markets PROVE Account(m)'
  <2>1. CASE m = id.market
    <3>1. ASSUME NEW o \in Ids, Tracked(m, o)'
          PROVE  \/ txs'[o] = "pool" /\ Waiting(m)'
                 \/ txs'[o] = "mined" /\ Made(m, HashOf(o))'
      <4>1. o = id
        BY <2>1, <3>1
      <4> QED BY <1>2, <2>1, <4>1
    <3>2. \E o \in Ids : Tracked(m, o)'
      BY <2>1
    <3> QED BY <3>1, <3>2 DEF Account
  <2>2. CASE m # id.market
    <3>1. \A o \in Ids : Tracked(m, o) => o # id
      BY <2>2, TrackedOnce
    <3>2. \A o \in Ids : Tracked(m, o) => txs'[o] = txs[o]
      BY <1>2, <3>1
    <3> QED BY <2>2, <3>2, AccountKept DEF Books
  <2> QED BY <2>1, <2>2
<1>4. ASSUME NEW o \in Ids, txs'[o] = "pool" PROVE Tracked(o.market, o)'
  <2>1. o.market \in Markets
    BY HashTypes
  <2>2. CASE o = id
    BY <2>2
  <2>3. CASE o # id
    <3>1. Tracked(o.market, o)
      BY <1>2, <1>4, <2>3 DEF Books, Pooled
    <3>2. o.market # id.market
      BY <2>3, <3>1
    <3> QED BY <2>1, <3>1, <3>2
  <2> QED BY <2>2, <2>3
<1>5. Pooled'
  BY <1>4 DEF Pooled
<1> QED BY <1>3, <1>5 DEF Books

(* The proposal of a request leaves the other markets alone.               *)
LEMMA ProposedElsewhere ==
  ASSUME MarketsApart, Shape, NEW id \in Ids, cursor' = cursor,
         log' = Event("proposed", HashOf(id), id.market),
         NEW m \in Markets, m # id.market
  PROVE  Untouched(m)
<1>1. id.market \in Markets /\ HashOf(id) \in PayloadsOf(id.market) /\ HashOf(id) \in Hashes
  BY HashTypes DEF PayloadsOf
<1>2. HashOf(id) \notin PayloadsOf(m)
  BY <1>1, OneMarket
<1> QED BY <1>1, <1>2, ElsewhereUntouched

(* A request is made only for a market that waits, and the answer that     *)
(* tells of its transaction tracks it.                                     *)
LEMMA PublishBooks ==
  ASSUME MarketsApart, Shape, Belongs, Books, Publish, ~Fails
  PROVE  Books'
<1>1. /\ call \in Ids /\ stage = "call"
      /\ UNCHANGED <<mem, cursor, call>>
      /\ \/ UNCHANGED <<log, txs>> /\ answer'.tx = None
         \/ /\ txs' = [txs EXCEPT ![call] = "pool"] /\ UNCHANGED log
            /\ answer'.tx = call /\ answer' \in Answer
         \/ /\ txs' = [txs EXCEPT ![call] = "mined"]
            /\ log' = Event("proposed", HashOf(call), call.market)
            /\ answer'.tx = call /\ answer' \in Answer
  BY PublishIs DEF Belongs
<1>2. PICK id \in Ids : id = call
  BY <1>1
<1>3. answer = None /\ mem.markets[id.market].tx = None
  BY <1>1, <1>2 DEF Shape, Stages, Belongs, Untracked
<1>4. id.market \in Markets /\ \A o \in Ids : o # None
  BY HashTypes, CallsApart
<1>5. \A o \in Ids : ~Tracked(id.market, o)
  BY <1>3, <1>4 DEF Tracked
<1>6. Waiting(id.market)
  BY <1>4, <1>5 DEF Books, Account
<1>7. \A m \in Markets : m # id.market => \A o \in Ids : Tracked(m, o)' <=> Tracked(m, o)
  BY <1>1, <1>2, <1>3 DEF Tracked
<1>8. CASE UNCHANGED <<log, txs>> /\ answer'.tx = None
  <2>1. \A o \in Ids : ~Tracked(id.market, o)'
    BY <1>1, <1>3, <1>4, <1>8 DEF Tracked
  <2> QED BY <1>1, <1>5, <1>7, <1>8, <2>1, BooksKept
<1>9. CASE answer'.tx = call /\ answer' \in Answer
  <2>1. answer' # None
    BY <1>9, CallsApart
  <2>2. \A o \in Ids : Tracked(id.market, o)' <=> o = id
    BY <1>1, <1>2, <1>3, <1>4, <1>9, <2>1 DEF Tracked
  <2>3. CASE txs' = [txs EXCEPT ![call] = "pool"] /\ UNCHANGED log
    <3>1. \A m \in Markets : Untouched(m)
      BY <1>1, <2>3 DEF Untouched, Live, EventsOf, Paid, Unseen
    <3>2. Waiting(id.market)'
      BY <1>4, <1>6, <3>1, UntouchedAccount
    <3> QED BY <1>2, <1>5, <1>7, <2>2, <2>3, <3>1, <3>2, SentBooks
  <2>4. CASE /\ txs' = [txs EXCEPT ![call] = "mined"]
             /\ log' = Event("proposed", HashOf(call), call.market)
    <3>1. log' = Event("proposed", HashOf(id), id.market)
      BY <1>2, <2>4
    <3>2. Made(id.market, HashOf(id))'
      BY <1>1, <1>6, <3>1, Proposes
    <3>3. \A m \in Markets : m # id.market => Untouched(m)
      BY <1>1, <3>1, ProposedElsewhere
    <3> QED BY <1>2, <1>5, <1>7, <2>2, <2>4, <3>2, <3>3, SentBooks
  <2> QED BY <1>1, <1>9, <2>3, <2>4, <1>8
<1> QED BY <1>1, <1>8, <1>9

(* A transaction in the pool is tracked by a market that waits, so it is   *)
(* never refused for a live proposal and makes the only one.               *)
LEMMA MineBooks ==
  ASSUME MarketsApart, Shape, Belongs, Books, NEW id \in Ids, Mine(id)
  PROVE  Books'
<1>1. /\ txs[id] = "pool" /\ txs' = Mined(id, txs) /\ log' = Proposed(id)
      /\ UNCHANGED <<mem, cursor, call, answer>>
  BY DEF Mine, nodeVars
<1>2. id.market \in Markets /\ HashOf(id) \in PayloadsOf(id.market)
  BY HashTypes DEF PayloadsOf
<1>3. Tracked(id.market, id)
  BY <1>1 DEF Books, Pooled
<1>4. Waiting(id.market)
  BY <1>1, <1>2, <1>3 DEF Books, Account
<1>5. ~Live(HashOf(id))
  BY <1>2, <1>4 DEF Waiting, Quiet
<1>6. txs' = [txs EXCEPT ![id] = "mined"] /\ log' = Event("proposed", HashOf(id), id.market)
  BY <1>1, <1>5 DEF Mined, Proposed
<1>7. \A m \in Markets : \A o \in Ids : Tracked(m, o)' <=> Tracked(m, o)
  BY <1>1 DEF Tracked
<1>8. \A o \in Ids : Tracked(id.market, o) => o = id
  BY <1>2, <1>3, TrackedOnce
<1>9. \A o \in Ids : Tracked(id.market, o)' <=> o = id
  BY <1>2, <1>3, <1>7, <1>8
<1>10. Made(id.market, HashOf(id))'
  BY <1>1, <1>4, <1>6, Proposes
<1>11. \A m \in Markets : m # id.market => Untouched(m)
  BY <1>1, <1>6, ProposedElsewhere
<1> QED BY <1>6, <1>7, <1>8, <1>9, <1>10, <1>11, SentBooks

(* A scan sees the deletions; an entry is reset by one that was unseen.    *)
LEMMA PollBooks ==
  ASSUME MarketsApart, Shape, Belongs, Books, Poll, ~Fails
  PROVE  Books'
<1>1. PICK from \in {cursor, Len(log)} :
           /\ from # cursor => cursor = 0 /\ Fails
           /\ \A m \in Markets : PolledEntry(mem.markets[m], mem'.markets[m], from)
  BY PollIs
<1>2. from = cursor
  BY <1>1
<1>3. stage = "idle" /\ cursor' = Len(log) /\ UNCHANGED <<call, answer, log, txs>>
  BY DEF Poll, chainVars
<1>4. answer = None
  BY <1>3 DEF Shape, Stages
<1>5. \A m \in Markets : /\ \A id \in Ids : Tracked(m, id) <=> mem.markets[m].tx = id
                         /\ \A id \in Ids : Tracked(m, id)' <=> mem'.markets[m].tx = id
  BY <1>3, <1>4 DEF Tracked
<1>6. \A m \in Markets : ~Unseen(m)'
  <2>1. PICK n \in Nat : n = Len(log) /\ DOMAIN log = 1..n
    BY DEF Shape, LogTypes
  <2>2. \A i \in 1..n : ~(i > n)
    BY <2>1
  <2> QED BY <1>3, <2>1, <2>2 DEF Unseen
<1>7. \A m \in Markets : /\ \A g : Live(g)' <=> Live(g)
                         /\ Paid(m)' = Paid(m)
  BY <1>3 DEF Live, EventsOf, Paid
<1>8. ASSUME NEW m \in Markets
      PROVE  /\ Quiet(m)' <=> Quiet(m)
             /\ Waiting(m) => Waiting(m)'
             /\ \A h : Made(m, h) => Made(m, h)'
  <2>1. Quiet(m)' <=> Quiet(m)
    BY <1>7 DEF Quiet
  <2>2. Waiting(m) => Waiting(m)'
    BY <1>6, <1>7, <2>1 DEF Waiting
  <2>3. ASSUME NEW h, Made(m, h) PROVE Made(m, h)'
    BY <1>6, <1>7, <2>1, <2>3 DEF Made
  <2> QED BY <2>1, <2>2, <2>3
<1>9. ASSUME NEW m \in Markets, mem'.markets[m].tx = mem.markets[m].tx
      PROVE  Account(m)' /\ \A id \in Ids : Tracked(m, id)' <=> Tracked(m, id)
  <2>1. \A id \in Ids : Tracked(m, id)' <=> Tracked(m, id)
    BY <1>5, <1>9
  <2>2. (\A id \in Ids : ~Tracked(m, id)') => Waiting(m)'
    BY <1>8, <2>1 DEF Books, Account
  <2>3. ASSUME NEW id \in Ids, Tracked(m, id)'
        PROVE  \/ txs'[id] = "pool" /\ Waiting(m)'
               \/ txs'[id] = "mined" /\ Made(m, HashOf(id))'
    <3>1. \/ txs[id] = "pool" /\ Waiting(m)
          \/ txs[id] = "mined" /\ Made(m, HashOf(id))
      BY <2>1, <2>3 DEF Books, Account
    <3>2. Made(m, HashOf(id)) => Made(m, HashOf(id))'
      BY <1>8
    <3> QED BY <1>3, <1>8, <3>1, <3>2
  <2> QED BY <2>1, <2>2, <2>3 DEF Account
<1>10. ASSUME NEW m \in Markets, mem'.markets[m].tx # mem.markets[m].tx
       PROVE  Account(m)' /\ \A id \in Ids : Tracked(m, id) => txs[id] # "pool"
  <2>1. PolledEntry(mem.markets[m], mem'.markets[m], from) /\ mem.markets[m] \in Entry
    BY <1>1, EntriesWithin
  <2>2. mem'.markets[m].tx = None
    BY <1>10, <2>1 DEF PolledEntry
  <2>3. PICK i \in DOMAIN log : i > from /\ log[i].kind = "deleted"
                                /\ log[i].hash = mem.markets[m].hash
    BY <1>10, <2>1 DEF PolledEntry
  <2>4. mem.markets[m].hash # None
    BY <2>3, EventFields, ControlAssumption DEF Shape, Hashes
  <2>5. PICK id \in Ids : id = mem.markets[m].tx
    BY <2>1, <2>4, EntryFields DEF Belongs, OwnEntries, Own
  <2>6. id.market = m /\ log[i].hash = HashOf(id)
    BY <2>3, <2>4, <2>5, CallsApart DEF Belongs, OwnEntries, Own
  <2>7. log[i].market = m
    BY <2>6, OwnMarket DEF Belongs
  <2>8. Unseen(m)
    BY <1>2, <2>3, <2>7 DEF Unseen
  <2>9. Tracked(m, id) /\ ~Waiting(m)
    BY <2>5, <2>8 DEF Tracked, Waiting
  <2>10. Made(m, HashOf(id))
    BY <2>9 DEF Books, Account
  <2>11. Quiet(m) /\ Paid(m) = 0
    BY <2>8, <2>10 DEF Made
  <2>12. Waiting(m)'
    BY <1>6, <1>7, <1>8, <2>11 DEF Waiting
  <2>13. \A o \in Ids : ~Tracked(m, o)'
    BY <1>5, <2>2, CallsApart
  <2>14. \A o \in Ids : Tracked(m, o) => txs[o] # "pool"
    BY <2>9 DEF Books, Account
  <2> QED BY <2>12, <2>13, <2>14 DEF Account
<1>11. \A m \in Markets : Account(m)'
  BY <1>9, <1>10
<1>12. ASSUME NEW id \in Ids, txs'[id] = "pool" PROVE Tracked(id.market, id)'
  <2>1. id.market \in Markets /\ Tracked(id.market, id) /\ txs[id] = "pool"
    BY <1>3, <1>12, HashTypes DEF Books, Pooled
  <2> QED BY <1>9, <1>10, <2>1
<1>13. Pooled'
  BY <1>12 DEF Pooled
<1> QED BY <1>11, <1>13 DEF Books

(* The loop otherwise tracks what it tracked.                              *)
LEMMA NodeBooks ==
  ASSUME Shape, Belongs, Books, Refresh \/ Decide \/ Output, ~Fails
  PROVE  Books'
<1>1. UNCHANGED <<log, cursor, txs>>
  BY DEF Refresh, Decide, Output, chainVars
<1>2. \A o \in Ids : o # None
  BY CallsApart
<1>3. CASE Refresh
  <2>1. stage = "refresh" /\ UNCHANGED <<call, answer>>
    BY <1>3 DEF Refresh
  <2>2. answer = None
    BY <2>1 DEF Shape, Stages
  <2>3. ASSUME NEW m \in Markets PROVE mem'.markets[m].tx = mem.markets[m].tx
    <3>1. RefreshedEntry(mem.markets[m], mem'.markets[m]) /\ mem.markets[m] \in Entry
      BY <1>3, RefreshIs, EntriesWithin
    <3>2. SUFFICES ASSUME mem.markets[m].tx # None, txs[mem.markets[m].tx] = "reverted" PROVE FALSE
      BY <3>1 DEF RefreshedEntry
    <3>3. PICK id \in Ids : id = mem.markets[m].tx
      BY <3>1, <3>2, EntryFields
    <3>4. Tracked(m, id)
      BY <3>3 DEF Tracked
    <3> QED BY <3>2, <3>3, <3>4 DEF Books, Account
  <2>4. \A m \in Markets : \A id \in Ids : Tracked(m, id)' <=> Tracked(m, id)
    BY <2>1, <2>3 DEF Tracked
  <2> QED BY <1>1, <2>4, BooksKept
<1>4. CASE Decide
  <2>1. stage = "decide" /\ UNCHANGED answer
    BY <1>4 DEF Decide
  <2>2. answer = None
    BY <2>1 DEF Shape, Stages
  <2>3. \A m \in Markets : mem'.markets[m].tx = mem.markets[m].tx
    BY <1>4, DecideIs DEF Alike, Same
  <2>4. \A m \in Markets : \A id \in Ids : Tracked(m, id)' <=> Tracked(m, id)
    BY <2>1, <2>2, <2>3 DEF Tracked
  <2> QED BY <1>1, <2>4, BooksKept
<1>5. CASE Output
  <2>1. /\ answer \in Answer
        /\ \A m \in Markets : IF call \in Ids /\ m = call.market
                              THEN OutputEntry(mem.markets[m], mem'.markets[m], answer)
                              ELSE mem'.markets[m] = mem.markets[m]
    BY <1>5, OutputIs
  <2>2. answer # None /\ answer' = None
    BY <1>5, <2>1, CallsApart DEF Output
  <2>3. ASSUME NEW m \in Markets, NEW id \in Ids PROVE Tracked(m, id)' <=> Tracked(m, id)
    <3>1. Tracked(m, id)' <=> mem'.markets[m].tx = id
      BY <2>2 DEF Tracked
    <3>2. CASE call \in Ids /\ m = call.market
      <4>1. mem.markets[m].tx = None
        BY <3>2 DEF Belongs, Untracked
      <4>2. Tracked(m, id) <=> answer.tx = id
        BY <1>2, <2>2, <3>2, <4>1 DEF Tracked
      <4>3. mem'.markets[m].tx = IF answer.kind = "sent" THEN answer.tx ELSE None
        BY <2>1, <3>2, <4>1 DEF OutputEntry
      <4>4. answer.tx # None => answer.kind = "sent"
        BY <2>2 DEF Belongs, OwnAnswer
      <4> QED BY <1>2, <3>1, <4>2, <4>3, <4>4
    <3>3. CASE ~(call \in Ids /\ m = call.market)
      <4>1. mem'.markets[m] = mem.markets[m]
        BY <2>1, <3>3
      <4>2. Tracked(m, id) <=> mem.markets[m].tx = id
        BY <3>3 DEF Tracked
      <4> QED BY <3>1, <4>1, <4>2
    <3> QED BY <3>2, <3>3
  <2> QED BY <1>1, <2>3, BooksKept
<1> QED BY <1>3, <1>4, <1>5

(* The Governor executes or deletes a proposal.                            *)
LEMMA EndBooks ==
  ASSUME MarketsApart, Shape, Belongs, Books, NEW h \in Hashes, Execute(h) \/ Delete(h)
  PROVE  Books'
<1> DEFINE m == log[Latest(EventsOf(h))].market
<1>1. Live(h) /\ UNCHANGED <<nodeVars, txs>>
  BY DEF Execute, Delete
<1>2. PICK kind \in {"executed", "deleted"} : log' = Event(kind, h, m)
  BY DEF Execute, Delete
<1>3. At(log, h) # {} /\ EventsOf(h) = At(log, h) /\ log \in Seq(LogEvent)
  BY <1>1, LiveIsAt DEF Live, Shape, LogTypes
<1>4. Latest(EventsOf(h)) \in DOMAIN log /\ log[Latest(EventsOf(h))].hash = h
  BY <1>3, LatestEvent
<1>5. IF h \in Payloads THEN m \in Markets /\ h \in PayloadsOf(m) ELSE m = None
  BY <1>4 DEF Belongs, OwnEvents, OwnEvent
<1> HIDE DEF m
<1>6. PICK n : n = m
  OBVIOUS
<1>7. \A o \in Markets : \A id \in Ids : Tracked(o, id)' <=> Tracked(o, id)
  BY <1>1 DEF Tracked, nodeVars
<1>8. None \notin Markets /\ n \in Markets \cup {None} /\ cursor' = cursor
  BY <1>1, <1>5, <1>6, CallsApart DEF nodeVars
<1>9. ASSUME NEW o \in Markets PROVE Account(o)'
  <2>1. CASE o = n
    <3>1. h \in PayloadsOf(n) /\ n \in Markets
      BY <1>5, <1>6, <1>8, <2>1
    <3> QED BY <1>1, <1>2, <1>6, <2>1, <3>1, Ends DEF Books
  <2>2. CASE o # n
    <3>1. h \notin PayloadsOf(o)
      <4>1. CASE h \in Payloads
        BY <1>5, <1>6, <2>2, <4>1, OneMarket
      <4>2. CASE h \notin Payloads
        BY <4>2, ControlAssumption DEF PayloadsOf
      <4> QED BY <4>1, <4>2
    <3>2. Untouched(o)
      BY <1>2, <1>6, <1>8, <2>2, <3>1, ElsewhereUntouched
    <3> QED BY <1>1, <1>7, <3>2, AccountKept DEF Books
  <2> QED BY <2>1, <2>2
<1>10. Pooled'
  BY <1>1, <1>7, HashTypes DEF Books, Pooled
<1> QED BY <1>9, <1>10 DEF Books

(* Withdrawals are proposed and disputed.                                  *)
LEMMA WithdrawalBooks ==
  ASSUME MarketsApart, Shape, Belongs, Books, Dispute \/ \E w \in Withdrawals : ProposeWithdrawal(w)
  PROVE  Books'
<1>1. UNCHANGED <<mem, cursor, txs>>
  BY DEF Dispute, ProposeWithdrawal, nodeVars
<1>2. \/ log' = log
      \/ \E kind \in {"proposed", "deleted"}, w \in Withdrawals : log' = Event(kind, w, None)
  BY DEF Dispute, DisputeSent, DisputeRefused, DisputeLost, DisputeNotRun, ProposeWithdrawal
<1>3. \A m \in Markets : \A id \in Ids : Tracked(m, id)' <=> Tracked(m, id)
  <2>1. CASE Dispute
    <3>1. call \in Withdrawals /\ call' \in {call, None}
      BY <2>1 DEF Dispute
    <3>2. call \notin Ids /\ call' \notin Ids
      BY <3>1, CallsApart
    <3> QED BY <1>1, <3>2 DEF Tracked
  <2>2. CASE \E w \in Withdrawals : ProposeWithdrawal(w)
    BY <2>2 DEF ProposeWithdrawal, nodeVars, Tracked
  <2> QED BY <2>1, <2>2
<1>4. ASSUME NEW m \in Markets PROVE Untouched(m)
  <2>1. CASE log' = log
    BY <1>1, <2>1 DEF Untouched, Live, EventsOf, Paid, Unseen
  <2>2. ASSUME NEW kind \in {"proposed", "deleted"}, NEW w \in Withdrawals,
               log' = Event(kind, w, None)
        PROVE  Untouched(m)
    <3>1. w \in Hashes /\ w \notin PayloadsOf(m) /\ None # m
      BY ControlAssumption, CallsApart DEF Hashes, PayloadsOf
    <3> QED BY <1>1, <2>2, <3>1, ElsewhereUntouched
  <2> QED BY <1>2, <2>1, <2>2
<1>5. \A m \in Markets : Account(m)'
  BY <1>1, <1>3, <1>4, AccountKept DEF Books
<1>6. Pooled'
  BY <1>1, <1>3, HashTypes DEF Books, Pooled
<1> QED BY <1>5, <1>6 DEF Books

(* Every step without a failure keeps the books.                           *)
LEMMA BooksStep ==
  ASSUME MarketsApart, Shape, Belongs, OneAtATime, [Next]_vars
  PROVE  OneAtATime'
<1> SUFFICES ASSUME Calm' PROVE Books'
  BY DEF OneAtATime
<1>1. Books /\ ~Fails /\ ~Crash
  BY CalmStep DEF OneAtATime
<1>2. CASE Loop
  BY <1>1, <1>2, PollBooks, NodeBooks, PublishBooks, WithdrawalBooks DEF Loop
<1>3. CASE Governor
  BY <1>1, <1>3, MineBooks, EndBooks, WithdrawalBooks DEF Governor
<1>4. CASE Agent \/ UNCHANGED vars
  <2>1. UNCHANGED <<mem, cursor, call, answer, log, txs>>
    BY <1>4 DEF Agent, Trade, Settle, Request, Snapshot, vars, nodeVars, chainVars
  <2>2. \A m \in Markets : \A id \in Ids : Tracked(m, id)' <=> Tracked(m, id)
    BY <2>1 DEF Tracked
  <2> QED BY <1>1, <2>1, <2>2, BooksKept
<1> QED BY <1>1, <1>2, <1>3, <1>4 DEF Next

(* So they are right in every state that no failure and no restart         *)
(* precedes.                                                               *)
LEMMA BooksAlways ==
  ASSUME MarketsApart
  PROVE  Spec => []OneAtATime
<1>1. Init => OneAtATime
  <2> SUFFICES ASSUME Init PROVE Books
    BY DEF OneAtATime
  <2>1. log = <<>> /\ txs = [id \in Ids |-> "none"] /\ mem = NoState /\ answer = None
    BY DEF Init
  <2>2. DOMAIN log = {} /\ LogTypes
    BY <2>1, InitShape DEF Shape
  <2>3. \A m \in Markets : \A id \in Ids : ~Tracked(m, id)
    BY <2>1, CallsApart DEF Tracked, NoState, NoEntry
  <2>4. ASSUME NEW m \in Markets PROVE Waiting(m)
    <3>1. Quiet(m) /\ ~Unseen(m)
      BY <2>2 DEF Quiet, Live, EventsOf, Unseen
    <3>2. Payments(m) = {}
      BY <2>2 DEF Payments
    <3>3. Paid(m) = 0
      BY <2>2, <3>2, PaidIs
    <3> QED BY <3>1, <3>3 DEF Waiting
  <2> QED BY <2>1, <2>3, <2>4 DEF Books, Account, Pooled
<1>2. Shape /\ Belongs /\ OneAtATime /\ [Next]_vars => OneAtATime'
  BY BooksStep
<1> QED BY <1>1, <1>2, ShapeAlways, BelongsAlways, PTL DEF Spec

(* As long as no call fails and the node does not restart, a market is     *)
(* reimbursed once, over every delay of the transactions, every deletion   *)
(* and retry, every new request and every order of scan and receipt.       *)
THEOREM ControlReimburses ==
  ASSUME MarketsApart
  PROVE  Spec => []ReimbursedOnceUntilFailure
<1>1. Shape /\ OneAtATime => ReimbursedOnceUntilFailure
  <2> SUFFICES ASSUME Shape, Books, NEW m \in Markets PROVE Paid(m) <= 1
    BY DEF OneAtATime, Calm, ReimbursedOnceUntilFailure, ReimbursedOnce
  <2>1. Paid(m) \in Nat /\ Account(m)
    BY PaidIs DEF Shape, Books
  <2> QED BY <2>1 DEF Account, Waiting, Made
<1> QED BY <1>1, ShapeAlways, BooksAlways, PTL

(* And the entry of a market whose reimbursement is proposed knows it, or  *)
(* the answer that tells is being digested, so that the events of the      *)
(* Governor and the outputs of the calls find the entry they are about.    *)
THEOREM ControlTracks ==
  ASSUME MarketsApart
  PROVE  Spec => []LiveIsTracked
<1>1. Shape /\ Belongs /\ OneAtATime => LiveIsTracked
  <2> SUFFICES ASSUME Shape, Belongs, Books, NEW i \in DOMAIN log,
                      i = Latest(EventsOf(log[i].hash)), log[i].kind = "proposed",
                      log[i].market # None
               PROVE  LET e == mem.markets[log[i].market] IN
                      \/ e.hash = log[i].hash
                      \/ e.tx # None /\ HashOf(e.tx) = log[i].hash
                      \/ answer # None /\ call \in Ids /\ HashOf(call) = log[i].hash
    BY DEF OneAtATime, Calm, LiveIsTracked
  <2>1. PICK h : h = log[i].hash
    OBVIOUS
  <2>2. PICK m : m = log[i].market
    OBVIOUS
  <2>3. m \in Markets /\ h \in PayloadsOf(m)
    BY <2>1, <2>2 DEF Belongs, OwnEvents, OwnEvent
  <2>4. i \in EventsOf(h)
    BY <2>1 DEF EventsOf
  <2>5. Live(h)
    BY <2>1, <2>4 DEF Live
  <2>6. ~Waiting(m)
    BY <2>3, <2>5 DEF Waiting, Quiet
  <2>7. Account(m)
    BY <2>3 DEF Books
  <2>8. PICK id \in Ids : Tracked(m, id)
    BY <2>6, <2>7 DEF Account
  <2>9. HashOf(id) = h
    BY <2>3, <2>5, <2>6, <2>7, <2>8 DEF Account, Made
  <2>10. id # None
    BY CallsApart
  <2>11. CASE mem.markets[m].tx = id
    BY <2>1, <2>2, <2>9, <2>10, <2>11
  <2>12. CASE answer # None /\ call \in Ids /\ call.market = m /\ answer.tx = id
    <3>1. answer.tx = call
      BY <2>10, <2>12 DEF Belongs, OwnAnswer
    <3> QED BY <2>1, <2>9, <2>12, <3>1
  <2> QED BY <2>8, <2>11, <2>12 DEF Tracked
<1> QED BY <1>1, ShapeAlways, BelongsAlways, BooksAlways, PTL
=============================================================================
