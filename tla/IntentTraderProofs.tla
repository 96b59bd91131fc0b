------------------------- MODULE IntentTraderProofs -------------------------
(***************************************************************************)
(* What the intent trader guarantees for every number of intents, every    *)
(* credit and every number of failures, crashes, disputes and transactions *)
(* that are lost, late or refused.                                         *)
(***************************************************************************)
EXTENDS IntentTrader, SharedLemmas

Event == [kind : Governor \cup {"transfer"}, of : Intents]
Tx == [kind : {"deposit", "reimbursement"}, of : Intents, state : {"pool", "mined", "reverted"}]
ToolCall == [kind : Kinds, of : Intents]
Outcomes == {"done", "unclear", "retry", "refused"}
OrderEntry == [of : Intents, state : {"open", "filled", "failed"}, denied : BOOLEAN]
AllHashes == {HashOf(i) : i \in Intents}
PaidHashes == {h \in AllHashes : \E b \in 1..Height : chain[b].kind = "executed"
                                                       /\ HashOf(chain[b].of) = h}
Update == [executed : SUBSET PaidHashes, deleted : SUBSET AllHashes]

WorldTypes ==
  /\ load \in Workloads /\ chain \in Seq(Event) /\ txs \in Seq(Tx)
  /\ orders \in Seq(OrderEntry)
Indexed(f) == DOMAIN f = Intents /\ f = [i \in Intents |-> f[i]]
NodeTypes ==
  /\ Indexed(intent)
  /\ waiting \in Update /\ queue \in Seq(Update)
  /\ scanned \in 0..Height /\ cursor \in 0..Height /\ fresh \subseteq 1..Height
  /\ stage \in {"idle", "ingest", "refresh", "choose", "call", "output"}
  /\ stage \in {"call", "output"} => call \in ToolCall
  /\ stage \notin {"call", "output"} => call = None
  /\ stage = "output" => answer \in Outcomes

(* How far the trade of an intent has come: it has one order at most, or   *)
(* the agent was told of one that there is none.                           *)
Progress(i) ==
  IF OrdersOf(i) = {} THEN "accepted"
  ELSE IF Denied(i) THEN "doubted"
  ELSE orders[Max(OrdersOf(i))].state
Single(i) == Denied(i) \/ \A k, l \in OrdersOf(i) : k = l

(* A record of an intent fits what happened: an order that is not placed   *)
(* was not tried or was denied, tokens are deposited after they were       *)
(* bought, what is submitted is the one transfer that may still arrive,    *)
(* what is paid was proposed.  Only such an intent is released that        *)
(* nothing was spent for, or that is in doubt.                             *)
IsTx(k, kind, i) == txs[k].kind = kind /\ txs[k].of = i
Pending(i) == {k \in DOMAIN txs : IsTx(k, "deposit", i) /\ txs[k].state # "reverted"}
Arrived(i, at) ==
  \E b \in 1..Height : chain[b].kind = "transfer" /\ chain[b].of = i /\ b >= at
Real(i, at) ==
  \E b \in 1..Height : /\ chain[b].kind = "transfer" /\ HashOf(chain[b].of) = HashOf(i)
                       /\ b >= at
Sound(i, r) ==
  /\ r \in Record(Len(orders), Height, Len(txs))
  /\ r.status = "none" => r = NoRecord
  /\ ~r.cid => r.order = "idle" /\ Progress(i) = "accepted"
  /\ r.deposit # "idle" => r.order = "filled"
  /\ r.reimbursement # "idle" => r.deposit = "deposited"
  /\ r.status = "released" => r.order # "filled" /\ Progress(i) \in {"accepted", "failed", "doubted"}
  /\ r.status = "reimbursed" => HashOf(i) \in PaidHashes
  /\ r.order = "idle" => Progress(i) \in {"accepted", "doubted"}
  /\ r.order \in {"placed", "filled"} => r.orderId \in OrdersOf(i)
  /\ r.order = "filled" => orders[r.orderId].state = "filled"
  /\ r.orderAt <= r.from /\ r.from <= scanned
  /\ r.deposit = "idle" => Pending(i) = {}
  /\ r.deposit = "submitted" =>
       r.depositTx # 0 /\ IsTx(r.depositTx, "deposit", i) /\ Pending(i) \subseteq {r.depositTx}
  /\ r.deposit = "deposited" => Real(i, r.orderAt)
  /\ \A k \in DOMAIN txs : IsTx(k, "deposit", i) =>
       r.order = "filled" /\ (txs[k].state = "mined" => Arrived(i, r.orderAt))
  /\ \A k \in DOMAIN txs : IsTx(k, "reimbursement", i) => r.deposit = "deposited"
  /\ \A b \in 1..Height : chain[b].kind \in Governor /\ chain[b].of = i =>
       r.deposit = "deposited"
Records == \A i \in Intents : Sound(i, intent[i])

(* One transfer may arrive, and one order is placed but for one that was   *)
(* denied.                                                                 *)
Once == \A i \in Intents : Single(i) /\ \A k, l \in Pending(i) : k = l

(* A call is about an open intent that was marked for it; its effect and   *)
(* its answer agree.                                                       *)
Marked(c) ==
  LET r == intent[c.of]
  IN  /\ r.status = "open"
      /\ c.kind = "archive" => ~r.cid
      /\ c.kind = "order" => r.order = "dispatched"
      /\ c.kind = "deposit" => r.deposit = "dispatched"
      /\ c.kind = "reimbursement" => r.reimbursement = "dispatched"
Undone(c) ==
  /\ c.kind = "order" => Progress(c.of) \in {"accepted", "doubted"}
  /\ c.kind = "deposit" => Pending(c.of) = {}
LastSent(c, k) ==
  /\ k \in DOMAIN txs /\ IsTx(k, c.kind, c.of)
  /\ \A l \in DOMAIN txs : IsTx(l, c.kind, c.of) => l <= k
  /\ c.kind = "deposit" => Pending(c.of) \subseteq {k}
Answers(kind) ==
  CASE kind = "archive" -> {"done", "retry", "refused"}
    [] kind = "order" -> {"done", "retry", "unclear"}
    [] kind = "deposit" -> {"done"}
    [] kind = "reimbursement" -> Outcomes
Calls ==
  /\ stage \in {"call", "output"} => Marked(call)
  /\ stage = "call" \/ (stage = "output" /\ answer = "retry") => Undone(call)
  /\ stage = "output" => answer \in Answers(call.kind)
  /\ stage = "output" /\ answer = "done" /\ call.kind = "order" => Len(orders) \in OrdersOf(call.of)
  /\ stage = "output" /\ answer = "done" /\ call.kind \in {"deposit", "reimbursement"} =>
       \E k \in DOMAIN txs : LastSent(call, k)
Shape == WorldTypes /\ NodeTypes /\ Records /\ Once /\ Calls

(* What is reserved is covered by the credit.                              *)
Covered == Reserved <= load.credit

(* An intent that was paid is not proposed again.  Nothing is executed     *)
(* while a proposal is pending or chosen, and an intent that was paid is   *)
(* no longer open when the next is chosen, or what paid it is the latest   *)
(* event of its hash and the pass knows of it as live.                     *)
Ours(i, b) == chain[b].kind \in Governor /\ HashOf(chain[b].of) = HashOf(i)
Working == {"refresh", "choose", "call", "output"}
JustPaid(i) ==
  /\ ~InPool("reimbursement")
  /\ \E a, b \in 1..Height :
       /\ a < b /\ chain[a] = [kind |-> "proposed", of |-> i]
       /\ chain[b] = [kind |-> "executed", of |-> i]
       /\ \A c \in 1..Height : Ours(i, c) => c = b \/ c <= a
       /\ stage \in Working => a <= cursor /\ cursor < b
NotAgain(i) ==
  /\ \A k \in DOMAIN txs : IsTx(k, "reimbursement", i) => txs[k].state # "pool"
  /\ \A b \in 1..Height : chain[b] = [kind |-> "proposed", of |-> i] =>
       \E c \in 1..Height : Ours(i, c) /\ b < c
  /\ ~(stage = "call" /\ call = [kind |-> "reimbursement", of |-> i])
PaidOnce ==
  /\ stage \in {"call", "output"} /\ call.kind = "reimbursement" => ~Busy
  /\ \A i \in Intents :
       /\ \A b, c \in Paid(i) : b = c
       /\ Paid(i) # {} => NotAgain(i)
       /\ Paid(i) # {} /\ intent[i].status = "open" => JustPaid(i)
-----------------------------------------------------------------------------
(* Numbers of intents have a least element.                                *)
LEMMA LeastIntent ==
  ASSUME NEW S, S \subseteq Intents, S # {}
  PROVE  Min(S) \in S
<1>1. S \subseteq Int
  BY TraderAssumption
<1>2. IsFiniteSet(S)
  BY TraderAssumption, FS_Subset
<1> QED BY <1>1, <1>2, EndsExist

(* The number of the only order.                                           *)
LEMMA MaxOfOne ==
  ASSUME NEW k \in Int
  PROVE  Max({k}) = k
<1>1. {k} \subseteq Int /\ {k} # {} /\ IsFiniteSet({k})
  BY FS_Singleton
<1>2. Max({k}) \in {k}
  BY ONLY <1>1, EndsExist
<1> QED BY <1>2

(* How far the trade of an intent has come, from any order of its own.     *)
LEMMA ProgressOf ==
  ASSUME WorldTypes, NEW i, NEW k \in OrdersOf(i), Single(i)
  PROVE  Progress(i) = IF Denied(i) THEN "doubted" ELSE orders[k].state
<1>1. CASE Denied(i)
  BY <1>1 DEF Progress
<1>2. CASE ~Denied(i)
  <2>1. OrdersOf(i) = {k}
    BY <1>2 DEF Single
  <2>2. k \in Int
    BY DEF OrdersOf, WorldTypes
  <2>3. Max(OrdersOf(i)) = k
    BY <2>1, <2>2, MaxOfOne
  <2> QED BY <1>2, <2>1, <2>3 DEF Progress
<1> QED BY <1>1, <1>2

(* An intent without orders has none.                                      *)
LEMMA ProgressTypes ==
  ASSUME WorldTypes, NEW i, Single(i)
  PROVE  /\ Progress(i) \in {"accepted", "open", "filled", "failed", "doubted"}
         /\ Progress(i) = "accepted" <=> OrdersOf(i) = {}
<1>1. CASE OrdersOf(i) = {}
  BY <1>1 DEF Progress
<1>2. CASE OrdersOf(i) # {}
  <2>1. PICK k : k \in OrdersOf(i)
    BY <1>2
  <2>2. orders[k] \in OrderEntry
    BY <2>1 DEF OrdersOf, WorldTypes
  <2>3. orders[k].state \in {"open", "filled", "failed"}
    BY <2>2 DEF OrderEntry
  <2> QED BY <1>2, <2>1, <2>3, ProgressOf
<1> QED BY <1>1, <1>2

(* When nothing happened at the exchange.                                  *)
LEMMA SameProgress ==
  ASSUME orders' = orders, NEW i
  PROVE  /\ Progress(i)' = Progress(i) /\ OrdersOf(i)' = OrdersOf(i) /\ Denied(i)' = Denied(i)
         /\ Single(i)' = Single(i)
BY DEF Progress, OrdersOf, Denied, Single

(* When nothing happened to the orders of an intent.                       *)
LEMMA OneProgress ==
  ASSUME WorldTypes, NEW j, Single(j), OrdersOf(j)' = OrdersOf(j), Denied(j)' = Denied(j),
         \A l \in OrdersOf(j) : orders'[l] = orders[l]
  PROVE  Progress(j)' = Progress(j)
<1>1. CASE OrdersOf(j) = {}
  BY <1>1 DEF Progress
<1>2. CASE OrdersOf(j) # {} /\ Denied(j)
  BY <1>2 DEF Progress
<1>3. CASE OrdersOf(j) # {} /\ ~Denied(j)
  <2>1. PICK l : OrdersOf(j) = {l}
    BY <1>3 DEF Single
  <2>2. l \in Int
    BY <2>1 DEF OrdersOf, WorldTypes
  <2>3. Max({l}) = l
    BY <2>2, MaxOfOne
  <2>4. Progress(j) = orders[l].state
    BY <1>3, <2>1, <2>3 DEF Progress
  <2>5. Progress(j)' = orders'[l].state
    BY <1>3, <2>1, <2>3 DEF Progress
  <2> QED BY <2>1, <2>4, <2>5
<1> QED BY <1>1, <1>2, <1>3

(* Updates of a record keep its type.                                      *)
Statuses == {"none", "open", "closed", "released", "reimbursed"}

(* Each update the trader makes, on a record of any bounds.                *)
LEMMA Updates ==
  ASSUME NEW o \in Nat, NEW n \in Nat, NEW m \in Nat, NEW r \in Record(o, n, m),
         NEW id \in 0..o, NEW k \in 0..m, NEW at \in 0..n
  PROVE  /\ \A v \in Statuses : [r EXCEPT !.status = v] \in Record(o, n, m)
         /\ [r EXCEPT !.cid = TRUE] \in Record(o, n, m)
         /\ \A v \in OrderStages : /\ [r EXCEPT !.order = v] \in Record(o, n, m)
                                   /\ [r EXCEPT !.order = v, !.orderId = id] \in Record(o, n, m)
         /\ [r EXCEPT !.order = "dispatched", !.orderAt = at, !.from = at] \in Record(o, n, m)
         /\ \A v \in DepositStages : /\ [r EXCEPT !.deposit = v] \in Record(o, n, m)
                                     /\ [r EXCEPT !.deposit = v, !.depositTx = k] \in Record(o, n, m)
         /\ [r EXCEPT !.deposit = "dispatched", !.from = at] \in Record(o, n, m)
         /\ \A v \in ReimbursementStages :
              /\ [r EXCEPT !.reimbursement = v] \in Record(o, n, m)
              /\ [r EXCEPT !.reimbursement = v, !.reimbursementTx = k] \in Record(o, n, m)
<1> USE DEF Record, Statuses, OrderStages, DepositStages, ReimbursementStages
<1> QED OBVIOUS

(* What applying the hashes of one poll does to a record: it is the one    *)
(* that was waiting for its proposal, or it is unchanged.                  *)
Ledgers ==
  [intents : [Intents -> Record(Len(orders), Height, Len(txs))],
   executed : SUBSET PaidHashes, deleted : SUBSET AllHashes]
AppliedTo(i, r, t) ==
  \/ t = r
  \/ r.reimbursement = "proposed" /\ HashOf(i) \in PaidHashes
     /\ t = [r EXCEPT !.status = "reimbursed"]
  \/ r.reimbursement = "proposed" /\ t = [r EXCEPT !.reimbursement = "idle", !.reimbursementTx = 0]

(* Every record is either taken or left, and the hashes that wait are      *)
(* known ones.                                                             *)
LEMMA AppliedOnce ==
  ASSUME WorldTypes, NEW s \in Ledgers, NEW u \in Update
  PROVE  /\ Apply(s, u.executed, u.deleted) \in Ledgers
         /\ \A i \in Intents :
              AppliedTo(i, s.intents[i], Apply(s, u.executed, u.deleted).intents[i])
<1> DEFINE E == s.executed \cup u.executed
           D == s.deleted \cup u.deleted
           Holders(h) == {i \in Intents : s.intents[i].reimbursement = "proposed" /\ HashOf(i) = h}
           paid == {Min(Holders(h)) : h \in {g \in E : Holders(g) # {}}}
           undone == {Min(Holders(h) \ paid) : h \in {g \in D : Holders(g) \ paid # {}}}
           t == Apply(s, u.executed, u.deleted)
           P(i) == [s.intents[i] EXCEPT !.status = "reimbursed"]
           Q(i) == [s.intents[i] EXCEPT !.reimbursement = "idle", !.reimbursementTx = 0]
           R(i) == IF i \in paid THEN P(i) ELSE IF i \in undone THEN Q(i) ELSE s.intents[i]
<1>1. E \subseteq PaidHashes /\ D \subseteq AllHashes
  BY DEF Ledgers, Update
<1>2. ASSUME NEW i \in paid
      PROVE  i \in Intents /\ s.intents[i].reimbursement = "proposed" /\ HashOf(i) \in PaidHashes
  <2>1. PICK h \in E : Holders(h) # {} /\ i = Min(Holders(h))
    OBVIOUS
  <2>2. i \in Holders(h)
    BY <2>1, LeastIntent
  <2> QED BY <1>1, <2>2
<1>3. ASSUME NEW i \in undone
      PROVE  i \in Intents /\ s.intents[i].reimbursement = "proposed"
  <2>1. PICK h \in D : Holders(h) \ paid # {} /\ i = Min(Holders(h) \ paid)
    OBVIOUS
  <2>2. i \in Holders(h) \ paid
    BY <2>1, LeastIntent, Holders(h) \ paid \subseteq Intents
  <2> QED BY <2>2
<1>4. t = [intents |-> [i \in Intents |-> R(i)],
           executed |-> E \ {HashOf(i) : i \in paid}, deleted |-> D \ {HashOf(i) : i \in undone}]
  BY DEF Apply, Ledger
<1> HIDE DEF E, D, paid, undone, t
<1>5. ASSUME NEW i \in Intents
      PROVE  R(i) \in Record(Len(orders), Height, Len(txs)) /\ AppliedTo(i, s.intents[i], R(i))
  <2>1. s.intents[i] \in Record(Len(orders), Height, Len(txs))
    BY DEF Ledgers
  <2>2. P(i) \in Record(Len(orders), Height, Len(txs)) /\ Q(i) \in Record(Len(orders), Height, Len(txs))
    <3>1. /\ Height \in Nat /\ Len(txs) \in Nat /\ Len(orders) \in Nat /\ 0 \in 0..Len(txs)
          /\ 0 \in 0..Len(orders) /\ 0 \in 0..Height
      BY DEF WorldTypes, Height
    <3> QED BY <2>1, <3>1, Updates DEF ReimbursementStages, Statuses
  <2> QED BY <1>2, <1>3, <2>1, <2>2 DEF AppliedTo
<1>6. t \in Ledgers
  BY <1>1, <1>4, <1>5 DEF Ledgers
<1>7. \A i \in Intents : t.intents[i] = R(i)
  BY <1>4
<1> QED BY <1>5, <1>6, <1>7 DEF t

(* Ingest applies what was queued in its order: what holds of the ledger   *)
(* before and is kept by each update holds of it after.                    *)
LEMMA AppliedAll ==
  ASSUME queue \in Seq(Update), NEW late, NEW X,
         Ledger([i \in Intents |-> IF late THEN TimedOut(intent[i]) ELSE intent[i]],
                waiting.executed, waiting.deleted) \in X,
         \A s \in X, u \in Update : Apply(s, u.executed, u.deleted) \in X
  PROVE  Ingested(late) \in X
<1> DEFINE start == Ledger([i \in Intents |-> IF late THEN TimedOut(intent[i]) ELSE intent[i]],
                           waiting.executed, waiting.deleted)
           step(s, n) == Apply(s, queue[n].executed, queue[n].deleted)
<1>0. PICK D : D = DOMAIN queue
  OBVIOUS
<1> DEFINE c == [T \in SUBSET D |-> Max(T)]
           g == [n \in D |-> [s \in X |-> step(s, n)]]
           Replays(f) == f = [T \in SUBSET D |-> IF T = {} THEN start
                                                 ELSE step(f[T \ {Max(T)}], Max(T))]
<1>1. IsFiniteSet(D) /\ D \subseteq Int /\ \A n \in D : queue[n] \in Update
  <2>1. D = 1..Len(queue) /\ Len(queue) \in Nat
    BY <1>0
  <2>2. IsFiniteSet(1..Len(queue))
    BY ONLY <2>1, FS_Interval, 1 \in Int, Nat \subseteq Int
  <2> QED BY <2>1, <2>2
<1>2. ASSUME NEW T \in SUBSET D, T # {} PROVE Max(T) \in T
  BY <1>1, <1>2, FS_Subset, EndsExist
<1>3. Chooses(c, D)
  BY <1>2 DEF Chooses
<1>4. \A n \in D, s \in X : g[n][s] \in X /\ g[n][s] = step(s, n)
  BY <1>1
<1>5. PICK f \in [SUBSET D -> X] : Folds(f, D, start, c, g)
  <2> HIDE DEF c, g, start
  <2>1. start \in X
    BY DEF start
  <2> QED BY <1>1, <1>3, <1>4, <2>1, FoldExists
<1>6. Replays(f)
  <2>1. ASSUME NEW T \in SUBSET D
        PROVE  f[T] = IF T = {} THEN start ELSE step(f[T \ {Max(T)}], Max(T))
    <3>1. CASE T = {}
      BY <1>5, <3>1 DEF Folds
    <3>2. CASE T # {}
      <4>1. Max(T) \in D /\ T \ {Max(T)} \in SUBSET D /\ c[T] = Max(T)
        BY <1>2, <3>2
      <4>2. f[T] = g[c[T]][f[T \ {c[T]}]]
        BY <1>5, <3>2 DEF Folds
      <4>3. f[T \ {Max(T)}] \in X
        BY <1>5, <4>1
      <4> HIDE DEF g, c, step
      <4> QED BY <1>4, <3>2, <4>1, <4>2, <4>3
    <3> QED BY <3>1, <3>2
  <2> HIDE DEF step, start
  <2>2. DOMAIN f = SUBSET D
    BY <1>5
  <2> QED BY <1>5, <2>1
<1> DEFINE h == CHOOSE h : Replays(h)
<1>7. Replays(h)
  BY <1>6
<1>8. Ingested(late) = h[D]
  BY <1>0 DEF Ingested, FoldLeft, MapThenFoldSet
<1> DEFINE Good == {T \in SUBSET D : h[T] = f[T]}
<1>9. ASSUME NEW T \in SUBSET D, \A n \in T : T \ {n} \in Good PROVE T \in Good
  <2>1. h[T] = IF T = {} THEN start ELSE step(h[T \ {Max(T)}], Max(T))
    BY <1>7
  <2>2. f[T] = IF T = {} THEN start ELSE step(f[T \ {Max(T)}], Max(T))
    BY <1>6
  <2>3. T # {} => h[T \ {Max(T)}] = f[T \ {Max(T)}]
    BY <1>2, <1>9
  <2>4. h[T] = f[T]
    BY <2>1, <2>2, <2>3
  <2> QED BY <2>4
<1>10. D \in Good
  <2>1. PICK G : G = Good
    OBVIOUS
  <2>2. \A T \in SUBSET D : (\A n \in T : T \ {n} \in G) => T \in G
    BY <1>9, <2>1
  <2>3. IsFiniteSet(D)
    BY <1>1
  <2> HIDE DEF Good, h, Replays, c, g, start, step
  <2>4. /\ IsFiniteSet(D)
        /\ \A T \in SUBSET D : (\A n \in T : T \ {n} \in G) => T \in G
        => SUBSET D \subseteq G
    BY ONLY FiniteInduction
  <2> QED BY <2>1, <2>2, <2>3, <2>4
<1>11. h[D] = f[D] /\ f[D] \in X
  BY <1>5, <1>10
<1> QED BY <1>8, <1>11
-----------------------------------------------------------------------------
(* What a step does to records.  Later: no record is opened again, none    *)
(* that is missing or released becomes anything else, and none goes.       *)
(* Holds: none is released either.                                         *)
Later(r, t) ==
  /\ t.status = "open" => r.status = "open"
  /\ r.status \in {"none", "released"} => t.status = r.status
  /\ t.status = "none" => r.status = "none"
Kept(i, r, t) == Sound(i, t) /\ Later(r, t)
Holds(i, r, t) == Kept(i, r, t) /\ (t.status = "released" => r.status = "released")

(* A record that differs in its status and in its reimbursement only.      *)
SameTrade(r, t) ==
  /\ t.cid = r.cid /\ t.order = r.order /\ t.orderId = r.orderId /\ t.orderAt = r.orderAt
  /\ t.from = r.from
  /\ t.deposit = r.deposit /\ t.depositTx = r.depositTx

(* Such a record is still sound.                                           *)
LEMMA KeepsTrade ==
  ASSUME NEW i \in Intents, NEW r, Sound(i, r), NEW t \in Record(Len(orders), Height, Len(txs)),
         SameTrade(r, t), t.status = "none" => t = NoRecord,
         t.reimbursement # "idle" => r.deposit = "deposited",
         t.status = "released" => r.order # "filled" /\ Progress(i) \in {"accepted", "failed", "doubted"},
         t.status = "reimbursed" => HashOf(i) \in PaidHashes
  PROVE  Sound(i, t)
BY DEF Sound, SameTrade

(* Dispatches whose grace is over.                                         *)
LEMMA TimedOutKept ==
  ASSUME WorldTypes, NEW i \in Intents, NEW r, Sound(i, r)
  PROVE  Holds(i, r, TimedOut(r))
<1> DEFINE t == TimedOut(r)
<1>1. r \in Record(Len(orders), Height, Len(txs))
  BY DEF Sound
<1>2. /\ t.status = r.status /\ t.cid = r.cid /\ t.orderAt = r.orderAt /\ t.from = r.from
      /\ t.orderId = r.orderId
      /\ t.depositTx = r.depositTx /\ t.reimbursementTx = r.reimbursementTx
      /\ t.order = IF r.order = "dispatched" THEN "lost" ELSE r.order
      /\ t.deposit = IF r.deposit = "dispatched" THEN "unsure" ELSE r.deposit
      /\ t.reimbursement = IF r.reimbursement = "dispatched" THEN "unsure" ELSE r.reimbursement
  BY <1>1 DEF TimedOut, Record
<1>3. t \in Record(Len(orders), Height, Len(txs))
  BY <1>1 DEF TimedOut, Record, OrderStages, DepositStages, ReimbursementStages
<1>4. t.status = "none" => t = NoRecord
  <2> SUFFICES ASSUME t.status = "none" PROVE t = NoRecord
    OBVIOUS
  <2>1. r = NoRecord
    BY <1>2 DEF Sound
  <2>2. r.order = "idle" /\ r.deposit = "idle" /\ r.reimbursement = "idle"
    BY <2>1 DEF NoRecord
  <2>3. t = r
    BY <1>1, <2>2 DEF TimedOut, Record
  <2> QED BY <2>1, <2>3
<1> HIDE DEF t
<1>5. Sound(i, t)
  BY <1>2, <1>3, <1>4 DEF Sound
<1> QED BY <1>2, <1>5 DEF Holds, Kept, Later, t

(* Hashes that were executed and deleted.                                  *)
LEMMA AppliedKept ==
  ASSUME WorldTypes, NEW i \in Intents, NEW r, Sound(i, r), NEW t, AppliedTo(i, r, t)
  PROVE  Holds(i, r, t)
<1>0. /\ Height \in Nat /\ Len(txs) \in Nat /\ Len(orders) \in Nat /\ 0 \in 0..Len(txs)
      /\ 0 \in 0..Len(orders) /\ 0 \in 0..Height /\ r \in Record(Len(orders), Height, Len(txs))
  BY DEF WorldTypes, Height, Sound
<1>1. CASE t = r
  BY <1>1 DEF Holds, Kept, Later
<1>2. CASE r.reimbursement = "proposed" /\ HashOf(i) \in PaidHashes
           /\ t = [r EXCEPT !.status = "reimbursed"]
  <2>1. t \in Record(Len(orders), Height, Len(txs))
    BY <1>0, <1>2, Updates DEF Statuses
  <2>2. SameTrade(r, t) /\ t.status = "reimbursed" /\ t.reimbursement = r.reimbursement
    BY <1>0, <1>2 DEF SameTrade, Record
  <2>3. r.deposit = "deposited" /\ r.status \notin {"none", "released"}
    BY <1>2 DEF Sound, NoRecord
  <2>4. Sound(i, t)
    BY <1>2, <2>1, <2>2, <2>3, KeepsTrade
  <2> QED BY <2>2, <2>3, <2>4 DEF Holds, Kept, Later
<1>3. CASE r.reimbursement = "proposed"
           /\ t = [r EXCEPT !.reimbursement = "idle", !.reimbursementTx = 0]
  <2>1. t \in Record(Len(orders), Height, Len(txs))
    BY <1>0, <1>3, Updates DEF ReimbursementStages
  <2>2. SameTrade(r, t) /\ t.status = r.status /\ t.reimbursement = "idle"
    BY <1>0, <1>3 DEF SameTrade, Record
  <2>3. r.status # "none"
    BY <1>3 DEF Sound, NoRecord
  <2>4. Sound(i, t)
    BY <2>1, <2>2, <2>3, KeepsTrade DEF Sound
  <2> QED BY <2>2, <2>4 DEF Holds, Kept, Later
<1> QED BY <1>1, <1>2, <1>3 DEF AppliedTo

(* One step after another.                                                 *)
LEMMA KeptByBoth ==
  ASSUME NEW i, NEW r, NEW s, NEW t, Later(r, s), Kept(i, s, t)
  PROVE  Kept(i, r, t) /\ (Holds(i, r, s) /\ Holds(i, s, t) => Holds(i, r, t))
BY DEF Holds, Kept, Later

(* Ingest leaves sound records, and hashes that were seen.                 *)
LEMMA IngestedKept ==
  ASSUME WorldTypes, NodeTypes, Records, NEW late \in BOOLEAN
  PROVE  /\ Ingested(late) \in Ledgers
         /\ \A i \in Intents : Holds(i, intent[i], Ingested(late).intents[i])
<1> DEFINE R == [i \in Intents |-> IF late THEN TimedOut(intent[i]) ELSE intent[i]]
           X == {s \in Ledgers : \A i \in Intents : Holds(i, intent[i], s.intents[i])}
<1>1. ASSUME NEW i \in Intents
      PROVE  R[i] \in Record(Len(orders), Height, Len(txs)) /\ Holds(i, intent[i], R[i])
  <2>1. Sound(i, intent[i])
    BY DEF Records
  <2>2. Holds(i, intent[i], intent[i]) /\ Holds(i, intent[i], TimedOut(intent[i]))
    BY <2>1, TimedOutKept DEF Holds, Kept, Later
  <2> QED BY <2>2 DEF Holds, Kept, Sound
<1>2. Ledger(R, waiting.executed, waiting.deleted) \in X
  BY <1>1 DEF Ledger, Ledgers, NodeTypes, Update
<1>3. ASSUME NEW s \in X, NEW u \in Update PROVE Apply(s, u.executed, u.deleted) \in X
  <2>1. /\ Apply(s, u.executed, u.deleted) \in Ledgers
        /\ \A i \in Intents :
             AppliedTo(i, s.intents[i], Apply(s, u.executed, u.deleted).intents[i])
    BY AppliedOnce
  <2>2. ASSUME NEW i \in Intents
        PROVE  Holds(i, intent[i], Apply(s, u.executed, u.deleted).intents[i])
    <3>1. Holds(i, intent[i], s.intents[i])
      OBVIOUS
    <3>2. Holds(i, s.intents[i], Apply(s, u.executed, u.deleted).intents[i])
      BY <2>1, <3>1, AppliedKept DEF Holds, Kept
    <3> QED BY <3>1, <3>2, KeptByBoth DEF Holds, Kept
  <2> QED BY <2>1, <2>2
<1>4. Ingested(late) \in X
  <2> HIDE DEF X
  <2>1. queue \in Seq(Update)
    BY DEF NodeTypes
  <2> QED BY <1>2, <1>3, <2>1, AppliedAll
<1> QED BY <1>4

(* The latest of some events exists.                                       *)
LEMMA LatestEvent ==
  ASSUME WorldTypes, NEW h, NEW upto \in 0..Height, NEW S \in SUBSET Events(h, upto), S # {}
  PROVE  /\ Max(S) \in S /\ \A b \in S : b <= Max(S)
         /\ Max(S) \in 1..Height /\ Max(S) <= upto
<1>1. Height \in Nat
  BY DEF WorldTypes, Height
<1>2. S \subseteq 1..upto /\ upto \in Int
  BY DEF Events
<1>3. IsFiniteSet(1..upto)
  BY ONLY <1>2, FS_Interval, 1 \in Int
<1>4. IsFiniteSet(S)
  BY <1>2, <1>3, FS_Subset
<1>5. S \subseteq Int
  BY <1>2
<1>6. Max(S) \in S /\ \A b \in S : b <= Max(S)
  BY <1>4, <1>5, EndsExist
<1>7. \A b \in 1..upto : b \in 1..Height /\ b <= upto
  BY <1>1
<1>8. Max(S) \in 1..upto
  BY ONLY <1>2, <1>6
<1> QED BY <1>6, <1>7, <1>8

(* A commitment that is found was proposed for the intent; what counts as  *)
(* executed was.                                                           *)
LEMMA CommitmentFound ==
  ASSUME WorldTypes, NEW i \in Intents, NEW c, c = Commitment(i, Height), c # None
  PROVE  /\ c \in {"proposed", "executed", "deleted"}
         /\ \E a \in 1..Height : chain[a].kind = "proposed" /\ chain[a].of = i
         /\ c = "executed" => HashOf(i) \in PaidHashes
<1> DEFINE all == Events(HashOf(i), Height)
           proposals == {b \in all : chain[b].kind = "proposed"}
           ended == all \ proposals
<1>1. Height \in 0..Height
  BY DEF WorldTypes, Height
<1>2. proposals # {} /\ chain[Max(proposals)].of = i
  BY DEF Commitment
<1>3. Max(proposals) \in proposals /\ Max(proposals) \in 1..Height
  BY <1>1, <1>2, LatestEvent, proposals \in SUBSET all
<1>4. chain[Max(proposals)].kind = "proposed"
  BY <1>3
<1>5. CASE ended = {}
  <2>1. c = "proposed"
    BY <1>2, <1>5 DEF Commitment
  <2> QED BY <1>2, <1>3, <1>4, <2>1
<1>6. CASE ended # {}
  <2>1. Max(ended) \in ended /\ Max(ended) \in 1..Height
    BY <1>1, <1>6, LatestEvent, ended \in SUBSET all
  <2>2. /\ chain[Max(ended)].kind \in {"executed", "deleted"}
        /\ HashOf(chain[Max(ended)].of) = HashOf(i)
    BY <2>1 DEF Events, Governor
  <2>3. c \in {"proposed", chain[Max(ended)].kind}
    BY <1>2, <1>6 DEF Commitment
  <2>4. HashOf(i) \in AllHashes
    BY DEF AllHashes
  <2>5. c = "executed" => HashOf(i) \in PaidHashes
    BY <2>1, <2>2, <2>3, <2>4 DEF PaidHashes
  <2> HIDE DEF ended, proposals
  <2> QED BY <1>2, <1>3, <1>4, <2>2, <2>3, <2>5
<1> QED BY <1>5, <1>6

(* What the log of the Governor says is recovered.                         *)
LEMMA RecoveredKept ==
  ASSUME WorldTypes, NEW i \in Intents, NEW r, Sound(i, r),
         NEW c, c = Commitment(i, Height)
  PROVE  Holds(i, r, Recovered(r, c))
<1> DEFINE t == Recovered(r, c)
<1>1. /\ Height \in Nat /\ Len(txs) \in Nat /\ Len(orders) \in Nat /\ 0 \in 0..Len(txs)
      /\ 0 \in 0..Len(orders) /\ 0 \in 0..Height /\ r \in Record(Len(orders), Height, Len(txs))
  BY DEF WorldTypes, Height, Sound
<1>2. CASE r.status # "open" \/ c = None
  BY <1>2 DEF Recovered, Holds, Kept, Later
<1>3. CASE r.status = "open" /\ c # None
  <2>1. /\ c \in {"proposed", "executed", "deleted"}
        /\ \E a \in 1..Height : chain[a].kind = "proposed" /\ chain[a].of = i
        /\ c = "executed" => HashOf(i) \in PaidHashes
    BY <1>3, CommitmentFound
  <2>2. r.deposit = "deposited"
    BY <2>1 DEF Sound, Governor
  <2>3. t = IF c = "executed"
            THEN [[r EXCEPT !.status = "reimbursed"]
                     EXCEPT !.reimbursement = "proposed", !.reimbursementTx = 0]
            ELSE IF c = "proposed" THEN [r EXCEPT !.reimbursement = "proposed"]
            ELSE [r EXCEPT !.reimbursement = "idle", !.reimbursementTx = 0]
    BY <1>1, <1>3 DEF Recovered, Record
  <2>4. [r EXCEPT !.status = "reimbursed"] \in Record(Len(orders), Height, Len(txs))
    BY <1>1, Updates DEF Statuses
  <2>5. t \in Record(Len(orders), Height, Len(txs))
    <3> DEFINE q == [r EXCEPT !.status = "reimbursed"]
    <3> HIDE DEF q, t
    <3>1. [q EXCEPT !.reimbursement = "proposed", !.reimbursementTx = 0] \in Record(Len(orders), Height, Len(txs))
      BY <1>1, <2>4, Updates DEF ReimbursementStages, q
    <3>2. /\ [r EXCEPT !.reimbursement = "proposed"] \in Record(Len(orders), Height, Len(txs))
          /\ [r EXCEPT !.reimbursement = "idle", !.reimbursementTx = 0] \in Record(Len(orders), Height, Len(txs))
      BY <1>1, Updates DEF ReimbursementStages
    <3> QED BY <2>3, <3>1, <3>2 DEF q
  <2>6. /\ SameTrade(r, t)
        /\ t.status = IF c = "executed" THEN "reimbursed" ELSE "open"
    BY <1>1, <1>3, <2>1, <2>3 DEF SameTrade, Record
  <2> HIDE DEF t
  <2>7. Sound(i, t)
    BY <2>1, <2>2, <2>5, <2>6, KeepsTrade
  <2> QED BY <1>3, <2>6, <2>7 DEF Holds, Kept, Later, t
<1> QED BY <1>2, <1>3

(* Refresh: intents that expire, orders that are read.                     *)
LEMMA ExpiredKept ==
  ASSUME WorldTypes, NEW i \in Intents, NEW r, Sound(i, r),
         NEW over \in BOOLEAN, over => r.status = "open"
  PROVE  Kept(i, r, Expired(r, over))
<1> DEFINE t == [r EXCEPT !.status = "released"]
<1>1. /\ Height \in Nat /\ Len(txs) \in Nat /\ Len(orders) \in Nat /\ 0 \in 0..Len(txs)
      /\ 0 \in 0..Len(orders) /\ 0 \in 0..Height /\ r \in Record(Len(orders), Height, Len(txs))
  BY DEF WorldTypes, Height, Sound
<1>2. CASE ~(over /\ MayExpire(r))
  BY <1>2 DEF Expired, Kept, Later
<1>3. CASE over /\ MayExpire(r)
  <2>1. t \in Record(Len(orders), Height, Len(txs))
    BY <1>1, Updates DEF Statuses
  <2>2. SameTrade(r, t) /\ t.status = "released" /\ t.reimbursement = r.reimbursement
    BY <1>1 DEF SameTrade, Record
  <2>3. r.order # "filled" /\ Progress(i) \in {"accepted", "doubted"}
    BY <1>3 DEF MayExpire, Sound
  <2> HIDE DEF t
  <2>4. Sound(i, t)
    BY <2>1, <2>2, <2>3, KeepsTrade DEF Sound
  <2> QED BY <1>3, <2>2, <2>4 DEF Kept, Later, Expired, t
<1> QED BY <1>2, <1>3

(* Orders that are read at the exchange.                                   *)
LEMMA OrderReadKept ==
  ASSUME WorldTypes, NEW i \in Intents, NEW r, Sound(i, r), Single(i), NEW read \in BOOLEAN
  PROVE  Kept(i, r, OrderRead(r, read))
<1> DEFINE Now(v) == [r EXCEPT !.order = v]
           Released == [r EXCEPT !.status = "released"]
<1>1. /\ Height \in Nat /\ Len(txs) \in Nat /\ Len(orders) \in Nat /\ 0 \in 0..Len(txs)
      /\ 0 \in 0..Len(orders) /\ 0 \in 0..Height /\ r \in Record(Len(orders), Height, Len(txs))
  BY DEF WorldTypes, Height, Sound
<1>2. ASSUME NEW v \in {"unsure", "filled"}, r.status = "open", r.order \in {"lost", "placed"},
             v = "filled" => r.order = "placed" /\ orders[r.orderId].state = "filled"
      PROVE  Kept(i, r, Now(v))
  <2>1. Now(v) \in Record(Len(orders), Height, Len(txs))
    BY <1>1, <1>2, Updates DEF OrderStages
  <2>2. /\ Now(v).order = v /\ Now(v).status = r.status /\ Now(v).cid = r.cid
        /\ Now(v).orderId = r.orderId
        /\ Now(v).orderAt = r.orderAt /\ Now(v).from = r.from
        /\ Now(v).deposit = r.deposit /\ Now(v).depositTx = r.depositTx
        /\ Now(v).reimbursement = r.reimbursement
    BY <1>1 DEF Record
  <2> HIDE DEF Now
  <2>3. Sound(i, Now(v))
    BY <1>2, <2>1, <2>2 DEF Sound
  <2> QED BY <2>2, <2>3 DEF Kept, Later
<1>3. ASSUME r.status = "open", r.order = "placed", orders[r.orderId].state = "failed"
      PROVE  Kept(i, r, Released)
  <2>1. Released \in Record(Len(orders), Height, Len(txs))
    BY <1>1, Updates DEF Statuses
  <2>2. /\ SameTrade(r, Released) /\ Released.status = "released"
        /\ Released.reimbursement = r.reimbursement
    BY <1>1 DEF SameTrade, Record
  <2> HIDE DEF Released
  <2>3. Progress(i) \in {"failed", "doubted"}
    BY <1>3, ProgressOf DEF Sound
  <2>4. Sound(i, Released)
    BY <1>3, <2>1, <2>2, <2>3, KeepsTrade DEF Sound
  <2> QED BY <1>3, <2>2, <2>4 DEF Kept, Later
<1>4. Kept(i, r, r)
  BY DEF Kept, Later
<1> QED BY <1>2, <1>3, <1>4 DEF OrderRead

(* Transfers that were found, and receipts of those that were submitted.   *)
LEMMA DepositedKept ==
  ASSUME WorldTypes, NEW i \in Intents, NEW r, Sound(i, r), r.status = "open",
         r.order = "filled", Real(i, r.orderAt)
  PROVE  Kept(i, r, [r EXCEPT !.deposit = "deposited"])
<1> DEFINE t == [r EXCEPT !.deposit = "deposited"]
<1>1. /\ Height \in Nat /\ Len(txs) \in Nat /\ Len(orders) \in Nat /\ 0 \in 0..Len(txs)
      /\ 0 \in 0..Len(orders) /\ 0 \in 0..Height /\ r \in Record(Len(orders), Height, Len(txs))
  BY DEF WorldTypes, Height, Sound
<1>2. t \in Record(Len(orders), Height, Len(txs))
  BY <1>1, Updates DEF DepositStages
<1>3. /\ t.order = r.order /\ t.orderId = r.orderId /\ t.status = r.status /\ t.cid = r.cid
      /\ t.orderAt = r.orderAt /\ t.from = r.from
      /\ t.deposit = "deposited" /\ t.reimbursement = r.reimbursement
  BY <1>1 DEF Record
<1> HIDE DEF t
<1>4. Sound(i, t)
  BY <1>2, <1>3 DEF Sound
<1> QED BY <1>3, <1>4 DEF Kept, Later, t

(* A transfer that is found for an intent came after its order.            *)
LEMMA FoundIsReal ==
  ASSUME WorldTypes, NodeTypes, NEW records, NEW h, NEW i \in Found(records, h),
         Sound(i, records[i])
  PROVE  Awaits(records[i]) /\ Real(i, records[i].orderAt)
<1> DEFINE group == {j \in Intents : HashOf(j) = h /\ Awaits(records[j])}
<1>1. i \in group
  BY DEF Found
<1>2. PICK f \in [group -> Evidence(h)] : \A j \in group : Fits(f[j], records[j])
  BY <1>1 DEF Found
<1>3. f[i] \in Evidence(h) /\ f[i] >= records[i].from
  BY <1>1, <1>2 DEF Fits
<1>4. /\ f[i] \in 1..scanned /\ chain[f[i]].kind = "transfer" /\ HashOf(chain[f[i]].of) = HashOf(i)
  BY <1>1, <1>3 DEF Evidence
<1>5. /\ Height \in Nat /\ scanned \in 0..Height /\ f[i] \in 1..Height /\ f[i] \in Int
  BY <1>4 DEF WorldTypes, Height, NodeTypes
<1>6. records[i].from \in Int /\ records[i].orderAt \in Int /\ records[i].orderAt <= records[i].from
  BY DEF Sound, Record
<1>7. f[i] >= records[i].orderAt
  BY <1>3, <1>5, <1>6
<1> QED BY <1>1, <1>4, <1>5, <1>7 DEF Real

(* Receipts of transfers that were submitted.                              *)
LEMMA DepositReadKept ==
  ASSUME WorldTypes, NEW i \in Intents, NEW r, Sound(i, r)
  PROVE  Kept(i, r, DepositRead(r))
<1> DEFINE Given == [r EXCEPT !.deposit = "deposited"]
           Back == [r EXCEPT !.deposit = "idle", !.depositTx = 0]
<1>1. /\ Height \in Nat /\ Len(txs) \in Nat /\ Len(orders) \in Nat /\ 0 \in 0..Len(txs)
      /\ 0 \in 0..Len(orders) /\ 0 \in 0..Height /\ r \in Record(Len(orders), Height, Len(txs))
  BY DEF WorldTypes, Height, Sound
<1>2. Kept(i, r, r)
  BY DEF Kept, Later
<1>3. CASE r.status = "open" /\ r.deposit = "submitted"
  <2>1. /\ r.depositTx # 0 /\ IsTx(r.depositTx, "deposit", i)
        /\ Pending(i) \subseteq {r.depositTx} /\ r.order = "filled"
    BY <1>3 DEF Sound
  <2>2. r.depositTx \in DOMAIN txs
    <3>1. r.depositTx \in 0..Len(txs)
      BY <1>1 DEF Record
    <3>2. DOMAIN txs = 1..Len(txs)
      BY DEF WorldTypes
    <3> QED BY <1>1, <2>1, <3>1, <3>2
  <2>3. ASSUME txs[r.depositTx].state = "mined" PROVE Kept(i, r, Given)
    <3>1. Arrived(i, r.orderAt)
      BY <2>1, <2>2, <2>3 DEF Sound
    <3>2. Real(i, r.orderAt)
      BY <3>1 DEF Arrived, Real
    <3> QED BY <1>3, <2>1, <3>2, DepositedKept
  <2>4. ASSUME txs[r.depositTx].state = "reverted" PROVE Kept(i, r, Back)
    <3>1. Back \in Record(Len(orders), Height, Len(txs))
      BY <1>1, Updates DEF DepositStages
    <3>2. /\ Back.order = r.order /\ Back.orderId = r.orderId /\ Back.status = r.status /\ Back.cid = r.cid
          /\ Back.orderAt = r.orderAt /\ Back.from = r.from
          /\ Back.deposit = "idle" /\ Back.reimbursement = r.reimbursement
      BY <1>1 DEF Record
    <3>3. Pending(i) = {}
      BY <2>1, <2>4 DEF Pending
    <3> HIDE DEF Back
    <3>4. Sound(i, Back)
      BY <1>3, <3>1, <3>2, <3>3 DEF Sound
    <3> QED BY <3>2, <3>4 DEF Kept, Later
  <2> HIDE DEF Given, Back
  <2>5. DepositRead(r) = CASE txs[r.depositTx].state = "mined" -> Given
                           [] txs[r.depositTx].state = "reverted" -> Back
                           [] OTHER -> r
    BY <1>3 DEF DepositRead, Given, Back
  <2> QED BY <1>2, <2>3, <2>4, <2>5
<1>4. CASE ~(r.status = "open" /\ r.deposit = "submitted")
  BY <1>2, <1>4 DEF DepositRead
<1> QED BY <1>3, <1>4

(* Proposals that are signalled, mined, late or refused.                   *)
LEMMA ProposalReadKept ==
  ASSUME WorldTypes, NEW i \in Intents, NEW r, Sound(i, r), NEW late \in BOOLEAN
  PROVE  Kept(i, r, ProposalRead(r, i, late))
<1> DEFINE P(v) == [r EXCEPT !.reimbursement = v]
           Back == [r EXCEPT !.reimbursement = "idle", !.reimbursementTx = 0]
           state == IF r.reimbursementTx = 0 THEN None ELSE txs[r.reimbursementTx].state
           signalled == \E b \in fresh : chain[b].of = i
<1>1. /\ Height \in Nat /\ Len(txs) \in Nat /\ Len(orders) \in Nat /\ 0 \in 0..Len(txs)
      /\ 0 \in 0..Len(orders) /\ 0 \in 0..Height /\ r \in Record(Len(orders), Height, Len(txs))
  BY DEF WorldTypes, Height, Sound
<1>2. Kept(i, r, r)
  BY DEF Kept, Later
<1>3. ASSUME NEW t \in {P("proposed"), P("late"), Back}, r.status = "open", r.reimbursement # "idle"
      PROVE  Kept(i, r, t)
  <2>1. t \in Record(Len(orders), Height, Len(txs))
    <3>1. /\ P("proposed") \in Record(Len(orders), Height, Len(txs)) /\ P("late") \in Record(Len(orders), Height, Len(txs))
          /\ Back \in Record(Len(orders), Height, Len(txs))
      BY <1>1, Updates DEF ReimbursementStages
    <3> QED BY <3>1
  <2>2. SameTrade(r, t) /\ t.status = r.status
    BY <1>1 DEF SameTrade, Record
  <2>3. r.deposit = "deposited"
    BY <1>3 DEF Sound
  <2> HIDE DEF P, Back
  <2>4. Sound(i, t)
    BY <1>3, <2>1, <2>2, <2>3, KeepsTrade
  <2> QED BY <2>2, <2>4 DEF Kept, Later
<1>4. CASE r.status = "open" /\ r.reimbursement \in {"unsure", "submitted", "late"}
  <2>1. ProposalRead(r, i, late) =
          IF state = "mined" \/ signalled THEN P("proposed")
          ELSE CASE state = "reverted" -> Back [] state = "pool" /\ late -> P("late") [] OTHER -> r
    BY <1>4 DEF ProposalRead
  <2> HIDE DEF P, Back, state, signalled
  <2> QED BY <1>2, <1>3, <1>4, <2>1
<1>5. CASE ~(r.status = "open" /\ r.reimbursement \in {"unsure", "submitted", "late"})
  BY <1>2, <1>5 DEF ProposalRead
<1> QED BY <1>4, <1>5

(* The choice of an action marks the intent.                               *)
LEMMA DispatchedKept ==
  ASSUME WorldTypes, NodeTypes, Records, NEW kind \in Kinds, NEW i \in Intents, Candidate(kind, i)
  PROVE  Kept(i, intent[i], Dispatched(intent[i], kind))
<1>0. PICK r : r = intent[i]
  OBVIOUS
<1> DEFINE t == Dispatched(r, kind)
<1>1. /\ Height \in Nat /\ Len(txs) \in Nat /\ Len(orders) \in Nat /\ 0 \in 0..Len(txs)
      /\ 0 \in 0..Len(orders) /\ 0 \in 0..Height /\ Sound(i, r) /\ r \in Record(Len(orders), Height, Len(txs)) /\ scanned \in 0..Height
  BY <1>0 DEF WorldTypes, Height, Sound, Records, NodeTypes
<1>2. r.status = "open"
  BY <1>0 DEF Candidate, Open, Is
<1>3. CASE kind = "archive"
  BY <1>0, <1>1, <1>3 DEF Dispatched, Kept, Later
<1>4. CASE kind = "order"
  <2>1. t = [r EXCEPT !.order = "dispatched", !.orderAt = scanned, !.from = scanned]
    BY <1>4 DEF Dispatched
  <2>2. t \in Record(Len(orders), Height, Len(txs))
    <3>1. [r EXCEPT !.order = "dispatched", !.orderAt = scanned, !.from = scanned] \in Record(Len(orders), Height, Len(txs))
      BY <1>1, Updates
    <3> QED BY <2>1, <3>1
  <2>3. r.order = "idle" /\ r.cid
    BY <1>0, <1>4 DEF Candidate
  <2>4. r.deposit = "idle" /\ r.reimbursement = "idle"
    BY <1>1, <2>3 DEF Sound
  <2>5. /\ t.order = "dispatched" /\ t.orderAt = scanned /\ t.from = scanned
        /\ t.status = r.status /\ t.cid = r.cid /\ t.deposit = r.deposit
        /\ t.reimbursement = r.reimbursement
    BY <1>1, <2>1 DEF Record
  <2> HIDE DEF t
  <2>6. Sound(i, t)
    BY <1>1, <1>2, <2>2, <2>3, <2>4, <2>5 DEF Sound
  <2> QED BY <1>0, <1>2, <2>5, <2>6 DEF Kept, Later, t
<1>5. CASE kind = "deposit"
  <2>1. t = [r EXCEPT !.deposit = "dispatched", !.from = scanned]
    BY <1>5 DEF Dispatched
  <2>2. t \in Record(Len(orders), Height, Len(txs))
    <3>1. [r EXCEPT !.deposit = "dispatched", !.from = scanned] \in Record(Len(orders), Height, Len(txs))
      BY <1>1, Updates
    <3> QED BY <2>1, <3>1
  <2>3. r.order = "filled" /\ r.deposit = "idle"
    BY <1>0, <1>5 DEF Candidate
  <2>4. r.reimbursement = "idle"
    BY <1>1, <2>3 DEF Sound
  <2>5. /\ t.order = r.order /\ t.orderId = r.orderId /\ t.orderAt = r.orderAt /\ t.from = scanned
        /\ t.status = r.status /\ t.cid = r.cid /\ t.deposit = "dispatched"
        /\ t.reimbursement = r.reimbursement
    BY <1>1, <2>1 DEF Record
  <2>6. t.orderAt <= t.from
    BY <1>1, <2>5 DEF Sound, Record
  <2> HIDE DEF t
  <2>7. Sound(i, t)
    BY <1>1, <1>2, <2>2, <2>3, <2>4, <2>5, <2>6 DEF Sound
  <2> QED BY <1>0, <1>2, <2>5, <2>7 DEF Kept, Later, t
<1>6. CASE kind = "reimbursement"
  <2>1. t = [r EXCEPT !.reimbursement = "dispatched"]
    BY <1>6 DEF Dispatched
  <2>2. t \in Record(Len(orders), Height, Len(txs))
    <3>1. [r EXCEPT !.reimbursement = "dispatched"] \in Record(Len(orders), Height, Len(txs))
      BY <1>1, Updates DEF ReimbursementStages
    <3> QED BY <2>1, <3>1
  <2>3. r.deposit = "deposited"
    BY <1>0, <1>6 DEF Candidate
  <2>4. SameTrade(r, t) /\ t.status = r.status
    BY <1>1, <2>1 DEF Record, SameTrade
  <2> HIDE DEF t
  <2>5. Sound(i, t)
    BY <1>1, <1>2, <2>2, <2>3, <2>4, KeepsTrade
  <2> QED BY <1>0, <1>2, <2>4, <2>5 DEF Kept, Later, t
<1> QED BY <1>0, <1>3, <1>4, <1>5, <1>6 DEF Kinds

(* Outputs.                                                                *)
LEMMA ArchivedKept ==
  ASSUME WorldTypes, NEW i \in Intents, NEW r, Sound(i, r),
         r.status = "open", ~r.cid, answer \in {"done", "retry", "refused"}
  PROVE  Kept(i, r, Archived(r))
<1> DEFINE A == [r EXCEPT !.cid = TRUE]
           B == [r EXCEPT !.status = "released"]
<1>1. /\ Height \in Nat /\ Len(txs) \in Nat /\ Len(orders) \in Nat /\ 0 \in 0..Len(txs)
      /\ 0 \in 0..Len(orders) /\ 0 \in 0..Height /\ r \in Record(Len(orders), Height, Len(txs))
  BY DEF WorldTypes, Height, Sound
<1>2. Kept(i, r, r)
  BY DEF Kept, Later
<1>3. Kept(i, r, A)
  <2>1. A \in Record(Len(orders), Height, Len(txs))
    BY <1>1, Updates
  <2>2. /\ A.cid /\ A.order = r.order /\ A.orderId = r.orderId /\ A.orderAt = r.orderAt /\ A.from = r.from
        /\ A.status = r.status /\ A.deposit = r.deposit /\ A.depositTx = r.depositTx
        /\ A.reimbursement = r.reimbursement
    BY <1>1 DEF Record
  <2> HIDE DEF A
  <2>3. Sound(i, A)
    BY <2>1, <2>2 DEF Sound
  <2> QED BY <2>2, <2>3 DEF Kept, Later
<1>4. Kept(i, r, B)
  <2>1. B \in Record(Len(orders), Height, Len(txs))
    BY <1>1, Updates DEF Statuses
  <2>2. SameTrade(r, B) /\ B.status = "released" /\ B.reimbursement = r.reimbursement
    BY <1>1 DEF Record, SameTrade
  <2>3. r.order = "idle" /\ Progress(i) = "accepted"
    BY DEF Sound
  <2> HIDE DEF B
  <2>4. Sound(i, B)
    BY <2>1, <2>2, <2>3, KeepsTrade DEF Sound
  <2> QED BY <2>2, <2>4 DEF Kept, Later
<1>5. Archived(r) = CASE answer = "done" -> A [] answer = "retry" -> r [] answer = "refused" -> B
  BY DEF Archived
<1> HIDE DEF A, B
<1> QED BY <1>2, <1>3, <1>4, <1>5

(* The answer to an order.                                                 *)
LEMMA OrderedKept ==
  ASSUME WorldTypes, NEW i \in Intents, NEW r, Sound(i, r),
         r.status = "open", r.order = "dispatched", answer \in {"done", "retry", "unclear"},
         answer = "retry" => Progress(i) \in {"accepted", "doubted"},
         answer = "done" => Len(orders) \in OrdersOf(i)
  PROVE  Kept(i, r, Ordered(r))
<1> DEFINE A(v, id) == [r EXCEPT !.order = v, !.orderId = id]
<1>1. /\ Height \in Nat /\ Len(txs) \in Nat /\ Len(orders) \in Nat /\ 0 \in 0..Len(txs)
      /\ 0 \in 0..Len(orders) /\ 0 \in 0..Height /\ r \in Record(Len(orders), Height, Len(txs))
  BY DEF WorldTypes, Height, Sound
<1>2. ASSUME NEW v \in {"placed", "unsure", "idle"}, NEW id \in 0..Len(orders),
             v = "idle" => Progress(i) \in {"accepted", "doubted"}, v = "placed" => id \in OrdersOf(i)
      PROVE  Kept(i, r, A(v, id))
  <2>1. A(v, id) \in Record(Len(orders), Height, Len(txs))
    BY <1>1, Updates DEF OrderStages
  <2>2. /\ A(v, id).order = v /\ A(v, id).orderId = id /\ A(v, id).cid = r.cid
        /\ A(v, id).orderAt = r.orderAt /\ A(v, id).from = r.from
        /\ A(v, id).status = r.status /\ A(v, id).deposit = r.deposit
        /\ A(v, id).depositTx = r.depositTx /\ A(v, id).reimbursement = r.reimbursement
    BY <1>1 DEF Record
  <2> HIDE DEF A
  <2>3. Sound(i, A(v, id))
    BY <1>2, <2>1, <2>2 DEF Sound
  <2> QED BY <2>2, <2>3 DEF Kept, Later
<1>3. r.orderId \in 0..Len(orders) /\ Len(orders) \in 0..Len(orders)
  BY <1>1 DEF Record
<1>4. Ordered(r) = CASE answer = "done" -> A("placed", Len(orders))
                     [] answer = "unclear" -> A("unsure", r.orderId)
                     [] answer = "retry" -> A("idle", r.orderId)
  BY <1>1 DEF Ordered, Record
<1> HIDE DEF A
<1> QED BY <1>2, <1>3, <1>4

(* The transaction that was sent last is the one the answer is about.      *)
LEMMA SentIsLast ==
  ASSUME WorldTypes, NEW k, LastSent(call, k)
  PROVE  Sent = k
<1> DEFINE S == {l \in DOMAIN txs : txs[l].of = call.of /\ txs[l].kind = call.kind}
<1>1. DOMAIN txs = 1..Len(txs) /\ Len(txs) \in Nat
  BY DEF WorldTypes
<1>2. IsFiniteSet(1..Len(txs))
  BY ONLY <1>1, FS_Interval, 1 \in Int, Nat \subseteq Int
<1>3. IsFiniteSet(S) /\ S \subseteq Int
  BY <1>1, <1>2, FS_Subset
<1>4. k \in S /\ \A l \in S : l <= k
  BY DEF LastSent, IsTx
<1>5. Max(S) \in S /\ k <= Max(S)
  BY <1>3, <1>4, EndsExist
<1>6. Max(S) = k
  BY <1>3, <1>4, <1>5
<1> QED BY <1>6 DEF Sent

(* A record whose transfer was dispatched, with what is known of it since. *)
LEMMA KeepsOrder ==
  ASSUME NEW i \in Intents, NEW r, Sound(i, r), r.status = "open", r.deposit = "dispatched",
         NEW t \in Record(Len(orders), Height, Len(txs)), t.status \in {"open", "closed"},
         t.cid = r.cid, t.order = r.order, t.orderId = r.orderId, t.orderAt = r.orderAt,
         t.from = r.from,
         t.reimbursement = r.reimbursement,
         t.deposit = "idle" => Pending(i) = {},
         t.deposit = "submitted" => /\ t.depositTx # 0 /\ IsTx(t.depositTx, "deposit", i)
                                    /\ Pending(i) \subseteq {t.depositTx},
         t.deposit = "deposited" => Real(i, r.orderAt)
  PROVE  Kept(i, r, t)
<1>1. r.order = "filled" /\ r.reimbursement = "idle"
  BY DEF Sound
<1>2. Sound(i, t)
  BY <1>1 DEF Sound
<1> QED BY <1>2 DEF Kept, Later

(* The answer to a transfer.                                               *)
LEMMA DepositedOutput ==
  ASSUME WorldTypes, NEW i \in Intents, NEW r, Sound(i, r), r.status = "open",
         r.deposit = "dispatched", call = [kind |-> "deposit", of |-> i], LastSent(call, Sent)
  PROVE  Kept(i, r, Deposited(r))
<1> DEFINE A(k) == [r EXCEPT !.depositTx = k, !.deposit = "submitted"]
<1>1. /\ Height \in Nat /\ Len(txs) \in Nat /\ Len(orders) \in Nat /\ 0 \in 0..Len(txs)
      /\ 0 \in 0..Len(orders) /\ 0 \in 0..Height /\ r \in Record(Len(orders), Height, Len(txs))
  BY DEF WorldTypes, Height, Sound
<1>2. PICK k : k = Sent
  OBVIOUS
<1>3. /\ k \in DOMAIN txs /\ IsTx(k, "deposit", i) /\ Pending(i) \subseteq {k}
  BY <1>2 DEF LastSent
<1>4. k \in 0..Len(txs) /\ k # 0
  BY <1>1, <1>3 DEF WorldTypes
<1>5. A(k) \in Record(Len(orders), Height, Len(txs))
  <2>1. A(k) = [r EXCEPT !.deposit = "submitted", !.depositTx = k]
    BY <1>1 DEF Record
  <2>2. [r EXCEPT !.deposit = "submitted", !.depositTx = k] \in Record(Len(orders), Height, Len(txs))
    BY <1>1, <1>4, Updates DEF DepositStages
  <2> QED BY <2>1, <2>2
<1>6. /\ A(k).status = "open" /\ A(k).cid = r.cid /\ A(k).order = r.order
      /\ A(k).orderId = r.orderId /\ A(k).orderAt = r.orderAt /\ A(k).from = r.from
      /\ A(k).reimbursement = r.reimbursement
      /\ A(k).deposit = "submitted" /\ A(k).depositTx = k
  BY <1>1 DEF Record
<1>7. Deposited(r) = A(k)
  BY <1>2 DEF Deposited
<1> HIDE DEF A
<1> QED BY <1>3, <1>4, <1>5, <1>6, <1>7, KeepsOrder

(* The answer to a proposal.                                               *)
LEMMA ProposedOutput ==
  ASSUME WorldTypes, NEW i \in Intents, NEW r, Sound(i, r), r.status = "open",
         r.reimbursement = "dispatched", answer \in Outcomes,
         answer = "done" => Sent \in DOMAIN txs
  PROVE  Kept(i, r, Proposed(r))
<1> DEFINE A(v, k) == [r EXCEPT !.reimbursementTx = k, !.reimbursement = v]
           B(v) == [r EXCEPT !.reimbursement = v]
           C == [r EXCEPT !.status = "closed", !.reimbursement = "idle"]
<1>1. /\ Height \in Nat /\ Len(txs) \in Nat /\ Len(orders) \in Nat /\ 0 \in 0..Len(txs)
      /\ 0 \in 0..Len(orders) /\ 0 \in 0..Height /\ r \in Record(Len(orders), Height, Len(txs))
  BY DEF WorldTypes, Height, Sound
<1>2. ASSUME NEW t \in Record(Len(orders), Height, Len(txs)), SameTrade(r, t), t.status \in {"open", "closed"}
      PROVE  Kept(i, r, t)
  <2>1. r.deposit = "deposited"
    BY DEF Sound
  <2>2. Sound(i, t)
    BY <1>2, <2>1, KeepsTrade
  <2> QED BY <1>2, <2>2 DEF Kept, Later
<1>3. ASSUME NEW v \in {"unsure", "idle"} PROVE Kept(i, r, B(v))
  <2>1. B(v) \in Record(Len(orders), Height, Len(txs))
    BY <1>1, Updates DEF ReimbursementStages
  <2>2. SameTrade(r, B(v)) /\ B(v).status = "open"
    BY <1>1 DEF Record, SameTrade
  <2> HIDE DEF B
  <2> QED BY <1>2, <2>1, <2>2
<1>4. Kept(i, r, C)
  <2>1. C \in Record(Len(orders), Height, Len(txs))
    <3> DEFINE q == [r EXCEPT !.status = "closed"]
    <3>1. q \in Record(Len(orders), Height, Len(txs))
      BY <1>1, Updates DEF Statuses
    <3>2. C = [q EXCEPT !.reimbursement = "idle"]
      BY <1>1 DEF Record
    <3> HIDE DEF q, C
    <3>3. [q EXCEPT !.reimbursement = "idle"] \in Record(Len(orders), Height, Len(txs))
      BY <1>1, <3>1, Updates DEF ReimbursementStages
    <3> QED BY <3>2, <3>3
  <2>2. SameTrade(r, C) /\ C.status = "closed"
    BY <1>1 DEF Record, SameTrade
  <2> HIDE DEF C
  <2> QED BY <1>2, <2>1, <2>2
<1>5. ASSUME NEW v \in {"proposed", "submitted"}, NEW k \in DOMAIN txs PROVE Kept(i, r, A(v, k))
  <2>0. k \in 0..Len(txs)
    BY <1>1 DEF WorldTypes
  <2>1. A(v, k) \in Record(Len(orders), Height, Len(txs))
    <3>1. A(v, k) = [r EXCEPT !.reimbursement = v, !.reimbursementTx = k]
      BY <1>1 DEF Record
    <3>2. [r EXCEPT !.reimbursement = v, !.reimbursementTx = k] \in Record(Len(orders), Height, Len(txs))
      BY <1>1, <2>0, Updates DEF ReimbursementStages
    <3> QED BY <3>1, <3>2
  <2>2. SameTrade(r, A(v, k)) /\ A(v, k).status = "open"
    BY <1>1 DEF Record, SameTrade
  <2> HIDE DEF A
  <2> QED BY <1>2, <2>1, <2>2
<1>6. Proposed(r) =
        CASE answer = "done" ->
               A(IF txs[Sent].state = "mined" THEN "proposed" ELSE "submitted", Sent)
          [] answer = "unclear" -> B("unsure")
          [] answer = "retry" -> B("idle") [] answer = "refused" -> C
  BY DEF Proposed
<1> HIDE DEF A, B, C
<1> QED BY <1>3, <1>4, <1>5, <1>6 DEF Outcomes

(* The answer of any tool.                                                 *)
Answered(r) ==
  CASE call.kind = "archive" -> Archived(r)
    [] call.kind = "order" -> Ordered(r)
    [] call.kind = "deposit" -> Deposited(r)
    [] call.kind = "reimbursement" -> Proposed(r)

(* The answer is about the intent the tool was called for, and keeps it    *)
(* sound.                                                                  *)
LEMMA OutputKept ==
  ASSUME Shape, stage = "output"
  PROVE  call.of \in Intents /\ Kept(call.of, intent[call.of], Answered(intent[call.of]))
<1>1. PICK c : c = call
  OBVIOUS
<1>2. PICK i : i = c.of
  OBVIOUS
<1>3. PICK r : r = intent[i]
  OBVIOUS
<1>4. /\ WorldTypes /\ c \in ToolCall /\ i \in Intents /\ answer \in Outcomes
      /\ Sound(i, r) /\ c.kind \in Kinds /\ answer \in Answers(c.kind)
  BY <1>1, <1>2, <1>3 DEF Shape, NodeTypes, ToolCall, Records, Calls
<1>5. r.status = "open" /\ Marked(call)
  BY <1>1, <1>2, <1>3 DEF Shape, Calls, Marked
<1>6. CASE c.kind = "archive"
  <2>1. ~r.cid /\ answer \in {"done", "retry", "refused"}
    BY <1>1, <1>2, <1>3, <1>4, <1>5, <1>6 DEF Marked, Answers
  <2>2. Kept(i, r, Archived(r))
    BY <1>4, <1>5, <2>1, ArchivedKept
  <2> QED BY <1>1, <1>2, <1>3, <1>4, <1>6, <2>2 DEF Answered
<1>7. CASE c.kind = "order"
  <2>1. /\ r.order = "dispatched" /\ answer \in {"done", "retry", "unclear"}
        /\ answer = "retry" => Progress(i) \in {"accepted", "doubted"}
        /\ answer = "done" => Len(orders) \in OrdersOf(i)
    BY <1>1, <1>2, <1>3, <1>4, <1>5, <1>7 DEF Shape, Calls, Marked, Undone, Answers
  <2>2. Kept(i, r, Ordered(r))
    BY <1>4, <1>5, <2>1, OrderedKept
  <2> QED BY <1>1, <1>2, <1>3, <1>4, <1>7, <2>2 DEF Answered
<1>8. CASE c.kind = "deposit"
  <2>1. r.deposit = "dispatched" /\ answer = "done"
    BY <1>1, <1>2, <1>3, <1>4, <1>5, <1>8 DEF Marked, Answers
  <2>2. call = [kind |-> "deposit", of |-> i]
    BY <1>1, <1>2, <1>4, <1>8 DEF ToolCall
  <2>3. LastSent(call, Sent)
    BY <1>1, <1>4, <1>8, <2>1, SentIsLast DEF Shape, Calls
  <2>4. Kept(i, r, Deposited(r))
    BY <1>4, <1>5, <2>1, <2>2, <2>3, DepositedOutput
  <2> QED BY <1>1, <1>2, <1>3, <1>4, <1>8, <2>4 DEF Answered
<1>9. CASE c.kind = "reimbursement"
  <2>1. r.reimbursement = "dispatched"
    BY <1>1, <1>2, <1>3, <1>4, <1>5, <1>9 DEF Marked
  <2>2. answer = "done" => Sent \in DOMAIN txs
    BY <1>1, <1>4, <1>9, SentIsLast DEF Shape, Calls, LastSent
  <2>3. Kept(i, r, Proposed(r))
    BY <1>4, <1>5, <2>1, <2>2, ProposedOutput
  <2> QED BY <1>1, <1>2, <1>3, <1>4, <1>9, <2>3 DEF Answered
<1> QED BY <1>4, <1>6, <1>7, <1>8, <1>9 DEF Kinds-----------------------------------------------------------------------------

(* What happened stays so: the chain and the transactions only grow, and   *)
(* what became of a transaction is final.                                  *)
Grows ==
  /\ load' = load
  /\ Height <= Height' /\ \A b \in 1..Height : chain'[b] = chain[b]
  /\ Len(orders) <= Len(orders')
  /\ \A k \in DOMAIN orders : /\ orders'[k].of = orders[k].of
                              /\ orders[k].state = "filled" => orders'[k].state = "filled"
  /\ Len(txs) <= Len(txs')
  /\ \A k \in DOMAIN txs : /\ txs'[k].kind = txs[k].kind /\ txs'[k].of = txs[k].of
                           /\ txs[k].state # "pool" => txs'[k] = txs[k]

(* What was known of the chain and of the transactions is still known.     *)
LEMMA Growth ==
  ASSUME WorldTypes, WorldTypes', Grows
  PROVE  /\ Height \in Nat /\ Height' \in Nat /\ Len(txs) \in Nat /\ Len(txs') \in Nat
         /\ DOMAIN txs = 1..Len(txs) /\ DOMAIN txs' = 1..Len(txs')
         /\ 1..Height \subseteq 1..Height' /\ DOMAIN txs \subseteq DOMAIN txs'
         /\ 0..Height \subseteq 0..Height'
         /\ DOMAIN orders \subseteq DOMAIN orders' /\ \A i : OrdersOf(i) \subseteq OrdersOf(i)'
         /\ AllHashes' = AllHashes /\ PaidHashes \subseteq PaidHashes'
         /\ Record(Len(orders), Height, Len(txs)) \subseteq Record(Len(orders), Height, Len(txs))'
         /\ Update \subseteq Update'
         /\ \A i \in Intents, at \in Int : /\ Arrived(i, at) => Arrived(i, at)'
                                           /\ Real(i, at) => Real(i, at)'
<1>1. /\ Height \in Nat /\ Height' \in Nat /\ Len(txs) \in Nat /\ Len(txs') \in Nat
      /\ DOMAIN txs = 1..Len(txs) /\ DOMAIN txs' = 1..Len(txs')
      /\ Height <= Height' /\ Len(txs) <= Len(txs')
  BY DEF WorldTypes, Height, Grows
<1>2. /\ 1..Height \subseteq 1..Height' /\ DOMAIN txs \subseteq DOMAIN txs'
      /\ 0..Height \subseteq 0..Height' /\ 0..Len(txs) \subseteq 0..Len(txs')
  BY <1>1
<1>3. AllHashes' = AllHashes /\ \A i : HashOf(i)' = HashOf(i)
  BY DEF AllHashes, HashOf, Grows
<1>4. PaidHashes \subseteq PaidHashes'
  <2> SUFFICES ASSUME NEW h \in PaidHashes PROVE h \in PaidHashes'
    OBVIOUS
  <2>1. PICK b \in 1..Height : chain[b].kind = "executed" /\ load.spend[chain[b].of] = h
    BY DEF PaidHashes, HashOf
  <2>2. b \in 1..Height' /\ chain'[b] = chain[b] /\ load' = load
    BY <1>2 DEF Grows
  <2>3. h \in AllHashes'
    BY <1>3 DEF PaidHashes
  <2> QED BY <2>1, <2>2, <2>3 DEF PaidHashes, HashOf
<1>5. /\ Record(Len(orders), Height, Len(txs)) \subseteq Record(Len(orders), Height, Len(txs))'
      /\ DOMAIN orders \subseteq DOMAIN orders' /\ \A i : OrdersOf(i) \subseteq OrdersOf(i)'
  <2>1. /\ Len(orders) \in Nat /\ Len(orders') \in Nat /\ Len(orders) <= Len(orders')
        /\ DOMAIN orders = 1..Len(orders) /\ DOMAIN orders' = 1..Len(orders')
    BY DEF WorldTypes, Grows
  <2>2. DOMAIN orders \subseteq DOMAIN orders' /\ 0..Len(orders) \subseteq 0..Len(orders')
    BY <2>1
  <2>3. \A i : OrdersOf(i) \subseteq OrdersOf(i)'
    BY <2>2 DEF OrdersOf, Grows
  <2> QED BY <1>2, <2>2, <2>3 DEF Record
<1>6. Update \subseteq Update'
  BY <1>3, <1>4 DEF Update
<1>7. ASSUME NEW i \in Intents, NEW at \in Int, Arrived(i, at) PROVE Arrived(i, at)'
  BY <1>2, <1>7 DEF Arrived, Grows
<1>8. ASSUME NEW i \in Intents, NEW at \in Int, Real(i, at) PROVE Real(i, at)'
  BY <1>2, <1>3, <1>8 DEF Real, Grows, HashOf
<1> QED BY <1>1, <1>2, <1>3, <1>4, <1>5, <1>6, <1>7, <1>8

(* A record is still sound when the world has moved on, if what is new     *)
(* fits it.                                                                *)
LEMMA KeptByWorld ==
  ASSUME WorldTypes, WorldTypes', Grows, NEW i \in Intents, NEW r, Sound(i, r),
         scanned <= scanned', scanned \in 0..Height, scanned' \in 0..Height',
         r.status = "released" => Progress(i)' \in {"accepted", "failed", "doubted"},
         r.order = "idle" => Progress(i)' \in {"accepted", "doubted"},
         ~r.cid => Progress(i)' = "accepted",
         r.deposit \in {"idle", "submitted"} => Pending(i)' \subseteq Pending(i),
         \A k \in DOMAIN txs' : IsTx(k, "deposit", i)' =>
           r.order = "filled" /\ (txs'[k].state = "mined" => Arrived(i, r.orderAt)'),
         \A k \in DOMAIN txs' : IsTx(k, "reimbursement", i)' => r.deposit = "deposited",
         \A b \in 1..Height' : chain'[b].kind \in Governor /\ chain'[b].of = i =>
           r.deposit = "deposited"
  PROVE  Sound(i, r)'
<1>1. r \in Record(Len(orders), Height, Len(txs))' /\ r \in Record(Len(orders), Height, Len(txs))
  BY Growth DEF Sound
<1>2. r.orderAt \in Int /\ r.from \in Int /\ r.depositTx \in 0..Len(txs)
  BY <1>1, Growth DEF Record
<1>3. r.from <= scanned'
  BY <1>2, Growth DEF Sound
<1>4. r.status = "reimbursed" => HashOf(i)' \in PaidHashes'
  BY Growth DEF Sound, Grows, HashOf
<1>5. r.deposit = "deposited" => Real(i, r.orderAt)'
  BY <1>2, Growth DEF Sound
<1>6. r.deposit = "submitted" => IsTx(r.depositTx, "deposit", i)' /\ Pending(i)' \subseteq {r.depositTx}
  <2> SUFFICES ASSUME r.deposit = "submitted"
               PROVE  IsTx(r.depositTx, "deposit", i)' /\ Pending(i)' \subseteq {r.depositTx}
    OBVIOUS
  <2>1. r.depositTx # 0 /\ IsTx(r.depositTx, "deposit", i) /\ Pending(i) \subseteq {r.depositTx}
    BY DEF Sound
  <2>2. r.depositTx \in DOMAIN txs
    BY <1>2, <2>1, Growth
  <2> QED BY <2>1, <2>2 DEF IsTx, Grows
<1>7. r.deposit = "idle" => Pending(i)' = {}
  BY DEF Sound
<1>8. /\ r.status = "none" => r = NoRecord
      /\ ~r.cid => r.order = "idle"
      /\ r.deposit # "idle" => r.order = "filled"
      /\ r.reimbursement # "idle" => r.deposit = "deposited"
      /\ r.status = "released" => r.order # "filled"
      /\ r.orderAt <= r.from
      /\ r.deposit = "submitted" => r.depositTx # 0
  BY DEF Sound
<1>9. /\ r.order \in {"placed", "filled"} => r.orderId \in OrdersOf(i)'
      /\ r.order = "filled" => orders'[r.orderId].state = "filled"
  <2>1. /\ r.order \in {"placed", "filled"} => r.orderId \in OrdersOf(i)
        /\ r.order = "filled" => orders[r.orderId].state = "filled"
    BY DEF Sound
  <2>2. \A k \in OrdersOf(i) : k \in OrdersOf(i)' /\ k \in DOMAIN orders
    BY Growth DEF OrdersOf
  <2> QED BY <2>1, <2>2 DEF Grows
<1> QED BY <1>1, <1>3, <1>4, <1>5, <1>6, <1>7, <1>8, <1>9 DEF Sound

(* What the node keeps still has its type when the world has moved on.     *)
LEMMA NodeKept ==
  ASSUME WorldTypes, WorldTypes', Grows, NodeTypes, UNCHANGED <<durable, cursor, queue, fresh>>
  PROVE  /\ Indexed(intent')
         /\ waiting' \in Update' /\ queue' \in Seq(Update')
         /\ scanned' \in 0..Height' /\ cursor' \in 0..Height' /\ fresh' \subseteq 1..Height'
<1>1. /\ 0..Height \subseteq 0..Height' /\ 1..Height \subseteq 1..Height'
      /\ Update \subseteq Update'
  BY Growth
<1>2. queue \in Seq(Update')
  <2>1. queue \in Seq(Update)
    BY DEF NodeTypes
  <2>2. PICK U : U = Update
    OBVIOUS
  <2>3. PICK V : V = Update'
    OBVIOUS
  <2>4. U \subseteq V /\ queue \in Seq(U)
    BY <1>1, <2>1, <2>2, <2>3
  <2>5. queue \in Seq(V)
    BY <2>4
  <2> QED BY <2>3, <2>5
<1> QED BY <1>1, <1>2 DEF NodeTypes, durable

(* Transactions that are mined or revert, proposals that are executed or   *)
(* disputed and orders that are filled or killed keep the shape.           *)
Moves ==
  /\ Grows /\ UNCHANGED <<durable, memory>>
  /\ DOMAIN orders' = DOMAIN orders
  /\ \A k \in DOMAIN orders : /\ orders'[k].denied = orders[k].denied
                              /\ orders'[k].state # orders[k].state => orders[k].state = "open"
  /\ DOMAIN txs' = DOMAIN txs
  /\ \A k \in DOMAIN txs : txs'[k].state = "pool" => txs[k].state = "pool"
  /\ \A k \in DOMAIN txs : txs'[k].state = "mined" /\ txs[k].state # "mined"
                             /\ txs[k].kind = "deposit" =>
       \E b \in 1..Height' : b > Height /\ chain'[b] = [kind |-> "transfer", of |-> txs[k].of]
  /\ \A b \in 1..Height' : b > Height /\ chain'[b].kind \in Governor =>
       \/ \E c \in 1..Height : chain[c].kind \in Governor /\ chain[c].of = chain'[b].of
       \/ \E k \in DOMAIN txs : IsTx(k, "reimbursement", chain'[b].of)

(* What they do to a trade: what was open is not.                          *)
LEMMA ProgressMoves ==
  ASSUME WorldTypes, Moves, NEW i, Single(i)
  PROVE  /\ Single(i)' /\ OrdersOf(i)' = OrdersOf(i) /\ Denied(i)' = Denied(i)
         /\ Progress(i)' # Progress(i) => Progress(i) = "open"
<1>1. OrdersOf(i)' = OrdersOf(i)
  BY DEF OrdersOf, Moves, Grows
<1>2. Denied(i)' = Denied(i)
  BY <1>1 DEF Denied, OrdersOf, Moves
<1>3. Single(i)'
  BY <1>1, <1>2 DEF Single
<1>4. CASE OrdersOf(i) = {}
  BY <1>1, <1>2, <1>3, <1>4 DEF Progress
<1>5. CASE OrdersOf(i) # {} /\ Denied(i)
  BY <1>1, <1>2, <1>3, <1>5 DEF Progress
<1>6. CASE OrdersOf(i) # {} /\ ~Denied(i)
  <2>1. PICK k : OrdersOf(i) = {k}
    BY <1>6 DEF Single
  <2>2. k \in DOMAIN orders /\ k \in Int
    BY <2>1 DEF OrdersOf, WorldTypes
  <2>3. Max({k}) = k
    BY <2>2, MaxOfOne
  <2>4. Progress(i) = orders[k].state
    BY <1>6, <2>1, <2>3 DEF Progress
  <2>5. Progress(i)' = orders'[k].state
    BY <1>1, <1>2, <1>6, <2>1, <2>3 DEF Progress
  <2> QED BY <1>1, <1>2, <1>3, <2>2, <2>4, <2>5 DEF Moves
<1> QED BY <1>4, <1>5, <1>6

(* They keep the shape.                                                    *)
LEMMA MovesKeepShape ==
  ASSUME Shape, WorldTypes', Moves
  PROVE  Shape'
<1>1. /\ WorldTypes /\ NodeTypes /\ Grows
      /\ scanned' = scanned /\ scanned \in 0..Height /\ scanned' \in 0..Height'
      /\ Height \in Nat /\ Height' \in Nat
      /\ intent' = intent /\ Once /\ stage' = stage /\ call' = call /\ answer' = answer
  BY Growth DEF Shape, Moves, durable, memory, NodeTypes
<1>2. NodeTypes'
  BY <1>1, NodeKept DEF Moves, NodeTypes, memory
<1>3. \A i \in Intents : Pending(i)' \subseteq Pending(i)
  BY <1>1 DEF Pending, IsTx, Moves, Grows
<1>4. \A i \in Intents, k \in DOMAIN txs' : \A kind : IsTx(k, kind, i)' => IsTx(k, kind, i)
  BY DEF Moves, Grows, IsTx
<1>5. Records'
  <2> SUFFICES ASSUME NEW i \in Intents PROVE Sound(i, intent[i])'
    BY DEF Records
  <2>1. PICK r : r = intent[i]
    OBVIOUS
  <2>2. Sound(i, r)
    BY <2>1 DEF Shape, Records
  <2>3. r \in Record(Len(orders), Height, Len(txs)) /\ r.orderAt \in Int /\ r.orderAt <= Height
    BY <1>1, <2>2 DEF Sound, Record
  <2>4. Progress(i)' # Progress(i) => Progress(i) = "open"
    BY <1>1, ProgressMoves DEF Once, Moves
  <2>5. /\ r.status = "released" => Progress(i)' \in {"accepted", "failed", "doubted"}
        /\ r.order = "idle" => Progress(i)' \in {"accepted", "doubted"}
        /\ ~r.cid => Progress(i)' = "accepted"
    BY <2>2, <2>4 DEF Sound
  <2>6. ASSUME NEW k \in DOMAIN txs', IsTx(k, "deposit", i)'
        PROVE  r.order = "filled" /\ (txs'[k].state = "mined" => Arrived(i, r.orderAt)')
    <3>1. k \in DOMAIN txs /\ IsTx(k, "deposit", i)
      BY <1>4, <2>6 DEF Moves
    <3>2. r.order = "filled" /\ (txs[k].state = "mined" => Arrived(i, r.orderAt))
      BY <2>2, <3>1 DEF Sound
    <3>3. CASE txs[k].state = "mined"
      BY <1>1, <2>3, <3>2, <3>3, Growth
    <3>4. CASE txs[k].state # "mined" /\ txs'[k].state = "mined"
      <4>1. PICK b \in 1..Height' : b > Height /\ chain'[b] = [kind |-> "transfer", of |-> i]
        BY <3>1, <3>4 DEF Moves, IsTx
      <4>2. b >= r.orderAt
        BY <1>1, <2>3, <4>1
      <4>3. Arrived(i, r.orderAt)'
        BY <4>1, <4>2 DEF Arrived
      <4> QED BY <3>2, <4>3
    <3> QED BY <3>2, <3>3, <3>4
  <2>7. \A k \in DOMAIN txs' : IsTx(k, "reimbursement", i)' => r.deposit = "deposited"
    BY <1>4, <2>2 DEF Sound, Moves
  <2>8. ASSUME NEW b \in 1..Height', chain'[b].kind \in Governor, chain'[b].of = i
        PROVE  r.deposit = "deposited"
    <3>1. CASE b <= Height
      <4>1. b \in 1..Height /\ chain'[b] = chain[b]
        BY <1>1, <3>1 DEF Grows
      <4> QED BY <2>2, <2>8, <4>1 DEF Sound
    <3>2. CASE b > Height
      BY <2>2, <2>8, <3>2 DEF Moves, Sound
    <3> QED BY <1>1, <3>1, <3>2
  <2>9. Sound(i, r)'
    BY <1>1, <1>3, <2>2, <2>5, <2>6, <2>7, <2>8, KeptByWorld
  <2> QED BY <1>1, <2>1, <2>9
<1>6. Once'
  <2>1. \A i \in Intents : \A k, l \in Pending(i)' : k = l
    BY <1>3 DEF Shape, Once
  <2>2. \A i \in Intents : Single(i)'
    BY <1>1, ProgressMoves DEF Once
  <2> QED BY <2>1, <2>2 DEF Once
<1>7. Calls'
  <2>1. PICK c : c = call
    OBVIOUS
  <2>2. stage \in {"call", "output"} => c.of \in Intents
    BY <1>1, <2>1 DEF NodeTypes, ToolCall
  <2>3. Marked(c) => Marked(c)'
    BY <1>1 DEF Marked
  <2>4. c.of \in Intents /\ Undone(c) => Undone(c)'
    <3> SUFFICES ASSUME c.of \in Intents, Undone(c) PROVE Undone(c)'
      OBVIOUS
    <3>1. Progress(c.of)' # Progress(c.of) => Progress(c.of) = "open"
      BY <1>1, ProgressMoves DEF Once
    <3> QED BY <1>3, <3>1 DEF Undone
  <2>5. ASSUME c.of \in Intents, NEW k, LastSent(c, k) PROVE k \in DOMAIN txs' /\ LastSent(c, k)'
    <3>1. k \in DOMAIN txs' /\ DOMAIN txs' = DOMAIN txs
      BY <2>5 DEF LastSent, Moves
    <3>2. IsTx(k, c.kind, c.of)' /\ \A l \in DOMAIN txs' : IsTx(l, c.kind, c.of)' => l <= k
      BY <1>4, <2>5, <3>1 DEF LastSent, IsTx, Moves, Grows
    <3> QED BY <1>3, <2>5, <3>1, <3>2 DEF LastSent
  <2>6. /\ stage \in {"call", "output"} => Marked(c)
        /\ stage = "call" \/ (stage = "output" /\ answer = "retry") => Undone(c)
        /\ stage = "output" => answer \in Answers(c.kind)
        /\ stage = "output" /\ answer = "done" /\ c.kind = "order" => Len(orders) \in OrdersOf(c.of)
        /\ stage = "output" /\ answer = "done" /\ c.kind \in {"deposit", "reimbursement"} =>
             \E k \in DOMAIN txs : LastSent(c, k)
    BY <2>1 DEF Shape, Calls
  <2>7. Len(orders') = Len(orders) /\ \A i : OrdersOf(i) \subseteq OrdersOf(i)'
    BY <1>1, Growth DEF WorldTypes, Moves
  <2>8. /\ stage' \in {"call", "output"} => Marked(c)'
        /\ stage' = "call" \/ (stage' = "output" /\ answer' = "retry") => Undone(c)'
        /\ stage' = "output" => answer' \in Answers(c.kind)
        /\ stage' = "output" /\ answer' = "done" /\ c.kind = "order" => Len(orders') \in OrdersOf(c.of)'
        /\ stage' = "output" /\ answer' = "done" /\ c.kind \in {"deposit", "reimbursement"} =>
             \E k \in DOMAIN txs' : LastSent(c, k)'
    <3> HIDE DEF Marked, Undone, LastSent
    <3> QED BY <1>1, <2>2, <2>3, <2>4, <2>5, <2>6, <2>7
  <2>9. call' = c
    BY <1>1, <2>1
  <2> QED BY <2>8, <2>9 DEF Calls, Answers
<1> QED BY <1>2, <1>5, <1>6, <1>7 DEF Shape

(* An event that is made is the last one.                                  *)
LEMMA EventMade ==
  ASSUME chain \in Seq(Event), NEW kind \in Governor \cup {"transfer"}, NEW i \in Intents,
         Made(kind, i)
  PROVE  /\ chain' \in Seq(Event) /\ Height \in Nat /\ Height' = Height + 1
         /\ chain'[Height'] = [kind |-> kind, of |-> i]
         /\ \A b \in 1..Height : chain'[b] = chain[b] /\ b \in 1..Height'
         /\ \A b \in 1..Height' : b \in 1..Height \/ b = Height'
<1> DEFINE e == [kind |-> kind, of |-> i]
<1>1. e \in Event
  BY DEF Event
<1> HIDE DEF e
<1>2. chain' = Append(chain, e)
  BY DEF Made, e
<1>3. chain' \in Seq(Event) /\ Height \in Nat /\ Height' = Height + 1
  BY <1>1, <1>2 DEF Height
<1>4. chain'[Height'] = e /\ \A b \in 1..Height : chain'[b] = chain[b]
  BY <1>1, <1>2, <1>3 DEF Height
<1> QED BY <1>3, <1>4 DEF e

(* The proposal that is executed or disputed was made.                     *)
LEMMA LiveIsLatest ==
  ASSUME WorldTypes, NEW i \in Intents, NEW a, a = Max(Events(HashOf(i), Height)),
         Live(HashOf(i)), chain[a].of = i
  PROVE  /\ a \in 1..Height /\ chain[a] = [kind |-> "proposed", of |-> i]
         /\ \A c \in 1..Height : Ours(i, c) => c <= a
<1>1. Height \in 0..Height
  BY DEF WorldTypes, Height
<1>2. Events(HashOf(i), Height) # {} /\ chain[a].kind = "proposed"
  BY DEF Live, LiveAt
<1>3. a \in Events(HashOf(i), Height) /\ a \in 1..Height
      /\ \A b \in Events(HashOf(i), Height) : b <= a
  BY <1>1, <1>2, LatestEvent
<1>4. chain[a] \in Event
  BY <1>3 DEF WorldTypes, Height
<1>5. chain[a] = [kind |-> "proposed", of |-> i]
  BY <1>2, <1>4 DEF Event
<1> QED BY <1>3, <1>5 DEF Ours, Events

(* A proposal that is executed or disputed.                                *)
LEMMA EndedMoves ==
  ASSUME WorldTypes, NEW i \in Intents, NEW kind \in {"executed", "deleted"}, Made(kind, i),
         Live(HashOf(i)), chain[Max(Events(HashOf(i), Height))].of = i,
         UNCHANGED <<load, durable, memory, txs, orders>>
  PROVE  WorldTypes' /\ Moves
<1>0. PICK a : a = Max(Events(HashOf(i), Height))
  OBVIOUS
<1>1. a \in 1..Height /\ chain[a] = [kind |-> "proposed", of |-> i]
  BY <1>0, LiveIsLatest
<1>2. kind \in Governor \cup {"transfer"}
  BY DEF Governor
<1>3. /\ chain' \in Seq(Event) /\ Height \in Nat /\ Height' = Height + 1
      /\ chain'[Height'] = [kind |-> kind, of |-> i]
      /\ \A b \in 1..Height : chain'[b] = chain[b] /\ b \in 1..Height'
      /\ \A b \in 1..Height' : b \in 1..Height \/ b = Height'
  BY <1>2, EventMade DEF WorldTypes
<1>4. WorldTypes'
  BY <1>3 DEF WorldTypes
<1>5. Grows
  BY <1>3 DEF WorldTypes, Grows
<1>6. \A b \in 1..Height' : b > Height /\ chain'[b].kind \in Governor =>
        \E c \in 1..Height : chain[c].kind \in Governor /\ chain[c].of = chain'[b].of
  <2> SUFFICES ASSUME NEW b \in 1..Height', b > Height
               PROVE  \E c \in 1..Height : chain[c].kind \in Governor /\ chain[c].of = chain'[b].of
    OBVIOUS
  <2>1. b = Height'
    BY <1>3
  <2> QED BY <1>1, <1>3, <2>1 DEF Governor
<1> QED BY <1>4, <1>5, <1>6 DEF Moves

(* A transaction that is mined or reverts.                                 *)
LEMMA MineMoves ==
  ASSUME Shape, NEW k \in DOMAIN txs, Mine(k)
  PROVE  /\ WorldTypes' /\ Moves
         /\ txs' \in Seq(Tx) /\ DOMAIN txs' = DOMAIN txs
         /\ txs[k].state = "pool" /\ txs'[k].state # "pool"
         /\ \A l \in DOMAIN txs : l # k => txs'[l] = txs[l]
         /\ \/ UNCHANGED chain
            \/ txs[k].kind = "deposit" /\ Made("transfer", txs[k].of)
            \/ /\ txs[k].kind = "reimbursement" /\ Made("proposed", txs[k].of)
               /\ ~Live(HashOf(txs[k].of))
<1>1. /\ WorldTypes /\ txs \in Seq(Tx) /\ DOMAIN txs = 1..Len(txs) /\ Len(txs) \in Nat
      /\ txs[k] \in Tx /\ txs[k].state = "pool"
  BY DEF Shape, WorldTypes, Mine
<1>2. PICK fine \in BOOLEAN :
        /\ txs[k].kind = "reimbursement" => fine = ~Live(HashOf(txs[k].of))
        /\ txs' = [txs EXCEPT ![k].state = IF fine THEN "mined" ELSE "reverted"]
        /\ IF fine THEN Made(IF txs[k].kind = "deposit" THEN "transfer" ELSE "proposed", txs[k].of)
           ELSE UNCHANGED chain
  BY DEF Mine
<1>3. UNCHANGED <<load, durable, memory, orders>>
  BY DEF Mine, Outside
<1> DEFINE new == [txs[k] EXCEPT !.state = IF fine THEN "mined" ELSE "reverted"]
<1>4. /\ new \in Tx /\ new.kind = txs[k].kind /\ new.of = txs[k].of
      /\ new.state = IF fine THEN "mined" ELSE "reverted"
  BY <1>1 DEF Tx
<1>5. txs' = [txs EXCEPT ![k] = new]
  BY <1>1, <1>2
<1> HIDE DEF new
<1>6. /\ txs' \in Seq(Tx) /\ DOMAIN txs' = DOMAIN txs /\ Len(txs') = Len(txs) /\ txs'[k] = new
      /\ \A l \in DOMAIN txs : l # k => txs'[l] = txs[l]
  BY <1>1, <1>4, <1>5
<1>7. CASE UNCHANGED chain
  <2>1. WorldTypes'
    BY <1>1, <1>3, <1>6, <1>7 DEF WorldTypes
  <2>2. Height' = Height /\ Height \in Nat
    BY <1>1, <1>7 DEF Height, WorldTypes
  <2>3. Grows
    BY <1>1, <1>3, <1>4, <1>6, <1>7, <2>2 DEF Grows
  <2>4. ~fine \/ fine = FALSE
    <3> SUFFICES ASSUME fine PROVE FALSE
      OBVIOUS
    <3>1. PICK kind, i : chain' = Append(chain, [kind |-> kind, of |-> i])
      BY <1>2 DEF Made
    <3>2. chain' # chain
      BY <1>1, <2>2, <3>1 DEF WorldTypes, Height
    <3> QED BY <1>7, <3>2
  <2>5. Moves
    BY <1>1, <1>3, <1>4, <1>6, <2>2, <2>3, <2>4 DEF Moves
  <2> QED BY <1>1, <1>4, <1>6, <1>7, <2>1, <2>5
<1>8. CASE fine
  <2> DEFINE kind == IF txs[k].kind = "deposit" THEN "transfer" ELSE "proposed"
  <2>1. kind \in Governor \cup {"transfer"} /\ txs[k].of \in Intents /\ Made(kind, txs[k].of)
    BY <1>1, <1>2, <1>8 DEF Governor, Tx
  <2>2. /\ chain' \in Seq(Event) /\ Height \in Nat /\ Height' = Height + 1
        /\ chain'[Height'] = [kind |-> kind, of |-> txs[k].of]
        /\ \A b \in 1..Height : chain'[b] = chain[b] /\ b \in 1..Height'
        /\ \A b \in 1..Height' : b \in 1..Height \/ b = Height'
    <3> HIDE DEF kind
    <3> QED BY <1>1, <2>1, EventMade DEF WorldTypes
  <2>3. WorldTypes'
    BY <1>1, <1>3, <1>6, <2>2 DEF WorldTypes
  <2>4. Grows
    BY <1>1, <1>3, <1>4, <1>6, <2>2 DEF Grows
  <2>5. /\ Height' \in 1..Height' /\ Height' > Height
    BY <2>2
  <2>6. \A l \in DOMAIN txs : txs'[l].state = "mined" /\ txs[l].state # "mined"
                                /\ txs[l].kind = "deposit" =>
          \E b \in 1..Height' : b > Height /\ chain'[b] = [kind |-> "transfer", of |-> txs[l].of]
    <3> SUFFICES ASSUME NEW l \in DOMAIN txs, txs'[l].state = "mined", txs[l].state # "mined",
                        txs[l].kind = "deposit"
                 PROVE  chain'[Height'] = [kind |-> "transfer", of |-> txs[l].of]
      BY <2>5
    <3>1. l = k
      BY <1>6
    <3> QED BY <2>2, <3>1
  <2>7. \A b \in 1..Height' : b > Height /\ chain'[b].kind \in Governor =>
          \E l \in DOMAIN txs : IsTx(l, "reimbursement", chain'[b].of)
    <3> SUFFICES ASSUME NEW b \in 1..Height', b > Height, chain'[b].kind \in Governor
                 PROVE  IsTx(k, "reimbursement", chain'[b].of)
      OBVIOUS
    <3>1. b = Height'
      BY <2>2
    <3>2. kind # "transfer" /\ chain'[b].of = txs[k].of
      BY <2>2, <3>1 DEF Governor
    <3> QED BY <1>1, <3>2 DEF Tx, IsTx
  <2>8. \A l \in DOMAIN txs : txs'[l].state = "pool" => txs[l].state = "pool"
    BY <1>1, <1>6
  <2> HIDE DEF kind
  <2>9. Moves
    BY <1>3, <1>6, <2>4, <2>6, <2>7, <2>8 DEF Moves
  <2>10. \/ txs[k].kind = "deposit" /\ Made("transfer", txs[k].of)
         \/ /\ txs[k].kind = "reimbursement" /\ Made("proposed", txs[k].of)
            /\ ~Live(HashOf(txs[k].of))
    BY <1>1, <1>2, <1>8, <2>1 DEF kind, Tx
  <2> QED BY <1>1, <1>4, <1>6, <2>3, <2>9, <2>10
<1> QED BY <1>2, <1>7, <1>8

(* An order that is filled or killed.                                      *)
LEMMA OrderSettled ==
  ASSUME WorldTypes, NEW k \in DOMAIN orders, Fill(k) \/ Kill(k)
  PROVE  /\ WorldTypes' /\ Moves
         /\ orders[k].state = "open" /\ orders'[k].state \in {"filled", "failed"}
         /\ \A l \in DOMAIN orders : l # k => orders'[l] = orders[l]
         /\ orders[k].of \in Intents /\ DOMAIN orders' = DOMAIN orders
         /\ \A l \in DOMAIN orders : /\ orders'[l].of = orders[l].of
                                     /\ orders'[l].denied = orders[l].denied
         /\ UNCHANGED <<load, durable, memory, chain, txs>>
<1>1. /\ UNCHANGED <<load, durable, memory, chain, txs>>
      /\ orders[k].state = "open"
      /\ \E v \in {"filled", "failed"} : orders' = [orders EXCEPT ![k].state = v]
  BY DEF Fill, Kill, Outside
<1>2. PICK v \in {"filled", "failed"} : orders' = [orders EXCEPT ![k].state = v]
  BY <1>1
<1>3. /\ orders \in Seq(OrderEntry) /\ DOMAIN orders = 1..Len(orders) /\ Len(orders) \in Nat
      /\ orders[k] \in OrderEntry
  BY DEF WorldTypes
<1> DEFINE new == [orders[k] EXCEPT !.state = v]
<1>4. /\ new \in OrderEntry /\ new.of = orders[k].of /\ new.denied = orders[k].denied
      /\ new.state = v
  BY <1>3 DEF OrderEntry
<1>5. orders' = [orders EXCEPT ![k] = new]
  BY <1>2, <1>3
<1> HIDE DEF new
<1>6. /\ orders' \in Seq(OrderEntry) /\ DOMAIN orders' = DOMAIN orders
      /\ Len(orders') = Len(orders) /\ orders'[k] = new
      /\ \A l \in DOMAIN orders : l # k => orders'[l] = orders[l]
  BY <1>3, <1>4, <1>5
<1>7. WorldTypes' /\ Height' = Height /\ Height \in Nat /\ Len(txs) \in Nat
  BY <1>1, <1>6 DEF WorldTypes, Height
<1>8. Grows
  BY <1>1, <1>3, <1>4, <1>6, <1>7 DEF Grows
<1>9. Moves
  BY <1>1, <1>4, <1>6, <1>7, <1>8 DEF Moves
<1> QED BY <1>1, <1>3, <1>4, <1>6, <1>7, <1>9 DEF OrderEntry

(* Every step of the chain and of the exchange keeps the shape.            *)
LEMMA WorldKeepsShape ==
  ASSUME Shape, World
  PROVE  Shape' /\ WorldTypes' /\ Moves
<1>1. WorldTypes /\ NodeTypes
  BY DEF Shape
<1>2. ASSUME NEW k \in DOMAIN orders, Fill(k) \/ Kill(k) PROVE WorldTypes' /\ Moves
  BY <1>1, <1>2, OrderSettled
<1>3. ASSUME NEW i \in Intents, Execute(i) PROVE WorldTypes' /\ Moves
  <2>1. Made("executed", i) /\ UNCHANGED <<load, durable, memory, txs, orders>>
    BY <1>3 DEF Execute, Outside
  <2>2. Live(HashOf(i)) /\ chain[Max(Events(HashOf(i), Height))].of = i
    BY <1>3 DEF Execute
  <2> QED BY <1>1, <2>1, <2>2, EndedMoves
<1>4. ASSUME NEW i \in Intents, Dispute(i) PROVE WorldTypes' /\ Moves
  <2>1. Made("deleted", i) /\ UNCHANGED <<load, durable, memory, txs, orders>>
    BY <1>4 DEF Dispute, Outside
  <2>2. Live(HashOf(i)) /\ chain[Max(Events(HashOf(i), Height))].of = i
    BY <1>4 DEF Dispute
  <2> QED BY <1>1, <2>1, <2>2, EndedMoves
<1>5. ASSUME NEW k \in DOMAIN txs, Mine(k) PROVE WorldTypes' /\ Moves
  BY <1>5, MineMoves
<1>6. WorldTypes' /\ Moves
  BY <1>2, <1>3, <1>4, <1>5 DEF World
<1> QED BY <1>6, MovesKeepShape-----------------------------------------------------------------------------

(* What a step of the loop that leaves the world alone does to the intents *)
(* and to the ledger: records are kept, and an intent is accepted at most. *)
Accepted == [NoRecord EXCEPT !.status = "open"]
Advances(records, new) ==
  /\ Indexed(intent') /\ waiting' \in Update
  /\ \A i \in Intents : Kept(i, intent[i], records[i])
  /\ \A i \in Intents : intent'[i] = IF i \in new THEN Accepted ELSE records[i]

(* Ingest: what the log says was executed is no longer open after it.      *)
LEMMA IngestAdvances ==
  ASSUME Shape, Ingest
  PROVE  \E records : \E readable \in BOOLEAN : \E new \in New(readable) :
           /\ Advances(records, new)
           /\ \A i \in Intents : /\ Holds(i, intent[i], records[i])
                                 /\ records[i].status = "open" => Commitment(i, Height) # "executed"
<1>1. /\ WorldTypes /\ NodeTypes /\ Records
  BY DEF Shape
<1>2. PICK late, readable \in BOOLEAN :
        /\ waiting' = [executed |-> Ingested(late).executed, deleted |-> Ingested(late).deleted]
        /\ \E new \in New(readable) :
             intent' = Accepting([i \in Intents |->
                         Recovered(Ingested(late).intents[i], Commitment(i, Height))], new)
  BY DEF Ingest
<1>3. PICK new \in New(readable) :
        intent' = Accepting([i \in Intents |->
                    Recovered(Ingested(late).intents[i], Commitment(i, Height))], new)
  BY <1>2
<1>4. PICK s : s = Ingested(late)
  OBVIOUS
<1>5. s \in Ledgers /\ \A i \in Intents : Holds(i, intent[i], s.intents[i])
  BY <1>1, <1>4, IngestedKept
<1> DEFINE records == [i \in Intents |-> Recovered(s.intents[i], Commitment(i, Height))]
<1>6. ASSUME NEW i \in Intents
      PROVE  /\ Holds(i, intent[i], records[i])
             /\ records[i].status = "open" => Commitment(i, Height) # "executed"
  <2>1. PICK r : r = s.intents[i]
    OBVIOUS
  <2>2. PICK c : c = Commitment(i, Height)
    OBVIOUS
  <2>3. Holds(i, intent[i], r) /\ Sound(i, r)
    BY <1>5, <2>1 DEF Holds, Kept
  <2>4. Holds(i, r, Recovered(r, c))
    BY <1>1, <2>2, <2>3, RecoveredKept
  <2>5. Holds(i, intent[i], Recovered(r, c))
    BY <2>3, <2>4, KeptByBoth DEF Holds, Kept
  <2>6. Recovered(r, c).status = "open" => c # "executed"
    <3> SUFFICES ASSUME c = "executed" PROVE Recovered(r, c).status # "open"
      OBVIOUS
    <3>1. c # None
      BY NoneApart
    <3>2. CASE r.status = "open"
      <4>1. r \in Record(Len(orders), Height, Len(txs))
        BY <2>3 DEF Sound
      <4>2. Recovered(r, c) = [r EXCEPT !.status = "reimbursed", !.reimbursement = "proposed",
                                        !.reimbursementTx = 0]
        BY <3>1, <3>2 DEF Recovered
      <4> QED BY <4>1, <4>2 DEF Record
    <3>3. CASE r.status # "open"
      BY <3>3 DEF Recovered
    <3> QED BY <3>2, <3>3
  <2>7. records[i] = Recovered(r, c)
    BY <2>1, <2>2
  <2> QED BY <2>2, <2>5, <2>6, <2>7
<1>7. intent' = Accepting(records, new)
  BY <1>3, <1>4
<1> HIDE DEF records
<1>8. waiting' \in Update
  BY <1>2, <1>4, <1>5 DEF Ledgers, Update
<1>9. Indexed(intent')
      /\ \A i \in Intents : intent'[i] = IF i \in new THEN Accepted ELSE records[i]
  BY <1>7 DEF Accepting, Accepted, Indexed
<1>10. Advances(records, new)
  BY <1>6, <1>8, <1>9 DEF Advances, Holds
<1> QED BY <1>6, <1>10

(* Ingest that is given up half way.                                       *)
LEMMA IngestThrowsAdvances ==
  ASSUME Shape, IngestThrows
  PROVE  \E records : \E new \in New(FALSE) :
           Advances(records, new) /\ \A i \in Intents : Holds(i, intent[i], records[i])
<1>1. /\ WorldTypes /\ NodeTypes /\ Records
  BY DEF Shape
<1>2. CASE waiting' = waiting /\ \E new \in New(FALSE) : intent' = Accepting(intent, new)
  <2>1. PICK new \in New(FALSE) : intent' = Accepting(intent, new)
    BY <1>2
  <2>2. \A i \in Intents : Holds(i, intent[i], intent[i])
    BY <1>1 DEF Records, Holds, Kept, Later
  <2>3. Advances(intent, new)
    BY <1>1, <1>2, <2>1, <2>2 DEF Advances, Holds, Accepting, Accepted, NodeTypes, Indexed
  <2> QED BY <2>2, <2>3
<1>3. CASE /\ intent' = Ingested(FALSE).intents
           /\ waiting' = [executed |-> Ingested(FALSE).executed, deleted |-> Ingested(FALSE).deleted]
  <2>1. PICK s : s = Ingested(FALSE)
    OBVIOUS
  <2>2. s \in Ledgers /\ \A i \in Intents : Holds(i, intent[i], s.intents[i])
    BY <1>1, <2>1, IngestedKept
  <2>3. waiting' \in Update
    BY <1>3, <2>1, <2>2 DEF Ledgers, Update
  <2>4. Advances(s.intents, {})
    BY <1>3, <2>1, <2>2, <2>3 DEF Advances, Holds, Ledgers, Indexed
  <2>5. {} \in New(FALSE)
    BY DEF New
  <2> QED BY <2>2, <2>4, <2>5
<1> QED BY <1>2, <1>3 DEF IngestThrows

(* Refresh: all its readings, one after another.                           *)
LEMMA RefreshAdvances ==
  ASSUME Shape, Refresh
  PROVE  Advances(intent', {})
<1>1. /\ WorldTypes /\ NodeTypes /\ Records /\ Once
  BY DEF Shape
<1>2. PICK over \in SUBSET Open, read \in SUBSET Open, late \in BOOLEAN :
        LET ordered == [i \in Intents |-> OrderRead(Expired(intent[i], i \in over), i \in read)]
            found == UNION {Found(ordered, h) : h \in {HashOf(i) : i \in Intents}}
            deposited == [i \in Intents |->
              IF i \in found THEN [ordered[i] EXCEPT !.deposit = "deposited"]
              ELSE DepositRead(ordered[i])]
            s == Apply(Ledger([i \in Intents |-> ProposalRead(deposited[i], i, late)],
                              waiting.executed, waiting.deleted), {}, {}) IN
        /\ intent' = s.intents
        /\ waiting' = [executed |-> s.executed, deleted |-> s.deleted]
  BY DEF Refresh
<1> DEFINE first == [i \in Intents |-> OrderRead(Expired(intent[i], i \in over), i \in read)]
<1>3. PICK ordered : ordered = first
  OBVIOUS
<1>4. PICK found : found = UNION {Found(ordered, h) : h \in {HashOf(i) : i \in Intents}}
  OBVIOUS
<1> DEFINE second == [i \in Intents |->
              IF i \in found THEN [ordered[i] EXCEPT !.deposit = "deposited"]
              ELSE DepositRead(ordered[i])]
<1>5. PICK deposited : deposited = second
  OBVIOUS
<1> DEFINE third == [i \in Intents |-> ProposalRead(deposited[i], i, late)]
<1>6. PICK proposed : proposed = third
  OBVIOUS
<1>7. PICK s : s = Apply(Ledger(proposed, waiting.executed, waiting.deleted), {}, {})
  OBVIOUS
<1>8. intent' = s.intents /\ waiting' = [executed |-> s.executed, deleted |-> s.deleted]
  BY <1>2, <1>3, <1>4, <1>5, <1>6, <1>7
<1>9. ASSUME NEW i \in Intents PROVE Kept(i, intent[i], ordered[i])
  <2>1. PICK r : r = intent[i]
    OBVIOUS
  <2>2. Sound(i, r) /\ Single(i)
    BY <1>1, <2>1 DEF Records, Once
  <2>3. PICK o \in BOOLEAN, d \in BOOLEAN : o = (i \in over) /\ d = (i \in read)
    <3>1. (i \in over) \in BOOLEAN /\ (i \in read) \in BOOLEAN
      OBVIOUS
    <3> QED BY <3>1, Zenon
  <2>4. o => r.status = "open"
    BY <2>1, <2>3 DEF Open, Is
  <2>5. Kept(i, r, Expired(r, o))
    BY <1>1, <2>2, <2>4, ExpiredKept
  <2>6. Kept(i, Expired(r, o), OrderRead(Expired(r, o), d))
    BY <1>1, <2>2, <2>5, OrderReadKept DEF Kept
  <2>7. Kept(i, r, OrderRead(Expired(r, o), d))
    BY <2>5, <2>6, KeptByBoth DEF Kept
  <2>8. ordered[i] = OrderRead(Expired(r, o), d)
    BY <1>3, <2>1, <2>3
  <2> QED BY <2>1, <2>7, <2>8
<1>10. ASSUME NEW i \in Intents PROVE Kept(i, intent[i], deposited[i])
  <2>1. PICK r : r = ordered[i]
    OBVIOUS
  <2>2. Kept(i, intent[i], r) /\ Sound(i, r)
    BY <1>9, <2>1 DEF Kept
  <2>3. CASE i \in found
    <3>1. PICK h \in {HashOf(j) : j \in Intents} : i \in Found(ordered, h)
      BY <1>4, <2>3
    <3>2. Awaits(r) /\ Real(i, r.orderAt)
      BY <1>1, <2>1, <2>2, <3>1, FoundIsReal
    <3>3. Kept(i, r, [r EXCEPT !.deposit = "deposited"])
      BY <1>1, <2>2, <3>2, DepositedKept DEF Awaits
    <3>4. deposited[i] = [r EXCEPT !.deposit = "deposited"]
      BY <1>5, <2>1, <2>3
    <3> QED BY <2>2, <3>3, <3>4, KeptByBoth DEF Kept
  <2>4. CASE i \notin found
    <3>1. Kept(i, r, DepositRead(r))
      BY <1>1, <2>2, DepositReadKept
    <3>2. deposited[i] = DepositRead(r)
      BY <1>5, <2>1, <2>4
    <3> QED BY <2>2, <3>1, <3>2, KeptByBoth DEF Kept
  <2> QED BY <2>3, <2>4
<1>11. ASSUME NEW i \in Intents PROVE Kept(i, intent[i], proposed[i])
  <2>1. PICK r : r = deposited[i]
    OBVIOUS
  <2>2. Kept(i, intent[i], r) /\ Sound(i, r)
    BY <1>10, <2>1 DEF Kept
  <2>3. Kept(i, r, ProposalRead(r, i, late))
    BY <1>1, <2>2, ProposalReadKept
  <2>4. proposed[i] = ProposalRead(r, i, late)
    BY <1>6, <2>1
  <2> QED BY <2>2, <2>3, <2>4, KeptByBoth DEF Kept
<1>12. proposed \in [Intents -> Record(Len(orders), Height, Len(txs))]
  <2>1. DOMAIN proposed = Intents /\ proposed = [i \in Intents |-> proposed[i]]
    BY <1>6
  <2> QED BY <1>11, <2>1 DEF Kept, Sound
<1> HIDE DEF first, second, third
<1>13. PICK b : b = Ledger(proposed, waiting.executed, waiting.deleted)
  OBVIOUS
<1>14. b \in Ledgers /\ b.intents = proposed
  BY <1>1, <1>12, <1>13 DEF Ledger, Ledgers, NodeTypes, Update
<1>15. PICK u \in Update : u.executed = {} /\ u.deleted = {}
  <2>1. [executed |-> {}, deleted |-> {}] \in Update
    BY DEF Update
  <2> QED BY <2>1
<1>16. /\ s \in Ledgers
       /\ \A i \in Intents : AppliedTo(i, proposed[i], s.intents[i])
  <2>1. s = Apply(b, u.executed, u.deleted)
    BY <1>7, <1>13, <1>15
  <2> QED BY <1>1, <1>14, <2>1, AppliedOnce
<1>17. ASSUME NEW i \in Intents PROVE Kept(i, intent[i], s.intents[i])
  <2>1. Kept(i, proposed[i], s.intents[i])
    BY <1>1, <1>11, <1>16, AppliedKept DEF Holds, Kept
  <2> QED BY <1>11, <2>1, KeptByBoth DEF Kept
<1>18. waiting' \in Update /\ Indexed(intent')
  BY <1>8, <1>16 DEF Ledgers, Update, Indexed
<1> QED BY <1>8, <1>17, <1>18 DEF Advances

(* An intent is accepted that has no record yet.                           *)
LEMMA NewIsNone ==
  ASSUME Shape, NEW readable, NEW new \in New(readable), NEW i \in new
  PROVE  i \in Intents /\ Acceptable(i, readable) /\ intent[i] = NoRecord /\ new = {i}
<1>1. new = {i} /\ i \in Intents /\ Acceptable(i, readable)
  BY DEF New
<1>2. Sound(i, intent[i]) /\ intent[i].status = "none"
  BY <1>1 DEF Shape, Records, Acceptable, Is
<1> QED BY <1>1, <1>2 DEF Sound

(* What the loop does to the intents keeps their records sound.            *)
LEMMA AdvancesKeepRecords ==
  ASSUME Shape, UNCHANGED <<load, world>>, NEW readable, NEW new \in New(readable), NEW records,
         Advances(records, new), scanned' \in {scanned, Height}
  PROVE  /\ WorldTypes' /\ Records' /\ Once' /\ Grows /\ Height' = Height
         /\ Update' = Update /\ waiting' \in Update /\ Indexed(intent')
<1>1. /\ WorldTypes /\ NodeTypes /\ Records /\ Once
      /\ UNCHANGED <<chain, txs, orders>> /\ load' = load
  BY DEF Shape, world
<1>2. WorldTypes' /\ Height' = Height /\ Height \in Nat /\ Len(txs) \in Nat
  BY <1>1 DEF WorldTypes, Height
<1>3. Grows
  BY <1>1, <1>2 DEF Grows
<1>4. /\ scanned \in 0..Height /\ scanned' \in 0..Height' /\ scanned <= scanned'
  BY <1>1, <1>2 DEF NodeTypes
<1>5. ASSUME NEW i \in Intents, NEW r, Sound(i, r) PROVE Sound(i, r)'
  <2>1. Pending(i)' = Pending(i)
    BY <1>1 DEF Pending, IsTx
  <2>2. \A k \in DOMAIN txs : IsTx(k, "deposit", i) =>
          r.order = "filled" /\ (txs[k].state = "mined" => Arrived(i, r.orderAt))
    BY <1>5 DEF Sound
  <2>3. \A k \in DOMAIN txs : IsTx(k, "reimbursement", i) => r.deposit = "deposited"
    BY <1>5 DEF Sound
  <2>4. \A b \in 1..Height : chain[b].kind \in Governor /\ chain[b].of = i => r.deposit = "deposited"
    BY <1>5 DEF Sound
  <2>5. Arrived(i, r.orderAt)' = Arrived(i, r.orderAt)
    BY <1>1, <1>2 DEF Arrived
  <2>6. \A k \in DOMAIN txs' : IsTx(k, "deposit", i)' =>
          r.order = "filled" /\ (txs'[k].state = "mined" => Arrived(i, r.orderAt)')
    BY <1>1, <2>2, <2>5 DEF IsTx
  <2>7. \A k \in DOMAIN txs' : IsTx(k, "reimbursement", i)' => r.deposit = "deposited"
    BY <1>1, <2>3 DEF IsTx
  <2>8. \A b \in 1..Height' : chain'[b].kind \in Governor /\ chain'[b].of = i =>
          r.deposit = "deposited"
    BY <1>1, <1>2, <2>4
  <2>9. /\ r.status = "released" => Progress(i)' \in {"accepted", "failed", "doubted"}
        /\ r.order = "idle" => Progress(i)' \in {"accepted", "doubted"}
        /\ ~r.cid => Progress(i)' = "accepted"
    BY <1>1, <1>5, SameProgress DEF Sound
  <2> QED BY <1>1, <1>2, <1>3, <1>4, <1>5, <2>1, <2>6, <2>7, <2>8, <2>9, KeptByWorld
<1>6. ASSUME NEW i \in Intents PROVE Sound(i, intent'[i])
  <2>1. CASE i \in new
    <3>1. Sound(i, NoRecord)
      BY <1>1, <2>1, NewIsNone DEF Records
    <3>2. Accepted \in Record(Len(orders), Height, Len(txs)) /\ SameTrade(NoRecord, Accepted)
          /\ Accepted.status = "open" /\ Accepted.reimbursement = "idle"
      <4>1. 0 \in 0..Height /\ 0 \in 0..Len(txs) /\ 0 \in 0..Len(orders)
        BY <1>1, <1>2 DEF WorldTypes
      <4> QED BY <4>1 DEF Accepted, NoRecord, Record, SameTrade, OrderStages, DepositStages,
                          ReimbursementStages
    <3>3. Sound(i, Accepted)
      <4> HIDE DEF Accepted
      <4> QED BY <3>1, <3>2, KeepsTrade
    <3>4. intent'[i] = Accepted
      BY <2>1 DEF Advances
    <3> QED BY <3>3, <3>4
  <2>2. CASE i \notin new
    <3>1. intent'[i] = records[i] /\ Kept(i, intent[i], records[i])
      BY <2>2 DEF Advances
    <3> QED BY <3>1 DEF Kept
  <2> QED BY <2>1, <2>2
<1>7. Records'
  <2> SUFFICES ASSUME NEW i \in Intents PROVE Sound(i, intent[i])'
    BY DEF Records
  <2>1. PICK r : r = intent'[i]
    OBVIOUS
  <2>2. Sound(i, r)'
    BY <1>5, <1>6, <2>1
  <2> QED BY <2>1, <2>2
<1>8. Once'
  <2>1. \A i \in Intents : Pending(i)' = Pending(i)
    BY <1>1 DEF Pending, IsTx
  <2> QED BY <1>1, <2>1, SameProgress DEF Once
<1>9. Update' = Update
  BY <1>1, <1>2 DEF Update, PaidHashes, AllHashes, HashOf
<1> QED BY <1>2, <1>3, <1>7, <1>8, <1>9 DEF Advances

(* A step that leaves the intents alone.                                   *)
LEMMA IntentsStay ==
  ASSUME Shape, intent' = intent, waiting' = waiting
  PROVE  Advances(intent', {}) /\ {} \in New(FALSE)
<1>1. \A i \in Intents : Kept(i, intent[i], intent[i])
  BY DEF Shape, Records, Kept, Later
<1> QED BY <1>1 DEF Shape, NodeTypes, Advances, New

(* The choice of an action touches one intent.                             *)
LEMMA ChooseAdvances ==
  ASSUME Shape, NEW kind \in Kinds, NEW i \in Intents, Choose(kind, i)
  PROVE  /\ Advances(intent', {}) /\ {} \in New(FALSE)
         /\ intent'[i] = Dispatched(intent[i], kind)
         /\ \A j \in Intents : j # i => intent'[j] = intent[j]
<1>1. intent' = [intent EXCEPT ![i] = Dispatched(intent[i], kind)] /\ waiting' = waiting
  BY DEF Choose
<1>2. /\ Indexed(intent') /\ intent'[i] = Dispatched(intent[i], kind)
      /\ \A j \in Intents : j # i => intent'[j] = intent[j]
  BY <1>1 DEF Shape, NodeTypes, Indexed
<1>3. Kept(i, intent[i], Dispatched(intent[i], kind))
  BY DispatchedKept DEF Choose, Shape
<1>4. \A j \in Intents : Kept(j, intent[j], intent[j])
  BY DEF Shape, Records, Kept, Later
<1>5. \A j \in Intents : Kept(j, intent[j], intent'[j])
  BY <1>2, <1>3, <1>4
<1> QED BY <1>1, <1>2, <1>5 DEF Shape, NodeTypes, Advances, New

(* The answer of a tool touches the intent it was called for.              *)
LEMMA OutputAdvances ==
  ASSUME Shape, Output
  PROVE  /\ Advances(intent', {}) /\ {} \in New(FALSE)
         /\ call.of \in Intents /\ intent'[call.of] = Answered(intent[call.of])
         /\ \A j \in Intents : j # call.of => intent'[j] = intent[j]
<1>1. stage = "output" /\ waiting' = waiting
  BY DEF Output
<1>2. call.of \in Intents /\ Kept(call.of, intent[call.of], Answered(intent[call.of]))
  BY <1>1, OutputKept
<1>3. PICK i \in Intents : i = call.of
  BY <1>2
<1>4. intent' = [intent EXCEPT ![i] = Answered(intent[i])]
  BY <1>3 DEF Output, Answered
<1>5. /\ Indexed(intent') /\ intent'[i] = Answered(intent[i])
      /\ \A j \in Intents : j # i => intent'[j] = intent[j]
  BY <1>4 DEF Shape, NodeTypes, Indexed
<1>6. \A j \in Intents : Kept(j, intent[j], intent[j])
  BY DEF Shape, Records, Kept, Later
<1>7. \A j \in Intents : Kept(j, intent[j], intent'[j])
  BY <1>2, <1>3, <1>5, <1>6
<1> QED BY <1>1, <1>2, <1>3, <1>5, <1>7 DEF Advances, New, Shape, NodeTypes

(* What a tool does: nothing, or what it was asked for.                    *)
Nothing == UNCHANGED world
OrderPlaced ==
  /\ UNCHANGED <<chain, txs>>
  /\ orders' = Append(orders, [of |-> call.of, state |-> "open", denied |-> answer' = "retry"])
TxPassedOn == Sends(call.kind) /\ UNCHANGED <<chain, orders>>

(* The tool does one of these, and says so or not.                         *)
LEMMA CallDoes ==
  ASSUME Shape, Call
  PROVE  /\ call \in ToolCall /\ stage = "call"
         /\ UNCHANGED <<load, durable, cursor, queue, fresh>>
         /\ \/ stage' = "idle" /\ call' = None
            \/ stage' = "output" /\ call' = call /\ answer' \in Answers(call.kind)
         /\ \/ Nothing /\ (stage' = "output" /\ answer' = "done" => call.kind = "archive")
            \/ call.kind = "order" /\ OrderPlaced
            \/ /\ call.kind \in {"deposit", "reimbursement"} /\ TxPassedOn /\ ~Duplicate
               /\ stage' = "output" => answer' # "retry"
<1>1. call \in ToolCall /\ stage = "call"
  BY DEF Shape, NodeTypes, Call
<1>2. call.kind \in Kinds
  BY <1>1 DEF ToolCall
<1>3. /\ UNCHANGED <<load, durable, cursor, queue, fresh>>
      /\ IF answer' = None THEN stage' = "idle" /\ call' = None
         ELSE stage' = "output" /\ UNCHANGED call
  BY DEF Call
<1>4. \/ ~Duplicate /\ Effect /\ answer' \in {"done"} \cup LateErrors
      \/ Nothing /\ answer' \in Errors
      \/ Nothing /\ call.kind = "reimbursement" /\ answer' = "refused"
  BY DEF Call, Nothing, Duplicate
<1>5. CASE call.kind = "archive"
  <2>1. Nothing /\ answer' \in {"done", "retry", "refused"}
    BY <1>4, <1>5 DEF Effect, Errors, LateErrors, Nothing
  <2> QED BY <1>1, <1>3, <1>5, <2>1 DEF Answers
<1>6. CASE call.kind = "order"
  <2>1. /\ answer' \in {"done", "retry", "unclear"}
        /\ OrderPlaced \/ (Nothing /\ answer' # "done")
    BY <1>4, <1>6 DEF Effect, Errors, LateErrors, OrderPlaced
  <2> QED BY <1>1, <1>3, <1>6, <2>1 DEF Answers
<1>7. CASE call.kind = "deposit"
  <2>1. \/ ~Duplicate /\ TxPassedOn /\ answer' \in {"done", None}
        \/ Nothing /\ answer' = None
    BY <1>4, <1>7 DEF Effect, Errors, LateErrors, TxPassedOn
  <2> QED BY <1>1, <1>3, <1>7, <2>1 DEF Answers
<1>8. CASE call.kind = "reimbursement"
  <2>1. \/ ~Duplicate /\ TxPassedOn /\ answer' \in {"done", "unclear"}
        \/ Nothing /\ answer' \in {"retry", "refused", "unclear"}
    BY <1>4, <1>8 DEF Effect, Errors, LateErrors, TxPassedOn
  <2> QED BY <1>1, <1>3, <1>8, <2>1 DEF Answers, Outcomes
<1> QED BY <1>2, <1>5, <1>6, <1>7, <1>8 DEF Kinds

(* An order that the exchange took, denied or not.                         *)
LEMMA OrderTaken ==
  ASSUME WorldTypes, NEW i \in Intents, NEW b \in BOOLEAN, UNCHANGED <<load, chain, txs>>,
         orders' = Append(orders, [of |-> i, state |-> "open", denied |-> b]),
         Single(i), Progress(i) \in {"accepted", "doubted"}
  PROVE  /\ WorldTypes' /\ Grows /\ Height' = Height
         /\ Len(orders') \in OrdersOf(i)'
         /\ Single(i)'
         /\ Progress(i)' = IF b \/ Progress(i) = "doubted" THEN "doubted" ELSE "open"
         /\ \A j \in Intents \ {i} : Single(j) => Single(j)' /\ Progress(j)' = Progress(j)
<1> DEFINE e == [of |-> i, state |-> "open", denied |-> b]
           k == Len(orders) + 1
<1>1. /\ e \in OrderEntry /\ orders \in Seq(OrderEntry) /\ Len(orders) \in Nat
      /\ DOMAIN orders = 1..Len(orders) /\ e.of = i /\ e.state = "open" /\ e.denied = b
  BY DEF OrderEntry, WorldTypes
<1>2. orders' = Append(orders, e)
  OBVIOUS
<1> HIDE DEF e
<1>3. /\ orders' \in Seq(OrderEntry) /\ Len(orders') = k /\ DOMAIN orders' = 1..k
      /\ orders'[k] = e /\ \A l \in DOMAIN orders : orders'[l] = orders[l]
  BY <1>1, <1>2
<1>4. WorldTypes' /\ Height' = Height /\ Height \in Nat /\ Len(txs) \in Nat
  BY <1>3 DEF WorldTypes, Height
<1>5. Grows
  BY <1>1, <1>3, <1>4 DEF Grows
<1>6. DOMAIN orders' = DOMAIN orders \cup {k} /\ k \notin DOMAIN orders /\ k \in Int
  BY <1>1, <1>3
<1> HIDE DEF k
<1>7. OrdersOf(i)' = OrdersOf(i) \cup {k}
  BY <1>1, <1>3, <1>6 DEF OrdersOf
<1>8. Denied(i)' <=> Denied(i) \/ b
  BY <1>1, <1>3, <1>6, <1>7 DEF Denied, OrdersOf
<1>9. Single(i)' /\ Progress(i)' = IF b \/ Progress(i) = "doubted" THEN "doubted" ELSE "open"
  <2>1. CASE Denied(i)'
    <3>1. Progress(i)' = "doubted" /\ Single(i)'
      BY <1>7, <2>1 DEF Progress, Single
    <3>2. b \/ Progress(i) = "doubted"
      BY <1>8, <2>1 DEF Progress, Denied
    <3> QED BY <3>1, <3>2
  <2>2. CASE ~Denied(i)'
    <3>1. ~b /\ ~Denied(i)
      BY <1>8, <2>2
    <3>2. OrdersOf(i) = {} /\ Progress(i) = "accepted"
      <4>1. \A l \in OrdersOf(i) : Progress(i) = orders[l].state /\ orders[l] \in OrderEntry
        BY <3>1, ProgressOf DEF OrdersOf, WorldTypes
      <4>2. OrdersOf(i) = {}
        BY <4>1 DEF OrderEntry
      <4> QED BY <4>2 DEF Progress
    <3>3. OrdersOf(i)' = {k}
      BY <1>7, <3>2
    <3>4. Max({k}) = k
      BY <1>6, MaxOfOne
    <3>5. Progress(i)' = orders'[k].state
      BY <2>2, <3>3, <3>4 DEF Progress
    <3> QED BY <1>1, <1>3, <3>1, <3>2, <3>3, <3>5 DEF Single
  <2> QED BY <2>1, <2>2
<1>10. ASSUME NEW j \in Intents \ {i}, Single(j) PROVE Single(j)' /\ Progress(j)' = Progress(j)
  <2>1. OrdersOf(j)' = OrdersOf(j)
    BY <1>1, <1>3, <1>6 DEF OrdersOf
  <2>2. \A l \in OrdersOf(j) : orders'[l] = orders[l]
    BY <1>3 DEF OrdersOf
  <2>3. Denied(j)' = Denied(j)
    BY <2>1, <2>2 DEF Denied
  <2>4. Single(j)'
    BY <1>10, <2>1, <2>3 DEF Single
  <2> QED BY <1>10, <2>1, <2>2, <2>3, <2>4, OneProgress
<1>11. Len(orders') \in OrdersOf(i)'
  BY <1>3, <1>7
<1> QED BY <1>4, <1>5, <1>9, <1>10, <1>11

(* A transaction that is sent is the last one.                             *)
LEMMA TxSent ==
  ASSUME WorldTypes, NEW kind \in {"deposit", "reimbursement"}, NEW i \in Intents,
         txs' = Append(txs, [kind |-> kind, of |-> i, state |-> "pool"]),
         UNCHANGED <<load, chain, orders>>
  PROVE  /\ WorldTypes' /\ Grows /\ Height' = Height
         /\ Len(txs) \in Nat /\ Len(txs') = Len(txs) + 1
         /\ DOMAIN txs = 1..Len(txs) /\ DOMAIN txs' = 1..Len(txs')
         /\ txs'[Len(txs')] = [kind |-> kind, of |-> i, state |-> "pool"]
         /\ \A k \in DOMAIN txs : txs'[k] = txs[k] /\ k < Len(txs') /\ k \in DOMAIN txs'
         /\ \A k \in DOMAIN txs' : k \in DOMAIN txs \/ k = Len(txs')
<1> DEFINE e == [kind |-> kind, of |-> i, state |-> "pool"]
<1>1. e \in Tx /\ txs \in Seq(Tx) /\ Len(txs) \in Nat /\ DOMAIN txs = 1..Len(txs)
  BY DEF Tx, WorldTypes
<1>2. txs' = Append(txs, e)
  OBVIOUS
<1> HIDE DEF e
<1>3. /\ txs' \in Seq(Tx) /\ Len(txs') = Len(txs) + 1 /\ DOMAIN txs' = 1..Len(txs')
      /\ txs'[Len(txs')] = e /\ \A k \in DOMAIN txs : txs'[k] = txs[k]
  BY <1>1, <1>2
<1>4. WorldTypes' /\ Height' = Height /\ Height \in Nat
  BY <1>3 DEF WorldTypes, Height
<1>5. Grows
  BY <1>1, <1>3, <1>4 DEF Grows
<1>6. \A k \in DOMAIN txs : k < Len(txs') /\ k \in DOMAIN txs'
  BY <1>1, <1>3
<1>7. \A k \in DOMAIN txs' : k \in DOMAIN txs \/ k = Len(txs')
  BY <1>1, <1>3
<1> QED BY <1>1, <1>3, <1>4, <1>5, <1>6, <1>7 DEF e

(* The call of a tool keeps the shape.                                     *)
LEMMA CallKeepsShape ==
  ASSUME Shape, Call
  PROVE  Shape' /\ Grows
<1>1. PICK c : c = call
  OBVIOUS
<1>2. PICK i : i = c.of
  OBVIOUS
<1>3. /\ WorldTypes /\ NodeTypes /\ Records /\ Once
      /\ c \in ToolCall /\ i \in Intents /\ c.kind \in Kinds /\ stage = "call"
      /\ \/ stage' = "idle" /\ call' = None
         \/ stage' = "output" /\ call' = c /\ answer' \in Answers(c.kind)
      /\ Marked(c) /\ Undone(c) /\ intent' = intent /\ scanned' = scanned
      /\ load' = load /\ UNCHANGED <<durable, cursor, queue, fresh>>
  <2>1. /\ call \in ToolCall /\ stage = "call"
        /\ UNCHANGED <<load, durable, cursor, queue, fresh>>
        /\ \/ stage' = "idle" /\ call' = None
           \/ stage' = "output" /\ call' = call /\ answer' \in Answers(call.kind)
    BY CallDoes
  <2>2. Marked(call) /\ Undone(call)
    BY <2>1 DEF Shape, Calls
  <2> QED BY <1>1, <1>2, <2>1, <2>2 DEF Shape, ToolCall, durable
<1>4. Marked(c)'
  BY <1>3 DEF Marked
<1>5. scanned \in 0..Height /\ scanned \in Int /\ scanned <= scanned'
  BY <1>3 DEF NodeTypes, WorldTypes, Height
(* What is left to show for each effect.                                   *)
<1> DEFINE Fine ==
      /\ WorldTypes' /\ Grows /\ Once' /\ scanned' \in 0..Height'
      /\ \A j \in Intents : \A r : Sound(j, r) /\ r = intent[j] => Sound(j, r)'
      /\ stage' = "output" /\ answer' = "retry" => Undone(c)'
      /\ stage' = "output" /\ answer' = "done" /\ c.kind = "order" =>
           Len(orders') \in OrdersOf(c.of)'
      /\ stage' = "output" /\ answer' = "done" /\ c.kind \in {"deposit", "reimbursement"} =>
           \E k \in DOMAIN txs' : LastSent(c, k)'
<1>6. ASSUME Nothing, stage' = "output" /\ answer' = "done" => c.kind = "archive" PROVE Fine
  <2>1. UNCHANGED <<chain, txs, orders, load, scanned>>
    BY <1>3, <1>6 DEF Nothing, world
  <2>2. WorldTypes' /\ Grows /\ Height' = Height
    BY <1>3, <2>1 DEF WorldTypes, Grows, Height
  <2>3. \A j \in Intents : Pending(j)' = Pending(j)
    BY <2>1 DEF Pending, IsTx
  <2>4. Once'
    BY <1>3, <2>1, <2>3, SameProgress DEF Once
  <2>5. Undone(c)'
    <3>1. Progress(i)' = Progress(i)
      BY <2>1, SameProgress
    <3> QED BY <1>2, <1>3, <2>3, <3>1 DEF Undone
  <2>6. ASSUME NEW j \in Intents, NEW r, Sound(j, r) PROVE Sound(j, r)'
    <3>1. /\ Arrived(j, r.orderAt)' = Arrived(j, r.orderAt)
          /\ Real(j, r.orderAt)' = Real(j, r.orderAt)
      BY <2>1, <2>2 DEF Arrived, Real, HashOf
    <3>2. PaidHashes' = PaidHashes /\ HashOf(j)' = HashOf(j)
      BY <2>1, <2>2 DEF PaidHashes, AllHashes, HashOf
    <3>3. \A k, kind : IsTx(k, kind, j)' = IsTx(k, kind, j)
      BY <2>1 DEF IsTx
    <3>4. Progress(j)' = Progress(j) /\ OrdersOf(j)' = OrdersOf(j)
      BY <2>1, SameProgress
    <3> QED BY <2>1, <2>2, <2>3, <2>6, <3>1, <3>2, <3>3, <3>4 DEF Sound
  <2>7. scanned' \in 0..Height'
    BY <1>5, <2>1, <2>2
  <2> HIDE DEF Undone, LastSent
  <2> QED BY <1>6, <2>2, <2>4, <2>5, <2>6, <2>7
<1>7. ASSUME c.kind = "order", OrderPlaced PROVE Fine
  <2>1. Single(i) /\ Progress(i) \in {"accepted", "doubted"}
    BY <1>2, <1>3, <1>7 DEF Undone, Once
  <2>2. PICK b \in BOOLEAN : b <=> answer' = "retry"
    OBVIOUS
  <2>3. /\ UNCHANGED <<chain, txs, load>>
        /\ orders' = Append(orders, [of |-> i, state |-> "open", denied |-> b])
    <3>1. (answer' = "retry") = b
      BY <2>2, Zenon
    <3> QED BY <1>1, <1>2, <1>3, <1>7, <3>1 DEF OrderPlaced
  <2>4. /\ WorldTypes' /\ Grows /\ Height' = Height
        /\ Len(orders') \in OrdersOf(i)' /\ Single(i)'
        /\ Progress(i)' = IF b \/ Progress(i) = "doubted" THEN "doubted" ELSE "open"
        /\ \A j \in Intents \ {i} : Single(j) => Single(j)' /\ Progress(j)' = Progress(j)
    BY <1>3, <2>1, <2>3, OrderTaken
  <2>5. \A j \in Intents : Pending(j)' = Pending(j)
    BY <2>3 DEF Pending, IsTx
  <2>6. Once'
    BY <1>3, <2>4, <2>5 DEF Once
  <2>7. ASSUME NEW j \in Intents, NEW r, Sound(j, r), r = intent[j] PROVE Sound(j, r)'
    <3>1. j = i => r.status = "open" /\ r.order = "dispatched"
      BY <1>2, <1>3, <1>7, <2>7 DEF Marked
    <3>2. j # i => Progress(j)' = Progress(j)
      BY <1>3, <2>4 DEF Once
    <3>3. /\ r.status = "released" => Progress(j)' \in {"accepted", "failed", "doubted"}
          /\ r.order = "idle" => Progress(j)' \in {"accepted", "doubted"}
          /\ ~r.cid => Progress(j)' = "accepted"
      BY <2>7, <3>1, <3>2 DEF Sound
    <3>4. /\ Arrived(j, r.orderAt)' = Arrived(j, r.orderAt)
          /\ \A k, kind : IsTx(k, kind, j)' = IsTx(k, kind, j)
      BY <2>3, <2>4 DEF Arrived, IsTx
    <3>5. \A k \in DOMAIN txs' : IsTx(k, "deposit", j)' =>
            r.order = "filled" /\ (txs'[k].state = "mined" => Arrived(j, r.orderAt)')
      BY <2>3, <2>7, <3>4 DEF Sound
    <3>6. \A k \in DOMAIN txs' : IsTx(k, "reimbursement", j)' => r.deposit = "deposited"
      BY <2>3, <2>7, <3>4 DEF Sound
    <3>7. \A b1 \in 1..Height' : chain'[b1].kind \in Governor /\ chain'[b1].of = j =>
            r.deposit = "deposited"
      BY <2>3, <2>4, <2>7 DEF Sound
    <3>8. scanned' \in 0..Height'
      BY <1>3, <1>5, <2>4
    <3> QED BY <1>3, <1>5, <2>4, <2>5, <2>7, <3>3, <3>5, <3>6, <3>7, <3>8, KeptByWorld
  <2>8. scanned' \in 0..Height'
    BY <1>3, <1>5, <2>4
  <2>9. stage' = "output" /\ answer' = "retry" => Undone(c)'
    BY <1>2, <1>7, <2>2, <2>4 DEF Undone
  <2> HIDE DEF Undone, LastSent
  <2> QED BY <1>2, <1>7, <2>4, <2>6, <2>7, <2>8, <2>9
<1>8. ASSUME c.kind \in {"deposit", "reimbursement"}, stage' = "output" => answer' # "retry",
             TxPassedOn
      PROVE  Fine
  <2>0. PICK k : k = Len(txs')
    OBVIOUS
  <2>1. /\ txs' = Append(txs, [kind |-> c.kind, of |-> i, state |-> "pool"])
        /\ UNCHANGED <<chain, orders, load>>
    BY <1>1, <1>2, <1>3, <1>8 DEF TxPassedOn, Sends
  <2>2. /\ WorldTypes' /\ Grows /\ Height' = Height
        /\ Len(txs) \in Nat /\ k = Len(txs) + 1 /\ DOMAIN txs' = 1..k /\ k \in DOMAIN txs'
        /\ txs'[k] = [kind |-> c.kind, of |-> i, state |-> "pool"]
        /\ \A l \in DOMAIN txs : txs'[l] = txs[l] /\ l < k /\ l \in DOMAIN txs'
        /\ \A l \in DOMAIN txs' : l \in DOMAIN txs \/ l = k
    <3>1. PICK kind : kind = c.kind
      OBVIOUS
    <3>2. /\ kind \in {"deposit", "reimbursement"}
          /\ txs' = Append(txs, [kind |-> kind, of |-> i, state |-> "pool"])
      BY <1>8, <2>1, <3>1
    <3> QED BY <1>3, <2>0, <2>1, <3>1, <3>2, TxSent
  <2>3. \A j \in Intents : j # i \/ c.kind # "deposit" => Pending(j)' \subseteq Pending(j)
    BY <2>2 DEF Pending, IsTx
  <2>4. c.kind = "deposit" => Pending(i)' \subseteq {k}
    <3>1. c.kind = "deposit" => Pending(i) = {}
      BY <1>2, <1>3 DEF Undone
    <3> QED BY <2>2, <3>1 DEF Pending, IsTx
  <2>5. Once'
    <3> SUFFICES ASSUME NEW j \in Intents PROVE \A m, l \in Pending(j)' : m = l
      BY <1>3, <2>1, SameProgress DEF Once
    <3>1. CASE j = i /\ c.kind = "deposit"
      BY <2>4, <3>1
    <3>2. CASE ~(j = i /\ c.kind = "deposit")
      BY <1>3, <2>3, <3>2 DEF Once
    <3> QED BY <3>1, <3>2
  <2>6. ASSUME NEW j \in Intents, NEW r, Sound(j, r), r = intent[j] PROVE Sound(j, r)'
    <3>1. j = i /\ c.kind = "deposit" => r.deposit = "dispatched" /\ r.order = "filled"
      BY <1>2, <1>3, <2>6 DEF Marked, Sound
    <3>2. j = i /\ c.kind = "reimbursement" => r.deposit = "deposited"
      BY <1>2, <1>3, <2>6 DEF Marked, Sound
    <3>3. r.deposit \in {"idle", "submitted"} => Pending(j)' \subseteq Pending(j)
      BY <2>3, <3>1
    <3>4. r.orderAt \in Int
      BY <1>3, <2>6 DEF Sound, Record, WorldTypes, Height
    <3>5. ASSUME NEW l \in DOMAIN txs', IsTx(l, "deposit", j)'
          PROVE  r.order = "filled" /\ (txs'[l].state = "mined" => Arrived(j, r.orderAt)')
      <4>1. CASE l = k
        BY <2>2, <3>1, <3>5, <4>1 DEF IsTx
      <4>2. CASE l \in DOMAIN txs
        <5>1. IsTx(l, "deposit", j) /\ txs'[l] = txs[l]
          BY <2>2, <3>5, <4>2 DEF IsTx
        <5>2. r.order = "filled" /\ (txs[l].state = "mined" => Arrived(j, r.orderAt))
          BY <2>6, <4>2, <5>1 DEF Sound
        <5> QED BY <1>3, <2>2, <3>4, <5>1, <5>2, Growth
      <4> QED BY <2>2, <4>1, <4>2
    <3>6. ASSUME NEW l \in DOMAIN txs', IsTx(l, "reimbursement", j)' PROVE r.deposit = "deposited"
      <4>1. CASE l = k
        BY <2>2, <3>2, <3>6, <4>1 DEF IsTx
      <4>2. CASE l \in DOMAIN txs
        BY <2>2, <2>6, <3>6, <4>2 DEF IsTx, Sound
      <4> QED BY <2>2, <4>1, <4>2
    <3>7. \A b \in 1..Height' : chain'[b].kind \in Governor /\ chain'[b].of = j =>
            r.deposit = "deposited"
      BY <2>1, <2>2, <2>6 DEF Sound
    <3>8. /\ r.status = "released" => Progress(j)' \in {"accepted", "failed", "doubted"}
          /\ r.order = "idle" => Progress(j)' \in {"accepted", "doubted"}
          /\ ~r.cid => Progress(j)' = "accepted"
      BY <2>1, <2>6, SameProgress DEF Sound
    <3>9. scanned' \in 0..Height'
      BY <1>3, <1>5, <2>2
    <3> QED BY <1>3, <1>5, <2>2, <2>6, <3>3, <3>5, <3>6, <3>7, <3>8, <3>9, KeptByWorld
  <2>7. LastSent(c, k)'
    <3>1. IsTx(k, c.kind, c.of)' /\ \A l \in DOMAIN txs' : l <= k
      BY <1>2, <2>2 DEF IsTx
    <3> QED BY <1>2, <2>2, <2>4, <3>1 DEF LastSent
  <2>8. scanned' \in 0..Height'
    BY <1>3, <1>5, <2>2
  <2>9. c.kind # "order"
    BY <1>8
  <2> HIDE DEF Undone, LastSent
  <2> QED BY <1>8, <2>2, <2>5, <2>6, <2>7, <2>8, <2>9
<1>9. Fine
  <2> HIDE DEF Fine
  <2>1. \/ Nothing /\ (stage' = "output" /\ answer' = "done" => c.kind = "archive")
        \/ c.kind = "order" /\ OrderPlaced
        \/ /\ c.kind \in {"deposit", "reimbursement"} /\ TxPassedOn
           /\ stage' = "output" => answer' # "retry"
    BY <1>1, CallDoes
  <2> QED BY <1>6, <1>7, <1>8, <2>1
<1>10. Records'
  <2> SUFFICES ASSUME NEW j \in Intents PROVE Sound(j, intent[j])'
    BY DEF Records
  <2>1. PICK r : r = intent[j]
    OBVIOUS
  <2>2. Sound(j, r)'
    BY <1>3, <1>9, <2>1 DEF Records
  <2> QED BY <1>3, <2>1, <2>2
<1>11. NodeTypes'
  <2>1. /\ Indexed(intent')
        /\ waiting' \in Update' /\ queue' \in Seq(Update')
        /\ scanned' \in 0..Height' /\ cursor' \in 0..Height' /\ fresh' \subseteq 1..Height'
    BY <1>3, <1>9, NodeKept
  <2>2. ToolCall' = ToolCall
    BY DEF ToolCall
  <2>3. Answers(c.kind) \subseteq Outcomes
    BY <1>3 DEF Answers, Outcomes, Kinds
  <2> QED BY <1>3, <2>1, <2>2, <2>3 DEF NodeTypes
<1>12. Calls'
  <2>1. CASE stage' = "idle"
    BY <2>1 DEF Calls
  <2>2. CASE stage' = "output"
    <3>1. /\ stage' = "output" /\ call' = c /\ Marked(c)'
          /\ answer' \in Answers(c.kind)
          /\ answer' = "retry" => Undone(c)'
          /\ answer' = "done" /\ c.kind = "order" => Len(orders') \in OrdersOf(c.of)'
          /\ answer' = "done" /\ c.kind \in {"deposit", "reimbursement"} =>
               \E k \in DOMAIN txs' : LastSent(c, k)'
      BY <1>3, <1>4, <1>9, <2>2
    <3> QED BY <3>1 DEF Calls, Answers, Outcomes
  <2> QED BY <1>3, <2>1, <2>2
<1> QED BY <1>9, <1>10, <1>11, <1>12 DEF Shape

(* Every other step of the loop, and a crash, leaves the world alone and   *)
(* advances the intents.                                                   *)
Alone == Poll \/ Ingest \/ IngestThrows \/ Refresh \/ RefreshThrows \/ Rest \/ Output \/ Crash
           \/ (\E kind \in Kinds, i \in Intents : Choose(kind, i))

(* All of these steps at once.                                             *)
LEMMA AloneAdvances ==
  ASSUME Shape, Alone
  PROVE  /\ \E records : \E readable \in BOOLEAN : \E new \in New(readable) :
              Advances(records, new) /\ (new = {} \/ \A i \in Intents : Holds(i, intent[i], records[i]))
         /\ load' = load /\ UNCHANGED world /\ scanned' \in {scanned, Height}
<1>1. CASE Poll
  <2>1. Advances(intent', {}) /\ {} \in New(FALSE)
    BY <1>1, IntentsStay DEF Poll, durable
  <2>2. load' = load /\ UNCHANGED world /\ scanned' \in {scanned, Height}
    BY <1>1 DEF Poll, durable
  <2> QED BY <2>1, <2>2
<1>2. CASE Ingest
  <2>1. load' = load /\ UNCHANGED world /\ scanned' \in {scanned, Height}
    BY <1>2 DEF Ingest
  <2>2. PICK records : \E readable \in BOOLEAN : \E new \in New(readable) :
          Advances(records, new) /\ \A i \in Intents : Holds(i, intent[i], records[i])
    BY <1>2, IngestAdvances
  <2> QED BY <2>1, <2>2
<1>3. CASE IngestThrows
  <2>1. PICK records : \E new \in New(FALSE) :
          Advances(records, new) /\ \A i \in Intents : Holds(i, intent[i], records[i])
    BY <1>3, IngestThrowsAdvances
  <2>2. load' = load /\ UNCHANGED world /\ scanned' \in {scanned, Height}
    BY <1>3 DEF IngestThrows
  <2> QED BY <2>1, <2>2
<1>4. CASE Refresh
  <2>1. Advances(intent', {}) /\ {} \in New(FALSE)
    BY <1>4, RefreshAdvances DEF New
  <2>2. load' = load /\ UNCHANGED world /\ scanned' \in {scanned, Height}
    BY <1>4 DEF Refresh
  <2> QED BY <2>1, <2>2
<1>5. CASE RefreshThrows
  <2>1. Advances(intent', {}) /\ {} \in New(FALSE)
    BY <1>5, IntentsStay DEF RefreshThrows, durable
  <2>2. load' = load /\ UNCHANGED world /\ scanned' \in {scanned, Height}
    BY <1>5 DEF RefreshThrows, durable
  <2> QED BY <2>1, <2>2
<1>6. CASE Rest
  <2>1. Advances(intent', {}) /\ {} \in New(FALSE)
    BY <1>6, IntentsStay DEF Rest, durable
  <2>2. load' = load /\ UNCHANGED world /\ scanned' \in {scanned, Height}
    BY <1>6 DEF Rest, durable
  <2> QED BY <2>1, <2>2
<1>7. CASE Output
  <2>1. Advances(intent', {}) /\ {} \in New(FALSE)
    BY <1>7, OutputAdvances
  <2>2. load' = load /\ UNCHANGED world /\ scanned' \in {scanned, Height}
    BY <1>7 DEF Output
  <2> QED BY <2>1, <2>2
<1>8. CASE Crash
  <2>1. Advances(intent', {}) /\ {} \in New(FALSE)
    BY <1>8, IntentsStay DEF Crash, durable
  <2>2. load' = load /\ UNCHANGED world /\ scanned' \in {scanned, Height}
    BY <1>8 DEF Crash, durable
  <2> QED BY <2>1, <2>2
<1>9. ASSUME NEW kind \in Kinds, NEW i \in Intents, Choose(kind, i)
      PROVE  /\ Advances(intent', {}) /\ {} \in New(FALSE)
             /\ load' = load /\ UNCHANGED world /\ scanned' \in {scanned, Height}
  <2>1. Advances(intent', {}) /\ {} \in New(FALSE)
    BY <1>9, ChooseAdvances
  <2> QED BY <1>9, <2>1 DEF Choose
<1>10. CASE \E kind \in Kinds, i \in Intents : Choose(kind, i)
  BY <1>9, <1>10
<1> QED BY <1>1, <1>2, <1>3, <1>4, <1>5, <1>6, <1>7, <1>8, <1>10 DEF Alone

(* They keep the shape.                                                    *)
LEMMA AloneKeepsShape ==
  ASSUME Shape, Alone
  PROVE  Shape' /\ Grows /\ Height' = Height
<1>1. PICK records, readable : \E new \in New(readable) : Advances(records, new)
  BY AloneAdvances
<1>2. PICK new \in New(readable) : Advances(records, new)
  BY <1>1
<1>3. load' = load /\ UNCHANGED world /\ scanned' \in {scanned, Height}
  BY AloneAdvances
<1>4. /\ WorldTypes' /\ Records' /\ Once' /\ Grows /\ Height' = Height
      /\ Update' = Update /\ waiting' \in Update /\ Indexed(intent')
  BY <1>2, <1>3, AdvancesKeepRecords
<1>5. /\ WorldTypes /\ NodeTypes /\ Records /\ Height \in Nat
      /\ UNCHANGED <<chain, txs, orders, load>>
  BY <1>3 DEF Shape, world, WorldTypes, Height
<1>6. scanned' \in 0..Height
  BY <1>3, <1>5 DEF NodeTypes
<1>7. CASE \E kind \in Kinds, i \in Intents : Choose(kind, i)
  <2>1. PICK kind \in Kinds, i \in Intents : Choose(kind, i)
    BY <1>7
  <2>2. /\ intent'[i] = Dispatched(intent[i], kind) /\ Candidate(kind, i)
        /\ call' = [kind |-> kind, of |-> i] /\ stage' = "call"
        /\ UNCHANGED <<cursor, queue, fresh, answer>>
    BY <2>1, ChooseAdvances DEF Choose
  <2>3. PICK c \in ToolCall : c = [kind |-> kind, of |-> i]
    BY DEF ToolCall
  <2>4. NodeTypes'
    BY <1>4, <1>5, <1>6, <2>2 DEF NodeTypes, ToolCall
  <2>5. PICK r : r = intent[i]
    OBVIOUS
  <2>6. Sound(i, r) /\ r \in Record(Len(orders), Height, Len(txs))
    BY <1>5, <2>5 DEF Records, Sound
  <2>7. /\ r.status = "open" /\ (kind = "archive" => ~r.cid) /\ (kind = "order" => r.order = "idle")
        /\ (kind = "deposit" => r.deposit = "idle")
    <3>1. CASE kind = "archive"
      BY <2>2, <2>5, <3>1 DEF Candidate, Open, Is
    <3>2. CASE kind = "order"
      BY <2>2, <2>5, <3>2 DEF Candidate, Open, Is
    <3>3. CASE kind = "deposit"
      BY <2>2, <2>5, <3>3 DEF Candidate, Open, Is
    <3>4. CASE kind = "reimbursement"
      BY <2>2, <2>5, <3>4 DEF Candidate, Open, Is
    <3> QED BY <3>1, <3>2, <3>3, <3>4 DEF Kinds
  <2>8. Marked(c)'
    <3> DEFINE t == Dispatched(r, kind)
    <3>1. /\ t.status = "open" /\ (kind = "archive" => ~t.cid)
          /\ (kind = "order" => t.order = "dispatched")
          /\ (kind = "deposit" => t.deposit = "dispatched")
          /\ (kind = "reimbursement" => t.reimbursement = "dispatched")
      <4>1. CASE kind = "archive"
        BY <2>7, <4>1 DEF Dispatched
      <4>2. CASE kind = "order"
        BY <2>6, <2>7, <4>2 DEF Dispatched, Record
      <4>3. CASE kind = "deposit"
        BY <2>6, <2>7, <4>3 DEF Dispatched, Record
      <4>4. CASE kind = "reimbursement"
        BY <2>6, <2>7, <4>4 DEF Dispatched, Record
      <4> QED BY <4>1, <4>2, <4>3, <4>4 DEF Kinds
    <3>2. intent'[i] = t
      BY <2>2, <2>5
    <3> HIDE DEF t
    <3> QED BY <2>3, <3>1, <3>2 DEF Marked
  <2>9. Undone(c)'
    <3>1. kind = "order" => Progress(i)' \in {"accepted", "doubted"}
      BY <1>5, <2>6, <2>7, SameProgress DEF Sound
    <3>2. kind = "deposit" => Pending(i)' = {}
      BY <1>5, <2>6, <2>7 DEF Sound, Pending, IsTx
    <3> QED BY <2>3, <3>1, <3>2 DEF Undone
  <2>10. Calls'
    <3>1. call' = c /\ stage' = "call"
      BY <2>2, <2>3
    <3> QED BY <2>8, <2>9, <3>1 DEF Calls
  <2> QED BY <1>4, <2>4, <2>10 DEF Shape
<1>8. CASE ~(\E kind \in Kinds, i \in Intents : Choose(kind, i))
  <2>0. Poll \/ Ingest \/ IngestThrows \/ Refresh \/ RefreshThrows \/ Rest \/ Output \/ Crash
    BY <1>8 DEF Alone
  <2>1. /\ stage' \in {"idle", "ingest", "refresh", "choose"}
        /\ fresh' \subseteq 1..Height /\ cursor' \in 0..Height
    <3>1. fresh \subseteq 1..Height /\ cursor \in 0..Height
      BY <1>5 DEF NodeTypes
    <3>2. CASE Poll
      <4>1. {b \in cursor + 1..Height : /\ chain[b].kind = "proposed"
                                        /\ b = Max(Events(HashOf(chain[b].of), Height))}
              \subseteq 1..Height
        BY <1>5, <3>1
      <4>2. /\ stage' = "ingest" /\ cursor' = Height
            /\ fresh' = {b \in cursor + 1..Height :
                           /\ chain[b].kind = "proposed"
                           /\ b = Max(Events(HashOf(chain[b].of), Height))}
        BY <3>2 DEF Poll
      <4> QED BY <1>5, <4>1, <4>2
    <3>3. CASE Ingest
      BY <3>1, <3>3 DEF Ingest
    <3>4. CASE IngestThrows
      BY <3>1, <3>4 DEF IngestThrows
    <3>5. CASE Refresh
      BY <3>1, <3>5 DEF Refresh
    <3>6. CASE RefreshThrows
      BY <3>1, <3>6 DEF RefreshThrows
    <3>7. CASE Rest \/ Output
      BY <3>1, <3>7 DEF Rest, Output
    <3>8. CASE Crash
      BY <1>5, <3>1, <3>8 DEF Crash
    <3> QED BY <2>0, <3>2, <3>3, <3>4, <3>5, <3>6, <3>7, <3>8
  <2>2. queue' \in Seq(Update)
    <3>1. queue \in Seq(Update)
      BY <1>5 DEF NodeTypes
    <3>2. CASE Poll
      <4> DEFINE u == [executed |-> Hashes("executed", cursor, Height),
                       deleted |-> Hashes("deleted", cursor, Height)]
      <4>1. cursor \in Nat
        BY <1>5 DEF NodeTypes
      <4>2. \A b \in cursor + 1..Height : b \in 1..Height /\ HashOf(chain[b].of) \in AllHashes
        <5> SUFFICES ASSUME NEW b \in cursor + 1..Height
                     PROVE  b \in 1..Height /\ HashOf(chain[b].of) \in AllHashes
          OBVIOUS
        <5>1. b \in 1..Height
          BY <1>5, <4>1
        <5>2. chain[b] \in Event
          BY <1>5, <5>1 DEF WorldTypes, Height
        <5> QED BY <5>1, <5>2 DEF Event, AllHashes
      <4>3. \A kind : Hashes(kind, cursor, Height) \subseteq AllHashes
        BY <4>2 DEF Hashes
      <4>4. Hashes("executed", cursor, Height) \subseteq PaidHashes
        BY <4>2 DEF Hashes, PaidHashes
      <4>5. u \in Update
        BY <4>3, <4>4 DEF Update
      <4>6. queue' \in {queue, Append(queue, u)}
        BY <3>2 DEF Poll
      <4> HIDE DEF u
      <4>7. PICK U : U = Update
        OBVIOUS
      <4>8. Append(queue, u) \in Seq(U)
        BY <3>1, <4>5, <4>7
      <4> QED BY <3>1, <4>6, <4>7, <4>8
    <3>3. CASE queue' = queue
      BY <3>1, <3>3
    <3>4. CASE queue' = <<>>
      BY <3>4
    <3> QED BY <2>0, <3>2, <3>3, <3>4
            DEF Ingest, IngestThrows, Refresh, RefreshThrows, Rest, Output, Crash
  <2>3. call' = None
    <3>1. CASE Output \/ Crash
      BY <3>1 DEF Output, Crash
    <3>2. CASE Poll \/ Ingest \/ IngestThrows \/ Refresh \/ RefreshThrows \/ Rest
      BY <1>5, <3>2 DEF Poll, Ingest, IngestThrows, Refresh, RefreshThrows, Rest, NodeTypes
    <3> QED BY <2>0, <3>1, <3>2
  <2>4. NodeTypes'
    BY <1>4, <1>6, <2>1, <2>2, <2>3 DEF NodeTypes
  <2>5. Calls'
    BY <2>1 DEF Calls
  <2> QED BY <1>4, <2>4, <2>5 DEF Shape
<1> QED BY <1>4, <1>7, <1>8

(* The shape at the start.                                                 *)
LEMMA InitShape ==
  ASSUME Init
  PROVE  Shape
<1>1. /\ load \in Workloads /\ chain = <<>> /\ txs = <<>> /\ Height = 0 /\ Len(txs) = 0
      /\ DOMAIN txs = {} /\ 1..Height = {} /\ Len(orders) = 0 /\ DOMAIN orders = {}
  BY DEF Init, Height
<1>2. WorldTypes
  BY DEF Init, WorldTypes
<1>3. NodeTypes
  <2>1. waiting \in Update /\ queue \in Seq(Update)
    BY DEF Init, Update
  <2> QED BY <1>1, <2>1 DEF Init, NodeTypes, Indexed
<1>4. ASSUME NEW i \in Intents PROVE Sound(i, intent[i]) /\ Pending(i) = {} /\ Single(i)
  <2>1. intent[i] = NoRecord
    BY DEF Init
  <2>2. Pending(i) = {}
    BY <1>1 DEF Pending
  <2>3. NoRecord \in Record(Len(orders), Height, Len(txs))
    BY <1>1 DEF NoRecord, Record, OrderStages, DepositStages, ReimbursementStages
  <2>4. /\ NoRecord.status = "none" /\ NoRecord.order = "idle" /\ NoRecord.deposit = "idle"
        /\ NoRecord.reimbursement = "idle" /\ NoRecord.orderAt = 0 /\ NoRecord.from = 0
    BY DEF NoRecord
  <2>5. Progress(i) = "accepted" /\ Single(i) /\ scanned = 0
    BY <1>1 DEF Init, Progress, Single, OrdersOf
  <2>6. Sound(i, NoRecord)
    BY <1>1, <2>2, <2>3, <2>4, <2>5 DEF Sound
  <2> QED BY <2>1, <2>2, <2>5, <2>6
<1>5. Records
  BY <1>4 DEF Records
<1>6. Once
  BY <1>4 DEF Once
<1>7. Calls
  BY DEF Init, Calls
<1> QED BY <1>2, <1>3, <1>5, <1>6, <1>7 DEF Shape

(* A step that changes nothing.                                            *)
LEMMA StutterKeepsShape ==
  ASSUME Shape, UNCHANGED vars
  PROVE  Shape' /\ Grows /\ Height' = Height
<1>1. /\ UNCHANGED <<load, chain, txs, orders, intent, waiting, scanned,
                     cursor, queue, fresh, stage, call, answer>>
  BY DEF vars, world, durable, memory
<1>2. WorldTypes' /\ Height' = Height /\ Height \in Nat /\ Len(txs) \in Nat
  BY <1>1 DEF Shape, WorldTypes, Height
<1>3. Grows
  BY <1>1, <1>2 DEF Grows
<1>4. Moves
  BY <1>1, <1>2, <1>3 DEF Moves, durable, memory
<1>5. Shape'
  BY <1>2, <1>4, MovesKeepShape
<1> QED BY <1>2, <1>3, <1>5

(* Every step keeps the shape.                                             *)
LEMMA StepKeepsShape ==
  ASSUME Shape, [Next]_vars
  PROVE  Shape' /\ Grows
<1>1. CASE World
  BY <1>1, WorldKeepsShape DEF Moves
<1>2. CASE Call
  BY <1>2, CallKeepsShape
<1>3. CASE Alone
  BY <1>3, AloneKeepsShape
<1>4. CASE UNCHANGED vars
  BY <1>4, StutterKeepsShape
<1> QED BY <1>1, <1>2, <1>3, <1>4 DEF Next, Loop, Alone

(* Records are sound, an order is placed once unless one was denied, a     *)
(* transfer is sent once, and a call agrees with the record it is about.   *)
THEOREM TraderShape == Spec => []Shape
<1>1. Init => Shape
  BY InitShape
<1>2. Shape /\ [Next]_vars => Shape'
  BY StepKeepsShape
<1> QED BY <1>1, <1>2, PTL DEF Spec

(* What the trader keeps is well-formed, for every bound: a call is under  *)
(* way only between its choice and its answer, and tokens count as         *)
(* deposited only after they were bought.                                  *)
THEOREM TraderTypes == Spec => []TypeOK
<1>1. Shape => TypeOK
  <2> SUFFICES ASSUME Shape PROVE TypeOK
    OBVIOUS
  <2>1. WorldTypes /\ NodeTypes /\ Records
    BY DEF Shape
  <2>2. /\ chain \in Seq([kind : Governor \cup {"transfer"}, of : Intents])
        /\ txs \in Seq([kind : {"deposit", "reimbursement"}, of : Intents,
                        state : {"pool", "mined", "reverted"}])
        /\ orders \in Seq([of : Intents, state : {"open", "filled", "failed"}, denied : BOOLEAN])
    BY <2>1 DEF WorldTypes, Event, Tx, OrderEntry
  <2>3. \A i \in Intents : intent[i] \in Record(Len(orders), Height, Len(txs))
    BY <2>1 DEF Records, Sound
  <2>4. intent \in [Intents -> Record(Len(orders), Height, Len(txs))]
    <3>1. PICK R : R = Record(Len(orders), Height, Len(txs))
      OBVIOUS
    <3>2. intent = [i \in Intents |-> intent[i]]
      BY <2>1 DEF Shape, NodeTypes, Indexed
    <3> QED BY <2>3, <3>1, <3>2
  <2>5. waiting.executed \cup waiting.deleted \subseteq {HashOf(i) : i \in Intents}
    BY <2>1 DEF NodeTypes, Update, PaidHashes, AllHashes
  <2>6. call # None <=> stage \in {"call", "output"}
    BY <2>1, NoneApart DEF NodeTypes, ToolCall
  <2>7. \A i \in Intents :
          /\ intent[i].order \in {"placed", "filled"} => intent[i].orderId # 0
          /\ intent[i].deposit = "submitted" => intent[i].depositTx # 0
          /\ intent[i].deposit = "deposited" => intent[i].order = "filled"
    <3>1. 0 \notin DOMAIN orders
      BY <2>1 DEF WorldTypes
    <3> QED BY <2>1, <3>1 DEF Records, Sound, OrdersOf
  <2> QED BY <2>1, <2>2, <2>4, <2>5, <2>6, <2>7 DEF TypeOK, NodeTypes
<1> QED BY <1>1, TraderShape, PTL

(* An intent counts as deposited only when a transfer of its amount came   *)
(* into the Safe after its order.                                          *)
THEOREM TraderDepositIsReal == Spec => []DepositIsReal
<1>1. Shape => DepositIsReal
  <2> SUFFICES ASSUME Shape PROVE DepositIsReal
    OBVIOUS
  <2> QED BY DEF Shape, Records, Sound, Real, DepositIsReal
<1> QED BY <1>1, TraderShape, PTL

(* What counts as reimbursed was paid, or shares its hash with one that    *)
(* was.                                                                    *)
THEOREM TraderBelieved == Spec => []BelievedReimbursed
<1>1. Shape => BelievedReimbursed
  <2> SUFFICES ASSUME Shape PROVE BelievedReimbursed
    OBVIOUS
  <2> SUFFICES ASSUME NEW i \in Intents, Is(i, "reimbursed")
               PROVE  Paid(i) # {} \/ \E j \in Intents \ {i} : HashOf(j) = HashOf(i)
    BY DEF BelievedReimbursed
  <2>1. HashOf(i) \in PaidHashes
    BY DEF Shape, Records, Sound, Is
  <2>2. PICK b \in 1..Height : chain[b].kind = "executed" /\ HashOf(chain[b].of) = HashOf(i)
    BY <2>1 DEF PaidHashes
  <2>3. chain[b].of \in Intents
    <3>1. chain[b] \in Event
      BY <2>2 DEF Shape, WorldTypes, Height
    <3> QED BY <3>1 DEF Event
  <2>4. CASE chain[b].of = i
    BY <2>2, <2>4 DEF Paid
  <2>5. CASE chain[b].of # i
    BY <2>2, <2>3, <2>5
  <2> QED BY <2>4, <2>5
<1> QED BY <1>1, TraderShape, PTL
-----------------------------------------------------------------------------
(* The intents credit is reserved for.                                     *)
Holding == {i \in Intents : intent[i].status \notin {"none", "released"}}

(* What is reserved is the total of what they spend.                       *)
LEMMA HoldingIsReserved ==
  ASSUME Shape
  PROVE  /\ Reserved = Total(load.spend, Holding)
         /\ load.credit \in Nat /\ IsFiniteSet(Intents)
         /\ \A i \in Intents : load.spend[i] \in Nat
         /\ \A S \in SUBSET Intents : Total(load.spend, S) \in Nat
<1>1. Holding = {i \in Tracked : ~Is(i, "released")}
  BY DEF Holding, Tracked, Is
<1>2. load \in Workloads
  BY DEF Shape, WorldTypes
<1>3. /\ load.credit \in Nat /\ \A i \in Intents : load.spend[i] \in Nat
  BY <1>2, TraderAssumption
<1>4. IsFiniteSet(Intents)
  BY TraderAssumption
<1>5. \A S \in SUBSET Intents : Total(load.spend, S) \in Nat
  BY <1>3, <1>4, TotalIsFold
<1> QED BY <1>1, <1>3, <1>4, <1>5 DEF Reserved, Spend, Total

(* Credit is reserved for one intent more only when enough is left.        *)
LEMMA AcceptedIsCovered ==
  ASSUME Shape, Covered, load' = load, NEW readable, NEW new \in New(readable), NEW records,
         Advances(records, new), Shape'
  PROVE  Covered'
<1>1. PICK w : w = load.spend
  OBVIOUS
<1>2. PICK H : H = Holding
  OBVIOUS
<1>3. PICK G : G = Holding'
  OBVIOUS
<1>4. /\ Reserved = Total(w, H) /\ Reserved' = Total(w, G) /\ load.credit \in Nat
      /\ IsFiniteSet(Intents) /\ \A i \in Intents : w[i] \in Nat
      /\ \A S \in SUBSET Intents : Total(w, S) \in Nat
      /\ H \subseteq Intents /\ G \subseteq Intents
  <2>1. Reserved' = Total(load'.spend, Holding')
    <3>1. Holding' = {i \in Tracked' : ~Is(i, "released")'}
      BY DEF Holding, Tracked, Is
    <3> QED BY <3>1 DEF Reserved, Spend, Total, MapThenSumSet, MapThenFoldSet
  <2> QED BY <1>1, <1>2, <1>3, <2>1, HoldingIsReserved DEF Holding
<1>5. Total(w, H) <= load.credit
  BY <1>4 DEF Covered
<1>6. G \subseteq H \cup new
  <2> SUFFICES ASSUME NEW i \in G, i \notin new PROVE i \in H
    OBVIOUS
  <2>1. i \in Intents /\ intent'[i].status \notin {"none", "released"}
    BY <1>3 DEF Holding
  <2>2. Later(intent[i], intent'[i])
    BY <2>1 DEF Advances, Kept
  <2> QED BY <1>2, <2>1, <2>2 DEF Holding, Later
<1>7. CASE new = {}
  <2>1. Total(w, G) <= Total(w, H)
    <3>1. G \subseteq H
      BY <1>6, <1>7
    <3> QED BY <1>4, <3>1, TotalOfPart, FS_Subset
  <2> QED BY <1>4, <1>5, <2>1 DEF Covered
<1>8. ASSUME NEW i, new = {i} PROVE Total(w, G) <= load.credit
  <2>1. /\ i \in Intents /\ Acceptable(i, readable) /\ intent[i] = NoRecord
    BY <1>8, NewIsNone
  <2>2. w[i] <= load.credit - Total(w, H)
    BY <1>1, <1>4, <2>1 DEF Acceptable, Available
  <2>3. i \notin H
    BY <1>2, <2>1 DEF Holding, NoRecord
  <2>4. H \cup {i} \subseteq Intents /\ (H \cup {i}) \ {i} = H /\ G \subseteq H \cup {i}
    BY <1>4, <1>6, <1>8, <2>1, <2>3
  <2>5. Total(w, H \cup {i}) = w[i] + Total(w, H)
    <3>1. PICK U : U = H \cup {i}
      OBVIOUS
    <3>2. U \subseteq Intents /\ i \in U /\ U \ {i} = H
      BY <2>4, <3>1
    <3>3. IsFiniteSet(U) /\ \A x \in U : w[x] \in Nat
      BY <1>4, <3>2, FS_Subset
    <3>4. Total(w, U) = w[i] + Total(w, U \ {i})
      BY <3>2, <3>3, TotalRemove
    <3> QED BY <3>1, <3>2, <3>4
  <2>6. Total(w, G) <= Total(w, H \cup {i})
    <3>1. PICK U : U = H \cup {i}
      OBVIOUS
    <3>2. IsFiniteSet(U) /\ G \subseteq U /\ \A x \in U : w[x] \in Nat
      BY <1>4, <2>4, <3>1, FS_Subset
    <3> QED BY <3>1, <3>2, TotalOfPart
  <2>7. /\ Total(w, G) \in Nat /\ Total(w, H) \in Nat /\ Total(w, H \cup {i}) \in Nat
        /\ w[i] \in Nat /\ load.credit \in Nat
    BY <1>4, <2>1, <2>4
  <2> QED BY ONLY <2>2, <2>5, <2>6, <2>7
<1>9. new = {} \/ \E i : new = {i}
  BY DEF New
<1> QED BY <1>4, <1>7, <1>8, <1>9 DEF Covered

(* Steps that leave the intents alone reserve nothing.                     *)
LEMMA StillCovered ==
  ASSUME Covered, load' = load, intent' = intent
  PROVE  Covered'
BY DEF Covered, Reserved, Spend, Tracked, Is, MapThenSumSet, MapThenFoldSet

(* Every step keeps what is reserved covered by the credit.                *)
LEMMA StepIsCovered ==
  ASSUME Shape, Covered, [Next]_vars
  PROVE  Covered'
<1>1. Shape'
  BY StepKeepsShape
<1>2. CASE World
  BY <1>1, <1>2, WorldKeepsShape, StillCovered DEF Moves, Grows, durable
<1>3. CASE Call
  BY <1>1, <1>3, StillCovered DEF Call, durable
<1>4. CASE Alone
  <2>1. load' = load
    BY <1>4, AloneAdvances
  <2>2. PICK records, readable : \E new \in New(readable) : Advances(records, new)
    BY <1>4, AloneAdvances
  <2>3. PICK new \in New(readable) : Advances(records, new)
    BY <2>2
  <2> QED BY <1>1, <2>1, <2>3, AcceptedIsCovered
<1>5. CASE UNCHANGED vars
  BY <1>1, <1>5, StillCovered DEF vars, durable
<1> QED BY <1>2, <1>3, <1>4, <1>5 DEF Next, Loop, Alone

(* What is reserved is covered by the credit.                              *)
LEMMA TraderCovered == Spec => []Covered
<1>1. Init => Covered
  <2> SUFFICES ASSUME Init PROVE Covered
    OBVIOUS
  <2>1. Shape
    BY InitShape
  <2>2. Holding = {}
    BY DEF Init, Holding, NoRecord
  <2>3. Total(load.spend, {}) = 0
    BY <2>1, HoldingIsReserved, TotalIsFold
  <2> QED BY <2>1, <2>2, <2>3, HoldingIsReserved DEF Covered
<1>2. Shape /\ Covered /\ [Next]_vars => Covered'
  BY StepIsCovered
<1> QED BY <1>1, <1>2, TraderShape, PTL DEF Spec

(* What the intents may have spent that are not in doubt.                  *)
Undoubted ==
  {i \in Intents : ~Denied(i) /\ \E k \in OrdersOf(i) : orders[k].state \in {"open", "filled"}}
UndoubtedCovered == Spend(Undoubted) <= load.credit

(* What may have been spent is covered by the credit, for every number of  *)
(* intents and whatever they spend, but for intents of which an order was  *)
(* taken that the agent was told to have failed: credit is given back only *)
(* for an order that was not placed or failed.                             *)
THEOREM TraderExposure == Spec => []UndoubtedCovered
<1>1. Shape /\ Covered => UndoubtedCovered
  <2> SUFFICES ASSUME Shape, Covered PROVE UndoubtedCovered
    OBVIOUS
  <2>1. PICK B : B = Undoubted
    OBVIOUS
  <2>2. B \subseteq Holding
    <3> SUFFICES ASSUME NEW i \in B PROVE i \in Holding
      OBVIOUS
    <3>0. PICK k \in OrdersOf(i) : orders[k].state \in {"open", "filled"}
      BY <2>1 DEF Undoubted
    <3>1. i \in Intents /\ Progress(i) \in {"open", "filled"} /\ Sound(i, intent[i])
      BY <2>1, <3>0, ProgressOf DEF Undoubted, Shape, Records, Once
    <3>2. intent[i].status # "released"
      BY <3>1 DEF Sound
    <3>3. intent[i].status # "none"
      <4> SUFFICES ASSUME intent[i].status = "none" PROVE FALSE
        OBVIOUS
      <4>1. intent[i].order = "idle"
        BY <3>1 DEF Sound, NoRecord
      <4> QED BY <3>1, <4>1 DEF Sound
    <3> QED BY <3>1, <3>2, <3>3 DEF Holding
  <2>3. PICK H : H = Holding
    OBVIOUS
  <2>4. /\ H \subseteq Intents /\ B \subseteq H /\ IsFiniteSet(H)
        /\ \A i \in H : load.spend[i] \in Nat
    BY <2>2, <2>3, HoldingIsReserved, FS_Subset DEF Holding
  <2>5. Total(load.spend, B) <= Total(load.spend, H)
    <3>1. PICK w : w = load.spend
      OBVIOUS
    <3> QED BY <2>4, <3>1, TotalOfPart
  <2>6. /\ Total(load.spend, B) \in Nat /\ Total(load.spend, H) \in Nat /\ load.credit \in Nat
        /\ Total(load.spend, H) <= load.credit
    BY <2>3, <2>4, HoldingIsReserved DEF Covered
  <2>7. Total(load.spend, B) <= load.credit
    BY ONLY <2>5, <2>6
  <2> QED BY <2>1, <2>7 DEF UndoubtedCovered, Spend, Total
<1> QED BY <1>1, TraderCovered, TraderShape, PTL
-----------------------------------------------------------------------------

(* The events of a hash that are on the chain stay there.                  *)
LEMMA OursStay ==
  ASSUME WorldTypes, WorldTypes', Grows
  PROVE  /\ Height \in Nat /\ Height' \in Nat /\ Height <= Height'
         /\ \A b \in 1..Height : b \in 1..Height' /\ chain'[b] = chain[b]
         /\ \A i \in Intents, b \in 1..Height : Ours(i, b)' <=> Ours(i, b)
<1>1. Height \in Nat /\ Height' \in Nat /\ Height <= Height' /\ load' = load
  BY Growth DEF Grows
<1>2. \A b \in 1..Height : b \in 1..Height' /\ chain'[b] = chain[b]
  BY <1>1 DEF Grows
<1> QED BY <1>1, <1>2 DEF Ours, HashOf

(* What the pass knows of as live does not change behind its back.         *)
LEMMA BusyStays ==
  ASSUME WorldTypes, WorldTypes', Grows, cursor \in 0..Height, cursor' = cursor
  PROVE  Busy' <=> Busy
<1>1. PICK n : n = cursor
  OBVIOUS
<1>2. /\ Height \in Nat /\ Height' \in Nat /\ Height <= Height' /\ n \in 0..Height
      /\ \A b \in 1..Height : b \in 1..Height' /\ chain'[b] = chain[b]
      /\ load' = load
  BY <1>1, OursStay DEF Grows
<1>3. ASSUME NEW h PROVE LiveAt(h, n)' <=> LiveAt(h, n)
  <2>1. \A b \in 1..n : b \in 1..Height
    BY <1>2
  <2>2. Events(h, n)' = Events(h, n)
    BY <1>2, <2>1 DEF Events, HashOf
  <2>3. CASE Events(h, n) = {}
    BY <2>2, <2>3 DEF LiveAt
  <2>4. CASE Events(h, n) # {}
    <3>1. Max(Events(h, n)) \in 1..Height
      BY <1>2, <2>4, LatestEvent
    <3>2. PICK m : m = Max(Events(h, n))
      OBVIOUS
    <3>3. Max(Events(h, n))' = m
      BY <2>2, <3>2
    <3> QED BY <1>2, <2>2, <3>1, <3>2, <3>3 DEF LiveAt
  <2> QED BY <2>3, <2>4
<1>4. Busy <=> \E h \in AllHashes : LiveAt(h, n)
  BY <1>1 DEF Busy, AllHashes
<1>5. Busy' <=> \E h \in AllHashes : LiveAt(h, n)'
  <2>1. cursor' = n
    BY <1>1
  <2> QED BY <1>2, <2>1 DEF Busy, AllHashes, LiveAt, Events, HashOf
<1> QED BY <1>3, <1>4, <1>5

(* A pass that began while an intent that was paid by now was still live   *)
(* knows of it.                                                            *)
LEMMA LiveIsKnown ==
  ASSUME WorldTypes, cursor \in 0..Height, NEW i \in Intents, NEW a \in 1..Height,
         chain[a] = [kind |-> "proposed", of |-> i], a <= cursor,
         \A c \in 1..Height : Ours(i, c) /\ c <= cursor => c <= a
  PROVE  Busy
<1>1. PICK h : h = HashOf(i)
  OBVIOUS
<1>2. Height \in Nat /\ a \in 1..cursor /\ \A c \in 1..cursor : c \in 1..Height /\ c <= cursor
  BY DEF WorldTypes, Height
<1>3. a \in Events(h, cursor)
  BY <1>1, <1>2 DEF Events, Governor
<1>4. \A c \in Events(h, cursor) : c <= a /\ c \in 1..cursor
  BY <1>1, <1>2 DEF Events, Ours
<1>5. /\ Max(Events(h, cursor)) \in Events(h, cursor)
      /\ \A c \in Events(h, cursor) : c <= Max(Events(h, cursor))
  BY <1>3, LatestEvent
<1>6. Max(Events(h, cursor)) = a
  <2>1. PICK m : m = Max(Events(h, cursor))
    OBVIOUS
  <2>2. m \in Events(h, cursor) /\ a <= m
    BY <1>3, <1>5, <2>1
  <2>3. m <= a /\ m \in 1..cursor
    BY <1>4, <2>2
  <2>4. m \in Int /\ a \in Int
    BY <1>2, <2>3
  <2>5. m = a
    BY ONLY <2>2, <2>3, <2>4
  <2> QED BY <2>1, <2>5
<1>7. LiveAt(h, cursor)
  BY <1>3, <1>6 DEF LiveAt
<1> QED BY <1>1, <1>7 DEF Busy

(* While an intent that was paid is open, the pass knows of a live         *)
(* proposal.                                                               *)
LEMMA JustPaidIsBusy ==
  ASSUME WorldTypes, cursor \in 0..Height, NEW i \in Intents, JustPaid(i), stage \in Working
  PROVE  Busy
<1>1. PICK a, b \in 1..Height :
        /\ a < b /\ chain[a] = [kind |-> "proposed", of |-> i]
        /\ \A c \in 1..Height : Ours(i, c) => c = b \/ c <= a
        /\ a <= cursor /\ cursor < b
  BY DEF JustPaid
<1>2. Height \in Nat
  BY DEF WorldTypes, Height
<1>3. \A c \in 1..Height : Ours(i, c) /\ c <= cursor => c <= a
  BY <1>1, <1>2
<1> QED BY <1>1, <1>3, LiveIsKnown

(* An intent that was paid has a record from before: it is not a new one.  *)
LEMMA PaidIsDeposited ==
  ASSUME Shape, NEW i \in Intents, Paid(i) # {}
  PROVE  intent[i].deposit = "deposited" /\ intent[i] # NoRecord
<1>1. PICK b \in 1..Height : chain[b].kind = "executed" /\ chain[b].of = i
  BY DEF Paid
<1>2. intent[i].deposit = "deposited"
  BY <1>1 DEF Shape, Records, Sound, Governor
<1> QED BY <1>2 DEF NoRecord

(* Steps that make no event of the Governor.                               *)
LEMMA QuietKeepsPaid ==
  ASSUME Shape, PaidOnce, WorldTypes', Grows,
         \A b \in 1..Height' : b > Height => chain'[b].kind \notin Governor,
         \A k \in DOMAIN txs' : txs'[k].kind = "reimbursement" /\ txs'[k].state = "pool" =>
           \/ k \in DOMAIN txs /\ txs[k].state = "pool"
           \/ /\ Paid(txs'[k].of) = {}
              /\ \A i \in Intents : Paid(i) = {} \/ intent'[i].status # "open",
         stage' \in {"call", "output"} /\ call'.kind = "reimbursement" => ~Busy',
         \A i \in Intents : Paid(i) # {} =>
           ~(stage' = "call" /\ call' = [kind |-> "reimbursement", of |-> i]),
         \A i \in Intents : Paid(i) # {} /\ intent'[i].status = "open" =>
           /\ intent[i].status = "open"
           /\ stage' \in Working => stage \in Working /\ cursor' = cursor
  PROVE  PaidOnce'
<1>1. /\ WorldTypes /\ Height \in Nat /\ Height' \in Nat /\ Height <= Height'
      /\ \A b \in 1..Height : b \in 1..Height' /\ chain'[b] = chain[b]
      /\ \A i \in Intents, b \in 1..Height : Ours(i, b)' <=> Ours(i, b)
  BY OursStay DEF Shape
<1>2. \A b \in 1..Height' : chain'[b].kind \in Governor => b \in 1..Height
  BY <1>1
<1>3. ASSUME NEW i \in Intents PROVE Paid(i)' = Paid(i)
  BY <1>1, <1>2 DEF Paid, Governor
<1>4. ASSUME NEW i \in Intents, NEW c \in 1..Height', Ours(i, c)'
      PROVE  c \in 1..Height /\ Ours(i, c)
  <2>1. chain'[c].kind \in Governor
    BY <1>4 DEF Ours
  <2>2. c \in 1..Height
    BY <1>2, <2>1
  <2> QED BY <1>1, <1>4, <2>2
<1>5. ASSUME NEW i \in Intents PROVE \A b, c \in Paid(i)' : b = c
  BY <1>3 DEF PaidOnce
<1>6. ASSUME NEW i \in Intents, Paid(i) # {} PROVE NotAgain(i)'
  <2>1. NotAgain(i)
    BY <1>6 DEF PaidOnce
  <2>2. ASSUME NEW k \in DOMAIN txs', IsTx(k, "reimbursement", i)' PROVE txs'[k].state # "pool"
    <3> SUFFICES ASSUME txs'[k].state = "pool" PROVE FALSE
      OBVIOUS
    <3>1. k \in DOMAIN txs /\ txs[k].state = "pool"
      BY <1>6, <2>2 DEF IsTx
    <3>2. IsTx(k, "reimbursement", i)
      BY <2>2, <3>1 DEF IsTx, Grows
    <3> QED BY <2>1, <3>1, <3>2 DEF NotAgain
  <2>3. ASSUME NEW b \in 1..Height', chain'[b] = [kind |-> "proposed", of |-> i]
        PROVE  \E c \in 1..Height' : Ours(i, c)' /\ b < c
    <3>1. b \in 1..Height
      BY <1>2, <2>3 DEF Governor
    <3>2. chain[b] = [kind |-> "proposed", of |-> i]
      BY <1>1, <2>3, <3>1
    <3>3. PICK c \in 1..Height : Ours(i, c) /\ b < c
      BY <2>1, <3>1, <3>2 DEF NotAgain
    <3> QED BY <1>1, <3>3
  <2>4. ~(stage' = "call" /\ call' = [kind |-> "reimbursement", of |-> i])
    BY <1>6
  <2> QED BY <2>2, <2>3, <2>4 DEF NotAgain
<1>7. ASSUME NEW i \in Intents, Paid(i) # {}, intent'[i].status = "open" PROVE JustPaid(i)'
  <2>1. JustPaid(i)
    BY <1>7 DEF PaidOnce
  <2>2. PICK a, b \in 1..Height :
          /\ a < b /\ chain[a] = [kind |-> "proposed", of |-> i]
          /\ chain[b] = [kind |-> "executed", of |-> i]
          /\ \A c \in 1..Height : Ours(i, c) => c = b \/ c <= a
          /\ stage \in Working => a <= cursor /\ cursor < b
    BY <2>1 DEF JustPaid
  <2>3. a \in 1..Height' /\ b \in 1..Height' /\ chain'[a] = chain[a] /\ chain'[b] = chain[b]
    BY <1>1
  <2>4. \A c \in 1..Height' : Ours(i, c)' => c = b \/ c <= a
    BY <1>4, <2>2
  <2>5. stage' \in Working => a <= cursor' /\ cursor' < b
    BY <1>7, <2>2
  <2>6. ~InPool("reimbursement")'
    <3> SUFFICES ASSUME NEW k \in DOMAIN txs', txs'[k].kind = "reimbursement",
                        txs'[k].state = "pool"
                 PROVE  FALSE
      BY DEF InPool
    <3>1. k \in DOMAIN txs /\ txs[k].state = "pool"
      BY <1>7
    <3>2. txs[k].kind = "reimbursement"
      BY <3>1 DEF Grows
    <3> QED BY <2>1, <3>1, <3>2 DEF JustPaid, InPool
  <2> QED BY <2>2, <2>3, <2>4, <2>5, <2>6 DEF JustPaid
<1> QED BY <1>3, <1>5, <1>6, <1>7 DEF PaidOnce

(* A proposal that is executed or disputed ends the doubt about its hash.  *)
LEMMA EndKeepsPaid ==
  ASSUME Shape, PaidOnce, WorldTypes', Grows, NEW j \in Intents, NEW kind \in {"executed", "deleted"},
         Made(kind, j), Live(HashOf(j)), chain[Max(Events(HashOf(j), Height))].of = j,
         UNCHANGED <<durable, memory, txs>>,
         kind = "executed" => /\ ~InPool("reimbursement")
                              /\ stage = "idle" \/ Max(Events(HashOf(j), Height)) <= cursor
  PROVE  PaidOnce'
<1>0. PICK a : a = Max(Events(HashOf(j), Height))
  OBVIOUS
<1>1. /\ WorldTypes /\ NodeTypes /\ Height \in Nat /\ Height' \in Nat /\ Height <= Height'
      /\ \A b \in 1..Height : b \in 1..Height' /\ chain'[b] = chain[b]
      /\ \A i \in Intents, b \in 1..Height : Ours(i, b)' <=> Ours(i, b)
      /\ cursor \in 0..Height
  BY OursStay DEF Shape, NodeTypes
<1>2. /\ a \in 1..Height /\ chain[a] = [kind |-> "proposed", of |-> j]
      /\ \A c \in 1..Height : Ours(j, c) => c <= a
  BY <1>0, <1>1, LiveIsLatest
<1>3. PICK n : n = Height'
  OBVIOUS
<1>4. /\ n = Height + 1 /\ chain'[n] = [kind |-> kind, of |-> j] /\ n \in 1..Height'
      /\ \A b \in 1..Height' : b \in 1..Height \/ b = n
  <2>1. kind \in Governor \cup {"transfer"} /\ chain \in Seq(Event)
    BY <1>1 DEF Governor, WorldTypes
  <2> QED BY <1>1, <1>3, <2>1, EventMade
<1>5. /\ UNCHANGED <<intent, stage, call, cursor, txs>> /\ load' = load
  BY DEF durable, memory, Grows
<1>6. Ours(j, n)' /\ \A i \in Intents : Ours(i, n)' => HashOf(i) = HashOf(j)
  BY <1>4, <1>5 DEF Ours, HashOf, Governor
<1>7. \A i \in Intents : HashOf(i) = HashOf(j) => \A c \in 1..Height : Ours(i, c) => c <= a
  BY <1>2 DEF Ours
<1>8. Busy' <=> Busy
  BY <1>1, <1>5, BusyStays
(* An intent that was paid does not have its proposal executed.            *)
<1>9. Paid(j) = {}
  <2> SUFFICES ASSUME Paid(j) # {} PROVE FALSE
    OBVIOUS
  <2>1. NotAgain(j)
    BY DEF PaidOnce
  <2>2. PICK c \in 1..Height : Ours(j, c) /\ a < c
    BY <1>2, <2>1 DEF NotAgain
  <2> QED BY <1>1, <1>2, <2>2
<1>10. ASSUME NEW i \in Intents
       PROVE  Paid(i)' = IF i = j /\ kind = "executed" THEN {n} ELSE Paid(i)
  <2>1. CASE i = j
    BY <1>1, <1>4, <1>9, <2>1 DEF Paid
  <2>2. CASE i # j
    BY <1>1, <1>4, <2>2 DEF Paid
  <2> QED BY <2>1, <2>2
<1>11. ASSUME NEW i \in Intents PROVE \A b, c \in Paid(i)' : b = c
  BY <1>10 DEF PaidOnce
<1>12. ASSUME NEW i \in Intents, Paid(i)' # {} PROVE NotAgain(i)'
  <2>1. ASSUME NEW b \in 1..Height', chain'[b] = [kind |-> "proposed", of |-> i]
        PROVE  \E c \in 1..Height' : Ours(i, c)' /\ b < c
    <3>1. b \in 1..Height /\ chain[b] = [kind |-> "proposed", of |-> i]
      BY <1>1, <1>4, <2>1
    <3>2. CASE HashOf(i) = HashOf(j)
      <4>1. Ours(i, n)'
        BY <1>4, <1>5, <3>2 DEF Ours, HashOf, Governor
      <4> QED BY <1>1, <1>4, <3>1, <4>1
    <3>3. CASE HashOf(i) # HashOf(j)
      <4>1. Paid(i) # {}
        BY <1>10, <1>12, <3>3
      <4>2. NotAgain(i)
        BY <4>1 DEF PaidOnce
      <4>3. PICK c \in 1..Height : Ours(i, c) /\ b < c
        BY <3>1, <4>2 DEF NotAgain
      <4> QED BY <1>1, <4>3
    <3> QED BY <3>2, <3>3
  <2>2. CASE i = j /\ kind = "executed"
    <3>1. \A k \in DOMAIN txs' : IsTx(k, "reimbursement", i)' => txs'[k].state # "pool"
      BY <1>5, <2>2 DEF InPool, IsTx
    <3>2. ~(stage' = "call" /\ call' = [kind |-> "reimbursement", of |-> i])
      <4> SUFFICES ASSUME stage = "call", call = [kind |-> "reimbursement", of |-> i] PROVE FALSE
        BY <1>5
      <4>1. ~Busy
        BY DEF PaidOnce
      <4>2. a <= cursor
        BY <1>0, <2>2
      <4> QED BY <1>1, <1>2, <4>1, <4>2, LiveIsKnown
    <3> QED BY <2>1, <3>1, <3>2 DEF NotAgain
  <2>3. CASE ~(i = j /\ kind = "executed")
    <3>1. Paid(i) # {}
      BY <1>10, <1>12, <2>3
    <3>2. NotAgain(i)
      BY <3>1 DEF PaidOnce
    <3>3. \A k \in DOMAIN txs' : IsTx(k, "reimbursement", i)' => txs'[k].state # "pool"
      BY <1>5, <3>2 DEF NotAgain, IsTx
    <3>4. ~(stage' = "call" /\ call' = [kind |-> "reimbursement", of |-> i])
      BY <1>5, <3>2 DEF NotAgain
    <3> QED BY <2>1, <3>3, <3>4 DEF NotAgain
  <2> QED BY <2>2, <2>3
<1>13. ASSUME NEW i \in Intents, Paid(i)' # {}, intent[i].status = "open" PROVE JustPaid(i)'
  <2>1. CASE i = j /\ kind = "executed"
    <3>1. ~InPool("reimbursement")'
      BY <1>5, <2>1 DEF InPool
    <3>2. a \in 1..Height' /\ chain'[a] = [kind |-> "proposed", of |-> i] /\ a < n
      BY <1>1, <1>2, <1>4, <2>1
    <3>3. \A c \in 1..Height' : Ours(i, c)' => c = n \/ c <= a
      BY <1>1, <1>2, <1>4, <2>1
    <3>4. stage' \in Working => a <= cursor' /\ cursor' < n
      <4>1. stage' \in Working => a <= cursor
        BY <1>0, <1>5, <2>1 DEF Working
      <4> QED BY <1>1, <1>4, <1>5, <4>1
    <3> QED BY <1>4, <2>1, <3>1, <3>2, <3>3, <3>4 DEF JustPaid
  <2>2. CASE ~(i = j /\ kind = "executed")
    <3>1. Paid(i) # {}
      BY <1>10, <1>13, <2>2
    <3>2. JustPaid(i)
      BY <1>13, <3>1 DEF PaidOnce
    <3>3. PICK f, b \in 1..Height :
            /\ f < b /\ chain[f] = [kind |-> "proposed", of |-> i]
            /\ chain[b] = [kind |-> "executed", of |-> i]
            /\ \A c \in 1..Height : Ours(i, c) => c = b \/ c <= f
            /\ stage \in Working => f <= cursor /\ cursor < b
      BY <3>2 DEF JustPaid
    <3>4. HashOf(i) # HashOf(j)
      <4> SUFFICES ASSUME HashOf(i) = HashOf(j) PROVE FALSE
        OBVIOUS
      <4>1. Ours(i, b) /\ Ours(i, a)
        BY <1>2, <3>3 DEF Ours, Governor
      <4>2. b <= a /\ (a = b \/ a <= f)
        BY <1>7, <3>3, <4>1, <1>2
      <4>3. a = b
        BY <1>1, <1>2, <3>3, <4>2
      <4> QED BY <1>2, <3>3, <4>3
    <3>5. \A c \in 1..Height' : Ours(i, c)' => c = b \/ c <= f
      BY <1>1, <1>4, <1>6, <3>3, <3>4
    <3>6. /\ f \in 1..Height' /\ b \in 1..Height' /\ chain'[f] = chain[f] /\ chain'[b] = chain[b]
          /\ stage' \in Working => f <= cursor' /\ cursor' < b
      BY <1>1, <1>5, <3>3
    <3>7. ~InPool("reimbursement")'
      BY <1>5, <3>2 DEF JustPaid, InPool
    <3> QED BY <3>3, <3>5, <3>6, <3>7 DEF JustPaid
  <2> QED BY <2>1, <2>2
<1>14. stage' \in {"call", "output"} /\ call'.kind = "reimbursement" => ~Busy'
  BY <1>5, <1>8 DEF PaidOnce
<1>15. \A i \in Intents : Paid(i)' # {} /\ intent'[i].status = "open" => JustPaid(i)'
  BY <1>5, <1>13
<1> QED BY <1>11, <1>12, <1>14, <1>15 DEF PaidOnce

(* A proposal that is mined: nothing that was paid is open meanwhile.      *)
LEMMA ProposalKeepsPaid ==
  ASSUME Shape, PaidOnce, WorldTypes', Moves, NEW k \in DOMAIN txs,
         txs[k].kind = "reimbursement", txs[k].state = "pool", Made("proposed", txs[k].of)
  PROVE  PaidOnce'
<1>1. /\ WorldTypes /\ NodeTypes /\ Grows /\ Height \in Nat /\ Height' \in Nat /\ Height <= Height'
      /\ \A b \in 1..Height : b \in 1..Height' /\ chain'[b] = chain[b]
      /\ \A i \in Intents, b \in 1..Height : Ours(i, b)' <=> Ours(i, b)
      /\ cursor \in 0..Height /\ txs[k].of \in Intents
  <2>1. WorldTypes /\ NodeTypes /\ Grows
    BY DEF Shape, Moves
  <2>2. txs[k] \in Tx
    BY <2>1 DEF WorldTypes
  <2> QED BY <2>1, <2>2, OursStay DEF NodeTypes, Tx
<1>2. PICK n : n = Height'
  OBVIOUS
<1>3. PICK j \in Intents : j = txs[k].of
  BY <1>1
<1>4. /\ n = Height + 1 /\ chain'[n] = [kind |-> "proposed", of |-> j]
      /\ \A b \in 1..Height' : b \in 1..Height \/ b = n
  <2>1. "proposed" \in Governor \cup {"transfer"} /\ chain \in Seq(Event)
    BY <1>1 DEF Governor, WorldTypes
  <2> QED BY <1>1, <1>2, <1>3, <2>1, EventMade
<1>5. UNCHANGED <<intent, stage, call, cursor>>
  BY DEF Moves, durable, memory
<1>6. Busy' <=> Busy
  BY <1>1, <1>5, BusyStays
<1>7. \A i \in Intents : Paid(i) # {} => intent[i].status # "open" /\ i # j
  <2>1. InPool("reimbursement")
    BY DEF InPool
  <2>2. IsTx(k, "reimbursement", j)
    BY <1>3 DEF IsTx
  <2> QED BY <2>1, <2>2 DEF PaidOnce, JustPaid, NotAgain
<1>8. ASSUME NEW i \in Intents PROVE Paid(i)' = Paid(i)
  BY <1>1, <1>4 DEF Paid
<1>9. ASSUME NEW i \in Intents, Paid(i) # {} PROVE NotAgain(i)'
  <2>1. NotAgain(i) /\ i # j
    BY <1>7, <1>9 DEF PaidOnce
  <2>2. ASSUME NEW b \in 1..Height', chain'[b] = [kind |-> "proposed", of |-> i]
        PROVE  \E c \in 1..Height' : Ours(i, c)' /\ b < c
    <3>1. b \in 1..Height /\ chain[b] = [kind |-> "proposed", of |-> i]
      BY <1>1, <1>4, <2>1, <2>2
    <3>2. PICK c \in 1..Height : Ours(i, c) /\ b < c
      BY <2>1, <3>1 DEF NotAgain
    <3> QED BY <1>1, <3>2
  <2>3. \A l \in DOMAIN txs' : IsTx(l, "reimbursement", i)' => txs'[l].state # "pool"
    BY <1>1, <2>1 DEF NotAgain, IsTx, Moves, Grows
  <2>4. ~(stage' = "call" /\ call' = [kind |-> "reimbursement", of |-> i])
    BY <1>5, <2>1 DEF NotAgain
  <2> QED BY <2>2, <2>3, <2>4 DEF NotAgain
<1>10. \A i \in Intents : \A b, c \in Paid(i)' : b = c
  BY <1>8 DEF PaidOnce
<1>11. stage' \in {"call", "output"} /\ call'.kind = "reimbursement" => ~Busy'
  BY <1>5, <1>6 DEF PaidOnce
<1> QED BY <1>5, <1>7, <1>8, <1>9, <1>10, <1>11 DEF PaidOnce

(* Steps of the chain and of the exchange.                                 *)
LEMMA WorldKeepsPaid ==
  ASSUME Shape, PaidOnce, World
  PROVE  PaidOnce'
<1>1. /\ WorldTypes /\ NodeTypes /\ WorldTypes' /\ Moves /\ Grows /\ Height \in Nat
      /\ cursor \in 0..Height /\ cursor' = cursor
      /\ UNCHANGED <<intent, stage, call>>
  <2>1. WorldTypes /\ NodeTypes /\ WorldTypes' /\ Moves
    BY WorldKeepsShape DEF Shape
  <2>2. Grows /\ UNCHANGED <<intent, stage, call, cursor>>
    BY <2>1 DEF Moves, durable, memory
  <2> QED BY <2>1, <2>2 DEF WorldTypes, Height, NodeTypes
<1>2. Busy' <=> Busy
  BY <1>1, BusyStays
<1>3. ASSUME \A b \in 1..Height' : b > Height => chain'[b].kind \notin Governor PROVE PaidOnce'
  <2>1. \A k \in DOMAIN txs' : txs'[k].kind = "reimbursement" /\ txs'[k].state = "pool" =>
          k \in DOMAIN txs /\ txs[k].state = "pool"
    BY <1>1 DEF Moves
  <2>2. stage' \in {"call", "output"} /\ call'.kind = "reimbursement" => ~Busy'
    BY <1>1, <1>2 DEF PaidOnce
  <2>3. \A i \in Intents : Paid(i) # {} =>
          ~(stage' = "call" /\ call' = [kind |-> "reimbursement", of |-> i])
    BY <1>1 DEF PaidOnce, NotAgain
  <2> QED BY <1>1, <1>3, <2>1, <2>2, <2>3, QuietKeepsPaid
<1>4. ASSUME UNCHANGED chain PROVE PaidOnce'
  BY <1>1, <1>3, <1>4 DEF Height
<1>5. ASSUME NEW k \in DOMAIN orders, Fill(k) \/ Kill(k) PROVE PaidOnce'
  BY <1>4, <1>5 DEF Fill, Kill
<1>6. ASSUME NEW i \in Intents, Execute(i) PROVE PaidOnce'
  BY <1>1, <1>6, EndKeepsPaid DEF Execute, Outside
<1>7. ASSUME NEW i \in Intents, Dispute(i) PROVE PaidOnce'
  BY <1>1, <1>7, EndKeepsPaid DEF Dispute, Outside
<1>8. ASSUME NEW k \in DOMAIN txs, Mine(k) PROVE PaidOnce'
  <2>1. CASE UNCHANGED chain
    BY <1>4, <2>1
  <2>2. CASE txs[k].kind = "deposit" /\ Made("transfer", txs[k].of)
    <3>0. txs[k] \in Tx /\ chain \in Seq(Event)
      BY <1>1, <1>8 DEF WorldTypes
    <3>1. chain \in Seq(Event) /\ txs[k].of \in Intents /\ "transfer" \in Governor \cup {"transfer"}
      BY <3>0 DEF Tx
    <3>2. /\ Height' = Height + 1 /\ chain'[Height'] = [kind |-> "transfer", of |-> txs[k].of]
          /\ \A b \in 1..Height' : b \in 1..Height \/ b = Height'
      BY <2>2, <3>1, EventMade
    <3>3. \A b \in 1..Height' : b > Height => chain'[b].kind \notin Governor
      BY <1>1, <3>2 DEF Governor
    <3> QED BY <1>3, <3>3
  <2>3. CASE txs[k].kind = "reimbursement" /\ Made("proposed", txs[k].of)
    <3>1. txs[k].state = "pool"
      BY <1>8 DEF Mine
    <3> QED BY <1>1, <2>3, <3>1, ProposalKeepsPaid
  <2> QED BY <1>8, <2>1, <2>2, <2>3, MineMoves
<1> QED BY <1>5, <1>6, <1>7, <1>8 DEF World

(* The call of a tool: a proposal is sent only when nothing is live, and   *)
(* then nothing that was paid is open.                                     *)
LEMMA CallKeepsPaid ==
  ASSUME Shape, PaidOnce, Call
  PROVE  PaidOnce'
<1>1. /\ WorldTypes /\ NodeTypes /\ WorldTypes' /\ Grows /\ Height \in Nat
      /\ cursor \in 0..Height /\ stage = "call" /\ stage' \in {"idle", "output"}
      /\ stage' = "output" => call' = call
      /\ UNCHANGED <<intent, cursor>> /\ call \in ToolCall
  BY CallKeepsShape, CallDoes DEF Shape, WorldTypes, Height, NodeTypes, durable
<1>2. Busy' <=> Busy
  BY <1>1, BusyStays
<1>3. stage' \in {"call", "output"} /\ call'.kind = "reimbursement" => ~Busy'
  BY <1>1, <1>2 DEF PaidOnce
<1>4. chain' = chain
  BY CallDoes DEF Nothing, OrderPlaced, TxPassedOn, world
<1>5. call.kind = "reimbursement" =>
        /\ Paid(call.of) = {}
        /\ \A i \in Intents : Paid(i) = {} \/ intent'[i].status # "open"
  <2> SUFFICES ASSUME call.kind = "reimbursement"
               PROVE  /\ Paid(call.of) = {}
                      /\ \A i \in Intents : Paid(i) = {} \/ intent'[i].status # "open"
    OBVIOUS
  <2>1. ~Busy
    BY <1>1 DEF PaidOnce
  <2>2. \A i \in Intents : ~JustPaid(i)
    BY <1>1, <2>1, JustPaidIsBusy DEF Working
  <2>3. PICK i \in Intents : call = [kind |-> "reimbursement", of |-> i]
    BY <1>1 DEF ToolCall
  <2>4. ~NotAgain(i)
    BY <1>1, <2>3 DEF NotAgain
  <2>5. call.of = i
    BY <2>3
  <2> QED BY <1>1, <2>2, <2>4, <2>5 DEF PaidOnce
<1>6. \A k \in DOMAIN txs' : txs'[k].kind = "reimbursement" /\ txs'[k].state = "pool" =>
        \/ k \in DOMAIN txs /\ txs[k].state = "pool"
        \/ /\ Paid(txs'[k].of) = {}
           /\ \A i \in Intents : Paid(i) = {} \/ intent'[i].status # "open"
  <2>1. CASE txs' = txs
    BY <2>1
  <2>2. CASE call.kind \in {"deposit", "reimbursement"} /\ TxPassedOn
    <3>1. PICK kind : kind = call.kind
      OBVIOUS
    <3>2. PICK i \in Intents : i = call.of
      BY <1>1 DEF ToolCall
    <3>3. /\ txs'[Len(txs')] = [kind |-> kind, of |-> i, state |-> "pool"]
          /\ \A k \in DOMAIN txs : txs'[k] = txs[k]
          /\ \A k \in DOMAIN txs' : k \in DOMAIN txs \/ k = Len(txs')
      <4>1. /\ txs' = Append(txs, [kind |-> kind, of |-> i, state |-> "pool"])
            /\ UNCHANGED <<load, chain, orders>> /\ kind \in {"deposit", "reimbursement"}
        BY <1>1, <2>2, <3>1, <3>2 DEF TxPassedOn, Sends, Grows
      <4> QED BY <1>1, <4>1, TxSent
    <3> QED BY <1>5, <3>1, <3>2, <3>3
  <2> QED BY <2>1, <2>2, CallDoes DEF Nothing, OrderPlaced, world
<1>7. \A b \in 1..Height' : b > Height => chain'[b].kind \notin Governor
  BY <1>1, <1>4 DEF Height
<1> QED BY <1>1, <1>3, <1>6, <1>7, QuietKeepsPaid DEF Working

(* The other steps of the loop.                                            *)
LEMMA AloneKeepsPaid ==
  ASSUME Shape, PaidOnce, Alone
  PROVE  PaidOnce'
<1>1. /\ WorldTypes /\ NodeTypes /\ WorldTypes' /\ Grows /\ Height' = Height /\ Height \in Nat
      /\ cursor \in 0..Height /\ UNCHANGED <<chain, txs>> /\ load' = load
  BY AloneKeepsShape, AloneAdvances DEF Shape, WorldTypes, Height, NodeTypes, world
<1>2. ASSUME NEW i \in Intents, Paid(i) # {}, intent'[i].status = "open"
      PROVE  intent[i].status = "open" /\ JustPaid(i)
  <2>1. PICK records, readable : \E new \in New(readable) : Advances(records, new)
    BY AloneAdvances
  <2>2. PICK new \in New(readable) : Advances(records, new)
    BY <2>1
  <2>3. i \notin new
    BY <1>2, NewIsNone, PaidIsDeposited
  <2>4. Later(intent[i], intent'[i])
    BY <2>2, <2>3 DEF Advances, Kept
  <2> QED BY <1>2, <2>4 DEF Later, PaidOnce
<1>3. /\ \A b \in 1..Height' : b > Height => chain'[b].kind \notin Governor
      /\ \A k \in DOMAIN txs' : txs'[k].kind = "reimbursement" /\ txs'[k].state = "pool" =>
           k \in DOMAIN txs /\ txs[k].state = "pool"
  BY <1>1
<1>4. ASSUME stage' \notin Working PROVE PaidOnce'
  <2>1. stage' # "call" /\ stage' # "output"
    BY <1>4 DEF Working
  <2> QED BY <1>1, <1>2, <1>3, <1>4, <2>1, QuietKeepsPaid
<1>5. CASE Poll
  BY <1>4, <1>5 DEF Poll, Working
<1>6. CASE IngestThrows \/ RefreshThrows \/ Rest
  BY <1>4, <1>6 DEF IngestThrows, RefreshThrows, Rest, Working
<1>7. CASE Output \/ Crash
  BY <1>4, <1>7 DEF Output, Crash, Working
<1>8. CASE Refresh
  <2>1. /\ stage' = "choose" /\ stage = "refresh" /\ cursor' = cursor
    BY <1>8 DEF Refresh
  <2> QED BY <1>1, <1>2, <1>3, <2>1, QuietKeepsPaid DEF Working
(* After the log was read, what was paid is reimbursed.                    *)
<1>9. CASE Ingest
  <2>1. stage' = "refresh"
    BY <1>9 DEF Ingest
  <2>2. PICK records : \E readable \in BOOLEAN : \E new \in New(readable) :
           /\ Advances(records, new)
           /\ \A i \in Intents : records[i].status = "open" => Commitment(i, Height) # "executed"
    BY <1>9, IngestAdvances
  <2>3. PICK readable \in BOOLEAN : \E new \in New(readable) : Advances(records, new)
    BY <2>2
  <2>4. PICK new \in New(readable) : Advances(records, new)
    BY <2>3
  <2>5. ASSUME NEW i \in Intents, Paid(i) # {}, intent'[i].status = "open" PROVE FALSE
    <3>1. i \notin new
      BY <2>5, NewIsNone, PaidIsDeposited
    <3>2. records[i].status = "open"
      BY <2>4, <2>5, <3>1 DEF Advances
    <3>3. Commitment(i, Height) = "executed"
      <4>1. PICK a, b \in 1..Height :
              /\ a < b /\ chain[a] = [kind |-> "proposed", of |-> i]
              /\ chain[b] = [kind |-> "executed", of |-> i]
              /\ \A c \in 1..Height : Ours(i, c) => c = b \/ c <= a
        BY <1>2, <2>5 DEF JustPaid
      <4>2. PICK all : all = Events(HashOf(i), Height)
        OBVIOUS
      <4>3. PICK proposals : proposals = {c \in all : chain[c].kind = "proposed"}
        OBVIOUS
      <4>4. PICK ended : ended = all \ proposals
        OBVIOUS
      <4>5. /\ a \in proposals /\ b \in ended
            /\ \A c \in all : c \in 1..Height /\ (c = b \/ c <= a)
        BY <4>1, <4>2, <4>3, <4>4 DEF Events, Ours, Governor
      <4>6. Height \in 0..Height /\ proposals \in SUBSET Events(HashOf(i), Height)
            /\ ended \in SUBSET Events(HashOf(i), Height)
        BY <1>1, <4>2, <4>3, <4>4
      <4>7. Max(proposals) \in proposals /\ \A c \in proposals : c <= Max(proposals)
        BY <1>1, <4>5, <4>6, LatestEvent
      <4>8. Max(ended) \in ended /\ \A c \in ended : c <= Max(ended)
        BY <1>1, <4>5, <4>6, LatestEvent
      <4>9. Max(proposals) = a
        <5>1. PICK m : m = Max(proposals)
          OBVIOUS
        <5>2. m \in proposals /\ a <= m
          BY <4>5, <4>7, <5>1
        <5>3. m # b /\ m \in 1..Height /\ m <= a
          BY <4>1, <4>3, <4>5, <5>2
        <5> QED BY <1>1, <4>1, <5>1, <5>2, <5>3
      <4>10. Max(ended) = b
        <5>1. PICK m : m = Max(ended)
          OBVIOUS
        <5>2. m \in ended /\ b <= m
          BY <4>5, <4>8, <5>1
        <5>3. m \in 1..Height /\ (m = b \/ m <= a)
          BY <4>4, <4>5, <5>2
        <5> QED BY <1>1, <4>1, <5>1, <5>2, <5>3
      <4>11. proposals # {} /\ ended # {} /\ chain[Max(proposals)].of = i
             /\ chain[Max(ended)].kind = "executed"
        BY <4>1, <4>5, <4>9, <4>10
      <4> QED BY <4>2, <4>3, <4>4, <4>11 DEF Commitment
    <3> QED BY <2>2, <3>2, <3>3
  <2>6. \A i \in Intents : Paid(i) # {} => intent'[i].status # "open"
    BY <2>5
  <2> QED BY <1>1, <1>3, <2>1, <2>6, QuietKeepsPaid
(* An intent that was paid is not chosen: its proposal is known as live.   *)
<1>10. ASSUME NEW kind \in Kinds, NEW i \in Intents, Choose(kind, i) PROVE PaidOnce'
  <2>1. /\ stage = "choose" /\ stage' = "call" /\ cursor' = cursor
        /\ call' = [kind |-> kind, of |-> i] /\ Candidate(kind, i)
    BY <1>10 DEF Choose
  <2>2. Busy' <=> Busy
    BY <1>1, <2>1, BusyStays
  <2>3. kind = "reimbursement" => ~Busy /\ intent[i].status = "open"
    BY <2>1 DEF Candidate, Open, Is
  <2>4. kind = "reimbursement" => Paid(i) = {}
    <3> SUFFICES ASSUME kind = "reimbursement", Paid(i) # {} PROVE FALSE
      OBVIOUS
    <3>1. JustPaid(i)
      BY <2>3 DEF PaidOnce
    <3> QED BY <1>1, <2>1, <2>3, <3>1, JustPaidIsBusy DEF Working
  <2>5. /\ stage' \in {"call", "output"} /\ call'.kind = "reimbursement" => ~Busy'
        /\ \A j \in Intents : Paid(j) # {} =>
             ~(stage' = "call" /\ call' = [kind |-> "reimbursement", of |-> j])
    BY <2>1, <2>2, <2>3, <2>4
  <2>6. stage \in Working
    BY <2>1 DEF Working
  <2> QED BY <1>1, <1>2, <1>3, <2>1, <2>5, <2>6, QuietKeepsPaid
<1>11. CASE \E kind \in Kinds, i \in Intents : Choose(kind, i)
  BY <1>10, <1>11
<1> QED BY <1>5, <1>6, <1>7, <1>8, <1>9, <1>11 DEF Alone

(* No step has an intent paid again.                                       *)
LEMMA StepKeepsPaid ==
  ASSUME Shape, PaidOnce, [Next]_vars
  PROVE  PaidOnce'
<1>1. CASE World
  BY <1>1, WorldKeepsPaid
<1>2. CASE Call
  BY <1>2, CallKeepsPaid
<1>3. CASE Alone
  BY <1>3, AloneKeepsPaid
<1>4. CASE UNCHANGED vars
  <2>1. UNCHANGED <<load, chain, txs, intent, cursor, stage, call>>
    BY <1>4 DEF vars, world, durable, memory
  <2>2. /\ WorldTypes /\ NodeTypes /\ WorldTypes' /\ Grows /\ Height' = Height /\ Height \in Nat
        /\ cursor \in 0..Height
    BY <1>4, StutterKeepsShape DEF Shape, WorldTypes, Height, NodeTypes
  <2>3. Busy' <=> Busy
    BY <2>1, <2>2, BusyStays
  <2>4. /\ stage' \in {"call", "output"} /\ call'.kind = "reimbursement" => ~Busy'
        /\ \A i \in Intents : Paid(i) # {} =>
             ~(stage' = "call" /\ call' = [kind |-> "reimbursement", of |-> i])
    BY <2>1, <2>3 DEF PaidOnce, NotAgain
  <2> QED BY <2>1, <2>2, <2>4, QuietKeepsPaid
<1> QED BY <1>1, <1>2, <1>3, <1>4 DEF Next, Loop, Alone

(* A set whose elements are all equal has one at most.                     *)
LEMMA AtMostOne ==
  ASSUME NEW S, \A x, y \in S : x = y
  PROVE  Cardinality(S) <= 1
<1>1. CASE S = {}
  BY <1>1, FS_EmptySet
<1>2. CASE S # {}
  <2>1. PICK x \in S : S = {x}
    BY <1>2
  <2> QED BY <2>1, FS_Singleton
<1> QED BY <1>1, <1>2

(* One order, one transfer that may arrive and one reimbursement for an    *)
(* intent, whatever is lost, late, repeated or disputed in between; more   *)
(* than one order only after one that the exchange took was answered with  *)
(* an error.                                                               *)
THEOREM TraderOncePerIntent == Spec => []OncePerIntent
<1>1. Init => PaidOnce
  <2> SUFFICES ASSUME Init PROVE PaidOnce
    OBVIOUS
  <2>1. \A i \in Intents : Paid(i) = {}
    BY DEF Init, Paid, Height
  <2> QED BY <2>1 DEF Init, PaidOnce
<1>2. Shape /\ PaidOnce /\ [Next]_vars => PaidOnce'
  BY StepKeepsPaid
<1>3. Shape /\ PaidOnce => OncePerIntent
  <2> SUFFICES ASSUME Shape, PaidOnce, NEW i \in Intents
               PROVE  /\ Cardinality(OrdersOf(i)) <= 1 \/ Denied(i)
                      /\ Cardinality({k \in DOMAIN txs :
                           /\ txs[k].of = i /\ txs[k].kind = "deposit"
                           /\ txs[k].state # "reverted"}) <= 1
                      /\ Cardinality(Paid(i)) <= 1
    BY DEF OncePerIntent
  <2>1. Single(i) /\ \A k, l \in Pending(i) : k = l
    BY DEF Shape, Once
  <2>5. Cardinality(OrdersOf(i)) <= 1 \/ Denied(i)
    BY <2>1, AtMostOne DEF Single
  <2>2. Pending(i) = {k \in DOMAIN txs : /\ txs[k].of = i /\ txs[k].kind = "deposit"
                                         /\ txs[k].state # "reverted"}
    BY DEF Pending, IsTx
  <2>3. Cardinality(Pending(i)) <= 1
    BY <2>1, AtMostOne
  <2>4. Cardinality(Paid(i)) <= 1
    BY AtMostOne DEF PaidOnce
  <2> QED BY <2>2, <2>3, <2>4, <2>5
<1> QED BY <1>1, <1>2, <1>3, TraderShape, PTL DEF Spec
-----------------------------------------------------------------------------
(* The ledger: one intent's phase, seen from its record, the exchange and  *)
(* the chain.                                                              *)
Phase == [i \in Intents |-> PhaseOf(i)]

(* What a phase is made of, before and after a step.                       *)
LEMMA PhaseReads ==
  ASSUME NEW i \in Intents
  PROVE  /\ PhaseOf(i) = IF intent[i].status \in {"none", "released"} THEN intent[i].status
                         ELSE IF Paid(i) # {} THEN "paid" ELSE Progress(i)
         /\ PhaseOf(i)' = IF intent'[i].status \in {"none", "released"} THEN intent'[i].status
                          ELSE IF Paid(i)' # {} THEN "paid" ELSE Progress(i)'
BY DEF PhaseOf, Is, Progress

(* A phase is the same when what it is made of is.                         *)
LEMMA PhaseStays ==
  ASSUME NEW i \in Intents, intent'[i].status = intent[i].status, Progress(i)' = Progress(i),
         Paid(i)' = Paid(i)
  PROVE  PhaseOf(i)' = PhaseOf(i)
BY PhaseReads

(* An order that was filled is the one on record, or one of those in doubt.*)
LEMMA FilledProgress ==
  ASSUME WorldTypes, NEW i \in Intents, NEW r, Sound(i, r), Single(i), r.deposit = "deposited"
  PROVE  Progress(i) \in {"filled", "doubted"}
<1>1. r.order = "filled" /\ r.orderId \in OrdersOf(i) /\ orders[r.orderId].state = "filled"
  BY DEF Sound
<1> QED BY <1>1, ProgressOf

(* What phases say.                                                        *)
LEMMA PhaseIs ==
  ASSUME Shape, NEW i \in Intents
  PROVE  /\ PhaseOf(i) = Phase[i]
         /\ Is(i, "none") => PhaseOf(i) = "none" /\ Progress(i) = "accepted" /\ Paid(i) = {}
         /\ Is(i, "released") => /\ PhaseOf(i) = "released" /\ Paid(i) = {}
                                 /\ Progress(i) \in {"accepted", "failed", "doubted"}
         /\ Paid(i) # {} => Progress(i) \in {"filled", "doubted"} /\ PhaseOf(i) = "paid"
         /\ intent[i].status \notin {"none", "released"} /\ Paid(i) = {} => PhaseOf(i) = Progress(i)
         /\ Progress(i) \in {"accepted", "open", "filled", "failed", "doubted"}
<1>1. PhaseOf(i) = Phase[i]
  BY DEF Phase
<1>2. /\ Sound(i, intent[i]) /\ Single(i) /\ WorldTypes
      /\ Progress(i) \in {"accepted", "open", "filled", "failed", "doubted"}
  BY ProgressTypes DEF Shape, Records, Once
<1>3. Paid(i) # {} => Progress(i) \in {"filled", "doubted"}
                      /\ intent[i].status \notin {"none", "released"}
  <2> SUFFICES ASSUME Paid(i) # {}
               PROVE  Progress(i) \in {"filled", "doubted"}
                      /\ intent[i].status \notin {"none", "released"}
    OBVIOUS
  <2>1. intent[i].deposit = "deposited"
    BY PaidIsDeposited
  <2> QED BY <1>2, <2>1, FilledProgress DEF Sound, NoRecord
<1>4. Is(i, "none") => Progress(i) = "accepted"
  BY <1>2 DEF Is, Sound, NoRecord
<1>5. Is(i, "released") => Progress(i) \in {"accepted", "failed", "doubted"}
  BY <1>2 DEF Is, Sound
<1> QED BY <1>1, <1>2, <1>3, <1>4, <1>5, PhaseReads DEF Is

(* One phase changes when all others stay.                                 *)
LEMMA PhaseChanges ==
  ASSUME NEW i \in Intents, \A j \in Intents \ {i} : PhaseOf(j)' = PhaseOf(j)
  PROVE  Phase' = [Phase EXCEPT ![i] = PhaseOf(i)']
<1>1. \A j \in Intents : Phase'[j] = PhaseOf(j)' /\ Phase[j] = PhaseOf(j)
  BY DEF Phase
<1>2. Phase' = [j \in Intents |-> Phase'[j]] /\ Phase = [j \in Intents |-> Phase[j]]
  BY DEF Phase
<1> QED BY <1>1, <1>2

(* What the ledger counts as committed is what the trader reserves.        *)
LEMMA CommittedIsHolding ==
  ASSUME Shape
  PROVE  /\ Credit!Committed = Holding
         /\ \A S : Credit!Total(S) = Total(load.spend, S)
<1>1. \A S : Credit!Total(S) = Total(load.spend, S)
  BY DEF Credit!Total, Credit!MapThenSumSet, Credit!MapThenFoldSet,
         Total, MapThenSumSet, MapThenFoldSet
<1>2. ASSUME NEW i \in Intents
      PROVE  PhaseOf(i) \notin {"none", "released"} <=> intent[i].status \notin {"none", "released"}
  BY PhaseIs DEF Is
<1> QED BY <1>1, <1>2 DEF Credit!Committed, Holding

(* One intent takes a step of the ledger, or none does.                    *)
LEMMA Moved ==
  ASSUME Shape, NEW i \in Intents, \A j \in Intents \ {i} : PhaseOf(j)' = PhaseOf(j)
  PROVE  Credit!Move(i, PhaseOf(i), PhaseOf(i)')
<1>1. Phase' = [Phase EXCEPT ![i] = PhaseOf(i)'] /\ Phase[i] = PhaseOf(i)
  BY PhaseChanges, PhaseIs
<1> QED BY <1>1 DEF Credit!Move, Phase

(* A step in which no phase changes leaves the ledger alone.               *)
LEMMA NoneMoved ==
  ASSUME \A j \in Intents : PhaseOf(j)' = PhaseOf(j)
  PROVE  Phase' = Phase
BY DEF Phase

(* What was paid is what the chain says was executed.                      *)
LEMMA PaidStays ==
  ASSUME WorldTypes, WorldTypes', Grows, NEW i \in Intents,
         \A b \in 1..Height' : b > Height => chain'[b].kind # "executed" \/ chain'[b].of # i
  PROVE  Paid(i)' = Paid(i)
<1>1. /\ Height \in Nat /\ Height' \in Nat /\ Height <= Height'
      /\ \A b \in 1..Height : b \in 1..Height' /\ chain'[b] = chain[b]
  BY OursStay
<1>2. \A b : b \in Paid(i)' <=> b \in 1..Height' /\ chain'[b].kind = "executed" /\ chain'[b].of = i
  BY DEF Paid
<1>3. \A b : b \in Paid(i) <=> b \in 1..Height /\ chain[b].kind = "executed" /\ chain[b].of = i
  BY DEF Paid
<1>4. \A b \in 1..Height' : b \in 1..Height \/ b > Height
  BY <1>1
<1>5. \A b : b \in Paid(i)' <=> b \in Paid(i)
  BY <1>1, <1>2, <1>3, <1>4
<1> QED BY <1>5

(* An event of another kind pays for nothing.                              *)
LEMMA UnpaidBy ==
  ASSUME WorldTypes, WorldTypes', Grows, NEW kind \in {"transfer", "proposed", "deleted"}, NEW i \in Intents,
         Made(kind, i) \/ UNCHANGED chain
  PROVE  \A j \in Intents : Paid(j)' = Paid(j)
<1>1. \A b \in 1..Height' : b > Height => chain'[b].kind # "executed"
  <2>1. CASE Made(kind, i)
    <3>1. kind \in Governor \cup {"transfer"} /\ kind # "executed"
      BY DEF Governor
    <3>2. /\ chain'[Height'] = [kind |-> kind, of |-> i] /\ Height \in Nat
          /\ \A b \in 1..Height' : b \in 1..Height \/ b = Height'
      BY <2>1, <3>1, EventMade DEF WorldTypes
    <3> QED BY <3>1, <3>2
  <2>2. CASE UNCHANGED chain
    BY <2>2 DEF Height, WorldTypes
  <2> QED BY <2>1, <2>2
<1> QED BY <1>1, PaidStays

(* The exchange answers an order; the Governor pays.                       *)
LEMMA WorldKeepsLedger ==
  ASSUME Shape, World
  PROVE  Credit!Next \/ UNCHANGED <<load, Phase>>
<1>1. Shape' /\ WorldTypes /\ WorldTypes' /\ Moves /\ Grows /\ load' = load
      /\ intent' = intent
  BY WorldKeepsShape DEF Shape, Moves, Grows, durable
<1>2. ASSUME NEW k \in DOMAIN orders, Fill(k) \/ Kill(k)
      PROVE  Credit!Next \/ UNCHANGED <<load, Phase>>
  <2>0. PICK i \in Intents : i = orders[k].of
    BY <1>1, <1>2, OrderSettled
  <2>1. /\ UNCHANGED chain /\ DOMAIN orders' = DOMAIN orders
        /\ orders[k].state = "open" /\ orders'[k].state \in {"filled", "failed"}
        /\ \A l \in DOMAIN orders : l # k => orders'[l] = orders[l]
        /\ \A l \in DOMAIN orders : /\ orders'[l].of = orders[l].of
                                    /\ orders'[l].denied = orders[l].denied
    BY <1>1, <1>2, OrderSettled
  <2>2. \A j \in Intents : Paid(j)' = Paid(j)
    BY <1>1, <2>0, <2>1, UnpaidBy
  <2>3. ASSUME NEW j \in Intents \ {i} PROVE PhaseOf(j)' = PhaseOf(j)
    <3>1. Single(j)
      BY DEF Shape, Once
    <3>2. OrdersOf(j)' = OrdersOf(j) /\ Denied(j)' = Denied(j) /\ Single(j)'
      BY <1>1, <3>1, ProgressMoves
    <3>3. \A l \in OrdersOf(j) : orders'[l] = orders[l]
      BY <2>0, <2>1 DEF OrdersOf
    <3>4. Progress(j)' = Progress(j)
      BY <1>1, <3>1, <3>2, <3>3, OneProgress
    <3> QED BY <1>1, <2>2, <3>4, PhaseStays
  <2>4. CASE Denied(i)
    <3>1. Denied(i)' /\ OrdersOf(i)' = OrdersOf(i)
      BY <1>1, <2>4, ProgressMoves DEF Shape, Once
    <3>2. Progress(i)' = Progress(i)
      BY <2>4, <3>1 DEF Progress
    <3>3. PhaseOf(i)' = PhaseOf(i)
      BY <1>1, <2>2, <3>2, PhaseStays
    <3> QED BY <1>1, <2>3, <3>3, NoneMoved
  <2>5. CASE ~Denied(i)
    <3>1. Single(i) /\ k \in OrdersOf(i)
      BY <1>2, <2>0 DEF Shape, Once, OrdersOf
    <3>2. Single(i)' /\ k \in OrdersOf(i)' /\ ~Denied(i)'
      BY <1>1, <2>5, <3>1, ProgressMoves
    <3>3. Progress(i) = "open"
      BY <1>1, <2>1, <2>5, <3>1, ProgressOf
    <3>4. OrdersOf(i)' = {k} /\ k \in Int
      BY <1>1, <3>1, <3>2 DEF Single, OrdersOf, WorldTypes
    <3>5. Max({k}) = k
      BY <3>4, MaxOfOne
    <3>6. Progress(i)' \in {"filled", "failed"}
      BY <2>1, <3>2, <3>4, <3>5 DEF Progress
    <3>7. Paid(i) = {} /\ ~Is(i, "none") /\ ~Is(i, "released")
      BY <3>3, PhaseIs
    <3>8. PhaseOf(i) = "open" /\ PhaseOf(i)' \in {"filled", "failed"}
      BY <1>1, <2>2, <3>3, <3>6, <3>7, PhaseReads DEF Is
    <3>9. Credit!Move(i, "open", "filled") \/ Credit!Move(i, "open", "failed")
      BY <2>3, <3>8, Moved
    <3> QED BY <1>1, <3>9 DEF Credit!Next, Credit!Answer
  <2> QED BY <2>4, <2>5
<1>3. ASSUME NEW i \in Intents, Execute(i) PROVE Credit!Next \/ UNCHANGED <<load, Phase>>
  <2>1. Made("executed", i) /\ orders' = orders
    BY <1>3 DEF Execute, Outside
  <2>2. /\ chain'[Height'] = [kind |-> "executed", of |-> i] /\ Height \in Nat
        /\ Height' = Height + 1
        /\ \A b \in 1..Height' : b \in 1..Height \/ b = Height'
    BY <1>1, <2>1, EventMade DEF WorldTypes, Governor
  <2>3. ASSUME NEW j \in Intents \ {i} PROVE PhaseOf(j)' = PhaseOf(j)
    <3>1. Paid(j)' = Paid(j)
      BY <1>1, <2>2, PaidStays
    <3> QED BY <1>1, <2>1, <3>1, SameProgress, PhaseStays
  <2>4. Progress(i) \in {"filled", "doubted"} /\ intent[i].status \notin {"none", "released"}
    <3>1. \E a \in 1..Height : chain[a] = [kind |-> "proposed", of |-> i]
      BY <1>1, <1>3, LiveIsLatest DEF Execute
    <3>2. intent[i].deposit = "deposited" /\ Sound(i, intent[i])
      BY <3>1 DEF Shape, Records, Sound, Governor
    <3> QED BY <1>1, <3>2, FilledProgress DEF Sound, NoRecord, Shape, Once
  <2>5. PhaseOf(i) \in {"filled", "doubted", "paid"} /\ PhaseOf(i)' = "paid"
    <3>1. Paid(i)' # {}
      BY <2>2 DEF Paid
    <3> QED BY <1>1, <2>4, <3>1, PhaseReads
  <2>6. Credit!Move(i, PhaseOf(i), PhaseOf(i)')
    BY <2>3, Moved
  <2>7. CASE PhaseOf(i) \in {"filled", "doubted"}
    BY <1>1, <2>5, <2>6, <2>7 DEF Credit!Next, Credit!Pay
  <2>8. CASE PhaseOf(i) = "paid"
    BY <1>1, <2>3, <2>5, <2>8, NoneMoved
  <2> QED BY <2>5, <2>7, <2>8
<1>4. ASSUME NEW i \in Intents, Dispute(i) PROVE UNCHANGED <<load, Phase>>
  <2>1. Made("deleted", i) /\ orders' = orders
    BY <1>4 DEF Dispute, Outside
  <2>2. \A j \in Intents : Paid(j)' = Paid(j)
    BY <1>1, <2>1, UnpaidBy
  <2>3. \A j \in Intents : PhaseOf(j)' = PhaseOf(j)
    BY <1>1, <2>1, <2>2, SameProgress, PhaseStays
  <2> QED BY <1>1, <2>3, NoneMoved
<1>5. ASSUME NEW k \in DOMAIN txs, Mine(k) PROVE UNCHANGED <<load, Phase>>
  <2>1. orders' = orders
    BY <1>5 DEF Mine
  <2>2. txs[k].of \in Intents
    <3>1. txs[k] \in Tx
      BY <1>1 DEF WorldTypes
    <3> QED BY <3>1 DEF Tx
  <2>3. \E kind \in {"transfer", "proposed", "deleted"} : Made(kind, txs[k].of) \/ UNCHANGED chain
    BY <1>5, MineMoves
  <2>4. \A j \in Intents : Paid(j)' = Paid(j)
    BY <1>1, <2>2, <2>3, UnpaidBy
  <2>5. \A j \in Intents : PhaseOf(j)' = PhaseOf(j)
    BY <1>1, <2>1, <2>4, SameProgress, PhaseStays
  <2> QED BY <1>1, <2>5, NoneMoved
<1> QED BY <1>2, <1>3, <1>4, <1>5 DEF World

(* A tool call places an order, or leaves the ledger alone.                *)
LEMMA CallKeepsLedger ==
  ASSUME Shape, Call
  PROVE  Credit!Next \/ UNCHANGED <<load, Phase>>
<1>1. /\ Shape' /\ WorldTypes /\ WorldTypes' /\ Grows /\ load' = load /\ intent' = intent
  BY CallKeepsShape, CallDoes DEF Shape, durable
<1>2. PICK i \in Intents : i = call.of
  BY CallDoes DEF ToolCall
<1>3. chain' = chain /\ \A j \in Intents : Paid(j)' = Paid(j)
  <2>1. chain' = chain
    BY CallDoes DEF Nothing, OrderPlaced, TxPassedOn, world
  <2> QED BY <1>1, <1>2, <2>1, UnpaidBy
<1>4. CASE orders' = orders
  <2>1. \A j \in Intents : PhaseOf(j)' = PhaseOf(j)
    BY <1>1, <1>3, <1>4, SameProgress, PhaseStays
  <2> QED BY <1>1, <2>1, NoneMoved
<1>5. CASE call.kind = "order" /\ OrderPlaced
  <2>1. /\ intent[i].status = "open" /\ intent[i].order = "dispatched"
        /\ Progress(i) \in {"accepted", "doubted"} /\ Single(i) /\ stage = "call"
    BY <1>2, <1>5, CallDoes DEF Shape, Calls, Marked, Undone, Once
  <2>2. PICK b \in BOOLEAN : b <=> answer' = "retry"
    OBVIOUS
  <2>3. /\ UNCHANGED <<chain, txs, load>>
        /\ orders' = Append(orders, [of |-> i, state |-> "open", denied |-> b])
    <3>1. (answer' = "retry") = b
      BY <2>2, Zenon
    <3> QED BY <1>1, <1>2, <1>5, <3>1 DEF OrderPlaced
  <2>4. /\ Progress(i)' = IF b \/ Progress(i) = "doubted" THEN "doubted" ELSE "open"
        /\ \A j \in Intents \ {i} : Progress(j)' = Progress(j)
    BY <1>1, <2>1, <2>3, OrderTaken DEF Shape, Once
  <2>5. \A j \in Intents \ {i} : PhaseOf(j)' = PhaseOf(j)
    BY <1>1, <1>3, <2>4, PhaseStays
  <2>6. Paid(i) # {} => intent[i].deposit = "deposited"
    BY PaidIsDeposited
  <2>7. Paid(i) = {}
    BY <2>1, <2>6 DEF Shape, Records, Sound
  <2>8. PhaseOf(i) = Progress(i) /\ PhaseOf(i)' = Progress(i)'
    BY <1>1, <1>3, <2>1, <2>7, PhaseReads
  <2>9. Credit!Move(i, PhaseOf(i), PhaseOf(i)')
    BY <2>5, Moved
  <2>10. CASE Progress(i) = "accepted"
    BY <1>1, <2>4, <2>8, <2>9, <2>10 DEF Credit!Next, Credit!Order, Credit!Doubt
  <2>11. CASE Progress(i) = "doubted"
    BY <1>1, <2>4, <2>5, <2>8, <2>11, NoneMoved
  <2> QED BY <2>1, <2>10, <2>11
<1> QED BY <1>4, <1>5, CallDoes DEF Nothing, TxPassedOn, world

(* Accepting an intent commits what it spends, which fits; releasing some  *)
(* takes nothing from the market; the rest of the loop and a crash leave   *)
(* the ledger alone.                                                       *)
LEMMA AloneKeepsLedger ==
  ASSUME Shape, Covered, Alone
  PROVE  Credit!Next \/ UNCHANGED <<load, Phase>>
<1>1. PICK records, readable : \E new \in New(readable) :
        Advances(records, new) /\ (new = {} \/ \A i \in Intents : Holds(i, intent[i], records[i]))
  BY AloneAdvances
<1>2. PICK new \in New(readable) :
        Advances(records, new) /\ (new = {} \/ \A i \in Intents : Holds(i, intent[i], records[i]))
  BY <1>1
<1>3. /\ load' = load /\ UNCHANGED <<chain, txs, orders>> /\ WorldTypes /\ WorldTypes' /\ Grows
      /\ Shape'
  BY AloneAdvances, AloneKeepsShape DEF Shape, world
<1>4. \A i \in Intents : Progress(i)' = Progress(i) /\ Paid(i)' = Paid(i)
  <2>1. \A i \in Intents : Paid(i)' = Paid(i)
    BY <1>3 DEF Paid, Height
  <2> QED BY <1>3, <2>1, SameProgress
<1>5. ASSUME NEW i \in Intents, i \notin new, intent'[i].status # "released" \/ intent[i].status = "released"
      PROVE  PhaseOf(i)' = PhaseOf(i)
  <2>1. Later(intent[i], intent'[i])
    BY <1>2, <1>5 DEF Advances, Kept
  <2> QED BY <1>4, <1>5, <2>1, PhaseReads DEF Later
<1>6. CASE new = {}
  <2>1. PICK S : S = {i \in Intents : intent'[i].status = "released" /\ intent[i].status # "released"}
    OBVIOUS
  <2>2. ASSUME NEW i \in S
        PROVE  i \in Intents /\ PhaseOf(i) \in {"accepted", "failed", "doubted"} /\ PhaseOf(i)' = "released"
    <3>1. i \in Intents /\ intent'[i].status = "released" /\ intent[i].status # "released"
          /\ Kept(i, intent[i], intent'[i])
      BY <1>2, <1>6, <2>1, <2>2 DEF Advances
    <3>2. Progress(i) \in {"accepted", "failed", "doubted"} /\ intent[i].status # "none"
          /\ intent'[i].deposit # "deposited" /\ Later(intent[i], intent'[i])
      BY <3>1 DEF Kept, Later, Sound
    <3>3. Paid(i) = {}
      <4>1. \A b \in 1..Height : chain[b].kind \in Governor /\ chain[b].of = i =>
              intent'[i].deposit = "deposited"
        BY <3>1 DEF Kept, Sound
      <4> QED BY <3>2, <4>1 DEF Paid, Governor
    <3> QED BY <3>1, <3>2, <3>3, PhaseReads
  <2>3. \A i \in Intents \ S : PhaseOf(i)' = PhaseOf(i)
    BY <1>5, <1>6, <2>1
  <2>4. Credit!Release(S)
    <3>1. /\ \A i \in S : Phase[i] \in {"accepted", "failed", "doubted"}
          /\ Phase' = [i \in Intents |-> IF i \in S THEN "released" ELSE Phase[i]]
      BY <2>2, <2>3, PhaseIs DEF Phase
    <3> QED BY <3>1 DEF Credit!Release, Phase
  <2>5. S \in SUBSET Intents
    BY <2>1
  <2> QED BY <1>3, <2>4, <2>5 DEF Credit!Next
<1>7. ASSUME NEW i, new = {i} PROVE Credit!Next
  <2>1. i \in Intents /\ Acceptable(i, readable) /\ intent[i] = NoRecord
    BY <1>7, NewIsNone
  <2>2. intent'[i] = Accepted
    BY <1>2, <1>7, <2>1 DEF Advances
  <2>3. PhaseOf(i) = "none" /\ PhaseOf(i)' = "accepted"
    <3>1. intent[i].status = "none" /\ intent'[i].status = "open"
      BY <2>1, <2>2 DEF NoRecord, Accepted
    <3>2. Progress(i) = "accepted" /\ Paid(i) = {}
      BY <2>1, <3>1, PhaseIs DEF Is
    <3> QED BY <1>4, <2>1, <3>1, <3>2, PhaseReads
  <2>4. \A j \in Intents \ {i} : PhaseOf(j)' = PhaseOf(j)
    <3> SUFFICES ASSUME NEW j \in Intents \ {i} PROVE PhaseOf(j)' = PhaseOf(j)
      OBVIOUS
    <3>1. intent'[j] = records[j] /\ Holds(j, intent[j], records[j])
      BY <1>2, <1>7 DEF Advances
    <3> QED BY <1>5, <1>7, <3>1 DEF Holds
  <2>5. Credit!Move(i, "none", "accepted")
    BY <2>1, <2>3, <2>4, Moved
  <2>6. Credit!Total(Credit!Committed \cup {i}) <= load.credit
    <3>1. PICK w : w = load.spend
      OBVIOUS
    <3>2. PICK U : U = Holding \cup {i}
      OBVIOUS
    <3>3. /\ Reserved = Total(w, Holding) /\ load.credit \in Nat /\ IsFiniteSet(Intents)
          /\ \A j \in Intents : w[j] \in Nat
          /\ \A S \in SUBSET Intents : Total(w, S) \in Nat
      BY <3>1, HoldingIsReserved
    <3>4. U \subseteq Intents /\ i \in U /\ U \ {i} = Holding /\ IsFiniteSet(U)
      BY <2>1, <3>2, <3>3, FS_Subset DEF Holding, NoRecord
    <3>5. Total(w, U) = w[i] + Total(w, Holding)
      BY <3>3, <3>4, TotalRemove
    <3>6. w[i] <= load.credit - Total(w, Holding)
      BY <2>1, <3>1, <3>3 DEF Acceptable, Available
    <3>7. w[i] \in Nat /\ Total(w, Holding) \in Nat /\ Total(w, U) \in Nat
      BY <2>1, <3>3, <3>4
    <3>8. Total(w, U) <= load.credit
      BY ONLY <3>3, <3>5, <3>6, <3>7
    <3> QED BY <3>1, <3>2, <3>8, CommittedIsHolding
  <2> QED BY <1>3, <2>1, <2>5, <2>6 DEF Credit!Next, Credit!Accept
<1>8. new = {} \/ \E i : new = {i}
  BY DEF New
<1> QED BY <1>6, <1>7, <1>8

(* Every step is one of the ledger, or leaves it alone.                    *)
LEMMA StepKeepsLedger ==
  ASSUME Shape, Covered, [Next]_vars
  PROVE  Credit!Next \/ UNCHANGED <<load, Phase>>
<1>1. CASE World
  BY <1>1, WorldKeepsLedger
<1>2. CASE Call
  BY <1>2, CallKeepsLedger
<1>3. CASE Alone
  BY <1>3, AloneKeepsLedger
<1>4. CASE UNCHANGED vars
  <2>1. UNCHANGED <<load, intent, orders, chain>>
    BY <1>4 DEF vars, world, durable
  <2>2. \A i \in Intents : PhaseOf(i)' = PhaseOf(i)
    <3>1. \A i \in Intents : Paid(i)' = Paid(i)
      BY <2>1 DEF Paid, Height
    <3> QED BY <2>1, <3>1, SameProgress, PhaseStays
  <2> QED BY <2>1, <2>2, NoneMoved
<1> QED BY <1>1, <1>2, <1>3, <1>4 DEF Next, Loop, Alone

(* The trader keeps the ledger of its signer, for every number of intents  *)
(* and any credit: an intent is taken when it fits the credit, traded and  *)
(* paid once and in this order, and released only when nothing was spent   *)
(* for it or an order of it was denied, over failures, crashes and         *)
(* disputes.                                                               *)
THEOREM TraderKeepsLedger == Spec => CreditSpec
<1>1. Init => Credit!Init
  <2> SUFFICES ASSUME Init PROVE Credit!Init
    OBVIOUS
  <2>1. \A i \in Intents : PhaseOf(i) = "none"
    <3> SUFFICES ASSUME NEW i \in Intents PROVE PhaseOf(i) = "none"
      OBVIOUS
    <3>1. intent[i].status = "none"
      BY DEF Init, NoRecord
    <3> QED BY <3>1, PhaseReads
  <2> QED BY <2>1 DEF Credit!Init
<1>2. Shape /\ Covered /\ [Next]_vars => [Credit!Next]_<<load, Phase>>
  BY StepKeepsLedger
<1> QED BY <1>1, <1>2, TraderShape, TraderCovered, PTL DEF Spec, CreditSpec, Credit!Spec, Phase
=============================================================================
