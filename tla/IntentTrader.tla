---------------------------- MODULE IntentTrader ----------------------------
(***************************************************************************)
(* The Polymarket intent trader (agent.js, planner.js,                     *)
(* lifecycle-reducers.js, lifecycle-stage.js, credit-ledger.js,            *)
(* history-backfill.js, polymarket-reconciliation.js): it takes signed     *)
(* intents against the signer's credit, places an order for each, deposits *)
(* the tokens bought into the Safe and proposes the reimbursement.  A pass *)
(* of the agent's loop polls the Governor, takes in what happened          *)
(* (Ingest), refreshes what is under way (Refresh), chooses at most one    *)
(* action and marks it as dispatched (Choose), runs the tool (Call) and    *)
(* records its answer (Output).  Each of them ends with the state saved,   *)
(* so a crash loses the loop's own variables only.                         *)
(*                                                                         *)
(* All intents are those of one signer for one token and are filled for    *)
(* what was reserved.  Two proposals that transfer the same amount have    *)
(* the same hash: the amount stands for it, as it does for the number of   *)
(* tokens.  A block holds one event.  Time is left out: a timeout or a     *)
(* backoff may be over at any pass, and any candidate of the planner may   *)
(* be passed over (a backoff, tokens that have not arrived, a balance or a *)
(* fee that cannot be read).                                               *)
(***************************************************************************)
EXTENDS Integers, FiniteSets, Sequences, SequencesExt

CONSTANTS
  Intents,    \* numbered in the order they are accepted
  None,       \* undefined
  MaxTxs,     \* bound on the transactions of a behaviour
  Workloads   \* what a behaviour has: the spend of each intent, the credit
              \* of the signer, and bounds on failing calls, crashes and
              \* disputed proposals

ASSUME TraderAssumption ==
  /\ Intents \subseteq Nat \ {0} /\ IsFiniteSet(Intents)
  /\ Workloads \subseteq [spend : [Intents -> Nat \ {0}], credit : Nat,
                          failures : Nat, crashes : Nat, disputes : Nat]
  /\ None \notin Intents /\ MaxTxs \in Nat

OrderStages == {"idle", "dispatched", "lost", "unsure", "placed", "filled"}
DepositStages == {"idle", "dispatched", "unsure", "submitted", "deposited"}
ReimbursementStages == {"idle", "dispatched", "unsure", "submitted", "late", "proposed"}
Record(o, n, m) ==
  [status : {"none", "open", "closed", "released", "reimbursed"}, cid : BOOLEAN,
   order : OrderStages, orderId : 0..o, orderAt : 0..n,
   deposit : DepositStages, from : 0..n, depositTx : 0..m,
   reimbursement : ReimbursementStages, reimbursementTx : 0..m]
NoRecord ==
  [status |-> "none", cid |-> FALSE, order |-> "idle", orderId |-> 0, orderAt |-> 0,
   deposit |-> "idle", from |-> 0, depositTx |-> 0, reimbursement |-> "idle", reimbursementTx |-> 0]
Kinds == {"archive", "order", "deposit", "reimbursement"}
ASSUME NoneApart ==
  None \notin [kind : Kinds, of : Intents]
                \cup {"proposed", "executed", "deleted", "pool", "mined", "reverted"}

VARIABLES
  load,      \* the workload of the behaviour
  chain,     \* token transfers into the Safe and events of the Governor
  txs,       \* transactions of the agent: kind, intent, state
  orders,    \* orders the exchange took: intent, state, whether the agent
             \* was told that there is none
  intent,    \* tradeIntentState.intents
  waiting,   \* pendingExecutedProposalHashes, pendingDeletedProposalHashes
  scanned,   \* backfilledReimbursementCommitmentsThroughBlock
  cursor,    \* lastProposalCheckedBlock of the loop
  queue,     \* queuedProposalEventUpdates
  fresh,     \* proposal signals of the pass
  stage,     \* step of the pass
  call,      \* the tool call of the pass
  answer,    \* its outcome
  failures, crashes, disputes

world == <<chain, txs, orders>>
durable == <<intent, waiting, scanned>>
memory == <<cursor, queue, fresh, stage, call, answer>>
counters == <<failures, crashes, disputes>>
vars == <<load, world, durable, memory, counters>>

Fails == failures < load.failures /\ failures' = failures + 1
FailsIf(b) == IF b THEN Fails ELSE UNCHANGED failures

-----------------------------------------------------------------------------
(* The chain and the exchange.                                             *)
Height == Len(chain)
HashOf(i) == load.spend[i]
Spend(S) == MapThenSumSet(LAMBDA i : load.spend[i], S)
Governor == {"proposed", "executed", "deleted"}
Events(h, upto) == {b \in 1..upto : chain[b].kind \in Governor /\ HashOf(chain[b].of) = h}
LiveAt(h, upto) == Events(h, upto) # {} /\ chain[Max(Events(h, upto))].kind = "proposed"
Live(h) == LiveAt(h, Height)
Paid(i) == {b \in 1..Height : chain[b].kind = "executed" /\ chain[b].of = i}
Balance == load.credit - Spend({i \in Intents : Paid(i) # {}})
Made(kind, i) == chain' = Append(chain, [kind |-> kind, of |-> i])
Outside == UNCHANGED <<load, durable, memory, crashes>>

Fill(k) ==
  /\ orders[k].state = "open"
  /\ orders' = [orders EXCEPT ![k].state = "filled"]
  /\ Outside /\ UNCHANGED <<chain, txs, failures, disputes>>
Kill(k) ==
  /\ orders[k].state = "open" /\ Fails
  /\ orders' = [orders EXCEPT ![k].state = "failed"]
  /\ Outside /\ UNCHANGED <<chain, txs, disputes>>
(* The Governor refuses a proposal whose hash is live.                     *)
Mine(k) ==
  /\ txs[k].state = "pool"
  /\ \E fine \in BOOLEAN :
       /\ FailsIf(~fine /\ txs[k].kind = "deposit")
       /\ txs[k].kind = "reimbursement" => fine = ~Live(HashOf(txs[k].of))
       /\ txs' = [txs EXCEPT ![k].state = IF fine THEN "mined" ELSE "reverted"]
       /\ IF fine THEN Made(IF txs[k].kind = "deposit" THEN "transfer" ELSE "proposed", txs[k].of)
          ELSE UNCHANGED chain
  /\ Outside /\ UNCHANGED <<orders, disputes>>
(* A challenge window is longer than a transaction stays in the pool, and  *)
(* than a pass: what is proposed during one is not executed before its end.*)
InPool(kind) == \E k \in DOMAIN txs : txs[k].kind = kind /\ txs[k].state = "pool"
Execute(i) ==
  /\ Live(HashOf(i)) /\ chain[Max(Events(HashOf(i), Height))].of = i
  /\ ~InPool("reimbursement")
  /\ stage = "idle" \/ Max(Events(HashOf(i), Height)) <= cursor
  /\ Made("executed", i)
  /\ Outside /\ UNCHANGED <<txs, orders, failures, disputes>>
Dispute(i) ==
  /\ disputes < load.disputes /\ disputes' = disputes + 1
  /\ Live(HashOf(i)) /\ chain[Max(Events(HashOf(i), Height))].of = i
  /\ Made("deleted", i)
  /\ Outside /\ UNCHANGED <<txs, orders, failures>>

-----------------------------------------------------------------------------
(* The credit ledger.                                                      *)
Is(i, status) == intent[i].status = status
Open == {i \in Intents : Is(i, "open")}
Tracked == {i \in Intents : ~Is(i, "none")}
Reserved == Spend({i \in Tracked : ~Is(i, "released")})
Except(total, i) == IF total > load.spend[i] THEN total - load.spend[i] ELSE 0
Available == load.credit - Reserved
OrderHeadroom(i) ==
  LET others == Except(Reserved, i) IN IF Balance > others THEN Balance - others ELSE 0
ReimbursementHeadroom(i) == Min({OrderHeadroom(i), load.credit - Except(Reserved, i)})

-----------------------------------------------------------------------------
(* Poll and Ingest.                                                        *)

Hashes(kind, from, upto) == {HashOf(chain[b].of) : b \in {c \in from + 1..upto : chain[c].kind = kind}}
Poll ==
  /\ stage = "idle"
  /\ LET update == [executed |-> Hashes("executed", cursor, Height),
                    deleted |-> Hashes("deleted", cursor, Height)] IN
     queue' = IF update.executed \cup update.deleted = {} THEN queue ELSE Append(queue, update)
  /\ fresh' = {b \in cursor + 1..Height : /\ chain[b].kind = "proposed"
                                          /\ b = Max(Events(HashOf(chain[b].of), Height))}
  /\ cursor' = Height /\ stage' = "ingest"
  /\ UNCHANGED <<load, world, durable, call, answer, counters>>

(* A dispatch without an answer whose grace is over is never tried again.  *)
(* Mutant: it is.                                                          *)
TimedOutRetried(r) ==
  [r EXCEPT !.order = IF @ = "dispatched" THEN "idle" ELSE @,
            !.deposit = IF @ = "dispatched" THEN "idle" ELSE @]
TimedOut(r) ==
  [r EXCEPT !.order = IF @ = "dispatched" THEN "lost" ELSE @,
            !.deposit = IF @ = "dispatched" THEN "unsure" ELSE @,
            !.reimbursement = IF @ = "dispatched" THEN "unsure" ELSE @]

(* Hashes executed and deleted go to the first intent that has the hash,   *)
(* and wait for one when there is none.                                    *)
Ledger(records, executed, deleted) ==
  [intents |-> records, executed |-> executed, deleted |-> deleted]
Apply(s, executed, deleted) ==
  LET E == s.executed \cup executed
      D == s.deleted \cup deleted
      Holders(h) == {i \in Intents : s.intents[i].reimbursement = "proposed" /\ HashOf(i) = h}
      paid == {Min(Holders(h)) : h \in {g \in E : Holders(g) # {}}}
      undone == {Min(Holders(h) \ paid) : h \in {g \in D : Holders(g) \ paid # {}}} IN
  Ledger([i \in Intents |->
            IF i \in paid THEN [s.intents[i] EXCEPT !.status = "reimbursed"]
            ELSE IF i \in undone
            THEN [s.intents[i] EXCEPT !.reimbursement = "idle", !.reimbursementTx = 0]
            ELSE s.intents[i]],
         E \ {HashOf(i) : i \in paid}, D \ {HashOf(i) : i \in undone})

(* What the log of the Governor says of the reimbursement of an intent: of *)
(* whom the last proposal with the hash is, and its status.  A record that *)
(* was executed stays so when the hash is proposed again.                  *)
Commitment(i, upto) ==
  LET all == Events(HashOf(i), upto)
      proposals == {b \in all : chain[b].kind = "proposed"}
      ended == all \ proposals IN
  IF proposals = {} \/ chain[Max(proposals)].of # i THEN None
  ELSE IF ended = {} \/ (chain[Max(ended)].kind = "deleted" /\ Max(proposals) > Max(ended))
  THEN "proposed"
  ELSE chain[Max(ended)].kind
(* Mutant: a proposal on record counts as paid.                            *)
RecoveredEarly(r, commitment) ==
  IF r.status # "open" \/ commitment = None THEN r
  ELSE IF commitment = "deleted" THEN [r EXCEPT !.reimbursement = "idle", !.reimbursementTx = 0]
  ELSE [r EXCEPT !.status = "reimbursed", !.reimbursement = "proposed"]
Recovered(r, commitment) ==
  IF r.status # "open" \/ commitment = None THEN r
  ELSE IF commitment = "executed"
  THEN [r EXCEPT !.status = "reimbursed", !.reimbursement = "proposed", !.reimbursementTx = 0]
  ELSE IF commitment = "proposed" THEN [r EXCEPT !.reimbursement = "proposed"]
  ELSE [r EXCEPT !.reimbursement = "idle", !.reimbursementTx = 0]

(* A signed intent is taken when credit and balance cover it; a balance    *)
(* that cannot be read is not looked at.                                   *)
Acceptable(i, readable) ==
  /\ Is(i, "none") /\ \A j \in Intents : j < i => ~Is(j, "none")
  /\ load.spend[i] <= Available
  /\ readable => load.spend[i] <= OrderHeadroom(i)
Accepting(records, new) ==
  [i \in Intents |-> IF i \in new THEN [NoRecord EXCEPT !.status = "open"] ELSE records[i]]
New(readable) == {{}} \cup {{i} : i \in {j \in Intents : Acceptable(j, readable)}}

Ingested(late) ==
  LET start == Ledger([i \in Intents |-> IF late THEN TimedOut(intent[i]) ELSE intent[i]],
                      waiting.executed, waiting.deleted) IN
  FoldLeft(LAMBDA s, u : Apply(s, u.executed, u.deleted), start, queue)
Ingest ==
  /\ stage = "ingest"
  /\ \E late, readable \in BOOLEAN :
       LET s == Ingested(late) IN
       /\ FailsIf(~readable)
       /\ late => \E i \in Open : TimedOut(intent[i]) # intent[i]
       /\ waiting' = [executed |-> s.executed, deleted |-> s.deleted]
       /\ \E new \in New(readable) :
            intent' = Accepting([i \in Intents |->
                                   Recovered(s.intents[i], Commitment(i, Height))], new)
  /\ scanned' = Height /\ queue' = <<>> /\ stage' = "refresh"
  /\ UNCHANGED <<load, world, cursor, fresh, call, answer, crashes, disputes>>
(* The head cannot be read: intents are taken before the pass is given up. *)
(* The logs cannot be read: what was queued stays applied.  No wallet can  *)
(* be found: the pass is given up before anything is refreshed.  What was  *)
(* changed when the logs could not be read is saved with the next change;  *)
(* a process that dies before it is one that died before the logs were     *)
(* asked for (Crash), as no step in between leaves a trace.                *)
IngestThrows ==
  /\ stage = "ingest" /\ Fails
  /\ \/ /\ \E new \in New(FALSE) : intent' = Accepting(intent, new)
        /\ UNCHANGED <<waiting, queue>>
     \/ /\ LET s == Ingested(FALSE) IN
           intent' = s.intents /\ waiting' = [executed |-> s.executed, deleted |-> s.deleted]
        /\ queue' = <<>>
  /\ stage' = "idle" /\ fresh' = {}
  /\ UNCHANGED <<load, world, scanned, cursor, call, answer, crashes, disputes>>
RefreshThrows ==
  /\ stage = "refresh" /\ Fails
  /\ stage' = "idle" /\ fresh' = {}
  /\ UNCHANGED <<load, world, durable, cursor, queue, call, answer, crashes, disputes>>

-----------------------------------------------------------------------------
(* Refresh.                                                                *)

(* Mutant: an order that was dispatched does not count.                    *)
MayExpireUnanswered(r) == r.order \in {"idle", "dispatched", "lost"}
MayExpire(r) == r.order = "idle"
Expired(r, over) == IF over /\ MayExpire(r) THEN [r EXCEPT !.status = "released"] ELSE r
OrderRead(r, read) ==
  IF ~read \/ r.status # "open" THEN r
  ELSE IF r.order = "lost" THEN [r EXCEPT !.order = "unsure"]
  ELSE IF r.order = "placed" /\ orders[r.orderId].state = "filled" THEN [r EXCEPT !.order = "filled"]
  ELSE IF r.order = "placed" /\ orders[r.orderId].state = "failed" THEN [r EXCEPT !.status = "released"]
  ELSE r

(* Transfers into the Safe are given to the open intents with tokens to    *)
(* deposit that they may belong to, when there is one for each.            *)
Awaits(r) == r.status = "open" /\ r.order = "filled" /\ r.deposit # "deposited"
Evidence(h) == {b \in 1..scanned : chain[b].kind = "transfer" /\ HashOf(chain[b].of) = h}
(* Mutant: transfers from before the order count.                          *)
FitsEver(b, r) == b \in 1..Height /\ r.order = "filled"
Fits(b, r) == b >= r.from
Found(records, h) ==
  LET group == {i \in Intents : HashOf(i) = h /\ Awaits(records[i])} IN
  IF \E f \in [group -> Evidence(h)] :
       IsInjective(f) /\ \A i \in group : Fits(f[i], records[i])
  THEN group ELSE {}
DepositRead(r) ==
  IF r.status # "open" \/ r.deposit # "submitted" THEN r
  ELSE CASE txs[r.depositTx].state = "mined" -> [r EXCEPT !.deposit = "deposited"]
         [] txs[r.depositTx].state = "reverted" -> [r EXCEPT !.deposit = "idle", !.depositTx = 0]
         [] OTHER -> r
ProposalRead(r, i, late) ==
  LET signalled == \E b \in fresh : chain[b].of = i
      state == IF r.reimbursementTx = 0 THEN None ELSE txs[r.reimbursementTx].state IN
  IF r.status # "open" \/ r.reimbursement \notin {"unsure", "submitted", "late"} THEN r
  ELSE IF state = "mined" \/ signalled THEN [r EXCEPT !.reimbursement = "proposed"]
  ELSE CASE state = "reverted" -> [r EXCEPT !.reimbursement = "idle", !.reimbursementTx = 0]
         [] state = "pool" /\ late -> [r EXCEPT !.reimbursement = "late"]
         [] OTHER -> r
Refresh ==
  /\ stage = "refresh"
  /\ \E over, read \in SUBSET Open, late \in BOOLEAN :
       LET ordered == [i \in Intents |-> OrderRead(Expired(intent[i], i \in over), i \in read)]
           found == UNION {Found(ordered, h) : h \in {HashOf(i) : i \in Intents}}
           deposited == [i \in Intents |->
             IF i \in found THEN [ordered[i] EXCEPT !.deposit = "deposited"]
             ELSE DepositRead(ordered[i])]
           s == Apply(Ledger([i \in Intents |-> ProposalRead(deposited[i], i, late)],
                             waiting.executed, waiting.deleted), {}, {}) IN
       /\ intent' = s.intents
       /\ waiting' = [executed |-> s.executed, deleted |-> s.deleted]
  /\ fresh' = {} /\ stage' = "choose"
  /\ UNCHANGED <<load, world, scanned, cursor, queue, call, answer, counters>>

-----------------------------------------------------------------------------
(* Choose.                                                                 *)
Active(r) ==
  \/ r.order \in {"dispatched", "placed", "lost"} /\ r.deposit # "deposited"
  \/ r.deposit = "dispatched"
  \/ r.reimbursement \in {"dispatched", "submitted"}
Busy == \E h \in {HashOf(i) : i \in Intents} : LiveAt(h, cursor)
Candidate(kind, i) ==
  LET r == intent[i] IN
  /\ i \in Open
  /\ CASE kind = "deposit" -> r.order = "filled" /\ r.deposit = "idle"
       [] kind = "reimbursement" ->
            /\ r.deposit = "deposited" /\ r.reimbursement = "idle" /\ ~Busy
            /\ ReimbursementHeadroom(i) >= load.spend[i]
       [] kind = "archive" -> ~r.cid /\ \A j \in Open : ~Active(intent[j])
       [] kind = "order" -> /\ r.cid /\ r.order = "idle" /\ r.deposit # "deposited"
                            /\ \A j \in Open : ~Active(intent[j])
                            /\ OrderHeadroom(i) >= load.spend[i]
Dispatched(r, kind) ==
  CASE kind = "archive" -> r
    [] kind = "order" -> [r EXCEPT !.order = "dispatched", !.orderAt = scanned, !.from = scanned]
    [] kind = "deposit" -> [r EXCEPT !.deposit = "dispatched", !.from = scanned]
    [] kind = "reimbursement" -> [r EXCEPT !.reimbursement = "dispatched"]
Choose(kind, i) ==
  /\ stage = "choose" /\ Candidate(kind, i) /\ Len(txs) < MaxTxs
  /\ intent' = [intent EXCEPT ![i] = Dispatched(@, kind)]
  /\ call' = [kind |-> kind, of |-> i] /\ stage' = "call"
  /\ UNCHANGED <<load, world, waiting, scanned, cursor, queue, fresh, answer, counters>>
Rest ==
  /\ stage = "choose" /\ stage' = "idle"
  /\ UNCHANGED <<load, world, durable, cursor, queue, fresh, call, answer, counters>>

-----------------------------------------------------------------------------
(* Call and Output.  The tool does what it is asked for, or not, and says  *)
(* so ("done", "retry", "refused") or not ("unclear").  Any error of the   *)
(* order tool is answered as one that may be retried, also that of a call  *)
(* which timed out after the exchange took the order; an answer without an *)
(* order id is unclear.  An error of the deposit tool ends the calls of    *)
(* the pass without an answer, whether the transfer was sent or not.       *)
Sends(kind) == txs' = Append(txs, [kind |-> kind, of |-> call.of, state |-> "pool"])
Effect ==
  CASE call.kind = "archive" -> UNCHANGED world
    [] call.kind = "order" ->
         /\ orders' = Append(orders, [of |-> call.of, state |-> "open", denied |-> answer' = "retry"])
         /\ UNCHANGED <<chain, txs>>
    [] OTHER -> Sends(call.kind) /\ UNCHANGED <<chain, orders>>
Errors ==
  CASE call.kind = "archive" -> {"retry", "refused"}
    [] call.kind = "order" -> {"retry", "unclear"}
    [] call.kind = "deposit" -> {None}
    [] call.kind = "reimbursement" -> {"retry", "refused", "unclear"}
LateErrors ==      \* after the effect
  CASE call.kind = "archive" -> {}
    [] call.kind = "reimbursement" -> {"unclear"}
    [] OTHER -> Errors
(* The simulation of a proposal whose hash is live fails as a duplicate.   *)
Duplicate == call.kind = "reimbursement" /\ Live(HashOf(call.of))
Call ==
  /\ stage = "call"
  /\ \/ ~Duplicate /\ answer' = "done" /\ Effect /\ UNCHANGED failures
     \/ ~Duplicate /\ answer' \in LateErrors /\ Effect /\ Fails
     \/ ~Duplicate /\ answer' \in Errors /\ UNCHANGED world /\ Fails
     \/ Duplicate /\ answer' = "refused" /\ UNCHANGED <<world, failures>>
  /\ IF answer' = None THEN stage' = "idle" /\ call' = None
     ELSE stage' = "output" /\ UNCHANGED call
  /\ UNCHANGED <<load, durable, cursor, queue, fresh, crashes, disputes>>

Sent == Max({k \in DOMAIN txs : txs[k].of = call.of /\ txs[k].kind = call.kind})
Archived(r) ==
  CASE answer = "done" -> [r EXCEPT !.cid = TRUE]
    [] answer = "retry" -> r
    [] answer = "refused" -> [r EXCEPT !.status = "released"]
(* An order that failed is offered again, or expires, when its backoff is  *)
(* over; one without id waits for a reconciliation that does not come.     *)
Ordered(r) ==
  CASE answer = "done" -> [r EXCEPT !.order = "placed", !.orderId = Len(orders)]
    [] answer = "unclear" -> [r EXCEPT !.order = "unsure"]
    [] answer = "retry" -> [r EXCEPT !.order = "idle"]
(* Mutant: the transaction of the tool's first answer is not kept.         *)
DepositedUntracked(r) == [r EXCEPT !.deposit = "submitted"]
(* The tool answers twice, with the hash and with the receipt: the first   *)
(* answer settles the call, the second finds no pending submission.        *)
Deposited(r) == [r EXCEPT !.depositTx = Sent, !.deposit = "submitted"]
Proposed(r) ==
  CASE answer = "done" -> [r EXCEPT !.reimbursementTx = Sent,
                             !.reimbursement = IF txs[Sent].state = "mined" THEN "proposed" ELSE "submitted"]
    [] answer = "unclear" -> [r EXCEPT !.reimbursement = "unsure"]
    [] answer = "retry" -> [r EXCEPT !.reimbursement = "idle"]
    [] answer = "refused" -> [r EXCEPT !.status = "closed", !.reimbursement = "idle"]
Output ==
  /\ stage = "output" /\ stage' = "idle" /\ call' = None /\ answer' = None
  /\ intent' = [intent EXCEPT ![call.of] =
       CASE call.kind = "archive" -> Archived(@)
         [] call.kind = "order" -> Ordered(@)
         [] call.kind = "deposit" -> Deposited(@)
         [] call.kind = "reimbursement" -> Proposed(@)]
  /\ UNCHANGED <<load, world, waiting, scanned, cursor, queue, fresh, counters>>

(* After a restart the loop reads the Governor's log from the beginning.   *)
Crash ==
  /\ crashes < load.crashes /\ crashes' = crashes + 1
  /\ cursor' = 0 /\ queue' = <<>> /\ fresh' = {} /\ stage' = "idle" /\ call' = None /\ answer' = None
  /\ UNCHANGED <<load, world, durable, failures, disputes>>

Init ==
  /\ load \in Workloads
  /\ chain = <<>> /\ txs = <<>> /\ orders = <<>>
  /\ intent = [i \in Intents |-> NoRecord]
  /\ waiting = [executed |-> {}, deleted |-> {}] /\ scanned = 0
  /\ cursor = 0 /\ queue = <<>> /\ fresh = {} /\ stage = "idle" /\ call = None /\ answer = None
  /\ failures = 0 /\ crashes = 0 /\ disputes = 0

Loop == Poll \/ Ingest \/ IngestThrows \/ Refresh \/ RefreshThrows \/ Rest \/ Call \/ Output
          \/ (\E kind \in Kinds, i \in Intents : Choose(kind, i))
World == (\E k \in DOMAIN orders : Fill(k) \/ Kill(k))
           \/ (\E k \in DOMAIN txs : Mine(k))
           \/ (\E i \in Intents : Execute(i) \/ Dispute(i))
Next == Loop \/ World \/ Crash
Spec == Init /\ [][Next]_vars

-----------------------------------------------------------------------------
TypeOK ==
  /\ chain \in Seq([kind : Governor \cup {"transfer"}, of : Intents])
  /\ txs \in Seq([kind : {"deposit", "reimbursement"}, of : Intents,
                  state : {"pool", "mined", "reverted"}])
  /\ orders \in Seq([of : Intents, state : {"open", "filled", "failed"}, denied : BOOLEAN])
  /\ intent \in [Intents -> Record(Len(orders), Height, Len(txs))]
  /\ waiting.executed \cup waiting.deleted \subseteq {HashOf(i) : i \in Intents}
  /\ scanned \in 0..Height /\ cursor \in 0..Height /\ fresh \subseteq 1..Height
  /\ stage \in {"idle", "ingest", "refresh", "choose", "call", "output"}
  /\ call # None <=> stage \in {"call", "output"}
  /\ \A i \in Intents :
       /\ intent[i].order \in {"placed", "filled"} => intent[i].orderId # 0
       /\ intent[i].deposit = "submitted" => intent[i].depositTx # 0
       /\ intent[i].deposit = "deposited" => intent[i].order = "filled"

(* An intent is deposited and reimbursed at most once, whatever is lost,   *)
(* repeated or disputed in between (commitment.txt:14 "one USDC            *)
(* reimbursement transfer"), and traded at most once, unless the exchange  *)
(* took an order and the agent was told that it failed.                    *)
OrdersOf(i) == {k \in DOMAIN orders : orders[k].of = i}
Denied(i) == \E k \in OrdersOf(i) : orders[k].denied
OncePerIntent ==
  \A i \in Intents :
    /\ Cardinality(OrdersOf(i)) <= 1 \/ Denied(i)
    /\ Cardinality({k \in DOMAIN txs : /\ txs[k].of = i /\ txs[k].kind = "deposit"
                                       /\ txs[k].state # "reverted"}) <= 1
    /\ Cardinality(Paid(i)) <= 1

(* The trader keeps the ledger of CreditLedger: what it does with an       *)
(* intent, seen from the exchange and the chain, is only ever the next     *)
(* step of it, over failures, crashes and disputes; nothing is taken       *)
(* beyond the credit, and an intent that was released is never traded,     *)
(* paid only when filled: but for an intent in doubt.                      *)
PhaseOf(i) ==
  IF Is(i, "none") \/ Is(i, "released") THEN intent[i].status
  ELSE IF Paid(i) # {} THEN "paid"
  ELSE IF OrdersOf(i) = {} THEN "accepted"
  ELSE IF Denied(i) THEN "doubted"
  ELSE orders[Max(OrdersOf(i))].state
Credit == INSTANCE CreditLedger WITH phase <- [i \in Intents |-> PhaseOf(i)]
CreditSpec == Credit!Spec

(* "without silently overcommitting depositor credit"                      *)
(* (plans/polymarket-agent-hardening.md:7): what the orders of the agent   *)
(* may have spent is covered by the credit of the signer.                  *)
Exposed == {k \in DOMAIN orders : orders[k].state \in {"open", "filled"}}
ExposureCovered == MapThenSumSet(LAMBDA k : load.spend[orders[k].of], Exposed) <= load.credit

(* An intent that counts as deposited has a transfer of its amount into    *)
(* the Safe that was made after its order.                                 *)
DepositIsReal ==
  \A i \in Intents :
    intent[i].deposit = "deposited" =>
      \E b \in 1..Height : /\ chain[b].kind = "transfer" /\ HashOf(chain[b].of) = HashOf(i)
                           /\ b >= intent[i].orderAt
(* "one recovered transfer could satisfy multiple indistinguishable        *)
(* intents" (plans/polymarket-agent-hardening.md) is not to happen: an     *)
(* intent that counts as deposited has a transfer of its own.              *)
DepositIsOwn ==
  \A i \in Intents :
    intent[i].deposit = "deposited" =>
      \/ \E b \in 1..Height : chain[b].kind = "transfer" /\ chain[b].of = i
      \/ failures > 0

(* An intent that counts as reimbursed was, unless it shares the hash of   *)
(* its proposal with another intent.                                       *)
BelievedReimbursed ==
  \A i \in Intents :
    Is(i, "reimbursed") => Paid(i) # {} \/ \E j \in Intents \ {i} : HashOf(j) = HashOf(i)
=============================================================================
