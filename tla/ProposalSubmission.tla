------------------------- MODULE ProposalSubmission -------------------------
(***************************************************************************)
(* The propose mode of the proposal node (proposal-publication-api.js over *)
(* proposal-publication-store.js, proposal-verification.js and tx.js):     *)
(* HTTP handlers that, once their signed proposal is published, verify it  *)
(* and submit it on chain at most once.                                    *)
(*                                                                         *)
(* A handler waits in submissionOperationTails for its key and, when the   *)
(* proposal reimburses deposits, in depositSubmissionOperationTails for    *)
(* every deposit it refers to.  All writes of a submission state happen    *)
(* under the first, so a store operation is one step.  The chain is        *)
(* external: transactions of the node's account are mined in the order     *)
(* they were sent, and the Optimistic Governor refuses a proposal whose    *)
(* transactions are those of a live one.                                   *)
(***************************************************************************)
EXTENDS Integers, FiniteSets, SequencesExt

CONSTANTS
  Handlers,      \* HTTP requests the node receives, numbered as they arrive
  Requests,      \* published proposals: a record per key
  Deposits, Payloads,
  DepositsOf,    \* request |-> the deposits it reimburses
  PayloadOf,     \* request |-> its transactions, hence its proposal hash
  Settings,      \* proposalVerificationMode and allowProposeOnSimulationFail
  None,
  MaxFailures,   \* bound on failing store writes, RPC calls and broadcasts
  MaxCrashes,    \* bound on crashes of the node
  MaxDeletions   \* bound on disputed proposals

ASSUME SubmissionAssumption ==
  /\ DepositsOf \in [Requests -> SUBSET Deposits]
  /\ PayloadOf \in [Requests -> Payloads]
  /\ IsFiniteSet(Handlers) /\ Handlers = 1..Cardinality(Handlers)
  /\ IsFiniteSet(Requests)
  /\ Settings \subseteq [mode : {"off", "advisory", "enforce"}, proposeAnyway : BOOLEAN]
  /\ None \notin Nat
  /\ MaxFailures \in Nat /\ MaxCrashes \in Nat /\ MaxDeletions \in Nat

TxIds == 1..Cardinality(Handlers)     \* a handler broadcasts at most once
Statuses == {"not_started", "submitted", "resolved", "uncertain", "failed"}
Submission == [status : Statuses, tx : TxIds \cup {None}, effects : BOOLEAN]

Places == {"idle", "publish", "queued", "blocked", "verify", "verifyChain", "saveVerdict",
           "saveFallback", "submit", "broadcast", "notify", "receipt", "saveResult", "skip", "recover",
           "reconcile", "done"}
Verdicts == {"available", "unknown", "reserved", "consumed"}
Task == [at : Places, request : Requests \cup {None}, runtime : BOOLEAN,
         found : Verdicts, tx : TxIds \cup {None}, effects : BOOLEAN, og : BOOLEAN]

VARIABLES
  settings,     \* the configuration the node was started with
  submission,   \* the state file: request |-> its submission state
  task,         \* handler |-> its task
  keyTail,      \* handlers in submissionOperationTails, in order
  depositTail,  \* handlers in depositSubmissionOperationTails, in order
  txs,          \* transactions sent: request and status
  log,          \* events of the Optimistic Governor
  failures, crashes, deletions

vars == <<settings, submission, task, keyTail, depositTail, txs, log, failures, crashes, deletions>>
chainVars == <<txs, log, deletions>>

Idle == [at |-> "idle", request |-> None, runtime |-> FALSE, found |-> "available",
         tx |-> None, effects |-> FALSE, og |-> FALSE]
Finished == [Idle EXCEPT !.at = "done"]

Shares(q, r) == DepositsOf[q] \cap DepositsOf[r] # {}
Before(s, h) == {s[i] : i \in 1..(CHOOSE j \in DOMAIN s : s[j] = h) - 1}
(* Variants for mutation: a handler does not wait for those before it; it  *)
(* waits for those behind it as well.                                      *)
KeyTurnAtOnce(h) == TRUE
DepositTurnAtOnce(h) == TRUE
DepositTurnOfLast(h) ==
  \A g \in Range(depositTail) \ {h} : ~Shares(task[g].request, task[h].request)
KeyTurn(h) == \A g \in Before(keyTail, h) : task[g].request # task[h].request
DepositTurn(h) == \A g \in Before(depositTail, h) : ~Shares(task[g].request, task[h].request)

Fails == failures < MaxFailures /\ failures' = failures + 1
NoFailure == UNCHANGED failures
-----------------------------------------------------------------------------
(* The Optimistic Governor.                                                *)
Events(kind, p) == {i \in DOMAIN log : log[i].kind = kind /\ PayloadOf[log[i].request] = p}
EventsFrom(i, kind, p) == {j \in Events(kind, p) : j >= i}
(* A proposal is over with the first deletion or execution that follows it. *)
Open(i) ==
  LET p == PayloadOf[log[i].request]
  IN  EventsFrom(i, "deleted", p) \cup EventsFrom(i, "executed", p) = {}
Live(p) == \E i \in Events("proposed", p) : Open(i)

Mine ==
  \E t \in DOMAIN txs :
    /\ txs[t].status = "pool"
    /\ \A u \in 1..t - 1 : txs[u].status # "pool"
    /\ IF Live(PayloadOf[txs[t].request])
       THEN /\ txs' = [txs EXCEPT ![t].status = "reverted"]
            /\ UNCHANGED log
       ELSE /\ txs' = [txs EXCEPT ![t].status = "mined", ![t].block = Len(log) + 1]
            /\ log' = Append(log, [kind |-> "proposed", request |-> txs[t].request])
    /\ UNCHANGED <<submission, task, keyTail, depositTail, failures, crashes, deletions>>

(* A live proposal is executed, or disputed and deleted.                   *)
Settle(kind) ==
  /\ \E i \in DOMAIN log :
       /\ log[i].kind = "proposed" /\ Open(i)
       /\ log' = Append(log, [kind |-> kind, request |-> log[i].request])
  /\ UNCHANGED <<submission, task, keyTail, depositTail, txs, failures, crashes>>
Execute == Settle("executed") /\ UNCHANGED deletions
Delete ==
  /\ deletions < MaxDeletions
  /\ deletions' = deletions + 1
  /\ Settle("deleted")

-----------------------------------------------------------------------------
(* proposal-verification.js: is a deposit of q used by another proposal?   *)

Rank(v) == CASE v = "available" -> 0 [] v = "unknown" -> 1
             [] v = "reserved" -> 2 [] v = "consumed" -> 3
Worst(vs) == CHOOSE v \in vs : \A w \in vs : Rank(v) >= Rank(w)

(* resolveStoredProposalLifecycle from the log since the proposal's block. *)
LifecycleSince(block, p) ==
  LET executed == EventsFrom(block, "executed", p) # {}
      deleted == EventsFrom(block, "deleted", p) # {}
  IN  IF executed /\ deleted THEN "unknown"
      ELSE IF executed THEN "consumed"
      ELSE IF deleted THEN "available" ELSE "reserved"

HasReceipt(r) ==
  /\ submission[r].status \in {"submitted", "resolved"}
  /\ submission[r].tx # None
  /\ txs[submission[r].tx].status = "mined"

(* The answer for a proposal hash is cached: of the records in order, the  *)
(* first one with the same hash decides.                                   *)
StoredLifecycle(r, order) ==
  LET s == submission[r]
      i == CHOOSE n \in DOMAIN order :
             /\ PayloadOf[order[n]] = PayloadOf[r] /\ HasReceipt(order[n])
             /\ \A k \in 1..n - 1 :
                  ~(PayloadOf[order[k]] = PayloadOf[r] /\ HasReceipt(order[k]))
  IN  IF s.status \in {"not_started", "failed"} THEN "available"
      ELSE IF s.status = "uncertain" \/ s.tx = None THEN "unknown"
      ELSE IF txs[s.tx].status = "pool" THEN "unknown"
      ELSE IF txs[s.tx].status = "reverted" THEN "available"
      ELSE LifecycleSince(txs[submission[order[i]].tx].block, PayloadOf[r])
StoredStatus(q, order) ==
  Worst({"available"} \cup {StoredLifecycle(order[n], order) : n \in DOMAIN order})

(* resolveOnchainProposalDepositStatuses: every proposal of the module.    *)
OnchainStatus(q) ==
  Worst({"available"} \cup
        {LifecycleSince(1, PayloadOf[log[i].request]) :
           i \in {j \in DOMAIN log : log[j].kind = "proposed" /\ Shares(log[j].request, q)}})

ShouldVerify(s) ==
  /\ s.status # "resolved"
  /\ ~(s.status = "submitted" /\ s.tx # None)
  /\ ~(s.status = "uncertain" \/ (s.effects /\ s.tx = None))
CanBypassRuntime(s) ==
  s.status \in {"resolved", "uncertain"} \/ (s.status = "submitted" /\ s.tx # None)

-----------------------------------------------------------------------------
(* Building blocks of a handler's step.                                    *)
GoTo(h, p) == task' = [task EXCEPT ![h].at = p]
Leave(h) ==
  /\ task' = [task EXCEPT ![h] = Finished]
  /\ keyTail' = RemoveFirst(keyTail, h)
  /\ depositTail' = RemoveFirst(depositTail, h)
Stay == UNCHANGED <<keyTail, depositTail>>
Save(h, s) == submission' = [submission EXCEPT ![task[h].request] = s]

(* submitPublishedRecord up to the call of postBondAndPropose.             *)
SubmitPublished(h, s, runtime) ==
  \/ /\ \/ s.status = "resolved"
        \/ s.status = "submitted" /\ s.tx # None /\ ~runtime
        \/ s.status = "uncertain" \/ (s.effects /\ s.tx = None)
     /\ Leave(h)
  \/ /\ s.status = "submitted" /\ s.tx # None /\ runtime
     /\ task' = [task EXCEPT ![h].at = "reconcile", ![h].runtime = runtime]
     /\ Stay
  \/ /\ ShouldVerify(s)
     /\ task' = [task EXCEPT ![h].at = "submit", ![h].runtime = runtime]
     /\ Stay

(* attemptSubmission.                                                      *)
Attempt(h, s, runtime) ==
  IF settings.mode # "off" /\ ShouldVerify(s)
  THEN task' = [task EXCEPT ![h].at = "verify", ![h].runtime = runtime] /\ Stay
  ELSE SubmitPublished(h, s, runtime)

(* resolveRuntimeForLatestRecord: tried for a submitted record, may fail.  *)
Runtimes(h, s) ==
  IF task[h].runtime THEN {TRUE}
  ELSE IF s.status = "submitted" /\ s.tx # None THEN BOOLEAN ELSE {FALSE}
-----------------------------------------------------------------------------
(* The handler's way to the submission.                                    *)

(* The stored record decides whether a runtime is needed; publication follows. *)
Receive(h, q) ==
  /\ task[h].at = "idle"
  /\ \A g \in 1..h - 1 : task[g].at # "idle"
  /\ task' = [task EXCEPT ![h].at = "publish", ![h].request = q,
                          ![h].runtime = ~CanBypassRuntime(submission[q])]
  /\ UNCHANGED <<submission, keyTail, depositTail, chainVars, failures, crashes>>

(* The proposal is published, or that fails and the handler answers so.    *)
Published(h) ==
  /\ task[h].at = "publish"
  /\ \/ GoTo(h, "queued") /\ keyTail' = Append(keyTail, h) /\ NoFailure
     \/ Fails /\ Leave(h)
  /\ UNCHANGED <<submission, depositTail, chainVars, crashes>>

TakeKeyTurn(h) ==
  /\ task[h].at = "queued" /\ KeyTurn(h)
  /\ LET q == task[h].request
         s == submission[q]
     IN  \E runtime \in Runtimes(h, s) :
           IF settings.mode # "off" /\ DepositsOf[q] # {} /\ ShouldVerify(s)
           THEN /\ task' = [task EXCEPT ![h].at = "blocked", ![h].runtime = runtime]
                /\ depositTail' = Append(depositTail, h)
                /\ UNCHANGED keyTail
           ELSE Attempt(h, s, runtime)
  /\ UNCHANGED <<submission, chainVars, failures, crashes>>

TakeDepositTurn(h) ==
  /\ task[h].at = "blocked" /\ DepositTurn(h)
  /\ LET s == submission[task[h].request]
     IN  \E runtime \in Runtimes(h, s) : Attempt(h, s, runtime)
  /\ UNCHANGED <<submission, chainVars, failures, crashes>>

(* runVerification: the records of the store first, the chain later.       *)
VerifyStore(h) ==
  /\ task[h].at = "verify"
  /\ LET q == task[h].request
         others == {r \in Requests \ {q} : Shares(r, q)}
     IN  \E order \in SetToSeqs(others) :
           task' = [task EXCEPT ![h].at = "verifyChain", ![h].found = StoredStatus(q, order)]
  /\ Stay
  /\ UNCHANGED <<submission, chainVars, failures, crashes>>

VerifyChain(h) ==
  /\ task[h].at = "verifyChain"
  /\ \/ /\ task' = [task EXCEPT ![h].at = "saveVerdict",
                                ![h].found = Worst({@, OnchainStatus(task[h].request)})]
        /\ NoFailure
     \/ /\ Fails
        /\ task' = [task EXCEPT ![h].at = "saveVerdict", ![h].found = Worst({@, "unknown"})]
  /\ Stay
  /\ UNCHANGED <<submission, chainVars, crashes>>

(* saveVerification.  In enforce mode a failing write refuses the          *)
(* submission, as does a verdict other than "valid"; in advisory mode it is *)
(* degraded to "unknown", which is saved instead.                          *)
SaveVerdict(h) ==
  /\ task[h].at \in {"saveVerdict", "saveFallback"}
  /\ LET s == submission[task[h].request]
     IN  \/ /\ settings.mode = "enforce" /\ task[h].found # "available"
            /\ Leave(h) /\ NoFailure
         \/ /\ settings.mode = "advisory" \/ task[h].found = "available"
            /\ SubmitPublished(h, s, task[h].runtime) /\ NoFailure
         \/ /\ Fails
            /\ IF settings.mode = "advisory" /\ task[h].at = "saveVerdict"
               THEN GoTo(h, "saveFallback") /\ Stay
               ELSE Leave(h)
  /\ UNCHANGED <<submission, chainVars, crashes>>
-----------------------------------------------------------------------------
(* postBondAndPropose and what submitPublishedRecord makes of it.          *)

(* Bond allowance (which may already send approvals), then a simulation:   *)
(* a live duplicate is skipped unless configured otherwise.                *)
Prepare(h) ==
  /\ task[h].at = "submit"
  /\ LET live == Live(PayloadOf[task[h].request])
     IN  \E approved \in BOOLEAN :
           \/ /\ live /\ ~settings.proposeAnyway
              /\ task' = [task EXCEPT ![h].at = "skip", ![h].effects = approved]
              /\ NoFailure
           \/ /\ ~live \/ settings.proposeAnyway
              /\ task' = [task EXCEPT ![h].at = "broadcast", ![h].effects = approved]
              /\ NoFailure
           \/ /\ Fails
              /\ task' = [task EXCEPT ![h].at = "recover", ![h].effects = approved]
  /\ Stay
  /\ UNCHANGED <<submission, chainVars, crashes>>

(* The transaction is sent; or sending fails, and it was sent all the same *)
(* or not.                                                                 *)
Sent(h) == Append(txs, [request |-> task[h].request, status |-> "pool", block |-> 0])
Broadcast(h) ==
  /\ task[h].at = "broadcast"
  /\ \/ /\ txs' = Sent(h)
        /\ task' = [task EXCEPT ![h].at = "notify", ![h].tx = Len(txs) + 1, ![h].effects = TRUE]
        /\ NoFailure
     \/ /\ Fails
        /\ txs' \in {txs, Sent(h)}
        /\ GoTo(h, "saveResult")
  /\ Stay
  /\ UNCHANGED <<submission, log, deletions, crashes>>

(* onProposalTxSubmitted: a failing write is swallowed by the sender.      *)
Notify(h) ==
  /\ task[h].at = "notify"
  /\ GoTo(h, "receipt")
  /\ \/ /\ Save(h, [status |-> "submitted", tx |-> task[h].tx, effects |-> TRUE])
        /\ NoFailure
     \/ Fails /\ UNCHANGED submission
  /\ Stay
  /\ UNCHANGED <<chainVars, crashes>>

(* Variant for mutation: a receipt that did not come in time is taken for  *)
(* a proposal.                                                             *)
ReceiptUnseen(h) ==
  /\ task[h].at = "receipt"
  /\ task' = [task EXCEPT ![h].at = "saveResult", ![h].og = txs[task[h].tx].status # "reverted"]
  /\ Stay
  /\ UNCHANGED <<submission, chainVars, failures, crashes>>

(* resolveProposalHashFromReceipt: the hash; or nothing within the timeout, *)
(* from a reverted transaction, or when the call fails.                     *)
Receipt(h) ==
  /\ task[h].at = "receipt"
  /\ \/ /\ task' = [task EXCEPT ![h].at = "saveResult",
                                ![h].og = txs[task[h].tx].status = "mined"]
        /\ NoFailure
     \/ Fails /\ GoTo(h, "saveResult")
  /\ Stay
  /\ UNCHANGED <<submission, chainVars, crashes>>

(* Variant for mutation: a state the store does not know.                  *)
ResultPending(h) ==
  [status |-> IF task[h].og THEN "resolved" ELSE "pending",
   tx |-> task[h].tx, effects |-> task[h].effects]
Result(h) ==
  LET t == task[h]
  IN  [status |-> IF t.tx # None THEN (IF t.og THEN "resolved" ELSE "submitted")
                  ELSE IF t.effects THEN "uncertain" ELSE "failed",
       tx |-> t.tx, effects |-> t.effects]
SaveResult(h) ==
  /\ task[h].at = "saveResult"
  /\ \/ Save(h, Result(h)) /\ Leave(h) /\ NoFailure
     \/ Fails /\ GoTo(h, "recover") /\ Stay /\ UNCHANGED submission
  /\ UNCHANGED <<chainVars, crashes>>

Skip(h) ==
  /\ task[h].at = "skip"
  /\ \/ /\ Save(h, [submission[task[h].request] EXCEPT
                      !.status = "resolved", !.effects = task[h].effects])
        /\ Leave(h) /\ NoFailure
     \/ Fails /\ GoTo(h, "recover") /\ Stay /\ UNCHANGED submission
  /\ UNCHANGED <<chainVars, crashes>>

(* The catch block: a stored transaction hash is reconciled, otherwise     *)
(* what was observed is saved, or lost when the write fails again.         *)
Fallback(h) ==
  LET t == task[h]
  IN  [status |-> IF t.tx # None \/ t.effects THEN "uncertain" ELSE "failed",
       tx |-> t.tx, effects |-> t.tx # None \/ t.effects]
Recover(h) ==
  /\ task[h].at = "recover"
  /\ \/ /\ submission[task[h].request].tx # None
        /\ GoTo(h, "reconcile") /\ Stay /\ NoFailure
        /\ UNCHANGED submission
     \/ /\ submission[task[h].request].tx = None
        /\ Leave(h)
        /\ \/ Save(h, Fallback(h)) /\ NoFailure
           \/ Fails /\ UNCHANGED submission
  /\ UNCHANGED <<chainVars, crashes>>

(* reconcileSubmittedRecord: the receipt may by now hold the proposal hash. *)
Reconcile(h) ==
  /\ task[h].at = "reconcile"
  /\ Leave(h)
  /\ LET s == submission[task[h].request]
     IN  \/ /\ txs[s.tx].status = "mined"
            /\ Save(h, [s EXCEPT !.status = "resolved", !.effects = TRUE])
            /\ NoFailure
         \/ /\ txs[s.tx].status # "mined"
            /\ UNCHANGED submission /\ NoFailure
         \/ Fails /\ UNCHANGED submission
  /\ UNCHANGED <<chainVars, crashes>>

Crash ==
  /\ crashes < MaxCrashes
  /\ crashes' = crashes + 1
  /\ task' = [h \in Handlers |-> IF task[h].at = "idle" THEN Idle ELSE Finished]
  /\ keyTail' = <<>> /\ depositTail' = <<>>
  /\ UNCHANGED <<submission, chainVars, failures>>

-----------------------------------------------------------------------------
Init ==
  /\ settings \in Settings
  /\ submission = [q \in Requests |-> [status |-> "not_started", tx |-> None, effects |-> FALSE]]
  /\ task = [h \in Handlers |-> Idle]
  /\ keyTail = <<>> /\ depositTail = <<>>
  /\ txs = <<>> /\ log = <<>>
  /\ failures = 0 /\ crashes = 0 /\ deletions = 0

HandlerStep(h) ==
  \/ Published(h) \/ TakeKeyTurn(h) \/ TakeDepositTurn(h)
  \/ VerifyStore(h) \/ VerifyChain(h) \/ SaveVerdict(h)
  \/ Prepare(h) \/ Broadcast(h) \/ Notify(h) \/ Receipt(h) \/ SaveResult(h)
  \/ Skip(h) \/ Recover(h) \/ Reconcile(h)

Next ==
  /\ UNCHANGED settings
  /\ \/ \E h \in Handlers : HandlerStep(h)
     \/ \E h \in Handlers, q \in Requests : Receive(h, q)
     \/ Mine \/ Execute \/ Delete
     \/ Crash

Spec == Init /\ [][Next]_vars

-----------------------------------------------------------------------------
Event == [kind : {"proposed", "deleted", "executed"}, request : Requests]
Transaction == [request : Requests, status : {"pool", "mined", "reverted"}, block : Nat]

TypeOK ==
  /\ settings \in Settings
  /\ submission \in [Requests -> Submission]
  /\ task \in [Handlers -> Task]
  /\ keyTail \in Seq(Handlers) /\ depositTail \in Seq(Handlers)
  /\ txs \in Seq(Transaction) /\ log \in Seq(Event)
  /\ failures \in Nat /\ crashes \in Nat /\ deletions \in Nat

(* agent/README.md:551 "retries never resubmit when the node already has a *)
(* stored proposal transaction hash", and "Automatic retry has been        *)
(* blocked" (proposal-publication-api.js:850): a transaction is only sent  *)
(* for a request whose stored state knows of none and is not uncertain,    *)
(* and a stored hash is never forgotten nor replaced.                      *)
SubmissionIsFinal ==
  [][/\ \A t \in DOMAIN txs' \ DOMAIN txs :
          LET s == submission[txs'[t].request] IN s.tx = None /\ s.status # "uncertain"
     /\ \A q \in Requests :
          submission[q].tx # None => submission'[q].tx = submission[q].tx]_vars

(* "resolved" is only recorded for transactions the Governor has seen.     *)
ResolvedWasProposed ==
  \A q \in Requests :
    submission[q].status = "resolved" => Events("proposed", PayloadOf[q]) # {}

(* agent/README.md:538 "if a referenced deposit is already reserved by a   *)
(* live proposal or consumed by an executed proposal, verification fails": *)
(* in enforce mode the node never brings two proposals that reimburse the  *)
(* same deposit on chain, unless the first one was deleted.                *)
Undeleted(i) ==
  LET ended == {j \in DOMAIN log : j > i /\ log[j].kind # "proposed"
                                   /\ PayloadOf[log[j].request] = PayloadOf[log[i].request]}
  IN  ended = {} \/ log[Min(ended)].kind = "executed"
DepositReimbursedOnce ==
  \A i, j \in DOMAIN log :
    /\ log[i].kind = "proposed" /\ log[j].kind = "proposed"
    /\ Undeleted(i) /\ Undeleted(j)
    /\ Shares(log[i].request, log[j].request)
    => i = j

(* The same as long as the node keeps running and no call fails: what one  *)
(* handler verified cannot be overtaken by another that shares a deposit.  *)
DepositOnceUntilFailure ==
  settings.mode = "enforce" /\ failures = 0 /\ crashes = 0 => DepositReimbursedOnce

(* The two promise chains never wait for each other: as long as a handler  *)
(* has not answered, some handler can go on.  A handler takes a bounded    *)
(* number of steps, so all of them answer.                                 *)
ChainsNeverBlock ==
  (\E h \in Handlers : task[h].at \notin {"idle", "done"}) =>
    \E h \in Handlers : ENABLED HandlerStep(h)
=============================================================================
