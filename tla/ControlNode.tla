---------------------------- MODULE ControlNode ----------------------------
(***************************************************************************)
(* The control node of the staked external settlement module: the loop of  *)
(* start-control-node.mjs around node-controller.js.  From what the agent  *)
(* published it asks the proposal node to reimburse settled markets, and   *)
(* it disputes withdrawals while a market is not settled.                  *)
(*                                                                         *)
(* One iteration scans the chain and applies the events it found (Poll),   *)
(* reads the receipts of pending submissions (Refresh), synchronises with  *)
(* the published records and chooses at most one tool call (Decide), makes *)
(* it (Publish, Dispute) and digests the answer (Output).  The chain, the  *)
(* agent, the user and the proposal node take their steps in between.  The *)
(* state the node persists is lost back to its last write by a crash, its  *)
(* knowledge of the chain altogether.                                      *)
(*                                                                         *)
(* Time only matters through three timeouts.  A dispatch may be older than *)
(* the grace period at any poll; that a receipt does not come in time, and *)
(* that an RPC call, a write or a tool call fails, counts as a failure.    *)
(***************************************************************************)
EXTENDS Integers, FiniteSets, Sequences, FiniteSetsExt

CONSTANTS
  Markets,        \* the configured markets, in the order of their ids
  MaxRequests,    \* bound on the reimbursement requests for a market
  Payloads,       \* transactions of a proposal, hence proposal hashes
  PayloadOf,      \* market |-> request |-> the transactions that reimburse it
  Withdrawals,    \* proposals of the user that take value out
  None,           \* null
  Workloads       \* what a behaviour is limited to: the markets traded, the
                  \* requests per market, the withdrawals proposed, failing
                  \* calls and writes, crashes of the control node, and
                  \* proposals disputed by others

ASSUME ControlAssumption ==
  /\ IsFiniteSet(Markets) /\ Markets = 1..Cardinality(Markets)
  /\ PayloadOf \in [Markets -> [1..MaxRequests -> Payloads]]
  /\ Payloads \cap Withdrawals = {} /\ None \notin Payloads \cup Withdrawals
  /\ MaxRequests \in Nat
  /\ Workloads \subseteq [markets : SUBSET Markets, requests : 0..MaxRequests,
                          withdrawals : SUBSET Withdrawals, failures : Nat,
                          crashes : Nat, deletions : Nat]
  /\ IsFiniteSet(Workloads)

Hashes == Payloads \cup Withdrawals

(* A request to the proposal node: market, request CID, retry generation.  *)
(* A deletion raises the generation, and a restart reads it once more.     *)
MaxGen == Max({w.deletions * (w.crashes + 1) : w \in Workloads})
Ids == [market : Markets, cid : 1..MaxRequests, gen : 0..MaxGen]
HashOf(id) == PayloadOf[id.market][id.cid]

(* The persisted entry of a market; cid 0 is null, tx the request whose    *)
(* transaction is tracked, dispatched and submitted that dispatchAtMs and  *)
(* submittedAtMs are set.                                                  *)
Entry == [cid : 0..MaxRequests, gen : Nat, dispatched : BOOLEAN, tx : Ids \cup {None},
          hash : Payloads \cup {None}, submitted : BOOLEAN, reimbursed : BOOLEAN]
NoEntry == [cid |-> 0, gen |-> 0, dispatched |-> FALSE, tx |-> None,
            hash |-> None, submitted |-> FALSE, reimbursed |-> FALSE]
State == [markets : [Markets -> Entry], pending : Withdrawals \cup {None},
          disputed : SUBSET Withdrawals]
NoState == [markets |-> [m \in Markets |-> NoEntry], pending |-> None, disputed |-> {}]

Answer == [kind : {"sent", "skipped", "uncertain", "failed"}, tx : Ids \cup {None},
           hash : Payloads \cup {None}]
Failed == [kind |-> "failed", tx |-> None, hash |-> None]

(* A call says by itself whether it is a request or a dispute.             *)
ASSUME CallsApart ==
  /\ None \notin Ids \cup Markets \cup Answer
  /\ Ids \cap Withdrawals = {}

VARIABLES
  published,   \* market |-> what the message publication store holds of it
  log,         \* events of the Optimistic Governor
  txs,         \* request |-> its transaction: none, pool, mined or reverted
  archived,    \* requests the proposal node has archived
  mem, disk,   \* the node's state, in memory and persisted
  cursor,      \* events of the log scanned since the start
  known,       \* proposalsByHash: hashes of the proposals taken for live
  stage,       \* where the loop is
  call,        \* the tool call being made: a request, a withdrawal or None
  answer,      \* its answer
  changed,     \* the iteration has something to persist
  violating,   \* withdrawals that were live while a market was not settled
  workload, failures, crashes, deletions

nodeVars == <<mem, disk, cursor, known, stage, call, answer, changed>>
chainVars == <<log, txs>>
worldVars == <<published, archived, violating>>
bounds == <<workload, failures, crashes, deletions>>
vars == <<nodeVars, chainVars, worldVars, bounds>>

Fails == failures < workload.failures /\ failures' = failures + 1
NoFailure == UNCHANGED failures
FailsIf(b) == IF b THEN Fails ELSE NoFailure

-----------------------------------------------------------------------------
(* The chain.                                                              *)
EventsOf(h) == {i \in DOMAIN log : log[i].hash = h}
Latest(S) == CHOOSE i \in S : \A j \in S : j <= i
Live(h) == EventsOf(h) # {} /\ log[Latest(EventsOf(h))].kind = "proposed"
Event(kind, h, m) == Append(log, [kind |-> kind, hash |-> h, market |-> m])
Open(m) == published[m].phase = "trading"

(* A transaction of the proposal node is mined; the Governor refuses       *)
(* transactions that are those of a live proposal.                         *)
Mined(id, t) == [t EXCEPT ![id] = IF Live(HashOf(id)) THEN "reverted" ELSE "mined"]
Proposed(id) == IF Live(HashOf(id)) THEN log ELSE Event("proposed", HashOf(id), id.market)
Mine(id) ==
  /\ txs[id] = "pool"
  /\ txs' = Mined(id, txs) /\ log' = Proposed(id)
  /\ UNCHANGED <<nodeVars, worldVars, bounds>>

(* The challenge window outlasts a poll of a node that is running.         *)
WindowPassed(h) == cursor = 0 \/ cursor >= Latest(EventsOf(h))
Execute(h) ==
  /\ Live(h) /\ WindowPassed(h)
  /\ log' = Event("executed", h, log[Latest(EventsOf(h))].market)
  /\ UNCHANGED <<nodeVars, txs, worldVars, bounds>>

Delete(h) ==
  /\ Live(h) /\ deletions < workload.deletions
  /\ deletions' = deletions + 1
  /\ log' = Event("deleted", h, log[Latest(EventsOf(h))].market)
  /\ UNCHANGED <<nodeVars, txs, worldVars, workload, failures, crashes>>

ProposeWithdrawal(w) ==
  /\ EventsOf(w) = {} /\ w \in workload.withdrawals
  /\ log' = Event("proposed", w, None)
  /\ violating' = IF \E m \in Markets : Open(m) THEN violating \cup {w} ELSE violating
  /\ UNCHANGED <<nodeVars, txs, published, archived, bounds>>

-----------------------------------------------------------------------------
(* The agent publishes trade logs and reimbursement requests.              *)
Trade(m) ==
  /\ published[m].phase = "none" /\ m \in workload.markets
  /\ published' = [published EXCEPT ![m].phase = "trading"]
  /\ violating' = violating \cup {w \in Withdrawals : Live(w)}
  /\ UNCHANGED <<nodeVars, chainVars, archived, bounds>>

(* The settlement deposit is on chain and published.                       *)
Settle(m) ==
  /\ Open(m)
  /\ published' = [published EXCEPT ![m].phase = "settled"]
  /\ UNCHANGED <<nodeVars, chainVars, archived, violating, bounds>>

(* The request names the latest snapshot until another one is published.   *)
Request(m) ==
  /\ published[m].phase = "settled" /\ ~published[m].latest
  /\ published[m].request < workload.requests
  /\ published' = [published EXCEPT ![m].request = @ + 1, ![m].latest = TRUE]
  /\ UNCHANGED <<nodeVars, chainVars, archived, violating, bounds>>

Snapshot(m) ==
  /\ published[m].latest /\ published[m].request < workload.requests
  /\ published' = [published EXCEPT ![m].latest = FALSE]
  /\ UNCHANGED <<nodeVars, chainVars, archived, violating, bounds>>

-----------------------------------------------------------------------------
(* One iteration of the control loop.                                      *)

(* What a scan finds; an event of a range that was read counts even when   *)
(* later events of the range supersede it.                                 *)
Found(kind, from, upto) == {log[i].hash : i \in {j \in from + 1..upto : log[j].kind = kind}}
LiveAfter(from, upto) ==
  LET LastIn(h) == Latest({i \in EventsOf(h) : i <= upto}) IN
  {h \in known : \A i \in EventsOf(h) : i \notin from + 1..upto}
    \cup {log[i].hash : i \in {j \in from + 1..upto :
            log[j].kind = "proposed" /\ j = LastIn(log[j].hash)}}

ResetSameGeneration(e) == [e EXCEPT !.tx = None, !.hash = None, !.submitted = FALSE,
                                    !.reimbursed = FALSE]
Reset(e) == [e EXCEPT !.tx = None, !.hash = None, !.submitted = FALSE,
                      !.reimbursed = FALSE, !.gen = @ + 1]
AppliedResetsAll(e, executed, deleted) ==
  IF e.hash \in executed \cup deleted THEN Reset(e) ELSE e
AppliedPaysAll(e, executed, deleted) ==
  IF e.hash \in executed \cup deleted THEN [e EXCEPT !.reimbursed = TRUE] ELSE e
AppliedTo(e, executed, deleted) ==
  IF e.hash \in executed THEN [e EXCEPT !.reimbursed = TRUE]
  ELSE IF e.hash \in deleted THEN Reset(e)
  ELSE e

(* Dispatches older than the grace period are cleared, then the events of  *)
(* the range are applied.  The first scan of a node skips the history when *)
(* it cannot find out where the history begins.                            *)
Poll ==
  /\ stage = "idle"
  /\ \E from \in {cursor, Len(log)} :
       /\ (from # cursor => cursor = 0) /\ FailsIf(from # cursor)
       /\ known' = LiveAfter(from, Len(log))
       /\ \E stale \in SUBSET {m \in Markets : mem.markets[m].dispatched},
            pending \in {mem.pending, None} :
            LET Kept(m) == [mem.markets[m] EXCEPT !.dispatched = @ /\ m \notin stale] IN
            mem' = [mem EXCEPT !.pending = pending,
                     !.markets = [m \in Markets |->
                       AppliedTo(Kept(m), Found("executed", from, Len(log)),
                                 Found("deleted", from, Len(log)))]]
  /\ cursor' = Len(log) /\ changed' = (mem' # mem) /\ stage' = "refresh"
  /\ UNCHANGED <<disk, call, answer, chainVars, worldVars, workload, crashes, deletions>>

Abandoned(e) == [e EXCEPT !.tx = None, !.submitted = FALSE]
Unresolved == {m \in Markets : LET e == mem.markets[m] IN
                 e.tx # None /\ e.hash = None /\ ~e.reimbursed}
RefreshedForgetsPool(m) ==
  LET e == mem.markets[m] IN
  IF txs[e.tx] = "mined" THEN [e EXCEPT !.hash = HashOf(e.tx)] ELSE Abandoned(e)
Refreshed(m) ==
  LET e == mem.markets[m] IN
  CASE txs[e.tx] = "mined" -> [e EXCEPT !.hash = HashOf(e.tx)]
    [] txs[e.tx] = "reverted" -> Abandoned(e)
    [] OTHER -> e

(* Receipts settle pending submissions.  One that cannot be read is left,  *)
(* or given up when its submission is older than the timeout.              *)
Refresh ==
  /\ stage = "refresh"
  /\ \E unread \in SUBSET Unresolved, late \in SUBSET Unresolved :
       /\ Cardinality(unread) <= 1 /\ FailsIf(unread # {})
       /\ late \subseteq unread
       /\ mem' = [mem EXCEPT !.markets = [m \in Markets |->
            CASE m \in late -> Abandoned(mem.markets[m])
              [] m \in Unresolved \ unread -> Refreshed(m)
              [] OTHER -> mem.markets[m]]]
  /\ changed' = (changed \/ mem' # mem) /\ stage' = "decide"
  /\ UNCHANGED <<disk, cursor, known, call, answer, chainVars, worldVars, workload, crashes, deletions>>

Synced(m) ==
  LET e == mem.markets[m] IN
  IF /\ published[m].request \notin {0, e.cid}
     /\ e.tx = None /\ e.hash = None /\ ~e.reimbursed
  THEN [e EXCEPT !.cid = published[m].request, !.gen = 0,
                 !.dispatched = FALSE, !.submitted = FALSE]
  ELSE e

(* The tool calls there are to choose from when the deposits of unread     *)
(* could not be verified: each a new state of the node and a call.         *)
BlockingWhenTraded(unread) == {m \in Markets : published[m].phase # "none"} \cup unread
Blocking(unread) == {m \in Markets : Open(m)} \cup unread
Violations(unread) == IF Blocking(unread) = {} THEN {} ELSE (known \cap Withdrawals) \ mem.disputed
Ready(state, unread) ==
  {m \in Markets \ unread : LET e == state.markets[m] IN
     /\ published[m].request > 0 /\ published[m].latest
     /\ ~e.dispatched /\ ~e.submitted /\ ~e.reimbursed /\ e.tx = None /\ e.hash = None}
First(S) == CHOOSE m \in S : \A other \in S : m <= other
Dispatch(state, m) == [state EXCEPT !.markets[m].dispatched = TRUE,
                                    !.markets[m].cid = published[m].request]
RequestOf(state, m) == [market |-> m, cid |-> published[m].request, gen |-> state.markets[m].gen]
ToolCalls(state, unread) ==
  IF state.pending # None THEN {[state |-> state, call |-> state.pending]}
  ELSE IF Violations(unread) # {}
  THEN {[state |-> [state EXCEPT !.pending = w], call |-> w] : w \in Violations(unread)}
  ELSE IF known = {} /\ Ready(state, unread) # {}
  THEN LET m == First(Ready(state, unread)) IN
       {[state |-> Dispatch(state, m), call |-> RequestOf(state, m)]}
  ELSE {[state |-> state, call |-> None]}

(* The state is written when something changed and once more when a call   *)
(* is chosen; a write that fails ends the iteration, and what is in memory *)
(* stays.  At most one thing fails in a step.                              *)
Decide ==
  /\ stage = "decide"
  /\ LET synced == [mem EXCEPT !.markets = [m \in Markets |-> Synced(m)]]
         stored == IF changed \/ synced # mem THEN synced ELSE disk IN
     \/ \E unread \in SUBSET {m \in Markets : published[m].phase = "settled"} :
        /\ Cardinality(unread) <= 1 /\ FailsIf(unread # {})
        /\ \E c \in ToolCalls(synced, unread) :
             /\ mem' = c.state /\ call' = c.call
             /\ disk' = IF c.call = None THEN stored ELSE c.state
             /\ stage' = IF c.call = None THEN "idle" ELSE "call"
     \/ /\ changed \/ synced # mem
        /\ Fails /\ mem' = synced /\ stage' = "idle"
        /\ UNCHANGED <<disk, call>>
     \/ \E c \in ToolCalls(synced, {}) :
        /\ c.call # None
        /\ Fails /\ mem' = c.state /\ disk' = stored /\ stage' = "idle"
        /\ UNCHANGED call
  /\ changed' = FALSE
  /\ UNCHANGED <<cursor, known, answer, chainVars, worldVars, workload, crashes, deletions>>

(* The proposal node answers.  It knows a request it has archived: the new *)
(* signature of a repeated call is refused as a conflict.                  *)
Answers(kind, id, hash) ==
  /\ answer' = [kind |-> kind, tx |-> id, hash |-> hash]
  /\ stage' = "output"
Archive(id) == archived' = archived \cup {id}
ToPool(id) == txs' = [txs EXCEPT ![id] = "pool"] /\ UNCHANGED log
ToChain(id) == txs' = Mined(id, txs) /\ log' = Proposed(id)

(* Refused, or not stored because a step before the archive failed.        *)
PublishRefused ==
  /\ FailsIf(call \notin archived)
  /\ Answers("failed", None, None)
  /\ UNCHANGED <<chainVars, archived>>
(* The Governor already has these transactions.                            *)
PublishSkipped ==
  /\ call \notin archived /\ Live(HashOf(call))
  /\ Archive(call) /\ Answers("skipped", None, None)
  /\ UNCHANGED chainVars /\ NoFailure
PublishSent ==
  /\ call \notin archived /\ ~Live(HashOf(call))
  /\ Archive(call)
  /\ \/ ToPool(call) /\ Answers("sent", call, None)
     \/ ToChain(call) /\ Answers("sent", call, HashOf(call))
  /\ NoFailure
(* The answer is lost, or the proposal node does not know whether it sent. *)
PublishUnclear ==
  /\ call \notin archived /\ ~Live(HashOf(call))
  /\ Archive(call)
  /\ ToPool(call) \/ UNCHANGED chainVars
  /\ \E kind \in {"failed", "uncertain"} : Answers(kind, None, None)
  /\ Fails
Publish ==
  /\ stage = "call" /\ call \in Ids
  /\ PublishRefused \/ PublishSkipped \/ PublishSent \/ PublishUnclear
  /\ UNCHANGED <<mem, disk, cursor, known, call, changed, published, violating, workload, crashes, deletions>>

(* dispute_assertion sends the transaction and waits for no receipt; when  *)
(* the context of the Governor cannot be read the tool is not run at all.  *)
DisputeSent ==
  /\ Live(call) /\ NoFailure
  /\ log' = Event("deleted", call, None) /\ Answers("sent", None, None)
DisputeRefused ==
  /\ FailsIf(Live(call))
  /\ UNCHANGED log /\ Answers("failed", None, None)
DisputeLost ==
  /\ Live(call) /\ Fails
  /\ UNCHANGED log /\ Answers("sent", None, None)
DisputeNotRun ==
  /\ Fails
  /\ stage' = "idle" /\ UNCHANGED <<log, answer>>
Dispute ==
  /\ stage = "call" /\ call \in Withdrawals
  /\ DisputeSent \/ DisputeRefused \/ DisputeLost \/ DisputeNotRun
  /\ call' = IF stage' = "idle" THEN None ELSE call
  /\ UNCHANGED <<mem, disk, cursor, known, changed, txs, worldVars, workload, crashes, deletions>>

Digested(e, a) ==
  CASE a.kind = "skipped" -> [e EXCEPT !.dispatched = FALSE, !.submitted = TRUE]
    [] a.kind = "sent" -> [e EXCEPT !.dispatched = FALSE, !.submitted = TRUE, !.tx = a.tx,
                             !.hash = IF a.hash = None THEN @ ELSE a.hash]
    [] a.kind = "uncertain" -> [e EXCEPT !.dispatched = TRUE]
    [] a.kind = "failed" -> [e EXCEPT !.dispatched = FALSE]
DigestClearsFirst(state, a) ==
  IF call \in Ids THEN [state EXCEPT !.markets[call.market] = Digested(@, a)]
  ELSE IF a.kind = "sent" THEN [state EXCEPT !.disputed = @ \cup {None}, !.pending = None]
  ELSE state
Digest(state, a) ==
  IF call \in Ids THEN [state EXCEPT !.markets[call.market] = Digested(@, a)]
  ELSE IF a.kind = "sent"
  THEN [state EXCEPT !.disputed = @ \cup {state.pending}, !.pending = None]
  ELSE state

(* A write that fails in the handler of the output makes the tool report   *)
(* an error instead, which is digested and written in turn.                *)
Output ==
  /\ stage = "output"
  /\ LET first == Digest(mem, answer)
         again == Digest(first, Failed) IN
     \/ /\ NoFailure /\ mem' = first
        /\ disk' = IF call \in Withdrawals /\ answer.kind = "failed" THEN disk ELSE first
     \/ /\ Fails /\ mem' = again
        /\ disk' \in {disk} \cup (IF call \in Ids THEN {again} ELSE {})
  /\ stage' = "idle" /\ call' = None /\ answer' = None
  /\ UNCHANGED <<cursor, known, changed, chainVars, worldVars, workload, crashes, deletions>>

Crash ==
  /\ crashes < workload.crashes /\ crashes' = crashes + 1
  /\ mem' = disk /\ cursor' = 0 /\ known' = {} /\ changed' = FALSE
  /\ stage' = "idle" /\ call' = None /\ answer' = None
  /\ UNCHANGED <<disk, chainVars, worldVars, workload, failures, deletions>>

Init ==
  /\ published = [m \in Markets |-> [phase |-> "none", request |-> 0, latest |-> FALSE]]
  /\ log = <<>> /\ txs = [id \in Ids |-> "none"]
  /\ archived = {} /\ violating = {}
  /\ mem = NoState /\ disk = NoState /\ cursor = 0 /\ known = {}
  /\ stage = "idle" /\ call = None /\ answer = None /\ changed = FALSE
  /\ workload \in Workloads /\ failures = 0 /\ crashes = 0 /\ deletions = 0

Loop == Poll \/ Refresh \/ Decide \/ Publish \/ Dispute \/ Output
Governor ==
  \/ \E id \in Ids : Mine(id)
  \/ \E h \in Hashes : Execute(h) \/ Delete(h)
  \/ \E w \in Withdrawals : ProposeWithdrawal(w)
Agent == \E m \in Markets : Trade(m) \/ Settle(m) \/ Request(m) \/ Snapshot(m)
Next == Loop \/ Governor \/ Agent \/ Crash

(* The loop is restarted by a timer, transactions are mined, a proposal    *)
(* nobody disputes is executed, and the agent repeats its request when     *)
(* another snapshot overtook it.                                           *)
Fairness ==
  /\ WF_vars(Loop)
  /\ \A id \in Ids : WF_vars(Mine(id))
  /\ \A h \in Hashes : WF_vars(Execute(h))
  /\ \A m \in Markets : WF_vars(Request(m))
Spec == Init /\ [][Next]_vars
FairSpec == Spec /\ Fairness

-----------------------------------------------------------------------------
(* Types.                                                                  *)
TypeOK ==
  /\ published \in [Markets -> [phase : {"none", "trading", "settled"},
                                request : 0..MaxRequests, latest : BOOLEAN]]
  /\ log \in Seq([kind : {"proposed", "executed", "deleted"}, hash : Hashes,
                  market : Markets \cup {None}])
  /\ txs \in [Ids -> {"none", "pool", "mined", "reverted"}]
  /\ archived \subseteq Ids /\ violating \subseteq Withdrawals
  /\ mem \in State /\ disk \in State
  /\ \A m \in Markets : \A e \in {mem.markets[m], disk.markets[m]} :
       e.gen <= MaxGen
  /\ cursor \in 0..Len(log) /\ known \subseteq Hashes
  /\ stage \in {"idle", "refresh", "decide", "call", "output"}
  /\ call \in Ids \cup Withdrawals \cup {None}
  /\ answer \in Answer \cup {None} /\ changed \in BOOLEAN
  /\ workload \in Workloads
  /\ failures \in 0..workload.failures /\ crashes \in 0..workload.crashes
  /\ deletions \in 0..workload.deletions

Paid(m) == Cardinality({i \in DOMAIN log : log[i].kind = "executed" /\ log[i].market = m})

(* A market is reimbursed once, whatever its requests, retries and         *)
(* deletions: the entries of node-controller.js keep a second proposal     *)
(* from being made.                                                        *)
ReimbursedOnce == \A m \in Markets : Paid(m) <= 1

(* That holds over deletions, new requests and reverted transactions as    *)
(* long as no call fails and the node does not restart.                    *)
ReimbursedOnceUntilFailure == failures = 0 /\ crashes = 0 => ReimbursedOnce

(* The entry of a market whose reimbursement is proposed knows it, by hash *)
(* or by transaction, or the answer that tells is being digested; only     *)
(* then onToolOutput and the lifecycle events find the right entry.        *)
LiveIsTracked ==
  failures = 0 /\ crashes = 0 =>
    \A i \in DOMAIN log :
      i = Latest(EventsOf(log[i].hash)) /\ log[i].kind = "proposed" /\ log[i].market # None =>
        LET e == mem.markets[log[i].market] IN
        \/ e.hash = log[i].hash
        \/ e.tx # None /\ HashOf(e.tx) = log[i].hash
        \/ answer # None /\ call \in Ids /\ HashOf(call) = log[i].hash

(* A market that the node takes for reimbursed was reimbursed, also after  *)
(* restarts that replay the history of the Governor.                       *)
BelievedPaid ==
  \A m \in Markets : mem.markets[m].reimbursed \/ disk.markets[m].reimbursed => Paid(m) > 0

(* A dispute that the oracle would accept is about a withdrawal that was   *)
(* live while a market was not settled.                                    *)
DisputeJustified ==
  stage = "call" /\ call \in Withdrawals /\ Live(call) => call \in violating
DisputeJustifiedUntilFailure == failures = 0 => DisputeJustified

(* The dispute the node would make is moot, the end of a proposal was      *)
(* scanned before the entry learnt the hash.                               *)
Moot == mem.pending # None /\ ~Live(mem.pending)
Overlooked(m) ==
  LET h == mem.markets[m].hash IN
  h # None /\ ~Live(h) /\ cursor >= Latest(EventsOf(h))

(* A requested reimbursement is paid in the end, when nothing fails, no    *)
(* dispute is stuck and the end of no proposal was overlooked.             *)
RequestedIsPaid ==
  \A m \in Markets :
    published[m].request > 0
      ~> Paid(m) > 0 \/ failures > 0 \/ crashes > 0 \/ Moot \/ Overlooked(m)
=============================================================================
