# Formal verification of the Oya commitments agent and nodes

TLA+ models of the parts of this repository that keep state over time: the agent's
message inbox and its loop, the message publication node, the proposal node, and the
two agent modules with durable obligations (the control node of the staked settlement
and the Polymarket intent trader). TLC checks them on small instances; TLAPS proves
their types and all but one of their safety properties for all sizes, among them that
inbox, publication node and trader implement abstract specifications. Paths below are
relative to the repository; `lib/` is `agent/src/lib/`.

## 1. Inventory

| component | state | operations | what is hard |
|---|---|---|---|
| **Message inbox** `lib/message-inbox.js` | queue, leases, request cache, token buckets (memory) | `submitMessage`, `takeBatch`, `ackBatch`, `requeueBatch`, pruning queries | expiry against lease against give-back, one limit over two containers, idempotency and replay locks with different lifetimes, time stamps older than the clock |
| **Message API and loop** `lib/message-api.js`, `signed-request-auth.js`, `message-loop.js`, `decision-support.js` | none of their own | authenticate and submit; lease, decide, settle | handlers and loop interleave at awaits; the loop may throw in the middle of a batch |
| **Message publication node** `lib/message-publication-{api,store}.js`, validator in `agent-library/agents/polymarket-staked-external-settlement/` | JSON file; `volatilePublicationStates`, two maps of promise chains (memory) | publish with exact retry | whole-record writes, catch block outside the chains, writes failing between IPFS and disk, restart |
| **Proposal node** `lib/proposal-publication-{api,store}.js`, `proposal-verification.js`, `tx.js` | JSON file; three maps of promise chains | publish, verify, propose on chain, reconcile | lost answers after sending, at-most-once submission, two handlers reimbursing one deposit, chain state read at different times |
| **Optimistic Governor** (external contract) | live proposals, events | propose, execute, delete | transactions pending, mined late, reverted; the same transactions proposed again |
| **Agent loop and polling** `lib/runtime-loop.js`, `polling.js`, `chain-history.js`, `signal-prep.js`, `timelock.js` | cursors, proposals by hash, deposit history, timelocks (memory) | poll, record, execute, decide | a phase that throws after a cursor moved, head lag, executions retried, timelocks of failed decisions |
| **Decision runtime and tools** `lib/decision-runtime.js`, `decision-support.js`, `tools.js` | none | run tools, classify their outputs | effects of a decision that failed |
| **Control node** `agent-library/agents/polymarket-staked-external-settlement/node-controller.js`, `node/scripts/start-control-node.mjs` | JSON file; cursor and known proposals (memory) | poll, reconcile, dispatch reimbursements and disputes, digest | dispatch racing its answer, timeouts, late deletion events, markets that share a hash |
| **Intent trader** `agent-library/agents/polymarket-intent-trader/*.js` | JSON file; queue of events, pending submissions (memory) | accept intents, order, deposit, reimburse, recover from the chain | lost answers, errors after an effect, credit given back while an order may fill, transfers that look alike, equal proposal hashes |
| **Shared packages** `packages/{utils,ethereum,ipfs,messages}` | none | retry with abort, raw transactions, IPFS calls | an aborted attempt that completes |
| Polymarket clients, other agent modules, configuration, Solidity, scripts, frontend | varies | varies | see section 8 |

A client signs a message and sends it to the message API; the handler puts it in the
inbox; the agent loop leases it and the decision engine may act on it. Module code
publishes signed messages and proposals through the two nodes, which archive
artifacts in IPFS; the proposal node also verifies a proposal against its stored
records and the chain and sends it to the Governor. The loop polls the chain, keeps
timelocks, executes proposals whose window is over and calls the agent module, whose
tool calls go out to the chain, the exchange or the nodes; the control node is a loop of
the same shape with its own state file. Everything runs on the event loop of a Node
process: a step is the code between two awaits, or, where one process has a single
thread of control (the loops), the code between two calls that others can come between.

What makes each component correct:

* inbox: capacity, no lost, doubled or resurrected message, one live copy of a
  request, replay locks, rate limits;
* service: no stranded lease, no second decision of a settled message, retries first,
  every message leaves;
* publication: one CID for a request whatever fails, one owner of a key, sequence
  numbers of a stream without repetition, every request answered;
* submission: nothing known to be submitted is submitted again, a stored hash stays, a
  deposit is reimbursed once, handlers never wait for each other in a circle;
* loop: what the cursors pass is handed over, one execution of a proposal in flight,
  a timelock acts once and fires, a ready proposal is executed;
* control node: a market is reimbursed once and the entry of a live reimbursement knows
  it, nothing is believed paid that was not, disputes are justified, requests are paid;
* intent trader: an intent is traded, deposited and paid once, what may have been spent
  is covered by credit (both fail for an order that took effect and was answered as an
  error), nothing counts as deposited or reimbursed that was not.

## 2. Modules

| module | what it is |
|---|---|
| `MessagePool` | abstract: accepted messages wait in line or are leased until they expire or are acknowledged; leases come from the head of the line and go back to it |
| `MessageInbox` | the inbox under its most general client: any request stamped up to `MaxLag` ticks ago, any batch, any settlement of any leases; `PoolSpec` is its refinement of the pool |
| `MessageService` | EXTENDS the inbox: handlers that authenticate and submit, the loop that leases and settles; `InboxSpec` says it implements the inbox |
| `MessageInboxProofs` | the theorems about `MessageInbox` |
| `MessageServiceProofs` | the theorems about `MessageService` |
| `PublicationLedger` | abstract: the first request owns a key, at most one artifact is announced for it |
| `MessagePublication` | the message publication node; `LedgerSpec` is its refinement of the ledger |
| `MessagePublicationProofs` | the theorems about `MessagePublication` |
| `ProposalSubmission` | the submission half of the proposal node, its deposit check, the sender and the Governor |
| `ProposalSubmissionProofs` | the theorems about `ProposalSubmission` |
| `SharedLemmas` | lemmas the proofs share: sequences without repetitions (joining, leaving and being first in a chain of promises); induction over the subsets of a finite set, and with it that folds exist and that a total does not depend on the order of summation |
| `AgentLoop` | the loop of the runtime: polling, timelocks, executions, the status of decisions |
| `AgentLoopProofs` | the theorems about `AgentLoop` |
| `ControlNode` | the control node's loop and state file over the agent's publications, the proposal node and the Governor |
| `ControlNodeProofs` | the theorems about `ControlNode` |
| `CreditLedger` | abstract: an intent is accepted within the credit, ordered, answered, and paid or released; it may fall in doubt instead of being ordered |
| `IntentTrader` | the intent trader's pass and state file over the exchange, the Safe and the Governor; `CreditSpec` is its refinement of the ledger |
| `IntentTraderProofs` | the theorems about `IntentTrader` |
| `MC*` | the instances |

Operators named "variant for mutation" in a comment are deliberately wrong versions of
the operator they precede; no specification uses them. Each is a mistake a change of
the code could make, kept to confirm that the property it belongs to notices.

### MessageInbox
The array `queue` is a function from messages to places (`push` appends behind every
place, `unshift` goes before the first), the maps are functions with a "none" value.
Every public function begins with `pruneExpired`: the operators `Fresh...` are its
effect and are part of every action, never an action alone. The refinement `PoolSpec`
shows the pool what is alive at the clock: pruning, caching and metering are then no
steps at all, and expiry happens when the clock passes, whenever the code notices.
`submitMessage` has one action per outcome: `Reject`, `RejectRate`, `Answer` (duplicate
or full, a token is spent) and `Enqueue`. `accepted` and `acked` are histories. Text,
arguments, metadata and every field check other than the deadline are the bit
`wellFormed`.

### MessageService
`Authenticate` reads the clock and starts the signature check, `Submit` ends it, up to
`AuthLag` ticks later, with the time that was read first (`message-api.js:183`).
`LoopTake`, `LoopSettle(status)`, `LoopError` are `processQueuedUserMessages` at
its awaits; the decision engine may answer any status. Requests of this API are
always signed; API-key senders occur in the model of the inbox only.

### MessagePublication
`task[h].at` is the await a handler stands at. `storeQueue` is `enqueueStoreOperation`:
one operation at a time in the order of issue. `keyTail` and `lockTail` are
`publishOperationTails` and `publicationConflictTails`: a handler has its turn when no
earlier one in the chain shares its key. The code between the end of a store operation
and the next await is one action. `Ready` marks pending microtasks, which run before any
other callback. A failing write, IPFS call or attestation is the branch with `Fails`.
`Catch`, `Reread`, `SaveError` are the catch block. A CID is a hash of the artifact, so
the artifact stands for it; its `stamp` is the publication time that makes it unique.
Requests that are malformed or badly signed change nothing and are left out.

### ProposalSubmission
Places of a handler again follow the awaits: `Published` (the record was published),
`TakeKeyTurn`, `TakeDepositTurn`, `VerifyStore`, `VerifyChain`, `SaveVerdict`,
`Prepare` (bond, allowance, simulation), `Broadcast`, `Notify` (the callback that saves
the hash), `Receipt`, `SaveResult`, `Skip`, `Recover` and `Reconcile`. All writes of a
submission state happen in the chain of its key, so a store operation is one step
here. `log` is the Governor's event log and `Mine`, `Execute`, `Delete` are its
actions: transactions of the one account are mined in nonce order, and one whose
proposal is live already reverts.

### AgentLoop
`stage` is the phase of `agentLoop`. `Throws` is a phase that throws: the iteration is
over, and what the cursors passed stays passed. `ScannedTo` is the head-lag fallback
(the cursor follows the range that was read), `KnownAfter` the events of a range in the
order of the chain. `Wait` and `Attempt` are one pass of `executeReadyProposals` over
one proposal. The decision is `Evaluate` over any set of tool outputs, or a status
without tools. A block holds at most one event and chain time is counted in blocks.
`acts` and `handed` are histories. Price triggers, balances and queued messages
(`MessageService`) are left out.

### ControlNode
`Poll`, `Refresh`, `Decide`, `Publish`/`Dispute` and `Output` are one iteration of
`start-control-node.mjs`. `mem` is the state, `disk` its last write; `Crash` returns to
`disk` and reads the Governor's log from the start. `PayloadOf` gives a request its
transactions, which stand for the proposal hash. The agent's side (`Trade`, `Settle`,
`Request`, `Snapshot`) and the user's withdrawals come in between any two steps.

### IntentTrader
`Poll`, `Ingest`, `Refresh`, `Choose`, `Call`, `Output` are a pass; each ends with the
state saved, so `Crash` loses the loop's variables only. The exception is an `Ingest`
that throws when the logs cannot be read: what it applied stays in memory and is saved
with the next change. `IngestThrows` saves it at once. Nothing outside the process sees
the difference: no call and no transaction lies between the two, and a process that dies
in between is one that died before the logs were asked for (`Crash` instead of
`IngestThrows`), from which the hashes are read again. A record has a status and the
stages of its order, deposit and reimbursement; `lost`, `unsure` and `late` are the
ambiguity marks of `lifecycle-stage.js`. `Recovered` applies what the Governor's log says
of an intent's commitment, `Found` matches transfers into the Safe with intents that
await one. The amount of an intent stands for its proposal hash and its tokens.

The answer of a tool (`Errors`, `LateErrors`) follows its error path. Any error of the
order tool is "retry", whether the exchange took the order (`LateErrors`) or not; the
record is then as if no order had been placed (`Ordered`), so the intent may be chosen
again or expire. `denied` marks such an order: the agent does not see it, the properties
do. The deposit tool answers twice; the first answer, with the hash, settles the call
(`takePendingSubmission`), the second, with the receipt, is dropped, and `DepositRead`
reads the receipt at the next pass. When that tool throws, its pass ends without an
answer and the intent stays dispatched until `TimedOut`. `PhaseOf`
is how far an intent has come: from the record before an order can be placed and after
the intent was released, from the exchange and the chain in between. It is "doubted" when
one of its orders was denied: the ledger lets it be paid and released.

## 3. Runs

| run | question | result |
|---|---|---|
| `inbox` | refinement of the pool, capacity, one live copy, nothing lost, replay lock, rate bound under any client | holds |
| `service` | leases, settled messages, order of retries, refinement of the inbox, every message leaves | holds |
| `publication` | answered CIDs stay, one CID until a restart, distinct sequence numbers without failures, refinement of the ledger, every request answered | holds |
| `publication_retry_crash` | one CID for a request | violated |
| `submission` | nothing submitted is submitted again, resolved means proposed, deposits reimbursed once without failures, chains never block | holds |
| `deposit_reproposed` | a deposit is reimbursed once | violated |
| `control` | one reimbursement per market and its tracking until a failure, belief, justified disputes, requests are paid | holds |
| `reimbursed_twice` | a market is reimbursed once | violated |
| `agent_loop` | nothing lost, one execution in flight, timelocks act once and fire, ready proposals executed | holds |
| `intent_trader` | once per intent and refinement of the credit ledger but for denied orders, deposits and reimbursements are real | holds |
| `deposit_counted_twice` | an intent that counts as deposited has a transfer of its own | violated |
| `credit_overcommitted` | what the orders of the agent may have spent is covered by the credit | violated |

### Bounds
* `inbox`: two places, four acceptances, a burst of two with one token a tick, four
  ticks, a signed and an API-key sender. A message can be leased, given back, expire
  and be sent again, the queue can be full of leases only, and an idle bucket is
  forgotten and comes back. Stamps equal the clock (`MaxLag = 0`).
* `service`: two handlers, a queue and a batch of two, signature checks of up to two
  ticks, message lifetimes of one to three ticks: checks end after the message they
  would duplicate has expired, or after the batch was leased. Messages accepted are
  bounded by two, which suffices for every order of two retries.
* `publication`: three handlers, with either two conflicting requests for a key or three
  snapshots of a stream over two keys, failures and a restart: every pair of handlers
  can compete in the store, in a key and in the stream, and a failing write is met by
  a retry. `publication_retry_crash` needs four failures and a restart.
* `submission`: three handlers, two proposals that share a deposit and one of which has
  another, a failure, a restart, a deletion, in the modes enforce, advisory and off:
  a submission can be retried after a lost answer and raced by the other proposal.
* `deposit_reproposed`: three proposals, of which two have the same transactions; no
  failure and no restart are needed.
* `control`: a set of workloads, each a different combination of two markets or two
  requests of one, a withdrawal, a failing call, a restart and a deletion. All at once
  is out of reach; pairs of faults, and one load with all three, are in.
  `reimbursed_twice` has two markets with the same amount and one deletion.
* `agent_loop`: workloads with up to two deposits or one proposal hash proposed twice,
  three or four blocks, a window and a delay of one block, a failing phase and a
  restart: a scan can stop before an event, a proposal can be deleted and proposed anew
  within one range, and an execution can be late, reverted or forgotten.
* `intent_trader`: two intents of equal or different amounts with credit for both or for
  one, two failures and a crash, or one failure, one crash and one disputed proposal;
  at most four transactions (`MaxTxs`), the number the two intents need without faults:
  with one intent given up, the other can have one sent again. `credit_overcommitted`
  has credit for one of two intents and a single failing call.

`CHECK_DEADLOCK FALSE` is set where a finite number of requests, blocks or transactions
is made and the system may rest after them: the nodes, the loop, the control node and
the trader. The inbox and the service always have a next step and are checked for
deadlock.

### What the violated runs show
* `publication_retry_crash`: the catch block of an attempt writes back a record it read
  before a concurrent retry saved its artifact; after that retry's writes fail too and
  the node restarts, another exact retry gets another CID.
* `deposit_reproposed`: a proposal that was deleted and proposed again under another
  request id is live, but both parts of the deposit check take it for deleted.
* `reimbursed_twice`: two markets owed the same amount have the same transactions and so
  the same proposal hash. When the proposal of the second is deleted, the entry of the
  first, executed and marked as reimbursed, is reset too and paid again.
* `deposit_counted_twice`: the transfer that proved the deposit of one intent, mined after
  the order of the next was dispatched, proves that of the next as well.
* `credit_overcommitted`: the order tool answers every error as one that may be retried
  (`tools.js:1414-1423`), also that of a `POST /order` which timed out after the exchange
  took the order. The reducer only sets a time for the next attempt, so the intent is
  offered again, with another salt, or expires and its credit goes to another intent,
  while the first order may fill.

Seen while modelling, and part of the models, without a run of their own:
* Once a dispute is pending it is returned at every poll and its dispatch time renewed;
  when the proposal it is about is gone, nothing is reimbursed any more (`Moot`).
* A receipt that fails to be read counts as a missing settlement deposit, so that a
  rightful withdrawal may be disputed; `DisputeJustified` only holds until a failure.
* The trader keeps the credit of a reimbursed intent reserved and compares it with the
  balance of the Safe, from which it was paid: headroom is counted down twice.
* A commitment on record that was deleted clears the submission of a newer proposal of
  the intent as long as its hash is not known, so the proposal may be sent again; the
  Governor refuses it while the first is live, and the refusal then closes the intent.
* An artifact is saved before IPFS is called, and a record that has one is not validated
  again. When the call fails, another snapshot of the stream can be published before an
  exact retry of the first: two snapshots with one number, after which the validator
  refuses the stream. `SequenceUniqueUntilFailure` therefore claims nothing after a
  failure (TLC refutes `SequenceNumbersUnique` with a single one).
* At the instant `signedAt + window` a signature is still accepted
  (`signed-request-auth.js:107` compares with `>`) and the replay lock is gone
  (`message-inbox.js:71` compares with `<=`), although the comment at
  `message-inbox.js:397-398` has the lock cover the full window. The tick after the last
  one at which validity is left is not part of `ReplayLockHolds`.
* The exchange may take an order and answer without an id: the intent waits for a
  reconciliation that never comes, its credit reserved.

## 4. Fairness
* Handlers: `WF_vars(HandlerStep(h))`. Node's event loop runs every ready callback and
  every I/O call settles, as success or failure. Nothing is assumed of clients, of the
  chain or of crashes; a crash ends its handlers.
* `LoopFairness`: `setTimeout(agentLoop, ...)` runs at the end of every iteration, also
  after an exception (`runtime-loop.js:294-298`), hence weak fairness of taking and
  of settling. Strong fairness of a settlement that is not retryable is an assumption
  on the decision engine, not something the code provides: without it a message at the
  head of the queue leaves only when its deadline passes.
  The clock of an instance stops at `MaxTime`, so `EveryMessageLeaves` does not rest
  on expiry.
* `AgentLoop`: weak fairness of the loop (the same timer) and of new blocks and mining.
  Strong fairness of an attempt (a backoff is over at some pass), of scans that reach
  the head (the provider's lag ends) and of a decision that is handled are assumptions on
  the environment: without them a timelock is signalled for ever and never marked.
* `ControlNode`: weak fairness of its loop (`start-control-node.mjs` restarts it by a
  timer), of mining and execution, and of the agent repeating a request another snapshot
  overtook. Deletions, failures and crashes are never forced.
* `IntentTrader` has safety properties only: a timeout or a backoff may last for ever.

## 5. Proofs
Every theorem is of the form `Spec => []P` or `Spec => P`, for every value of the
constants that satisfies the assumptions of the module, and P is a property of a run,
an inductive invariant, a consequence of a refinement that is stated for itself
(`InboxSingleHome`), or the provable half of a property (`SubmissionGoesOn`,
`TraderExposure`). One step per action of `Next` preserves each part of an invariant;
what several of those steps need is a lemma. The constants that bound failures, restarts
and requests are any natural numbers in the proofs.

### The inbox: `MessageInboxProofs`
`InboxTypes`, `InboxCapacity`, `InboxSingleHome`, `InboxOneLiveCopy`, `InboxNothingLost`,
`InboxReplayLock`, the refinement `InboxIsPool`, and `InboxRateBound`. All but the last
are for any number of senders, any queue limit, lifetimes and window and any age of time
stamps, and follow from `IInv` (`InboxInvariant`). Only `TypeOK` stands by itself. `IInv`
is the conjunction of the safety properties with four parts of their own, each needed by
one of them:

* `Finite`: queue, leases and history are finite, so that counts and the two ends of
  the queue exist (`CapacityBound`, `push` and `unshift`);
* `IdsUnique`: an id counts the accepted messages, so a new message equals none that
  is pending or acknowledged (`SingleHome`, `NothingLost`);
* `CacheCoversPending`: the cache holds the entry of every live pending message for
  at least its lifetime. A duplicate is then recognised as long as the first copy
  lives, also when the request was stamped in the past: pruning with an old time
  drops less, and what is judged dead at the old time is dead now (`OneLiveCopy`);
* `CacheCoversLocks`: while a signature has validity left, counted from the time it was
  made, the cache has the entry that locks its request id, whatever was pruned and with
  which time stamp (`ReplayLockHolds`).

`InboxIsPool` has one lemma per step of the pool. Pruning at a time stamp that is past
never touches what is alive (`LiveStays`), so every outcome but `Enqueue` is a stutter
(`PruneIsQuiet`). What is accepted is new by its id, fits the limit, since what lives is
part of what was counted, and has no live copy, since the cache would still hold it
(`EnqueueIsAccept`, by `CacheCoversPending` and `KeyIsFree`). `push` and `unshift` give
places behind and before all others (`PushedBehind`, `UnshiftedPlaces`), so that the line
is the order of places (`TakeIsTake`, `RequeueIsGiveBack`). The run has stamps at the
clock; that late ones keep to the pool too is the theorem's to say.

`InboxRateBound` has two invariants of its own, `Punctual` (no bucket and no message is
of a later time than the clock) and `Fair`: what a sender was admitted for since any
time, and what its bucket would hold if it were refilled now, are together at most a
burst and the refill since. A token is paid for each message, and forgetting a bucket
changes nothing because it is full by then. The theorem has three hypotheses, each of
which the code can leave: `RateLimited` (the limit is configured); `Prompt` (no time
stamp is older than the clock: a bucket that is refilled to an earlier time gains the
interval twice); and `FullWhenForgotten`, that the time after which an idle bucket is
dropped suffices to fill it, as it does with the defaults. The run has these values.

### The service: `MessageServiceProofs`
`ServiceIsInbox` is the refinement: each step of a handler or of the loop is one of
the inbox's general client, or changes nothing of the inbox. With it every theorem about
the inbox holds of the running service, and `ServiceIsPool` that it is a message pool.
The step needs `CallsFresh` (a time stamp is
at most `AuthLag` old when it reaches the inbox, and `AuthLag <= MaxLag`), and
`LeasesBelongToLoop` with `BatchApart` to say that what the loop gives back is what is
leased. `ServiceLeases`, `ServiceSettled` and `ServiceRetries` follow from `SInv`
(`ServiceInvariant`), which joins `IInv`, those parts, the three properties and
`HistoryAccepted`: what was settled or tried was accepted, so a message that arrives is
none of it. Three facts carry the steps: giving back a batch is giving back its leased
part in its order (`GivenBack`); a batch is the front of the queue (`TakenByLoop`), so
that what is left was never before it (`RetriesFirst`); and pruning thins the queue but
moves nothing.

### The publication node: `MessagePublicationProofs`
`PublicationTypes`, `PublicationOneCid`, `PublicationDurable`, `PublicationSequence` and
the refinement `PublicationLedgerHolds`, for any handlers, keys, streams and requests.

* `Shape`: types; `Chains` (who waits in which chain of promises, and that the one who
  works on a key is first in it; a second for the store, whose operations run one at a
  time); `Records` (a handler's copy is of its key and its request).
* `Phases`: a key goes through three phases although catch blocks write whole records
  back from outside the chains. It has no CID anywhere (`Unnamed`); or its artifact has
  one, which catch blocks of earlier failures may still overwrite before the handler that
  persists it comes to write (`Contested`); or nothing forgets it any more (`Named`). The
  last two are of one artifact until a restart empties the memory, and the answers so far
  named its CID or none. One lemma per place of a handler shows what it does to the phase.
  `OneCidUntilCrash` follows, until a restart empties the memory: run
  `publication_retry_crash` shows that the condition is needed.
* `Settled`: once an answer was successful the key is named on disk for good, also over
  crashes. This is `AnsweredCidIsDurable`, and the announced artifacts and the owners
  it leaves are those of `PublicationLedger`.
* `CalmKeys`: without failures a snapshot number that was validated is still free when it
  is published, since an artifact is on disk without CID only while its handler, first in
  the chain of the stream, is about to publish it. After a failing IPFS call it stays
  there, and the condition is needed.

The proofs need `NoneAssumption`: the undefined value is no request and no artifact.

### The proposal node: `ProposalSubmissionProofs`
`SubmissionTypes`, the action property `SubmissionFinality`,
`SubmissionResolvedWasProposed`, `SubmissionDepositOnce` and `SubmissionGoesOn`.

* `Shape`: types, the chains of keys and deposits, and that a hash in a record or in a
  handler is that of a transaction for its request (a handler broadcasts once).
* `Stored`: what the handler that holds a key may rely on in the stored state. It is read
  before the awaits of verification and preparation and used after them; nobody else
  writes it in between because the writers of a key are one at a time. `Broadcast` then
  starts from a state without a hash, and a hash is only written where there was none
  (`SubmissionIsFinal`), over any failures and crashes.
* `Seen`: what is taken for proposed has been proposed, for each of the three ways a
  state becomes "resolved".
* `Reserved`, `Lifecycles`, `Verifications` (for the last theorem): handlers that
  verify and submit exclude others that share a deposit; while nothing fails the log is
  the mined transactions and stored states know them; so of two transactions that
  share a deposit one is over, and whoever has verified a deposit found those of others
  over. The hypothesis `DistinctPayloads` (different requests, different transactions) is
  needed: run `deposit_reproposed` violates the property without it.
* `BlockedWait` (who is blocked is in the chain of deposits): the front of the chain of
  deposits waits for nobody, and when that chain is empty the front of the chain of keys
  does not. `SomeoneGoesOn` is this half of `ChainsNeverBlock`; that a handler which waits
  for nobody has a step is left to the run.

### The loop: `AgentLoopProofs`
For any deposits, hashes, delays and workloads, `LoopTypes`, `LoopTimelockActsOnce`,
`LoopOneExecutionInFlight` and `LoopNothingLost`. All rest on
`Shape`: the types, the kind of event each subject has (`Events`), what an iteration holds
in which phase (`Phases`), and that a known proposal has an event up to the cursor
(`Cursors`), without which "the latest event of its hash" is not a block. Each of the
three others needs a strengthening that holds while `Calm`, that is until a phase fails or
the agent restarts:

* `FiredWhenActed`: a timelock that had side effects is marked as fired; an outcome with
  effects is "handled" (`OutcomeTypes`), so the decision marks what it acted on;
* `Tracking`: an execution of the latest proposal of its hash that did not revert is the
  one `known` names, so an attempt that is allowed has none left (`Freed`); a scan keeps
  that because a hash it touches has a later event (`TrackingPollProposals`);
* `Handed`: what is owed at the cursors is in the hands of the iteration or was handed
  over, and each recorded deposit is in the history; a cursor that follows the range read
  keeps that (`HandedPollCommitment`, `HandedPollProposals`).

### The control node: `ControlNodeProofs`
`ControlTypes`, `ControlDisputes`, `ControlBelieved`, `ControlReimburses` and
`ControlTracks`, for any markets, requests and withdrawals and any number of deletions.

* `Shape`: types and stages, with a bound on the retry generation: an entry is reset for
  a deletion the cursor passes, and after a restart for all of them again (`Generations`).
* `Courts`: while a market is open, live withdrawals are in the set under dispute
  (`Blocked`); what the node knows has events (`Known`); and until a call fails whom it
  accuses is one of them, or is no longer live (`Accused`), in memory as on disk, so that
  a restart undoes nothing.
* `Belongs`: events, entries, answers and transactions belong to the market they name,
  provided the transactions of two markets differ (`MarketsApart`). Then an executed
  proposal marks no other market's entry, through any failures and replays.
* `OneAtATime`: while `Calm`, a market is waiting (nothing live, nothing paid, no deletion
  the node has not read) or has made one request that is live, was paid, or was deleted;
  and each transaction in the pool is tracked by the entry or by the answer being digested.
  It is inductive only with the part about unread deletions: an entry is reset by the scan
  that reads them, and a new generation starts from a market that is waiting.

`MarketsApart` is needed: run `reimbursed_twice` has two markets that are owed the same
amount, and one of them is paid twice. The deployment avoids it only by chance, so it is a
hypothesis of three theorems, not an assumption of the module. `CallsApart` says that
identifiers of different kinds differ.

### The intent trader: `IntentTraderProofs`
`TraderTypes`, `TraderOncePerIntent`, `TraderExposure`, `TraderDepositIsReal`,
`TraderBelieved` and the refinement `TraderKeepsLedger`: every property of the run
`intent_trader`, for any intents, credit and failures.

* `Shape` (`TraderShape`): types; `Records` (what a record claims fits the exchange, the
  transactions and the chain: an order that is not placed was not tried or was denied, a
  submitted deposit is the one transfer that may still arrive, only an intent is released
  for which nothing was spent or which is in doubt); `Once`; and `Calls` (a call is about
  a record marked for it, and its effect agrees with its answer, so a "retry" or
  "refused" left nothing behind but a denied order). Each reading of the exchange, of a
  transaction or of transfers keeps a record sound. The hashes of the polls that waited
  are applied one by one, so what they do to the records is a fold, and the lemma is an
  induction over the set of polls. `DepositIsReal` and `BelievedReimbursed` follow at once.
* `Progress` is how far the trade of an intent has come. As long as none of its orders
  was denied there is one at most (`Single`), and its state is the progress; after a
  denial it is "doubted" for good, and the record says nothing of it any more.
* `Covered`: what is reserved is at most the credit. An intent is accepted only when it
  fits what is left, and only a release ends its reservation. The lemmas on totals say
  what one intent more or fewer does to the sum, for any number of them.
  `UndoubtedCovered` (`TraderExposure`) follows, because what is spent is reserved
  (`Sound`): the orders of intents that are not in doubt are within the credit. It is the
  part of `ExposureCovered` that is true; the run `credit_overcommitted` refutes the rest.
* `PaidOnce`: while a reimbursement is chosen or in the pool nothing is executed, and an
  intent that was paid is either closed, or was paid so lately that the pass still takes
  its proposal for live and chooses no reimbursement (`JustPaid`); the next `Ingest`
  closes it. It rests on the assumption in `Execute` that a challenge window is longer
  than a pass and than a pending transaction.
* `TraderKeepsLedger`: `Shape` says what a phase says of the record (`PhaseIs`,
  `PhaseReads`). A step of the exchange or the chain is one step of one intent
  (`WorldKeepsLedger`); a call is one, or none (`CallKeepsLedger`); and the trader's own
  steps only accept, within what `Covered` leaves, or release (`AloneKeepsLedger`). For
  the last, readings of the world move a record on (`Later`) and never let go of a
  reservation (`Holds`); what expires has not been traded, or its order failed (`Sound`).

`NoneApart` says that the undefined value is no call.

### Only model-checked
* `ChainsNeverBlock`, which is stated with ENABLED; `SubmissionGoesOn` proves what it
  says of the chains.
* The properties with fairness: that messages leave, requests are answered, deposits are
  handed over and executions and payments happen.

## 6. Abstractions to keep in mind
* The clock is discrete, and constants are a few ticks; orderings of deadlines matter,
  not their lengths.
* The code forgets an idle bucket after the larger of the idempotency lifetime and a
  minute (`message-inbox.js:40`), whatever the bucket needs to fill up. `RateBound` is
  checked where the idle time suffices to refill it, as the defaults have it; with a
  short idempotency lifetime and a large burst a sender could get a full bucket early.
  It is also checked with requests stamped at the clock: signature checks are taken to
  reach a bucket in the order of their stamps.
* A store that cannot be read, or a write outside every `try`, is an unhandled
  rejection, which stops the process: a crash.
* Verification is its deposit check: templates, rules text and balances are taken to be
  valid, as is the previousCid link and the contents of trade-log snapshots.
* Publishing a proposal is one step in `ProposalSubmission`. A pending record that is
  refreshed is written back outside the chains, but before it has an artifact, hence
  before there is a submission state to lose.
* The workloads of `ControlNode`, `AgentLoop` and `IntentTrader` are chosen in `Init` and
  bound what others do; they are bounds of the instance, not of the code.
* The intent trader's intents are those of one signer for one token, filled for what was
  reserved; a challenge window is longer than a pass and than a pending transaction.

## 7. Plan
1. done: `MessageInbox`, `MessageService`; `MessagePublication` with its ledger;
   `ProposalSubmission`; `AgentLoop`; `ControlNode`; `IntentTrader`, each with its proofs.
2. Abstract specifications: done for the inbox, the publication node and the trader, with
   their refinements proved; left for the proposal node and the control node.
3. `ProposalPublication`: the publish half of the proposal node.
4. The log-chunk and deployment-block searches as functions against a reference;
   trade accounting of the staked settlement as a pure algorithm.

## 8. Not modelled, and why
* LLM and price feeds: an external decision of any outcome. Of the tools, those the
  control node and the trader call are part of their models; the rest are pure I/O.
* Plain transfers, Polymarket CLOB and relayer clients: request and response I/O without
  concurrency of their own.
* Trade ledger of the staked settlement: arithmetic on one snapshot.
* Shared packages: not imported by the agent or the nodes.
* Canonical JSON, signatures, HTTP parsing: encodings; a check is an outcome.
* Other agent modules: strategies, each with its own rules, over the same loop; those
  with a state file are the next candidates.
* Configuration, bootstrap, deployment scripts, Solidity (a factory and thin glue),
  frontend, built `dist/` copies, `plans/`, `docs/`, `skills/`: no behaviour over time
  shared with the nodes.
