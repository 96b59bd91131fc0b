----------------------------- MODULE AgentLoop -----------------------------
(***************************************************************************)
(* The loop of the agent runtime (runtime-loop.js): it scans the chain for *)
(* deposits and for the proposals of the Optimistic Governor, executes     *)
(* proposals whose challenge window is over, keeps the timelocks that      *)
(* deposits start, and hands what is new to the decision engine            *)
(* (decision-runtime.js).  A phase that throws ends the iteration; the     *)
(* cursors, the proposals known and the timelocks live in memory only.     *)
(*                                                                         *)
(* A block of the chain holds at most one event, so that the number of a   *)
(* block is its place in the sequence; chain time is counted in blocks.    *)
(* Wall-clock time matters through two timeouts of an execution: the       *)
(* backoff between attempts may be over at any attempt, and a receipt that *)
(* does not come before the timeout is a failure.  Balances, price         *)
(* triggers and queued messages are left out; a price feed that throws is  *)
(* a phase that throws.                                                    *)
(***************************************************************************)
EXTENDS Integers, FiniteSets, Sequences

CONSTANTS
  Deposits,      \* deposits into the commitment, each with one timelock
  Hashes,        \* proposal hashes
  None,          \* undefined
  Window,        \* blocks of a challenge window
  Delay,         \* blocks of a timelock
  MaxProposals,  \* bound on how often a hash is proposed
  Workloads      \* what a behaviour has: config.startBlock (None, or 0 for the
                 \* block before the first), the deposits and proposal hashes
                 \* that occur, and bounds on the blocks others make, on phases
                 \* and calls that fail and on crashes of the agent

ASSUME LoopAssumption ==
  /\ {Window, Delay, MaxProposals} \subseteq Nat
  /\ Workloads \subseteq [start : {0, None}, deposits : SUBSET Deposits,
                          hashes : SUBSET Hashes, blocks : Nat, failures : Nat, crashes : Nat]
  /\ None \notin Nat \cup Deposits \cup Hashes /\ Deposits \cap Hashes = {}

Ended == {"executed", "deleted"}
Block == [kind : {"none", "deposit", "proposed"} \cup Ended, of : Deposits \cup Hashes \cup {None}]
Statuses == {"handled", "no_action", "failed_retryable", "failed_non_retryable", "invalid_tool_args"}

VARIABLES
  chain,     \* the blocks
  txs,       \* executions sent: of which hash, proposed at which block, state
  load,      \* the workload of the behaviour
  checked,   \* lastCheckedBlock
  pchecked,  \* lastProposalCheckedBlock
  history,   \* depositHistory
  fired,     \* deposits whose timelock is marked as fired
  known,     \* proposalsByHash: hash |-> index of its execution in txs, or 0
  tried,     \* proposals with an execution attempt (lastAttemptMs)
  stage,     \* phase of the loop
  now,       \* block whose timestamp is the time of the iteration
  fresh,     \* deposits and proposals the iteration found
  todo,      \* proposals the execution phase has still to look at
  decision,  \* outcome of the last decision of the iteration
  acts,      \* deposit |-> decisions on its timelock that had side effects
  handed,    \* blocks whose deposit or proposal was handed to the engine
  failures, crashes

cursors == <<checked, pchecked>>
memory == <<history, fired, known, tried>>
iteration == <<stage, now, fresh, todo, decision>>
ghosts == <<acts, handed>>
vars == <<load, chain, txs, cursors, memory, iteration, ghosts, failures, crashes>>

Fails == failures < load.failures /\ failures' = failures + 1
NoFailure == UNCHANGED failures
FailsIf(b) == IF b THEN Fails ELSE NoFailure

-----------------------------------------------------------------------------
(* The chain.                                                              *)
Height == Len(chain)
EventsOf(h, upto) == {b \in 1..upto : chain[b].of = h}
Latest(S) == CHOOSE b \in S : \A c \in S : c <= b
LiveAt(h, upto) ==
  EventsOf(h, upto) # {} /\ chain[Latest(EventsOf(h, upto))].kind = "proposed"
Live(h) == LiveAt(h, Height)
WindowOver(h, upto) == Height >= Latest(EventsOf(h, upto)) + Window
DepositBlock(d) == CHOOSE b \in EventsOf(d, Height) : TRUE
Made(kind, x) == chain' = Append(chain, [kind |-> kind, of |-> x])
ByOthers == UNCHANGED <<txs, cursors, memory, iteration, ghosts, failures, load, crashes>>

Tick == Height < load.blocks /\ Made("none", None) /\ ByOthers
Deposit(d) ==
  /\ d \in load.deposits /\ EventsOf(d, Height) = {} /\ Height + Delay < load.blocks
  /\ Made("deposit", d) /\ ByOthers
Propose(h) ==
  /\ h \in load.hashes /\ ~Live(h) /\ Height + Window < load.blocks
  /\ Cardinality({b \in EventsOf(h, Height) : chain[b].kind = "proposed"}) < MaxProposals
  /\ Made("proposed", h) /\ ByOthers
(* A dispute deletes a proposal before its challenge window is over.       *)
Delete(h) ==
  /\ Live(h) /\ ~WindowOver(h, Height) /\ Height < load.blocks
  /\ Made("deleted", h) /\ ByOthers
Executable(h) == Live(h) /\ WindowOver(h, Height)
Mine(i) ==
  /\ txs[i].state = "pool"
  /\ IF Executable(txs[i].hash)
     THEN /\ txs' = [txs EXCEPT ![i].state = "mined"]
          /\ Made("executed", txs[i].hash)
     ELSE txs' = [txs EXCEPT ![i].state = "reverted"] /\ UNCHANGED chain
  /\ UNCHANGED <<cursors, memory, iteration, ghosts, failures, load, crashes>>

-----------------------------------------------------------------------------
(* The phases of an iteration; a phase that throws goes back to idle.      *)
(* Mutant: the proposals still to be looked at are kept.                   *)
IdleKeepingTodo == stage' = "idle" /\ fresh' = {} /\ UNCHANGED todo
Idle == stage' = "idle" /\ fresh' = {} /\ todo' = {}
Throws == Fails /\ Idle

LoadHead ==
  /\ stage = "idle"
  /\ now' = Height /\ stage' = "deposits" /\ decision' = None
  /\ UNCHANGED <<chain, txs, cursors, memory, fresh, todo, ghosts, failures, load, crashes>>

(* The provider of logs may lag behind the head: the scan is repeated on a *)
(* shorter range, and the cursor follows the range that was read.          *)
ScannedTo(from) == {from} \cup from..Height
Scanned(from, upto, kind) == {b \in from + 1..upto : chain[b].kind = kind}
(* Mutant: the cursor moves to the head whatever range was read.           *)
PollCommitmentToHead ==
  /\ stage = "deposits"
  /\ \E upto \in ScannedTo(checked) :
       /\ checked' = Height /\ fresh' = Scanned(checked, upto, "deposit")
       /\ stage' = "record"
  /\ UNCHANGED <<chain, txs, pchecked, memory, now, todo, decision, ghosts, load, failures, crashes>>
PollCommitment ==
  /\ stage = "deposits"
  /\ \/ \E upto \in ScannedTo(checked) :
        /\ checked' = upto /\ fresh' = Scanned(checked, upto, "deposit")
        /\ stage' = "record" /\ NoFailure /\ UNCHANGED todo
     \/ Throws /\ UNCHANGED checked
  /\ UNCHANGED <<chain, txs, pchecked, memory, now, decision, ghosts, load, crashes>>

(* The timestamp of each deposit's block is read before it is recorded.    *)
RecordDeposits ==
  /\ stage = "record"
  /\ LET found == {chain[b].of : b \in fresh} IN
     \/ /\ history' = history \cup found
        /\ stage' = "proposals" /\ NoFailure /\ UNCHANGED <<fresh, todo>>
     \/ \E some \in SUBSET found \ {found} :
          history' = history \cup some /\ Throws
  /\ UNCHANGED <<chain, txs, cursors, fired, known, tried, now, decision, ghosts, load, crashes>>

(* Without a start block the history is read from the deployment of the    *)
(* Governor, or skipped when that cannot be found.                         *)
FirstBlock == IF pchecked = None THEN {0, Height} ELSE {pchecked}
(* Mutant: events that end a proposal are applied after all proposals of   *)
(* the range.                                                              *)
KnownEndedLast(from, upto) ==
  LET ended == {chain[b].of : b \in {c \in from + 1..upto : chain[c].kind \in Ended}}
      proposed == {chain[b].of : b \in Scanned(from, upto, "proposed")} IN
  [h \in (DOMAIN known \cup proposed) \ ended |-> IF h \in proposed THEN 0 ELSE known[h]]
KnownAfter(from, upto) ==
  LET touched == {chain[b].of : b \in from + 1..upto}
      proposed == {h \in Hashes \cap touched : LiveAt(h, upto)} IN
  [h \in (DOMAIN known \ touched) \cup proposed |-> IF h \in proposed THEN 0 ELSE known[h]]
PollProposals ==
  /\ stage = "proposals"
  /\ \/ \E from \in FirstBlock, upto \in 0..Height :
        /\ upto \in ScannedTo(from) /\ FailsIf(pchecked = None /\ from # 0)
        /\ known' = KnownAfter(from, upto)
        /\ tried' = {h \in tried : h \in DOMAIN known' /\ EventsOf(h, from) = EventsOf(h, upto)}
        /\ fresh' = fresh \cup {b \in Scanned(from, upto, "proposed") :
                                  b = Latest(EventsOf(chain[b].of, upto))}
        /\ pchecked' = IF upto = from /\ Height > from THEN pchecked ELSE upto
        /\ stage' = "execute" /\ UNCHANGED todo
     \/ Throws /\ UNCHANGED <<known, tried, pchecked>>
  /\ UNCHANGED <<chain, txs, checked, history, fired, now, decision, ghosts, load, crashes>>

(* The hooks of the agent module run first, then the head is read; either  *)
(* may throw.                                                              *)
StartExecution ==
  /\ stage = "execute"
  /\ \/ /\ todo' = {h \in DOMAIN known : WindowOver(h, pchecked)}
        /\ stage' = "executing" /\ NoFailure /\ UNCHANGED fresh
     \/ Throws
  /\ UNCHANGED <<chain, txs, cursors, memory, now, decision, ghosts, load, crashes>>

(* What the receipt of an earlier execution allows: wait for it, or try    *)
(* again when it reverted or did not come in time; a receipt that cannot   *)
(* be read says nothing.                                                   *)
Tracked(h) == known[h] # 0
(* Mutant: whatever the receipt, the backoff alone decides.                *)
MayRetryAfterBackoff(h) == h \in DOMAIN known
MayRetry(h) == Tracked(h) => txs[known[h]].state = "reverted"
Wait(h) ==
  /\ h \in todo /\ stage = "executing"
  /\ \/ MayRetry(h) /\ h \in tried /\ known' = [known EXCEPT ![h] = 0] /\ NoFailure
     \/ ~MayRetry(h) /\ NoFailure /\ UNCHANGED known
     \/ Tracked(h) /\ txs[known[h]].state = "reverted" /\ Fails /\ UNCHANGED known
  /\ todo' = todo \ {h}
  /\ UNCHANGED <<chain, txs, cursors, history, fired, tried, stage, now, fresh, decision,
                 ghosts, load, crashes>>

(* An attempt: a proposal that is not on chain any more is forgotten, one  *)
(* proposed anew does not pass the simulation, any other is executed       *)
(* unless a call fails, which may be after sending.                        *)
Forget(h) ==
  /\ ~Live(h)
  /\ known' = [g \in DOMAIN known \ {h} |-> known[g]]
  /\ UNCHANGED txs
Execution(h) == [hash |-> h, at |-> Latest(EventsOf(h, pchecked)), state |-> "pool"]
Send(h) ==
  /\ Executable(h)
  /\ txs' = Append(txs, Execution(h))
  /\ known' = [known EXCEPT ![h] = Len(txs')]
Refused(h) ==
  /\ Live(h) /\ ~Executable(h)
  /\ known' = [known EXCEPT ![h] = 0]
  /\ UNCHANGED txs
SendFails(h) ==
  /\ known' = [known EXCEPT ![h] = 0]
  /\ txs' \in {txs, Append(txs, Execution(h))}
Late(h) == Tracked(h) /\ txs[known[h]].state = "pool"
Attempt(h) ==
  /\ h \in todo /\ stage = "executing"
  /\ \/ MayRetry(h) /\ (Forget(h) \/ Refused(h) \/ Send(h)) /\ NoFailure
     \/ Late(h) /\ (Forget(h) \/ Refused(h) \/ Send(h)) /\ Fails
     \/ MayRetry(h) /\ SendFails(h) /\ Fails
  /\ tried' = (tried \cup {h}) \cap DOMAIN known'
  /\ todo' = todo \ {h}
  /\ UNCHANGED <<chain, cursors, history, fired, stage, now, fresh, decision, ghosts, load, crashes>>

-----------------------------------------------------------------------------
(* The decision.                                                           *)

(* Outputs of tools: whether one reports an error, may be retried, blames  *)
(* the arguments, and whether it had side effects, as it says (explicit)   *)
(* or as its status or a transaction hash shows (implicit).                *)
Output(error, retryable, invalid, explicit, implicit) ==
  [error |-> error, retryable |-> retryable, invalid |-> invalid,
   explicit |-> explicit, implicit |-> implicit]
ToolOutputs == {
  Output(FALSE, FALSE, FALSE, FALSE, TRUE),    \* submitted
  Output(FALSE, FALSE, FALSE, FALSE, FALSE),   \* skipped
  Output(TRUE, TRUE, FALSE, FALSE, FALSE),     \* a call that timed out
  Output(TRUE, FALSE, FALSE, TRUE, FALSE),     \* failed after sending
  Output(TRUE, FALSE, TRUE, FALSE, FALSE),     \* arguments refused
  Output(TRUE, FALSE, FALSE, FALSE, FALSE)}    \* any other error
Effects(outputs) == \E o \in outputs : o.explicit \/ o.implicit
Evaluate(outputs) ==
  LET Error(o) == o.error /\ ~o.explicit IN
  IF Effects(outputs) THEN "handled"
  ELSE IF \E o \in outputs : Error(o) /\ o.invalid THEN "invalid_tool_args"
  ELSE IF \E o \in outputs : Error(o) /\ o.retryable THEN "failed_retryable"
  ELSE "handled"

Outcome(status, effects) == [status |-> status, effects |-> effects]
(* No call, or none that validation approves; the engine or validation     *)
(* throws; the tools ran; running them threw, perhaps after side effects.  *)
Undecided == {Outcome("no_action", FALSE), Outcome("failed_retryable", FALSE),
              Outcome("failed_non_retryable", FALSE)}
Ran == {Outcome(Evaluate(outputs), Effects(outputs)) : outputs \in SUBSET ToolOutputs}
ThrewAfterEffects == Outcome("failed_non_retryable", TRUE)

(* Mutants: a timelock that fired is scheduled again by its deposit; a     *)
(* timelock is due only in the block its delay ends in.                    *)
ScheduledAgain == history
Scheduled == history \ fired
DueExactly == {d \in Scheduled : DepositBlock(d) + Delay = now}
Due == {d \in Scheduled : DepositBlock(d) + Delay <= now}
Decide ==
  /\ stage = "executing" /\ todo = {}
  /\ fresh # {} \/ Due # {}
  /\ \E outcome \in Undecided \cup Ran \cup {ThrewAfterEffects} :
       /\ FailsIf(outcome = ThrewAfterEffects)
       /\ decision' = outcome
       /\ fired' = IF outcome.status = "handled" THEN fired \cup Due ELSE fired
       /\ acts' = [d \in Deposits |-> IF d \in Due /\ outcome.effects THEN acts[d] + 1 ELSE acts[d]]
  /\ handed' = handed \cup fresh
  /\ Idle
  /\ UNCHANGED <<chain, txs, cursors, history, known, tried, now, load, crashes>>

(* Nothing to decide, or a price feed or the preparation throws.           *)
Skip ==
  /\ stage = "executing" /\ todo = {}
  /\ FailsIf(fresh # {} \/ Due # {})
  /\ Idle
  /\ UNCHANGED <<chain, txs, cursors, memory, now, decision, ghosts, load, crashes>>

-----------------------------------------------------------------------------
(* A start: what is not configured begins at the head or, for proposals,   *)
(* is found out by the first scan.                                         *)
StartedAt(block) ==
  /\ checked' = IF load.start = None THEN block ELSE load.start
  /\ pchecked' = load.start
Crash ==
  /\ crashes < load.crashes /\ crashes' = crashes + 1
  /\ StartedAt(Height)
  /\ history' = {} /\ fired' = {} /\ known' = <<>> /\ tried' = {}
  /\ Idle /\ now' = 0 /\ decision' = None
  /\ UNCHANGED <<chain, txs, ghosts, load, failures>>

Init ==
  /\ load \in Workloads
  /\ chain = <<>> /\ txs = <<>>
  /\ checked = (IF load.start = None THEN 0 ELSE load.start) /\ pchecked = load.start
  /\ history = {} /\ fired = {} /\ known = <<>> /\ tried = {}
  /\ stage = "idle" /\ now = 0 /\ fresh = {} /\ todo = {} /\ decision = None
  /\ acts = [d \in Deposits |-> 0] /\ handed = {}
  /\ failures = 0 /\ crashes = 0

Loop == LoadHead \/ PollCommitment \/ RecordDeposits \/ PollProposals \/ StartExecution
          \/ (\E h \in Hashes : Wait(h) \/ Attempt(h)) \/ Decide \/ Skip
Others == Tick \/ (\E d \in Deposits : Deposit(d))
            \/ (\E h \in Hashes : Propose(h) \/ Delete(h)) \/ (\E i \in DOMAIN txs : Mine(i))
Next == Loop \/ Others \/ Crash

(* The loop is restarted by a timer, scans reach the head, blocks are made,*)
(* executions are mined, the backoff of an execution is over before some   *)
(* attempt, and a decision asked for again and again is handled at last.   *)
Handled == Decide /\ decision'.status = "handled"
Fairness ==
  /\ WF_vars(Loop) /\ WF_vars(Tick)
  /\ WF_vars(\E i \in DOMAIN txs : Mine(i))
  /\ \A h \in Hashes : SF_vars(Attempt(h))
  /\ SF_vars(PollCommitment /\ checked' = Height)
  /\ SF_vars(PollProposals /\ pchecked' = Height)
  /\ SF_vars(Handled)
Spec == Init /\ [][Next]_vars /\ Fairness

-----------------------------------------------------------------------------
(* Types.                                                                  *)
Sent == [hash : Hashes, at : Nat, state : {"pool", "mined", "reverted"}]
TypeOK ==
  /\ chain \in Seq(Block)
  /\ txs \in Seq(Sent)
  /\ load \in Workloads /\ checked \in Nat /\ pchecked \in Nat \cup {None}
  /\ history \subseteq Deposits /\ fired \subseteq history
  /\ DOMAIN known \subseteq Hashes /\ tried \subseteq DOMAIN known
  /\ \A h \in DOMAIN known : known[h] \in 0..Len(txs)
  /\ stage \in {"idle", "deposits", "record", "proposals", "execute", "executing"}
  /\ now \in 0..Height /\ fresh \subseteq 1..Height /\ todo \subseteq DOMAIN known
  /\ decision \in [status : Statuses, effects : BOOLEAN] \cup {None}
  /\ acts \in [Deposits -> Nat] /\ handed \subseteq 1..Height
  /\ failures \in 0..load.failures /\ crashes \in 0..load.crashes

(* What the cursors have passed is not lost: a deposit is recorded and     *)
(* handed to the decision engine, a proposal that is live at the cursor    *)
(* was handed too, unless the iteration is still busy with it.             *)
OnChain(d) == EventsOf(d, Height) # {}
Owed(b) ==
  \/ chain[b].kind = "deposit" /\ b <= checked
  \/ /\ chain[b].kind = "proposed" /\ pchecked # None /\ b <= pchecked
     /\ b = Latest(EventsOf(chain[b].of, pchecked))
NothingLostUntilFailure ==
  failures = 0 /\ crashes = 0 =>
    /\ \A b \in 1..Height : Owed(b) => b \in handed \cup fresh
    /\ \A d \in Deposits :
         OnChain(d) /\ DepositBlock(d) <= checked => d \in history \/ stage = "record"

(* The execution of a proposal is sent again only when the one before      *)
(* reverted.                                                               *)
OneExecutionInFlight ==
  failures = 0 /\ crashes = 0 =>
    \A i, j \in DOMAIN txs :
      i # j /\ txs[i].hash = txs[j].hash /\ txs[i].at = txs[j].at =>
        "reverted" \in {txs[i].state, txs[j].state}

(* A timelock leads to side effects once, unless the tools throw after     *)
(* they had some.                                                          *)
TimelockActsOnce == failures = 0 /\ crashes = 0 => \A d \in Deposits : acts[d] <= 1

(* The timelock of every deposit fires, unless a failure or a restart made *)
(* the loop pass over the deposit.                                         *)
Missed(d) ==
  /\ failures > 0 \/ crashes > 0
  /\ OnChain(d) /\ DepositBlock(d) <= checked /\ d \notin history
TimelockFires == \A d \in Deposits : OnChain(d) ~> d \in fired \/ Missed(d)

(* A proposal does not stay on chain for ever, unless the history it is in *)
(* was skipped.                                                            *)
Skipped(h) == failures > 0 /\ pchecked # None /\ LiveAt(h, pchecked) /\ h \notin DOMAIN known
ReadyIsExecuted == \A h \in Hashes : Live(h) ~> ~Live(h) \/ Skipped(h)
=============================================================================
