--------------------------- MODULE MessageService ---------------------------
(***************************************************************************)
(* The inbox at work: HTTP handlers of the message API (message-api.js,    *)
(* signed-request-auth.js) submit signed requests to it, and the agent's   *)
(* polling loop (message-loop.js) leases batches from it, asks the         *)
(* decision engine about one message at a time and settles each of them.   *)
(* Both run on one event loop and interleave at every await: a handler     *)
(* between reading the clock and submitting, the loop while the decision   *)
(* engine works on the head of its batch.                                  *)
(***************************************************************************)
EXTENDS MessageInbox

CONSTANTS
  Callers,      \* concurrent HTTP requests
  NoCall,       \* an idle caller
  AuthLag,      \* bound: how many ticks a signature check may take
  MaxSkew,      \* how far ahead of the clock a signature may be dated
  BatchSize     \* config.messageApiBatchSize

ASSUME ServiceAssumption ==
  /\ AuthLag \in 0..MaxLag /\ MaxSkew \in Nat /\ BatchSize \in Nat \ {0}
  /\ NoCall \notin [request : Requests, now : Nat]

VARIABLES
  calls,      \* caller |-> the authenticated request it is about to submit
  batch,      \* the leased messages the loop has not settled; the head is active
  attempted,  \* history: messages the loop has leased at least once
  settled     \* history: messages the decision engine has dealt with

serviceVars == <<calls, batch, attempted, settled>>

ServiceInit ==
  /\ Init
  /\ calls = [c \in Callers |-> NoCall]
  /\ batch = <<>>
  /\ attempted = {}
  /\ settled = {}

-----------------------------------------------------------------------------
(* authenticateSignedRequest: ageMs in -maxFutureSkew..maxAge; the maximal *)
(* age is the replay window the inbox was configured with.                 *)
TimestampOk(r, now) == -MaxSkew <= now - r.signedAt /\ now - r.signedAt <= ReplayWindow

(* The handler reads the clock and awaits the signature check.             *)
Authenticate(c) ==
  /\ calls[c] = NoCall
  /\ \E r \in Requests :
       /\ TimestampOk(r, clock)
       /\ calls' = [calls EXCEPT ![c] = [request |-> r, now |-> clock]]
  /\ UNCHANGED <<vars, batch, attempted, settled>>

(* The signature check came back: submit with the time read before it.     *)
Submit(c) ==
  /\ calls[c] # NoCall
  /\ Cardinality(accepted) < MaxAccepted
  /\ SubmitMessage(calls[c].request, calls[c].now)
  /\ calls' = [calls EXCEPT ![c] = NoCall]
  /\ UNCHANGED <<clock, batch, attempted, settled>>

-----------------------------------------------------------------------------
(* The messages of ms, the head of the queue first.                        *)
InOrder(ms) ==
  {s \in SetToSeqs(ms) : \A i, j \in DOMAIN s : i < j => queue[s[i]] < queue[s[j]]}

(* processQueuedUserMessages: lease a batch when the last one is done.     *)
LoopTake ==
  /\ batch = <<>>
  /\ TakeBatch(BatchSize, clock)
  /\ batch' \in InOrder(inFlight' \ FreshInFlight(clock))
  /\ attempted' = attempted \cup Range(batch')
  /\ UNCHANGED <<clock, calls, settled>>

(* shouldRequeueMessagesForDecisionStatus                                  *)
Statuses == {"no_action", "handled", "failed_retryable", "failed_non_retryable",
             "invalid_tool_args"}
ShouldRequeue(status) == status \in {"failed_retryable", "invalid_tool_args"}

(* Variant for mutation: a message is given back whatever the decision was. *)
LoopSettleGivingBack(status) ==
  /\ batch # <<>>
  /\ RequeueBatch(<<Head(batch)>>, clock)
  /\ settled' = IF ShouldRequeue(status) THEN settled ELSE settled \cup {Head(batch)}
  /\ batch' = Tail(batch)
  /\ UNCHANGED <<clock, calls, attempted>>

(* The decision engine answers for the active message.                     *)
LoopSettle(status) ==
  /\ batch # <<>>
  /\ IF ShouldRequeue(status)
     THEN RequeueBatch(<<Head(batch)>>, clock) /\ UNCHANGED settled
     ELSE AckBatch({Head(batch)}, clock) /\ settled' = settled \cup {Head(batch)}
  /\ batch' = Tail(batch)
  /\ UNCHANGED <<clock, calls, attempted>>

(* Variants for mutation: only the active message is given back; the       *)
(* leases are dropped with the batch.                                      *)
LoopErrorActiveOnly ==
  /\ batch # <<>>
  /\ RequeueBatch(<<Head(batch)>>, clock)
  /\ batch' = <<>>
  /\ UNCHANGED <<clock, calls, attempted, settled>>
LoopErrorDropping ==
  /\ batch # <<>>
  /\ inFlight' = {} /\ batch' = <<>>
  /\ UNCHANGED <<clock, queue, cache, buckets, accepted, acked, calls, attempted, settled>>

(* An exception outside the per-message handler: every message that was    *)
(* not settled goes back in one call.                                      *)
LoopError ==
  /\ batch # <<>>
  /\ RequeueBatch(batch, clock)
  /\ batch' = <<>>
  /\ UNCHANGED <<clock, calls, attempted, settled>>

ServiceTick ==
  /\ \A c \in Callers : calls[c] # NoCall => clock < calls[c].now + AuthLag
  /\ Tick
  /\ UNCHANGED serviceVars

ServiceNext ==
  \/ ServiceTick
  \/ \E c \in Callers : Authenticate(c) \/ Submit(c)
  \/ LoopTake
  \/ \E status \in Statuses : LoopSettle(status)
  \/ LoopError

serviceAllVars == <<vars, serviceVars>>
ServiceSpec == ServiceInit /\ [][ServiceNext]_serviceAllVars

(* The polling timer restarts the loop for ever, every decision call ends, *)
(* and a decision is not retryable for ever.                               *)
LoopFairness ==
  /\ WF_serviceAllVars(LoopTake)
  /\ WF_serviceAllVars(\E status \in Statuses : LoopSettle(status))
  /\ SF_serviceAllVars(\E status \in Statuses : ~ShouldRequeue(status) /\ LoopSettle(status))
FairServiceSpec == ServiceSpec /\ LoopFairness

-----------------------------------------------------------------------------
(* The service implements the inbox under its general client: whatever the *)
(* interleaving of handlers and loop, every step is one call of the inbox  *)
(* or leaves it alone, so the theorems about the inbox carry over.         *)
InboxSpec == Spec

(* No lease is stranded: whatever is in flight is in the batch the loop is *)
(* working on, so an idle loop leaves nothing leased.                      *)
LeasesBelongToLoop == inFlight \subseteq Range(batch)

(* A message the decision engine has dealt with is never decided again:    *)
(* neither the error path nor a late requeue brings it back.               *)
SettledIsFinal == settled \cap (Queued \cup Range(batch)) = {}

(* Messages that were tried before are ahead of messages that were never   *)
(* tried, and the latter keep their arrival order.                         *)
RetriesFirst ==
  \A m, n \in Queued :
    \/ m \in attempted /\ n \notin attempted
    \/ m \notin attempted /\ n \notin attempted /\ m.id < n.id
    => queue[m] < queue[n]

(* Without an end in sight for its deadline, every queued message is       *)
(* eventually acknowledged, even when the loop keeps failing on the way.   *)
EveryMessageLeaves == \A i \in 1..MaxAccepted :
  (\E m \in Pending : m.id = i) ~> (\A m \in Pending : m.id # i)
=============================================================================
