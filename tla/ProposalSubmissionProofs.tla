---------------------- MODULE ProposalSubmissionProofs ----------------------
(***************************************************************************)
(* What the propose mode of the proposal node guarantees for every number  *)
(* of handlers, every set of proposals and deposits, and every number of   *)
(* failures, crashes and disputes.                                         *)
(***************************************************************************)
EXTENDS ProposalSubmission, SharedLemmas, FiniteSetTheorems

(* Places of a handler: in the chain of its key; first in it; verifying    *)
(* and submitting, for which it is first for its deposits as well; after   *)
(* it has used its one chance to broadcast.                                *)
Waiting == Places \ {"idle", "publish", "done"}
Holding == Waiting \ {"queued"}
Verified == {"verifyChain", "saveVerdict", "saveFallback", "submit", "broadcast"}
Reserving == Verified \cup {"verify", "notify"}
Past == {h \in Handlers :
           task[h].at \in {"notify", "receipt", "saveResult", "skip", "recover", "reconcile",
                           "done"}}

(* Handlers wait in the chains, each once, and the first one for its key   *)
(* holds it.                                                               *)
Chains ==
  /\ Chain(keyTail, Handlers) /\ Chain(depositTail, Handlers)
  /\ \A h \in Handlers :
       /\ task[h].at \notin {"idle", "done"} => task[h].request \in Requests
       /\ task[h].at = "idle" => task[h].tx = None
       /\ h \in Range(keyTail) <=> task[h].at \in Waiting
       /\ h \in Range(depositTail) => task[h].at \in Holding
       /\ task[h].at \in Holding =>
            \A g \in Handlers : Ahead(keyTail, g, h) => task[g].request # task[h].request

(* A hash that is remembered is that of a transaction for the request; a   *)
(* handler broadcasts at most once.                                        *)
SentIn(ts, t, q) == t \in DOMAIN ts /\ ts[t].request = q
SentFor(t, q) == SentIn(txs, t, q)
Hashes ==
  /\ Len(txs) <= Cardinality(Past)
  /\ \A q \in Requests : submission[q].tx # None => SentFor(submission[q].tx, q)
  /\ \A h \in Handlers : task[h].tx # None => SentFor(task[h].tx, task[h].request)
  /\ \A h \in Handlers : task[h].at \in {"notify", "receipt"} => task[h].tx # None
Shape == TypeOK /\ Chains /\ Hashes

(* What the handler that holds a key may rely on in its stored state.      *)
StoredOf(h) ==
  LET s == submission[task[h].request]
  IN  /\ task[h].at \in Verified \cup {"verify", "notify", "skip"} =>
             ShouldVerify(s) /\ s.tx = None
      /\ task[h].at \in {"receipt", "saveResult", "recover"} => s.tx \in {None, task[h].tx}
      /\ task[h].at \in Verified \cup {"publish", "queued", "blocked", "verify", "skip"} =>
           task[h].tx = None
      /\ task[h].at = "reconcile" => s.tx # None
Stored ==
  /\ \A q \in Requests :
       submission[q].status \in {"not_started", "failed"} => submission[q].tx = None
  /\ \A h \in Handlers : StoredOf(h)

(* What is taken for proposed has been proposed.                           *)
ProposedIn(l, q) ==
  \E i \in DOMAIN l : l[i].kind = "proposed" /\ PayloadOf[l[i].request] = PayloadOf[q]
Proposed(q) == ProposedIn(log, q)
SeenBy(h) ==
  /\ task[h].og => task[h].tx # None /\ txs[task[h].tx].status = "mined"
  /\ task[h].at = "skip" => Proposed(task[h].request)
Seen ==
  /\ \A t \in DOMAIN txs : txs[t].status = "mined" => Proposed(txs[t].request)
  /\ \A h \in Handlers : SeenBy(h)
  /\ ResolvedWasProposed

(* A handler that verifies and submits has reserved its deposits: nobody   *)
(* ahead of it in the chain shares one with it.                            *)
Reserved ==
  settings.mode # "off" => \A h \in Handlers :
    /\ task[h].at \in Reserving \cup {"blocked"} /\ DepositsOf[task[h].request] # {} =>
         h \in Range(depositTail)
    /\ task[h].at \in Reserving =>
         \A g \in Handlers :
           Ahead(depositTail, g, h) => ~Shares(task[g].request, task[h].request)

(* Distinct requests have distinct transactions.                           *)
DistinctPayloads == \A q, r \in Requests : PayloadOf[q] = PayloadOf[r] => q = r

(* While nothing has failed: a request has one transaction, which its      *)
(* stored state knows as soon as its handler has been notified ...         *)
Calm == settings.mode = "enforce" /\ failures = 0 /\ crashes = 0
SentOnce == \A t, u \in DOMAIN txs : txs[t].request = txs[u].request => t = u
StoredFor(t) ==
  LET s == submission[txs[t].request]
  IN  s.tx = t /\ s.status \in {"submitted", "resolved"}
SentIsStored ==
  \A t \in DOMAIN txs :
    StoredFor(t) \/ \E h \in Handlers : task[h].at = "notify" /\ task[h].tx = t
CalmPlaces ==
  \A h \in Handlers :
    /\ task[h].at \notin {"recover", "saveFallback"}
    /\ task[h].at = "saveResult" => task[h].tx # None

(* ... the proposals of the log are the mined transactions, and each comes *)
(* before the end of the proposals for its request.                        *)
MinedIsProposed ==
  \A t \in DOMAIN txs : txs[t].status = "mined" =>
    /\ txs[t].block \in DOMAIN log
    /\ log[txs[t].block].kind = "proposed" /\ log[txs[t].block].request = txs[t].request
ProposedIsMined ==
  \A i \in DOMAIN log : log[i].kind = "proposed" =>
    \E t \in DOMAIN txs : txs[t].status = "mined" /\ txs[t].block = i
EndsFollow ==
  /\ \A i, j \in DOMAIN log :
       log[i].request = log[j].request /\ log[i].kind = "proposed" /\ log[j].kind # "proposed"
       => i < j
  /\ \A j \in DOMAIN log : log[j].kind # "proposed" =>
       \E i \in DOMAIN log : log[i].kind = "proposed" /\ log[i].request = log[j].request
Lifecycles ==
  Calm => /\ SentOnce /\ SentIsStored /\ CalmPlaces
          /\ MinedIsProposed /\ ProposedIsMined /\ EndsFollow

(* The proposal for q was deleted.  Of two that share a deposit and were   *)
(* not reverted, one is over; so is every one that shares a deposit with   *)
(* what a handler has verified.                                            *)
Over(q) ==
  /\ \E i \in DOMAIN log : log[i].kind = "deleted" /\ log[i].request = q
  /\ \A i \in DOMAIN log : ~(log[i].kind = "executed" /\ log[i].request = q)
Competes(t, q) ==
  /\ txs[t].request # q /\ Shares(txs[t].request, q) /\ txs[t].status # "reverted"
OthersOver(q) == \A t \in DOMAIN txs : Competes(t, q) => Over(txs[t].request)
IsVerified(h) ==
  \/ task[h].at \in {"verifyChain", "saveVerdict"} /\ task[h].found = "available"
  \/ task[h].at \in {"submit", "broadcast"}
Verifications ==
  Calm =>
    /\ \A t, u \in DOMAIN txs :
         Competes(t, txs[u].request) /\ txs[u].status # "reverted" =>
           Over(txs[t].request) \/ Over(txs[u].request)
    /\ \A h \in Handlers : IsVerified(h) => OthersOver(task[h].request)
-----------------------------------------------------------------------------
(* How a handler's step moves it.                                          *)
Others(h) == \A g \in Handlers \ {h} : task'[g] = task[g]
Moved(h, from, to) ==
  /\ task[h].at \in from /\ task'[h].at \in to
  /\ task'[h].request = task[h].request
Enters(h) ==
  /\ Moved(h, {"publish"}, {"queued"})
  /\ keyTail' = Append(keyTail, h) /\ UNCHANGED depositTail
Blocks(h) ==
  /\ Moved(h, {"queued"}, {"blocked"}) /\ KeyTurn(h)
  /\ depositTail' = Append(depositTail, h) /\ UNCHANGED keyTail
Takes(h) == Moved(h, {"queued"}, Holding) /\ KeyTurn(h) /\ Stay
Goes(h) == Moved(h, Holding, Holding) /\ Stay
Leaves(h) == task[h].at \in Waiting \cup {"publish"} /\ Leave(h)
Moves(h) ==
  /\ task' \in [Handlers -> Task] /\ Others(h)
  /\ Enters(h) \/ Blocks(h) \/ Takes(h) \/ Goes(h) \/ Leaves(h)

(* A finished handler.                                                     *)
LEMMA FinishedType ==
  /\ Idle \in Task /\ Finished \in Task
  /\ Finished.at = "done" /\ Finished.tx = None /\ ~Finished.og
  /\ Idle.at = "idle" /\ Idle.tx = None /\ ~Idle.og
  BY DEF Finished, Idle, Task, Places, Verdicts

(* One task is replaced.                                                   *)
LEMMA TaskType ==
  ASSUME TypeOK, NEW h \in Handlers, NEW t \in Task, task' = [task EXCEPT ![h] = t]
  PROVE  task' \in [Handlers -> Task] /\ Others(h) /\ task'[h] = t
  BY DEF TypeOK, Others

(* Leaving is a move.                                                      *)
LEMMA LeaveMoves ==
  ASSUME TypeOK, NEW h \in Handlers, task[h].at \in Waiting \cup {"publish"}, Leave(h)
  PROVE  Moves(h) /\ Leaves(h) /\ task'[h] = Finished
<1>1. task' = [task EXCEPT ![h] = Finished]
  BY DEF Leave
<1> QED BY <1>1, FinishedType, TaskType DEF Moves, Leaves

(* So is what submitPublishedRecord and attemptSubmission do.              *)
LEMMA SubmitMoves ==
  ASSUME TypeOK, NEW h \in Handlers, NEW s, NEW runtime \in BOOLEAN,
         task[h].at \in Holding \/ (task[h].at = "queued" /\ KeyTurn(h)),
         Attempt(h, s, runtime) \/ SubmitPublished(h, s, runtime)
  PROVE  /\ Moves(h)
         /\ \/ task'[h] = Finished
            \/ /\ task'[h].at = "reconcile" /\ s.status = "submitted" /\ s.tx # None
               /\ task'[h].tx = task[h].tx /\ task'[h].og = task[h].og
            \/ /\ task'[h].at \in {"verify", "submit"} /\ ShouldVerify(s)
               /\ task'[h].tx = task[h].tx /\ task'[h].og = task[h].og
               /\ task'[h].at = "verify" => settings.mode # "off" /\ Attempt(h, s, runtime)
<1>1. CASE Leave(h)
  BY <1>1, LeaveMoves DEF Holding, Waiting, Places
<1>2. ASSUME NEW p \in {"reconcile", "submit", "verify"}, Stay,
             task' = [task EXCEPT ![h].at = p, ![h].runtime = runtime]
      PROVE  /\ Moves(h) /\ task'[h].at = p
             /\ task'[h].tx = task[h].tx /\ task'[h].og = task[h].og
  <2> DEFINE t == [task[h] EXCEPT !.at = p, !.runtime = runtime]
  <2>1. t \in Task /\ t.at = p /\ t.request = task[h].request
    BY DEF TypeOK, Task, Places
  <2>2. task' = [task EXCEPT ![h] = t]
    BY <1>2
  <2>3. t.tx = task[h].tx /\ t.og = task[h].og
    BY DEF TypeOK, Task
  <2> HIDE DEF t
  <2>4. task' \in [Handlers -> Task] /\ Others(h) /\ task'[h] = t
    BY <2>1, <2>2, TaskType
  <2> QED BY <1>2, <2>1, <2>3, <2>4 DEF Moves, Moved, Takes, Goes, Holding, Waiting, Places
<1>3. CASE SubmitPublished(h, s, runtime)
  <2>1. CASE /\ s.status = "submitted" /\ s.tx # None /\ Stay
             /\ task' = [task EXCEPT ![h].at = "reconcile", ![h].runtime = runtime]
    BY <1>2, <2>1
  <2>2. CASE /\ ShouldVerify(s) /\ Stay
             /\ task' = [task EXCEPT ![h].at = "submit", ![h].runtime = runtime]
    BY <1>2, <2>2
  <2> QED BY <1>1, <1>3, <2>1, <2>2 DEF SubmitPublished
<1>4. CASE Attempt(h, s, runtime) /\ ~SubmitPublished(h, s, runtime)
  <2>1. settings.mode # "off" /\ ShouldVerify(s)
    BY <1>4 DEF Attempt
  <2>2. task' = [task EXCEPT ![h].at = "verify", ![h].runtime = runtime] /\ Stay
    BY <1>4, <2>1 DEF Attempt
  <2> QED BY <1>2, <1>4, <2>1, <2>2
<1> QED BY <1>3, <1>4

(* A step of a handler that holds its key and goes on holding it.          *)
LEMMA HoldMoves ==
  ASSUME TypeOK, NEW h \in Handlers, NEW t \in Task, task' = [task EXCEPT ![h] = t],
         task[h].at \in Holding, t.at \in Holding, t.request = task[h].request, Stay
  PROVE  Moves(h) /\ task'[h] = t
<1>1. task' \in [Handlers -> Task] /\ Others(h) /\ task'[h] = t
  BY TaskType
<1> QED BY <1>1 DEF Moves, Moved, Goes

(* A handler of a key goes to another place.                               *)
LEMMA GoToMoves ==
  ASSUME TypeOK, NEW h \in Handlers, NEW p \in Holding, GoTo(h, p), Stay,
         task[h].at \in Holding
  PROVE  /\ Moves(h) /\ task'[h].at = p /\ task'[h].found = task[h].found
         /\ task'[h].tx = task[h].tx /\ task'[h].og = task[h].og
<1> DEFINE t == [task[h] EXCEPT !.at = p]
<1>1. t \in Task /\ t.at = p /\ t.request = task[h].request
  BY DEF TypeOK, Task, Holding, Waiting
<1>2. t.tx = task[h].tx /\ t.og = task[h].og /\ t.found = task[h].found
  BY DEF TypeOK, Task
<1>3. task' = [task EXCEPT ![h] = t]
  BY DEF GoTo
<1> HIDE DEF t
<1> QED BY <1>1, <1>2, <1>3, HoldMoves

(* The steps that write nothing and send nothing, by their places.         *)
S(h) == submission[task[h].request]
Steps(h, from, to) ==
  /\ task[h].at \in from /\ task'[h].at \in to
  /\ task'[h].tx = task[h].tx /\ task'[h].og = task[h].og
Advised == settings.mode = "advisory"
Fell == failures' = failures + 1
Sharing(q) == {r \in Requests \ {q} : Shares(r, q)}
QuietKinds(h) ==
  \/ task'[h] = Finished /\ task[h].at # "notify"
  \/ Steps(h, {"publish"}, {"queued"})
  \/ Steps(h, {"queued"}, {"blocked"}) /\ Blocks(h)
  \/ Steps(h, {"queued", "blocked"}, {"submit"}) /\ ShouldVerify(S(h)) /\ settings.mode = "off"
  \/ Steps(h, {"queued"}, {"verify"}) /\ ShouldVerify(S(h)) /\ DepositsOf[task[h].request] = {}
  \/ Steps(h, {"blocked"}, {"verify"}) /\ ShouldVerify(S(h)) /\ DepositTurn(h)
  \/ /\ Steps(h, {"saveVerdict", "saveFallback"}, {"submit"}) /\ ShouldVerify(S(h))
     /\ Advised \/ task[h].found = "available"
  \/ Steps(h, {"queued", "blocked", "saveVerdict", "saveFallback", "recover"}, {"reconcile"})
     /\ S(h).tx # None
  \/ /\ Steps(h, {"verify"}, {"verifyChain"})
     /\ \E order \in SetToSeqs(Sharing(task[h].request)) :
          task'[h].found = StoredStatus(task[h].request, order)
  \/ /\ Steps(h, {"verifyChain"}, {"saveVerdict"})
     /\ task'[h].found = "available" => task[h].found = "available"
  \/ Steps(h, {"saveVerdict"}, {"saveFallback"}) /\ Advised
  \/ Steps(h, {"submit"}, {"broadcast"})
  \/ Steps(h, {"submit"}, {"skip"}) /\ Live(PayloadOf[task[h].request])
  \/ Steps(h, {"notify"}, {"receipt"}) /\ Fell
  \/ Steps(h, {"receipt"}, {"saveResult"})
  \/ /\ task[h].at = "receipt" /\ task'[h].at = "saveResult" /\ task'[h].tx = task[h].tx
     /\ task'[h].og = (txs[task[h].tx].status = "mined")
  \/ Steps(h, {"submit", "saveResult", "skip"}, {"recover"}) /\ Fell
Quiet(h) ==
  /\ UNCHANGED <<submission, txs, log, deletions, crashes>>
  /\ failures' \in {failures, failures + 1}
  /\ Moves(h) /\ QuietKinds(h)

(* A failure is counted.                                                   *)
LEMMA FailureCounted ==
  ASSUME TypeOK, Fails \/ NoFailure
  PROVE  failures' \in Nat /\ failures' \in {failures, failures + 1}
  BY DEF TypeOK, Fails, NoFailure

(* A handler's request and its stored state.                               *)
LEMMA StoredTypes ==
  ASSUME TypeOK, Chains, NEW h \in Handlers, task[h].at \notin {"idle", "done"}
  PROVE  /\ task[h].request \in Requests /\ S(h) \in Submission
         /\ task[h] \in Task /\ task[h].runtime \in BOOLEAN
<1>1. task[h].request \in Requests
  BY DEF Chains
<1> QED BY <1>1 DEF TypeOK, S, Task

(* The quiet actions, one by one.                                          *)
LEMMA PublishedQuiet ==
  ASSUME Shape, NEW h \in Handlers, Published(h)
  PROVE  Quiet(h)
<1> USE DEF Shape
<1>1. CASE Leave(h)
  <2>1. Moves(h) /\ task'[h] = Finished
    BY <1>1, LeaveMoves DEF Published
  <2> QED BY <2>1, FailureCounted DEF Published, Quiet, QuietKinds, chainVars
<1>2. CASE GoTo(h, "queued") /\ keyTail' = Append(keyTail, h) /\ NoFailure
  <2> DEFINE t == [task[h] EXCEPT !.at = "queued"]
  <2>1. t \in Task /\ t.at = "queued" /\ t.request = task[h].request
        /\ t.tx = task[h].tx /\ t.og = task[h].og
    BY DEF TypeOK, Task, Places
  <2>2. task' = [task EXCEPT ![h] = t]
    BY <1>2 DEF GoTo
  <2> HIDE DEF t
  <2>3. task' \in [Handlers -> Task] /\ Others(h) /\ task'[h] = t
    BY <2>1, <2>2, TaskType
  <2>4. Moves(h)
    BY <1>2, <2>1, <2>3 DEF Published, Moves, Moved, Enters
  <2> QED BY <1>2, <2>1, <2>3, <2>4, FailureCounted
          DEF Published, Quiet, QuietKinds, Steps, chainVars
<1> QED BY <1>1, <1>2 DEF Published

(* Whether a handler has a runtime is a Boolean.                           *)
LEMMA RuntimesAreBoolean ==
  ASSUME NEW h, NEW s, task[h].runtime \in BOOLEAN
  PROVE  Runtimes(h, s) \subseteq BOOLEAN
  BY DEF Runtimes

(* An attempt at the turn of a handler writes nothing.                     *)
LEMMA AttemptQuiet ==
  ASSUME Shape, NEW h \in Handlers, NEW runtime \in BOOLEAN,
         \/ /\ task[h].at = "queued" /\ KeyTurn(h)
            /\ settings.mode # "off" /\ ShouldVerify(S(h)) => DepositsOf[task[h].request] = {}
         \/ task[h].at = "blocked" /\ DepositTurn(h),
         Attempt(h, S(h), runtime)
  PROVE  Moves(h) /\ QuietKinds(h)
<1> DEFINE s == S(h)
<1> USE DEF Shape
<1>1. task[h].at \in Holding \/ (task[h].at = "queued" /\ KeyTurn(h))
  BY DEF Holding, Waiting, Places
<1> HIDE DEF s
<1>2. Attempt(h, s, runtime)
  BY DEF s
<1>3. /\ Moves(h)
      /\ \/ task'[h] = Finished
         \/ /\ task'[h].at = "reconcile" /\ s.status = "submitted" /\ s.tx # None
            /\ task'[h].tx = task[h].tx /\ task'[h].og = task[h].og
         \/ /\ task'[h].at \in {"verify", "submit"} /\ ShouldVerify(s)
            /\ task'[h].tx = task[h].tx /\ task'[h].og = task[h].og
            /\ task'[h].at = "verify" => settings.mode # "off"
  BY <1>1, <1>2, SubmitMoves
<1>4. ASSUME task'[h].at = "submit", ShouldVerify(s) PROVE settings.mode = "off"
  <2>1. ASSUME settings.mode # "off" PROVE FALSE
    <3>1. task' = [task EXCEPT ![h].at = "verify", ![h].runtime = runtime]
      BY <1>2, <1>4, <2>1 DEF Attempt
    <3>2. task'[h].at = "verify"
      BY <3>1 DEF TypeOK, Task
    <3> QED BY <1>4, <3>2
  <2> QED BY <2>1
<1>5. CASE task'[h] = Finished
  BY <1>3, <1>5 DEF QuietKinds
<1>6. CASE /\ task'[h].at = "reconcile" /\ s.tx # None
           /\ task'[h].tx = task[h].tx /\ task'[h].og = task[h].og
  BY <1>3, <1>6 DEF s, QuietKinds, Steps
<1>7. CASE /\ task'[h].at = "submit" /\ ShouldVerify(s)
           /\ task'[h].tx = task[h].tx /\ task'[h].og = task[h].og
  BY <1>3, <1>4, <1>7 DEF s, QuietKinds, Steps
<1>8. CASE /\ task'[h].at = "verify" /\ ShouldVerify(s) /\ settings.mode # "off"
           /\ task'[h].tx = task[h].tx /\ task'[h].og = task[h].og
  BY <1>3, <1>8 DEF s, QuietKinds, Steps
<1> QED BY <1>3, <1>5, <1>6, <1>7, <1>8

(* With its key a handler goes on to its deposits or attempts at once.     *)
LEMMA TakeKeyTurnQuiet ==
  ASSUME Shape, NEW h \in Handlers, TakeKeyTurn(h)
  PROVE  Quiet(h)
<1> USE DEF Shape
<1>1. /\ task[h].at = "queued" /\ KeyTurn(h)
      /\ UNCHANGED <<submission, chainVars, failures, crashes>>
  BY DEF TakeKeyTurn
<1>2. task[h] \in Task /\ task[h].runtime \in BOOLEAN
  BY <1>1, StoredTypes
<1>3. PICK runtime \in BOOLEAN :
        \/ /\ task' = [task EXCEPT ![h].at = "blocked", ![h].runtime = runtime]
           /\ depositTail' = Append(depositTail, h)
           /\ UNCHANGED keyTail
        \/ /\ Attempt(h, S(h), runtime)
           /\ settings.mode # "off" /\ ShouldVerify(S(h)) => DepositsOf[task[h].request] = {}
  BY <1>2, RuntimesAreBoolean DEF TakeKeyTurn, S
<1>4. CASE /\ Attempt(h, S(h), runtime)
           /\ settings.mode # "off" /\ ShouldVerify(S(h)) => DepositsOf[task[h].request] = {}
  BY <1>1, <1>4, AttemptQuiet DEF Quiet, TypeOK, chainVars
<1>5. CASE /\ task' = [task EXCEPT ![h].at = "blocked", ![h].runtime = runtime]
           /\ depositTail' = Append(depositTail, h)
           /\ UNCHANGED keyTail
  <2> DEFINE t == [task[h] EXCEPT !.at = "blocked", !.runtime = runtime]
  <2>1. t \in Task /\ t.at = "blocked" /\ t.request = task[h].request
        /\ t.tx = task[h].tx /\ t.og = task[h].og
    BY <1>2 DEF Task, Places
  <2>2. task' = [task EXCEPT ![h] = t]
    BY <1>5
  <2> HIDE DEF t
  <2>3. task' \in [Handlers -> Task] /\ Others(h) /\ task'[h] = t
    BY <2>1, <2>2, TaskType
  <2>4. Moves(h) /\ Blocks(h)
    BY <1>1, <1>5, <2>1, <2>3 DEF Moves, Moved, Blocks
  <2> QED BY <1>1, <2>1, <2>3, <2>4 DEF Quiet, QuietKinds, Steps, chainVars, TypeOK
<1> QED BY <1>3, <1>4, <1>5

(* With its deposits it attempts.                                          *)
LEMMA TakeDepositTurnQuiet ==
  ASSUME Shape, NEW h \in Handlers, TakeDepositTurn(h)
  PROVE  Quiet(h)
<1> USE DEF Shape
<1>1. /\ task[h].at = "blocked" /\ DepositTurn(h)
      /\ UNCHANGED <<submission, chainVars, failures, crashes>>
  BY DEF TakeDepositTurn
<1>2. task[h].runtime \in BOOLEAN
  BY <1>1, StoredTypes
<1>3. PICK runtime \in BOOLEAN : Attempt(h, S(h), runtime)
  BY <1>2, RuntimesAreBoolean DEF TakeDepositTurn, S
<1> QED BY <1>1, <1>3, AttemptQuiet DEF Quiet, TypeOK, chainVars

(* The worst of some verdicts is one of them, and only the best verdicts   *)
(* have the best one as their worst.                                       *)
LEMMA WorstOf ==
  ASSUME NEW vs \in SUBSET Verdicts, vs # {}
  PROVE  Worst(vs) \in vs /\ (Worst(vs) = "available" => vs = {"available"})
<1> DEFINE P(v) == \A w \in vs : Rank(v) >= Rank(w)
<1>1. /\ Rank("available") = 0 /\ Rank("unknown") = 1
      /\ Rank("reserved") = 2 /\ Rank("consumed") = 3
  BY DEF Rank
<1>2. \E v \in vs : P(v)
  <2>1. CASE "consumed" \in vs
    BY <1>1, <2>1 DEF Verdicts
  <2>2. CASE "consumed" \notin vs /\ "reserved" \in vs
    BY <1>1, <2>2 DEF Verdicts
  <2>3. CASE vs \subseteq {"unknown", "available"} /\ "unknown" \in vs
    <3>1. P("unknown")
      <4>1. ASSUME NEW w \in vs PROVE Rank("unknown") >= Rank(w)
        <5>1. w = "unknown" \/ w = "available"
          BY <2>3
        <5> QED BY <1>1, <5>1
      <4> QED BY <4>1
    <3> QED BY <2>3, <3>1
  <2>4. CASE vs \subseteq {"available"}
    <3>1. \A w \in vs : Rank(w) = 0
      BY <1>1, <2>4
    <3> QED BY <3>1
  <2> HIDE DEF P
  <2>5. \/ "consumed" \in vs
        \/ "consumed" \notin vs /\ "reserved" \in vs
        \/ vs \subseteq {"unknown", "available"} /\ "unknown" \in vs
        \/ vs \subseteq {"available"}
    BY DEF Verdicts
  <2> QED BY <2>1, <2>2, <2>3, <2>4, <2>5
<1>3. Worst(vs) \in vs /\ P(Worst(vs))
  BY <1>2 DEF Worst
<1> HIDE DEF P
<1>4. ASSUME Worst(vs) = "available" PROVE vs = {"available"}
  <2>1. \A w \in vs : 0 >= Rank(w)
    BY <1>1, <1>3, <1>4 DEF P
  <2>2. \A w \in vs : w = "available"
    BY <1>1, <2>1 DEF Verdicts
  <2> QED BY <2>2
<1> QED BY <1>3, <1>4

(* A lifecycle is one of the verdicts.                                     *)
LEMMA LifecycleVerdict == ASSUME NEW b, NEW p PROVE LifecycleSince(b, p) \in Verdicts
  BY DEF LifecycleSince, Verdicts

(* The verdict of the store is "available" only if all the records say so. *)
LEMMA StoredVerdict ==
  ASSUME NEW order, NEW q
  PROVE  /\ {"available"} \cup {StoredLifecycle(order[n], order) : n \in DOMAIN order}
              \in SUBSET Verdicts
         /\ StoredStatus(q, order) \in Verdicts
         /\ StoredStatus(q, order) = "available" =>
              \A n \in DOMAIN order : StoredLifecycle(order[n], order) = "available"
<1> DEFINE vs == {"available"} \cup {StoredLifecycle(order[n], order) : n \in DOMAIN order}
<1>1. \A r : StoredLifecycle(r, order) \in Verdicts
  BY LifecycleVerdict DEF StoredLifecycle, Verdicts
<1>2. vs \in SUBSET Verdicts /\ vs # {}
  <2> HIDE DEF StoredLifecycle
  <2> QED BY <1>1 DEF Verdicts
<1>3. StoredStatus(q, order) = Worst(vs)
  BY DEF StoredStatus
<1> QED BY <1>2, <1>3, WorstOf

(* The records are read.                                                   *)
LEMMA VerifyStoreQuiet ==
  ASSUME Shape, NEW h \in Handlers, VerifyStore(h)
  PROVE  Quiet(h)
<1> DEFINE q == task[h].request
<1> USE DEF Shape
<1>1. /\ task[h].at = "verify" /\ Stay
      /\ UNCHANGED <<submission, chainVars, failures, crashes>>
  BY DEF VerifyStore
<1>2. PICK order \in SetToSeqs(Sharing(q)) :
        task' = [task EXCEPT ![h].at = "verifyChain", ![h].found = StoredStatus(q, order)]
  BY DEF VerifyStore, Sharing
<1>3. StoredStatus(q, order) \in Verdicts
  BY StoredVerdict
<1> DEFINE t == [task[h] EXCEPT !.at = "verifyChain", !.found = StoredStatus(q, order)]
<1>4. t \in Task /\ t.at = "verifyChain" /\ t.request = q
      /\ t.tx = task[h].tx /\ t.og = task[h].og /\ t.found = StoredStatus(q, order)
  <2>1. task[h] \in Task
    BY DEF TypeOK
  <2> HIDE DEF q
  <2> QED BY <1>3, <2>1 DEF Task, Places, q
<1>5. task' = [task EXCEPT ![h] = t]
  BY <1>2
<1> HIDE DEF t
<1>6. task[h].at \in Holding /\ t.at \in Holding
  BY <1>1, <1>4 DEF Holding, Waiting, Places
<1>7. Moves(h) /\ task'[h] = t
  BY <1>1, <1>4, <1>5, <1>6, HoldMoves
<1>8. \E o \in SetToSeqs(Sharing(q)) : task'[h].found = StoredStatus(q, o)
  BY <1>4, <1>7
<1>9. QuietKinds(h)
  BY <1>1, <1>4, <1>7, <1>8 DEF QuietKinds, Steps
<1> QED BY <1>1, <1>7, <1>9 DEF Quiet, chainVars, TypeOK

(* The log only makes a verdict worse.                                     *)
LEMMA OnchainVerdict ==
  ASSUME NEW v \in Verdicts, NEW q
  PROVE  LET w == Worst({v, OnchainStatus(q)})
             u == Worst({v, "unknown"})
         IN  /\ w \in Verdicts /\ (w = "available" => v = "available")
             /\ u \in Verdicts /\ u # "available"
<1> DEFINE vs == {"available"} \cup
        {LifecycleSince(1, PayloadOf[log[i].request]) :
           i \in {j \in DOMAIN log : log[j].kind = "proposed" /\ Shares(log[j].request, q)}}
<1>1. vs \in SUBSET Verdicts /\ vs # {}
  BY LifecycleVerdict DEF Verdicts
<1>2. OnchainStatus(q) = Worst(vs)
  BY DEF OnchainStatus
<1>3. OnchainStatus(q) \in Verdicts
  BY <1>1, <1>2, WorstOf
<1>4. {v, OnchainStatus(q)} \in SUBSET Verdicts /\ {v, "unknown"} \in SUBSET Verdicts
  BY <1>3 DEF Verdicts
<1>5. Worst({v, OnchainStatus(q)}) \in Verdicts
      /\ (Worst({v, OnchainStatus(q)}) = "available" => v = "available")
  BY <1>4, WorstOf
<1>6. Worst({v, "unknown"}) \in Verdicts /\ Worst({v, "unknown"}) # "available"
  BY <1>4, WorstOf
<1> QED BY <1>5, <1>6

(* The chain is read, which makes no verdict better.                       *)
LEMMA VerifyChainQuiet ==
  ASSUME Shape, NEW h \in Handlers, VerifyChain(h)
  PROVE  Quiet(h)
<1> USE DEF Shape
<1>1. /\ task[h].at = "verifyChain" /\ Stay /\ (Fails \/ NoFailure)
      /\ UNCHANGED <<submission, chainVars, crashes>>
  BY DEF VerifyChain
<1>2. task[h] \in Task /\ task[h].found \in Verdicts
  BY DEF TypeOK, Task
<1>3. PICK v \in Verdicts :
        /\ task' = [task EXCEPT ![h].at = "saveVerdict", ![h].found = v]
        /\ v = "available" => task[h].found = "available"
  <2> DEFINE w == Worst({task[h].found, OnchainStatus(task[h].request)})
             u == Worst({task[h].found, "unknown"})
  <2>1. /\ w \in Verdicts /\ (w = "available" => task[h].found = "available")
        /\ u \in Verdicts /\ u # "available"
    BY <1>2, OnchainVerdict
  <2>2. \/ task' = [task EXCEPT ![h].at = "saveVerdict", ![h].found = w]
        \/ task' = [task EXCEPT ![h].at = "saveVerdict", ![h].found = u]
    <3>1. \A v : [task EXCEPT ![h].at = "saveVerdict", ![h].found = v]
                   = [task EXCEPT ![h] = [task[h] EXCEPT !.at = "saveVerdict", !.found = v]]
      OBVIOUS
    <3> QED BY <3>1 DEF VerifyChain
  <2> HIDE DEF w, u
  <2> QED BY <2>1, <2>2
<1> DEFINE t == [task[h] EXCEPT !.at = "saveVerdict", !.found = v]
<1>4. t \in Task /\ t.at = "saveVerdict" /\ t.request = task[h].request
      /\ t.tx = task[h].tx /\ t.og = task[h].og /\ t.found = v
  BY <1>2 DEF Task, Places
<1>5. task' = [task EXCEPT ![h] = t]
  BY <1>3
<1> HIDE DEF t
<1>6. task[h].at \in Holding /\ t.at \in Holding
  BY <1>1, <1>4 DEF Holding, Waiting, Places
<1>7. Moves(h) /\ task'[h] = t
  BY <1>1, <1>4, <1>5, <1>6, HoldMoves
<1> QED BY <1>1, <1>3, <1>4, <1>7, FailureCounted DEF Quiet, QuietKinds, Steps, chainVars

(* A verdict is saved; in enforce mode only a good one goes on.            *)
LEMMA SaveVerdictQuiet ==
  ASSUME Shape, NEW h \in Handlers, SaveVerdict(h)
  PROVE  Quiet(h)
<1> USE DEF Shape
<1>1. /\ task[h].at \in {"saveVerdict", "saveFallback"} /\ (Fails \/ NoFailure)
      /\ UNCHANGED <<submission, chainVars, crashes>>
  BY DEF SaveVerdict
<1>2. /\ task[h].at \in Holding /\ task[h].runtime \in BOOLEAN
      /\ failures' \in {failures, failures + 1}
      /\ UNCHANGED <<submission, txs, log, deletions, crashes>>
  BY <1>1, StoredTypes, FailureCounted DEF Holding, Waiting, Places, chainVars
<1>3. CASE Leave(h)
  <2>1. Moves(h) /\ task'[h] = Finished
    BY <1>2, <1>3, LeaveMoves DEF Holding
  <2> QED BY <1>1, <1>2, <2>1 DEF Quiet, QuietKinds
<1>4. CASE /\ SubmitPublished(h, S(h), task[h].runtime)
           /\ settings.mode = "advisory" \/ task[h].found = "available"
  <2> DEFINE s == S(h)
  <2>1. /\ Moves(h)
        /\ \/ task'[h] = Finished
           \/ /\ task'[h].at = "reconcile" /\ s.status = "submitted" /\ s.tx # None
              /\ task'[h].tx = task[h].tx /\ task'[h].og = task[h].og
           \/ /\ task'[h].at = "submit" /\ ShouldVerify(s)
              /\ task'[h].tx = task[h].tx /\ task'[h].og = task[h].og
    <3>1. CASE Leave(h)
      BY <1>2, <3>1, LeaveMoves DEF Holding
    <3>2. CASE ~Leave(h)
      <4>1. \/ s.status = "submitted" /\ s.tx # None
               /\ task' = [task EXCEPT ![h].at = "reconcile", ![h].runtime = task[h].runtime]
            \/ ShouldVerify(s)
               /\ task' = [task EXCEPT ![h].at = "submit", ![h].runtime = task[h].runtime]
        BY <1>4, <3>2 DEF SubmitPublished
      <4>2. Stay
        BY <1>4, <3>2 DEF SubmitPublished
      <4>3. [task[h] EXCEPT !.runtime = task[h].runtime] = task[h]
        BY DEF TypeOK, Task
      <4>4. \/ s.status = "submitted" /\ s.tx # None /\ GoTo(h, "reconcile")
            \/ ShouldVerify(s) /\ GoTo(h, "submit")
        <5>1. \A p : [task EXCEPT ![h].at = p, ![h].runtime = task[h].runtime]
                       = [task EXCEPT ![h].at = p]
          BY DEF TypeOK, Task
        <5> QED BY <4>1, <5>1 DEF GoTo
      <4>5. {"reconcile", "submit"} \subseteq Holding
        BY DEF Holding, Waiting, Places
      <4> HIDE DEF s
      <4> QED BY <1>2, <4>2, <4>4, <4>5, GoToMoves
    <3> QED BY <3>1, <3>2
  <2>2. QuietKinds(h)
    BY <1>1, <1>4, <2>1 DEF QuietKinds, Steps, Advised
  <2> QED BY <1>2, <2>1, <2>2 DEF Quiet
<1>5. CASE /\ GoTo(h, "saveFallback") /\ Stay
           /\ settings.mode = "advisory" /\ task[h].at = "saveVerdict"
  <2>1. "saveFallback" \in Holding
    BY DEF Holding, Waiting, Places
  <2>2. /\ Moves(h) /\ task'[h].at = "saveFallback"
        /\ task'[h].tx = task[h].tx /\ task'[h].og = task[h].og
    BY <1>2, <1>5, <2>1, GoToMoves
  <2> QED BY <1>2, <1>5, <2>2 DEF Quiet, QuietKinds, Steps, Advised
<1> QED BY <1>3, <1>4, <1>5 DEF SaveVerdict, S

(* A live duplicate is skipped; otherwise the handler may broadcast.       *)
LEMMA PrepareQuiet ==
  ASSUME Shape, NEW h \in Handlers, Prepare(h)
  PROVE  Quiet(h)
<1> USE DEF Shape
<1>1. /\ task[h].at = "submit" /\ Stay /\ (Fails \/ NoFailure)
      /\ UNCHANGED <<submission, chainVars, crashes>>
  BY DEF Prepare
<1>2. task[h].at \in Holding
  BY <1>1 DEF Holding, Waiting, Places
<1>3. PICK p \in {"skip", "broadcast", "recover"}, approved \in BOOLEAN :
        /\ task' = [task EXCEPT ![h].at = p, ![h].effects = approved]
        /\ p = "skip" => Live(PayloadOf[task[h].request])
        /\ p = "recover" => Fell
  BY DEF Prepare, Fails, Fell
<1> DEFINE t == [task[h] EXCEPT !.at = p, !.effects = approved]
<1>4. t \in Task /\ t.at = p /\ t.request = task[h].request
      /\ t.tx = task[h].tx /\ t.og = task[h].og
  BY DEF TypeOK, Task, Places
<1>5. task' = [task EXCEPT ![h] = t]
  BY <1>3
<1> HIDE DEF t
<1>6. t.at \in Holding
  BY <1>4 DEF Holding, Waiting, Places
<1>7. Moves(h) /\ task'[h] = t
  BY <1>1, <1>2, <1>4, <1>5, <1>6, HoldMoves
<1> QED BY <1>1, <1>3, <1>4, <1>7, FailureCounted DEF Quiet, QuietKinds, Steps, chainVars

(* A receipt says whether the transaction was mined.                       *)
LEMMA ReceiptQuiet ==
  ASSUME Shape, NEW h \in Handlers, Receipt(h)
  PROVE  Quiet(h)
<1> USE DEF Shape
<1>1. /\ task[h].at = "receipt" /\ Stay /\ (Fails \/ NoFailure)
      /\ UNCHANGED <<submission, chainVars, crashes>>
  BY DEF Receipt
<1>2. task[h].at \in Holding /\ "saveResult" \in Holding
  BY <1>1 DEF Holding, Waiting, Places
<1>3. CASE GoTo(h, "saveResult")
  BY <1>1, <1>2, <1>3, GoToMoves, FailureCounted DEF Quiet, QuietKinds, Steps, chainVars
<1>4. CASE task' = [task EXCEPT ![h].at = "saveResult",
                                ![h].og = txs[task[h].tx].status = "mined"]
  <2> DEFINE mined == txs[task[h].tx].status = "mined"
             t == [task[h] EXCEPT !.at = "saveResult", !.og = mined]
  <2>1. mined \in BOOLEAN
    OBVIOUS
  <2>2. task[h] \in Task
    BY DEF TypeOK
  <2> HIDE DEF mined
  <2>3. t \in Task /\ t.at = "saveResult" /\ t.request = task[h].request
        /\ t.tx = task[h].tx
    BY <2>1, <2>2 DEF Task, Places
  <2>4. t.og = mined
    BY <2>2 DEF Task
  <2>5. task' = [task EXCEPT ![h] = t]
    BY <1>4 DEF mined
  <2> HIDE DEF t
  <2>6. Moves(h) /\ task'[h] = t
    BY <1>1, <1>2, <2>3, <2>5, HoldMoves
  <2>7. task'[h].og = mined
    BY <2>4, <2>6
  <2>8. QuietKinds(h)
    BY <1>1, <2>3, <2>6, <2>7 DEF QuietKinds, mined
  <2> QED BY <1>1, <2>6, <2>8, FailureCounted DEF Quiet, chainVars
<1> QED BY <1>1, <1>3, <1>4 DEF Receipt

(* The steps that write the stored state, by their places.                 *)
SaveKinds(h, s) ==
  \/ Steps(h, {"notify"}, {"receipt"}) /\ s.status = "submitted" /\ s.tx = task[h].tx
  \/ /\ task'[h] = Finished
     /\ \/ task[h].at = "saveResult" /\ s = Result(h)
        \/ task[h].at = "skip" /\ s.status = "resolved" /\ s.tx = S(h).tx
        \/ task[h].at = "recover" /\ S(h).tx = None /\ s = Fallback(h)
        \/ /\ task[h].at = "reconcile" /\ txs[S(h).tx].status = "mined"
           /\ s.status = "resolved" /\ s.tx = S(h).tx
Saving(h) ==
  /\ UNCHANGED <<txs, log, deletions, failures, crashes>>
  /\ Moves(h)
  /\ \E s \in Submission :
       submission' = [submission EXCEPT ![task[h].request] = s] /\ SaveKinds(h, s)

(* The actions that may write, one by one.                                 *)
LEMMA NotifySteps ==
  ASSUME Shape, NEW h \in Handlers, Notify(h)
  PROVE  Quiet(h) \/ Saving(h)
<1> USE DEF Shape
<1>1. /\ task[h].at = "notify" /\ Stay /\ GoTo(h, "receipt") /\ (Fails \/ NoFailure)
      /\ UNCHANGED <<chainVars, crashes>>
  BY DEF Notify
<1>2. task[h].at \in Holding /\ "receipt" \in Holding
  BY <1>1 DEF Holding, Waiting, Places
<1>3. Moves(h) /\ Steps(h, {"notify"}, {"receipt"})
  BY <1>1, <1>2, GoToMoves DEF Steps
<1>4. CASE UNCHANGED submission /\ Fails
  BY <1>1, <1>3, <1>4, FailureCounted DEF Quiet, QuietKinds, Fails, Fell, chainVars
<1>5. CASE /\ Save(h, [status |-> "submitted", tx |-> task[h].tx, effects |-> TRUE])
           /\ NoFailure
  <2> DEFINE s == [status |-> "submitted", tx |-> task[h].tx, effects |-> TRUE]
  <2>1. s \in Submission /\ s.status = "submitted" /\ s.tx = task[h].tx
    BY DEF TypeOK, Task, Submission, Statuses
  <2> HIDE DEF s
  <2>2. submission' = [submission EXCEPT ![task[h].request] = s]
    BY <1>5 DEF Save, s
  <2> QED BY <1>1, <1>3, <1>5, <2>1, <2>2 DEF Saving, SaveKinds, chainVars, NoFailure
<1> QED BY <1>4, <1>5 DEF Notify

(* The outcome of a transaction is saved, or that fails.                   *)
LEMMA SaveResultSteps ==
  ASSUME Shape, NEW h \in Handlers, SaveResult(h)
  PROVE  Quiet(h) \/ Saving(h)
<1> USE DEF Shape
<1>1. /\ task[h].at = "saveResult" /\ (Fails \/ NoFailure)
      /\ UNCHANGED <<chainVars, crashes>>
  BY DEF SaveResult
<1>2. task[h].at \in Holding /\ "recover" \in Holding
  BY <1>1 DEF Holding, Waiting, Places
<1>3. CASE Fails /\ GoTo(h, "recover") /\ Stay /\ UNCHANGED submission
  BY <1>1, <1>2, <1>3, GoToMoves, FailureCounted
     DEF Quiet, QuietKinds, Steps, Fails, Fell, chainVars
<1>4. CASE Save(h, Result(h)) /\ Leave(h) /\ NoFailure
  <2>1. Result(h) \in Submission
    BY DEF TypeOK, Task, Submission, Statuses, Result
  <2>2. Moves(h) /\ task'[h] = Finished
    BY <1>2, <1>4, LeaveMoves DEF Holding
  <2> QED BY <1>1, <1>4, <2>1, <2>2 DEF Saving, SaveKinds, Save, chainVars, NoFailure
<1> QED BY <1>3, <1>4 DEF SaveResult

(* So is that a live proposal was found.                                   *)
LEMMA SkipSteps ==
  ASSUME Shape, NEW h \in Handlers, Skip(h)
  PROVE  Quiet(h) \/ Saving(h)
<1> USE DEF Shape
<1>1. /\ task[h].at = "skip" /\ (Fails \/ NoFailure)
      /\ UNCHANGED <<chainVars, crashes>>
  BY DEF Skip
<1>2. /\ task[h].at \in Holding /\ "recover" \in Holding
      /\ S(h) \in Submission /\ task[h] \in Task
  BY <1>1, StoredTypes DEF Holding, Waiting, Places
<1>3. CASE Fails /\ GoTo(h, "recover") /\ Stay /\ UNCHANGED submission
  BY <1>1, <1>2, <1>3, GoToMoves, FailureCounted
     DEF Quiet, QuietKinds, Steps, Fails, Fell, chainVars
<1>4. CASE /\ Save(h, [S(h) EXCEPT !.status = "resolved", !.effects = task[h].effects])
           /\ Leave(h) /\ NoFailure
  <2> DEFINE s == [S(h) EXCEPT !.status = "resolved", !.effects = task[h].effects]
  <2>1. s \in Submission /\ s.status = "resolved" /\ s.tx = S(h).tx
    <3>1. task[h].effects \in BOOLEAN
      BY <1>2 DEF Task
    <3> QED BY <1>2, <3>1 DEF Submission, Statuses
  <2> HIDE DEF s
  <2>2. Moves(h) /\ task'[h] = Finished
    BY <1>2, <1>4, LeaveMoves DEF Holding
  <2>3. submission' = [submission EXCEPT ![task[h].request] = s]
    BY <1>4 DEF Save, s
  <2> QED BY <1>1, <1>4, <2>1, <2>2, <2>3 DEF Saving, SaveKinds, chainVars, NoFailure
<1> QED BY <1>3, <1>4 DEF Skip, S

(* A failure is saved as one, unless the record knows a transaction.       *)
LEMMA RecoverSteps ==
  ASSUME Shape, NEW h \in Handlers, Recover(h)
  PROVE  Quiet(h) \/ Saving(h)
<1> USE DEF Shape
<1>1. /\ task[h].at = "recover" /\ (Fails \/ NoFailure)
      /\ UNCHANGED <<chainVars, crashes>>
  BY DEF Recover
<1>2. task[h].at \in Holding /\ "reconcile" \in Holding
  BY <1>1 DEF Holding, Waiting, Places
<1>3. CASE S(h).tx # None /\ GoTo(h, "reconcile") /\ Stay /\ UNCHANGED submission
  BY <1>1, <1>2, <1>3, GoToMoves, FailureCounted DEF Quiet, QuietKinds, Steps, chainVars
<1>4. CASE S(h).tx = None /\ Leave(h)
  <2>1. Fallback(h) \in Submission
    BY DEF TypeOK, Task, Submission, Statuses, Fallback
  <2>2. Moves(h) /\ task'[h] = Finished
    BY <1>2, <1>4, LeaveMoves DEF Holding
  <2>3. CASE Save(h, Fallback(h)) /\ NoFailure
    BY <1>1, <1>4, <2>1, <2>2, <2>3 DEF Saving, SaveKinds, Save, chainVars, NoFailure
  <2>4. CASE UNCHANGED submission
    BY <1>1, <2>2, <2>4, FailureCounted DEF Quiet, QuietKinds, chainVars
  <2>5. S(h).tx # None \/ (Save(h, Fallback(h)) /\ NoFailure) \/ UNCHANGED submission
    BY DEF Recover, S
  <2> QED BY <1>4, <2>3, <2>4, <2>5
<1> QED BY <1>3, <1>4 DEF Recover, S

(* A stored transaction is looked up again.                                *)
LEMMA ReconcileSteps ==
  ASSUME Shape, NEW h \in Handlers, Reconcile(h)
  PROVE  Quiet(h) \/ Saving(h)
<1> USE DEF Shape
<1>1. /\ task[h].at = "reconcile" /\ Leave(h) /\ (Fails \/ NoFailure)
      /\ UNCHANGED <<chainVars, crashes>>
  BY DEF Reconcile
<1>2. task[h].at \in Holding /\ S(h) \in Submission
  BY <1>1, StoredTypes DEF Holding, Waiting, Places
<1>3. Moves(h) /\ task'[h] = Finished
  BY <1>1, <1>2, LeaveMoves DEF Holding
<1>4. CASE UNCHANGED submission
  BY <1>1, <1>3, <1>4, FailureCounted DEF Quiet, QuietKinds, chainVars
<1>5. CASE /\ txs[S(h).tx].status = "mined" /\ NoFailure
           /\ Save(h, [S(h) EXCEPT !.status = "resolved", !.effects = TRUE])
  <2> DEFINE s == [S(h) EXCEPT !.status = "resolved", !.effects = TRUE]
  <2>1. s \in Submission /\ s.status = "resolved" /\ s.tx = S(h).tx
    BY <1>2 DEF Submission, Statuses
  <2> HIDE DEF s
  <2>2. submission' = [submission EXCEPT ![task[h].request] = s]
    BY <1>5 DEF Save, s
  <2> QED BY <1>1, <1>3, <1>5, <2>1, <2>2 DEF Saving, SaveKinds, chainVars, NoFailure
<1> QED BY <1>4, <1>5 DEF Reconcile, S

(* Sending: with the answer of the RPC node, or without it.                *)
Sending(h) ==
  /\ UNCHANGED <<submission, log, deletions, crashes>> /\ failures' \in Nat
  /\ Moves(h) /\ task[h].at = "broadcast" /\ task'[h].og = task[h].og
  /\ \/ /\ txs' = Sent(h) /\ task'[h].at = "notify" /\ task'[h].tx = Len(txs) + 1
        /\ failures' = failures
     \/ /\ txs' \in {txs, Sent(h)} /\ task'[h].at = "saveResult" /\ task'[h].tx = task[h].tx
        /\ failures' = failures + 1

(* A handler that has not broadcast yet leaves room for a transaction.     *)
LEMMA RoomToSend ==
  ASSUME Shape, NEW h \in Handlers, h \notin Past
  PROVE  Len(txs) + 1 \in TxIds
<1>1. IsFiniteSet(Handlers) /\ Past \cup {h} \subseteq Handlers
  BY SubmissionAssumption DEF Past
<1>2. IsFiniteSet(Past) /\ IsFiniteSet(Past \cup {h})
  BY <1>1, FS_Subset
<1>3. Cardinality(Past \cup {h}) = Cardinality(Past) + 1
  BY <1>2, FS_AddElement
<1>4. Cardinality(Past \cup {h}) <= Cardinality(Handlers)
  BY <1>1, FS_Subset
<1>5. Cardinality(Past) \in Nat /\ Cardinality(Handlers) \in Nat
  BY <1>1, <1>2, FS_CardinalityType
<1>6. Len(txs) \in Nat /\ Len(txs) <= Cardinality(Past)
  BY DEF Shape, TypeOK, Hashes
<1> QED BY <1>3, <1>4, <1>5, <1>6 DEF TxIds

(* The action that sends.                                                  *)
LEMMA BroadcastSends ==
  ASSUME Shape, NEW h \in Handlers, Broadcast(h)
  PROVE  Sending(h) /\ Len(txs) + 1 \in TxIds
<1> USE DEF Shape
<1>1. /\ task[h].at = "broadcast" /\ Stay /\ UNCHANGED <<submission, log, deletions, crashes>>
  BY DEF Broadcast
<1>2. task[h].at \in Holding /\ "saveResult" \in Holding /\ "notify" \in Holding
  BY <1>1 DEF Holding, Waiting, Places
<1>3. Len(txs) + 1 \in TxIds
  BY <1>1, RoomToSend DEF Past
<1>4. CASE Fails /\ txs' \in {txs, Sent(h)} /\ GoTo(h, "saveResult")
  <2>1. Moves(h) /\ task'[h].at = "saveResult" /\ task'[h].tx = task[h].tx
        /\ task'[h].og = task[h].og
    BY <1>1, <1>2, <1>4, GoToMoves
  <2> QED BY <1>1, <1>3, <1>4, <2>1, FailureCounted DEF Sending, Fails
<1>5. CASE /\ txs' = Sent(h) /\ NoFailure
           /\ task' = [task EXCEPT ![h].at = "notify", ![h].tx = Len(txs) + 1,
                                   ![h].effects = TRUE]
  <2> DEFINE t == [task[h] EXCEPT !.at = "notify", !.tx = Len(txs) + 1, !.effects = TRUE]
  <2>1. t \in Task /\ t.at = "notify" /\ t.request = task[h].request
        /\ t.tx = Len(txs) + 1 /\ t.og = task[h].og
    BY <1>3 DEF TypeOK, Task, Places
  <2>2. task' = [task EXCEPT ![h] = t]
    BY <1>5
  <2> HIDE DEF t
  <2>3. Moves(h) /\ task'[h] = t
    BY <1>1, <1>2, <2>1, <2>2, HoldMoves
  <2> QED BY <1>1, <1>3, <1>5, <2>1, <2>3, FailureCounted DEF Sending, NoFailure
<1> QED BY <1>4, <1>5 DEF Broadcast

(* Every step of a handler is of one of the three kinds.                   *)
LEMMA StepKinds ==
  ASSUME Shape, NEW h \in Handlers, HandlerStep(h)
  PROVE  Quiet(h) \/ Saving(h) \/ (Sending(h) /\ Len(txs) + 1 \in TxIds)
<1>1. CASE Published(h) \/ TakeKeyTurn(h) \/ TakeDepositTurn(h)
  BY <1>1, PublishedQuiet, TakeKeyTurnQuiet, TakeDepositTurnQuiet
<1>2. CASE VerifyStore(h) \/ VerifyChain(h) \/ SaveVerdict(h)
  BY <1>2, VerifyStoreQuiet, VerifyChainQuiet, SaveVerdictQuiet
<1>3. CASE Prepare(h) \/ Broadcast(h) \/ Receipt(h)
  BY <1>3, PrepareQuiet, BroadcastSends, ReceiptQuiet
<1>4. CASE Notify(h) \/ SaveResult(h) \/ Skip(h) \/ Recover(h) \/ Reconcile(h)
  BY <1>4, NotifySteps, SaveResultSteps, SkipSteps, RecoverSteps, ReconcileSteps
<1> QED BY <1>1, <1>2, <1>3, <1>4 DEF HandlerStep

-----------------------------------------------------------------------------
(* Two handlers never hold one key.                                        *)
LEMMA KeysExclude ==
  ASSUME Shape, NEW g \in Handlers, NEW h \in Handlers, g # h,
         task[g].at \in Holding, task[h].at \in Holding
  PROVE  task[g].request # task[h].request
<1>1. g \in Range(keyTail) /\ h \in Range(keyTail) /\ Chain(keyTail, Handlers)
  BY DEF Shape, Chains, Holding
<1>2. Ahead(keyTail, g, h) \/ Ahead(keyTail, h, g)
  BY <1>1, OneIsAhead
<1> QED BY <1>2 DEF Shape, Chains

(* What the first one for its key may rely on.                             *)
LEMMA KeyTurnMeans ==
  ASSUME Shape, NEW h \in Handlers, task[h].at \in Waiting, KeyTurn(h)
  PROVE  \A g \in Handlers : Ahead(keyTail, g, h) => task[g].request # task[h].request
<1>1. h \in Range(keyTail) /\ Chain(keyTail, Handlers)
  BY DEF Shape, Chains
<1>2. \A g : g \in Before(keyTail, h) <=> Ahead(keyTail, g, h)
  BY <1>1, AheadBefore DEF Before
<1> QED BY <1>2 DEF KeyTurn

(* The chains stay in order whichever way a handler moves.                 *)
LEMMA ChainsMoves ==
  ASSUME Shape, NEW h \in Handlers, Moves(h)
  PROVE  Chains'
<1> USE DEF Shape
<1>1. task' \in [Handlers -> Task] /\ Others(h)
  BY DEF Moves
<1>2. /\ Chain(keyTail, Handlers) /\ Chain(depositTail, Handlers)
      /\ \A g \in Handlers : g \in Range(keyTail) <=> task[g].at \in Waiting
      /\ \A g \in Handlers : g \in Range(depositTail) => task[g].at \in Holding
  BY DEF Chains
<1>3. \A g \in Handlers \ {h} : task'[g] = task[g]
  BY <1>1 DEF Others
<1>a. "queued" \in Waiting /\ "queued" \notin Holding /\ Holding \subseteq Waiting
      /\ "blocked" \in Holding /\ "publish" \notin Waiting /\ "done" \notin Waiting
      /\ "done" \notin Holding /\ "publish" \notin Holding /\ "idle" \notin Waiting
  BY DEF Waiting, Holding, Places
<1>4. CASE Enters(h)
  <2>1. h \notin Range(keyTail) /\ h \notin Range(depositTail)
    BY <1>2, <1>4, <1>a DEF Enters, Moved
  <2>2. /\ Chain(keyTail', Handlers) /\ Range(keyTail') = Range(keyTail) \cup {h}
        /\ \A f, g : Ahead(keyTail', f, g)
                       <=> Ahead(keyTail, f, g) \/ (f \in Range(keyTail) /\ g = h)
    BY <1>2, <1>4, <2>1, Entered DEF Enters
  <2>3. task'[h].at = "queued" /\ task'[h].request = task[h].request /\ task[h].at = "publish"
        /\ depositTail' = depositTail
    BY <1>4 DEF Enters, Moved
  <2>4. task'[h].request \in Requests
    BY <2>3 DEF Chains
  <2>5. ASSUME NEW g \in Handlers, task'[g].at \in Holding, NEW f \in Handlers,
               Ahead(keyTail', f, g)
        PROVE  task'[f].request # task'[g].request
    <3>1. g # h
      BY <2>3, <2>5, <1>a
    <3>2. Ahead(keyTail, f, g)
      BY <2>2, <2>5, <3>1
    <3>3. task'[f].request = task[f].request /\ task'[g] = task[g]
      BY <1>3, <2>3, <3>1
    <3> QED BY <2>5, <3>2, <3>3 DEF Chains
  <2>6. \A g \in Handlers :
          /\ task'[g].at \notin {"idle", "done"} => task'[g].request \in Requests
          /\ task'[g].at = "idle" => task'[g].tx = None
          /\ g \in Range(keyTail') <=> task'[g].at \in Waiting
          /\ g \in Range(depositTail') => task'[g].at \in Holding
    BY <1>2, <1>3, <1>a, <2>1, <2>2, <2>3, <2>4 DEF Chains
  <2> QED BY <1>2, <2>2, <2>3, <2>5, <2>6 DEF Chains
<1>5. CASE Blocks(h)
  <2>1. task[h].at = "queued" /\ task'[h].at = "blocked" /\ keyTail' = keyTail
        /\ task'[h].request = task[h].request
    BY <1>5 DEF Blocks, Moved
  <2>2. h \notin Range(depositTail)
    BY <1>2, <1>a, <2>1
  <2>3. Chain(depositTail', Handlers) /\ Range(depositTail') = Range(depositTail) \cup {h}
    BY <1>2, <1>5, <2>2, Entered DEF Blocks
  <2>4. \A g \in Handlers : Ahead(keyTail, g, h) => task[g].request # task[h].request
    BY <1>5, <1>a, <2>1, KeyTurnMeans DEF Blocks
  <2>5. ASSUME NEW g \in Handlers, task'[g].at \in Holding, NEW f \in Handlers,
               Ahead(keyTail', f, g)
        PROVE  task'[f].request # task'[g].request
    BY <1>3, <2>1, <2>4, <2>5 DEF Chains
  <2>6. \A g \in Handlers :
          /\ task'[g].at \notin {"idle", "done"} => task'[g].request \in Requests
          /\ task'[g].at = "idle" => task'[g].tx = None
          /\ g \in Range(keyTail') <=> task'[g].at \in Waiting
          /\ g \in Range(depositTail') => task'[g].at \in Holding
    BY <1>2, <1>3, <1>a, <2>1, <2>3 DEF Chains
  <2> QED BY <1>2, <2>1, <2>3, <2>5, <2>6 DEF Chains
<1>6. CASE Takes(h) \/ Goes(h)
  <2>1. /\ task[h].at \in Waiting /\ task'[h].at \in Holding
        /\ task'[h].request = task[h].request /\ keyTail' = keyTail /\ depositTail' = depositTail
    BY <1>6, <1>a DEF Takes, Goes, Moved, Stay
  <2>2. \A g \in Handlers : Ahead(keyTail, g, h) => task[g].request # task[h].request
    BY <1>6, <2>1, KeyTurnMeans DEF Takes, Goes, Moved, Chains
  <2>3. ASSUME NEW g \in Handlers, task'[g].at \in Holding, NEW f \in Handlers,
               Ahead(keyTail', f, g)
        PROVE  task'[f].request # task'[g].request
    BY <1>3, <2>1, <2>2, <2>3 DEF Chains
  <2>4. task[h].request \in Requests
    BY <2>1, <1>a DEF Chains, Waiting
  <2>6. \A g \in Handlers :
          /\ task'[g].at \notin {"idle", "done"} => task'[g].request \in Requests
          /\ task'[g].at = "idle" => task'[g].tx = None
          /\ g \in Range(keyTail') <=> task'[g].at \in Waiting
          /\ g \in Range(depositTail') => task'[g].at \in Holding
    BY <1>2, <1>3, <1>a, <2>1, <2>4 DEF Chains
  <2> QED BY <1>2, <2>1, <2>3, <2>6 DEF Chains
<1>7. CASE Leaves(h)
  <2>1. task'[h] = Finished /\ keyTail' = RemoveFirst(keyTail, h)
        /\ depositTail' = RemoveFirst(depositTail, h)
    BY <1>7, FinishedType DEF Leaves, Leave, TypeOK
  <2>2. /\ Chain(keyTail', Handlers) /\ Range(keyTail') = Range(keyTail) \ {h}
        /\ \A f, g : Ahead(keyTail', f, g) <=> Ahead(keyTail, f, g) /\ f # h /\ g # h
    BY <1>2, <2>1, LeftChain
  <2>3. Chain(depositTail', Handlers) /\ Range(depositTail') = Range(depositTail) \ {h}
    BY <1>2, <2>1, LeftChain
  <2>4. ASSUME NEW g \in Handlers, task'[g].at \in Holding, NEW f \in Handlers,
               Ahead(keyTail', f, g)
        PROVE  task'[f].request # task'[g].request
    <3>1. f # h /\ g # h /\ Ahead(keyTail, f, g)
      BY <2>2, <2>4
    <3>2. task'[f] = task[f] /\ task'[g] = task[g]
      BY <1>3, <3>1
    <3> QED BY <2>4, <3>1, <3>2 DEF Chains
  <2>5. task'[h].at = "done"
    BY <2>1, FinishedType
  <2>6. \A g \in Handlers :
          /\ task'[g].at \notin {"idle", "done"} => task'[g].request \in Requests
          /\ task'[g].at = "idle" => task'[g].tx = None
          /\ g \in Range(keyTail') <=> task'[g].at \in Waiting
          /\ g \in Range(depositTail') => task'[g].at \in Holding
    BY <1>2, <1>3, <1>a, <2>2, <2>3, <2>5 DEF Chains
  <2> QED BY <2>2, <2>3, <2>4, <2>6 DEF Chains
<1> QED BY <1>4, <1>5, <1>6, <1>7 DEF Moves

(* Who may have sent only gets more.                                       *)
LEMMA PastGrows ==
  ASSUME Shape, Past \subseteq Past'
  PROVE  /\ Cardinality(Past) <= Cardinality(Past') /\ Cardinality(Past) \in Nat
         /\ Cardinality(Past') \in Nat /\ Len(txs) <= Cardinality(Past')
<1>1. IsFiniteSet(Handlers) /\ Past' \subseteq Handlers
  BY SubmissionAssumption DEF Past
<1>2. IsFiniteSet(Past') /\ IsFiniteSet(Past)
  BY <1>1, FS_Subset
<1>3. Cardinality(Past) <= Cardinality(Past')
  BY <1>2, FS_Subset
<1>4. Cardinality(Past) \in Nat /\ Cardinality(Past') \in Nat
  BY <1>2, FS_CardinalityType
<1> QED BY <1>3, <1>4 DEF Shape, Hashes, TypeOK

(* Only sending uses up the chance to broadcast.                           *)
LEMMA QuietPast ==
  ASSUME Shape, NEW h \in Handlers, Quiet(h) \/ Saving(h)
  PROVE  Past \subseteq Past'
<1>1. \A g \in Handlers \ {h} : task'[g] = task[g]
  BY DEF Quiet, Saving, Moves, Others
<1>2. task[h].at \in {"notify", "receipt", "saveResult", "skip", "recover", "reconcile"} =>
        task'[h].at \in {"notify", "receipt", "saveResult", "skip", "recover", "reconcile", "done"}
  BY FinishedType DEF Quiet, Saving, QuietKinds, SaveKinds, Steps
<1>3. task[h].at # "done"
  BY DEF Quiet, Saving, Moves, Enters, Blocks, Takes, Goes, Leaves, Moved, Waiting, Holding
<1> QED BY <1>1, <1>2, <1>3 DEF Past

(* What a task remembers stays true of it when transactions are kept.      *)
LEMMA RememberedTasks ==
  ASSUME Shape, NEW h \in Handlers, Others(h),
         \A t \in DOMAIN txs : t \in DOMAIN txs' /\ txs'[t].request = txs[t].request,
         \/ task'[h] = Finished
         \/ /\ task'[h].tx = task[h].tx /\ task'[h].request = task[h].request
            /\ task'[h].at \in {"notify", "receipt"} => task[h].at \in {"notify", "receipt"}
         \/ task'[h].tx # None /\ SentIn(txs', task'[h].tx, task'[h].request)
  PROVE  /\ \A g \in Handlers : task'[g].tx # None => SentIn(txs', task'[g].tx, task'[g].request)
         /\ \A g \in Handlers : task'[g].at \in {"notify", "receipt"} => task'[g].tx # None
<1>1. /\ \A g \in Handlers : task[g].tx # None => SentFor(task[g].tx, task[g].request)
      /\ \A g \in Handlers : task[g].at \in {"notify", "receipt"} => task[g].tx # None
  BY DEF Shape, Hashes
<1>2. \A t, q : SentFor(t, q) => t \in DOMAIN txs' /\ txs'[t].request = q
  BY DEF SentFor, SentIn
<1>3. ASSUME NEW g \in Handlers \ {h}
      PROVE  /\ task'[g].tx # None => SentIn(txs', task'[g].tx, task'[g].request)
             /\ task'[g].at \in {"notify", "receipt"} => task'[g].tx # None
  <2>1. task'[g] = task[g]
    BY DEF Others
  <2> QED BY <1>1, <1>2, <2>1 DEF SentFor, SentIn
<1>4. /\ task'[h].tx # None => SentIn(txs', task'[h].tx, task'[h].request)
      /\ task'[h].at \in {"notify", "receipt"} => task'[h].tx # None
  <2>1. CASE task'[h] = Finished
    BY <2>1, FinishedType
  <2>2. CASE task'[h].tx # None /\ SentIn(txs', task'[h].tx, task'[h].request)
    BY <2>2
  <2>3. CASE /\ task'[h].tx = task[h].tx /\ task'[h].request = task[h].request
             /\ task'[h].at \in {"notify", "receipt"} => task[h].at \in {"notify", "receipt"}
    BY <1>1, <1>2, <2>3 DEF SentFor, SentIn
  <2> QED BY <2>1, <2>2, <2>3
<1> QED BY <1>3, <1>4

(* The shape is kept by each kind of step.                                 *)
LEMMA ShapeQuiet ==
  ASSUME Shape, NEW h \in Handlers, Quiet(h), UNCHANGED settings
  PROVE  Shape'
<1>1. /\ UNCHANGED <<submission, txs, log, deletions, crashes>> /\ failures' \in Nat
      /\ Moves(h) /\ task' \in [Handlers -> Task] /\ Others(h) /\ QuietKinds(h)
  BY DEF Quiet, Moves, Shape, TypeOK
<1>2. Chains'
  BY <1>1, ChainsMoves
<1>3. TypeOK'
  <2>1. keyTail' \in Seq(Handlers) /\ depositTail' \in Seq(Handlers)
    BY <1>2 DEF Chains, Chain
  <2> QED BY <1>1, <2>1 DEF Shape, TypeOK
<1>4. task'[h] = Finished \/ task'[h].request = task[h].request
  BY <1>1, FinishedType DEF Moves, Enters, Blocks, Takes, Goes, Leaves, Leave, Moved, Shape, TypeOK
<1>5. \/ task'[h] = Finished
      \/ /\ task'[h].tx = task[h].tx /\ task'[h].request = task[h].request
         /\ task'[h].at \in {"notify", "receipt"} => task[h].at \in {"notify", "receipt"}
  BY <1>1, <1>4 DEF QuietKinds, Steps
<1>6. /\ \A g \in Handlers : task'[g].tx # None => SentIn(txs', task'[g].tx, task'[g].request)
      /\ \A g \in Handlers : task'[g].at \in {"notify", "receipt"} => task'[g].tx # None
  BY <1>1, <1>5, RememberedTasks
<1>7. Len(txs') <= Cardinality(Past')
  BY <1>1, QuietPast, PastGrows
<1>8. Hashes'
  BY <1>1, <1>6, <1>7 DEF Shape, Hashes, SentFor, SentIn
<1> QED BY <1>2, <1>3, <1>8 DEF Shape

(* A handler that saves keeps types, chains and hashes.                    *)
LEMMA ShapeSaving ==
  ASSUME Shape, NEW h \in Handlers, Saving(h), UNCHANGED settings
  PROVE  Shape'
<1>1. /\ UNCHANGED <<txs, log, deletions, failures, crashes>>
      /\ Moves(h) /\ task' \in [Handlers -> Task] /\ Others(h)
  BY DEF Saving, Moves
<1>2. PICK s \in Submission :
        submission' = [submission EXCEPT ![task[h].request] = s] /\ SaveKinds(h, s)
  BY DEF Saving
<1>3. Chains'
  BY <1>1, ChainsMoves
<1>4. TypeOK'
  <2>1. keyTail' \in Seq(Handlers) /\ depositTail' \in Seq(Handlers)
    BY <1>3 DEF Chains, Chain
  <2>2. submission' \in [Requests -> Submission]
    BY <1>2 DEF Shape, TypeOK
  <2> QED BY <1>1, <2>1, <2>2 DEF Shape, TypeOK
<1>5. task[h].at \notin {"idle", "done", "publish", "queued"}
  BY <1>2 DEF SaveKinds, Steps
<1>6. task[h].request \in Requests
  BY <1>5 DEF Shape, Chains
<1>7. s.tx # None => SentFor(s.tx, task[h].request)
  <2>1. s.tx = task[h].tx \/ s.tx = S(h).tx
    BY <1>2 DEF SaveKinds, Result, Fallback
  <2> QED BY <1>6, <2>1 DEF Shape, Hashes, S
<1>8. \/ task'[h] = Finished
      \/ /\ task'[h].tx = task[h].tx /\ task'[h].request = task[h].request
         /\ task'[h].at \in {"notify", "receipt"} => task[h].at \in {"notify", "receipt"}
  <2>1. task'[h] = Finished \/ task'[h].request = task[h].request
    BY <1>1, FinishedType
       DEF Moves, Enters, Blocks, Takes, Goes, Leaves, Leave, Moved, Shape, TypeOK
  <2> QED BY <1>2, <2>1 DEF SaveKinds, Steps
<1>9. /\ \A g \in Handlers : task'[g].tx # None => SentIn(txs', task'[g].tx, task'[g].request)
      /\ \A g \in Handlers : task'[g].at \in {"notify", "receipt"} => task'[g].tx # None
  BY <1>1, <1>8, RememberedTasks
<1>10. \A q \in Requests : submission'[q].tx # None => SentFor(submission'[q].tx, q)
  BY <1>2, <1>6, <1>7 DEF Shape, TypeOK, Hashes
<1>11. Len(txs') <= Cardinality(Past')
  BY <1>1, QuietPast, PastGrows
<1>12. Hashes'
  BY <1>1, <1>9, <1>10, <1>11 DEF Hashes, SentFor, SentIn
<1> QED BY <1>3, <1>4, <1>12 DEF Shape

(* A transaction is added.                                                 *)
LEMMA SentTypes ==
  ASSUME Shape, NEW h \in Handlers, task[h].request \in Requests, txs' = Sent(h)
  PROVE  /\ txs' \in Seq(Transaction) /\ Len(txs') = Len(txs) + 1
         /\ DOMAIN txs' = DOMAIN txs \cup {Len(txs) + 1} /\ Len(txs) + 1 \notin DOMAIN txs
         /\ \A t \in DOMAIN txs : txs'[t] = txs[t]
         /\ txs'[Len(txs) + 1] = [request |-> task[h].request, status |-> "pool", block |-> 0]
<1> DEFINE e == [request |-> task[h].request, status |-> "pool", block |-> 0]
<1>1. e \in Transaction
  BY DEF Transaction
<1> HIDE DEF e
<1>2. txs \in Seq(Transaction) /\ txs' = Append(txs, e)
  BY DEF Shape, TypeOK, Sent, e
<1> QED BY <1>1, <1>2 DEF e

(* What the transactions are after sending.                                *)
LEMMA SendingTxs ==
  ASSUME Shape, NEW h \in Handlers, Sending(h)
  PROVE  /\ task[h].request \in Requests /\ task'[h].request = task[h].request
         /\ txs' \in Seq(Transaction) /\ Len(txs') \in Nat /\ Len(txs') <= Len(txs) + 1
         /\ \A t \in DOMAIN txs : t \in DOMAIN txs' /\ txs'[t] = txs[t]
         /\ \A t \in DOMAIN txs' \ DOMAIN txs :
              t = Len(txs) + 1
              /\ txs'[t] = [request |-> task[h].request, status |-> "pool", block |-> 0]
         /\ task'[h].at = "notify" => Len(txs) + 1 \in DOMAIN txs'
<1>1. task[h].at = "broadcast" /\ task'[h].at \in {"notify", "saveResult"}
  BY DEF Sending
<1>2. task[h].request \in Requests
  BY <1>1 DEF Shape, Chains
<1>3. task'[h].request = task[h].request
  BY <1>1, FinishedType DEF Sending, Moves, Enters, Blocks, Takes, Goes, Leaves, Leave, Moved,
     Shape, TypeOK
<1>4. txs \in Seq(Transaction) /\ Len(txs) \in Nat
  BY DEF Shape, TypeOK
<1>5. CASE txs' = txs
  <2>1. task'[h].at = "notify" => Len(txs) + 1 \in DOMAIN txs'
    <3>1. Sent(h) # txs
      BY <1>2, <1>4 DEF Sent
    <3> QED BY <1>2, <1>5, <3>1 DEF Sending
  <2> QED BY <1>2, <1>3, <1>4, <1>5, <2>1
<1>6. CASE txs' = Sent(h)
  <2>1. /\ txs' \in Seq(Transaction) /\ Len(txs') = Len(txs) + 1
        /\ DOMAIN txs' = DOMAIN txs \cup {Len(txs) + 1} /\ Len(txs) + 1 \notin DOMAIN txs
        /\ \A t \in DOMAIN txs : txs'[t] = txs[t]
        /\ txs'[Len(txs) + 1] = [request |-> task[h].request, status |-> "pool", block |-> 0]
    BY <1>2, <1>6, SentTypes
  <2> QED BY <1>2, <1>3, <1>4, <2>1
<1> QED BY <1>5, <1>6 DEF Sending

(* So does one that sends: the new hash is that of its request.            *)
LEMMA ShapeSending ==
  ASSUME Shape, NEW h \in Handlers, Sending(h), UNCHANGED settings
  PROVE  Shape'
<1>1. /\ UNCHANGED <<submission, log, deletions, crashes>> /\ failures' \in Nat
      /\ Moves(h) /\ task' \in [Handlers -> Task] /\ Others(h)
      /\ task[h].at = "broadcast" /\ task'[h].at \in {"notify", "saveResult"}
  BY DEF Sending, Moves
<1>2. Chains'
  BY <1>1, ChainsMoves
<1>3. TypeOK'
  <2>1. keyTail' \in Seq(Handlers) /\ depositTail' \in Seq(Handlers)
    BY <1>2 DEF Chains, Chain
  <2> QED BY <1>1, <2>1, SendingTxs DEF Shape, TypeOK
<1>4. \A t \in DOMAIN txs : t \in DOMAIN txs' /\ txs'[t].request = txs[t].request
  BY SendingTxs
<1>5. \/ task'[h].tx = task[h].tx /\ task'[h].request = task[h].request
         /\ task'[h].at = "saveResult"
      \/ task'[h].tx # None /\ SentIn(txs', task'[h].tx, task'[h].request)
  <2>1. CASE task'[h].at = "saveResult"
    BY <2>1, SendingTxs DEF Sending
  <2>2. CASE task'[h].at = "notify"
    <3>1. task'[h].tx = Len(txs) + 1 /\ task'[h].tx \in DOMAIN txs' /\ Len(txs) \in Nat
          /\ task'[h].tx \notin DOMAIN txs
      BY <2>2, SendingTxs DEF Sending, Shape, TypeOK
    <3>2. txs'[task'[h].tx].request = task'[h].request
      BY <3>1, SendingTxs
    <3>3. task'[h].tx # None
      BY <3>1, SubmissionAssumption
    <3> QED BY <3>1, <3>2, <3>3 DEF SentIn
  <2> QED BY <1>1, <2>1, <2>2
<1>6. /\ \A g \in Handlers : task'[g].tx # None => SentIn(txs', task'[g].tx, task'[g].request)
      /\ \A g \in Handlers : task'[g].at \in {"notify", "receipt"} => task'[g].tx # None
  BY <1>1, <1>4, <1>5, RememberedTasks
<1>7. Past' = Past \cup {h} /\ h \notin Past
  BY <1>1 DEF Past, Others
<1>8. Len(txs') <= Cardinality(Past')
  <2>1. IsFiniteSet(Past)
    BY SubmissionAssumption, FS_Subset DEF Past
  <2>2. Cardinality(Past') = Cardinality(Past) + 1
    BY <1>7, <2>1, FS_AddElement
  <2>3. Cardinality(Past) \in Nat
    BY <2>1, FS_CardinalityType
  <2> QED BY <2>2, <2>3, SendingTxs DEF Shape, Hashes, TypeOK
<1>9. \A q \in Requests : submission'[q].tx # None => SentIn(txs', submission'[q].tx, q)
  BY <1>1, <1>4 DEF Shape, Hashes, SentFor, SentIn
<1>10. Hashes'
  BY <1>6, <1>8, <1>9 DEF Hashes, SentFor, SentIn
<1> QED BY <1>2, <1>3, <1>10 DEF Shape
-----------------------------------------------------------------------------
(* The steps that are not a handler's.                                     *)
LEMMA PastSame ==
  ASSUME Shape, \A h \in Handlers : task[h].at \in {"idle", "publish"} \/ task'[h] = task[h]
                                    \/ task'[h].at = "done"
  PROVE  Past \subseteq Past'
  BY DEF Past

(* A request comes in.                                                     *)
LEMMA ShapeReceive ==
  ASSUME Shape, NEW h \in Handlers, NEW q \in Requests, Receive(h, q), UNCHANGED settings
  PROVE  /\ Shape' /\ Others(h)
         /\ task[h].at = "idle" /\ task'[h].at = "publish" /\ task'[h].tx = task[h].tx
         /\ task'[h].og = task[h].og
<1> USE DEF Shape
<1>1. /\ task[h].at = "idle"
      /\ UNCHANGED <<submission, keyTail, depositTail, txs, log, deletions, failures, crashes>>
  BY DEF Receive, chainVars
<1>2. PICK b \in BOOLEAN :
        task' = [task EXCEPT ![h].at = "publish", ![h].request = q, ![h].runtime = b]
  BY DEF Receive, CanBypassRuntime
<1> DEFINE t == [task[h] EXCEPT !.at = "publish", !.request = q, !.runtime = b]
<1>3. t \in Task /\ t.at = "publish" /\ t.request = q /\ t.tx = task[h].tx /\ t.og = task[h].og
  BY DEF TypeOK, Task, Places
<1>4. task' = [task EXCEPT ![h] = t]
  BY <1>2
<1> HIDE DEF t
<1>5. task' \in [Handlers -> Task] /\ Others(h) /\ task'[h] = t
  BY <1>3, <1>4, TaskType
<1>6. TypeOK'
  BY <1>1, <1>5 DEF TypeOK
<1>7. Chains'
  <2>1. \A g \in Handlers \ {h} : task'[g] = task[g]
    BY <1>5 DEF Others
  <2>2. task[h].at \notin Waiting /\ task'[h].at \notin Waiting
    BY <1>1, <1>3, <1>5 DEF Waiting
  <2>3. h \notin Range(keyTail) /\ h \notin Range(depositTail)
    BY <2>2 DEF Chains, Holding
  <2>4. ASSUME NEW g \in Handlers, task'[g].at \in Holding, NEW f \in Handlers,
               Ahead(keyTail', f, g)
        PROVE  task'[f].request # task'[g].request
    <3>1. f \in Range(keyTail) /\ g \in Range(keyTail) /\ Ahead(keyTail, f, g)
      BY <1>1, <2>4, AheadIsInside DEF Chains
    <3>2. task'[f] = task[f] /\ task'[g] = task[g]
      BY <2>1, <2>3, <3>1
    <3> QED BY <2>4, <3>1, <3>2 DEF Chains
  <2>5. task'[h].request \in Requests
    BY <1>3, <1>5
  <2>6. \A g \in Handlers :
          /\ task'[g].at \notin {"idle", "done"} => task'[g].request \in Requests
          /\ task'[g].at = "idle" => task'[g].tx = None
          /\ g \in Range(keyTail') <=> task'[g].at \in Waiting
          /\ g \in Range(depositTail') => task'[g].at \in Holding
    BY <1>1, <1>3, <1>5, <2>1, <2>2, <2>3, <2>5 DEF Chains
  <2> QED BY <1>1, <2>4, <2>6 DEF Chains
<1>8. Hashes'
  <2>1. Len(txs') <= Cardinality(Past')
    BY <1>1, <1>5, PastSame, PastGrows DEF Others
  <2>3. task[h].tx = None
    BY <1>1 DEF Chains
  <2>4. /\ \A g \in Handlers : task'[g].tx # None => SentIn(txs', task'[g].tx, task'[g].request)
        /\ \A g \in Handlers : task'[g].at \in {"notify", "receipt"} => task'[g].tx # None
    BY <1>1, <1>3, <1>5, <2>3 DEF Others, Hashes, SentFor
  <2> QED BY <1>1, <2>1, <2>4 DEF Hashes, SentFor
<1> QED BY <1>1, <1>3, <1>5, <1>6, <1>7, <1>8

(* The chain: requests of transactions and the events so far stay.         *)
Kept ==
  /\ \A t \in DOMAIN txs : t \in DOMAIN txs' /\ txs'[t].request = txs[t].request
  /\ \A i \in DOMAIN log : i \in DOMAIN log' /\ log'[i] = log[i]

(* The Governor and the chain leave the node alone.                        *)
LEMMA ChainMoves ==
  ASSUME Shape, Mine \/ Execute \/ Delete
  PROVE  /\ UNCHANGED <<submission, task, keyTail, depositTail, failures, crashes>>
         /\ txs' \in Seq(Transaction) /\ log' \in Seq(Event) /\ deletions' \in Nat
         /\ Len(txs') = Len(txs) /\ Kept
<1> USE DEF Shape
<1>1. txs \in Seq(Transaction) /\ log \in Seq(Event) /\ deletions \in Nat
  BY DEF TypeOK
<1>2. CASE Mine
  <2>1. PICK t \in DOMAIN txs :
          IF Live(PayloadOf[txs[t].request])
          THEN /\ txs' = [txs EXCEPT ![t].status = "reverted"]
               /\ UNCHANGED log
          ELSE /\ txs' = [txs EXCEPT ![t].status = "mined", ![t].block = Len(log) + 1]
               /\ log' = Append(log, [kind |-> "proposed", request |-> txs[t].request])
    BY <1>2 DEF Mine
  <2>2. txs[t] \in Transaction
    BY <1>1
  <2> DEFINE r == [txs[t] EXCEPT !.status = "reverted"]
             m == [txs[t] EXCEPT !.status = "mined", !.block = Len(log) + 1]
             e == [kind |-> "proposed", request |-> txs[t].request]
  <2>3. /\ r \in Transaction /\ r.request = txs[t].request
        /\ m \in Transaction /\ m.request = txs[t].request
        /\ e \in Event
    <3>1. Len(log) + 1 \in Nat
      BY <1>1
    <3> QED BY <2>2, <3>1 DEF Transaction, Event
  <2>4. \/ txs' = [txs EXCEPT ![t] = r] /\ log' = log
        \/ txs' = [txs EXCEPT ![t] = m] /\ log' = Append(log, e)
    BY <2>1
  <2> HIDE DEF r, m, e
  <2>5. txs' \in Seq(Transaction) /\ Len(txs') = Len(txs)
        /\ \A u \in DOMAIN txs : u \in DOMAIN txs' /\ txs'[u].request = txs[u].request
    <3>1. ASSUME NEW x \in Transaction, x.request = txs[t].request,
                 txs' = [txs EXCEPT ![t] = x]
          PROVE  txs' \in Seq(Transaction) /\ Len(txs') = Len(txs)
                 /\ \A u \in DOMAIN txs : u \in DOMAIN txs' /\ txs'[u].request = txs[u].request
      BY <1>1, <3>1, ExceptSeq
    <3> QED BY <2>3, <2>4, <3>1
  <2>6. log' \in Seq(Event) /\ \A i \in DOMAIN log : i \in DOMAIN log' /\ log'[i] = log[i]
    <3>1. Append(log, e) \in Seq(Event) /\ DOMAIN log = 1..Len(log) /\ Len(log) \in Nat
          /\ DOMAIN Append(log, e) = 1..Len(log) + 1
          /\ \A i \in DOMAIN log : Append(log, e)[i] = log[i]
      BY <1>1, <2>3
    <3>2. CASE log' = log
      BY <1>1, <3>2
    <3>3. CASE log' = Append(log, e)
      BY <3>1, <3>3
    <3> QED BY <2>4, <3>2, <3>3
  <2> QED BY <1>1, <1>2, <2>5, <2>6 DEF Mine, Kept
<1>3. ASSUME NEW kind \in {"executed", "deleted"}, Settle(kind)
      PROVE  /\ log' \in Seq(Event) /\ \A i \in DOMAIN log : i \in DOMAIN log' /\ log'[i] = log[i]
             /\ UNCHANGED <<submission, task, keyTail, depositTail, txs, failures, crashes>>
  <2>1. PICK i \in DOMAIN log : log' = Append(log, [kind |-> kind, request |-> log[i].request])
    BY <1>3 DEF Settle
  <2> DEFINE e == [kind |-> kind, request |-> log[i].request]
  <2>2. e \in Event
    <3>1. log[i] \in Event
      BY <1>1
    <3> QED BY <3>1 DEF Event
  <2>3. log' = Append(log, e)
    BY <2>1
  <2> HIDE DEF e
  <2> QED BY <1>1, <1>3, <2>2, <2>3 DEF Settle
<1>4. CASE Execute
  BY <1>1, <1>3, <1>4 DEF Execute, Kept
<1>5. CASE Delete
  BY <1>1, <1>3, <1>5 DEF Delete, Kept
<1> QED BY <1>2, <1>4, <1>5

(* The chain moves on.                                                     *)
LEMMA ShapeChain ==
  ASSUME Shape, Mine \/ Execute \/ Delete, UNCHANGED settings
  PROVE  Shape'
<1>1. /\ UNCHANGED <<submission, task, keyTail, depositTail, failures, crashes>>
      /\ txs' \in Seq(Transaction) /\ log' \in Seq(Event) /\ deletions' \in Nat
      /\ Len(txs') = Len(txs) /\ Kept
  BY ChainMoves
<1>2. TypeOK'
  BY <1>1 DEF Shape, TypeOK
<1>3. Chains'
  BY <1>1 DEF Shape, Chains
<1>4. Hashes'
  <2>1. Past' = Past
    BY <1>1 DEF Past
  <2> QED BY <1>1, <2>1 DEF Shape, Hashes, SentFor, SentIn, Kept
<1> QED BY <1>2, <1>3, <1>4 DEF Shape

(* After a crash no handler is at work.                                    *)
LEMMA CrashTasks ==
  ASSUME Shape, Crash
  PROVE  /\ UNCHANGED <<submission, txs, log, deletions, failures>>
         /\ task' \in [Handlers -> Task]
         /\ \A h \in Handlers : (task[h].at = "idle" /\ task'[h] = Idle) \/ task'[h] = Finished
         /\ \A h \in Handlers :
              task'[h].at \in {"idle", "done"} /\ task'[h].tx = None /\ ~task'[h].og
  BY FinishedType DEF Crash, chainVars

(* A restart empties the chains of promises.                               *)
LEMMA ShapeCrash ==
  ASSUME Shape, Crash, UNCHANGED settings
  PROVE  Shape'
<1>1. /\ UNCHANGED <<submission, txs, log, deletions, failures>>
      /\ crashes' \in Nat /\ keyTail' = <<>> /\ depositTail' = <<>>
  BY DEF Crash, Shape, TypeOK, chainVars
<1>2. TypeOK'
  BY <1>1, CrashTasks DEF Shape, TypeOK
<1>3. Chains'
  <2>1. \A h \in Handlers : task'[h].at \notin Waiting /\ task'[h].at \notin Holding
    BY CrashTasks DEF Waiting, Holding
  <2> QED BY <1>1, <2>1, CrashTasks, EmptyChain DEF Chains
<1>4. Hashes'
  <2>1. Past \subseteq Past'
    BY CrashTasks, FinishedType DEF Past
  <2>2. Len(txs') <= Cardinality(Past')
    BY <1>1, <2>1, PastGrows
  <2> QED BY <1>1, <2>2, CrashTasks DEF Shape, Hashes, SentFor, SentIn
<1> QED BY <1>2, <1>3, <1>4 DEF Shape

(* The node starts idle.                                                   *)
LEMMA ShapeInit == Init => Shape
<1> SUFFICES ASSUME Init PROVE Shape
  OBVIOUS
<1> USE DEF Init
<1>1. task \in [Handlers -> Task] /\ \A h \in Handlers : task[h] = Idle
  BY FinishedType
<1>2. submission \in [Requests -> Submission]
  BY DEF Submission, Statuses
<1>3. TypeOK
  <2>1. <<>> \in Seq(Handlers) /\ <<>> \in Seq(Transaction) /\ <<>> \in Seq(Event)
    OBVIOUS
  <2> QED BY <1>1, <1>2, <2>1 DEF TypeOK
<1>4. Chains
  <2>1. \A h \in Handlers : task[h].at \notin Waiting /\ task[h].at \notin Holding
    BY <1>1, FinishedType DEF Waiting, Holding
  <2> QED BY <1>1, <2>1, FinishedType, EmptyChain DEF Chains
<1>5. Hashes
  <2>1. IsFiniteSet(Past)
    BY SubmissionAssumption, FS_Subset DEF Past
  <2>2. Cardinality(Past) \in Nat
    BY <2>1, FS_CardinalityType
  <2> QED BY <1>1, <2>2, FinishedType DEF Hashes
<1> QED BY <1>3, <1>4, <1>5 DEF Shape

(* The shape is kept by every step.                                        *)
LEMMA ShapeNext == Shape /\ [Next]_vars => Shape'
<1> SUFFICES ASSUME Shape, [Next]_vars PROVE Shape'
  OBVIOUS
<1>1. CASE UNCHANGED vars
  BY <1>1 DEF vars, Shape, TypeOK, Chains, Hashes, Past, SentFor, SentIn
<1>2. ASSUME NEW h \in Handlers, HandlerStep(h), UNCHANGED settings PROVE Shape'
  BY <1>2, StepKinds, ShapeQuiet, ShapeSaving, ShapeSending
<1>3. ASSUME NEW h \in Handlers, NEW q \in Requests, Receive(h, q), UNCHANGED settings
      PROVE  Shape'
  BY <1>3, ShapeReceive
<1>4. CASE (Mine \/ Execute \/ Delete) /\ UNCHANGED settings
  BY <1>4, ShapeChain
<1>5. CASE Crash /\ UNCHANGED settings
  BY <1>5, ShapeCrash
<1> QED BY <1>1, <1>2, <1>3, <1>4, <1>5 DEF Next

(* The variables of the node and the chain keep their types: a handler     *)
(* broadcasts at most once, so there is a name for every transaction.      *)
THEOREM SubmissionTypes == Spec => []TypeOK
<1>1. Shape => TypeOK
  BY DEF Shape
<1> QED BY <1>1, ShapeInit, ShapeNext, PTL DEF Spec
-----------------------------------------------------------------------------
(* A proposal that is to be verified has no transaction.                   *)
LEMMA ToVerifyIsUnsent ==
  ASSUME Shape, Stored, NEW q \in Requests, ShouldVerify(submission[q])
  PROVE  submission[q].tx = None /\ submission[q].status # "uncertain"
<1>1. submission[q].status \in Statuses
  BY DEF Shape, TypeOK, Submission
<1> QED BY <1>1 DEF Stored, ShouldVerify, Statuses

(* The stored state is what its handler relies on, step by step.           *)
LEMMA StoredInit == Init => Stored
  BY FinishedType DEF Init, Stored, StoredOf, Verified

(* What a handler relies on survives steps that write nothing.             *)
LEMMA StoredQuiet ==
  ASSUME Shape, Stored, NEW h \in Handlers, Quiet(h)
  PROVE  Stored'
<1>1. submission' = submission /\ QuietKinds(h) /\ \A g \in Handlers \ {h} : task'[g] = task[g]
  BY DEF Quiet, Moves, Others
<1>2. ASSUME NEW g \in Handlers \ {h} PROVE StoredOf(g)'
  BY <1>1 DEF Stored, StoredOf
<1>3. CASE task'[h] = Finished
  <2>1. StoredOf(h)'
    BY <1>3, FinishedType DEF StoredOf, Verified
  <2> QED BY <1>1, <1>2, <2>1 DEF Stored
<1>4. CASE task'[h] # Finished
  <2>1. /\ task'[h].request = task[h].request /\ task[h].request \in Requests
        /\ task[h].at \notin {"idle", "done"}
    <3>1. task'[h].request = task[h].request /\ task[h].at \notin {"idle", "done"}
      BY <1>4, FinishedType DEF Quiet, Moves, Enters, Blocks, Takes, Goes, Leaves, Leave, Moved,
         Shape, TypeOK, Waiting, Holding
    <3> QED BY <3>1 DEF Shape, Chains
  <2>2. ShouldVerify(S(h)) => S(h).tx = None
    BY <2>1, ToVerifyIsUnsent DEF S
  <2>3. StoredOf(h)
    BY DEF Stored
  <2> DEFINE s == submission[task[h].request]
  <2>4. /\ task[h].at \in Verified \cup {"verify", "notify", "skip"} =>
             ShouldVerify(s) /\ s.tx = None
        /\ task[h].at \in {"receipt", "saveResult", "recover"} => s.tx \in {None, task[h].tx}
        /\ task[h].at \in Verified \cup {"publish", "queued", "blocked", "verify", "skip"} =>
             task[h].tx = None
        /\ ShouldVerify(s) => s.tx = None
    BY <2>2, <2>3 DEF StoredOf, S
  <2>5. submission'[task'[h].request] = s
    BY <1>1, <2>1
  <2>6. S(h) = s
    BY DEF S
  <2> HIDE DEF s
  <2>7. /\ task'[h].at \in Verified \cup {"verify", "notify", "skip"} =>
             ShouldVerify(s) /\ s.tx = None
        /\ task'[h].at \in {"receipt", "saveResult", "recover"} => s.tx \in {None, task'[h].tx}
        /\ task'[h].at \in Verified \cup {"publish", "queued", "blocked", "verify", "skip"} =>
             task'[h].tx = None
        /\ task'[h].at = "reconcile" => s.tx # None
    BY <1>1, <1>4, <2>4, <2>6 DEF QuietKinds, Steps, Verified
  <2>8. StoredOf(h)'
    BY <2>5, <2>7 DEF StoredOf
  <2> QED BY <1>1, <1>2, <2>8 DEF Stored
<1> QED BY <1>3, <1>4

(* Others are not concerned by what the holder of a key writes.            *)
LEMMA SavingElsewhere ==
  ASSUME Shape, NEW h \in Handlers, NEW s, task[h].at \in Holding,
         submission' = [submission EXCEPT ![task[h].request] = s],
         NEW g \in Handlers \ {h}, task[g].at \in Holding
  PROVE  submission'[task[g].request] = submission[task[g].request]
<1>1. task[g].request # task[h].request
  BY KeysExclude
<1> QED BY <1>1 DEF Shape, TypeOK

(* Who writes holds its key.                                               *)
LEMMA SavingPlaces ==
  ASSUME Shape, NEW h \in Handlers, Saving(h)
  PROVE  /\ task[h].at \in Holding /\ task[h].request \in Requests
         /\ task'[h] # Finished => task'[h].request = task[h].request
<1>1. task[h].at \in {"notify", "saveResult", "skip", "recover", "reconcile"}
  BY DEF Saving, SaveKinds, Steps
<1>2. task'[h] # Finished => task'[h].request = task[h].request
  BY DEF Saving, Moves, Enters, Blocks, Takes, Goes, Leaves, Leave, Moved, Shape, TypeOK
<1> QED BY <1>1, <1>2 DEF Shape, Chains, Holding, Waiting, Places

(* The places of the holder of a key.                                      *)
LEMMA HoldingPlaces ==
  /\ Verified \cup {"verify", "notify", "skip", "receipt", "saveResult", "recover", "reconcile"}
       \subseteq Holding
  /\ {"publish", "queued"} \cap Holding = {} /\ "blocked" \in Holding
  BY DEF Verified, Holding, Waiting, Places

(* It survives the writes of others, which are of other keys.              *)
LEMMA StoredSaving ==
  ASSUME Shape, Stored, NEW h \in Handlers, Saving(h)
  PROVE  Stored'
<1>1. /\ \A g \in Handlers \ {h} : task'[g] = task[g]
      /\ task[h].at \in Holding /\ task[h].request \in Requests
  BY SavingPlaces DEF Saving, Moves, Others
<1>2. PICK s \in Submission :
        submission' = [submission EXCEPT ![task[h].request] = s] /\ SaveKinds(h, s)
  BY DEF Saving
<1>3. ASSUME NEW g \in Handlers \ {h} PROVE StoredOf(g)'
  <2>1. StoredOf(g) /\ task'[g] = task[g]
    BY <1>1 DEF Stored
  <2>2. CASE task[g].at \in Holding
    <3>1. submission'[task[g].request] = submission[task[g].request]
      BY <1>1, <1>2, <2>2, SavingElsewhere
    <3> QED BY <2>1, <3>1 DEF StoredOf
  <2>3. CASE task[g].at \notin Holding
    BY <2>1, <2>3, HoldingPlaces DEF StoredOf
  <2> QED BY <2>2, <2>3
<1>4. submission'[task[h].request] = s
  BY <1>1, <1>2 DEF Shape, TypeOK
<1>5. StoredOf(h)'
  <2>1. CASE task'[h] = Finished
    BY <2>1, FinishedType DEF StoredOf, Verified
  <2>2. CASE task'[h] # Finished
    <3>1. task'[h].at = "receipt" /\ s.tx = task[h].tx /\ task'[h].tx = task[h].tx
          /\ task'[h].request = task[h].request
      BY <1>2, <2>2, SavingPlaces DEF SaveKinds, Steps
    <3> QED BY <1>4, <3>1 DEF StoredOf, Verified
  <2> QED BY <2>1, <2>2
<1>6. s.status \in {"not_started", "failed"} => s.tx = None
  BY <1>2 DEF SaveKinds, Result, Fallback
<1>7. \A q \in Requests :
        submission'[q].status \in {"not_started", "failed"} => submission'[q].tx = None
  BY <1>1, <1>2, <1>4, <1>6 DEF Stored, Shape, TypeOK
<1> QED BY <1>3, <1>5, <1>7 DEF Stored

(* A handler sends from a state without transaction.                       *)
LEMMA StoredSending ==
  ASSUME Shape, Stored, NEW h \in Handlers, Sending(h)
  PROVE  Stored'
<1>1. /\ submission' = submission /\ task[h].at = "broadcast"
      /\ \A g \in Handlers \ {h} : task'[g] = task[g]
  BY DEF Sending, Moves, Others
<1>2. task'[h].at \in {"notify", "saveResult"} /\ task'[h].request = task[h].request
  BY SendingTxs DEF Sending
<1>3. ShouldVerify(submission[task[h].request]) /\ submission[task[h].request].tx = None
  BY <1>1 DEF Stored, StoredOf, Verified
<1>4. StoredOf(h)'
  BY <1>1, <1>2, <1>3 DEF StoredOf, Verified
<1> QED BY <1>1, <1>4 DEF Stored, StoredOf

(* What handlers rely on is kept by every step.                            *)
LEMMA StoredNext == Shape /\ Stored /\ [Next]_vars => Stored'
<1> SUFFICES ASSUME Shape, Stored, [Next]_vars PROVE Stored'
  OBVIOUS
<1>1. CASE UNCHANGED vars
  BY <1>1 DEF vars, Stored, StoredOf
<1>2. ASSUME NEW h \in Handlers, HandlerStep(h) PROVE Stored'
  BY <1>2, StepKinds, StoredQuiet, StoredSaving, StoredSending
<1>3. ASSUME NEW h \in Handlers, NEW q \in Requests, Receive(h, q), UNCHANGED settings
      PROVE  Stored'
  <2>1. /\ submission' = submission /\ \A g \in Handlers \ {h} : task'[g] = task[g]
        /\ task'[h].at = "publish" /\ task'[h].tx = None
    BY <1>3, ShapeReceive DEF Receive, Others, Shape, Chains
  <2>2. StoredOf(h)'
    BY <2>1 DEF StoredOf, Verified
  <2> QED BY <2>1, <2>2 DEF Stored, StoredOf
<1>4. CASE Mine \/ Execute \/ Delete
  BY <1>4, ChainMoves DEF Stored, StoredOf
<1>5. CASE Crash
  BY <1>5, CrashTasks DEF Stored, StoredOf, Verified
<1> QED BY <1>1, <1>2, <1>3, <1>4, <1>5 DEF Next

(* The step of SubmissionIsFinal.                                          *)
Final ==
  /\ \A t \in DOMAIN txs' \ DOMAIN txs :
        LET s == submission[txs'[t].request] IN s.tx = None /\ s.status # "uncertain"
  /\ \A q \in Requests : submission[q].tx # None => submission'[q].tx = submission[q].tx

(* No step forgets a hash or sends for a request that has one.             *)
LEMMA FinalNext == Shape /\ Stored /\ [Next]_vars => [Final]_vars
<1> SUFFICES ASSUME Shape, Stored, Next PROVE Final
  OBVIOUS
<1>1. CASE submission' = submission /\ DOMAIN txs' = DOMAIN txs
  BY <1>1 DEF Final
<1>2. ASSUME NEW h \in Handlers, Saving(h) PROVE Final
  <2>1. PICK s \in Submission :
          submission' = [submission EXCEPT ![task[h].request] = s] /\ SaveKinds(h, s)
    BY <1>2 DEF Saving
  <2>2. txs' = txs /\ task[h].request \in Requests
    BY <1>2, SavingPlaces DEF Saving
  <2>3. S(h).tx # None => s.tx = S(h).tx
    <3>1. StoredOf(h)
      BY DEF Stored
    <3> QED BY <2>1, <3>1 DEF SaveKinds, Steps, Result, Fallback, StoredOf, S
  <2> QED BY <2>1, <2>2, <2>3 DEF Final, S, Shape, TypeOK
<1>3. ASSUME NEW h \in Handlers, Sending(h) PROVE Final
  <2>1. submission' = submission /\ task[h].at = "broadcast"
    BY <1>3 DEF Sending
  <2>2. /\ task[h].request \in Requests
        /\ \A t \in DOMAIN txs' \ DOMAIN txs : txs'[t].request = task[h].request
    BY <1>3, SendingTxs
  <2>3. ShouldVerify(submission[task[h].request])
    BY <2>1 DEF Stored, StoredOf, Verified
  <2>4. submission[task[h].request].tx = None /\ submission[task[h].request].status # "uncertain"
    BY <2>2, <2>3, ToVerifyIsUnsent
  <2> QED BY <2>1, <2>2, <2>4 DEF Final
<1>4. ASSUME NEW h \in Handlers, HandlerStep(h) PROVE Final
  BY <1>1, <1>2, <1>3, <1>4, StepKinds DEF Quiet
<1>5. CASE Mine \/ Execute \/ Delete
  <2>1. submission' = submission /\ Len(txs') = Len(txs) /\ txs \in Seq(Transaction)
        /\ txs' \in Seq(Transaction)
    BY <1>5, ChainMoves DEF Shape, TypeOK
  <2> QED BY <1>1, <2>1
<1>6. CASE Crash \/ \E h \in Handlers, q \in Requests : Receive(h, q)
  BY <1>1, <1>6 DEF Crash, Receive, chainVars
<1> QED BY <1>4, <1>5, <1>6 DEF Next

(* A transaction is only sent for a request whose stored state knows of    *)
(* none and is not uncertain; a stored hash is never forgotten or          *)
(* replaced, whatever fails, crashes or is received twice.                 *)
THEOREM SubmissionFinality == Spec => SubmissionIsFinal
<1>1. Shape /\ Stored /\ [Next]_vars => [Final]_vars
  BY FinalNext
<1> QED BY <1>1, ShapeInit, ShapeNext, StoredInit, StoredNext, PTL
        DEF Spec, SubmissionIsFinal, Final
-----------------------------------------------------------------------------
(* Proposals stay proposed, mined transactions mined.                      *)
LEMMA ProposedKept ==
  ASSUME \A i \in DOMAIN log : i \in DOMAIN log' /\ log'[i] = log[i], NEW q, Proposed(q)
  PROVE  ProposedIn(log', q)
  BY DEF Proposed, ProposedIn

(* A live proposal is a proposal.                                          *)
LEMMA LiveIsProposed ==
  ASSUME NEW q, Live(PayloadOf[q])
  PROVE  Proposed(q)
  BY DEF Live, Events, Proposed, ProposedIn

(* What is taken for proposed has been proposed, step by step.             *)
LEMMA SeenChain ==
  ASSUME Shape, Seen, Mine \/ Execute \/ Delete
  PROVE  Seen'
<1>1. /\ submission' = submission /\ task' = task /\ Len(txs') = Len(txs)
      /\ \A t \in DOMAIN txs : t \in DOMAIN txs' /\ txs'[t].request = txs[t].request
      /\ \A i \in DOMAIN log : i \in DOMAIN log' /\ log'[i] = log[i]
      /\ txs \in Seq(Transaction) /\ txs' \in Seq(Transaction)
  BY ChainMoves DEF Kept, Shape, TypeOK
<1>2. \A q : Proposed(q) => ProposedIn(log', q)
  BY <1>1, ProposedKept
<1>3. \A t \in DOMAIN txs :
        /\ txs[t].status = "mined" => txs'[t].status = "mined"
        /\ txs'[t].status = "mined" => txs[t].status = "mined" \/ ProposedIn(log', txs[t].request)
  <2>1. CASE Mine
    <3>1. PICK t \in DOMAIN txs :
            /\ txs[t].status = "pool"
            /\ \/ txs' = [txs EXCEPT ![t].status = "reverted"]
               \/ /\ txs' = [txs EXCEPT ![t].status = "mined", ![t].block = Len(log) + 1]
                  /\ log' = Append(log, [kind |-> "proposed", request |-> txs[t].request])
      BY <2>1 DEF Mine
    <3>2. \A u \in DOMAIN txs \ {t} : txs'[u] = txs[u]
      BY <3>1
    <3>3. txs[t] \in Transaction
      BY <1>1
    <3>4. CASE txs' = [txs EXCEPT ![t].status = "reverted"]
      <4>1. txs'[t].status = "reverted"
        BY <3>3, <3>4 DEF Transaction
      <4> QED BY <3>1, <3>2, <4>1
    <3>5. CASE log' = Append(log, [kind |-> "proposed", request |-> txs[t].request])
      <4>1. ProposedIn(log', txs[t].request)
        <5> DEFINE e == [kind |-> "proposed", request |-> txs[t].request]
        <5>1. e.kind = "proposed" /\ e.request = txs[t].request
          OBVIOUS
        <5>2. log \in Seq(Event) /\ log' = Append(log, e)
          BY <3>5 DEF Shape, TypeOK
        <5> HIDE DEF e
        <5>3. Len(log) + 1 \in DOMAIN log' /\ log'[Len(log) + 1] = e
          BY <5>2
        <5>4. PayloadOf[log'[Len(log) + 1].request] = PayloadOf[txs[t].request]
          BY <5>1, <5>3
        <5> QED BY <5>1, <5>3, <5>4 DEF ProposedIn
      <4> QED BY <3>1, <3>2, <4>1
    <3> QED BY <3>1, <3>4, <3>5
  <2>2. CASE Execute \/ Delete
    <3>1. txs' = txs
      BY <2>2 DEF Execute, Delete, Settle
    <3> QED BY <3>1
  <2> QED BY <2>1, <2>2
<1>4. DOMAIN txs' = DOMAIN txs
  BY <1>1
<1>5. \A t \in DOMAIN txs' : txs'[t].status = "mined" => ProposedIn(log', txs'[t].request)
  BY <1>1, <1>2, <1>3, <1>4 DEF Seen
<1>6. ASSUME NEW h \in Handlers PROVE SeenBy(h)'
  <2>1. task[h].tx # None => task[h].tx \in DOMAIN txs
    BY DEF Shape, Hashes, SentFor, SentIn
  <2> QED BY <1>1, <1>2, <1>3, <2>1 DEF Seen, SeenBy, Proposed
<1>7. ResolvedWasProposed'
  BY <1>1, <1>2 DEF Seen, ResolvedWasProposed, Events, Proposed, ProposedIn
<1> QED BY <1>5, <1>6, <1>7 DEF Seen, Proposed

(* What was seen stays seen: the log only grows.                           *)
LEMMA SeenQuiet ==
  ASSUME Shape, Seen, NEW h \in Handlers, Quiet(h)
  PROVE  Seen'
<1>1. /\ UNCHANGED <<submission, txs, log>> /\ QuietKinds(h)
      /\ \A g \in Handlers \ {h} : task'[g] = task[g]
  BY DEF Quiet, Moves, Others
<1>2. SeenBy(h)'
  <2>1. CASE task'[h] = Finished
    BY <2>1, FinishedType DEF SeenBy
  <2>2. CASE task'[h] # Finished
    <3>1. task'[h].request = task[h].request
      BY <2>2 DEF Quiet, Moves, Enters, Blocks, Takes, Goes, Leaves, Leave, Moved, Shape, TypeOK
    <3>2. task'[h].at = "skip" => Proposed(task[h].request)
      BY <1>1, <2>2, LiveIsProposed DEF QuietKinds, Steps
    <3>3. SeenBy(h)
      BY DEF Seen
    <3>4. task'[h].og => task'[h].tx # None /\ txs[task'[h].tx].status = "mined"
      <4>1. task[h].at = "receipt" => task[h].tx # None
        BY DEF Shape, Hashes
      <4> QED BY <1>1, <2>2, <3>3, <4>1 DEF QuietKinds, Steps, SeenBy
    <3> QED BY <1>1, <3>1, <3>2, <3>4 DEF SeenBy, Proposed
  <2> QED BY <2>1, <2>2
<1>3. ASSUME NEW g \in Handlers \ {h} PROVE SeenBy(g)'
  BY <1>1 DEF Seen, SeenBy, Proposed
<1> QED BY <1>1, <1>2, <1>3 DEF Seen, ResolvedWasProposed, Events, Proposed

(* A state is saved as resolved by who has seen the proposal.              *)
LEMMA SeenSaving ==
  ASSUME Shape, Stored, Seen, NEW h \in Handlers, Saving(h)
  PROVE  Seen'
<1>1. /\ UNCHANGED <<txs, log>> /\ \A g \in Handlers \ {h} : task'[g] = task[g]
      /\ task[h].request \in Requests
  BY SavingPlaces DEF Saving, Moves, Others
<1>2. PICK s \in Submission :
        submission' = [submission EXCEPT ![task[h].request] = s] /\ SaveKinds(h, s)
  BY DEF Saving
<1>3. SeenBy(h)
  BY DEF Seen
<1>4. SeenBy(h)'
  BY <1>1, <1>2, <1>3, FinishedType DEF SaveKinds, Steps, SeenBy
<1>5. s.status = "resolved" => Proposed(task[h].request)
  <2>1. \A t : t # None /\ SentFor(t, task[h].request) /\ txs[t].status = "mined" =>
          Proposed(task[h].request)
    BY DEF Seen, SentFor, SentIn
  <2>2. /\ task[h].tx # None => SentFor(task[h].tx, task[h].request)
        /\ S(h).tx # None => SentFor(S(h).tx, task[h].request)
    BY <1>1 DEF Shape, Hashes, S
  <2>3. CASE task[h].at = "saveResult" /\ s = Result(h)
    BY <1>3, <2>1, <2>2, <2>3 DEF SeenBy, Result
  <2>4. CASE task[h].at = "skip"
    BY <1>3, <2>4 DEF SeenBy
  <2>5. CASE task[h].at = "recover" /\ s = Fallback(h)
    BY <2>5 DEF Fallback
  <2>6. CASE /\ task[h].at = "reconcile" /\ txs[S(h).tx].status = "mined"
    <3>1. S(h).tx # None
      BY <2>6 DEF Stored, StoredOf, S
    <3> QED BY <2>1, <2>2, <2>6, <3>1
  <2> QED BY <1>2, <2>3, <2>4, <2>5, <2>6 DEF SaveKinds, Steps
<1>6. ResolvedWasProposed'
  BY <1>1, <1>2, <1>5 DEF Seen, ResolvedWasProposed, Events, Proposed, ProposedIn, Shape, TypeOK
<1>7. ASSUME NEW g \in Handlers \ {h} PROVE SeenBy(g)'
  BY <1>1 DEF Seen, SeenBy, Proposed
<1> QED BY <1>1, <1>4, <1>6, <1>7 DEF Seen, Proposed

(* A new transaction is not mined yet.                                     *)
LEMMA SeenSending ==
  ASSUME Shape, Stored, Seen, NEW h \in Handlers, Sending(h)
  PROVE  Seen'
<1>1. /\ UNCHANGED <<submission, log>> /\ \A g \in Handlers \ {h} : task'[g] = task[g]
      /\ task[h].at = "broadcast" /\ task'[h].og = task[h].og
      /\ task'[h].at \in {"notify", "saveResult"}
  BY DEF Sending, Moves, Others
<1>2. /\ \A t \in DOMAIN txs : t \in DOMAIN txs' /\ txs'[t] = txs[t]
      /\ \A t \in DOMAIN txs' \ DOMAIN txs : txs'[t].status = "pool"
  BY SendingTxs
<1>3. ~task[h].og
  BY <1>1 DEF Stored, StoredOf, Verified, Seen, SeenBy
<1>4. SeenBy(h)'
  BY <1>1, <1>3 DEF SeenBy
<1>5. ASSUME NEW g \in Handlers \ {h} PROVE SeenBy(g)'
  BY <1>1, <1>2 DEF Seen, SeenBy, Proposed, Shape, Hashes, SentFor, SentIn
<1>6. \A t \in DOMAIN txs' : txs'[t].status = "mined" => Proposed(txs'[t].request)
  BY <1>2 DEF Seen
<1> QED BY <1>1, <1>4, <1>5, <1>6 DEF Seen, ResolvedWasProposed, Events, Proposed

(* Nothing is resolved at first.                                           *)
LEMMA SeenInit == Init => Seen
<1> SUFFICES ASSUME Init PROVE Seen
  OBVIOUS
<1>1. \A q \in Requests : submission[q].status = "not_started"
  BY DEF Init
<1> QED BY <1>1, FinishedType DEF Init, Seen, SeenBy, ResolvedWasProposed

(* What is taken for proposed was proposed, after every step.              *)
LEMMA SeenNext == Shape /\ Stored /\ Seen /\ [Next]_vars => Seen'
<1> SUFFICES ASSUME Shape, Stored, Seen, [Next]_vars PROVE Seen'
  OBVIOUS
<1>1. CASE UNCHANGED vars
  BY <1>1 DEF vars, Seen, SeenBy, ResolvedWasProposed, Events, Proposed
<1>2. ASSUME NEW h \in Handlers, HandlerStep(h) PROVE Seen'
  BY <1>2, StepKinds, SeenQuiet, SeenSaving, SeenSending
<1>3. ASSUME NEW h \in Handlers, NEW q \in Requests, Receive(h, q), UNCHANGED settings
      PROVE  Seen'
  <2>1. /\ UNCHANGED <<submission, txs, log>>
        /\ \A g \in Handlers \ {h} : task'[g] = task[g]
        /\ task[h].at = "idle" /\ task'[h].at = "publish"
        /\ task'[h].tx = task[h].tx /\ task'[h].og = task[h].og
    BY <1>3, ShapeReceive DEF Receive, Others, chainVars
  <2> QED BY <2>1 DEF Seen, SeenBy, ResolvedWasProposed, Events, Proposed
<1>4. CASE Mine \/ Execute \/ Delete
  BY <1>4, SeenChain
<1>5. CASE Crash
  <2>1. UNCHANGED <<submission, txs, log>>
    BY <1>5, CrashTasks
  <2>2. \A g \in Handlers : ~task'[g].og /\ task'[g].at # "skip"
    BY <1>5, CrashTasks
  <2> QED BY <2>1, <2>2 DEF Seen, SeenBy, ResolvedWasProposed, Events, Proposed
<1> QED BY <1>1, <1>2, <1>3, <1>4, <1>5 DEF Next

(* "resolved" is only ever recorded for transactions that the Governor has *)
(* seen, although it is written from a receipt, from a skipped simulation  *)
(* or by a later reconciliation.                                           *)
THEOREM SubmissionResolvedWasProposed == Spec => []ResolvedWasProposed
<1>1. Seen => ResolvedWasProposed
  BY DEF Seen
<1> QED BY <1>1, ShapeInit, ShapeNext, StoredInit, StoredNext, SeenInit, SeenNext, PTL DEF Spec
-----------------------------------------------------------------------------
(* Deposits stay reserved if a handler that moves on had them, or has its  *)
(* turn for them.                                                          *)
ReservesBy(h) ==
  task'[h].at \in Reserving \cup {"blocked"} =>
    \/ task[h].at = "queued" /\ task'[h].at = "blocked" /\ depositTail' = Append(depositTail, h)
    \/ task[h].at = "queued" /\ DepositsOf[task[h].request] = {} /\ Stay
    \/ task[h].at = "blocked" /\ DepositTurn(h) /\ Stay
    \/ task[h].at \in Reserving /\ Stay

(* The places for which deposits are reserved.                             *)
LEMMA ReservingPlaces ==
  /\ Reserving \subseteq Holding /\ "blocked" \in Holding \ Reserving
  /\ {"idle", "publish", "queued", "done"} \cap Reserving = {}
  /\ {"verify", "verifyChain", "saveVerdict", "submit", "broadcast", "notify"} \subseteq Reserving
  BY DEF Reserving, Verified, Holding, Waiting, Places

(* A handler's step leaves it in the chain, puts it there or takes it out. *)
LEMMA DepositTailMoves ==
  ASSUME Shape, NEW h \in Handlers, Moves(h)
  PROVE  /\ Chain(depositTail', Handlers)
         /\ \A g \in Handlers \ {h} : g \in Range(depositTail) => g \in Range(depositTail')
         /\ \A f \in Handlers, g \in Handlers \ {h} :
              Ahead(depositTail', f, g) => f # h \/ task'[h].request = task[h].request
         /\ \A f \in Handlers, g \in Handlers \ {h} :
              Ahead(depositTail', f, g) => Ahead(depositTail, f, g)
<1>1. Chain(depositTail, Handlers)
  BY DEF Shape, Chains
<1>2. CASE Enters(h) \/ Takes(h) \/ Goes(h)
  BY <1>1, <1>2 DEF Enters, Takes, Goes, Stay, Moved
<1>3. CASE Blocks(h)
  <2>1. h \notin Range(depositTail)
    BY <1>3, HoldingPlaces DEF Blocks, Moved, Shape, Chains
  <2>2. /\ Chain(depositTail', Handlers) /\ Range(depositTail') = Range(depositTail) \cup {h}
        /\ \A f, g : Ahead(depositTail', f, g)
                       <=> Ahead(depositTail, f, g) \/ (f \in Range(depositTail) /\ g = h)
    BY <1>1, <1>3, <2>1, Entered DEF Blocks
  <2> QED BY <1>3, <2>2 DEF Blocks, Moved
<1>4. CASE Leaves(h)
  <2>1. /\ Chain(depositTail', Handlers) /\ Range(depositTail') = Range(depositTail) \ {h}
        /\ \A f, g : Ahead(depositTail', f, g) <=> Ahead(depositTail, f, g) /\ f # h /\ g # h
    BY <1>1, <1>4, LeftChain DEF Leaves, Leave
  <2> QED BY <2>1
<1> QED BY <1>2, <1>3, <1>4 DEF Moves

(* Reserved is kept by a handler that keeps to that.                       *)
LEMMA ReservedMoves ==
  ASSUME Shape, Reserved, NEW h \in Handlers, Moves(h), UNCHANGED settings,
         settings.mode # "off" => ReservesBy(h)
  PROVE  Reserved'
<1> SUFFICES ASSUME settings.mode # "off" PROVE Reserved'
  BY DEF Reserved
<1>1. \A g \in Handlers \ {h} : task'[g] = task[g]
  BY DEF Moves, Others
<1>2. /\ Chain(depositTail, Handlers)
      /\ Chain(depositTail', Handlers)
      /\ \A g \in Handlers \ {h} : g \in Range(depositTail) => g \in Range(depositTail')
      /\ \A f \in Handlers, g \in Handlers \ {h} :
           Ahead(depositTail', f, g) =>
             Ahead(depositTail, f, g) /\ (f # h \/ task'[h].request = task[h].request)
  BY DepositTailMoves DEF Shape, Chains
<1>3. \A g \in Handlers :
        /\ task[g].at \in Reserving \cup {"blocked"} /\ DepositsOf[task[g].request] # {} =>
             g \in Range(depositTail)
        /\ task[g].at \in Reserving =>
             \A f \in Handlers :
               Ahead(depositTail, f, g) => ~Shares(task[f].request, task[g].request)
  BY DEF Reserved
<1>4. ASSUME NEW g \in Handlers \ {h}
      PROVE  /\ task'[g].at \in Reserving \cup {"blocked"} /\ DepositsOf[task'[g].request] # {} =>
                  g \in Range(depositTail')
             /\ task'[g].at \in Reserving =>
                  \A f \in Handlers :
                    Ahead(depositTail', f, g) => ~Shares(task'[f].request, task'[g].request)
  <2>1. task'[g] = task[g]
    BY <1>1
  <2>2. ASSUME NEW f \in Handlers, Ahead(depositTail', f, g)
        PROVE  Ahead(depositTail, f, g) /\ task'[f].request = task[f].request
    BY <1>1, <1>2, <2>2
  <2> QED BY <1>2, <1>3, <2>1, <2>2
<1>5. ASSUME task'[h].at \in Reserving \cup {"blocked"}
      PROVE  /\ DepositsOf[task'[h].request] # {} => h \in Range(depositTail')
             /\ task'[h].at \in Reserving =>
                  \A f \in Handlers :
                    Ahead(depositTail', f, h) => ~Shares(task'[f].request, task'[h].request)
  <2>1. task'[h].request = task[h].request
    BY <1>5, ReservingPlaces, FinishedType
       DEF Moves, Enters, Blocks, Takes, Goes, Leaves, Leave, Moved, Shape, TypeOK
  <2>2. \A f \in Handlers : task'[f].request = task[f].request
    BY <1>1, <2>1
  <2>3. CASE /\ task[h].at = "queued" /\ task'[h].at = "blocked"
             /\ depositTail' = Append(depositTail, h)
    <3>1. h \notin Range(depositTail)
      BY <2>3, HoldingPlaces DEF Shape, Chains
    <3>2. h \in Range(depositTail')
      BY <1>2, <2>3, <3>1, Entered
    <3> QED BY <2>3, <3>2, ReservingPlaces
  <2>4. CASE DepositsOf[task[h].request] = {}
    BY <2>1, <2>4 DEF Shares
  <2>5. CASE task[h].at = "blocked" /\ DepositTurn(h) /\ Stay
    <3>1. ASSUME NEW f \in Handlers, Ahead(depositTail, f, h)
          PROVE  ~Shares(task[f].request, task[h].request)
      <4>1. h \in Range(depositTail)
        BY <1>2, <3>1, AheadIsInside
      <4>2. f \in Before(depositTail, h)
        BY <1>2, <3>1, <4>1, AheadBefore DEF Before
      <4> QED BY <2>5, <4>2 DEF DepositTurn
    <3> QED BY <1>3, <2>2, <2>5, <3>1 DEF Stay
  <2>6. CASE task[h].at \in Reserving /\ Stay
    BY <1>3, <2>2, <2>6 DEF Stay
  <2> QED BY <1>5, <2>3, <2>4, <2>5, <2>6 DEF ReservesBy
<1> QED BY <1>4, <1>5 DEF Reserved

(* Every step of a handler keeps to that.                                  *)
LEMMA ReservesQuiet ==
  ASSUME Shape, NEW h \in Handlers, Quiet(h), settings.mode # "off"
  PROVE  ReservesBy(h)
<1>1. SUFFICES ASSUME task'[h].at \in Reserving \cup {"blocked"} PROVE ReservesBy(h)
  BY DEF ReservesBy
<1>2. Moves(h) /\ QuietKinds(h) /\ task'[h].at # "done" /\ task'[h] # Finished
  BY <1>1, ReservingPlaces, FinishedType DEF Quiet
<1>3. Enters(h) \/ Blocks(h) \/ Takes(h) \/ Goes(h)
  BY <1>2, FinishedType DEF Moves, Leaves, Leave, Shape, TypeOK
<1>4. CASE Blocks(h)
  BY <1>4 DEF Blocks, Moved, ReservesBy
<1>5. CASE Enters(h)
  BY <1>1, <1>5, ReservingPlaces DEF Enters, Moved
<1>6. CASE Takes(h) \/ Goes(h)
  <2>1. Stay /\ task'[h].at \in Holding
    BY <1>6 DEF Takes, Goes, Moved
  <2>2. CASE task[h].at = "queued"
    <3>1. task'[h].at = "blocked" => Blocks(h)
      BY <1>2, <2>2 DEF QuietKinds, Steps
    <3>2. task'[h].at # "blocked" => DepositsOf[task[h].request] = {}
      BY <1>1, <1>2, <2>2 DEF QuietKinds, Steps, Reserving, Verified
    <3> QED BY <1>4, <2>1, <2>2, <3>1, <3>2 DEF ReservesBy
  <2>3. CASE task[h].at # "queued"
    <3>1. \/ task[h].at = "blocked" /\ DepositTurn(h)
          \/ task[h].at \in Reserving
      BY <1>1, <1>2, <2>3 DEF QuietKinds, Steps, Reserving, Verified
    <3> QED BY <2>1, <3>1 DEF ReservesBy
  <2> QED BY <2>2, <2>3
<1> QED BY <1>3, <1>4, <1>5, <1>6

(* Reserved is inductive.                                                  *)
LEMMA ReservedNext == Shape /\ Reserved /\ [Next]_vars => Reserved'
<1> SUFFICES ASSUME Shape, Reserved, [Next]_vars PROVE Reserved'
  OBVIOUS
<1>1. CASE UNCHANGED vars
  BY <1>1 DEF vars, Reserved
<1>2. ASSUME NEW h \in Handlers, HandlerStep(h), UNCHANGED settings PROVE Reserved'
  <2>1. CASE Quiet(h)
    BY <1>2, <2>1, ReservesQuiet, ReservedMoves DEF Quiet
  <2>2. CASE Saving(h)
    <3>1. task'[h].at \in {"receipt", "done"}
      BY <2>2, FinishedType DEF Saving, SaveKinds, Steps
    <3>2. ReservesBy(h)
      BY <3>1 DEF ReservesBy, Reserving, Verified
    <3> QED BY <1>2, <2>2, <3>2, ReservedMoves DEF Saving
  <2>3. CASE Sending(h)
    <3>1. task[h].at = "broadcast" /\ Moves(h) /\ task'[h].at \in {"notify", "saveResult"}
      BY <2>3 DEF Sending
    <3>2. Stay
      BY <3>1, FinishedType
         DEF Moves, Enters, Blocks, Takes, Goes, Leaves, Leave, Moved, Shape, TypeOK
    <3>3. ReservesBy(h)
      BY <3>1, <3>2, ReservingPlaces DEF ReservesBy
    <3> QED BY <1>2, <3>1, <3>3, ReservedMoves
  <2> QED BY <1>2, <2>1, <2>2, <2>3, StepKinds
<1>3. ASSUME NEW h \in Handlers, NEW q \in Requests, Receive(h, q), UNCHANGED settings
      PROVE  Reserved'
  <2>1. /\ depositTail' = depositTail /\ \A g \in Handlers \ {h} : task'[g] = task[g]
        /\ task[h].at = "idle" /\ task'[h].at = "publish"
    BY <1>3, ShapeReceive DEF Receive, Others
  <2>2. h \notin Range(depositTail) /\ Chain(depositTail, Handlers)
    BY <2>1, ReservingPlaces DEF Shape, Chains, Holding, Waiting
  <2>3. \A f, g : Ahead(depositTail, f, g) => f # h
    BY <2>2, AheadIsInside
  <2> QED BY <1>3, <2>1, <2>3, ReservingPlaces DEF Reserved
<1>4. CASE (Mine \/ Execute \/ Delete) /\ UNCHANGED settings
  BY <1>4, ChainMoves DEF Reserved
<1>5. CASE Crash
  BY <1>5, CrashTasks, ReservingPlaces DEF Reserved
<1> QED BY <1>1, <1>2, <1>3, <1>4, <1>5 DEF Next

(* No deposit is reserved at first.                                        *)
LEMMA ReservedInit == Init => Reserved
  BY FinishedType, ReservingPlaces DEF Init, Reserved
-----------------------------------------------------------------------------
(* The chains never close a circle, for any handlers and deposits: as long *)
(* as one has not answered, one of them waits for nobody, because handlers *)
(* enter the chain of deposits from the front of that of their key only    *)
(* and for all their deposits at once.                                     *)
Unanswered(h) == task[h].at \notin {"idle", "done"}
WaitsForNobody(h) ==
  /\ task[h].at = "queued" => KeyTurn(h)
  /\ task[h].at = "blocked" => DepositTurn(h)
SomeoneGoesOn ==
  (\E h \in Handlers : Unanswered(h)) => \E h \in Handlers : Unanswered(h) /\ WaitsForNobody(h)

(* Nobody is before the first.                                             *)
LEMMA FirstIsFree ==
  ASSUME NEW s, Chain(s, Handlers), s # <<>>
  PROVE  s[1] \in Handlers /\ s[1] \in Range(s) /\ Before(s, s[1]) = {}
<1>1. 1 \in DOMAIN s /\ DOMAIN s \subseteq Nat /\ s[1] \in Handlers /\ s[1] \in Range(s)
  BY DEF Chain, Range
<1>2. \A j \in DOMAIN s : s[j] = s[1] => j = 1
  BY <1>1 DEF Chain, IsInjective
<1>3. (CHOOSE j \in DOMAIN s : s[j] = s[1]) = 1
  BY <1>1, <1>2
<1>4. 1..(1 - 1) = {}
  OBVIOUS
<1> QED BY <1>1, <1>3, <1>4 DEF Before

(* A blocked handler is in the chain of deposits.                          *)
BlockedWait == \A h \in Handlers : task[h].at = "blocked" => h \in Range(depositTail)

(* It enters it when it is blocked, and leaves it when it answers.         *)
LEMMA BlockedWaitNext == Shape /\ BlockedWait /\ [Next]_vars => BlockedWait'
<1> SUFFICES ASSUME Shape, BlockedWait, [Next]_vars PROVE BlockedWait'
  OBVIOUS
<1>1. CASE UNCHANGED vars
  BY <1>1 DEF vars, BlockedWait
<1>2. ASSUME NEW h \in Handlers, HandlerStep(h), UNCHANGED settings PROVE BlockedWait'
  <2>1. Moves(h) /\ (task'[h].at = "blocked" => Blocks(h))
    <3>1. CASE Quiet(h)
      BY <3>1, FinishedType DEF Quiet, QuietKinds, Steps
    <3>2. CASE Saving(h)
      BY <3>2, FinishedType DEF Saving, SaveKinds, Steps
    <3>3. CASE Sending(h)
      BY <3>3 DEF Sending
    <3> QED BY <1>2, <3>1, <3>2, <3>3, StepKinds
  <2>2. \A g \in Handlers \ {h} : task'[g] = task[g]
    BY <2>1 DEF Moves, Others
  <2>3. ASSUME Blocks(h) PROVE h \in Range(depositTail')
    <3>1. h \notin Range(depositTail) /\ Chain(depositTail, Handlers)
      BY <2>3, HoldingPlaces DEF Blocks, Moved, Shape, Chains
    <3> QED BY <2>3, <3>1, Entered DEF Blocks
  <2> QED BY <2>1, <2>2, <2>3, DepositTailMoves DEF BlockedWait
<1>3. ASSUME NEW h \in Handlers, NEW q \in Requests, Receive(h, q), UNCHANGED settings
      PROVE  BlockedWait'
  <2>1. Others(h) /\ task'[h].at = "publish"
    BY <1>3, ShapeReceive
  <2>2. depositTail' = depositTail
    BY <1>3 DEF Receive
  <2> QED BY <2>1, <2>2 DEF BlockedWait, Others
<1>4. CASE Mine \/ Execute \/ Delete
  BY <1>4, ChainMoves DEF BlockedWait
<1>5. CASE Crash
  BY <1>5, CrashTasks DEF BlockedWait
<1> QED BY <1>1, <1>2, <1>3, <1>4, <1>5 DEF Next

(* The front of the chain of deposits holds its key and its deposits; when *)
(* that chain is empty the front of the chain of keys waits for nobody;    *)
(* and whoever is in no chain does not wait at all.                        *)
THEOREM SubmissionGoesOn == Spec => []SomeoneGoesOn
<1>1. Shape /\ BlockedWait => SomeoneGoesOn
  <2> SUFFICES ASSUME Shape, BlockedWait, NEW h \in Handlers, Unanswered(h)
               PROVE \E g \in Handlers : Unanswered(g) /\ WaitsForNobody(g)
    BY DEF SomeoneGoesOn
  <2>1. /\ Chain(keyTail, Handlers) /\ Chain(depositTail, Handlers)
        /\ \A g \in Handlers :
             /\ g \in Range(keyTail) <=> task[g].at \in Waiting
             /\ g \in Range(depositTail) => task[g].at \in Holding
    BY DEF Shape, Chains
  <2>2. CASE depositTail # <<>>
    <3>1. PICK g : g \in Handlers /\ g \in Range(depositTail) /\ Before(depositTail, g) = {}
      <4>1. depositTail[1] \in Handlers /\ depositTail[1] \in Range(depositTail) /\ Before(depositTail, depositTail[1]) = {}
        BY <2>1, <2>2, FirstIsFree
      <4> QED BY <4>1
    <3>2. DepositTurn(g)
      BY <3>1 DEF DepositTurn
    <3>3. task[g].at \in Holding
      BY <2>1, <3>1
    <3> QED BY <3>1, <3>2, <3>3 DEF Unanswered, WaitsForNobody, Holding, Waiting
  <2>3. CASE depositTail = <<>> /\ keyTail # <<>>
    <3>1. PICK g : g \in Handlers /\ g \in Range(keyTail) /\ Before(keyTail, g) = {}
      <4>1. keyTail[1] \in Handlers /\ keyTail[1] \in Range(keyTail) /\ Before(keyTail, keyTail[1]) = {}
        BY <2>1, <2>3, FirstIsFree
      <4> QED BY <4>1
    <3>2. KeyTurn(g)
      BY <3>1 DEF KeyTurn
    <3>3. task[g].at # "blocked"
      BY <2>3, <3>1, EmptyChain DEF BlockedWait
    <3>4. task[g].at \in Waiting
      BY <2>1, <3>1
    <3> QED BY <3>1, <3>2, <3>3, <3>4 DEF Unanswered, WaitsForNobody, Waiting
  <2>4. CASE keyTail = <<>>
    <3>1. h \notin Range(keyTail)
      BY <2>4, EmptyChain
    <3>2. task[h].at \notin Waiting
      BY <2>1, <3>1
    <3> QED BY <3>2 DEF Unanswered, WaitsForNobody, Waiting, Places
  <2> QED BY <2>2, <2>3, <2>4
<1>2. Init => BlockedWait
  BY FinishedType DEF Init, BlockedWait
<1> QED BY <1>1, <1>2, ShapeInit, ShapeNext, BlockedWaitNext, PTL DEF Spec
-----------------------------------------------------------------------------

(* Two handlers that verify or submit never share a deposit.               *)
LEMMA DepositsExclude ==
  ASSUME Shape, Reserved, settings.mode # "off", NEW g \in Handlers, NEW h \in Handlers, g # h,
         task[g].at \in Reserving, task[h].at \in Reserving
  PROVE  ~Shares(task[g].request, task[h].request)
<1> SUFFICES ASSUME Shares(task[g].request, task[h].request) PROVE FALSE
  OBVIOUS
<1>1. g \in Range(depositTail) /\ h \in Range(depositTail) /\ Chain(depositTail, Handlers)
  BY DEF Reserved, Shares, Shape, Chains
<1>2. Ahead(depositTail, g, h) \/ Ahead(depositTail, h, g)
  BY <1>1, OneIsAhead
<1>3. Shares(task[h].request, task[g].request)
  BY DEF Shares
<1> QED BY <1>2, <1>3 DEF Reserved
-----------------------------------------------------------------------------
(* What was calm after a step was calm before it, and the step did not     *)
(* fail.                                                                   *)
LEMMA CalmBefore ==
  ASSUME Shape, [Next]_vars, Calm'
  PROVE  Calm /\ failures' = failures /\ ~Crash
<1>1. failures \in Nat /\ crashes \in Nat /\ crashes' = 0 /\ failures' = 0
  BY DEF Shape, TypeOK, Calm
<1>2. CASE UNCHANGED vars
  BY <1>2 DEF Calm, vars, Crash
<1>3. ASSUME NEW h \in Handlers, HandlerStep(h), UNCHANGED settings
      PROVE  crashes' = crashes /\ (failures' = failures \/ failures' = failures + 1)
  BY <1>3, StepKinds DEF Quiet, Saving, Sending
<1>4. ASSUME \/ \E h \in Handlers, q \in Requests : Receive(h, q)
             \/ Mine \/ Execute \/ Delete
      PROVE  crashes' = crashes /\ failures' = failures
  BY <1>4 DEF Receive, Mine, Execute, Delete, Settle
<1>5. ~Crash
  <2>1. Crash => crashes' = crashes + 1
    BY DEF Crash
  <2> QED BY <1>1, <2>1
<1>6. settings' = settings /\ crashes' = crashes /\ failures' \in {failures, failures + 1}
  BY <1>1, <1>2, <1>3, <1>4, <1>5 DEF Next, vars
<1>7. failures' = failures
  BY <1>1, <1>6
<1> QED BY <1>5, <1>6, <1>7 DEF Calm

(* A request that is being notified is not held by anyone else.            *)
LEMMA HolderIsNotified ==
  ASSUME Shape, SentIsStored, NEW h \in Handlers, task[h].at \in Holding, task[h].at # "notify",
         NEW t \in DOMAIN txs, txs[t].request = task[h].request
  PROVE  StoredFor(t)
<1>1. ASSUME NEW g \in Handlers, task[g].at = "notify", task[g].tx = t PROVE FALSE
  <2>1. task[g].tx # None
    BY <1>1 DEF Shape, Hashes
  <2>2. task[g].request = task[h].request
    BY <1>1, <2>1 DEF Shape, Hashes, SentFor, SentIn
  <2>3. g # h /\ task[g].at \in Holding
    BY <1>1, HoldingPlaces
  <2> QED BY <2>2, <2>3, KeysExclude
<1> QED BY <1>1 DEF SentIsStored

(* Transactions are numbered.                                              *)
LEMMA SentIsNat ==
  ASSUME Shape
  PROVE  \A t \in DOMAIN txs : t \in Nat /\ t # None
  BY SubmissionAssumption DEF Shape, TypeOK

(* The lifecycles of a calm node, step by step.                            *)
LEMMA LifecyclesQuiet ==
  ASSUME Shape, Stored, Calm, Lifecycles, NEW h \in Handlers, Quiet(h), failures' = failures
  PROVE  Lifecycles'
<1>1. /\ UNCHANGED <<submission, txs, log>> /\ QuietKinds(h) /\ ~Fell /\ ~Advised
      /\ \A g \in Handlers \ {h} : task'[g] = task[g]
  BY DEF Quiet, Moves, Others, Shape, TypeOK, Calm, Fell, Advised
<1>2. SentOnce /\ SentIsStored /\ CalmPlaces /\ MinedIsProposed /\ ProposedIsMined /\ EndsFollow
  BY DEF Lifecycles
<1>3. task[h].at # "notify"
  BY <1>1 DEF QuietKinds, Steps
<1>4. SentIsStored'
  BY <1>1, <1>2, <1>3 DEF SentIsStored, StoredFor
<1>5. /\ task'[h].at \notin {"recover", "saveFallback"}
      /\ task'[h].at = "saveResult" => task'[h].tx # None
  <2>1. task[h].at = "receipt" => task[h].tx # None
    BY DEF Shape, Hashes
  <2> QED BY <1>1, <2>1, FinishedType DEF QuietKinds, Steps
<1>6. CalmPlaces'
  BY <1>1, <1>2, <1>5 DEF CalmPlaces
<1>7. SentOnce' /\ MinedIsProposed' /\ ProposedIsMined' /\ EndsFollow'
  BY <1>1, <1>2 DEF SentOnce, MinedIsProposed, ProposedIsMined, EndsFollow
<1> QED BY <1>4, <1>6, <1>7 DEF Lifecycles

(* A handler that is notified stores its transaction.                      *)
LEMMA LifecyclesSaving ==
  ASSUME Shape, Stored, Calm, Lifecycles, NEW h \in Handlers, Saving(h)
  PROVE  Lifecycles'
<1>1. /\ UNCHANGED <<txs, log>> /\ \A g \in Handlers \ {h} : task'[g] = task[g]
      /\ task[h].at \in Holding /\ task[h].request \in Requests
  BY SavingPlaces DEF Saving, Moves, Others
<1>2. SentOnce /\ SentIsStored /\ CalmPlaces /\ MinedIsProposed /\ ProposedIsMined /\ EndsFollow
  BY DEF Lifecycles
<1>3. PICK s \in Submission :
        submission' = [submission EXCEPT ![task[h].request] = s] /\ SaveKinds(h, s)
  BY DEF Saving
<1>4. submission'[task[h].request] = s
      /\ \A q : q # task[h].request => submission'[q] = submission[q]
  BY <1>1, <1>3 DEF Shape, TypeOK
<1>5. ASSUME NEW t \in DOMAIN txs, txs[t].request = task[h].request
      PROVE  s.tx = t /\ s.status \in {"submitted", "resolved"}
  <2>1. StoredOf(h) /\ t # None
    BY SentIsNat DEF Stored
  <2>2. task[h].at # "notify" => S(h).tx = t /\ S(h).status \in {"submitted", "resolved"}
    BY <1>1, <1>2, <1>5, HolderIsNotified DEF StoredFor, S
  <2>3. ASSUME task[h].tx # None PROVE task[h].tx = t
    <3>1. task[h].tx \in DOMAIN txs /\ txs[task[h].tx].request = task[h].request
      BY <2>3 DEF Shape, Hashes, SentFor, SentIn
    <3> QED BY <1>2, <1>5, <3>1 DEF SentOnce
  <2>4. CASE task[h].at = "notify"
    <3>1. task[h].tx # None
      BY <2>4 DEF Shape, Hashes
    <3> QED BY <1>3, <2>3, <2>4, <3>1 DEF SaveKinds, Steps
  <2>5. CASE task[h].at = "saveResult" /\ s = Result(h)
    <3>1. task[h].tx # None
      BY <1>2, <2>5 DEF CalmPlaces
    <3> QED BY <2>3, <2>5, <3>1 DEF Result
  <2>6. CASE task[h].at = "skip"
    BY <2>1, <2>2, <2>6 DEF StoredOf, S
  <2>7. CASE task[h].at = "recover"
    BY <1>2, <2>7 DEF CalmPlaces
  <2>8. CASE task[h].at = "reconcile" /\ s.status = "resolved" /\ s.tx = S(h).tx
    BY <2>2, <2>8
  <2> QED BY <1>3, <2>4, <2>5, <2>6, <2>7, <2>8 DEF SaveKinds, Steps
<1>6. ASSUME NEW t \in DOMAIN txs, txs[t].request # task[h].request
      PROVE  \/ StoredFor(t)'
             \/ \E g \in Handlers : task'[g].at = "notify" /\ task'[g].tx = t
  <2>1. CASE StoredFor(t)
    BY <1>1, <1>4, <1>6, <2>1 DEF StoredFor
  <2>2. ASSUME NEW g \in Handlers, task[g].at = "notify", task[g].tx = t
        PROVE  task'[g] = task[g]
    <3>1. task[g].tx # None
      BY <2>2 DEF Shape, Hashes
    <3>2. txs[t].request = task[g].request
      BY <2>2, <3>1 DEF Shape, Hashes, SentFor, SentIn
    <3> QED BY <1>1, <1>6, <3>2
  <2> QED BY <1>2, <2>1, <2>2 DEF SentIsStored
<1>7. SentIsStored'
  <2>1. \A t \in DOMAIN txs : txs[t].request = task[h].request => StoredFor(t)'
    BY <1>1, <1>4, <1>5 DEF StoredFor
  <2> QED BY <1>1, <1>6, <2>1 DEF SentIsStored
<1>8. CalmPlaces'
  <2>1. task'[h].at \in {"receipt", "done"}
    BY <1>3, FinishedType DEF SaveKinds, Steps
  <2> QED BY <1>1, <1>2, <2>1 DEF CalmPlaces
<1>9. SentOnce' /\ MinedIsProposed' /\ ProposedIsMined' /\ EndsFollow'
  BY <1>1, <1>2 DEF SentOnce, MinedIsProposed, ProposedIsMined, EndsFollow
<1> QED BY <1>7, <1>8, <1>9 DEF Lifecycles

(* A request gets its only transaction.                                    *)
LEMMA LifecyclesSending ==
  ASSUME Shape, Stored, Calm, Lifecycles, NEW h \in Handlers, Sending(h), failures' = failures
  PROVE  Lifecycles'
<1>1. /\ UNCHANGED <<submission, log>> /\ \A g \in Handlers \ {h} : task'[g] = task[g]
      /\ task[h].at = "broadcast" /\ task'[h].at = "notify" /\ task'[h].tx = Len(txs) + 1
  BY DEF Sending, Moves, Others, Shape, TypeOK
<1>2. SentOnce /\ SentIsStored /\ CalmPlaces /\ MinedIsProposed /\ ProposedIsMined /\ EndsFollow
  BY DEF Lifecycles
<1>3. /\ \A t \in DOMAIN txs : t \in DOMAIN txs' /\ txs'[t] = txs[t]
      /\ \A t \in DOMAIN txs' \ DOMAIN txs :
           t = Len(txs) + 1 /\ txs'[t].request = task[h].request /\ txs'[t].status = "pool"
  BY SendingTxs
<1>4. \A t \in DOMAIN txs : txs[t].request # task[h].request
  <2>1. task[h].at \in Holding /\ task[h].at # "notify"
    BY <1>1, HoldingPlaces DEF Verified
  <2>2. submission[task[h].request].tx = None
    BY <1>1 DEF Stored, StoredOf, Verified
  <2> QED BY <1>2, <2>1, <2>2, HolderIsNotified, SentIsNat DEF StoredFor
<1>5. SentOnce'
  BY <1>2, <1>3, <1>4 DEF SentOnce
<1>6. SentIsStored'
  BY <1>1, <1>2, <1>3 DEF SentIsStored, StoredFor
<1>7. CalmPlaces'
  BY <1>1, <1>2 DEF CalmPlaces
<1>8. MinedIsProposed' /\ ProposedIsMined' /\ EndsFollow'
  <2>1. \A t \in DOMAIN txs' : txs'[t].status = "mined" => t \in DOMAIN txs /\ txs'[t] = txs[t]
    BY <1>3
  <2> QED BY <1>1, <1>2, <1>3, <2>1 DEF MinedIsProposed, ProposedIsMined, EndsFollow
<1> QED BY <1>5, <1>6, <1>7, <1>8 DEF Lifecycles

(* What the chain does, by its effect on the transactions and the log.     *)
LogGrows(kind, q) ==
  LET n == Len(log) + 1
  IN  /\ DOMAIN log' = DOMAIN log \cup {n} /\ n \notin DOMAIN log
      /\ \A i \in DOMAIN log : log'[i] = log[i] /\ i \in Nat /\ i < n
      /\ log'[n].kind = kind /\ log'[n].request = q
Mines(t) ==
  /\ txs[t].status = "pool"
  /\ DOMAIN txs' = DOMAIN txs /\ \A u \in DOMAIN txs \ {t} : txs'[u] = txs[u]
  /\ txs'[t].request = txs[t].request
  /\ \/ txs'[t].status = "reverted" /\ UNCHANGED log
     \/ /\ txs'[t].status = "mined" /\ txs'[t].block = Len(log) + 1
        /\ LogGrows("proposed", txs[t].request)

(* An event is appended.                                                   *)
LEMMA LogGrowing ==
  ASSUME Shape, NEW kind \in {"proposed", "deleted", "executed"}, NEW q \in Requests,
         log' = Append(log, [kind |-> kind, request |-> q])
  PROVE  LogGrows(kind, q)
<1> DEFINE e == [kind |-> kind, request |-> q]
<1>1. e.kind = kind /\ e.request = q
  OBVIOUS
<1>2. log \in Seq(Event) /\ log' = Append(log, e)
  BY DEF Shape, TypeOK
<1> HIDE DEF e
<1>3. /\ DOMAIN log = 1..Len(log) /\ Len(log) \in Nat /\ DOMAIN log' = 1..Len(log) + 1
      /\ log'[Len(log) + 1] = e /\ \A i \in DOMAIN log : log'[i] = log[i]
  BY <1>2
<1> QED BY <1>1, <1>3 DEF LogGrows

(* Mining is of a transaction in the pool.                                 *)
LEMMA MineMeans ==
  ASSUME Shape, Mine
  PROVE  \E t \in DOMAIN txs : Mines(t)
<1>1. txs \in Seq(Transaction) /\ Len(log) + 1 \in Nat
  BY DEF Shape, TypeOK
<1>2. PICK t \in DOMAIN txs :
        /\ txs[t].status = "pool"
        /\ \/ txs' = [txs EXCEPT ![t].status = "reverted"] /\ UNCHANGED log
           \/ /\ txs' = [txs EXCEPT ![t].status = "mined", ![t].block = Len(log) + 1]
              /\ log' = Append(log, [kind |-> "proposed", request |-> txs[t].request])
  BY DEF Mine
<1>a. txs[t] \in Transaction
  BY <1>1
<1>3. txs[t] \in Transaction /\ txs[t].request \in Requests
  BY <1>a DEF Transaction
<1>4. CASE txs' = [txs EXCEPT ![t].status = "reverted"] /\ UNCHANGED log
  BY <1>2, <1>3, <1>4 DEF Mines, Transaction
<1>5. CASE /\ txs' = [txs EXCEPT ![t].status = "mined", ![t].block = Len(log) + 1]
           /\ log' = Append(log, [kind |-> "proposed", request |-> txs[t].request])
  <2>1. LogGrows("proposed", txs[t].request)
    BY <1>3, <1>5, LogGrowing
  <2>2. /\ txs'[t].status = "mined" /\ txs'[t].block = Len(log) + 1
        /\ txs'[t].request = txs[t].request
    BY <1>3, <1>5 DEF Transaction
  <2> QED BY <1>2, <1>5, <2>1, <2>2 DEF Mines
<1> QED BY <1>2, <1>4, <1>5

(* An end is of a live proposal.                                           *)
LEMMA SettleMeans ==
  ASSUME Shape, NEW kind \in {"deleted", "executed"}, Settle(kind)
  PROVE  /\ UNCHANGED <<submission, task, txs>>
         /\ \E i \in DOMAIN log :
              log[i].kind = "proposed" /\ Open(i) /\ LogGrows(kind, log[i].request)
<1>1. PICK i \in DOMAIN log :
        /\ log[i].kind = "proposed" /\ Open(i)
        /\ log' = Append(log, [kind |-> kind, request |-> log[i].request])
  BY DEF Settle
<1>2. log[i] \in Event
  BY DEF Shape, TypeOK
<1>3. log[i].request \in Requests
  BY <1>2 DEF Event
<1> QED BY <1>1, <1>3, LogGrowing DEF Settle

(* A mined transaction is the proposal it logs.                            *)
LEMMA LifecyclesMine ==
  ASSUME Shape, Calm, Lifecycles, Mine
  PROVE  Lifecycles'
<1>1. submission' = submission /\ task' = task
  BY DEF Mine
<1>2. SentOnce /\ SentIsStored /\ CalmPlaces /\ MinedIsProposed /\ ProposedIsMined /\ EndsFollow
  BY DEF Lifecycles
<1>3. PICK t \in DOMAIN txs : Mines(t)
  BY MineMeans
<1>4. DOMAIN txs' = DOMAIN txs /\ \A u \in DOMAIN txs : txs'[u].request = txs[u].request
  BY <1>3 DEF Mines
<1>5. SentOnce' /\ SentIsStored' /\ CalmPlaces'
  BY <1>1, <1>2, <1>4 DEF SentOnce, SentIsStored, StoredFor, CalmPlaces
<1>6. \A u \in DOMAIN txs : u # t => txs'[u] = txs[u]
  BY <1>3 DEF Mines
<1>7. CASE txs'[t].status = "reverted" /\ UNCHANGED log
  <2>1. MinedIsProposed'
    BY <1>2, <1>4, <1>6, <1>7 DEF MinedIsProposed
  <2>2. ProposedIsMined' /\ EndsFollow'
    BY <1>2, <1>3, <1>4, <1>6, <1>7 DEF ProposedIsMined, EndsFollow, Mines
  <2> QED BY <1>5, <2>1, <2>2 DEF Lifecycles
<1>8. CASE /\ txs'[t].status = "mined" /\ txs'[t].block = Len(log) + 1
           /\ LogGrows("proposed", txs[t].request)
  <2> DEFINE n == Len(log) + 1
  <2>1. /\ DOMAIN log' = DOMAIN log \cup {n} /\ n \notin DOMAIN log
        /\ \A i \in DOMAIN log : log'[i] = log[i] /\ i < n
        /\ log'[n].kind = "proposed" /\ log'[n].request = txs[t].request
    BY <1>8 DEF LogGrows
  <2>2. txs'[t].block = n
    BY <1>8
  <2> HIDE DEF n
  <2>3. MinedIsProposed'
    BY <1>2, <1>4, <1>6, <2>1, <2>2 DEF MinedIsProposed
  <2>4. ProposedIsMined'
    BY <1>2, <1>3, <1>4, <1>6, <1>8, <2>1, <2>2 DEF ProposedIsMined, Mines
  <2>5. ASSUME NEW j \in DOMAIN log, log[j].kind # "proposed", log[j].request = txs[t].request
        PROVE  FALSE
    <3>1. PICK i \in DOMAIN log : log[i].kind = "proposed" /\ log[i].request = log[j].request
      BY <1>2, <2>5 DEF EndsFollow
    <3>2. PICK u \in DOMAIN txs : txs[u].status = "mined" /\ txs[u].block = i
      BY <1>2, <3>1 DEF ProposedIsMined
    <3>3. txs[u].request = txs[t].request
      BY <1>2, <2>5, <3>1, <3>2 DEF MinedIsProposed
    <3> QED BY <1>2, <1>3, <3>2, <3>3 DEF SentOnce, Mines
  <2>6. EndsFollow'
    BY <1>2, <2>1, <2>5 DEF EndsFollow
  <2> QED BY <1>5, <2>3, <2>4, <2>6 DEF Lifecycles
<1> QED BY <1>3, <1>7, <1>8 DEF Mines

(* An end follows the proposals of its request.                            *)
LEMMA LifecyclesSettle ==
  ASSUME Shape, Calm, Lifecycles, NEW kind \in {"deleted", "executed"}, Settle(kind)
  PROVE  Lifecycles'
<1>1. UNCHANGED <<submission, task, txs>>
  BY SettleMeans
<1>2. SentOnce /\ SentIsStored /\ CalmPlaces /\ MinedIsProposed /\ ProposedIsMined /\ EndsFollow
  BY DEF Lifecycles
<1>3. PICK p \in DOMAIN log : log[p].kind = "proposed" /\ LogGrows(kind, log[p].request)
  BY SettleMeans
<1> DEFINE n == Len(log) + 1
<1>4. /\ DOMAIN log' = DOMAIN log \cup {n} /\ n \notin DOMAIN log
      /\ \A i \in DOMAIN log : log'[i] = log[i] /\ i < n
      /\ log'[n].kind # "proposed" /\ log'[n].request = log[p].request
  BY <1>3 DEF LogGrows
<1> HIDE DEF n
<1>5. SentOnce' /\ SentIsStored' /\ CalmPlaces'
  BY <1>1, <1>2 DEF SentOnce, SentIsStored, StoredFor, CalmPlaces
<1>6. MinedIsProposed' /\ ProposedIsMined'
  BY <1>1, <1>2, <1>4 DEF MinedIsProposed, ProposedIsMined
<1>7. EndsFollow'
  BY <1>2, <1>3, <1>4 DEF EndsFollow
<1> QED BY <1>5, <1>6, <1>7 DEF Lifecycles

(* There are no transactions at first.                                     *)
LEMMA LifecyclesInit == Init => Lifecycles
<1> SUFFICES ASSUME Init PROVE Lifecycles
  OBVIOUS
<1>1. DOMAIN txs = {} /\ DOMAIN log = {}
  BY DEF Init
<1>2. \A h \in Handlers : task[h].at = "idle"
  BY FinishedType DEF Init
<1> QED BY <1>1, <1>2
        DEF Lifecycles, SentOnce, SentIsStored, CalmPlaces, MinedIsProposed, ProposedIsMined,
            EndsFollow

(* While nothing fails, log and stored states agree after every step.      *)
LEMMA LifecyclesNext == Shape /\ Stored /\ Lifecycles /\ [Next]_vars => Lifecycles'
<1> SUFFICES ASSUME Shape, Stored, Lifecycles, [Next]_vars, Calm' PROVE Lifecycles'
  BY DEF Lifecycles
<1>1. Calm /\ failures' = failures /\ ~Crash
  BY CalmBefore
<1>2. CASE UNCHANGED <<submission, task, txs, log, settings, failures, crashes>>
  BY <1>2 DEF Lifecycles, Calm, SentOnce, SentIsStored, StoredFor, CalmPlaces,
     MinedIsProposed, ProposedIsMined, EndsFollow
<1>3. ASSUME NEW h \in Handlers, HandlerStep(h) PROVE Lifecycles'
  BY <1>1, <1>3, StepKinds, LifecyclesQuiet, LifecyclesSaving, LifecyclesSending
<1>4. ASSUME NEW h \in Handlers, NEW q \in Requests, Receive(h, q), UNCHANGED settings
      PROVE  Lifecycles'
  <2>1. /\ UNCHANGED <<submission, txs, log>>
        /\ \A g \in Handlers \ {h} : task'[g] = task[g]
        /\ task[h].at = "idle" /\ task'[h].at = "publish"
    BY <1>4, ShapeReceive DEF Receive, Others, chainVars
  <2>2. SentOnce /\ SentIsStored /\ CalmPlaces /\ MinedIsProposed /\ ProposedIsMined /\ EndsFollow
    BY <1>1 DEF Lifecycles
  <2>3. SentIsStored' /\ CalmPlaces'
    BY <2>1, <2>2 DEF SentIsStored, StoredFor, CalmPlaces
  <2> QED BY <2>1, <2>2, <2>3 DEF Lifecycles, SentOnce, MinedIsProposed, ProposedIsMined, EndsFollow
<1>5. CASE Mine \/ Execute \/ Delete
  BY <1>1, <1>5, LifecyclesMine, LifecyclesSettle DEF Execute, Delete
<1> QED BY <1>1, <1>2, <1>3, <1>4, <1>5 DEF Next, vars
-----------------------------------------------------------------------------
(* A proposal that is over stays over: the Governor only settles what is   *)
(* open, and a request has been proposed once.                             *)
LEMMA OverStays ==
  ASSUME Shape, Calm, Lifecycles, UNCHANGED log \/ Mine \/ Execute \/ Delete, NEW q, Over(q)
  PROVE  Over(q)'
<1>1. CASE UNCHANGED log
  BY <1>1 DEF Over
<1>2. ASSUME NEW kind \in {"proposed", "deleted"}, NEW r, LogGrows(kind, r)
      PROVE  Over(q)'
  BY <1>2 DEF Over, LogGrows
<1>3. CASE Mine
  BY <1>1, <1>2, <1>3, MineMeans DEF Mines
<1>4. CASE Delete
  BY <1>2, <1>4, SettleMeans DEF Delete
<1>5. CASE Execute
  <2>1. PICK p \in DOMAIN log :
          log[p].kind = "proposed" /\ Open(p) /\ LogGrows("executed", log[p].request)
    BY <1>5, SettleMeans DEF Execute
  <2>2. PICK d \in DOMAIN log : log[d].kind = "deleted" /\ log[d].request = q
    BY DEF Over
  <2>3. ASSUME log[p].request = q PROVE FALSE
    <3>1. p < d /\ p \in Int /\ d \in Int
      BY <2>1, <2>2, <2>3 DEF Lifecycles, EndsFollow, Shape, TypeOK
    <3>2. d \in EventsFrom(p, "deleted", PayloadOf[log[p].request])
      BY <2>2, <2>3, <3>1 DEF EventsFrom, Events
    <3> QED BY <2>1, <3>2 DEF Open
  <2> QED BY <2>1, <2>2, <2>3 DEF Over, LogGrows
<1> QED BY <1>1, <1>3, <1>4, <1>5

(* The records that are read are those of all that share a deposit.        *)
LEMMA AllAreRead ==
  ASSUME NEW q \in Requests, NEW order \in SetToSeqs(Sharing(q))
  PROVE  /\ \A r \in Sharing(q) : \E n \in DOMAIN order : order[n] = r
         /\ \A m, n \in DOMAIN order : order[m] = order[n] => m = n
         /\ \A n \in DOMAIN order : \A k \in 1..n - 1 : k \in DOMAIN order /\ k # n
<1> DEFINE T == Sharing(q)
           D == 1..Cardinality(T)
<1>1. IsFiniteSet(T)
  <2>1. T \subseteq Requests
    BY DEF Sharing
  <2> QED BY <2>1, SubmissionAssumption, FS_Subset
<1>2. order \in [D -> T] /\ \A i, j \in D : i # j => order[i] # order[j]
  BY DEF SetToSeqs
<1>3. Cardinality(T) \in Nat
  BY <1>1, FS_CardinalityType
<1>4. Cardinality(D) = Cardinality(T)
  BY <1>3, FS_Interval
<1> HIDE DEF D, T
<1>5. order \in Injection(D, T)
  BY <1>2 DEF Injection, IsInjective
<1>6. order \in Surjection(D, T)
  BY <1>1, <1>4, <1>5, FS_Injection
<1>7. \A r \in T : \E n \in D : order[n] = r
  BY <1>6 DEF Surjection
<1>8. \A n \in D : \A k \in 1..n - 1 : k \in D /\ k # n
  BY <1>3 DEF D
<1> QED BY <1>2, <1>7, <1>8 DEF T

(* A verdict of "available" from the store means that all the proposals it *)
(* knows of for a shared deposit are over, and in a calm node that is all  *)
(* the proposals there are.                                                *)
LEMMA AvailableMeans ==
  ASSUME Shape, Reserved, DistinctPayloads, Calm, Lifecycles, NEW h \in Handlers,
         task[h].at = "verify", NEW order \in SetToSeqs(Sharing(task[h].request)),
         StoredStatus(task[h].request, order) = "available"
  PROVE  OthersOver(task[h].request)
<1> DEFINE q == task[h].request
<1>1. q \in Requests
  BY DEF Shape, Chains
<1>2. \A n \in DOMAIN order : StoredLifecycle(order[n], order) = "available"
  BY StoredVerdict
<1>3. ASSUME NEW t \in DOMAIN txs, Competes(t, q)
      PROVE  Over(txs[t].request)
  <2> DEFINE r == txs[t].request
             s == submission[r]
  <2>1. r \in Requests /\ txs[t].status \in {"pool", "mined"} /\ r \in Sharing(q)
    <3>1. txs[t] \in Transaction
      BY DEF Shape, TypeOK
    <3> QED BY <1>3, <3>1 DEF Transaction, Competes, Sharing
  <2>2. PICK n \in DOMAIN order : order[n] = r
    BY <1>1, <2>1, AllAreRead
  <2>3. StoredLifecycle(r, order) = "available"
    BY <1>2, <2>2
  <2>4. StoredFor(t)
    <3>1. ASSUME NEW g \in Handlers, task[g].at = "notify", task[g].tx = t PROVE FALSE
      <4>1. task[g].tx # None /\ task[g].request = r
        BY <3>1 DEF Shape, Hashes, SentFor, SentIn
      <4>2. g # h /\ task[g].at \in Reserving /\ task[h].at \in Reserving
        BY <3>1, ReservingPlaces
      <4>3. settings.mode # "off" /\ Shares(task[g].request, task[h].request)
        BY <1>3, <4>1 DEF Calm, Competes
      <4> QED BY <4>2, <4>3, DepositsExclude
    <3> QED BY <3>1 DEF Lifecycles, SentIsStored
  <2>5. s.tx = t /\ s.status \in {"submitted", "resolved"} /\ t # None
    BY <2>4, SentIsNat DEF StoredFor
  <2> DEFINE P(m) == /\ PayloadOf[order[m]] = PayloadOf[r] /\ HasReceipt(order[m])
                     /\ \A k \in 1..m - 1 :
                          ~(PayloadOf[order[k]] = PayloadOf[r] /\ HasReceipt(order[k]))
             i == CHOOSE m \in DOMAIN order : P(m)
  <2>6. txs[t].status = "mined"
        /\ LifecycleSince(txs[submission[order[i]].tx].block, PayloadOf[r]) = "available"
    BY <2>1, <2>3, <2>5 DEF StoredLifecycle
  <2>7. \A m \in DOMAIN order :
          order[m] \in Requests /\ (PayloadOf[order[m]] = PayloadOf[r] => m = n)
    <3>1. \A m \in DOMAIN order : order[m] \in Requests
      BY DEF SetToSeqs, Sharing
    <3> QED BY <1>1, <2>1, <2>2, <3>1, AllAreRead DEF DistinctPayloads
  <2>8. P(n)
    <3>1. HasReceipt(order[n])
      BY <2>2, <2>5, <2>6 DEF HasReceipt
    <3>2. \A k \in 1..n - 1 : k \in DOMAIN order /\ k # n
      BY <1>1, <2>2, AllAreRead
    <3> QED BY <2>2, <2>7, <3>1, <3>2
  <2> HIDE DEF P
  <2>9. order[i] = r
    <3>1. P(i) /\ i \in DOMAIN order
      BY <2>8
    <3>2. PayloadOf[order[i]] = PayloadOf[r]
      BY <3>1 DEF P
    <3> QED BY <2>2, <2>7, <3>1, <3>2
  <2> DEFINE b == txs[t].block
  <2>10. LifecycleSince(b, PayloadOf[r]) = "available"
    BY <2>5, <2>6, <2>9
  <2> HIDE DEF i
  <2>11. EventsFrom(b, "deleted", PayloadOf[r]) # {} /\ EventsFrom(b, "executed", PayloadOf[r]) = {}
    BY <2>10 DEF LifecycleSince
  <2>12. b \in DOMAIN log /\ log[b].kind = "proposed" /\ log[b].request = r
    BY <2>6 DEF Lifecycles, MinedIsProposed
  <2>13. \A j \in DOMAIN log : log[j].request \in Requests /\ j \in Int
    <3>1. \A j \in DOMAIN log : log[j] \in Event /\ j \in Int
      BY DEF Shape, TypeOK
    <3> QED BY <3>1 DEF Event
  <2> HIDE DEF b, r
  <2>14. PICK j \in DOMAIN log : log[j].kind = "deleted" /\ PayloadOf[log[j].request] = PayloadOf[r]
    BY <2>11 DEF EventsFrom, Events
  <2>15. log[j].request = r
    BY <2>1, <2>13, <2>14 DEF DistinctPayloads, r
  <2>16. ASSUME NEW k \in DOMAIN log, log[k].kind = "executed", log[k].request = r PROVE FALSE
    <3>1. b < k
      BY <2>12, <2>16 DEF Lifecycles, EndsFollow
    <3>2. k \in EventsFrom(b, "executed", PayloadOf[r])
      BY <2>12, <2>13, <2>16, <3>1 DEF EventsFrom, Events
    <3> QED BY <2>11, <3>2
  <2>17. Over(r)
    BY <2>14, <2>15, <2>16 DEF Over
  <2> QED BY <2>17 DEF r
<1> QED BY <1>3 DEF OthersOver

(* A step that sends nothing.                                              *)
LEMMA VerificationsUnsent ==
  ASSUME Shape, Calm, Lifecycles, Verifications,
         UNCHANGED log \/ Mine \/ Execute \/ Delete,
         DOMAIN txs' = DOMAIN txs,
         \A t \in DOMAIN txs :
           /\ txs'[t].request = txs[t].request
           /\ txs[t].status = "reverted" => txs'[t].status = "reverted",
         \A g \in Handlers : IsVerified(g)' =>
           \/ IsVerified(g) /\ task'[g].request = task[g].request
           \/ OthersOver(task'[g].request)
  PROVE  Verifications'
<1>1. \A t \in DOMAIN txs : \A q : (txs'[t].request # q /\ Shares(txs'[t].request, q)
                                 /\ txs'[t].status # "reverted") => Competes(t, q)
  BY DEF Competes
<1>2. \A q : Over(q) => Over(q)'
  BY OverStays
<1>3. ASSUME NEW q, OthersOver(q), NEW t \in DOMAIN txs', NEW r, r = txs'[t].request, r # q,
             Shares(r, q), txs'[t].status # "reverted"
      PROVE  Over(r)'
  BY <1>1, <1>2, <1>3 DEF OthersOver
<1>4. ASSUME NEW g \in Handlers, IsVerified(g)' PROVE OthersOver(task[g].request)'
  <2>1. OthersOver(task'[g].request)
    BY <1>4 DEF Verifications
  <2>2. ASSUME NEW t \in DOMAIN txs', Competes(t, task[g].request)'
        PROVE  Over(txs[t].request)'
    <3>1. PICK q, r : q = task'[g].request /\ r = txs'[t].request
      OBVIOUS
    <3>2. Over(r)'
      BY <1>3, <2>1, <2>2, <3>1 DEF Competes
    <3> QED BY <3>1, <3>2 DEF Over
  <2> QED BY <2>2 DEF OthersOver
<1>5. ASSUME NEW t \in DOMAIN txs', NEW u \in DOMAIN txs',
             Competes(t, txs[u].request)', txs'[u].status # "reverted"
      PROVE  Over(txs[t].request)' \/ Over(txs[u].request)'
  <2>1. Competes(t, txs[u].request) /\ txs[u].status # "reverted"
    BY <1>1, <1>5 DEF Competes
  <2>2. Over(txs[t].request) \/ Over(txs[u].request)
    BY <2>1 DEF Verifications
  <2> QED BY <1>2, <2>2 DEF Over
<1> QED BY <1>4, <1>5 DEF Verifications

(* The verifications of a calm node, step by step.                         *)
LEMMA VerificationsQuiet ==
  ASSUME Shape, Reserved, DistinctPayloads, Calm, Lifecycles, Verifications,
         NEW h \in Handlers, Quiet(h), failures' = failures
  PROVE  Verifications'
<1>1. /\ UNCHANGED <<submission, txs, log>> /\ QuietKinds(h) /\ ~Fell /\ ~Advised
      /\ settings.mode # "off" /\ \A g \in Handlers \ {h} : task'[g] = task[g]
  BY DEF Quiet, Moves, Others, Shape, TypeOK, Calm, Fell, Advised
<1>2. ASSUME IsVerified(h)'
      PROVE  \/ IsVerified(h) /\ task'[h].request = task[h].request
             \/ OthersOver(task'[h].request)
  <2>1. task'[h] # Finished
    BY <1>2, FinishedType DEF IsVerified
  <2>2. task'[h].request = task[h].request
    BY <2>1 DEF Quiet, Moves, Enters, Blocks, Takes, Goes, Leaves, Leave, Moved, Shape, TypeOK
  <2>3. CASE task'[h].at = "verifyChain"
    <3>1. task[h].at = "verify" /\ task'[h].found = "available"
          /\ \E order \in SetToSeqs(Sharing(task[h].request)) :
               task'[h].found = StoredStatus(task[h].request, order)
      BY <1>1, <1>2, <2>1, <2>3 DEF QuietKinds, Steps, IsVerified
    <3>2. OthersOver(task[h].request)
      BY <3>1, AvailableMeans
    <3> QED BY <2>2, <3>2
  <2>4. CASE task'[h].at = "saveVerdict"
    <3>1. task[h].at = "verifyChain" /\ task[h].found = "available"
      BY <1>1, <1>2, <2>1, <2>4 DEF QuietKinds, Steps, IsVerified
    <3> QED BY <2>2, <3>1 DEF IsVerified
  <2>5. CASE task'[h].at = "submit"
    <3>1. task[h].at \in {"saveVerdict", "saveFallback"} /\ task[h].found = "available"
      BY <1>1, <2>1, <2>5 DEF QuietKinds, Steps
    <3>2. task[h].at # "saveFallback"
      BY DEF Lifecycles, CalmPlaces
    <3> QED BY <2>2, <3>1, <3>2 DEF IsVerified
  <2>6. CASE task'[h].at = "broadcast"
    <3>1. task[h].at = "submit"
      BY <1>1, <2>1, <2>6 DEF QuietKinds, Steps
    <3> QED BY <2>2, <3>1 DEF IsVerified
  <2> QED BY <1>2, <2>3, <2>4, <2>5, <2>6 DEF IsVerified
<1>3. ASSUME NEW g \in Handlers \ {h}, IsVerified(g)'
      PROVE  IsVerified(g) /\ task'[g].request = task[g].request
  BY <1>1, <1>3 DEF IsVerified
<1> QED BY <1>1, <1>2, <1>3, VerificationsUnsent

(* What is sent was verified: those it competes with are over.             *)
LEMMA VerificationsSending ==
  ASSUME Shape, Stored, Reserved, Calm, Lifecycles, Verifications,
         NEW h \in Handlers, Sending(h), failures' = failures
  PROVE  Verifications'
<1>1. /\ UNCHANGED <<submission, log>> /\ \A g \in Handlers \ {h} : task'[g] = task[g]
      /\ task[h].at = "broadcast" /\ task'[h].at = "notify" /\ settings.mode # "off"
  BY DEF Sending, Moves, Others, Shape, TypeOK, Calm
<1>2. /\ \A t \in DOMAIN txs : t \in DOMAIN txs' /\ txs'[t] = txs[t]
      /\ \A t \in DOMAIN txs' \ DOMAIN txs :
           t = Len(txs) + 1 /\ txs'[t].request = task[h].request /\ txs'[t].status = "pool"
  BY SendingTxs
<1>3. \A q : Over(q)' <=> Over(q)
  BY <1>1 DEF Over
<1>4. OthersOver(task[h].request)
  BY <1>1 DEF Verifications, IsVerified
<1>5. ASSUME NEW t \in DOMAIN txs', NEW u \in DOMAIN txs',
             Competes(t, txs[u].request)', txs'[u].status # "reverted"
      PROVE  Over(txs[t].request)' \/ Over(txs[u].request)'
  <2>1. /\ txs'[t].request # txs'[u].request /\ Shares(txs'[t].request, txs'[u].request)
        /\ txs'[t].status # "reverted"
    BY <1>5 DEF Competes
  <2> DEFINE q == txs'[t].request
             r == txs'[u].request
  <2>2. q # r /\ Shares(q, r) /\ Shares(r, q)
    BY <2>1 DEF Shares
  <2>3. CASE t \in DOMAIN txs /\ u \in DOMAIN txs
    <3>1. q = txs[t].request /\ r = txs[u].request /\ Competes(t, r) /\ txs[u].status # "reverted"
      BY <1>2, <1>5, <2>1, <2>3 DEF Competes
    <3>2. Over(q) \/ Over(r)
      BY <2>3, <3>1 DEF Verifications
    <3> QED BY <1>1, <3>2 DEF Over
  <2>4. CASE t \in DOMAIN txs /\ u \notin DOMAIN txs
    <3>1. q = txs[t].request /\ r = task[h].request /\ Competes(t, r)
      BY <1>2, <2>1, <2>4 DEF Competes
    <3>2. Over(q)
      BY <1>4, <2>4, <3>1 DEF OthersOver
    <3> QED BY <1>1, <3>2 DEF Over
  <2>5. CASE t \notin DOMAIN txs /\ u \in DOMAIN txs
    <3>1. r = txs[u].request /\ q = task[h].request /\ Competes(u, q)
      BY <1>2, <1>5, <2>2, <2>5 DEF Competes
    <3>2. Over(r)
      BY <1>4, <2>5, <3>1 DEF OthersOver
    <3> QED BY <1>1, <3>2 DEF Over
  <2>6. ~(t \notin DOMAIN txs /\ u \notin DOMAIN txs)
    BY <1>2, <2>1
  <2> QED BY <2>3, <2>4, <2>5, <2>6
<1>6. ASSUME NEW g \in Handlers, IsVerified(g)' PROVE OthersOver(task[g].request)'
  <2>1. g # h /\ task'[g] = task[g]
    BY <1>1, <1>6 DEF IsVerified
  <2>2. IsVerified(g)
    BY <1>6, <2>1 DEF IsVerified
  <2>3. OthersOver(task[g].request)
    BY <2>2 DEF Verifications
  <2>4. ~Shares(task[h].request, task[g].request)
    <3>1. task[g].at \in Reserving /\ task[h].at \in Reserving
      BY <1>1, <2>2, ReservingPlaces DEF IsVerified
    <3> QED BY <1>1, <2>1, <3>1, DepositsExclude
  <2> QED BY <1>2, <1>3, <2>1, <2>3, <2>4 DEF OthersOver, Competes, Over
<1> QED BY <1>5, <1>6 DEF Verifications

(* Nobody has verified anything at first.                                  *)
LEMMA VerificationsInit == Init => Verifications
<1> SUFFICES ASSUME Init PROVE Verifications
  OBVIOUS
<1>1. DOMAIN txs = {} /\ \A h \in Handlers : ~IsVerified(h)
  BY FinishedType DEF Init, IsVerified
<1> QED BY <1>1 DEF Verifications

(* While nothing fails, of two that compete one is over after every step.  *)
LEMMA VerificationsNext ==
  ASSUME DistinctPayloads
  PROVE  Shape /\ Stored /\ Reserved /\ Lifecycles /\ Verifications /\ [Next]_vars => Verifications'
<1> SUFFICES ASSUME Shape, Stored, Reserved, Lifecycles, Verifications, [Next]_vars, Calm'
             PROVE  Verifications'
  BY DEF Verifications
<1>1. Calm /\ failures' = failures /\ ~Crash
  BY CalmBefore
<1>2. ASSUME UNCHANGED <<txs, log>>,
             \A g \in Handlers : IsVerified(g)' =>
               \/ IsVerified(g) /\ task'[g].request = task[g].request
               \/ OthersOver(task'[g].request)
      PROVE  Verifications'
  BY <1>1, <1>2, VerificationsUnsent
<1>3. CASE UNCHANGED vars
  BY <1>2, <1>3 DEF vars, IsVerified
<1>4. ASSUME NEW h \in Handlers, HandlerStep(h) PROVE Verifications'
  <2>1. CASE Saving(h)
    <3>1. /\ UNCHANGED <<txs, log>> /\ task'[h].at \in {"receipt", "done"}
          /\ \A g \in Handlers \ {h} : task'[g] = task[g]
      BY <2>1, FinishedType DEF Saving, SaveKinds, Steps, Moves, Others
    <3> QED BY <1>2, <3>1 DEF IsVerified
  <2> QED BY <1>1, <1>4, <2>1, StepKinds, VerificationsQuiet, VerificationsSending
<1>5. ASSUME NEW h \in Handlers, NEW q \in Requests, Receive(h, q), UNCHANGED settings
      PROVE  Verifications'
  <2>1. /\ UNCHANGED <<txs, log>> /\ task'[h].at = "publish"
        /\ \A g \in Handlers \ {h} : task'[g] = task[g]
    BY <1>5, ShapeReceive DEF Receive, Others, chainVars
  <2> QED BY <1>2, <2>1 DEF IsVerified
<1>6. CASE Mine
  <2>1. PICK t \in DOMAIN txs : Mines(t)
    BY <1>6, MineMeans
  <2>2. task' = task /\ DOMAIN txs' = DOMAIN txs
        /\ \A u \in DOMAIN txs : txs'[u].request = txs[u].request
             /\ (txs[u].status = "reverted" => txs'[u].status = "reverted")
    BY <1>6, <2>1 DEF Mine, Mines
  <2>3. \A g \in Handlers : IsVerified(g)' =>
          IsVerified(g) /\ task'[g].request = task[g].request
    BY <2>2 DEF IsVerified
  <2> QED BY <1>1, <1>6, <2>2, <2>3, VerificationsUnsent
<1>7. CASE Execute \/ Delete
  <2>1. UNCHANGED <<task, txs>>
    BY <1>7 DEF Execute, Delete, Settle
  <2>2. \A g \in Handlers : IsVerified(g)' =>
          IsVerified(g) /\ task'[g].request = task[g].request
    BY <2>1 DEF IsVerified
  <2> QED BY <1>1, <1>7, <2>1, <2>2, VerificationsUnsent
<1> QED BY <1>1, <1>3, <1>4, <1>5, <1>6, <1>7 DEF Next

(* A proposal that is over was deleted.                                    *)
LEMMA OverIsDeleted ==
  ASSUME Shape, Calm, Lifecycles, NEW i \in DOMAIN log, log[i].kind = "proposed",
         Over(log[i].request), DistinctPayloads
  PROVE  ~Undeleted(i)
<1> DEFINE ended == {j \in DOMAIN log : j > i /\ log[j].kind # "proposed"
                        /\ PayloadOf[log[j].request] = PayloadOf[log[i].request]}
<1>1. ended \subseteq Int /\ IsFiniteSet(ended)
  <2>1. DOMAIN log = 1..Len(log) /\ Len(log) \in Nat
    BY DEF Shape, TypeOK
  <2>2. IsFiniteSet(DOMAIN log)
    BY <2>1, FS_Interval
  <2>3. ended \in SUBSET DOMAIN log
    OBVIOUS
  <2> QED BY <2>1, <2>2, <2>3, FS_Subset
<1>2. PICK d \in DOMAIN log : log[d].kind = "deleted" /\ log[d].request = log[i].request
  BY DEF Over
<1>3. d \in ended
  <2>1. i < d /\ i \in Int /\ d \in Int
    BY <1>2 DEF Lifecycles, EndsFollow, Shape, TypeOK
  <2> QED BY <1>2, <2>1
<1> HIDE DEF ended
<1>4. Min(ended) \in ended
  BY <1>1, <1>3, EndsExist
<1>5. log[Min(ended)].request = log[i].request
  <2>1. \A j \in DOMAIN log : log[j].request \in Requests
    <3>1. \A j \in DOMAIN log : log[j] \in Event
      BY DEF Shape, TypeOK
    <3> QED BY <3>1 DEF Event
  <2> QED BY <1>4, <2>1 DEF ended, DistinctPayloads
<1>6. log[Min(ended)].kind # "executed"
  BY <1>4, <1>5 DEF Over, ended
<1> QED BY <1>3, <1>6 DEF Undeleted, ended

(* The invariant says what is to be shown.                                 *)
LEMMA DepositOnce ==
  ASSUME DistinctPayloads
  PROVE  Shape /\ Lifecycles /\ Verifications => DepositOnceUntilFailure
<1> SUFFICES ASSUME Shape, Lifecycles, Verifications, Calm, NEW i \in DOMAIN log,
                    NEW j \in DOMAIN log,
                    log[i].kind = "proposed", log[j].kind = "proposed",
                    Undeleted(i), Undeleted(j), Shares(log[i].request, log[j].request)
             PROVE  i = j
  BY DEF DepositOnceUntilFailure, DepositReimbursedOnce, Calm
<1>1. PICK t \in DOMAIN txs : txs[t].status = "mined" /\ txs[t].block = i
  BY DEF Lifecycles, ProposedIsMined
<1>2. PICK u \in DOMAIN txs : txs[u].status = "mined" /\ txs[u].block = j
  BY DEF Lifecycles, ProposedIsMined
<1>3. txs[t].request = log[i].request /\ txs[u].request = log[j].request
  BY <1>1, <1>2 DEF Lifecycles, MinedIsProposed
<1>4. CASE log[i].request = log[j].request
  BY <1>1, <1>2, <1>3, <1>4 DEF Lifecycles, SentOnce
<1>5. CASE log[i].request # log[j].request
  <2>1. Over(log[i].request) \/ Over(log[j].request)
    BY <1>1, <1>2, <1>3, <1>5 DEF Verifications, Competes
  <2> QED BY <2>1, OverIsDeleted
<1> QED BY <1>4, <1>5

(* In enforce mode, a node that has neither failed nor crashed never       *)
(* brings two proposals for one deposit on chain, unless the first was     *)
(* deleted: not for any number of handlers that verify and submit at the   *)
(* same time.  Requests are taken to differ in their transactions: two     *)
(* proposals with the same ones share their hash, whose verdict the node   *)
(* caches, and for them the run MCDepositReproposed refutes it.            *)
THEOREM SubmissionDepositOnce ==
  ASSUME DistinctPayloads
  PROVE  Spec => []DepositOnceUntilFailure
<1> DEFINE Inv == Shape /\ Stored /\ Reserved /\ Lifecycles /\ Verifications
<1>1. Init => Inv
  BY ShapeInit, StoredInit, ReservedInit, LifecyclesInit, VerificationsInit
<1>2. Inv /\ [Next]_vars => Inv'
  BY ShapeNext, StoredNext, ReservedNext, LifecyclesNext, VerificationsNext
<1>3. Inv => DepositOnceUntilFailure
  BY DepositOnce
<1> QED BY <1>1, <1>2, <1>3, PTL DEF Spec
=============================================================================
