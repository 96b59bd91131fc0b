------------------------- MODULE MessagePublication -------------------------
(***************************************************************************)
(* The message publication node (agent/src/lib/message-publication-api.js  *)
(* over message-publication-store.js): HTTP handlers that archive signed   *)
(* messages to IPFS and must answer every retry with the original CID.     *)
(*                                                                         *)
(* Handlers interleave at their awaits.  Three promise chains order them:  *)
(* the store runs one operation at a time in the order they were issued,   *)
(* publishOperationTails runs one publication per key, and                 *)
(* publicationConflictTails one per lock key of the module's hook.  What   *)
(* follows an awaited store operation without further I/O belongs to the   *)
(* step that completes the operation, and the microtasks it releases (the  *)
(* next handler of a chain, a catch block) run before any other callback.  *)
(* A CID is a hash of the artifact, so the artifact stands for its CID;    *)
(* the artifact carries the time it was built at, so each one is new.      *)
(***************************************************************************)
EXTENDS Integers, FiniteSets, SequencesExt

CONSTANTS
  Handlers,     \* HTTP requests the node receives, numbered as they arrive
  Keys,         \* signer, chain id and request id: the identity of a message
  Bodies,       \* signed contents
  Streams,      \* lock keys derived from a message by the module's hook
  NoStream,     \* a message the hook derives no lock key from
  Requests,     \* signed requests
  Workloads,    \* the sets of requests that clients may send in a behaviour
  None,         \* null
  MaxFailures,  \* workload |-> bound on failing writes, IPFS calls, attestations
  MaxCrashes    \* bound on crashes of the node

Request == [key : Keys, body : Bodies, stream : Streams \cup {NoStream}, sequence : Nat]

ASSUME PublicationAssumption ==
  /\ Requests \subseteq Request
  /\ Workloads \subseteq SUBSET Requests
  /\ IsFiniteSet(Handlers) /\ Handlers = 1..Cardinality(Handlers)
  /\ IsFiniteSet(Keys)
  /\ NoStream \notin Streams
  /\ MaxFailures \in [Workloads -> Nat] /\ MaxCrashes \in Nat

Stamps == 1..Cardinality(Handlers)    \* a handler builds at most one artifact
Artifact == [request : Requests, stamp : Stamps]
ArtifactOrNone == Artifact \cup {None}

(* What the store keeps for a key.  pinned needs a cid, a cid an artifact. *)
Record == [request : Requests, artifact : ArtifactOrNone, cid : ArtifactOrNone,
           pinned : BOOLEAN]

(* null is neither a request nor a record nor an artifact.                 *)
ASSUME NoneAssumption == None \notin Requests /\ None \notin Artifact /\ None \notin Record

(* A handler: where it is, its request, whether its answer is a first      *)
(* publication, the record it works on, the persistence attempts made and  *)
(* the publication it could not persist.                                   *)
Places == {"idle", "lookup", "prepare", "queued", "load", "blocked", "reload",
           "validate", "attest", "saveArtifact", "add", "persist", "pin", "savePinned",
           "failing", "reread", "saveError", "done"}
Task == [at : Places, request : Requests \cup {None}, created : BOOLEAN,
         record : Record \cup {None}, attempt : 0..2, partial : ArtifactOrNone]

VARIABLES
  workload,    \* the requests clients send
  disk,        \* the state file: key |-> record or None
  volatile,    \* volatilePublicationStates: key |-> artifact published, not persisted
  task,        \* handler |-> its task
  storeQueue,  \* handlers waiting for the store, the first one being served
  keyTail,     \* handlers in publishOperationTails, in order
  lockTail,    \* handlers in publicationConflictTails, in order
  ipfs,        \* the artifacts IPFS has accepted
  builds,      \* artifacts built so far (Date.now() in publishedAtMs)
  answers,     \* history: the responses sent
  failures, crashes

vars == <<workload, disk, volatile, task, storeQueue, keyTail, lockTail, ipfs, builds,
          answers, failures, crashes>>

KeyOf(h) == task[h].request.key
StreamOf(h) == task[h].request.stream
(* Variant for mutation: after a failed operation the store serves no more. *)
ServedUntilFailure(h) == failures = 0 /\ storeQueue # <<>> /\ Head(storeQueue) = h
Served(h) == storeQueue # <<>> /\ Head(storeQueue) = h
Before(s, h) == {s[i] : i \in 1..(CHOOSE j \in DOMAIN s : s[j] = h) - 1}
(* Variant for mutation: a handler does not wait for those before it.      *)
LockTurnAtOnce(h) == TRUE
KeyTurn(h) == \A g \in Before(keyTail, h) : KeyOf(g) # KeyOf(h)
LockTurn(h) == \A g \in Before(lockTail, h) : StreamOf(g) # StreamOf(h)

(* A microtask of h is pending: its turn has come, or its operation threw. *)
Ready(h) ==
  \/ task[h].at = "queued" /\ KeyTurn(h)
  \/ task[h].at = "blocked" /\ LockTurn(h)
  \/ task[h].at = "failing"
Drained == \A h \in Handlers : ~Ready(h)

Idle == [at |-> "idle", request |-> None, created |-> FALSE, record |-> None,
         attempt |-> 0, partial |-> None]
Finished == [Idle EXCEPT !.at = "done"]
Reply(q, status, cid) == [request |-> q, status |-> status, cid |-> cid]

-----------------------------------------------------------------------------
(* Building blocks of a handler's step.                                    *)

(* h goes to place p with record r, and to the store if it has work there. *)
GoTo(h, p, r, queue, toStore) ==
  /\ task' = [task EXCEPT ![h].at = p, ![h].record = r]
  /\ storeQueue' = IF toStore THEN Append(queue, h) ELSE queue

(* publishRecord leaves its two promise chains.                            *)
Leave(h) ==
  /\ keyTail' = RemoveFirst(keyTail, h)
  /\ lockTail' = RemoveFirst(lockTail, h)
Stay == UNCHANGED <<keyTail, lockTail>>

Answered(h, status, cid) ==
  /\ answers' = answers \cup {Reply(task[h].request, status, cid)}
  /\ task' = [task EXCEPT ![h] = Finished]

(* The operation throws; the handler will run its catch block.             *)
Throw(h, partial, queue) ==
  /\ task' = [task EXCEPT ![h].at = "failing", ![h].record = None, ![h].attempt = 0,
                          ![h].partial = partial]
  /\ storeQueue' = queue
  /\ Leave(h)

Fails == failures < MaxFailures[workload] /\ failures' = failures + 1
NoFailure == UNCHANGED failures

(* Variant for mutation: nothing published is remembered for a retry.      *)
ReusableNever(k, r) == FALSE

(* The volatile state applies to r: same signature and canonical message.  *)
Reusable(k, r) == r.cid = None /\ volatile[k] # None /\ volatile[k].request = r.request
Persisting(r, artifact) == [r EXCEPT !.artifact = artifact, !.cid = artifact]

(* performPublish and publishRecord: what is done next with record r.      *)
Proceed(h, r, queue) ==
  \/ /\ r.cid # None /\ r.pinned
     /\ Answered(h, IF task[h].created THEN "published" ELSE "duplicate", r.cid)
     /\ storeQueue' = queue
     /\ Leave(h)
  \/ /\ Reusable(KeyOf(h), r)
     /\ task' = [task EXCEPT ![h].at = "persist", ![h].attempt = 1,
                             ![h].record = Persisting(r, volatile[KeyOf(h)])]
     /\ storeQueue' = Append(queue, h)
     /\ Stay /\ UNCHANGED answers
  \/ /\ ~Reusable(KeyOf(h), r) /\ r.artifact = None
     /\ IF StreamOf(h) = NoStream
        THEN GoTo(h, "attest", r, queue, FALSE)
        ELSE GoTo(h, "validate", r, queue, TRUE)
     /\ Stay /\ UNCHANGED answers
  \/ /\ ~Reusable(KeyOf(h), r) /\ r.artifact # None /\ r.cid = None
     /\ GoTo(h, "add", r, queue, FALSE)
     /\ Stay /\ UNCHANGED answers
  \/ /\ r.cid # None /\ ~r.pinned
     /\ GoTo(h, "pin", r, queue, FALSE)
     /\ Stay /\ UNCHANGED answers
-----------------------------------------------------------------------------
(* The handler up to its place in the promise chains.                      *)

(* A well-formed, authenticated request arrives: store.getRecord.          *)
Receive(h, q) ==
  /\ task[h].at = "idle"
  /\ \A g \in 1..h - 1 : task[g].at # "idle"
  /\ task' = [task EXCEPT ![h].at = "lookup", ![h].request = q]
  /\ storeQueue' = Append(storeQueue, h)
  /\ UNCHANGED <<disk, volatile, keyTail, lockTail, ipfs, builds, answers, failures, crashes>>

(* The stored record is compared with the request; an expired signature is *)
(* good only for a retry of what is stored.                                *)
Lookup(h, expired) ==
  /\ task[h].at = "lookup" /\ Served(h)
  /\ LET q == task[h].request
         stored == disk[KeyOf(h)]
         exact == stored # None /\ stored.request = q
     IN  \/ /\ expired /\ ~exact
            /\ Answered(h, IF stored # None THEN "conflict" ELSE "expired",
                        IF stored # None THEN stored.cid ELSE None)
            /\ storeQueue' = Tail(storeQueue)
            /\ UNCHANGED keyTail
         \/ /\ exact
            /\ GoTo(h, "queued", None, Tail(storeQueue), FALSE)
            /\ keyTail' = Append(keyTail, h)
            /\ UNCHANGED answers
         \/ /\ ~expired /\ ~exact
            /\ GoTo(h, "prepare", None, Tail(storeQueue), TRUE)
            /\ UNCHANGED <<keyTail, answers>>
  /\ UNCHANGED <<disk, volatile, lockTail, ipfs, builds, failures, crashes>>

(* Variants for mutation: the record of another request is taken over; it  *)
(* is used as if it were the same request.                                 *)
PrepareOver(h) ==
  /\ task[h].at = "prepare" /\ Served(h)
  /\ storeQueue' = Tail(storeQueue)
  /\ disk' = [disk EXCEPT ![KeyOf(h)] = [request |-> task[h].request, artifact |-> None,
                                          cid |-> None, pinned |-> FALSE]]
  /\ task' = [task EXCEPT ![h].at = "queued", ![h].created = TRUE]
  /\ keyTail' = Append(keyTail, h)
  /\ UNCHANGED <<volatile, lockTail, ipfs, builds, answers, failures, crashes>>
PrepareByKey(h) ==
  /\ task[h].at = "prepare" /\ Served(h)
  /\ storeQueue' = Tail(storeQueue)
  /\ disk' = IF disk[KeyOf(h)] # None THEN disk
             ELSE [disk EXCEPT ![KeyOf(h)] = [request |-> task[h].request, artifact |-> None,
                                              cid |-> None, pinned |-> FALSE]]
  /\ task' = [task EXCEPT ![h].at = "queued", ![h].created = disk[KeyOf(h)] = None]
  /\ keyTail' = Append(keyTail, h)
  /\ UNCHANGED <<volatile, lockTail, ipfs, builds, answers, failures, crashes>>

(* store.prepareRecord: the first signed contents own the key.             *)
Prepare(h) ==
  /\ task[h].at = "prepare" /\ Served(h)
  /\ storeQueue' = Tail(storeQueue)
  /\ LET q == task[h].request
         stored == disk[KeyOf(h)]
     IN  \/ /\ stored = None
            /\ disk' = [disk EXCEPT ![KeyOf(h)] =
                          [request |-> q, artifact |-> None, cid |-> None, pinned |-> FALSE]]
            /\ task' = [task EXCEPT ![h].at = "queued", ![h].created = TRUE]
            /\ keyTail' = Append(keyTail, h)
            /\ UNCHANGED answers
         \/ /\ stored # None /\ stored.request = q
            /\ task' = [task EXCEPT ![h].at = "queued"]
            /\ keyTail' = Append(keyTail, h)
            /\ UNCHANGED <<disk, answers>>
         \/ /\ stored # None /\ stored.request # q
            /\ Answered(h, "conflict", stored.cid)
            /\ UNCHANGED <<disk, keyTail>>
  /\ UNCHANGED <<volatile, lockTail, ipfs, builds, failures, crashes>>

(* The handler's turn in the chain of its key, then of its lock key: each  *)
(* time the record is loaded again.                                        *)
TakeKeyTurn(h) ==
  /\ task[h].at = "queued" /\ KeyTurn(h)
  /\ GoTo(h, "load", None, storeQueue, TRUE)
  /\ UNCHANGED <<disk, volatile, keyTail, lockTail, ipfs, builds, answers, failures, crashes>>

(* volatilePublicationStates.delete of a state that fits another request.  *)
Discarded(k, r) ==
  [volatile EXCEPT ![k] = IF r.cid = None /\ @ # None /\ @.request # r.request
                          THEN None ELSE @]

Load(h) ==
  /\ task[h].at = "load" /\ Served(h)
  /\ LET r == disk[KeyOf(h)]
     IN  \/ /\ StreamOf(h) # NoStream
            /\ GoTo(h, "blocked", None, Tail(storeQueue), FALSE)
            /\ lockTail' = Append(lockTail, h)
            /\ UNCHANGED <<volatile, keyTail, answers>>
         \/ /\ StreamOf(h) = NoStream
            /\ Proceed(h, r, Tail(storeQueue))
            /\ volatile' = Discarded(KeyOf(h), r)
  /\ UNCHANGED <<disk, ipfs, builds, failures, crashes>>

TakeLockTurn(h) ==
  /\ task[h].at = "blocked" /\ LockTurn(h)
  /\ GoTo(h, "reload", None, storeQueue, TRUE)
  /\ UNCHANGED <<disk, volatile, keyTail, lockTail, ipfs, builds, answers, failures, crashes>>

Reload(h) ==
  /\ task[h].at = "reload" /\ Served(h)
  /\ LET r == disk[KeyOf(h)]
     IN  /\ Proceed(h, r, Tail(storeQueue))
         /\ volatile' = Discarded(KeyOf(h), r)
  /\ UNCHANGED <<disk, ipfs, builds, failures, crashes>>
-----------------------------------------------------------------------------
(* publishRecord.                                                          *)

(* validatePublishedMessage of the staked-settlement module: the snapshots *)
(* of a stream that carry a CID are numbered without gap or repetition.    *)
Published(s) == {r \in Range(disk) : r # None /\ r.cid # None /\ r.request.stream = s}
Numbers(s) == {r.request.sequence : r \in Published(s)}
Follows(q) ==
  /\ Cardinality(Numbers(q.stream)) = Cardinality(Published(q.stream))
  /\ q.sequence = 1 + (IF Numbers(q.stream) = {} THEN 0 ELSE Max(Numbers(q.stream)))

Validate(h) ==
  /\ task[h].at = "validate" /\ Served(h)
  /\ \/ /\ Follows(task[h].request)
        /\ GoTo(h, "attest", task[h].record, Tail(storeQueue), FALSE)
        /\ Stay
     \/ /\ ~Follows(task[h].request)
        /\ Throw(h, None, Tail(storeQueue))
  /\ UNCHANGED <<disk, volatile, ipfs, builds, answers, failures, crashes>>

(* The rules are read on chain, the attestation is signed, the artifact is *)
(* built and handed to store.saveRecord; or one of the calls fails.        *)
Attest(h) ==
  /\ task[h].at = "attest"
  /\ \/ /\ GoTo(h, "saveArtifact",
                [task[h].record EXCEPT
                   !.artifact = [request |-> task[h].request, stamp |-> builds + 1]],
                storeQueue, TRUE)
        /\ builds' = builds + 1
        /\ Stay /\ NoFailure
     \/ /\ Fails
        /\ Throw(h, None, storeQueue)
        /\ UNCHANGED builds
  /\ UNCHANGED <<disk, volatile, ipfs, answers, crashes>>

SaveArtifact(h) ==
  /\ task[h].at = "saveArtifact" /\ Served(h)
  /\ \/ /\ disk' = [disk EXCEPT ![KeyOf(h)] = task[h].record]
        /\ Proceed(h, task[h].record, Tail(storeQueue))
        /\ NoFailure
     \/ /\ Fails
        /\ Throw(h, None, Tail(storeQueue))
        /\ UNCHANGED <<disk, answers>>
  /\ UNCHANGED <<volatile, ipfs, builds, crashes>>

(* publishIpfsContent answers, or fails; a lost response leaves the        *)
(* content in IPFS all the same.                                           *)
AddToIpfs(h) ==
  /\ task[h].at = "add"
  /\ LET a == task[h].record.artifact
     IN  \/ /\ ipfs' = ipfs \cup {a}
            /\ volatile' = [volatile EXCEPT ![KeyOf(h)] = a]
            /\ task' = [task EXCEPT ![h].at = "persist", ![h].attempt = 1,
                                    ![h].record = Persisting(@, a)]
            /\ storeQueue' = Append(storeQueue, h)
            /\ Stay /\ NoFailure
         \/ /\ Fails
            /\ ipfs' \in {ipfs, ipfs \cup {a}}
            /\ Throw(h, None, storeQueue)
            /\ UNCHANGED volatile
  /\ UNCHANGED <<disk, builds, answers, crashes>>

(* Variant for mutation: one attempt more.                                 *)
LastAttemptLate(n) == n = 3

(* persistPublishedRecord: two attempts, then PublicationPersistenceError. *)
LastAttempt(n) == n = 2
Persist(h) ==
  /\ task[h].at = "persist" /\ Served(h)
  /\ LET k == KeyOf(h)
         r == task[h].record
     IN  \/ /\ disk' = [disk EXCEPT ![k] = r]
            /\ volatile' = [volatile EXCEPT ![k] = None]
            /\ Proceed(h, r, Tail(storeQueue))
            /\ NoFailure
         \/ /\ Fails /\ ~LastAttempt(task[h].attempt)
            /\ task' = [task EXCEPT ![h].attempt = @ + 1]
            /\ storeQueue' = Append(Tail(storeQueue), h)
            /\ Stay /\ UNCHANGED <<disk, volatile, answers>>
         \/ /\ Fails /\ LastAttempt(task[h].attempt)
            /\ Throw(h, r.cid, Tail(storeQueue))
            /\ UNCHANGED <<disk, volatile, answers>>
  /\ UNCHANGED <<ipfs, builds, crashes>>

Pin(h) ==
  /\ task[h].at = "pin"
  /\ \/ /\ GoTo(h, "savePinned", [task[h].record EXCEPT !.pinned = TRUE], storeQueue, TRUE)
        /\ Stay /\ NoFailure
     \/ /\ Fails
        /\ Throw(h, None, storeQueue)
  /\ UNCHANGED <<disk, volatile, ipfs, builds, answers, crashes>>

SavePinned(h) ==
  /\ task[h].at = "savePinned" /\ Served(h)
  /\ \/ /\ disk' = [disk EXCEPT ![KeyOf(h)] = task[h].record]
        /\ Proceed(h, task[h].record, Tail(storeQueue))
        /\ NoFailure
     \/ /\ Fails
        /\ Throw(h, None, Tail(storeQueue))
        /\ UNCHANGED <<disk, answers>>
  /\ UNCHANGED <<volatile, ipfs, builds, crashes>>
-----------------------------------------------------------------------------
(* The catch block, which runs outside the promise chains: it loads the    *)
(* record, merges what could not be persisted and saves the whole record.  *)
Catch(h) ==
  /\ task[h].at = "failing"
  /\ GoTo(h, "reread", None, storeQueue, TRUE)
  /\ UNCHANGED <<disk, volatile, keyTail, lockTail, ipfs, builds, answers, failures, crashes>>

Reread(h) ==
  /\ task[h].at = "reread" /\ Served(h)
  /\ LET r == disk[KeyOf(h)]
         p == task[h].partial
     IN  GoTo(h, "saveError", IF p = None THEN r ELSE Persisting(r, p), Tail(storeQueue), TRUE)
  /\ UNCHANGED <<disk, volatile, keyTail, lockTail, ipfs, builds, answers, failures, crashes>>

SaveError(h) ==
  /\ task[h].at = "saveError" /\ Served(h)
  /\ storeQueue' = Tail(storeQueue)
  /\ Answered(h, "failed", task[h].record.cid)
  /\ \/ /\ disk' = [disk EXCEPT ![KeyOf(h)] = task[h].record]
        /\ volatile' = IF task[h].partial = None THEN volatile
                       ELSE [volatile EXCEPT ![KeyOf(h)] = None]
        /\ NoFailure
     \/ Fails /\ UNCHANGED <<disk, volatile>>
  /\ UNCHANGED <<keyTail, lockTail, ipfs, builds, crashes>>

(* The node stops and starts again: only the state file survives.          *)
Crash ==
  /\ crashes < MaxCrashes
  /\ crashes' = crashes + 1
  /\ task' = [h \in Handlers |-> IF task[h].at = "idle" THEN Idle ELSE Finished]
  /\ volatile' = [k \in Keys |-> None]
  /\ storeQueue' = <<>> /\ keyTail' = <<>> /\ lockTail' = <<>>
  /\ UNCHANGED <<disk, ipfs, builds, answers, failures>>

-----------------------------------------------------------------------------
Init ==
  /\ workload \in Workloads
  /\ disk = [k \in Keys |-> None]
  /\ volatile = [k \in Keys |-> None]
  /\ task = [h \in Handlers |-> Idle]
  /\ storeQueue = <<>> /\ keyTail = <<>> /\ lockTail = <<>>
  /\ ipfs = {} /\ builds = 0 /\ answers = {}
  /\ failures = 0 /\ crashes = 0

Microtask(h) == TakeKeyTurn(h) \/ TakeLockTurn(h) \/ Catch(h)
Callback(h) ==
  \/ \E expired \in BOOLEAN : Lookup(h, expired)
  \/ Prepare(h) \/ Load(h) \/ Reload(h)
  \/ Validate(h) \/ Attest(h) \/ SaveArtifact(h) \/ AddToIpfs(h) \/ Persist(h)
  \/ Pin(h) \/ SavePinned(h) \/ Reread(h) \/ SaveError(h)

(* What the event loop owes a handler that has been received.              *)
HandlerStep(h) == Microtask(h) \/ (Drained /\ Callback(h))

Next ==
  /\ UNCHANGED workload
  /\ \/ \E h \in Handlers : HandlerStep(h)
     \/ \E h \in Handlers, q \in workload : Drained /\ Receive(h, q)
     \/ Crash

Spec == Init /\ [][Next]_vars
FairSpec == Spec /\ \A h \in Handlers : WF_vars(HandlerStep(h) /\ UNCHANGED workload)

-----------------------------------------------------------------------------
TypeOK ==
  /\ workload \in Workloads
  /\ disk \in [Keys -> Record \cup {None}]
  /\ volatile \in [Keys -> ArtifactOrNone]
  /\ task \in [Handlers -> Task]
  /\ storeQueue \in Seq(Handlers) /\ keyTail \in Seq(Handlers) /\ lockTail \in Seq(Handlers)
  /\ ipfs \subseteq Artifact /\ builds \in {0} \cup Stamps
  /\ failures \in Nat /\ crashes \in Nat

Successes == {a \in answers : a.status \in {"published", "duplicate"}}

(* agent/README.md:314 "identical retry ...: 200 with status duplicate and *)
(* the original CID": the CID of a successful answer is from then on the   *)
(* one on disk, with its artifact, whatever fails, crashes or is retried,  *)
(* although catch blocks write whole records outside the promise chains.   *)
AnsweredCidIsDurable ==
  \A a \in Successes :
    LET r == disk[a.request.key]
    IN  r # None /\ r.request = a.request /\ r.cid = a.cid /\ r.artifact = a.cid

(* agent/README.md:317 "if IPFS add succeeds but local CID persistence     *)
(* fails, an exact retry reuses the first CID": every response that names  *)
(* a CID for a request, publish_persist_failed included, names the same.   *)
OneCidPerRequest ==
  \A a, b \in answers :
    a.request = b.request /\ a.cid # None /\ b.cid # None => a.cid = b.cid

(* The same as long as the node has not been restarted, whatever fails and *)
(* however retries interleave with the catch block of an earlier attempt:  *)
(* the volatile state (message-publication-api.js:242) fills the gap       *)
(* between IPFS and the state file.                                        *)
OneCidUntilCrash == crashes = 0 => OneCidPerRequest

(* The published snapshots of a stream have distinct sequence numbers: the *)
(* validator accepts none before the previous one carries a CID, and       *)
(* rejects everything for the stream once two have the same number.  Not   *)
(* after a failure: a record with an artifact is not validated again.      *)
SequenceNumbersUnique ==
  \A s \in Streams : Cardinality(Numbers(s)) = Cardinality(Published(s))

(* The same as long as every call succeeds: two handlers that validate     *)
(* against the same stored snapshots are kept apart by the lock key.       *)
SequenceUniqueUntilFailure == failures = 0 /\ crashes = 0 => SequenceNumbersUnique

(* Every request is answered, or its node stopped.                         *)
EveryRequestAnswered ==
  \A h \in Handlers : task[h].at # "idle" ~> task[h].at = "done"

-----------------------------------------------------------------------------
(* What the node promises, as an abstract ledger: owner is the request the *)
(* store holds for a key, announced the CIDs of its successful answers.    *)
Ledger == INSTANCE PublicationLedger WITH
  Artifacts <- Artifact,
  owner <- [k \in Keys |-> IF disk[k] = None THEN None ELSE disk[k].request],
  announced <- [k \in Keys |-> {a.cid : a \in {x \in Successes : x.request.key = k}}]

(* The node implements the ledger.                                         *)
LedgerSpec == Ledger!Spec
=============================================================================
