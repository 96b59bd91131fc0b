---------------------- MODULE MessagePublicationProofs ----------------------
(***************************************************************************)
(* What the publication node guarantees for every number of handlers,      *)
(* every set of keys and requests, and every number of failures and        *)
(* crashes.                                                                *)
(***************************************************************************)
EXTENDS MessagePublication, SharedLemmas, FiniteSetTheorems

(* Places of a handler: waiting for the store; in the chain of its key;    *)
(* first in it, its record loaded at least once; working on a record; in   *)
(* its catch block; after its one chance to build an artifact.             *)
StorePlaces == {"lookup", "prepare", "load", "reload", "validate", "saveArtifact",
                "persist", "savePinned", "reread", "saveError"}
Working == {"blocked", "reload", "validate", "attest", "saveArtifact", "add", "persist",
            "pin", "savePinned"}
Holding == Working \cup {"load"}
KeyPlaces == Holding \cup {"queued"}
Catching == {"failing", "reread", "saveError"}
RecordPlaces == {"validate", "attest", "saveArtifact", "add", "persist", "pin", "savePinned",
                 "saveError"}
Past == {h \in Handlers :
           task[h].at \in {"saveArtifact", "add", "persist", "pin", "savePinned", "failing",
                           "reread", "saveError", "done"}}

(* The chains hold those who wait in them, each once, and the first for a  *)
(* key or a stream holds it.                                               *)
Locked(h) == task[h].at \in Working /\ StreamOf(h) # NoStream
Chains ==
  /\ Chain(storeQueue, Handlers) /\ Chain(keyTail, Handlers) /\ Chain(lockTail, Handlers)
  /\ builds <= Cardinality(Past)
  /\ \A h \in Handlers :
       /\ task[h].at \notin {"idle", "done"} => task[h].request \in Requests
       /\ h \in Range(storeQueue) <=> task[h].at \in StorePlaces
       /\ h \in Range(keyTail) <=> task[h].at \in KeyPlaces
       /\ h \in Range(lockTail) <=> Locked(h)
       /\ task[h].at \in Holding =>
            \A g \in Handlers : Ahead(keyTail, g, h) => KeyOf(g) # KeyOf(h)
       /\ Locked(h) /\ task[h].at # "blocked" =>
            \A g \in Handlers : Ahead(lockTail, g, h) => StreamOf(g) # StreamOf(h)

(* A record: its artifact is of its request, its CID that of its artifact. *)
Sound(r) ==
  /\ r.artifact # None => r.artifact.request = r.request
  /\ r.cid # None => r.artifact = r.cid
  /\ r.pinned => r.cid # None
RecordOf(t) ==
  LET r == t.record
  IN  /\ r # None <=> t.at \in RecordPlaces
      /\ r # None => r.request = t.request /\ Sound(r)
      /\ t.at \in {"validate", "attest"} => r.artifact = None
      /\ t.at \in {"saveArtifact", "add"} => r.artifact # None /\ r.cid = None
      /\ t.at \in {"persist", "pin"} => r.cid # None /\ ~r.pinned
      /\ t.at = "savePinned" => r.cid # None /\ r.pinned
      /\ t.at = "persist" => t.attempt # 0
      /\ t.partial # None => t.at \in Catching /\ t.partial.request = t.request
      /\ t.at = "saveError" /\ t.partial # None => r.cid = t.partial
RecordAt(h) == RecordOf(task[h])
Records ==
  /\ \A k \in Keys : disk[k] # None => disk[k].request.key = k /\ Sound(disk[k])
  /\ \A k \in Keys :
       volatile[k] # None => disk[k] # None /\ volatile[k].request = disk[k].request
  /\ \A h \in Handlers :
       /\ task[h].at \in KeyPlaces \cup Catching =>
            disk[KeyOf(h)] # None /\ disk[KeyOf(h)].request = task[h].request
       /\ RecordAt(h)
  /\ \A a \in answers : a.request \in Requests /\ a.cid \in ArtifactOrNone

Shape == TypeOK /\ Chains /\ Records

(* The handlers for a key, by their places.                                *)
Is(k, h, places) == task[h].at \in places /\ KeyOf(h) = k
Free(k, places) == \A h \in Handlers : ~Is(k, h, places)
Precedes(g, h) == Ahead(storeQueue, g, h)
CidOf(k) == IF disk[k] = None THEN None ELSE disk[k].cid

(* Catch blocks for a key.  Once a handler works on the key, those of its  *)
(* predecessors have been started, and they read the record before         *)
(* anything that the handler has yet to do in the store; with its second   *)
(* attempt to persist the handler is behind all they do.                   *)
Catches(k) ==
  \A h \in Handlers : Is(k, h, Working) =>
    /\ Free(k, {"failing"})
    /\ task[h].at \in StorePlaces =>
         \A g \in Handlers : Is(k, g, {"reread"}) => Precedes(g, h)
    /\ task[h].at = "persist" /\ task[h].attempt = 2 =>
         /\ Free(k, {"reread"})
         /\ \A g \in Handlers : Is(k, g, {"saveError"}) => Precedes(g, h)

(* What catch blocks write, they write before anybody reads.               *)
SavedBeforeRead(k) ==
  \A g, h \in Handlers :
    Is(k, g, {"saveError"}) /\ Is(k, h, {"load", "reread"}) => Precedes(g, h)

(* A key without a CID, anywhere.  What catch blocks are about to write is *)
(* what is on disk, or it is written before anybody reads.                 *)
Unnamed(k) ==
  /\ volatile[k] = None /\ CidOf(k) = None
  /\ Free(k, {"persist", "pin", "savePinned"})
  /\ \A h \in Handlers : Is(k, h, Catching) => task[h].partial = None
  /\ \A h \in Handlers : Is(k, h, {"saveError"}) => task[h].record.cid = None
  /\ \/ \A g \in Handlers :
          Is(k, g, {"saveError"}) => task[g].record.artifact = disk[k].artifact
     \/ SavedBeforeRead(k)
  /\ \A h \in Handlers : Is(k, h, {"add"}) =>
       \/ Free(k, {"reread"})
       \/ /\ disk[k].artifact = task[h].record.artifact
          /\ \A g \in Handlers :
               Is(k, g, {"saveError"}) => task[g].record.artifact = disk[k].artifact

(* The artifact a has a CID, which catch blocks of earlier failures may    *)
(* still overwrite: with a record that lacks it, or even lacks a, as long  *)
(* as the handler that has to persist it comes after them.                 *)
Lossy(k, a, g) == Is(k, g, {"saveError"}) /\ task[g].record.artifact # a
Contested(k, a) ==
  /\ volatile[k] \in {None, a} /\ CidOf(k) \in {None, a}
  /\ disk[k] # None /\ ~disk[k].pinned /\ (volatile[k] = a \/ disk[k].artifact = a)
  /\ Free(k, {"validate", "attest", "saveArtifact"})
  /\ \A h \in Handlers :
       Is(k, h, {"add", "persist", "pin", "savePinned"}) => task[h].record.artifact = a
  /\ \A h \in Handlers : Is(k, h, Catching) => task[h].partial = None
  /\ \A h \in Handlers : Is(k, h, {"saveError"}) => task[h].record.cid = None
  /\ CidOf(k) = a => SavedBeforeRead(k)
  /\ \A g \in Handlers : Lossy(k, a, g) =>
       \E h \in Handlers : Is(k, h, {"persist"}) /\ Precedes(g, h)
  /\ \A h \in Handlers : Is(k, h, {"reread", "failing", "add", "pin", "savePinned"}) =>
       disk[k].artifact = a /\ \A g \in Handlers : ~Lossy(k, a, g)
  /\ \A h \in Handlers : Is(k, h, {"add"}) => CidOf(k) = None
  /\ \A h \in Handlers : Is(k, h, {"persist"}) => volatile[k] = a
  /\ \A h \in Handlers : Is(k, h, {"pin", "savePinned"}) =>
       (CidOf(k) = a /\ Free(k, {"saveError"})) \/ Free(k, {"reread", "failing"})
  /\ \A g, h \in Handlers :
       Is(k, g, {"saveError"}) /\ Is(k, h, {"savePinned"}) => Precedes(g, h)

(* Nothing forgets the CID of a any more.                                  *)
Named(k, a) ==
  /\ volatile[k] \in {None, a} /\ CidOf(k) \in {None, a}
  /\ disk[k] # None /\ (volatile[k] = a \/ CidOf(k) = a)
  /\ Free(k, {"validate", "attest", "saveArtifact", "add"})
  /\ \A h \in Handlers :
       Is(k, h, {"persist", "pin", "savePinned", "saveError"}) => task[h].record.cid = a
  /\ \A h \in Handlers : Is(k, h, Catching) => task[h].partial \in {None, a}
  /\ \A h \in Handlers : Is(k, h, {"pin", "savePinned"}) => CidOf(k) = a
  /\ \A h \in Handlers :
       Is(k, h, {"reread", "failing"}) => task[h].partial = a \/ CidOf(k) = a

(* The phases of a key, with the CIDs its answers have named so far.       *)
Answers(k, cids) == crashes = 0 => \A x \in answers : x.request.key = k => x.cid \in cids
Phase(k) ==
  \/ Unnamed(k) /\ Answers(k, {None})
  \/ \E a \in Artifact : (Contested(k, a) \/ Named(k, a)) /\ Answers(k, {None, a})
Phases == \A k \in Keys : Catches(k) /\ Phase(k)

(* Successful answers name the CID that will not be forgotten.             *)
Settled ==
  \A x \in Successes :
    LET k == x.request.key
    IN  /\ x.cid # None /\ Named(k, x.cid) /\ CidOf(k) = x.cid
        /\ disk[k].request = x.request

(* While nothing has failed: a key has an artifact without a CID only as   *)
(* long as its handler is about to add it, and catch blocks, which follow  *)
(* a rejected message, have nothing to lose.                               *)
Calm == failures = 0 /\ crashes = 0
Unfinished(k) == disk[k] # None /\ disk[k].artifact # None /\ disk[k].cid = None
Orderly(k) ==
  /\ volatile[k] # None \/ Unfinished(k) =>
       \E h \in Handlers : Is(k, h, {"persist"}) \/ (Is(k, h, {"add"}) /\ volatile[k] = None)
  /\ \A h \in Handlers : Is(k, h, Catching) => task[h].partial = None
  /\ \A h \in Handlers :
       Is(k, h, {"validate", "attest", "saveArtifact", "failing", "reread"}) =>
         disk[k].artifact = None
  /\ \A h \in Handlers : Is(k, h, {"saveError"}) => task[h].record.artifact = None

(* The number that a handler has checked stays free in its stream, whose   *)
(* published snapshots are numbered differently.                           *)
Checked == {"attest", "saveArtifact", "add", "persist", "pin", "savePinned"}
PublishedIn(k, s) == disk[k] # None /\ disk[k].cid # None /\ disk[k].request.stream = s
NumberFree ==
  \A h \in Handlers, j \in Keys :
    /\ task[h].at \in Checked /\ StreamOf(h) \in Streams
    /\ j # KeyOf(h) /\ PublishedIn(j, StreamOf(h))
    => disk[j].request.sequence # task[h].request.sequence
NumbersDiffer ==
  \A j, k \in Keys, s \in Streams :
    j # k /\ PublishedIn(j, s) /\ PublishedIn(k, s) =>
      disk[j].request.sequence # disk[k].request.sequence
CalmKeys == Calm => (\A k \in Keys : Orderly(k)) /\ NumberFree /\ NumbersDiffer

-----------------------------------------------------------------------------
(* What a handler's step does: h becomes t, d and v are what disk and      *)
(* volatile state hold for its key afterwards.                             *)
Others(h) == \A g \in Handlers \ {h} : task'[g] = task[g]
Rest(h) == IF task[h].at \in StorePlaces THEN Tail(storeQueue) ELSE storeQueue
InStore(h, t) ==
  /\ task[h].at \in StorePlaces => Served(h)
  /\ storeQueue' = IF t.at \in StorePlaces THEN Append(Rest(h), h) ELSE Rest(h)
InKeyTail(h, t) ==
  \/ task[h].at \notin KeyPlaces /\ t.at = "queued" /\ keyTail' = Append(keyTail, h)
  \/ /\ task[h].at \in KeyPlaces /\ t.at \in KeyPlaces /\ keyTail' = keyTail
     /\ t.at \in Holding => task[h].at \in Holding \/ KeyTurn(h)
  \/ task[h].at \notin KeyPlaces /\ t.at \notin KeyPlaces /\ keyTail' = keyTail
  \/ t.at \notin KeyPlaces /\ keyTail' = RemoveFirst(keyTail, h)
InLockTail(h, t) ==
  \/ /\ task[h].at \notin Working /\ t.at = "blocked" /\ StreamOf(h) # NoStream
     /\ lockTail' = Append(lockTail, h)
  \/ /\ task[h].at \in Working /\ t.at \in Working /\ lockTail' = lockTail
     /\ task[h].at = "blocked" => LockTurn(h)
     /\ t.at # "blocked"
  \/ /\ task[h].at \notin Working /\ lockTail' = lockTail
     /\ t.at \notin Working \/ StreamOf(h) = NoStream
  \/ t.at \notin Working /\ lockTail' = RemoveFirst(lockTail, h)
InChains(h, t) == InStore(h, t) /\ InKeyTail(h, t) /\ InLockTail(h, t)

Went(h, t, p, r) ==
  /\ t.at = p /\ t.request = task[h].request /\ t.record = r /\ t.partial = task[h].partial
Threw(h, t, c) ==
  /\ t.at = "failing" /\ t.request = task[h].request /\ t.record = None /\ t.partial = c
Silent == UNCHANGED answers
Says(h, status, cid) == answers' = answers \cup {Reply(task[h].request, status, cid)}
Refusals == {"conflict", "expired", "failed"}

(* performPublish goes on with record r.                                   *)
Resumes(h, t, r) ==
  \/ /\ r.cid # None /\ r.pinned /\ t = Finished
     /\ \E status \in {"published", "duplicate"} : Says(h, status, r.cid)
  \/ /\ r.cid = None /\ volatile[KeyOf(h)] # None /\ Silent
     /\ Went(h, t, "persist", Persisting(r, volatile[KeyOf(h)])) /\ t.attempt = 1
  \/ /\ r.cid = None /\ volatile[KeyOf(h)] = None /\ r.artifact = None /\ Silent
     /\ IF StreamOf(h) = NoStream THEN Went(h, t, "attest", r) ELSE Went(h, t, "validate", r)
  \/ /\ r.cid = None /\ volatile[KeyOf(h)] = None /\ r.artifact # None /\ Silent
     /\ Went(h, t, "add", r)
  \/ r.cid # None /\ ~r.pinned /\ Went(h, t, "pin", r) /\ Silent

Fell == failures' = failures + 1
Fresh(q) == [request |-> q, artifact |-> None, cid |-> None, pinned |-> FALSE]

(* The steps before a handler holds its key.                               *)
Early(h, t, d, v) ==
  LET at == task[h].at
      D == disk[KeyOf(h)]
  IN  /\ v = volatile[KeyOf(h)]
      /\ \/ /\ at \in {"lookup", "prepare"} /\ t = Finished /\ d = D
            /\ \E status \in Refusals : Says(h, status, CidOf(KeyOf(h)))
         \/ at = "lookup" /\ Went(h, t, "prepare", None) /\ d = D /\ Silent
         \/ /\ at \in {"lookup", "prepare"} /\ Went(h, t, "queued", None) /\ Silent
            /\ \/ D # None /\ D.request = task[h].request /\ d = D
               \/ D = None /\ d = Fresh(task[h].request)
         \/ at = "queued" /\ Went(h, t, "load", None) /\ d = D /\ Silent

(* Those of the handler that holds its key.                                *)
Held(h, t, d, v) ==
  LET at == task[h].at
      r == task[h].record
      D == disk[KeyOf(h)]
      V == volatile[KeyOf(h)]
  IN  \/ at = "load" /\ Went(h, t, "blocked", None) /\ d = D /\ v = V /\ Silent
      \/ at = "blocked" /\ Went(h, t, "reload", None) /\ d = D /\ v = V /\ Silent
      \/ at = "load" /\ StreamOf(h) = NoStream /\ Resumes(h, t, D) /\ d = D /\ v = V
      \/ at = "reload" /\ Resumes(h, t, D) /\ d = D /\ v = V
      \/ /\ at = "validate" /\ Went(h, t, "attest", r) /\ Follows(task[h].request)
         /\ d = D /\ v = V /\ Silent
      \/ /\ at = "attest"
         /\ Went(h, t, "saveArtifact",
                 [r EXCEPT !.artifact = [request |-> task[h].request, stamp |-> builds + 1]])
         /\ d = D /\ v = V /\ Silent
      \/ at = "saveArtifact" /\ d = r /\ v = V /\ Resumes(h, t, r)
      \/ /\ at = "add" /\ Went(h, t, "persist", Persisting(r, r.artifact)) /\ t.attempt = 1
         /\ d = D /\ v = r.artifact /\ Silent
      \/ at = "persist" /\ d = r /\ v = None /\ Went(h, t, "pin", r) /\ Silent
      \/ /\ at = "persist" /\ Went(h, t, "persist", r) /\ task[h].attempt = 1 /\ t.attempt = 2
         /\ d = D /\ v = V /\ Silent /\ Fell
      \/ /\ at = "persist" /\ Threw(h, t, r.cid) /\ task[h].attempt = 2
         /\ d = D /\ v = V /\ Silent /\ Fell
      \/ /\ at = "pin" /\ Went(h, t, "savePinned", [r EXCEPT !.pinned = TRUE])
         /\ d = D /\ v = V /\ Silent
      \/ at = "savePinned" /\ d = r /\ v = V /\ Resumes(h, t, r)
      \/ /\ at \in {"validate", "attest", "saveArtifact", "add", "pin", "savePinned"}
         /\ Threw(h, t, None) /\ d = D /\ v = V /\ Silent
         /\ at # "validate" => Fell

(* Those of its catch block.                                               *)
Caught(h, t, d, v) ==
  LET at == task[h].at
      r == task[h].record
      p == task[h].partial
      D == disk[KeyOf(h)]
      V == volatile[KeyOf(h)]
  IN  \/ at = "failing" /\ Went(h, t, "reread", None) /\ d = D /\ v = V /\ Silent
      \/ /\ at = "reread"
         /\ Went(h, t, "saveError", IF p = None THEN D ELSE Persisting(D, p))
         /\ d = D /\ v = V /\ Silent
      \/ /\ at = "saveError" /\ t = Finished /\ Says(h, "failed", r.cid)
         /\ \/ d = r /\ v = IF p = None THEN V ELSE None
            \/ d = D /\ v = V

Sets(h, t, d, v) ==
  /\ task' = [task EXCEPT ![h] = t]
  /\ disk' = [disk EXCEPT ![KeyOf(h)] = d]
  /\ volatile' = [volatile EXCEPT ![KeyOf(h)] = v]
Step(h, t, d, v) ==
  /\ t \in Task /\ d \in Record \cup {None} /\ v \in ArtifactOrNone
  /\ Sets(h, t, d, v) /\ InChains(h, t)
  /\ task[h].at \notin {"queued", "blocked", "failing"} => Drained
  /\ failures' \in Nat /\ failures' \in {failures, failures + 1}
  /\ ipfs' \subseteq Artifact
  /\ builds' = IF task[h].at = "attest" /\ t.at = "saveArtifact" THEN builds + 1 ELSE builds
  /\ UNCHANGED <<workload, crashes>>
  /\ Early(h, t, d, v) \/ Held(h, t, d, v) \/ Caught(h, t, d, v)

(* A finished handler.                                                     *)
LEMMA FinishedType ==
  /\ Idle \in Task /\ Finished \in Task
  /\ Idle.at = "idle" /\ Idle.request = None /\ Idle.record = None /\ Idle.partial = None
  /\ Finished.at = "done" /\ Finished.request = None /\ Finished.record = None
  /\ Finished.partial = None
<1>1. Idle \in Task
  BY DEF Idle, Task, Places, ArtifactOrNone
<1>2. Finished \in Task
  BY <1>1 DEF Finished, Task, Places
<1>3. Idle.at = "idle" /\ Idle.request = None /\ Idle.record = None /\ Idle.partial = None
  BY DEF Idle
<1> HIDE DEF Idle
<1> QED BY <1>1, <1>2, <1>3 DEF Finished, Task

(* What a handler that has been received works for.                        *)
LEMMA Received ==
  ASSUME Shape, NEW h \in Handlers, task[h].at \notin {"idle", "done"}
  PROVE  /\ task[h] \in Task /\ task[h].request \in Requests /\ KeyOf(h) \in Keys
         /\ StreamOf(h) \in Streams \cup {NoStream} /\ task[h].request # None
         /\ disk[KeyOf(h)] \in Record \cup {None} /\ volatile[KeyOf(h)] \in ArtifactOrNone
         /\ task[h].record \in Record \cup {None} /\ task[h].partial \in ArtifactOrNone
<1>1. task[h] \in Task /\ task[h].request \in Requests
  BY DEF Shape, TypeOK, Chains
<1>2. task[h].request \in Request
  BY <1>1, PublicationAssumption
<1>3. task[h].request.key \in Keys /\ task[h].request.stream \in Streams \cup {NoStream}
  BY <1>2 DEF Request
<1> QED BY <1>1, <1>3, NoneAssumption DEF Shape, TypeOK, KeyOf, StreamOf, Task

(* The ways in which a handler's task is replaced.                         *)
LEMMA Going ==
  ASSUME TypeOK, NEW h \in Handlers, NEW p \in Places, NEW r \in Record \cup {None}, NEW queue,
         \/ p \in StorePlaces /\ GoTo(h, p, r, queue, TRUE)
         \/ p \notin StorePlaces /\ GoTo(h, p, r, queue, FALSE)
  PROVE  \E t \in Task :
           /\ Went(h, t, p, r) /\ task' = [task EXCEPT ![h] = t]
           /\ storeQueue' = IF p \in StorePlaces THEN Append(queue, h) ELSE queue
<1> DEFINE t == [task[h] EXCEPT !.at = p, !.record = r]
<1>1. t \in Task /\ t.at = p /\ t.request = task[h].request /\ t.record = r
      /\ t.partial = task[h].partial
  BY DEF TypeOK, Task
<1>2. task' = [task EXCEPT ![h] = t]
  BY DEF GoTo, TypeOK
<1> HIDE DEF t
<1> QED BY <1>1, <1>2 DEF Went, GoTo

(* An operation that throws: the handler goes to its catch block.          *)
LEMMA Throwing ==
  ASSUME TypeOK, NEW h \in Handlers, NEW c \in ArtifactOrNone, NEW queue, Throw(h, c, queue)
  PROVE  \E t \in Task :
           /\ Threw(h, t, c) /\ task' = [task EXCEPT ![h] = t] /\ storeQueue' = queue
<1> DEFINE t == [task[h] EXCEPT !.at = "failing", !.record = None, !.attempt = 0,
                                !.partial = c]
<1> task[h] \in Task
  BY DEF TypeOK
<1>1. t \in Task /\ t.at = "failing" /\ t.request = task[h].request /\ t.record = None
      /\ t.partial = c
  <2> DEFINE u == [task[h] EXCEPT !.at = "failing", !.record = None]
  <2>1. u \in Task /\ u.at = "failing" /\ u.record = None /\ u.request = task[h].request
    BY DEF Task, Places
  <2>2. t = [u EXCEPT !.attempt = 0, !.partial = c]
    BY DEF Task
  <2>3. 0 \in 0..2
    OBVIOUS
  <2> HIDE DEF u, t
  <2>4. t \in Task /\ t.partial = c
    BY <2>1, <2>2, <2>3 DEF Task
  <2>5. t.at = u.at /\ t.request = u.request /\ t.record = u.record
    BY <2>1, <2>2 DEF Task
  <2> QED BY <2>1, <2>4, <2>5
<1>2. task' = [task EXCEPT ![h] = t]
  BY DEF Throw, TypeOK
<1> HIDE DEF t
<1> QED BY <1>1, <1>2 DEF Threw, Throw

(* A handler that starts to persist, on its first attempt.                 *)
LEMMA Persisted ==
  ASSUME TypeOK, NEW h \in Handlers, NEW r \in Record,
         task' = [task EXCEPT ![h].at = "persist", ![h].attempt = 1, ![h].record = r]
  PROVE  \E t \in Task :
           Went(h, t, "persist", r) /\ t.attempt = 1 /\ task' = [task EXCEPT ![h] = t]
<1>1. PICK n \in 0..2 : n = 1
  OBVIOUS
<1> DEFINE t == [task[h] EXCEPT !.at = "persist", !.attempt = n, !.record = r]
<1>2. t \in Task /\ t.at = "persist" /\ t.request = task[h].request /\ t.record = r
      /\ t.partial = task[h].partial /\ t.attempt = n
  BY DEF TypeOK, Task, Places
<1>3. task' = [task EXCEPT ![h] = t]
  BY <1>1 DEF TypeOK
<1> HIDE DEF t
<1> QED BY <1>1, <1>2, <1>3 DEF Went

(* A record with the CID of an artifact.                                   *)
LEMMA PersistingType ==
  ASSUME NEW r \in Record, NEW a \in Artifact
  PROVE  /\ Persisting(r, a) \in Record /\ Persisting(r, a).artifact = a
         /\ Persisting(r, a).cid = a /\ Persisting(r, a).request = r.request
         /\ Persisting(r, a).pinned = r.pinned
  BY DEF Persisting, Record, ArtifactOrNone

(* The record on disk of a key that a handler works for.                   *)
LEMMA OnDisk ==
  ASSUME Shape, NEW h \in Handlers, task[h].at \in KeyPlaces \cup Catching
  PROVE  /\ disk[KeyOf(h)] \in Record /\ disk[KeyOf(h)] # None
         /\ disk[KeyOf(h)].request = task[h].request /\ Sound(disk[KeyOf(h)])
         /\ volatile[KeyOf(h)] # None =>
              /\ volatile[KeyOf(h)] \in Artifact
              /\ volatile[KeyOf(h)].request = task[h].request
<1>1. task[h].at \notin {"idle", "done"}
  BY DEF KeyPlaces, Holding, Working, Catching
<1>2. KeyOf(h) \in Keys
  BY <1>1, Received
<1>3. disk[KeyOf(h)] # None /\ disk[KeyOf(h)].request = task[h].request
  BY DEF Shape, Records
<1> QED BY <1>2, <1>3 DEF Shape, Records, TypeOK, ArtifactOrNone

(* The record a handler works on.                                          *)
LEMMA Works ==
  ASSUME Shape, NEW h \in Handlers, task[h].at \in RecordPlaces
  PROVE  /\ task[h].record \in Record /\ task[h].record # None /\ RecordAt(h)
         /\ task[h].record.request = task[h].request /\ Sound(task[h].record)
<1>1. RecordAt(h) /\ task[h].record # None
  BY DEF Shape, Records, RecordAt, RecordOf
<1> QED BY <1>1 DEF Shape, TypeOK, Task, RecordAt, RecordOf

(* What is done next with the record.                                      *)
Turn(h) ==
  \/ task[h].at \in Working \ {"blocked"}
  \/ task[h].at = "load" /\ StreamOf(h) = NoStream

(* performPublish and publishRecord go on: what Proceed does is one of the *)
(* five ways in which a handler resumes.                                   *)
LEMMA Proceeding ==
  ASSUME Shape, NEW h \in Handlers, Turn(h), NEW r \in Record, r.request = task[h].request,
         Sound(r), task[h].at \in StorePlaces => Served(h), Proceed(h, r, Rest(h))
  PROVE  \E t \in Task :
           Resumes(h, t, r) /\ task' = [task EXCEPT ![h] = t] /\ InChains(h, t)
<1> DEFINE k == KeyOf(h)
<1>1. task[h].at \in KeyPlaces \cup Catching /\ task[h].at \in Holding
  BY DEF Turn, KeyPlaces, Holding, Working
<1>2. volatile[k] # None => volatile[k] \in Artifact /\ volatile[k].request = r.request
  BY <1>1, OnDisk
<1>3. Reusable(k, r) <=> r.cid = None /\ volatile[k] # None
  BY <1>2 DEF Reusable
<1>4. ASSUME NEW t \in Task, t.at \in Working \ {"blocked"}, Stay,
             storeQueue' = IF t.at \in StorePlaces THEN Append(Rest(h), h) ELSE Rest(h)
      PROVE  InChains(h, t)
  BY <1>1, <1>4 DEF InChains, InStore, InKeyTail, InLockTail, Stay, Turn, KeyPlaces, Holding
<1>5. ASSUME NEW p \in {"attest", "validate", "add", "pin"},
             \/ p \in StorePlaces /\ GoTo(h, p, r, Rest(h), TRUE)
             \/ p \notin StorePlaces /\ GoTo(h, p, r, Rest(h), FALSE),
             Stay
      PROVE  \E t \in Task :
               Went(h, t, p, r) /\ task' = [task EXCEPT ![h] = t] /\ InChains(h, t)
  <2>1. p \in Places /\ TypeOK /\ p \in Working \ {"blocked"} /\ r \in Record \cup {None}
    BY DEF Places, Working, Shape
  <2>2. PICK t \in Task :
               /\ Went(h, t, p, r) /\ task' = [task EXCEPT ![h] = t]
               /\ storeQueue' = IF p \in StorePlaces THEN Append(Rest(h), h) ELSE Rest(h)
    BY <1>5, <2>1, Going
  <2>3. InChains(h, t)
    BY <1>4, <1>5, <2>1, <2>2 DEF Went
  <2> QED BY <2>2, <2>3
<1>6. CASE r.cid # None /\ r.pinned
  <2>1. /\ \E status \in {"published", "duplicate"} : Says(h, status, r.cid)
        /\ task' = [task EXCEPT ![h] = Finished] /\ storeQueue' = Rest(h) /\ Leave(h)
    <3> DEFINE status == IF task[h].created THEN "published" ELSE "duplicate"
    <3>1. /\ Answered(h, status, r.cid) /\ storeQueue' = Rest(h) /\ Leave(h)
      BY <1>3, <1>6 DEF Proceed, Sound
    <3>2. status \in {"published", "duplicate"}
      OBVIOUS
    <3> HIDE DEF status
    <3> QED BY <3>1, <3>2 DEF Answered, Says
  <2>2. InChains(h, Finished)
    BY <2>1, FinishedType
       DEF InChains, InStore, InKeyTail, InLockTail, Leave, KeyPlaces, Holding, Working,
           StorePlaces
  <2> QED BY <1>6, <2>1, <2>2, FinishedType DEF Resumes
<1>7. CASE Reusable(k, r)
  <2> DEFINE p == Persisting(r, volatile[k])
  <2>1. /\ task' = [task EXCEPT ![h].at = "persist", ![h].attempt = 1, ![h].record = p]
        /\ storeQueue' = Append(Rest(h), h) /\ Stay /\ UNCHANGED answers
    BY <1>3, <1>7 DEF Proceed
  <2>2. p \in Record
    BY <1>2, <1>3, <1>7, PersistingType
  <2> HIDE DEF p
  <2>3. PICK t \in Task :
          Went(h, t, "persist", p) /\ t.attempt = 1 /\ task' = [task EXCEPT ![h] = t]
    <3>1. TypeOK
      BY DEF Shape
    <3> QED BY <2>1, <2>2, <3>1, Persisted
  <2>4. InChains(h, t)
    BY <1>4, <2>1, <2>3 DEF Went, Working, StorePlaces
  <2> QED BY <1>3, <1>7, <2>1, <2>3, <2>4 DEF Resumes, Silent, p
<1>8. CASE r.cid = None /\ volatile[k] = None /\ r.artifact = None
  <2>1. /\ IF StreamOf(h) = NoStream
           THEN GoTo(h, "attest", r, Rest(h), FALSE)
           ELSE GoTo(h, "validate", r, Rest(h), TRUE)
        /\ Stay /\ Silent
    BY <1>3, <1>8 DEF Proceed, Silent
  <2>2. CASE StreamOf(h) = NoStream
    <3>1. GoTo(h, "attest", r, Rest(h), FALSE) /\ "attest" \notin StorePlaces
      BY <2>1, <2>2 DEF StorePlaces
    <3> QED BY <1>5, <1>8, <2>1, <2>2, <3>1 DEF Resumes
  <2>3. CASE StreamOf(h) # NoStream
    <3>1. GoTo(h, "validate", r, Rest(h), TRUE) /\ "validate" \in StorePlaces
      BY <2>1, <2>3 DEF StorePlaces
    <3> QED BY <1>5, <1>8, <2>1, <2>3, <3>1 DEF Resumes
  <2> QED BY <2>2, <2>3
<1>9. CASE r.cid = None /\ volatile[k] = None /\ r.artifact # None
  <2>1. GoTo(h, "add", r, Rest(h), FALSE) /\ "add" \notin StorePlaces /\ Stay /\ Silent
    BY <1>3, <1>9 DEF Proceed, Silent, StorePlaces
  <2> QED BY <1>5, <1>9, <2>1 DEF Resumes
<1>10. CASE r.cid # None /\ ~r.pinned
  <2>1. GoTo(h, "pin", r, Rest(h), FALSE) /\ "pin" \notin StorePlaces /\ Stay /\ Silent
    BY <1>3, <1>10 DEF Proceed, Silent, Sound, StorePlaces
  <2> QED BY <1>5, <1>10, <2>1 DEF Resumes
<1>11. r.pinned \in BOOLEAN
  BY DEF Record
<1> QED BY <1>3, <1>6, <1>7, <1>8, <1>9, <1>10, <1>11

(* What does not change for a handler's key.                               *)
LEMMA Unsaved ==
  ASSUME Shape, NEW h \in Handlers, task[h].at \notin {"idle", "done"}
  PROVE  /\ UNCHANGED disk => disk' = [disk EXCEPT ![KeyOf(h)] = disk[KeyOf(h)]]
         /\ UNCHANGED volatile => volatile' = [volatile EXCEPT ![KeyOf(h)] = volatile[KeyOf(h)]]
  BY DEF Shape, TypeOK

(* The next artifact can be stamped as long as a handler may build one.    *)
LEMMA NextStamp ==
  ASSUME Shape, NEW h \in Handlers, h \notin Past
  PROVE  builds + 1 \in Stamps /\ builds + 1 <= Cardinality(Past \cup {h})
<1>1. /\ IsFiniteSet(Handlers) /\ Past \subseteq Handlers /\ Past \cup {h} \subseteq Handlers
      /\ builds <= Cardinality(Past) /\ builds \in {0} \cup Stamps
  BY PublicationAssumption DEF Past, Shape, Chains, TypeOK
<1>2. IsFiniteSet(Past) /\ Cardinality(Past \cup {h}) = Cardinality(Past) + 1
  BY <1>1, FS_Subset, FS_AddElement
<1>3. Cardinality(Past \cup {h}) <= Cardinality(Handlers)
  BY <1>1, FS_Subset
<1>4. Cardinality(Past) \in Nat /\ Cardinality(Handlers) \in Nat
  BY <1>1, <1>2, FS_CardinalityType
<1>5. builds \in Nat
  BY <1>1, <1>4 DEF Stamps
<1> QED BY <1>1, <1>2, <1>3, <1>4, <1>5 DEF Stamps

(* The actions, one by one: on the way to the chain of the key.            *)
LEMMA LookupStep ==
  ASSUME Shape, NEW h \in Handlers, NEW expired \in BOOLEAN, Lookup(h, expired), Drained,
         UNCHANGED workload
  PROVE  \E t, d, v : Step(h, t, d, v)
<1> DEFINE d == disk[KeyOf(h)]
           v == volatile[KeyOf(h)]
<1>1. /\ task[h].at = "lookup" /\ task[h].at \notin {"idle", "done"} /\ TypeOK
      /\ task[h].at \in StorePlaces \ KeyPlaces /\ task[h].at \notin Working
      /\ Rest(h) = Tail(storeQueue)
  BY DEF Lookup, Shape, StorePlaces, KeyPlaces, Holding, Working, Rest
<1>2. d \in Record \cup {None} /\ v \in ArtifactOrNone
  BY <1>1, Received
<1>3. ASSUME NEW t \in Task, task' = [task EXCEPT ![h] = t], InChains(h, t),
             Early(h, t, d, v)
      PROVE  Step(h, t, d, v)
  BY <1>1, <1>2, <1>3, Unsaved DEF Lookup, Step, Sets, Shape, TypeOK
<1> DEFINE q == task[h].request
           exact == d # None /\ d.request = q
<1>4. CASE expired /\ ~exact
  <2> DEFINE status == IF d # None THEN "conflict" ELSE "expired"
             cid == IF d # None THEN d.cid ELSE None
  <2>1. /\ Answered(h, status, cid) /\ storeQueue' = Tail(storeQueue)
        /\ UNCHANGED <<keyTail, lockTail>>
    BY <1>4 DEF Lookup
  <2>2. status \in Refusals /\ cid = CidOf(KeyOf(h))
    BY DEF Refusals, CidOf
  <2> HIDE DEF status, cid
  <2>3. task' = [task EXCEPT ![h] = Finished] /\ Says(h, status, cid)
    BY <2>1 DEF Answered, Says
  <2>4. InChains(h, Finished)
    BY <1>1, <2>1, FinishedType
       DEF InChains, InStore, InKeyTail, InLockTail, Lookup, StorePlaces, KeyPlaces, Holding,
           Working
  <2>5. Early(h, Finished, d, v)
    BY <1>1, <2>2, <2>3 DEF Early
  <2> QED BY <1>3, <2>3, <2>4, <2>5, FinishedType
<1>5. CASE exact
  <2>1. /\ GoTo(h, "queued", None, Tail(storeQueue), FALSE) /\ keyTail' = Append(keyTail, h)
        /\ Silent /\ UNCHANGED lockTail
    BY <1>5 DEF Lookup, Silent
  <2>2. "queued" \in Places \ StorePlaces
    BY DEF Places, StorePlaces
  <2>3. PICK t \in Task :
          /\ Went(h, t, "queued", None) /\ task' = [task EXCEPT ![h] = t]
          /\ storeQueue' = Tail(storeQueue)
    BY <1>1, <2>1, <2>2, Going
  <2>4. InChains(h, t)
    BY <1>1, <2>1, <2>2, <2>3
       DEF InChains, InStore, InKeyTail, InLockTail, Lookup, Went, Working
  <2>5. Early(h, t, d, v)
    BY <1>1, <1>5, <2>1, <2>3 DEF Early
  <2> QED BY <1>3, <2>3, <2>4, <2>5
<1>6. CASE ~expired /\ ~exact
  <2>1. /\ GoTo(h, "prepare", None, Tail(storeQueue), TRUE) /\ UNCHANGED <<keyTail, lockTail>>
        /\ Silent
    BY <1>6 DEF Lookup, Silent
  <2>2. "prepare" \in Places /\ "prepare" \in StorePlaces
    BY DEF Places, StorePlaces
  <2>3. PICK t \in Task :
          /\ Went(h, t, "prepare", None) /\ task' = [task EXCEPT ![h] = t]
          /\ storeQueue' = Append(Tail(storeQueue), h)
    BY <1>1, <2>1, <2>2, Going
  <2>4. InChains(h, t)
    BY <1>1, <2>1, <2>2, <2>3
       DEF InChains, InStore, InKeyTail, InLockTail, Lookup, Went, KeyPlaces, Holding, Working
  <2>5. Early(h, t, d, v)
    BY <1>1, <2>1, <2>3 DEF Early
  <2> QED BY <1>3, <2>3, <2>4, <2>5
<1> QED BY <1>4, <1>5, <1>6

(* Prepare: the first signed contents own the key.                         *)
LEMMA PrepareStep ==
  ASSUME Shape, NEW h \in Handlers, Prepare(h), Drained, UNCHANGED workload
  PROVE  \E t, d, v : Step(h, t, d, v)
<1> DEFINE D == disk[KeyOf(h)]
           v == volatile[KeyOf(h)]
           q == task[h].request
<1>1. /\ task[h].at = "prepare" /\ task[h].at \notin {"idle", "done"} /\ TypeOK
      /\ task[h].at \in StorePlaces \ KeyPlaces /\ task[h].at \notin Working
      /\ Rest(h) = Tail(storeQueue) /\ storeQueue' = Tail(storeQueue) /\ Served(h)
      /\ UNCHANGED lockTail
  BY DEF Prepare, Shape, StorePlaces, KeyPlaces, Holding, Working, Rest
<1>2. /\ D \in Record \cup {None} /\ v \in ArtifactOrNone /\ q \in Requests
      /\ task[h] \in Task /\ KeyOf(h) \in Keys
  BY <1>1, Received
<1>3. ASSUME NEW t \in Task, NEW d \in Record \cup {None}, task' = [task EXCEPT ![h] = t],
             disk' = [disk EXCEPT ![KeyOf(h)] = d], InChains(h, t), Early(h, t, d, v)
      PROVE  Step(h, t, d, v)
  BY <1>1, <1>2, <1>3, Unsaved DEF Prepare, Step, Sets, TypeOK
<1>4. ASSUME NEW t \in Task, t.at = "queued", keyTail' = Append(keyTail, h) PROVE InChains(h, t)
  BY <1>1, <1>4 DEF InChains, InStore, InKeyTail, InLockTail, StorePlaces, Working
<1>5. task[h].record = None
  <2>1. RecordAt(h)
    BY DEF Shape, Records
  <2> QED BY <1>1, <2>1 DEF RecordAt, RecordOf, RecordPlaces
<1>6. CASE D = None
  <2>1. /\ disk' = [disk EXCEPT ![KeyOf(h)] = Fresh(q)]
        /\ task' = [task EXCEPT ![h].at = "queued", ![h].created = TRUE]
        /\ keyTail' = Append(keyTail, h) /\ Silent
    BY <1>6 DEF Prepare, Fresh, Silent
  <2> DEFINE t == [task[h] EXCEPT !.at = "queued", !.created = TRUE]
  <2>2. t \in Task /\ Went(h, t, "queued", None)
    BY <1>2, <1>5 DEF Task, Places, Went
  <2>3. task' = [task EXCEPT ![h] = t]
    BY <1>1, <2>1 DEF TypeOK
  <2>4. Fresh(q) \in Record
    BY <1>2 DEF Fresh, Record, ArtifactOrNone
  <2> HIDE DEF t
  <2>5. InChains(h, t)
    BY <1>4, <2>1, <2>2 DEF Went
  <2>6. Early(h, t, Fresh(q), v)
    BY <1>1, <1>6, <2>1, <2>2 DEF Early
  <2> QED BY <1>3, <2>1, <2>2, <2>3, <2>4, <2>5, <2>6
<1>7. CASE D # None /\ D.request = q
  <2>1. /\ task' = [task EXCEPT ![h].at = "queued"] /\ keyTail' = Append(keyTail, h)
        /\ Silent /\ UNCHANGED disk
    BY <1>7 DEF Prepare, Silent
  <2> DEFINE t == [task[h] EXCEPT !.at = "queued"]
  <2>2. t \in Task /\ Went(h, t, "queued", None)
    BY <1>2, <1>5 DEF Task, Places, Went
  <2>3. task' = [task EXCEPT ![h] = t]
    BY <1>1, <2>1 DEF TypeOK
  <2> HIDE DEF t
  <2>4. InChains(h, t)
    BY <1>4, <2>1, <2>2 DEF Went
  <2>5. Early(h, t, D, v)
    BY <1>1, <1>7, <2>1, <2>2 DEF Early
  <2> QED BY <1>1, <1>2, <1>3, <2>1, <2>2, <2>3, <2>4, <2>5, Unsaved
<1>8. CASE D # None /\ D.request # q
  <2>1. Answered(h, "conflict", D.cid) /\ UNCHANGED <<disk, keyTail>>
    BY <1>8 DEF Prepare
  <2>2. task' = [task EXCEPT ![h] = Finished] /\ Says(h, "conflict", CidOf(KeyOf(h)))
    BY <1>8, <2>1 DEF Answered, Says, CidOf
  <2>3. InChains(h, Finished)
    BY <1>1, <2>1, FinishedType
       DEF InChains, InStore, InKeyTail, InLockTail, StorePlaces, KeyPlaces, Holding, Working
  <2>4. Early(h, Finished, D, v)
    BY <1>1, <2>2 DEF Early, Refusals
  <2> QED BY <1>1, <1>2, <1>3, <2>1, <2>2, <2>3, <2>4, FinishedType, Unsaved
<1> QED BY <1>6, <1>7, <1>8

(* Who works on a record stays in its chains until the operation throws;   *)
(* a catch block is outside of them.                                       *)
LEMMA HeldChains ==
  ASSUME NEW h \in Handlers, task[h].at \in Working \ {"blocked"},
         task[h].at \in StorePlaces => Served(h),
         NEW t, t.at \in Working \ {"blocked"}, Stay,
         storeQueue' = IF t.at \in StorePlaces THEN Append(Rest(h), h) ELSE Rest(h)
  PROVE  InChains(h, t)
  BY DEF InChains, InStore, InKeyTail, InLockTail, Stay, KeyPlaces, Holding

(* A handler that throws leaves its promise chains.                        *)
LEMMA ThrownChains ==
  ASSUME NEW h \in Handlers, task[h].at \in Working \ {"blocked"},
         task[h].at \in StorePlaces => Served(h),
         NEW t, t.at = "failing", Leave(h), storeQueue' = Rest(h)
  PROVE  InChains(h, t)
  BY DEF InChains, InStore, InKeyTail, InLockTail, Leave, KeyPlaces, Holding, Working,
         StorePlaces

(* A catch block is outside the promise chains of the key and the lock.    *)
LEMMA CaughtChains ==
  ASSUME NEW h \in Handlers, task[h].at \in Catching,
         task[h].at \in StorePlaces => Served(h),
         NEW t, t.at \in Catching \cup {"done"}, UNCHANGED <<keyTail, lockTail>>,
         storeQueue' = IF t.at \in StorePlaces THEN Append(Rest(h), h) ELSE Rest(h)
  PROVE  InChains(h, t)
  BY DEF InChains, InStore, InKeyTail, InLockTail, KeyPlaces, Holding, Working, Catching

(* The turns in the chains, and the records loaded when they come.         *)
LEMMA TakeKeyTurnStep ==
  ASSUME Shape, NEW h \in Handlers, TakeKeyTurn(h), UNCHANGED workload
  PROVE  \E t, d, v : Step(h, t, d, v)
<1> DEFINE d == disk[KeyOf(h)]
           v == volatile[KeyOf(h)]
<1>1. /\ task[h].at = "queued" /\ task[h].at \notin {"idle", "done"} /\ TypeOK
      /\ task[h].at \in KeyPlaces /\ task[h].at \notin Working /\ Rest(h) = storeQueue
      /\ task[h].at \notin StorePlaces /\ KeyTurn(h)
  BY DEF TakeKeyTurn, Shape, StorePlaces, KeyPlaces, Holding, Working, Rest
<1>2. d \in Record \cup {None} /\ v \in ArtifactOrNone
  BY <1>1, Received
<1>3. "load" \in Places /\ "load" \in StorePlaces
  BY DEF Places, StorePlaces
<1>4. PICK t \in Task :
        /\ Went(h, t, "load", None) /\ task' = [task EXCEPT ![h] = t]
        /\ storeQueue' = Append(storeQueue, h)
  BY <1>1, <1>3, Going DEF TakeKeyTurn
<1>5. InChains(h, t)
  BY <1>1, <1>3, <1>4
     DEF InChains, InStore, InKeyTail, InLockTail, TakeKeyTurn, Went, KeyPlaces, Holding,
         Working
<1>6. Early(h, t, d, v)
  BY <1>1, <1>4 DEF Early, TakeKeyTurn, Silent
<1>7. Step(h, t, d, v)
  BY <1>1, <1>2, <1>4, <1>5, <1>6, Unsaved DEF TakeKeyTurn, Step, Sets, TypeOK
<1> QED BY <1>7

(* TakeLockTurn is a step of the holder of the key.                        *)
LEMMA TakeLockTurnStep ==
  ASSUME Shape, NEW h \in Handlers, TakeLockTurn(h), UNCHANGED workload
  PROVE  \E t, d, v : Step(h, t, d, v)
<1> DEFINE d == disk[KeyOf(h)]
           v == volatile[KeyOf(h)]
<1>1. /\ task[h].at = "blocked" /\ task[h].at \notin {"idle", "done"} /\ TypeOK
      /\ task[h].at \in Working /\ Rest(h) = storeQueue
      /\ task[h].at \notin StorePlaces /\ LockTurn(h)
  BY DEF TakeLockTurn, Shape, StorePlaces, Working, Rest
<1>2. d \in Record \cup {None} /\ v \in ArtifactOrNone
  BY <1>1, Received
<1>3. "reload" \in Places /\ "reload" \in StorePlaces /\ "reload" \in Working
  BY DEF Places, StorePlaces, Working
<1>4. PICK t \in Task :
        /\ Went(h, t, "reload", None) /\ task' = [task EXCEPT ![h] = t]
        /\ storeQueue' = Append(storeQueue, h)
  BY <1>1, <1>3, Going DEF TakeLockTurn
<1>5. InChains(h, t)
  BY <1>1, <1>3, <1>4
     DEF InChains, InStore, InKeyTail, InLockTail, TakeLockTurn, Went, KeyPlaces, Holding
<1>6. Held(h, t, d, v)
  BY <1>1, <1>4 DEF Held, TakeLockTurn, Silent
<1>7. Step(h, t, d, v)
  BY <1>1, <1>2, <1>4, <1>5, <1>6, Unsaved DEF TakeLockTurn, Step, Sets, TypeOK
<1> QED BY <1>7

(* The volatile state of a key is that of the request on disk.             *)
LEMMA NothingDiscarded ==
  ASSUME Shape, NEW h \in Handlers, task[h].at \in KeyPlaces \cup Catching
  PROVE  Discarded(KeyOf(h), disk[KeyOf(h)]) = volatile
<1> DEFINE k == KeyOf(h)
           r == disk[k]
<1>1. volatile[k] # None => volatile[k].request = r.request
  BY OnDisk
<1>2. volatile \in [Keys -> ArtifactOrNone]
  BY DEF Shape, TypeOK
<1> HIDE DEF k, r
<1>3. [volatile EXCEPT ![k] = volatile[k]] = volatile
  BY <1>2
<1>4. (IF r.cid = None /\ volatile[k] # None /\ volatile[k].request # r.request
       THEN None ELSE volatile[k]) = volatile[k]
  BY <1>1
<1>5. Discarded(k, r) = volatile
  BY <1>3, <1>4 DEF Discarded
<1> QED BY <1>5 DEF k, r

(* Load and Reload are steps of the holder of the key.                     *)
LEMMA LoadStep ==
  ASSUME Shape, NEW h \in Handlers, Drained, UNCHANGED workload, Load(h) \/ Reload(h)
  PROVE  \E t, d, v : Step(h, t, d, v)
<1> DEFINE d == disk[KeyOf(h)]
           v == volatile[KeyOf(h)]
<1>1. /\ task[h].at \in {"load", "reload"} /\ task[h].at \notin {"idle", "done"} /\ TypeOK
      /\ task[h].at \in KeyPlaces \cup Catching /\ Rest(h) = Tail(storeQueue) /\ Served(h)
      /\ UNCHANGED <<disk, ipfs, builds, failures, crashes>>
      /\ task[h].at \in StorePlaces
  BY DEF Load, Reload, Shape, StorePlaces, KeyPlaces, Holding, Working, Rest
<1>2. d \in Record /\ d.request = task[h].request /\ Sound(d) /\ v \in ArtifactOrNone
  BY <1>1, OnDisk, Received
<1>3. disk' = [disk EXCEPT ![KeyOf(h)] = d]
  BY <1>1, Unsaved
<1>4. volatile' = [volatile EXCEPT ![KeyOf(h)] = v]
  <2>1. UNCHANGED volatile
    BY <1>1, NothingDiscarded DEF Load, Reload
  <2> QED BY <1>1, <2>1, Unsaved
<1>5. ASSUME NEW t \in Task, task' = [task EXCEPT ![h] = t], InChains(h, t), Held(h, t, d, v)
      PROVE  Step(h, t, d, v)
  BY <1>1, <1>2, <1>3, <1>4, <1>5 DEF Step, Sets, TypeOK
<1>6. CASE GoTo(h, "blocked", None, Tail(storeQueue), FALSE)
             /\ lockTail' = Append(lockTail, h) /\ UNCHANGED <<keyTail, answers>>
             /\ StreamOf(h) # NoStream /\ task[h].at = "load"
  <2>1. "blocked" \in Places \ StorePlaces
    BY DEF Places, StorePlaces
  <2>2. PICK t \in Task :
          /\ Went(h, t, "blocked", None) /\ task' = [task EXCEPT ![h] = t]
          /\ storeQueue' = Tail(storeQueue)
    BY <1>1, <1>6, <2>1, Going
  <2>3. InChains(h, t)
    BY <1>1, <1>6, <2>1, <2>2
       DEF InChains, InStore, InKeyTail, InLockTail, Went, KeyPlaces, Holding, Working
  <2>4. Held(h, t, d, v)
    BY <1>6, <2>2 DEF Held, Silent
  <2> QED BY <1>5, <2>2, <2>3, <2>4
<1>7. CASE Proceed(h, d, Tail(storeQueue)) /\ (task[h].at = "load" => StreamOf(h) = NoStream)
  <2>1. Turn(h)
    BY <1>1, <1>7 DEF Turn, Working
  <2>2. PICK t \in Task :
           Resumes(h, t, d) /\ task' = [task EXCEPT ![h] = t] /\ InChains(h, t)
    <3>1. Proceed(h, d, Rest(h))
      BY <1>1, <1>7
    <3> QED BY <1>1, <1>2, <2>1, <3>1, Proceeding
  <2>3. Held(h, t, d, v)
    BY <1>1, <1>7, <2>2 DEF Held
  <2> QED BY <1>5, <2>2, <2>3
<1> QED BY <1>6, <1>7 DEF Load, Reload

(* A failure is counted.                                                   *)
LEMMA FailureCounted ==
  ASSUME TypeOK, Fails \/ NoFailure
  PROVE  failures' \in Nat /\ failures' \in {failures, failures + 1} /\ (Fails => Fell)
  BY DEF TypeOK, Fails, NoFailure, Fell

(* The handler that holds its key goes to its next place with record r, or *)
(* its operation throws; disk and volatile state of the key become d and v.*)
LEMMA HeldStep ==
  ASSUME Shape, NEW h \in Handlers, Drained, UNCHANGED <<workload, crashes>>, Fails \/ NoFailure,
         task[h].at \in Working \ {"blocked"}, task[h].at \in StorePlaces => Served(h),
         ipfs' \subseteq Artifact, NEW d \in Record \cup {None}, NEW v \in ArtifactOrNone,
         disk' = [disk EXCEPT ![KeyOf(h)] = d],
         volatile' = [volatile EXCEPT ![KeyOf(h)] = v],
         NEW t \in Task, task' = [task EXCEPT ![h] = t], InChains(h, t), Held(h, t, d, v),
         builds' = IF task[h].at = "attest" /\ t.at = "saveArtifact" THEN builds + 1 ELSE builds
  PROVE  Step(h, t, d, v)
  BY FailureCounted DEF Step, Sets, Shape, Working

(* A call of the holder fails: its step is one of a handler that throws.   *)
LEMMA ThrownStep ==
  ASSUME Shape, NEW h \in Handlers, Drained, UNCHANGED <<workload, crashes, disk, volatile>>,
         task[h].at \in Working \ {"blocked"}, task[h].at \in StorePlaces => Served(h),
         ipfs' \subseteq Artifact, UNCHANGED <<builds, answers>>,
         NEW c \in ArtifactOrNone, Throw(h, c, Rest(h)),
         \/ NoFailure /\ task[h].at = "validate" /\ c = None
         \/ Fails /\ c = None
            /\ task[h].at \in {"validate", "attest", "saveArtifact", "add", "pin", "savePinned"}
         \/ Fails /\ c = task[h].record.cid /\ task[h].at = "persist" /\ task[h].attempt = 2
  PROVE  \E t, d, v : Step(h, t, d, v)
<1> DEFINE d == disk[KeyOf(h)]
           v == volatile[KeyOf(h)]
<1>1. task[h].at \notin {"idle", "done"} /\ TypeOK
  BY DEF Shape, Working
<1>2. d \in Record \cup {None} /\ v \in ArtifactOrNone
  BY <1>1, Received
<1>3. PICK t \in Task :
           Threw(h, t, c) /\ task' = [task EXCEPT ![h] = t] /\ storeQueue' = Rest(h)
  BY <1>1, Throwing
<1>4. Leave(h) /\ InChains(h, t)
  BY <1>3, ThrownChains DEF Throw, Threw
<1>5. Held(h, t, d, v)
  BY <1>1, <1>3, FailureCounted DEF Held, Silent
<1>6. Step(h, t, d, v)
  BY <1>1, <1>2, <1>3, <1>4, <1>5, Unsaved, HeldStep DEF Threw
<1> QED BY <1>6

(* Validate is a step of the holder of the key.                            *)
LEMMA ValidateStep ==
  ASSUME Shape, NEW h \in Handlers, Validate(h), Drained, UNCHANGED workload
  PROVE  \E t, d, v : Step(h, t, d, v)
<1> DEFINE d == disk[KeyOf(h)]
           v == volatile[KeyOf(h)]
           r == task[h].record
<1>1. /\ task[h].at = "validate" /\ task[h].at \notin {"idle", "done"} /\ TypeOK
      /\ task[h].at \in RecordPlaces \cap Working /\ Rest(h) = Tail(storeQueue) /\ Served(h)
      /\ UNCHANGED <<disk, volatile, ipfs, builds, answers, failures, crashes>>
  BY DEF Validate, Shape, StorePlaces, Working, Rest, RecordPlaces
<1>2. d \in Record \cup {None} /\ v \in ArtifactOrNone /\ r \in Record \cup {None}
      /\ ipfs' \subseteq Artifact
  BY <1>1, Received DEF TypeOK
<1>3. CASE Throw(h, None, Tail(storeQueue))
  BY <1>1, <1>2, <1>3, ThrownStep DEF ArtifactOrNone, NoFailure
<1>4. CASE Follows(task[h].request) /\ GoTo(h, "attest", r, Tail(storeQueue), FALSE) /\ Stay
  <2>1. "attest" \in Places \ StorePlaces /\ "attest" \in Working
    BY DEF Places, StorePlaces, Working
  <2>2. PICK t \in Task :
          /\ Went(h, t, "attest", r) /\ task' = [task EXCEPT ![h] = t]
          /\ storeQueue' = Tail(storeQueue)
    BY <1>1, <1>2, <1>4, <2>1, Going
  <2>3. InChains(h, t)
    BY <1>1, <1>4, <2>1, <2>2, HeldChains DEF Went
  <2>4. Held(h, t, d, v)
    BY <1>1, <1>4, <2>2 DEF Held, Silent
  <2>5. Step(h, t, d, v)
    BY <1>1, <1>2, <2>2, <2>3, <2>4, Unsaved, HeldStep DEF NoFailure
  <2> QED BY <2>5
<1> QED BY <1>3, <1>4 DEF Validate

(* Attest builds the handler's only artifact, or throws.                   *)
LEMMA AttestStep ==
  ASSUME Shape, NEW h \in Handlers, Attest(h), Drained, UNCHANGED workload
  PROVE  \E t, d, v : Step(h, t, d, v)
<1> DEFINE d == disk[KeyOf(h)]
           v == volatile[KeyOf(h)]
           a == [request |-> task[h].request, stamp |-> builds + 1]
           r == [task[h].record EXCEPT !.artifact = a]
<1>1. /\ task[h].at = "attest" /\ task[h].at \notin {"idle", "done"} /\ TypeOK
      /\ task[h].at \in RecordPlaces \cap Working /\ Rest(h) = storeQueue
      /\ task[h].at \notin StorePlaces /\ h \notin Past
      /\ UNCHANGED <<disk, volatile, ipfs, answers, crashes>>
  BY DEF Attest, Shape, StorePlaces, Working, Rest, RecordPlaces, Past
<1>2. d \in Record \cup {None} /\ v \in ArtifactOrNone /\ ipfs' \subseteq Artifact
  BY <1>1, Received DEF TypeOK
<1>3. CASE Fails /\ Throw(h, None, storeQueue) /\ UNCHANGED builds
  BY <1>1, <1>2, <1>3, ThrownStep DEF ArtifactOrNone
<1>4. CASE GoTo(h, "saveArtifact", r, storeQueue, TRUE) /\ builds' = builds + 1 /\ Stay /\ NoFailure
  <2>1. "saveArtifact" \in Places /\ "saveArtifact" \in StorePlaces \cap Working
    BY DEF Places, StorePlaces, Working
  <2>2. a \in Artifact
    BY <1>1, Received, NextStamp DEF Artifact
  <2>3. r \in Record
    <3> HIDE DEF a
    <3> QED BY <1>1, <2>2, Works DEF Record, ArtifactOrNone
  <2> HIDE DEF r
  <2>4. PICK t \in Task :
          /\ Went(h, t, "saveArtifact", r) /\ task' = [task EXCEPT ![h] = t]
          /\ storeQueue' = Append(storeQueue, h)
    BY <1>1, <1>4, <2>1, <2>3, Going
  <2>5. InChains(h, t)
    BY <1>1, <1>4, <2>1, <2>4, HeldChains DEF Went
  <2>6. Held(h, t, d, v)
    BY <1>1, <1>4, <2>4 DEF Held, Silent, r
  <2>7. Step(h, t, d, v)
    BY <1>1, <1>2, <1>4, <2>4, <2>5, <2>6, Unsaved, HeldStep DEF Went
  <2> QED BY <2>7
<1> QED BY <1>3, <1>4 DEF Attest

(* A record is saved and worked on, or saving it fails.                    *)
LEMMA SaveStep ==
  ASSUME Shape, NEW h \in Handlers, SaveArtifact(h) \/ SavePinned(h), Drained,
         UNCHANGED workload
  PROVE  \E t, d, v : Step(h, t, d, v)
<1> DEFINE v == volatile[KeyOf(h)]
           r == task[h].record
<1>1. /\ task[h].at \in {"saveArtifact", "savePinned"} /\ task[h].at \notin {"idle", "done"}
      /\ TypeOK /\ task[h].at \in RecordPlaces \cap Working
      /\ task[h].at \in Working \ {"blocked"}
      /\ Rest(h) = Tail(storeQueue) /\ Served(h)
      /\ UNCHANGED <<volatile, ipfs, builds, crashes>>
  BY DEF SaveArtifact, SavePinned, Shape, StorePlaces, Working, Rest, RecordPlaces
<1>2. /\ v \in ArtifactOrNone /\ r \in Record /\ ipfs' \subseteq Artifact
      /\ r.request = task[h].request /\ Sound(r)
  BY <1>1, Received, Works DEF TypeOK
<1>3. CASE Fails /\ Throw(h, None, Tail(storeQueue)) /\ UNCHANGED <<disk, answers>>
  BY <1>1, <1>2, <1>3, ThrownStep DEF ArtifactOrNone
<1>4. CASE /\ disk' = [disk EXCEPT ![KeyOf(h)] = r]
           /\ Proceed(h, r, Tail(storeQueue)) /\ NoFailure
  <2>1. Turn(h) /\ Proceed(h, r, Rest(h))
    BY <1>1, <1>4 DEF Turn
  <2>2. PICK t \in Task :
           Resumes(h, t, r) /\ task' = [task EXCEPT ![h] = t] /\ InChains(h, t)
    BY <1>1, <1>2, <2>1, Proceeding
  <2>3. Held(h, t, r, v)
    BY <1>1, <2>2 DEF Held
  <2>4. Step(h, t, r, v)
    BY <1>1, <1>2, <1>4, <2>2, <2>3, Unsaved, HeldStep
  <2> QED BY <2>4
<1> QED BY <1>3, <1>4 DEF SaveArtifact, SavePinned

(* AddToIpfs: the artifact is published, or the call fails.                *)
LEMMA AddStep ==
  ASSUME Shape, NEW h \in Handlers, AddToIpfs(h), Drained, UNCHANGED workload
  PROVE  \E t, d, v : Step(h, t, d, v)
<1> DEFINE d == disk[KeyOf(h)]
           r == task[h].record
           a == r.artifact
           p == Persisting(r, a)
<1>1. /\ task[h].at = "add" /\ task[h].at \notin {"idle", "done"} /\ TypeOK
      /\ task[h].at \in RecordPlaces \cap Working /\ Rest(h) = storeQueue
      /\ task[h].at \notin StorePlaces /\ UNCHANGED <<disk, builds, answers, crashes>>
  BY DEF AddToIpfs, Shape, StorePlaces, Working, Rest, RecordPlaces
<1>2. d \in Record \cup {None} /\ r \in Record /\ RecordAt(h)
  BY <1>1, Received, Works
<1>3. a \in Artifact
  BY <1>1, <1>2 DEF RecordAt, RecordOf, Record, ArtifactOrNone
<1>4. ipfs' \subseteq Artifact
  BY <1>1, <1>3 DEF AddToIpfs, TypeOK
<1>5. CASE Fails /\ Throw(h, None, storeQueue) /\ UNCHANGED volatile
  BY <1>1, <1>4, <1>5, ThrownStep DEF ArtifactOrNone
<1>6. CASE /\ volatile' = [volatile EXCEPT ![KeyOf(h)] = a]
           /\ task' = [task EXCEPT ![h].at = "persist", ![h].attempt = 1,
                                   ![h].record = Persisting(@, a)]
           /\ storeQueue' = Append(storeQueue, h) /\ Stay /\ NoFailure
  <2>1. p \in Record
    BY <1>2, <1>3, PersistingType
  <2>2. task' = [task EXCEPT ![h].at = "persist", ![h].attempt = 1, ![h].record = p]
    BY <1>1, <1>6 DEF TypeOK, Task
  <2>3. p = Persisting(r, r.artifact)
    OBVIOUS
  <2> HIDE DEF p
  <2>4. PICK t \in Task :
          Went(h, t, "persist", p) /\ t.attempt = 1 /\ task' = [task EXCEPT ![h] = t]
    BY <1>1, <2>1, <2>2, Persisted
  <2>5. InChains(h, t)
    BY <1>1, <1>6, <2>4, HeldChains DEF Went, StorePlaces, Working
  <2>6. Held(h, t, d, a)
    BY <1>1, <2>3, <2>4 DEF Held, Silent
  <2>7. Step(h, t, d, a)
    BY <1>1, <1>2, <1>3, <1>4, <1>6, <2>4, <2>5, <2>6, Unsaved, HeldStep DEF ArtifactOrNone
  <2> QED BY <2>7
<1> QED BY <1>5, <1>6 DEF AddToIpfs

(* Persist: the CID is written, tried once more, or handed to the catch    *)
(* block.                                                                  *)
LEMMA PersistStep ==
  ASSUME Shape, NEW h \in Handlers, Persist(h), Drained, UNCHANGED workload
  PROVE  \E t, d, v : Step(h, t, d, v)
<1> DEFINE D == disk[KeyOf(h)]
           V == volatile[KeyOf(h)]
           r == task[h].record
<1>1. /\ task[h].at = "persist" /\ task[h].at \notin {"idle", "done"} /\ TypeOK
      /\ task[h].at \in RecordPlaces \cap Working /\ Rest(h) = Tail(storeQueue)
      /\ task[h].at \in StorePlaces /\ Served(h) /\ UNCHANGED <<ipfs, builds, crashes>>
  BY DEF Persist, Shape, StorePlaces, Working, Rest, RecordPlaces
<1>2. /\ D \in Record \cup {None} /\ V \in ArtifactOrNone /\ r \in Record /\ RecordAt(h)
      /\ r.request = task[h].request /\ Sound(r) /\ ipfs' \subseteq Artifact
      /\ task[h] \in Task
  BY <1>1, Received, Works DEF TypeOK
<1>3. r.cid # None /\ ~r.pinned /\ task[h].attempt # 0 /\ r.cid \in ArtifactOrNone
  BY <1>1, <1>2 DEF RecordAt, RecordOf, Record
<1>4. task[h].attempt \in {1, 2}
  <2>1. task[h].attempt \in 0..2
    BY <1>2 DEF Task
  <2> QED BY <1>3, <2>1
<1>5. CASE /\ disk' = [disk EXCEPT ![KeyOf(h)] = r]
           /\ volatile' = [volatile EXCEPT ![KeyOf(h)] = None]
           /\ Proceed(h, r, Tail(storeQueue)) /\ NoFailure
  <2>1. Turn(h) /\ Proceed(h, r, Rest(h))
    BY <1>1, <1>5 DEF Turn
  <2>2. PICK t \in Task :
           Resumes(h, t, r) /\ task' = [task EXCEPT ![h] = t] /\ InChains(h, t)
    BY <1>1, <1>2, <2>1, Proceeding
  <2>3. Went(h, t, "pin", r) /\ Silent
    BY <1>3, <2>2 DEF Resumes
  <2>4. Held(h, t, r, None)
    BY <1>1, <2>3 DEF Held
  <2>5. Step(h, t, r, None)
    BY <1>1, <1>2, <1>5, <2>2, <2>4, HeldStep DEF ArtifactOrNone
  <2> QED BY <2>5
<1>6. CASE /\ Fails /\ ~LastAttempt(task[h].attempt)
           /\ task' = [task EXCEPT ![h].attempt = @ + 1]
           /\ storeQueue' = Append(Tail(storeQueue), h)
           /\ Stay /\ UNCHANGED <<disk, volatile, answers>>
  <2>1. PICK n \in 0..2 : n = task[h].attempt + 1 /\ n = 2 /\ task[h].attempt = 1
    BY <1>4, <1>6 DEF LastAttempt
  <2> DEFINE t == [task[h] EXCEPT !.attempt = n]
  <2>2. t \in Task /\ t.at = "persist" /\ Went(h, t, "persist", r) /\ t.attempt = n
    BY <1>1, <1>2 DEF Task, Went
  <2>3. task' = [task EXCEPT ![h] = t]
    BY <1>1, <1>6, <2>1 DEF TypeOK
  <2> HIDE DEF t
  <2>4. InChains(h, t)
    BY <1>1, <1>6, <2>2, HeldChains DEF Working, StorePlaces
  <2>5. Held(h, t, D, V)
    BY <1>1, <1>6, <2>1, <2>2, FailureCounted DEF Held, Silent
  <2>6. Step(h, t, D, V)
    BY <1>1, <1>2, <1>6, <2>2, <2>3, <2>4, <2>5, Unsaved, HeldStep
  <2> QED BY <2>6
<1>7. CASE /\ Fails /\ LastAttempt(task[h].attempt)
           /\ Throw(h, r.cid, Tail(storeQueue))
           /\ UNCHANGED <<disk, volatile, answers>>
  <2>1. task[h].attempt = 2
    BY <1>7 DEF LastAttempt
  <2> QED BY <1>1, <1>2, <1>3, <1>7, <2>1, ThrownStep
<1> QED BY <1>5, <1>6, <1>7 DEF Persist

(* Pin: the content is pinned, or the call fails.                          *)
LEMMA PinStep ==
  ASSUME Shape, NEW h \in Handlers, Pin(h), Drained, UNCHANGED workload
  PROVE  \E t, d, v : Step(h, t, d, v)
<1> DEFINE d == disk[KeyOf(h)]
           v == volatile[KeyOf(h)]
           r == [task[h].record EXCEPT !.pinned = TRUE]
<1>1. /\ task[h].at = "pin" /\ task[h].at \notin {"idle", "done"} /\ TypeOK
      /\ task[h].at \in RecordPlaces \cap Working /\ Rest(h) = storeQueue
      /\ task[h].at \notin StorePlaces
      /\ UNCHANGED <<disk, volatile, ipfs, builds, answers, crashes>>
  BY DEF Pin, Shape, StorePlaces, Working, Rest, RecordPlaces
<1>2. d \in Record \cup {None} /\ v \in ArtifactOrNone /\ ipfs' \subseteq Artifact
  BY <1>1, Received DEF TypeOK
<1>3. CASE Fails /\ Throw(h, None, storeQueue)
  BY <1>1, <1>2, <1>3, ThrownStep DEF ArtifactOrNone
<1>4. CASE GoTo(h, "savePinned", r, storeQueue, TRUE) /\ Stay /\ NoFailure
  <2>1. "savePinned" \in Places /\ "savePinned" \in StorePlaces \cap Working
    BY DEF Places, StorePlaces, Working
  <2>2. r \in Record
    BY <1>1, Works DEF Record
  <2> HIDE DEF r
  <2>3. PICK t \in Task :
          /\ Went(h, t, "savePinned", r) /\ task' = [task EXCEPT ![h] = t]
          /\ storeQueue' = Append(storeQueue, h)
    BY <1>1, <1>4, <2>1, <2>2, Going
  <2>4. InChains(h, t)
    BY <1>1, <1>4, <2>1, <2>3, HeldChains DEF Went
  <2>5. Held(h, t, d, v)
    BY <1>1, <1>4, <2>3 DEF Held, Silent, r
  <2>6. Step(h, t, d, v)
    BY <1>1, <1>2, <1>4, <2>3, <2>4, <2>5, Unsaved, HeldStep DEF Went
  <2> QED BY <2>6
<1> QED BY <1>3, <1>4 DEF Pin

(* The catch block.                                                        *)
LEMMA CatchStep ==
  ASSUME Shape, NEW h \in Handlers, UNCHANGED workload,
         Catch(h) \/ (Reread(h) /\ Drained)
  PROVE  \E t, d, v : Step(h, t, d, v)
<1> DEFINE d == disk[KeyOf(h)]
           v == volatile[KeyOf(h)]
           p == IF task[h].at = "failing" THEN "reread" ELSE "saveError"
           r == IF task[h].at = "failing" THEN None
                ELSE IF task[h].partial = None THEN d ELSE Persisting(d, task[h].partial)
<1>1. /\ task[h].at \in {"failing", "reread"} /\ task[h].at \notin {"idle", "done"} /\ TypeOK
      /\ task[h].at \in Catching /\ task[h].at \in KeyPlaces \cup Catching
      /\ task[h].at = "reread" => Served(h) /\ Drained
      /\ task[h].at \in StorePlaces => Served(h)
      /\ p \in Places /\ p \in StorePlaces \cap Catching
      /\ UNCHANGED <<disk, volatile, keyTail, lockTail, ipfs, builds, answers, failures,
                     crashes>>
  BY DEF Catch, Reread, Shape, StorePlaces, Catching, Places
<1>2. d \in Record /\ v \in ArtifactOrNone /\ task[h].partial \in ArtifactOrNone
  BY <1>1, Received, OnDisk
<1>3. r \in Record \cup {None}
  <2> HIDE DEF d
  <2> QED BY <1>2, PersistingType DEF ArtifactOrNone
<1>4. GoTo(h, p, r, Rest(h), TRUE)
  <2>1. CASE task[h].at = "failing"
    BY <2>1 DEF Catch, Reread, Rest, StorePlaces
  <2>2. CASE task[h].at = "reread"
    BY <2>2 DEF Catch, Reread, Rest, StorePlaces
  <2> QED BY <1>1, <2>1, <2>2
<1>5. /\ task[h].at = "failing" => p = "reread" /\ r = None
      /\ task[h].at = "reread" =>
           /\ p = "saveError"
           /\ r = IF task[h].partial = None THEN d ELSE Persisting(d, task[h].partial)
  OBVIOUS
<1> HIDE DEF p, r
<1>6. PICK t \in Task :
        /\ Went(h, t, p, r) /\ task' = [task EXCEPT ![h] = t]
        /\ storeQueue' = Append(Rest(h), h)
  BY <1>1, <1>3, <1>4, Going
<1>7. InChains(h, t)
  BY <1>1, <1>6, CaughtChains DEF Went
<1>8. Caught(h, t, d, v)
  BY <1>1, <1>5, <1>6 DEF Caught, Silent
<1>9. Step(h, t, d, v)
  BY <1>1, <1>2, <1>6, <1>7, <1>8, Unsaved DEF Step, Sets, TypeOK
<1> QED BY <1>9

(* SaveError: the catch block writes the record back, or fails to.         *)
LEMMA SaveErrorStep ==
  ASSUME Shape, NEW h \in Handlers, UNCHANGED workload, SaveError(h), Drained
  PROVE  \E t, d, v : Step(h, t, d, v)
<1> DEFINE D == disk[KeyOf(h)]
           V == volatile[KeyOf(h)]
           r == task[h].record
<1>1. /\ task[h].at = "saveError" /\ task[h].at \notin {"idle", "done"} /\ TypeOK
      /\ task[h].at \in RecordPlaces /\ task[h].at \in Catching \cap StorePlaces
      /\ Served(h) /\ Rest(h) = Tail(storeQueue) /\ storeQueue' = Tail(storeQueue)
      /\ UNCHANGED <<keyTail, lockTail, ipfs, builds, crashes>>
      /\ Fails \/ NoFailure
  BY DEF SaveError, Shape, StorePlaces, Catching, RecordPlaces, Rest
<1>2. /\ D \in Record \cup {None} /\ V \in ArtifactOrNone /\ r \in Record
      /\ KeyOf(h) \in Keys
  BY <1>1, Received, Works
<1>3. task' = [task EXCEPT ![h] = Finished] /\ Says(h, "failed", r.cid)
  BY DEF SaveError, Answered, Says
<1>4. InChains(h, Finished)
  BY <1>1, FinishedType, CaughtChains DEF StorePlaces
<1>5. ASSUME NEW d \in Record \cup {None}, NEW v \in ArtifactOrNone,
             disk' = [disk EXCEPT ![KeyOf(h)] = d],
             volatile' = [volatile EXCEPT ![KeyOf(h)] = v],
             Caught(h, Finished, d, v)
      PROVE  Step(h, Finished, d, v)
  BY <1>1, <1>3, <1>4, <1>5, FinishedType, FailureCounted DEF Step, Sets, TypeOK
<1>6. CASE /\ disk' = [disk EXCEPT ![KeyOf(h)] = r]
           /\ volatile' = IF task[h].partial = None THEN volatile
                          ELSE [volatile EXCEPT ![KeyOf(h)] = None]
  <2> DEFINE v == IF task[h].partial = None THEN V ELSE None
  <2>1. v \in ArtifactOrNone
    BY <1>2 DEF ArtifactOrNone
  <2>2. volatile' = [volatile EXCEPT ![KeyOf(h)] = v]
    BY <1>1, <1>6, Unsaved
  <2>3. Caught(h, Finished, r, v)
    BY <1>1, <1>3 DEF Caught
  <2> QED BY <1>2, <1>5, <1>6, <2>1, <2>2, <2>3
<1>7. CASE UNCHANGED <<disk, volatile>>
  <2>1. Caught(h, Finished, D, V)
    BY <1>1, <1>3 DEF Caught
  <2> QED BY <1>1, <1>2, <1>5, <1>7, <2>1, Unsaved
<1> QED BY <1>6, <1>7 DEF SaveError

(* The three kinds of steps: one of a handler, an arrival, a crash.        *)
Arrives(h, q) ==
  /\ UNCHANGED workload /\ Receive(h, q) /\ q \in workload

(* Every step of the node is one of the three kinds.                       *)
LEMMA NextSteps ==
  ASSUME Shape, Next
  PROVE  \/ \E h \in Handlers : \E t, d, v : Step(h, t, d, v)
         \/ \E h \in Handlers, q \in workload : Arrives(h, q)
         \/ UNCHANGED workload /\ Crash
<1>1. ASSUME NEW h \in Handlers, HandlerStep(h), UNCHANGED workload
      PROVE  \E t, d, v : Step(h, t, d, v)
  <2>1. CASE Microtask(h)
    BY <1>1, <2>1, TakeKeyTurnStep, TakeLockTurnStep, CatchStep DEF Microtask
  <2>2. CASE Drained /\ Callback(h)
    BY <1>1, <2>2, LookupStep, PrepareStep, LoadStep, ValidateStep, AttestStep, SaveStep,
       AddStep, PersistStep, PinStep, CatchStep, SaveErrorStep DEF Callback
  <2> QED BY <1>1, <2>1, <2>2 DEF HandlerStep
<1> QED BY <1>1 DEF Next, Arrives

(* Where a handler may be before and after its step.                       *)
LEMMA StepPlaces ==
  ASSUME Shape, NEW h \in Handlers, NEW t, NEW d, NEW v, Step(h, t, d, v)
  PROVE  /\ task[h].at \notin {"idle", "done"} /\ t.at # "idle"
         /\ t = Finished \/ (t.request = task[h].request /\ t.at # "done")
         /\ task' \in [Handlers -> Task] /\ Others(h) /\ task'[h] = t
         /\ KeyOf(h) \in Keys /\ StreamOf(h) \in Streams \cup {NoStream}
         /\ task[h].request \in Requests
<1>1. /\ task[h].at \notin {"idle", "done"} /\ t.at # "idle"
      /\ t = Finished \/ (t.request = task[h].request /\ t.at # "done")
  <2>1. CASE Early(h, t, d, v)
    BY <2>1, FinishedType DEF Early, Went
  <2>2. CASE Held(h, t, d, v)
    BY <2>2, FinishedType DEF Held, Went, Threw, Resumes
  <2>3. CASE Caught(h, t, d, v)
    BY <2>3, FinishedType DEF Caught, Went
  <2> QED BY <2>1, <2>2, <2>3 DEF Step
<1>2. task' \in [Handlers -> Task] /\ Others(h) /\ task'[h] = t
  BY DEF Shape, TypeOK, Step, Sets, Others
<1> QED BY <1>1, <1>2, Received

(* The order of the store's operations: one ends and one is issued.        *)
LEMMA QueueStep ==
  ASSUME Shape, NEW h \in Handlers, NEW t, InStore(h, t), Others(h), task'[h] = t
  PROVE  /\ Chain(storeQueue', Handlers)
         /\ \A g \in Handlers : g \in Range(storeQueue') <=> task'[g].at \in StorePlaces
         /\ \A f, g \in Handlers \ {h} :
              Ahead(storeQueue', f, g) <=> Ahead(storeQueue, f, g)
         /\ t.at \in StorePlaces =>
              \A g \in Handlers \ {h} : task[g].at \in StorePlaces => Ahead(storeQueue', g, h)
         /\ task[h].at \in StorePlaces => \A g : ~Ahead(storeQueue, g, h)
<1> DEFINE q == Rest(h)
<1>1. /\ Chain(storeQueue, Handlers)
      /\ \A g \in Handlers : g \in Range(storeQueue) <=> task[g].at \in StorePlaces
  BY DEF Shape, Chains
<1>2. /\ Chain(q, Handlers) /\ h \notin Range(q)
      /\ \A g \in Handlers \ {h} : g \in Range(q) <=> task[g].at \in StorePlaces
      /\ \A f, g \in Handlers \ {h} : Ahead(q, f, g) <=> Ahead(storeQueue, f, g)
      /\ task[h].at \in StorePlaces => \A g : ~Ahead(storeQueue, g, h)
  <2>1. CASE task[h].at \in StorePlaces
    <3>1. storeQueue # <<>> /\ Head(storeQueue) = h /\ q = Tail(storeQueue)
      BY <2>1 DEF InStore, Served, Rest
    <3>2. /\ Chain(Tail(storeQueue), Handlers)
          /\ Range(Tail(storeQueue)) = Range(storeQueue) \ {Head(storeQueue)}
          /\ \A f, g : Ahead(Tail(storeQueue), f, g)
                <=> Ahead(storeQueue, f, g) /\ f # Head(storeQueue) /\ g # Head(storeQueue)
      BY <1>1, <3>1, FirstLeft
    <3>3. \A g : ~Ahead(storeQueue, g, Head(storeQueue))
      BY <1>1, <3>1, FirstIsAhead
    <3> HIDE DEF q
    <3> QED BY <1>1, <3>1, <3>2, <3>3
  <2>2. CASE task[h].at \notin StorePlaces
    BY <1>1, <2>2 DEF Rest
  <2> QED BY <2>1, <2>2
<1>3. storeQueue' = IF t.at \in StorePlaces THEN Append(q, h) ELSE q
  BY DEF InStore
<1>4. \A g \in Handlers \ {h} : task'[g] = task[g]
  BY DEF Others
<1> HIDE DEF q
<1>5. CASE t.at \notin StorePlaces
  BY <1>2, <1>3, <1>4, <1>5
<1>6. CASE t.at \in StorePlaces
  <2>1. /\ Chain(Append(q, h), Handlers) /\ Range(Append(q, h)) = Range(q) \cup {h}
        /\ \A f, g : Ahead(Append(q, h), f, g)
                       <=> Ahead(q, f, g) \/ (f \in Range(q) /\ g = h)
    BY <1>2, Entered
  <2>2. storeQueue' = Append(q, h)
    BY <1>3, <1>6
  <2> QED BY <1>2, <1>4, <1>6, <2>1, <2>2
<1> QED BY <1>5, <1>6

(* The chain of the keys: it holds those who publish, and the first for a  *)
(* key holds it.                                                           *)
LEMMA KeyTailStep ==
  ASSUME Shape, NEW h \in Handlers, NEW t, InKeyTail(h, t), Others(h), task'[h] = t,
         t.at \in KeyPlaces => t.request = task[h].request
  PROVE  /\ Chain(keyTail', Handlers)
         /\ \A g \in Handlers : g \in Range(keyTail') <=> task'[g].at \in KeyPlaces
         /\ \A f, g \in Handlers : task'[g].at \in Holding /\ Ahead(keyTail', f, g) =>
              task'[f].request.key # task'[g].request.key
<1>1. /\ Chain(keyTail, Handlers)
      /\ \A g \in Handlers : g \in Range(keyTail) <=> task[g].at \in KeyPlaces
      /\ \A f, g \in Handlers : task[g].at \in Holding /\ Ahead(keyTail, f, g) =>
           task[f].request.key # task[g].request.key
  BY DEF Shape, Chains, KeyOf
<1>2. \A g \in Handlers \ {h} : task'[g] = task[g]
  BY DEF Others
<1>3. CASE task[h].at \notin KeyPlaces /\ t.at = "queued" /\ keyTail' = Append(keyTail, h)
  <2>1. /\ Chain(Append(keyTail, h), Handlers)
        /\ Range(Append(keyTail, h)) = Range(keyTail) \cup {h}
        /\ \A f, g : Ahead(Append(keyTail, h), f, g)
                       <=> Ahead(keyTail, f, g) \/ (f \in Range(keyTail) /\ g = h)
    BY <1>1, <1>3, Entered
  <2>2. t.at \in KeyPlaces /\ t.at \notin Holding
    BY <1>3 DEF KeyPlaces, Holding, Working
  <2>3. \A f, g \in Handlers : Ahead(keyTail, f, g) => f # h /\ g # h
    BY <1>1, <1>3, AheadIsInside
  <2> QED BY <1>1, <1>2, <1>3, <2>1, <2>2, <2>3
<1>4. CASE /\ task[h].at \in KeyPlaces /\ t.at \in KeyPlaces /\ keyTail' = keyTail
           /\ t.at \in Holding => task[h].at \in Holding \/ KeyTurn(h)
  <2>1. ASSUME NEW f \in Handlers, NEW g \in Handlers, task'[g].at \in Holding,
               Ahead(keyTail, f, g)
        PROVE  task'[f].request.key # task'[g].request.key
    <3>1. task'[f].request = task[f].request /\ task'[g].request = task[g].request
      BY <1>2, <1>4
    <3>2. task[g].at \in Holding => task[f].request.key # task[g].request.key
      BY <1>1, <2>1
    <3>3. CASE g = h /\ KeyTurn(h)
      <4>1. h \in Range(keyTail)
        BY <1>1, <1>4
      <4>2. \A x : x \in Before(keyTail, h) <=> Ahead(keyTail, x, h)
        BY <1>1, <4>1, AheadBefore DEF Before
      <4> QED BY <2>1, <3>1, <3>3, <4>2 DEF KeyTurn, KeyOf
    <3> QED BY <1>2, <1>4, <2>1, <3>1, <3>2, <3>3
  <2> QED BY <1>1, <1>2, <1>4, <2>1
<1>5. CASE task[h].at \notin KeyPlaces /\ t.at \notin KeyPlaces /\ keyTail' = keyTail
  <2>1. \A f, g \in Handlers : Ahead(keyTail, f, g) => f # h /\ g # h
    BY <1>1, <1>5, AheadIsInside
  <2> QED BY <1>1, <1>2, <1>5, <2>1
<1>6. CASE t.at \notin KeyPlaces /\ keyTail' = RemoveFirst(keyTail, h)
  <2>1. /\ Chain(RemoveFirst(keyTail, h), Handlers)
        /\ Range(RemoveFirst(keyTail, h)) = Range(keyTail) \ {h}
        /\ \A f, g : Ahead(RemoveFirst(keyTail, h), f, g)
                       <=> Ahead(keyTail, f, g) /\ f # h /\ g # h
    BY <1>1, LeftChain
  <2> QED BY <1>1, <1>2, <1>6, <2>1
<1> QED BY <1>3, <1>4, <1>5, <1>6 DEF InKeyTail

(* The chain of the lock keys, likewise.                                   *)
LEMMA LockTailStep ==
  ASSUME Shape, NEW h \in Handlers, NEW t, InLockTail(h, t), Others(h), task'[h] = t,
         t.at \in Working => t.request = task[h].request
  PROVE  /\ Chain(lockTail', Handlers)
         /\ \A g \in Handlers : g \in Range(lockTail') <=> Locked(g)'
         /\ \A f, g \in Handlers :
              Locked(g)' /\ task'[g].at # "blocked" /\ Ahead(lockTail', f, g) =>
                task'[f].request.stream # task'[g].request.stream
<1>1. /\ Chain(lockTail, Handlers)
      /\ \A g \in Handlers : g \in Range(lockTail) <=> Locked(g)
      /\ \A f, g \in Handlers :
           Locked(g) /\ task[g].at # "blocked" /\ Ahead(lockTail, f, g) =>
             task[f].request.stream # task[g].request.stream
  BY DEF Shape, Chains, StreamOf
<1>2. \A g \in Handlers \ {h} : task'[g] = task[g]
  BY DEF Others
<1>3. \A g \in Handlers \ {h} : Locked(g)' <=> Locked(g)
  BY <1>2 DEF Locked, StreamOf
<1>4. CASE /\ task[h].at \notin Working /\ t.at = "blocked" /\ StreamOf(h) # NoStream
           /\ lockTail' = Append(lockTail, h)
  <2>1. ~Locked(h) /\ Locked(h)'
    BY <1>4 DEF Locked, StreamOf, Working
  <2>2. /\ Chain(Append(lockTail, h), Handlers)
        /\ Range(Append(lockTail, h)) = Range(lockTail) \cup {h}
        /\ \A f, g : Ahead(Append(lockTail, h), f, g)
                       <=> Ahead(lockTail, f, g) \/ (f \in Range(lockTail) /\ g = h)
    BY <1>1, <2>1, Entered
  <2>3. \A f, g \in Handlers : Ahead(lockTail, f, g) => f # h /\ g # h
    BY <1>1, <2>1, AheadIsInside
  <2> QED BY <1>1, <1>2, <1>3, <1>4, <2>1, <2>2, <2>3
<1>5. CASE /\ task[h].at \in Working /\ t.at \in Working /\ lockTail' = lockTail
           /\ task[h].at = "blocked" => LockTurn(h)
           /\ t.at # "blocked"
  <2>1. Locked(h)' <=> Locked(h)
    BY <1>5 DEF Locked, StreamOf
  <2>2. ASSUME NEW f \in Handlers, NEW g \in Handlers, Locked(g), task'[g].at # "blocked",
               Ahead(lockTail, f, g)
        PROVE  task'[f].request.stream # task'[g].request.stream
    <3>1. task'[f].request = task[f].request /\ task'[g].request = task[g].request
      BY <1>2, <1>5
    <3>2. task[g].at # "blocked" => task[f].request.stream # task[g].request.stream
      BY <1>1, <2>2
    <3>3. CASE g = h /\ LockTurn(h)
      <4>1. h \in Range(lockTail)
        BY <1>1, <2>2, <3>3
      <4>2. \A x : x \in Before(lockTail, h) <=> Ahead(lockTail, x, h)
        BY <1>1, <4>1, AheadBefore DEF Before
      <4> QED BY <2>2, <3>1, <3>3, <4>2 DEF LockTurn, StreamOf
    <3> QED BY <1>2, <1>5, <2>2, <3>1, <3>2, <3>3
  <2> QED BY <1>1, <1>3, <1>5, <2>1, <2>2
<1>6. CASE /\ task[h].at \notin Working /\ lockTail' = lockTail
           /\ t.at \notin Working \/ StreamOf(h) = NoStream
  <2>1. ~Locked(h) /\ ~Locked(h)'
    BY <1>6 DEF Locked, StreamOf
  <2>2. \A f, g \in Handlers : Ahead(lockTail, f, g) => f # h /\ g # h
    BY <1>1, <2>1, AheadIsInside
  <2> QED BY <1>1, <1>2, <1>3, <1>6, <2>1, <2>2
<1>7. CASE t.at \notin Working /\ lockTail' = RemoveFirst(lockTail, h)
  <2>1. ~Locked(h)'
    BY <1>7 DEF Locked
  <2>2. /\ Chain(RemoveFirst(lockTail, h), Handlers)
        /\ Range(RemoveFirst(lockTail, h)) = Range(lockTail) \ {h}
        /\ \A f, g : Ahead(RemoveFirst(lockTail, h), f, g)
                       <=> Ahead(lockTail, f, g) /\ f # h /\ g # h
    BY <1>1, LeftChain
  <2> QED BY <1>1, <1>2, <1>3, <1>7, <2>1, <2>2
<1> QED BY <1>4, <1>5, <1>6, <1>7 DEF InLockTail

(* Types are kept.                                                         *)
LEMMA TypeStep ==
  ASSUME Shape, NEW h \in Handlers, NEW t, NEW d, NEW v, Step(h, t, d, v)
  PROVE  TypeOK'
<1> USE DEF Shape
<1>1. task' \in [Handlers -> Task]
  BY StepPlaces
<1>2. storeQueue' \in Seq(Handlers)
  BY StepPlaces, QueueStep DEF Step, InChains, Chain
<1>3. \A p \in KeyPlaces \cup Working : p # "done"
  BY DEF KeyPlaces, Holding, Working
<1>4. keyTail' \in Seq(Handlers)
  BY <1>3, StepPlaces, KeyTailStep, FinishedType DEF Step, InChains, Chain
<1>5. lockTail' \in Seq(Handlers)
  BY <1>3, StepPlaces, LockTailStep, FinishedType DEF Step, InChains, Chain
<1>6. builds' \in {0} \cup Stamps
  <2>1. CASE task[h].at = "attest"
    BY <2>1, NextStamp DEF Step, TypeOK, Past
  <2>2. CASE task[h].at # "attest"
    BY <2>2 DEF Step, TypeOK
  <2> QED BY <2>1, <2>2
<1>7. disk' \in [Keys -> Record \cup {None}] /\ volatile' \in [Keys -> ArtifactOrNone]
  BY DEF Step, Sets, TypeOK
<1>8. workload' \in Workloads /\ ipfs' \subseteq Artifact /\ failures' \in Nat /\ crashes' \in Nat
  BY DEF Step, TypeOK
<1> QED BY <1>1, <1>2, <1>4, <1>5, <1>6, <1>7, <1>8 DEF TypeOK

(* So is the order in the chains.                                          *)
LEMMA BuildsStep ==
  ASSUME Shape, NEW h \in Handlers, NEW t, NEW d, NEW v, Step(h, t, d, v)
  PROVE  builds' <= Cardinality(Past')
<1>1. Past' \subseteq Handlers /\ IsFiniteSet(Handlers) /\ Past \subseteq Handlers
  BY PublicationAssumption DEF Past
<1>2. IsFiniteSet(Past') /\ IsFiniteSet(Past)
  BY <1>1, FS_Subset
<1>3. Past \subseteq Past'
  <2>1. \A g \in Handlers \ {h} : task'[g] = task[g]
    BY StepPlaces DEF Others
  <2>2. h \in Past => t.at \in {"saveArtifact", "add", "persist", "pin", "savePinned", "failing",
                           "reread", "saveError", "done"}
    <3>1. CASE Early(h, t, d, v)
      BY <3>1 DEF Early, Past
    <3>2. CASE Held(h, t, d, v)
      <4>1. task[h].at = "saveArtifact" =>
              task[h].record.artifact # None /\ task[h].record.cid = None
        BY Works DEF RecordPlaces, RecordAt, RecordOf
      <4>2. task[h].at = "savePinned" => task[h].record.cid # None
        BY Works DEF RecordPlaces, RecordAt, RecordOf
      <4> QED BY <3>2, <4>1, <4>2, FinishedType DEF Held, Past, Went, Threw, Resumes
    <3>3. CASE Caught(h, t, d, v)
      BY <3>3, FinishedType DEF Caught, Past, Went
    <3> QED BY <3>1, <3>2, <3>3 DEF Step
  <2>3. task'[h] = t
    BY StepPlaces
  <2> QED BY <2>1, <2>2, <2>3 DEF Past
<1>4. /\ Cardinality(Past) <= Cardinality(Past') /\ Cardinality(Past) \in Nat
      /\ Cardinality(Past') \in Nat /\ builds <= Cardinality(Past)
  BY <1>1, <1>2, <1>3, FS_Subset, FS_CardinalityType DEF Shape, Chains
<1>5. builds \in Nat
  <2>1. Cardinality(Handlers) \in Nat
    BY <1>1, FS_CardinalityType
  <2> QED BY <2>1 DEF Shape, TypeOK, Stamps
<1>6. CASE task[h].at = "attest" /\ t.at = "saveArtifact"
  <2>1. h \notin Past /\ h \in Past'
    BY <1>6, StepPlaces DEF Past
  <2>2. Past \cup {h} \subseteq Past' /\ builds + 1 <= Cardinality(Past \cup {h})
    BY <1>3, <2>1, NextStamp
  <2>3. Cardinality(Past \cup {h}) <= Cardinality(Past')
    BY <1>2, <2>2, FS_Subset
  <2>4. Cardinality(Past \cup {h}) \in Nat
    BY <1>2, <2>2, FS_Subset, FS_CardinalityType
  <2>5. builds' = builds + 1
    BY <1>6 DEF Step
  <2> QED BY <1>4, <1>5, <2>2, <2>3, <2>4, <2>5
<1>7. CASE ~(task[h].at = "attest" /\ t.at = "saveArtifact")
  BY <1>4, <1>5, <1>7 DEF Step
<1> QED BY <1>6, <1>7

(* A handler's step keeps the promise chains in order.                     *)
LEMMA ChainsStep ==
  ASSUME Shape, NEW h \in Handlers, NEW t, NEW d, NEW v, Step(h, t, d, v)
  PROVE  Chains'
<1>1. /\ task[h].at \notin {"idle", "done"} /\ t.at # "idle" /\ Others(h) /\ task'[h] = t
      /\ t = Finished \/ (t.request = task[h].request /\ t.at # "done")
      /\ task[h].request \in Requests
  BY StepPlaces
<1>2. \A p \in KeyPlaces \cup Working : p # "done"
  BY DEF KeyPlaces, Holding, Working
<1>3. /\ Chain(storeQueue', Handlers)
      /\ \A g \in Handlers : g \in Range(storeQueue') <=> task'[g].at \in StorePlaces
  BY <1>1, QueueStep DEF Step, InChains
<1>4. /\ Chain(keyTail', Handlers)
      /\ \A g \in Handlers : g \in Range(keyTail') <=> task'[g].at \in KeyPlaces
      /\ \A f, g \in Handlers : task'[g].at \in Holding /\ Ahead(keyTail', f, g) =>
              task'[f].request.key # task'[g].request.key
  BY <1>1, <1>2, KeyTailStep, FinishedType DEF Step, InChains
<1>5. /\ Chain(lockTail', Handlers)
      /\ \A g \in Handlers : g \in Range(lockTail') <=> Locked(g)'
      /\ \A f, g \in Handlers :
              Locked(g)' /\ task'[g].at # "blocked" /\ Ahead(lockTail', f, g) =>
                task'[f].request.stream # task'[g].request.stream
  BY <1>1, <1>2, LockTailStep, FinishedType DEF Step, InChains
<1>6. \A g \in Handlers : task'[g].at \notin {"idle", "done"} => task'[g].request \in Requests
  BY <1>1, FinishedType DEF Shape, Chains, Others
<1> QED BY <1>3, <1>4, <1>5, <1>6, BuildsStep DEF Chains, KeyOf, StreamOf

(* What a step does to the records: of the handler, and of its key.        *)
LEMMA ResumedRecord ==
  ASSUME Shape, NEW h \in Handlers, task[h].at \in KeyPlaces \cup Catching,
         task[h].partial = None, NEW t, NEW r \in Record, r.request = task[h].request,
         Sound(r), Resumes(h, t, r)
  PROVE  RecordOf(t)
<1>1. task[h].request # None /\ r # None
  BY Received, NoneAssumption DEF KeyPlaces, Holding, Working, Catching
<1>2. volatile[KeyOf(h)] # None =>
        /\ volatile[KeyOf(h)] \in Artifact
        /\ volatile[KeyOf(h)].request = task[h].request
  BY OnDisk
<1>3. CASE t = Finished
  BY <1>3, FinishedType DEF RecordOf, RecordPlaces
<1>4. CASE /\ r.cid = None /\ volatile[KeyOf(h)] # None
           /\ Went(h, t, "persist", Persisting(r, volatile[KeyOf(h)])) /\ t.attempt = 1
  <2> DEFINE a == volatile[KeyOf(h)]
             p == Persisting(r, a)
  <2>1. /\ p \in Record /\ p.artifact = a /\ p.cid = a /\ p.request = r.request
        /\ p.pinned = r.pinned /\ p # None /\ a # None
    BY <1>2, <1>4, PersistingType, NoneAssumption
  <2>2. ~r.pinned
    BY <1>4 DEF Sound
  <2>3. /\ t.at = "persist" /\ t.record = p /\ t.request = r.request /\ t.partial = None
        /\ t.attempt = 1 /\ a.request = r.request
    BY <1>2, <1>4 DEF Went
  <2> HIDE DEF p, a
  <2> QED BY <2>1, <2>2, <2>3 DEF RecordOf, RecordPlaces, Sound
<1>5. CASE ~(t = Finished) /\ Went(h, t, t.at, r)
           /\ \/ r.artifact = None /\ t.at \in {"attest", "validate"}
              \/ r.cid = None /\ r.artifact # None /\ t.at = "add"
              \/ r.cid # None /\ ~r.pinned /\ t.at = "pin"
  BY <1>1, <1>5 DEF RecordOf, RecordPlaces, Went
<1> QED BY <1>3, <1>4, <1>5 DEF Resumes, Went

(* A handler's step leaves it with a sound record of its request.          *)
LEMMA TaskRecord ==
  ASSUME Shape, NEW h \in Handlers, NEW t, NEW d, NEW v, Step(h, t, d, v)
  PROVE  RecordOf(t)
<1>1. RecordAt(h) /\ task[h].at \notin {"idle", "done"} /\ task[h].request # None
  BY StepPlaces, Received DEF Shape, Records
<1>2. task[h].at \notin Catching => task[h].partial = None
  BY <1>1 DEF RecordAt, RecordOf
<1>3. CASE t = Finished
  BY <1>3, FinishedType DEF RecordOf, RecordPlaces
<1>4. CASE Early(h, t, d, v) /\ t # Finished
  BY <1>2, <1>4 DEF Early, Went, RecordOf, RecordPlaces, Catching
<1>5. CASE Held(h, t, d, v)
  <2>1. task[h].at \in KeyPlaces \cup Catching /\ task[h].at \notin Catching
    BY <1>5 DEF Held, KeyPlaces, Holding, Working, Catching
  <2>2. CASE task[h].at \in {"load", "reload"}
    <3>1. CASE Resumes(h, t, disk[KeyOf(h)])
      BY <1>2, <2>1, <3>1, OnDisk, ResumedRecord
    <3>2. CASE Went(h, t, "blocked", None)
      BY <1>2, <2>1, <3>2 DEF RecordOf, Went, RecordPlaces
    <3> QED BY <1>5, <2>2, <3>1, <3>2 DEF Held
  <2>3. CASE task[h].at = "blocked"
    BY <1>2, <1>5, <2>1, <2>3 DEF Held, RecordOf, Went, RecordPlaces
  <2>4. CASE task[h].at \in RecordPlaces
    <3> DEFINE r == task[h].record
    <3>1. r \in Record /\ r # None /\ r.request = task[h].request /\ Sound(r)
      BY <2>4, Works
    <3>2. CASE task[h].at \in {"saveArtifact", "savePinned"} /\ Resumes(h, t, r)
      BY <1>2, <2>1, <3>1, <3>2, ResumedRecord
    <3>3. CASE t.at = "failing"
      <4>1. t.request = task[h].request /\ t.record = None /\ t.partial \in {None, r.cid}
        BY <1>5, <3>3, <2>4, FinishedType DEF Held, Threw, Went, Resumes, RecordPlaces
      <4>2. r.cid # None => r.cid.request = r.request
        BY <3>1 DEF Sound
      <4> QED BY <3>1, <3>3, <4>1, <4>2 DEF RecordOf, RecordPlaces, Catching
    <3>4. CASE task[h].at = "validate" /\ Went(h, t, "attest", r)
      BY <1>1, <1>2, <2>1, <3>1, <3>4 DEF RecordAt, RecordOf, RecordPlaces, Went
    <3>5. CASE task[h].at = "attest" /\ t.at # "failing"
      <4> DEFINE a == [request |-> task[h].request, stamp |-> builds + 1]
                 p == [r EXCEPT !.artifact = a]
      <4>1. a \in Artifact /\ a # None /\ a.request = r.request
        <5>1. h \notin Past
          BY <3>5 DEF Past
        <5>2. task[h].request \in Requests
          BY <1>1, Received
        <5>3. a \in Artifact
          BY <5>1, <5>2, NextStamp DEF Artifact
        <5>4. a # None
          BY <5>3, NoneAssumption
        <5> QED BY <3>1, <5>3, <5>4
      <4> HIDE DEF a
      <4>2. /\ p \in Record /\ p.artifact = a /\ p.cid = r.cid /\ p.request = r.request
            /\ p.pinned = r.pinned
        BY <3>1, <4>1 DEF Record, ArtifactOrNone
      <4>3. Went(h, t, "saveArtifact", p)
        BY <1>5, <3>5 DEF Held, Threw, a
      <4>4. r.artifact = None /\ r.cid = None
        BY <1>1, <3>1, <3>5 DEF RecordAt, RecordOf, Sound
      <4>5. p # None
        BY <4>2, NoneAssumption
      <4> HIDE DEF p
      <4> QED BY <1>2, <2>1, <3>1, <4>1, <4>2, <4>3, <4>4, <4>5
          DEF RecordOf, RecordPlaces, Went, Sound
    <3>6. CASE task[h].at = "add" /\ t.at # "failing"
      <4> DEFINE a == r.artifact
                 p == Persisting(r, a)
      <4>1. a \in Artifact /\ a # None /\ r.cid = None
        BY <1>1, <3>1, <3>6 DEF RecordAt, RecordOf, Record, ArtifactOrNone
      <4>2. /\ p \in Record /\ p.artifact = a /\ p.cid = a /\ p.request = r.request
            /\ p.pinned = r.pinned /\ p # None
        BY <3>1, <4>1, PersistingType, NoneAssumption
      <4>3. Went(h, t, "persist", p) /\ t.attempt = 1
        BY <1>5, <3>6 DEF Held, Threw
      <4> HIDE DEF p
      <4> QED BY <1>2, <2>1, <3>1, <4>1, <4>2, <4>3
          DEF RecordOf, RecordPlaces, Went, Sound
    <3>7. CASE task[h].at = "persist" /\ t.at # "failing"
      <4>1. r.cid # None /\ ~r.pinned
        BY <1>1, <3>7 DEF RecordAt, RecordOf
      <4>2. Went(h, t, "pin", r) \/ (Went(h, t, "persist", r) /\ t.attempt = 2)
        BY <1>5, <3>7 DEF Held, Threw
      <4> QED BY <1>2, <2>1, <3>1, <4>1, <4>2 DEF RecordOf, RecordPlaces, Went
    <3>8. CASE task[h].at = "pin" /\ t.at # "failing"
      <4> DEFINE p == [r EXCEPT !.pinned = TRUE]
      <4>1. /\ p \in Record /\ p.artifact = r.artifact /\ p.cid = r.cid
            /\ p.request = r.request /\ p.pinned /\ p # None
        BY <3>1, NoneAssumption DEF Record
      <4>2. Went(h, t, "savePinned", p) /\ r.cid # None
        BY <1>1, <1>5, <3>8 DEF Held, Threw, RecordAt, RecordOf
      <4> HIDE DEF p
      <4> QED BY <1>2, <2>1, <3>1, <4>1, <4>2 DEF RecordOf, RecordPlaces, Went, Sound
    <3> QED BY <1>5, <2>4, <3>2, <3>3, <3>4, <3>5, <3>6, <3>7, <3>8
        DEF Held, RecordPlaces, Threw
  <2> QED BY <1>5, <2>2, <2>3, <2>4 DEF Held, RecordPlaces
<1>6. CASE Caught(h, t, d, v) /\ t # Finished
  <2>1. CASE task[h].at = "failing"
    <3>1. Went(h, t, "reread", None)
      BY <1>6, <2>1 DEF Caught
    <3> QED BY <1>1, <2>1, <3>1 DEF RecordAt, RecordOf, RecordPlaces, Went, Catching
  <2>2. CASE task[h].at = "reread"
    <3> DEFINE D == disk[KeyOf(h)]
               c == task[h].partial
               p == IF c = None THEN D ELSE Persisting(D, c)
    <3>1. D \in Record /\ D.request = task[h].request /\ Sound(D) /\ D # None
      BY <2>2, OnDisk DEF Catching
    <3>2. c # None => c \in Artifact /\ c.request = task[h].request
      BY <1>1, <2>2, Received DEF RecordAt, RecordOf, ArtifactOrNone
    <3>3. Went(h, t, "saveError", p)
      BY <1>6, <2>2 DEF Caught
    <3>4. /\ p # None /\ p.request = task[h].request /\ Sound(p) /\ (c # None => p.cid = c)
      <4>1. CASE c = None
        BY <3>1, <4>1
      <4>2. CASE c # None
        BY <3>1, <3>2, <4>2, PersistingType, NoneAssumption DEF Sound
      <4> QED BY <4>1, <4>2
    <3> HIDE DEF p
    <3> QED BY <3>2, <3>3, <3>4 DEF RecordOf, RecordPlaces, Went, Catching
  <2> QED BY <1>6, <2>1, <2>2 DEF Caught
<1> QED BY <1>3, <1>4, <1>5, <1>6 DEF Step

(* A handler's step keeps the owner of its key and leaves a sound record   *)
(* on disk.                                                                *)
LEMMA KeyRecord ==
  ASSUME Shape, NEW h \in Handlers, NEW t, NEW d, NEW v, Step(h, t, d, v)
  PROVE  /\ disk[KeyOf(h)] # None => d # None /\ d.request = disk[KeyOf(h)].request
         /\ d # None => d.request.key = KeyOf(h) /\ Sound(d)
         /\ v # None => d # None /\ v.request = d.request
         /\ t.at \in KeyPlaces \cup Catching => d # None /\ d.request = t.request
<1> DEFINE D == disk[KeyOf(h)]
           V == volatile[KeyOf(h)]
           r == task[h].record
<1>1. /\ task[h].at \notin {"idle", "done"} /\ KeyOf(h) \in Keys
      /\ t = Finished \/ (t.request = task[h].request /\ t.at # "done")
      /\ task[h].request \in Requests /\ task[h].request.key = KeyOf(h)
  BY StepPlaces DEF KeyOf
<1>2. /\ D # None => D.request.key = KeyOf(h) /\ Sound(D)
      /\ V # None => D # None /\ V.request = D.request
  BY <1>1 DEF Shape, Records
<1>3. task[h].at \in KeyPlaces \cup Catching => D # None /\ D.request = task[h].request
  BY OnDisk
<1>4. CASE d = D /\ v = V /\ ~Early(h, t, d, v)
  <2>1. task[h].at \in KeyPlaces \cup Catching
    BY <1>4 DEF Step, Held, Caught, KeyPlaces, Holding, Working, Catching
  <2> QED BY <1>1, <1>2, <1>3, <1>4, <2>1, FinishedType DEF KeyPlaces, Holding, Working, Catching
<1>5. CASE Early(h, t, d, v)
  <2>1. CASE d = D
    <3>1. t.at \in KeyPlaces \cup Catching => D # None /\ D.request = task[h].request
      <4>1. Fresh(task[h].request) # None
        <5>1. Fresh(task[h].request) \in Record
          BY <1>1 DEF Fresh, Record, ArtifactOrNone
        <5> QED BY <5>1, NoneAssumption
      <4> QED BY <1>3, <1>5, <2>1, <4>1, FinishedType
          DEF Early, KeyPlaces, Holding, Working, Catching, Went
    <3> QED BY <1>1, <1>2, <1>5, <2>1, <3>1, FinishedType
        DEF Early, KeyPlaces, Holding, Working, Catching
  <2>2. CASE D = None /\ d = Fresh(task[h].request)
    <3>1. d \in Record /\ d.request = task[h].request /\ Sound(d)
      BY <1>1, <2>2 DEF Fresh, Record, ArtifactOrNone, Sound
    <3> QED BY <1>1, <1>2, <1>5, <2>2, <3>1, NoneAssumption, FinishedType
        DEF Early, KeyPlaces, Holding, Working, Catching
  <2> QED BY <1>5, <2>1, <2>2 DEF Early
<1>6. CASE /\ task[h].at \in RecordPlaces /\ d = r /\ v \in {V, None}
  <2>1. r # None /\ r.request = task[h].request /\ Sound(r)
    BY <1>6, Works
  <2>2. D # None /\ D.request = task[h].request
    BY <1>3, <1>6 DEF RecordPlaces, KeyPlaces, Holding, Working, Catching
  <2> QED BY <1>1, <1>2, <1>6, <2>1, <2>2, FinishedType
      DEF KeyPlaces, Holding, Working, Catching
<1>7. CASE task[h].at = "add" /\ d = D /\ v = r.artifact
  <2>1. r.artifact.request = r.request /\ r.request = task[h].request
    <3>1. Sound(r) /\ RecordAt(h) /\ r.request = task[h].request
      BY <1>7, Works DEF RecordPlaces
    <3> QED BY <1>7, <3>1 DEF Sound, RecordAt, RecordOf
  <2>2. D # None /\ D.request = task[h].request
    BY <1>3, <1>7 DEF KeyPlaces, Holding, Working
  <2> QED BY <1>1, <1>2, <1>7, <2>1, <2>2, FinishedType
      DEF KeyPlaces, Holding, Working, Catching
<1>8. CASE Held(h, t, d, v)
  BY <1>4, <1>6, <1>7, <1>8 DEF Held, Early, RecordPlaces
<1>9. CASE Caught(h, t, d, v)
  BY <1>4, <1>6, <1>9 DEF Caught, Early, RecordPlaces
<1> QED BY <1>5, <1>8, <1>9 DEF Step

(* The answers are about requests and name CIDs.                           *)
LEMMA AnswerStep ==
  ASSUME Shape, NEW h \in Handlers, NEW t, NEW d, NEW v, Step(h, t, d, v)
  PROVE  \A x \in answers' : x.request \in Requests /\ x.cid \in ArtifactOrNone
<1>1. \A x \in answers : x.request \in Requests /\ x.cid \in ArtifactOrNone
  BY DEF Shape, Records
<1>2. /\ task[h].request \in Requests /\ disk[KeyOf(h)] \in Record \cup {None}
      /\ task[h].record \in Record \cup {None}
  BY StepPlaces, Received
<1>3. ASSUME NEW status, NEW cid \in ArtifactOrNone, Says(h, status, cid)
      PROVE  \A x \in answers' : x.request \in Requests /\ x.cid \in ArtifactOrNone
  BY <1>1, <1>2, <1>3 DEF Says, Reply
<1>4. \A r \in Record : r.cid \in ArtifactOrNone
  BY DEF Record
<1>5. CidOf(KeyOf(h)) \in ArtifactOrNone
  BY <1>2, <1>4 DEF CidOf, ArtifactOrNone
<1>6. task[h].at \in {"load", "reload"} => disk[KeyOf(h)] \in Record
  BY OnDisk DEF KeyPlaces, Holding, Working
<1>7. task[h].at \in RecordPlaces => task[h].record \in Record
  BY Works
<1>8. ASSUME NEW r \in Record, Resumes(h, t, r)
      PROVE  \A x \in answers' : x.request \in Requests /\ x.cid \in ArtifactOrNone
  BY <1>1, <1>3, <1>4, <1>8 DEF Resumes, Silent
<1>9. CASE Silent
  BY <1>1, <1>9 DEF Silent
<1>10. CASE Early(h, t, d, v)
  BY <1>3, <1>5, <1>9, <1>10 DEF Early
<1>11. CASE Held(h, t, d, v)
  BY <1>6, <1>7, <1>8, <1>9, <1>11 DEF Held, RecordPlaces
<1>12. CASE Caught(h, t, d, v)
  BY <1>3, <1>4, <1>7, <1>9, <1>12 DEF Caught, RecordPlaces
<1> QED BY <1>10, <1>11, <1>12 DEF Step

(* A handler's step keeps all records sound.                               *)
LEMMA RecordsStep ==
  ASSUME Shape, NEW h \in Handlers, NEW t, NEW d, NEW v, Step(h, t, d, v)
  PROVE  Records'
<1> DEFINE k == KeyOf(h)
<1>1. /\ task' \in [Handlers -> Task] /\ task'[h] = t /\ k \in Keys
      /\ \A g \in Handlers \ {h} : task'[g] = task[g]
      /\ t = Finished \/ t.request = task[h].request
      /\ task[h].request.key = k
  BY StepPlaces DEF Others, KeyOf
<1>2. /\ disk'[k] = d /\ volatile'[k] = v
      /\ \A j \in Keys \ {k} : disk'[j] = disk[j] /\ volatile'[j] = volatile[j]
  BY <1>1 DEF Step, Sets, Shape, TypeOK
<1>3. /\ disk[k] # None => d # None /\ d.request = disk[k].request
      /\ d # None => d.request.key = k /\ Sound(d)
      /\ v # None => d # None /\ v.request = d.request
      /\ t.at \in KeyPlaces \cup Catching => d # None /\ d.request = t.request
  BY KeyRecord
<1> HIDE DEF k
<1>4. \A j \in Keys : disk'[j] # None => disk'[j].request.key = j /\ Sound(disk'[j])
  <2>1. ASSUME NEW j \in Keys, NEW r, r = disk'[j], r # None
        PROVE  r.request.key = j /\ Sound(r)
    BY <1>2, <1>3, <2>1 DEF Shape, Records
  <2> QED BY <2>1
<1>5. \A j \in Keys : volatile'[j] # None =>
        disk'[j] # None /\ volatile'[j].request = disk'[j].request
  BY <1>2, <1>3 DEF Shape, Records
<1>6. \A g \in Handlers : task'[g].at \in KeyPlaces \cup Catching =>
        disk'[task'[g].request.key] # None /\ disk'[task'[g].request.key].request = task'[g].request
  <2>1. ASSUME NEW g \in Handlers \ {h}, task[g].at \in KeyPlaces \cup Catching
        PROVE  /\ disk'[task[g].request.key] # None
               /\ disk'[task[g].request.key].request = task[g].request
    <3>1. /\ disk[KeyOf(g)] # None /\ disk[KeyOf(g)].request = task[g].request
          /\ KeyOf(g) = task[g].request.key /\ KeyOf(g) \in Keys
      BY <2>1, Received DEF Shape, Records, KeyOf, KeyPlaces, Holding, Working, Catching
    <3> QED BY <1>2, <1>3, <3>1
  <2>2. t.at \in KeyPlaces \cup Catching => t # Finished
    BY FinishedType DEF KeyPlaces, Holding, Working, Catching
  <2> QED BY <1>1, <1>2, <1>3, <2>1, <2>2
<1>7. \A g \in Handlers : RecordOf(task'[g])
  <2>1. ASSUME NEW g \in Handlers, NEW u, u = task'[g] PROVE RecordOf(u)
    BY <1>1, <2>1, TaskRecord DEF Shape, Records, RecordAt
  <2> QED BY <2>1
<1>8. \A x \in answers' : x.request \in Requests /\ x.cid \in ArtifactOrNone
  BY AnswerStep
<1> QED BY <1>4, <1>5, <1>6, <1>7, <1>8 DEF Records, RecordAt, RecordOf, Sound, KeyOf

(* A handler's step, an arrival and a crash keep the shape of the state.   *)
LEMMA ArriveShape ==
  ASSUME Shape, NEW h \in Handlers, NEW q \in workload, Arrives(h, q)
  PROVE  Shape'
<1> DEFINE t == [task[h] EXCEPT !.at = "lookup", !.request = q]
<1>1. /\ task[h].at = "idle" /\ TypeOK /\ q \in Requests /\ storeQueue' = Append(storeQueue, h)
      /\ UNCHANGED <<workload, disk, volatile, keyTail, lockTail, ipfs, builds, answers,
                     failures, crashes>>
  BY PublicationAssumption DEF Arrives, Receive, Shape, TypeOK
<1>2. t \in Task /\ t.at = "lookup" /\ t.request = q /\ t.record = task[h].record
      /\ t.partial = task[h].partial
  BY <1>1 DEF TypeOK, Task, Places
<1>3. task' = [task EXCEPT ![h] = t]
  BY <1>1 DEF Arrives, Receive, TypeOK
<1> HIDE DEF t
<1>4. /\ task' \in [Handlers -> Task] /\ task'[h] = t /\ Others(h)
      /\ \A g \in Handlers \ {h} : task'[g] = task[g]
  BY <1>1, <1>2, <1>3 DEF TypeOK, Others
<1>5. /\ t.at \in StorePlaces /\ t.at \notin KeyPlaces \cup Catching \cup RecordPlaces
      /\ t.at \notin Working /\ task[h].at \notin KeyPlaces \cup StorePlaces \cup Catching
      /\ task[h].at \notin Working /\ task[h].at \notin RecordPlaces
  BY <1>1, <1>2 DEF StorePlaces, KeyPlaces, Holding, Working, Catching, RecordPlaces
<1>6. InStore(h, t)
  BY <1>1, <1>5 DEF InStore, Rest
<1>7. /\ Chain(storeQueue', Handlers)
      /\ \A g \in Handlers : g \in Range(storeQueue') <=> task'[g].at \in StorePlaces
  BY <1>4, <1>6, QueueStep
<1>8. InKeyTail(h, t) /\ InLockTail(h, t)
  BY <1>1, <1>5 DEF InKeyTail, InLockTail
<1>9. /\ Chain(keyTail', Handlers)
      /\ \A g \in Handlers : g \in Range(keyTail') <=> task'[g].at \in KeyPlaces
      /\ \A f, g \in Handlers : task'[g].at \in Holding /\ Ahead(keyTail', f, g) =>
           task'[f].request.key # task'[g].request.key
  BY <1>4, <1>5, <1>8, KeyTailStep
<1>10. /\ Chain(lockTail', Handlers)
       /\ \A g \in Handlers : g \in Range(lockTail') <=> Locked(g)'
       /\ \A f, g \in Handlers :
            Locked(g)' /\ task'[g].at # "blocked" /\ Ahead(lockTail', f, g) =>
              task'[f].request.stream # task'[g].request.stream
  BY <1>4, <1>5, <1>8, LockTailStep
<1>11. TypeOK'
  BY <1>1, <1>4, <1>7, <1>9, <1>10 DEF TypeOK, Chain
<1>12. Past' = Past
  BY <1>1, <1>2, <1>4 DEF Past
<1>13. Chains'
  <2>1. \A g \in Handlers : task'[g].at \notin {"idle", "done"} => task'[g].request \in Requests
    BY <1>1, <1>2, <1>4 DEF Shape, Chains
  <2>2. builds' <= Cardinality(Past')
    BY <1>1, <1>12 DEF Shape, Chains
  <2> QED BY <1>7, <1>9, <1>10, <2>1, <2>2 DEF Chains, KeyOf, StreamOf
<1>14. Records'
  <2>1. \A g \in Handlers : RecordOf(task'[g])
    <3>1. RecordOf(t)
      <4>1. RecordOf(task[h])
        BY DEF Shape, Records, RecordAt
      <4>2. t.record = None /\ t.partial = None
        BY <1>2, <1>5, <4>1 DEF RecordOf
      <4> QED BY <1>2, <1>5, <4>2 DEF RecordOf, RecordPlaces, Catching
    <3> QED BY <1>4, <3>1 DEF Shape, Records, RecordAt
  <2>2. \A g \in Handlers : task'[g].at \in KeyPlaces \cup Catching =>
          /\ disk'[task'[g].request.key] # None
          /\ disk'[task'[g].request.key].request = task'[g].request
    BY <1>1, <1>4, <1>5 DEF Shape, Records, KeyOf
  <2>3. /\ \A k \in Keys : disk[k] # None => disk[k].request.key = k /\ Sound(disk[k])
        /\ \A k \in Keys : volatile[k] # None =>
             disk[k] # None /\ volatile[k].request = disk[k].request
        /\ \A a \in answers : a.request \in Requests /\ a.cid \in ArtifactOrNone
    BY DEF Shape, Records
  <2>4. disk' = disk /\ volatile' = volatile /\ answers' = answers
    BY <1>1
  <2> QED BY <2>1, <2>2, <2>3, <2>4 DEF Records, RecordAt, RecordOf, KeyOf, Sound
<1> QED BY <1>11, <1>13, <1>14 DEF Shape

(* A crash empties the chains and keeps the state file.                    *)
LEMMA CrashShape ==
  ASSUME Shape, Crash, UNCHANGED workload
  PROVE  Shape'
<1>1. /\ task' = [h \in Handlers |-> IF task[h].at = "idle" THEN Idle ELSE Finished]
      /\ volatile' = [k \in Keys |-> None] /\ crashes' = crashes + 1
      /\ storeQueue' = <<>> /\ keyTail' = <<>> /\ lockTail' = <<>>
      /\ UNCHANGED <<disk, ipfs, builds, answers, failures>>
  BY DEF Crash
<1>2. /\ task' \in [Handlers -> Task]
      /\ \A h \in Handlers :
           /\ task'[h].at \in {"idle", "done"} /\ task'[h].record = None
           /\ task'[h].partial = None /\ (task[h].at # "idle" => task'[h].at = "done")
  BY <1>1, FinishedType
<1>3. /\ Chain(storeQueue', Handlers) /\ Range(storeQueue') = {}
      /\ Chain(keyTail', Handlers) /\ Range(keyTail') = {}
      /\ Chain(lockTail', Handlers) /\ Range(lockTail') = {}
      /\ \A f, g : ~Ahead(keyTail', f, g) /\ ~Ahead(lockTail', f, g)
  BY <1>1, EmptyChain
<1>4. {"idle", "done"} \cap (StorePlaces \cup KeyPlaces \cup Catching \cup RecordPlaces) = {}
  BY DEF StorePlaces, KeyPlaces, Holding, Working, Catching, RecordPlaces
<1>5. TypeOK'
  <2>1. volatile' \in [Keys -> ArtifactOrNone]
    BY <1>1 DEF ArtifactOrNone
  <2> QED BY <1>1, <1>2, <1>3, <2>1 DEF Shape, TypeOK, Chain
<1>6. builds' <= Cardinality(Past')
  <2>1. Past \subseteq Past' /\ Past' \subseteq Handlers /\ IsFiniteSet(Handlers)
    BY <1>2, PublicationAssumption DEF Past
  <2>2. /\ Cardinality(Past) <= Cardinality(Past') /\ Cardinality(Past) \in Nat
        /\ Cardinality(Past') \in Nat /\ Cardinality(Handlers) \in Nat
    BY <2>1, FS_Subset, FS_CardinalityType
  <2>3. builds \in Nat /\ builds <= Cardinality(Past)
    BY <2>2 DEF Shape, TypeOK, Chains, Stamps
  <2> QED BY <1>1, <2>2, <2>3
<1>7. Chains'
  <2>1. \A h \in Handlers : ~Locked(h)'
    BY <1>2, <1>4 DEF Locked, KeyPlaces, Holding
  <2> QED BY <1>2, <1>3, <1>4, <1>6, <2>1 DEF Chains, KeyPlaces, Holding
<1>8. Records'
  <2>1. \A h \in Handlers : RecordOf(task'[h])
    BY <1>2, <1>4 DEF RecordOf, RecordPlaces
  <2>2. /\ \A k \in Keys : disk[k] # None => disk[k].request.key = k /\ Sound(disk[k])
        /\ \A k \in Keys : volatile'[k] = None
        /\ \A a \in answers : a.request \in Requests /\ a.cid \in ArtifactOrNone
    BY <1>1 DEF Shape, Records
  <2> QED BY <1>1, <1>2, <1>4, <2>1, <2>2 DEF Records, RecordAt, RecordOf, Sound
<1> QED BY <1>5, <1>7, <1>8 DEF Shape

(* The node starts with empty chains and no records.                       *)
LEMMA ShapeInit ==
  ASSUME Init
  PROVE  Shape
<1>1. /\ \A h \in Handlers : task[h] = Idle /\ RecordOf(task[h])
      /\ \A k \in Keys : disk[k] = None /\ volatile[k] = None
      /\ answers = {} /\ builds = 0
  BY FinishedType DEF Init, RecordOf, RecordPlaces
<1>2. /\ Chain(storeQueue, Handlers) /\ Range(storeQueue) = {}
      /\ Chain(keyTail, Handlers) /\ Range(keyTail) = {}
      /\ Chain(lockTail, Handlers) /\ Range(lockTail) = {}
  BY EmptyChain DEF Init
<1>3. TypeOK
  BY <1>2, FinishedType DEF Init, TypeOK, Chain, ArtifactOrNone
<1>4. "idle" \notin StorePlaces \cup KeyPlaces \cup Catching
  BY DEF StorePlaces, KeyPlaces, Holding, Working, Catching
<1>5. builds <= Cardinality(Past)
  <2>1. Past \subseteq Handlers /\ IsFiniteSet(Handlers)
    BY PublicationAssumption DEF Past
  <2>2. Cardinality(Past) \in Nat
    BY <2>1, FS_Subset, FS_CardinalityType
  <2> QED BY <1>1, <2>2
<1>6. Chains
  BY <1>1, <1>2, <1>4, <1>5, FinishedType DEF Chains, Locked, KeyPlaces, Holding
<1>7. Records
  BY <1>1, <1>4, FinishedType DEF Records, RecordAt
<1> QED BY <1>3, <1>6, <1>7 DEF Shape

(* Nothing changes when nothing happens.                                   *)
LEMMA ShapeStutter ==
  ASSUME Shape, UNCHANGED vars
  PROVE  Shape'
<1>1. TypeOK'
  BY DEF vars, Shape, TypeOK
<1>2. Chains'
  BY DEF vars, Shape, Chains, Past, KeyOf, StreamOf, Locked
<1>3. Records'
  BY DEF vars, Shape, Records, RecordAt, RecordOf, Sound, KeyOf
<1> QED BY <1>1, <1>2, <1>3 DEF Shape

(* Every step keeps types, chains and records in shape.                    *)
LEMMA ShapeNext ==
  ASSUME Shape, [Next]_vars
  PROVE  Shape'
<1>1. ASSUME NEW h \in Handlers, NEW t, NEW d, NEW v, Step(h, t, d, v) PROVE Shape'
  BY <1>1, TypeStep, ChainsStep, RecordsStep DEF Shape
<1> QED BY <1>1, NextSteps, ArriveShape, CrashShape, ShapeStutter

(* Types: a handler is at one of its places with a record of its request,  *)
(* the artifacts built never outnumber the handlers.                       *)
LEMMA ShapeInvariant == Spec => []Shape
<1>1. Init => Shape
  BY ShapeInit
<1>2. Shape /\ [Next]_vars => Shape'
  BY ShapeNext
<1> QED BY <1>1, <1>2, PTL DEF Spec

(* The type invariant of the node (message-publication-api.js over         *)
(* message-publication-store.js): every handler is at one of its places,   *)
(* with a record of its own request.                                       *)
THEOREM PublicationTypes == Spec => []TypeOK
<1>1. Shape => TypeOK
  BY DEF Shape
<1> QED BY <1>1, ShapeInvariant, PTL

-----------------------------------------------------------------------------
(* A key has one handler that works on it.                                 *)
LEMMA OneHolder ==
  ASSUME Shape, NEW g \in Handlers, NEW h \in Handlers, task[g].at \in Holding,
         task[h].at \in Holding, KeyOf(g) = KeyOf(h)
  PROVE  g = h
<1>1. Chain(keyTail, Handlers) /\ g \in Range(keyTail) /\ h \in Range(keyTail)
  BY DEF Shape, Chains, KeyPlaces
<1>2. ~Ahead(keyTail, g, h) /\ ~Ahead(keyTail, h, g)
  BY DEF Shape, Chains
<1> QED BY <1>1, <1>2, OneIsAhead

(* What the other handlers of the key may be doing, and the order of their *)
(* operations and the step's.                                              *)
LEMMA StepOrder ==
  ASSUME Shape, NEW h \in Handlers, NEW t, NEW d, NEW v, Step(h, t, d, v)
  PROVE  /\ task'[h] = t /\ \A g \in Handlers \ {h} : task'[g] = task[g]
         /\ KeyOf(h) \in Keys /\ disk'[KeyOf(h)] = d /\ volatile'[KeyOf(h)] = v
         /\ \A j \in Keys \ {KeyOf(h)} : disk'[j] = disk[j] /\ volatile'[j] = volatile[j]
         /\ t = Finished \/ t.request.key = KeyOf(h)
         /\ \A f, g \in Handlers \ {h} : Precedes(f, g)' <=> Precedes(f, g)
         /\ t.at \in StorePlaces =>
              \A g \in Handlers \ {h} : task[g].at \in StorePlaces => Precedes(g, h)'
         /\ task[h].at \in StorePlaces => \A g \in Handlers : ~Precedes(g, h)
         /\ task[h].at \in Holding =>
              \A g \in Handlers \ {h} : ~Is(KeyOf(h), g, Holding)
         /\ task[h].at \notin {"queued", "blocked", "failing"} =>
              \A g \in Handlers : task[g].at # "failing"
<1>1. /\ task' \in [Handlers -> Task] /\ task'[h] = t /\ KeyOf(h) \in Keys
      /\ \A g \in Handlers \ {h} : task'[g] = task[g]
      /\ t = Finished \/ t.request.key = KeyOf(h)
  BY StepPlaces DEF Others, KeyOf
<1>2. /\ disk'[KeyOf(h)] = d /\ volatile'[KeyOf(h)] = v
      /\ \A j \in Keys \ {KeyOf(h)} : disk'[j] = disk[j] /\ volatile'[j] = volatile[j]
  BY <1>1 DEF Step, Sets, Shape, TypeOK
<1>3. /\ \A f, g \in Handlers \ {h} : Precedes(f, g)' <=> Precedes(f, g)
      /\ t.at \in StorePlaces =>
           \A g \in Handlers \ {h} : task[g].at \in StorePlaces => Precedes(g, h)'
      /\ task[h].at \in StorePlaces => \A g \in Handlers : ~Precedes(g, h)
  BY <1>1, QueueStep DEF Step, InChains, Others, Precedes
<1>4. task[h].at \in Holding => \A g \in Handlers \ {h} : ~Is(KeyOf(h), g, Holding)
  BY OneHolder DEF Is
<1>5. task[h].at \notin {"queued", "blocked", "failing"} =>
        \A g \in Handlers : task[g].at # "failing"
  BY DEF Step, Drained, Ready
<1> QED BY <1>1, <1>2, <1>3, <1>4, <1>5

(* What a key's invariants speak of stays as it is.                        *)
Active == Holding \cup Catching
Same(k) ==
  /\ disk'[k] = disk[k] /\ volatile'[k] = volatile[k]
  /\ \A g \in Handlers :
       task'[g] = task[g] \/ (~Is(k, g, Active) /\ ~Is(k, g, Active)')
  /\ \A f, g \in Handlers :
       Is(k, f, Active) /\ Is(k, g, Active) => (Precedes(f, g)' <=> Precedes(f, g))

(* The order of catch blocks and the holder depends on nothing else.       *)
LEMMA SameCatches ==
  ASSUME NEW k \in Keys, Same(k), Catches(k)
  PROVE  Catches(k)'
  BY DEF Same, Catches, Is, Free, Active, Holding, Working, Catching, KeyOf

(* So does the absence of a CID.                                           *)
LEMMA SameUnnamed ==
  ASSUME NEW k \in Keys, Same(k), Unnamed(k)
  PROVE  Unnamed(k)'
<1>1. volatile'[k] = None /\ CidOf(k)' = None
  BY DEF Same, Unnamed, CidOf
<1>2. Free(k, {"persist", "pin", "savePinned"})'
  BY DEF Same, Unnamed, Is, Free, Active, Holding, Working, Catching, KeyOf
<1>3. \A h \in Handlers : Is(k, h, Catching)' => task'[h].partial = None
  BY DEF Same, Unnamed, Is, Active, KeyOf
<1>4. \A h \in Handlers : Is(k, h, {"saveError"})' => task'[h].record.cid = None
  BY DEF Same, Unnamed, Is, Active, Catching, KeyOf
<1>5. \/ \A g \in Handlers :
           Is(k, g, {"saveError"})' => task'[g].record.artifact = disk'[k].artifact
      \/ SavedBeforeRead(k)'
  BY DEF Same, Unnamed, Is, Active, Catching, Holding, Working, KeyOf, SavedBeforeRead
<1>6. \A h \in Handlers : Is(k, h, {"add"})' =>
       \/ Free(k, {"reread"})'
       \/ /\ disk'[k].artifact = task'[h].record.artifact
          /\ \A g \in Handlers :
               Is(k, g, {"saveError"})' => task'[g].record.artifact = disk'[k].artifact
  BY DEF Same, Unnamed, Is, Free, Active, Catching, Holding, Working, KeyOf
<1> QED BY <1>1, <1>2, <1>3, <1>4, <1>5, <1>6 DEF Unnamed

(* So does the safety of a CID.                                            *)
LEMMA SameNamed ==
  ASSUME NEW k \in Keys, NEW a, Same(k), Named(k, a)
  PROVE  Named(k, a)'
<1>1. /\ volatile'[k] \in {None, a} /\ CidOf(k)' \in {None, a}
      /\ disk'[k] # None /\ (volatile'[k] = a \/ CidOf(k)' = a) /\ CidOf(k)' = CidOf(k)
  BY DEF Same, Named, CidOf
<1>2. Free(k, {"validate", "attest", "saveArtifact", "add"})'
  BY DEF Same, Named, Is, Free, Active, Holding, Working, Catching, KeyOf
<1>3. \A h \in Handlers :
        Is(k, h, {"persist", "pin", "savePinned", "saveError"})' => task'[h].record.cid = a
  BY DEF Same, Named, Is, Active, Holding, Working, Catching, KeyOf
<1>4. \A h \in Handlers : Is(k, h, Catching)' => task'[h].partial \in {None, a}
  BY DEF Same, Named, Is, Active, Catching, KeyOf
<1>5. \A h \in Handlers : Is(k, h, {"pin", "savePinned"})' => CidOf(k)' = a
  BY <1>1 DEF Same, Named, Is, Active, Holding, Working, KeyOf
<1>6. \A h \in Handlers :
        Is(k, h, {"reread", "failing"})' => task'[h].partial = a \/ CidOf(k)' = a
  BY <1>1 DEF Same, Named, Is, Active, Catching, KeyOf
<1> QED BY <1>1, <1>2, <1>3, <1>4, <1>5, <1>6 DEF Named

(* So does a contested CID.                                                *)
LEMMA SameContested ==
  ASSUME NEW k \in Keys, NEW a, Same(k), Contested(k, a)
  PROVE  Contested(k, a)'
<1> USE DEF Active, Holding, Working, Catching, KeyOf
<1>1. /\ volatile'[k] \in {None, a} /\ CidOf(k)' \in {None, a}
      /\ disk'[k] # None /\ ~disk'[k].pinned /\ (volatile'[k] = a \/ disk'[k].artifact = a)
      /\ CidOf(k)' = CidOf(k)
  BY DEF Same, Contested, CidOf
<1>2. Free(k, {"validate", "attest", "saveArtifact"})'
  BY DEF Same, Contested, Is, Free
<1>3. \A h \in Handlers :
        Is(k, h, {"add", "persist", "pin", "savePinned"})' => task'[h].record.artifact = a
  BY DEF Same, Contested, Is
<1>4. \A h \in Handlers : Is(k, h, Catching)' => task'[h].partial = None
  BY DEF Same, Contested, Is
<1>5. \A h \in Handlers : Is(k, h, {"saveError"})' => task'[h].record.cid = None
  BY DEF Same, Contested, Is
<1>6. CidOf(k)' = a => SavedBeforeRead(k)'
  BY <1>1 DEF Same, Contested, Is, SavedBeforeRead
<1>7. \A g \in Handlers : Lossy(k, a, g)' <=> Lossy(k, a, g)
  BY DEF Same, Is, Lossy
<1>8. \A g \in Handlers : Lossy(k, a, g)' =>
        \E h \in Handlers : Is(k, h, {"persist"})' /\ Precedes(g, h)'
  <2>1. ASSUME NEW g \in Handlers, Lossy(k, a, g)'
        PROVE  \E h \in Handlers : Is(k, h, {"persist"})' /\ Precedes(g, h)'
    <3>1. PICK h \in Handlers : Is(k, h, {"persist"}) /\ Precedes(g, h)
      BY <1>7, <2>1 DEF Contested
    <3>2. Is(k, g, Active) /\ Is(k, h, Active)
      BY <1>7, <2>1, <3>1 DEF Is, Lossy
    <3> QED BY <3>1, <3>2 DEF Same, Is
  <2> QED BY <2>1
<1>9. \A h \in Handlers : Is(k, h, {"reread", "failing", "add", "pin", "savePinned"})' =>
        disk'[k].artifact = a /\ \A g \in Handlers : ~Lossy(k, a, g)'
  BY <1>7 DEF Same, Contested, Is
<1>10. \A h \in Handlers : Is(k, h, {"add"})' => CidOf(k)' = None
  BY <1>1 DEF Same, Contested, Is
<1>11. \A h \in Handlers : Is(k, h, {"persist"})' => volatile'[k] = a
  BY DEF Same, Contested, Is
<1>12. \A h \in Handlers : Is(k, h, {"pin", "savePinned"})' =>
        (CidOf(k)' = a /\ Free(k, {"saveError"})') \/ Free(k, {"reread", "failing"})'
  BY <1>1 DEF Same, Contested, Is, Free
<1>13. \A g, h \in Handlers :
        Is(k, g, {"saveError"})' /\ Is(k, h, {"savePinned"})' => Precedes(g, h)'
  BY DEF Same, Contested, Is
<1> QED BY <1>1, <1>2, <1>3, <1>4, <1>5, <1>6, <1>8, <1>9, <1>10, <1>11, <1>12, <1>13
    DEF Contested

(* A handler's step leaves every other key as it is.                       *)
LEMMA StepSame ==
  ASSUME Shape, NEW h \in Handlers, NEW t, NEW d, NEW v, Step(h, t, d, v),
         NEW k \in Keys, k # KeyOf(h)
  PROVE  Same(k)
<1>1. /\ task'[h] = t /\ \A g \in Handlers \ {h} : task'[g] = task[g]
      /\ \A j \in Keys \ {KeyOf(h)} : disk'[j] = disk[j] /\ volatile'[j] = volatile[j]
      /\ t = Finished \/ t.request.key = KeyOf(h)
      /\ \A f, g \in Handlers \ {h} : Precedes(f, g)' <=> Precedes(f, g)
  BY StepOrder
<1>2. ~Is(k, h, Active) /\ ~Is(k, h, Active)'
  <2>1. t = Finished => t.at \notin Active
    BY FinishedType DEF Active, Holding, Working, Catching
  <2> QED BY <1>1, <2>1 DEF Is, KeyOf
<1> QED BY <1>1, <1>2 DEF Same

(* A request that arrives leaves every key as it is.                       *)
LEMMA ArriveSame ==
  ASSUME Shape, NEW h \in Handlers, NEW q \in workload, Arrives(h, q), NEW k \in Keys
  PROVE  Same(k)
<1> DEFINE t == [task[h] EXCEPT !.at = "lookup", !.request = q]
<1>1. /\ task[h].at = "idle" /\ TypeOK /\ storeQueue' = Append(storeQueue, h)
      /\ UNCHANGED <<disk, volatile>>
  BY DEF Arrives, Receive, Shape
<1>2. t.at = "lookup"
  BY <1>1 DEF TypeOK, Task
<1>3. task' = [task EXCEPT ![h] = t]
  BY <1>1 DEF Arrives, Receive, TypeOK
<1> HIDE DEF t
<1>4. task'[h] = t /\ \A g \in Handlers \ {h} : task'[g] = task[g]
  BY <1>1, <1>3 DEF TypeOK
<1>5. ~Is(k, h, Active) /\ ~Is(k, h, Active)'
  BY <1>1, <1>2, <1>4 DEF Is, Active, Holding, Working, Catching
<1>6. InStore(h, t)
  BY <1>1, <1>2 DEF InStore, Rest, StorePlaces
<1>7. \A f, g \in Handlers \ {h} : Precedes(f, g)' <=> Precedes(f, g)
  BY <1>4, <1>6, QueueStep DEF Others, Precedes
<1> QED BY <1>1, <1>4, <1>5, <1>7 DEF Same

(* On the way to its turn a handler disturbs nothing, except that it may   *)
(* write the first record.                                                 *)
LEMMA EarlySame ==
  ASSUME Shape, NEW h \in Handlers, NEW t, NEW d, NEW v, Step(h, t, d, v),
         Early(h, t, d, v), t.at # "load", d = disk[KeyOf(h)]
  PROVE  Same(KeyOf(h))
<1>1. /\ task'[h] = t /\ \A g \in Handlers \ {h} : task'[g] = task[g]
      /\ disk'[KeyOf(h)] = d /\ volatile'[KeyOf(h)] = v
      /\ \A f, g \in Handlers \ {h} : Precedes(f, g)' <=> Precedes(f, g)
  BY StepOrder
<1>2. ~Is(KeyOf(h), h, Active) /\ t.at \notin Active
  BY FinishedType DEF Early, Went, Is, Active, Holding, Working, Catching
<1>3. \A g \in Handlers :
        task'[g] = task[g] \/ (~Is(KeyOf(h), g, Active) /\ ~Is(KeyOf(h), g, Active)')
  <2>1. task'[h].at \notin Active
    BY <1>1, <1>2
  <2> QED BY <1>1, <1>2, <2>1 DEF Is
<1>4. v = volatile[KeyOf(h)]
  BY DEF Early
<1> QED BY <1>1, <1>2, <1>3, <1>4 DEF Same

(* The first record of a key has no CID.                                   *)
LEMMA FirstRecord ==
  ASSUME Shape, NEW h \in Handlers, NEW t, NEW d, NEW v, Step(h, t, d, v),
         Early(h, t, d, v), disk[KeyOf(h)] = None, d = Fresh(task[h].request),
         t.at = "queued", NEW k, k = KeyOf(h)
  PROVE  Catches(k)' /\ Unnamed(k)'
<1>1. /\ task'[h] = t /\ \A g \in Handlers \ {h} : task'[g] = task[g]
      /\ disk'[k] = d /\ volatile'[k] = v /\ k \in Keys
  BY StepOrder
<1>2. \A g \in Handlers : ~Is(k, g, KeyPlaces \cup Catching)
  BY OnDisk DEF Is
<1>3. \A g \in Handlers : ~Is(k, g, Active)'
  BY <1>1, <1>2 DEF Is, KeyOf, Active, KeyPlaces, Holding, Working, Catching
<1>4. v = None /\ d # None /\ d.cid = None /\ d.artifact = None
  <2>1. v = None
    BY <1>1 DEF Early, Shape, Records
  <2>2. d \in Record
    BY StepPlaces DEF Fresh, Record, ArtifactOrNone
  <2> QED BY <2>1, <2>2, NoneAssumption DEF Fresh
<1>5. Catches(k)'
  BY <1>3 DEF Catches, Is, Active, Holding
<1>6. volatile'[k] = None /\ CidOf(k)' = None
  BY <1>1, <1>4 DEF CidOf
<1>7. \A g \in Handlers, places \in SUBSET Active : ~Is(k, g, places)'
  BY <1>3 DEF Is
<1> QED BY <1>3, <1>5, <1>6 DEF Unnamed, Is, Free, Active, Holding, Working, Catching

(* The handler whose turn has come loads the record after what catch       *)
(* blocks have been writing.                                               *)
LEMMA Loads ==
  ASSUME Shape, NEW h \in Handlers, NEW t, NEW d, NEW v, Step(h, t, d, v),
         Early(h, t, d, v), t.at = "load", NEW k, k = KeyOf(h), Catches(k)
  PROVE  /\ Catches(k)' /\ (Unnamed(k) => Unnamed(k)')
         /\ \A a \in Artifact :
              (Contested(k, a) => Contested(k, a)') /\ (Named(k, a) => Named(k, a)')
<1>1. /\ task'[h] = t /\ \A g \in Handlers \ {h} : task'[g] = task[g]
      /\ disk'[k] = d /\ volatile'[k] = v /\ k \in Keys
      /\ \A f, g \in Handlers \ {h} : Precedes(f, g)' <=> Precedes(f, g)
      /\ t.at \in StorePlaces =>
           \A g \in Handlers \ {h} : task[g].at \in StorePlaces => Precedes(g, h)'
  BY StepOrder
<1>2. d = disk[k] /\ v = volatile[k] /\ task[h].at = "queued"
  BY FinishedType DEF Early, Went
<1>3. CidOf(k)' = CidOf(k)
  BY <1>1, <1>2 DEF CidOf
<1>4. \A g \in Handlers : Is(k, g, {"saveError", "reread"}) => g # h /\ Precedes(g, h)'
  BY <1>1, <1>2 DEF Is, StorePlaces
<1> USE DEF Holding, Working, Catching, KeyOf, Is, Free
<1>5. Catches(k)'
  BY <1>1, <1>2 DEF Catches
<1>6. SavedBeforeRead(k) => SavedBeforeRead(k)'
  BY <1>1, <1>2, <1>4 DEF SavedBeforeRead
<1>7. ASSUME Unnamed(k) PROVE Unnamed(k)'
  BY <1>1, <1>2, <1>3, <1>6, <1>7 DEF Unnamed
<1>8. ASSUME NEW a \in Artifact, Contested(k, a) PROVE Contested(k, a)'
  <2>1. \A g \in Handlers : Lossy(k, a, g)' <=> Lossy(k, a, g)
    BY <1>1, <1>2 DEF Lossy
  <2>2. \A g \in Handlers : Lossy(k, a, g)' =>
          \E f \in Handlers : Is(k, f, {"persist"})' /\ Precedes(g, f)'
    BY <1>1, <1>2, <1>8, <2>1 DEF Contested, Lossy
  <2>3. /\ volatile'[k] \in {None, a} /\ CidOf(k)' \in {None, a}
        /\ disk'[k] # None /\ ~disk'[k].pinned /\ (volatile'[k] = a \/ disk'[k].artifact = a)
        /\ Free(k, {"validate", "attest", "saveArtifact"})'
        /\ \A g \in Handlers :
             Is(k, g, {"add", "persist", "pin", "savePinned"})' => task'[g].record.artifact = a
        /\ \A g \in Handlers : Is(k, g, Catching)' => task'[g].partial = None
        /\ \A g \in Handlers : Is(k, g, {"saveError"})' => task'[g].record.cid = None
    BY <1>1, <1>2, <1>3, <1>8 DEF Contested
  <2>4. /\ CidOf(k)' = a => SavedBeforeRead(k)'
        /\ \A g \in Handlers : Is(k, g, {"reread", "failing", "add", "pin", "savePinned"})' =>
             disk'[k].artifact = a /\ \A f \in Handlers : ~Lossy(k, a, f)'
        /\ \A g \in Handlers : Is(k, g, {"add"})' => CidOf(k)' = None
        /\ \A g \in Handlers : Is(k, g, {"persist"})' => volatile'[k] = a
    BY <1>1, <1>2, <1>3, <1>6, <1>8, <2>1 DEF Contested
  <2>5. /\ \A g \in Handlers : Is(k, g, {"pin", "savePinned"})' =>
             (CidOf(k)' = a /\ Free(k, {"saveError"})') \/ Free(k, {"reread", "failing"})'
        /\ \A f, g \in Handlers :
             Is(k, f, {"saveError"})' /\ Is(k, g, {"savePinned"})' => Precedes(f, g)'
    BY <1>1, <1>2, <1>3, <1>8 DEF Contested
  <2> QED BY ONLY <2>2, <2>3, <2>4, <2>5 DEF Contested
<1>9. ASSUME NEW a \in Artifact, Named(k, a) PROVE Named(k, a)'
  BY <1>1, <1>2, <1>3, <1>9 DEF Named
<1> QED BY <1>5, <1>7, <1>8, <1>9

(* The handler that holds the key finds no other one but in catch blocks,  *)
(* which have all been started, and which have read the record when it is  *)
(* served by the store again.                                              *)
LEMMA HeldAlone ==
  ASSUME Shape, NEW h \in Handlers, NEW t, NEW d, NEW v, Step(h, t, d, v),
         Held(h, t, d, v), NEW k, k = KeyOf(h), Catches(k)
  PROVE  /\ task[h].at \in Holding /\ \A g \in Handlers \ {h} : ~Is(k, g, Holding)
         /\ Free(k, {"failing"})
         /\ task[h].at \in Working \cap StorePlaces => Free(k, {"reread"})
<1>1. task[h].at \in Holding
  BY DEF Held, Holding, Working
<1>2. \A g \in Handlers \ {h} : ~Is(k, g, Holding)
  BY <1>1, StepOrder
<1>3. Free(k, {"failing"})
  <2>1. CASE task[h].at = "blocked"
    BY <2>1 DEF Catches, Is, Working
  <2>2. CASE task[h].at # "blocked"
    BY <1>1, <2>2, StepOrder DEF Free, Is, Holding, Working
  <2> QED BY <2>1, <2>2
<1>4. task[h].at \in Working \cap StorePlaces => Free(k, {"reread"})
  BY StepOrder DEF Catches, Is, Free
<1> QED BY <1>1, <1>2, <1>3, <1>4

(* The holder's step keeps the order of catch blocks and holder.           *)
LEMMA HeldCatches ==
  ASSUME Shape, NEW h \in Handlers, NEW t, NEW d, NEW v, Step(h, t, d, v),
         Held(h, t, d, v), NEW k, k = KeyOf(h), Catches(k)
  PROVE  Catches(k)'
<1>1. /\ task'[h] = t /\ \A g \in Handlers \ {h} : task'[g] = task[g]
      /\ \A f, g \in Handlers \ {h} : Precedes(f, g)' <=> Precedes(f, g)
      /\ t.at \in StorePlaces =>
           \A g \in Handlers \ {h} : task[g].at \in StorePlaces => Precedes(g, h)'
  BY StepOrder
<1>2. /\ task[h].at \in Holding /\ \A g \in Handlers \ {h} : ~Is(k, g, Holding)
      /\ Free(k, {"failing"})
      /\ task[h].at \in Working \cap StorePlaces => Free(k, {"reread"})
  BY HeldAlone
<1>3. ASSUME NEW f \in Handlers, Is(k, f, Working)' PROVE f = h /\ t.at \in Working
  BY <1>1, <1>2, <1>3 DEF Is, KeyOf, Holding
<1>4. ASSUME t.at \in Working PROVE Free(k, {"failing"})'
  BY <1>1, <1>2, <1>4 DEF Free, Is, KeyOf, Working
<1>5. ASSUME t.at \in Working, t.at \in StorePlaces
      PROVE  \A g \in Handlers : Is(k, g, {"reread"})' => Precedes(g, h)'
  BY <1>1, <1>5 DEF Is, KeyOf, Working, StorePlaces
<1>6. ASSUME t.at = "persist", t.attempt = 2
      PROVE  /\ Free(k, {"reread"})'
             /\ \A g \in Handlers : Is(k, g, {"saveError"})' => Precedes(g, h)'
  <2>1. task[h].at = "persist"
    BY <1>6, FinishedType DEF Held, Went, Threw, Resumes
  <2>2. Free(k, {"reread"})
    BY <1>2, <2>1 DEF Working, StorePlaces
  <2> QED BY <1>1, <1>6, <2>2 DEF Is, KeyOf, Free, StorePlaces
<1> QED BY <1>1, <1>3, <1>4, <1>5, <1>6 DEF Catches

(* So does the step of a catch block.                                      *)
LEMMA CaughtCatches ==
  ASSUME Shape, NEW h \in Handlers, NEW t, NEW d, NEW v, Step(h, t, d, v),
         Caught(h, t, d, v), NEW k, k = KeyOf(h), Catches(k)
  PROVE  Catches(k)'
<1>1. /\ task'[h] = t /\ \A g \in Handlers \ {h} : task'[g] = task[g]
      /\ \A f, g \in Handlers \ {h} : Precedes(f, g)' <=> Precedes(f, g)
  BY StepOrder
<1>2. \/ task[h].at = "failing" /\ t.at = "reread"
      \/ task[h].at = "reread" /\ t.at = "saveError"
      \/ task[h].at = "saveError" /\ t.at = "done"
  BY FinishedType DEF Caught, Went
<1>3. ASSUME NEW f \in Handlers, Is(k, f, Working)'
      PROVE  f # h /\ Is(k, f, Working) /\ task'[f] = task[f] /\ task[h].at # "failing"
  <2>1. f # h /\ Is(k, f, Working)
    BY <1>1, <1>2, <1>3 DEF Is, KeyOf, Working
  <2>2. Free(k, {"failing"})
    BY <2>1 DEF Catches
  <2>3. task[h].at # "failing"
    BY <2>2 DEF Free, Is
  <2> QED BY <1>1, <2>1, <2>3
<1>4. ASSUME NEW f \in Handlers, Is(k, f, Working)'
      PROVE  /\ Free(k, {"failing"})'
             /\ task'[f].at \in StorePlaces =>
                  \A g \in Handlers : Is(k, g, {"reread"})' => Precedes(g, f)'
             /\ task'[f].at = "persist" /\ task'[f].attempt = 2 =>
                  /\ Free(k, {"reread"})'
                  /\ \A g \in Handlers : Is(k, g, {"saveError"})' => Precedes(g, f)'
  <2>1. /\ f # h /\ Is(k, f, Working) /\ task'[f] = task[f]
        /\ t.at \in {"saveError", "done"}
    BY <1>2, <1>3, <1>4
  <2>2. Free(k, {"failing"}) /\ Free(k, {"failing"})'
    BY <1>1, <2>1 DEF Catches, Free, Is, KeyOf
  <2>3. ASSUME task[f].at \in StorePlaces, NEW g \in Handlers, Is(k, g, {"reread"})'
        PROVE  Precedes(g, f)'
    BY <1>1, <2>1, <2>3 DEF Catches, Is, KeyOf
  <2>4. ASSUME task[f].at = "persist", task[f].attempt = 2
        PROVE  /\ Free(k, {"reread"})'
               /\ \A g \in Handlers : Is(k, g, {"saveError"})' => Precedes(g, f)'
    <3>1. /\ Free(k, {"reread"})
          /\ \A g \in Handlers : Is(k, g, {"saveError"}) => Precedes(g, f)
      BY <2>1, <2>4 DEF Catches
    <3>2. t.at = "done"
      BY <1>2, <1>3, <1>4, <3>1 DEF Free, Is
    <3> QED BY <1>1, <2>1, <3>1, <3>2 DEF Free, Is, KeyOf
  <2> QED BY <2>1, <2>2, <2>3, <2>4
<1> QED BY <1>4 DEF Catches

(* The holder of a key without a CID leaves it without one, or adds the    *)
(* artifact to IPFS while catch blocks are still to be written back.       *)
LEMMA UnnamedHeld ==
  ASSUME Shape, NEW h \in Handlers, NEW t, NEW d, NEW v, Step(h, t, d, v),
         Held(h, t, d, v), NEW k, k = KeyOf(h), Catches(k), Unnamed(k)
  PROVE  Unnamed(k)' \/ \E a \in Artifact : Contested(k, a)'
<1> DEFINE r == task[h].record
           D == disk[k]
<1>1. /\ task'[h] = t /\ \A g \in Handlers \ {h} : task'[g] = task[g]
      /\ disk'[k] = d /\ volatile'[k] = v /\ k \in Keys
      /\ \A f, g \in Handlers \ {h} : Precedes(f, g)' <=> Precedes(f, g)
      /\ t.at \in StorePlaces =>
           \A g \in Handlers \ {h} : task[g].at \in StorePlaces => Precedes(g, h)'
      /\ task[h].at \in StorePlaces => \A g \in Handlers : ~Precedes(g, h)
  BY StepOrder
<1>2. /\ task[h].at \in Holding /\ \A g \in Handlers \ {h} : ~Is(k, g, Holding)
      /\ Free(k, {"failing"})
      /\ task[h].at \in Working \cap StorePlaces => Free(k, {"reread"})
  BY HeldAlone
<1>3. D \in Record /\ D # None /\ Sound(D) /\ volatile[k] = None /\ D.cid = None
  BY <1>2, OnDisk DEF KeyPlaces, Unnamed, CidOf
<1>4. ~D.pinned
  BY <1>3 DEF Sound
<1>5. task[h].partial = None /\ task[h].at \notin {"persist", "pin", "savePinned"}
  <2>1. task[h].at \notin {"persist", "pin", "savePinned"}
    BY DEF Unnamed, Free, Is
  <2>2. RecordAt(h)
    BY DEF Shape, Records
  <2>3. task[h].partial = None
    BY <1>2, <2>2 DEF RecordAt, RecordOf, Holding, Working, Catching
  <2> QED BY <2>1, <2>3
<1>6. task[h].at \in {"saveArtifact", "add"} =>
        r \in Record /\ r.artifact \in Artifact /\ r.artifact # None /\ r.cid = None
  <2>1. task[h].at \in {"saveArtifact", "add"} => r \in Record /\ r.artifact # None /\ r.cid = None
    BY Works DEF RecordAt, RecordOf, RecordPlaces
  <2> QED BY <2>1 DEF Record, ArtifactOrNone
<1> USE DEF Holding, Working, Catching, KeyOf, Is, Free
(* Steps that leave the record and all catch blocks as they are.           *)
<1>7. ASSUME d = D, v = None, t.at \in {"blocked", "reload", "validate", "attest", "saveArtifact",
                                        "failing"}, t.partial = None
      PROVE  Unnamed(k)'
  <2>1. volatile'[k] = None /\ CidOf(k)' = None /\ disk'[k] = disk[k]
    BY <1>1, <1>3, <1>7 DEF CidOf
  <2>2. Free(k, {"persist", "pin", "savePinned"})' /\ Free(k, {"add"})'
    BY <1>1, <1>2, <1>7
  <2>3. \A g \in Handlers : Is(k, g, Catching)' => task'[g].partial = None
    BY <1>1, <1>7 DEF Unnamed
  <2>4. \A g \in Handlers : Is(k, g, {"saveError"})' =>
          Is(k, g, {"saveError"}) /\ task'[g] = task[g]
    BY <1>1, <1>7
  <2>5. \A g \in Handlers : Is(k, g, {"saveError"})' => task'[g].record.cid = None
    BY <2>4 DEF Unnamed
  <2>6. SavedBeforeRead(k) => SavedBeforeRead(k)'
    BY <1>1, <1>7 DEF SavedBeforeRead
  <2>7. \/ \A g \in Handlers :
             Is(k, g, {"saveError"})' => task'[g].record.artifact = disk'[k].artifact
        \/ SavedBeforeRead(k)'
    BY <2>1, <2>4, <2>6 DEF Unnamed
  <2> QED BY <2>1, <2>2, <2>3, <2>5, <2>7 DEF Unnamed
(* The artifact is there: it is handed to IPFS.                            *)
<1>8. ASSUME d \in Record, d # None, d.cid = None, d.artifact # None, v = None,
             Went(h, t, "add", d),
             \/ task[h].at = "saveArtifact"
             \/ task[h].at \in {"load", "reload"} /\ d = D
      PROVE  Unnamed(k)'
  <2>1. volatile'[k] = None /\ CidOf(k)' = None /\ disk'[k] = d
    BY <1>1, <1>8 DEF CidOf
  <2>2. t.at = "add" /\ t.partial = None /\ t.record = d
    BY <1>5, <1>8 DEF Went
  <2>3. Free(k, {"persist", "pin", "savePinned"})'
    BY <1>1, <1>2, <2>2
  <2>4. \A g \in Handlers : Is(k, g, {"saveError"})' =>
          g # h /\ Is(k, g, {"saveError"}) /\ task'[g] = task[g]
    BY <1>1, <2>2
  <2>5. /\ \A g \in Handlers : Is(k, g, Catching)' => task'[g].partial = None
        /\ \A g \in Handlers : Is(k, g, {"saveError"})' => task'[g].record.cid = None
    BY <1>1, <2>2, <2>4 DEF Unnamed
  <2>6. CASE task[h].at \in {"saveArtifact", "reload"}
    <3>1. Free(k, {"reread"})' /\ Free(k, {"load"})'
      BY <1>1, <1>2, <2>2, <2>6 DEF StorePlaces
    <3>2. SavedBeforeRead(k)'
      BY <3>1 DEF SavedBeforeRead
    <3> QED BY <2>1, <2>3, <2>5, <3>1, <3>2 DEF Unnamed
  <2>7. CASE task[h].at = "load"
    <3>1. SavedBeforeRead(k) => Free(k, {"saveError"})
      BY <1>1, <2>7 DEF SavedBeforeRead, StorePlaces
    <3>2. \A g \in Handlers :
            Is(k, g, {"saveError"}) => task[g].record.artifact = disk[k].artifact
      BY <3>1 DEF Unnamed
    <3>3. \A g \in Handlers :
            Is(k, g, {"saveError"})' => task'[g].record.artifact = disk'[k].artifact
      BY <1>8, <2>1, <2>4, <2>7, <3>2
    <3>4. \A g \in Handlers : Is(k, g, {"add"})' => g = h
      BY <1>1, <1>2
    <3>5. disk'[k].artifact = task'[h].record.artifact
      BY <1>1, <2>1, <2>2
    <3> QED BY <2>1, <2>3, <2>5, <3>3, <3>4, <3>5 DEF Unnamed
  <2> QED BY <1>8, <2>6, <2>7
(* IPFS has answered.                                                      *)
<1>9. ASSUME task[h].at = "add", Went(h, t, "persist", Persisting(r, r.artifact)), d = D,
             v = r.artifact, NEW a, a = r.artifact
      PROVE  Contested(k, a)'
  <2>1. /\ t.at = "persist" /\ t.partial = None /\ t.record.artifact = a
        /\ a \in Artifact /\ a # None
    BY <1>5, <1>6, <1>9, PersistingType DEF Went
  <2>2. /\ volatile'[k] = a /\ CidOf(k)' = None /\ disk'[k] = D /\ disk'[k] # None
        /\ ~disk'[k].pinned
    BY <1>1, <1>3, <1>4, <1>9 DEF CidOf
  <2>3. Free(k, {"validate", "attest", "saveArtifact", "failing", "add", "pin", "savePinned"})'
    BY <1>1, <1>2, <2>1
  <2>4. \A g \in Handlers : Is(k, g, {"persist"})' => g = h
    BY <1>1, <1>2
  <2>5. \A g \in Handlers : Is(k, g, {"saveError"})' =>
          g # h /\ Is(k, g, {"saveError"}) /\ task'[g] = task[g] /\ Precedes(g, h)'
    BY <1>1, <2>1 DEF StorePlaces
  <2>6. /\ \A g \in Handlers : Is(k, g, Catching)' => task'[g].partial = None
        /\ \A g \in Handlers : Is(k, g, {"saveError"})' => task'[g].record.cid = None
    BY <1>1, <2>1, <2>5 DEF Unnamed
  <2>7. \A g \in Handlers :
          Is(k, g, {"add", "persist", "pin", "savePinned"})' => task'[g].record.artifact = a
    BY <1>1, <2>1, <2>3, <2>4
  <2>8. \A g \in Handlers : Lossy(k, a, g)' =>
          \E f \in Handlers : Is(k, f, {"persist"})' /\ Precedes(g, f)'
    <3>1. Is(k, h, {"persist"})'
      BY <1>1, <1>9, <2>1 DEF Went
    <3> QED BY <2>5, <3>1 DEF Lossy
  <2>9. \A g \in Handlers : Is(k, g, {"reread", "failing", "add", "pin", "savePinned"})' =>
          disk'[k].artifact = a /\ \A f \in Handlers : ~Lossy(k, a, f)'
    <3>1. ASSUME NEW g \in Handlers, Is(k, g, {"reread", "failing", "add", "pin", "savePinned"})'
          PROVE  disk'[k].artifact = a /\ \A f \in Handlers : ~Lossy(k, a, f)'
      <4>1. Is(k, g, {"reread"})
        BY <1>1, <2>1, <2>3, <3>1
      <4>2. ~Free(k, {"reread"})
        BY <4>1
      <4>3. /\ disk[k].artifact = a
            /\ \A f \in Handlers :
                 Is(k, f, {"saveError"}) => task[f].record.artifact = disk[k].artifact
        BY <1>9, <4>2 DEF Unnamed
      <4> QED BY <2>2, <2>5, <4>3 DEF Lossy
    <3> QED BY <3>1
  <2>10. CidOf(k)' # a
    BY <2>1, <2>2
  <2> QED BY ONLY <2>2, <2>3, <2>4, <2>6, <2>7, <2>8, <2>9, <2>10 DEF Contested, Is, Free
<1> HIDE DEF Holding, Working, Catching, KeyOf, Is, Free
<1>10. ASSUME Resumes(h, t, D), task[h].at \in {"load", "reload"}, d = D, v = None
       PROVE  Unnamed(k)'
  BY <1>3, <1>5, <1>7, <1>8, <1>10 DEF Resumes, Went
<1>11. ASSUME Resumes(h, t, r), task[h].at = "saveArtifact", d = r, v = None
       PROVE  Unnamed(k)'
  <2>1. Went(h, t, "add", r) /\ r # None
    BY <1>3, <1>6, <1>11, Works DEF Resumes, RecordPlaces
  <2> QED BY <1>6, <1>8, <1>11, <2>1
<1>12. CASE t.at = "failing" /\ d = D /\ v = None /\ Threw(h, t, None)
  BY <1>7, <1>12 DEF Threw
<1> QED
  <2>1. CASE task[h].at \in {"load", "blocked", "validate", "attest"} /\ d = D /\ v = None
             /\ \E p \in {"blocked", "reload", "attest", "saveArtifact"} : \E s : Went(h, t, p, s)
    BY <1>5, <1>7, <2>1 DEF Went
  <2>2. CASE task[h].at = "add" /\ Went(h, t, "persist", Persisting(r, r.artifact)) /\ d = D
             /\ v = r.artifact
    <3>1. PICK a \in Artifact : a = r.artifact
      BY <1>6, <2>2
    <3>2. Contested(k, a)'
      BY <1>9, <2>2, <3>1
    <3> QED BY <3>1, <3>2
  <2> QED BY <1>3, <1>5, <1>10, <1>11, <1>12, <2>1, <2>2 DEF Held, Threw

(* The holder of a key whose CID is contested leaves it contested or gives *)
(* it its CID for good: by the last write, or by its last failed attempt.  *)
LEMMA ContestedHeld ==
  ASSUME Shape, NEW h \in Handlers, NEW t, NEW d, NEW v, Step(h, t, d, v),
         Held(h, t, d, v), NEW k, k = KeyOf(h), Catches(k), NEW a \in Artifact, Contested(k, a)
  PROVE  Contested(k, a)' \/ Named(k, a)'
<1> DEFINE r == task[h].record
           D == disk[k]
           V == volatile[k]
<1>1. /\ task'[h] = t /\ \A g \in Handlers \ {h} : task'[g] = task[g]
      /\ disk'[k] = d /\ volatile'[k] = v /\ k \in Keys
      /\ \A f, g \in Handlers \ {h} : Precedes(f, g)' <=> Precedes(f, g)
      /\ t.at \in StorePlaces =>
           \A g \in Handlers \ {h} : task[g].at \in StorePlaces => Precedes(g, h)'
      /\ task[h].at \in StorePlaces => \A g \in Handlers : ~Precedes(g, h)
  BY StepOrder
<1>2. /\ task[h].at \in Holding /\ \A g \in Handlers \ {h} : ~Is(k, g, Holding)
      /\ Free(k, {"failing"})
      /\ task[h].at \in Working \cap StorePlaces => Free(k, {"reread"})
  BY HeldAlone
<1>3. a # None
  BY NoneAssumption
<1>4. /\ D \in Record /\ D # None /\ Sound(D) /\ V \in {None, a} /\ D.cid \in {None, a}
      /\ ~D.pinned /\ (V = a \/ D.artifact = a) /\ (D.cid = a => D.artifact = a)
      /\ CidOf(k) = D.cid
  BY <1>2, <1>3, OnDisk DEF KeyPlaces, Contested, CidOf, Sound
<1>5. task[h].partial = None /\ task[h].at \notin {"validate", "attest", "saveArtifact"}
  <2>1. task[h].at \notin {"validate", "attest", "saveArtifact"}
    BY DEF Contested, Free, Is
  <2>2. RecordAt(h)
    BY DEF Shape, Records
  <2>3. task[h].partial = None
    BY <1>2, <2>2 DEF RecordAt, RecordOf, Holding, Working, Catching
  <2> QED BY <2>1, <2>3
<1>6. task[h].at \in {"add", "persist", "pin", "savePinned"} =>
        /\ r \in Record /\ r # None /\ Sound(r) /\ RecordAt(h) /\ r.artifact = a
        /\ r.cid # None => r.cid = a
  <2>1. task[h].at \in {"add", "persist", "pin", "savePinned"} => r.artifact = a
    BY DEF Contested, Is
  <2> QED BY <2>1, Works DEF RecordPlaces, Sound
<1> USE DEF Holding, Working, Catching, KeyOf, Is, Free
<1>7. task[h].at \in StorePlaces => \A g \in Handlers : ~Lossy(k, a, g)
  <2>1. ASSUME task[h].at \in StorePlaces, NEW g \in Handlers, Lossy(k, a, g) PROVE FALSE
    <3>1. PICK f \in Handlers : Is(k, f, {"persist"}) /\ Precedes(g, f)
      BY <2>1 DEF Contested
    <3>2. f = h
      BY <1>2, <3>1
    <3> QED BY <1>1, <2>1, <3>1, <3>2
  <2> QED BY <2>1
<1>8. \A g \in Handlers : ~Lossy(k, a, g)
  <2>1. CASE task[h].at \in {"add", "pin", "savePinned"}
    BY <2>1 DEF Contested
  <2>2. CASE task[h].at \in {"load", "reload", "persist"}
    BY <1>7, <2>2 DEF StorePlaces
  <2>3. CASE task[h].at = "blocked"
    <3>1. Free(k, {"persist"})
      BY <1>2, <2>3
    <3> QED BY <3>1 DEF Contested
  <2> QED BY <1>2, <1>5, <2>1, <2>2, <2>3
(* Steps that leave the record on disk as it is.                           *)
<1>9. ASSUME d = D, v \in {V, a}, t.partial = None,
             \/ t.at \in {"blocked", "reload"}
             \/ t.at = "persist" /\ v = a /\ t.record.artifact = a
             \/ t.at = "add" /\ D.cid = None /\ D.artifact = a /\ t.record.artifact = a
             \/ /\ t.at \in {"pin", "savePinned"} /\ D.artifact = a /\ t.record.artifact = a
                /\ (D.cid = a /\ Free(k, {"saveError"})) \/ Free(k, {"reread", "failing"})
             \/ t.at = "failing" /\ D.artifact = a
      PROVE  Contested(k, a)'
  <2>1. /\ volatile'[k] \in {None, a} /\ CidOf(k)' = D.cid /\ disk'[k] = D /\ disk'[k] # None
        /\ ~disk'[k].pinned /\ (volatile'[k] = a \/ disk'[k].artifact = a)
        /\ CidOf(k)' \in {None, a}
    BY <1>1, <1>4, <1>9 DEF CidOf
  <2>2. Free(k, {"validate", "attest", "saveArtifact"})'
    BY <1>1, <1>2, <1>9
  <2>3. \A g \in Handlers :
          Is(k, g, {"add", "persist", "pin", "savePinned"})' => g = h /\ t.record.artifact = a
    BY <1>1, <1>2, <1>9
  <2>4. \A g \in Handlers : Is(k, g, {"saveError"})' =>
          g # h /\ Is(k, g, {"saveError"}) /\ task'[g] = task[g]
    BY <1>1, <1>9
  <2>5. /\ \A g \in Handlers : Is(k, g, Catching)' => task'[g].partial = None
        /\ \A g \in Handlers : Is(k, g, {"saveError"})' => task'[g].record.cid = None
    BY <1>1, <1>9, <2>4 DEF Contested
  <2>6. SavedBeforeRead(k) => SavedBeforeRead(k)'
    BY <1>1, <1>9 DEF SavedBeforeRead
  <2>7. CidOf(k)' = a => SavedBeforeRead(k)'
    BY <1>4, <2>1, <2>6 DEF Contested
  <2>8. \A g \in Handlers : ~Lossy(k, a, g)'
    BY <1>8, <2>4 DEF Lossy
  <2>9. \A g \in Handlers : Is(k, g, {"reread", "failing", "add", "pin", "savePinned"})' =>
          disk'[k].artifact = a
    <3>1. ASSUME NEW g \in Handlers,
                 Is(k, g, {"reread", "failing", "add", "pin", "savePinned"})'
          PROVE  disk'[k].artifact = a
      <4>1. CASE g = h
        BY <1>1, <1>9, <2>1, <3>1, <4>1
      <4>2. CASE g # h
        <5>1. Is(k, g, {"reread"})
          BY <1>1, <1>2, <3>1, <4>2
        <5>2. disk[k].artifact = a
          BY <5>1 DEF Contested
        <5> QED BY <2>1, <5>2
      <4> QED BY <4>1, <4>2
    <3> QED BY <3>1
  <2>10. \A g \in Handlers : Is(k, g, {"add"})' => CidOf(k)' = None
    BY <1>1, <1>2, <1>9, <2>1
  <2>11. \A g \in Handlers : Is(k, g, {"persist"})' => volatile'[k] = a
    BY <1>1, <1>2, <1>9
  <2>12. \A g \in Handlers : Is(k, g, {"pin", "savePinned"})' =>
           (CidOf(k)' = a /\ Free(k, {"saveError"})') \/ Free(k, {"reread", "failing"})'
    <3>1. ASSUME NEW g \in Handlers, Is(k, g, {"pin", "savePinned"})'
          PROVE  t.at \in {"pin", "savePinned"}
      BY <1>1, <1>2, <3>1
    <3>2. ASSUME t.at \in {"pin", "savePinned"}, D.cid = a, Free(k, {"saveError"})
          PROVE  CidOf(k)' = a /\ Free(k, {"saveError"})'
      BY <1>1, <2>1, <3>2
    <3>3. ASSUME t.at \in {"pin", "savePinned"}, Free(k, {"reread", "failing"})
          PROVE  Free(k, {"reread", "failing"})'
      BY <1>1, <3>3
    <3>4. t.at \in {"pin", "savePinned"} =>
            (D.cid = a /\ Free(k, {"saveError"})) \/ Free(k, {"reread", "failing"})
      BY <1>9
    <3> HIDE DEF Is, Free
    <3> QED BY <3>1, <3>2, <3>3, <3>4
  <2>13. \A f, g \in Handlers :
           Is(k, f, {"saveError"})' /\ Is(k, g, {"savePinned"})' => Precedes(f, g)'
    BY <1>1, <2>3, <2>4 DEF StorePlaces
  <2>14. \A g \in Handlers :
           Is(k, g, {"add", "persist", "pin", "savePinned"})' => task'[g].record.artifact = a
    BY <1>1, <2>3
  <2> HIDE DEF Is, Free, KeyOf, Holding, Working
  <2>15. /\ \A g \in Handlers : Lossy(k, a, g)' =>
              \E f \in Handlers : Is(k, f, {"persist"})' /\ Precedes(g, f)'
         /\ \A g \in Handlers : Is(k, g, {"reread", "failing", "add", "pin", "savePinned"})' =>
              disk'[k].artifact = a /\ \A f \in Handlers : ~Lossy(k, a, f)'
    BY <2>8, <2>9
  <2> QED BY ONLY <2>1, <2>2, <2>5, <2>7, <2>10, <2>11, <2>12, <2>13, <2>14, <2>15
       DEF Contested, Catching
(* The artifact's CID is on disk.                                          *)
<1>10. ASSUME task[h].at = "persist", d = r, v = None, Went(h, t, "pin", r)
       PROVE  Contested(k, a)'
  <2>1. /\ r # None /\ r.artifact = a /\ r.cid = a /\ ~r.pinned
        /\ t.at = "pin" /\ t.record = r /\ t.partial = None
    BY <1>5, <1>6, <1>10 DEF RecordAt, RecordOf, Went
  <2>2. /\ volatile'[k] = None /\ CidOf(k)' = a /\ disk'[k] = r
    BY <1>1, <1>10, <2>1 DEF CidOf
  <2>3. Free(k, {"validate", "attest", "saveArtifact", "failing", "reread", "add", "persist",
                 "savePinned", "load"})'
    BY <1>1, <1>2, <1>10, <2>1 DEF StorePlaces
  <2>4. \A g \in Handlers : Is(k, g, {"saveError"})' =>
          g # h /\ Is(k, g, {"saveError"}) /\ task'[g] = task[g]
    BY <1>1, <2>1
  <2>5. /\ \A g \in Handlers : Is(k, g, Catching)' => task'[g].partial = None
        /\ \A g \in Handlers : Is(k, g, {"saveError"})' => task'[g].record.cid = None
    BY <1>1, <2>1, <2>4 DEF Contested
  <2>6. \A g \in Handlers : Is(k, g, {"pin"})' => task'[g].record.artifact = a
    BY <1>1, <1>2, <2>1
  <2>7. SavedBeforeRead(k)'
    BY <2>3 DEF SavedBeforeRead
  <2>8. \A g \in Handlers : ~Lossy(k, a, g)'
    BY <1>8, <2>4 DEF Lossy
  <2> QED BY ONLY <1>3, <2>1, <2>2, <2>3, <2>5, <2>6, <2>7, <2>8
       DEF Contested, Catching, Is, Free
(* The last attempt to write the CID to disk has failed.                   *)
<1>11. ASSUME task[h].at = "persist", Threw(h, t, r.cid), task[h].attempt = 2, d = D, v = V
       PROVE  Named(k, a)'
  <2>1. t.at = "failing" /\ t.partial = a
    BY <1>6, <1>11 DEF RecordAt, RecordOf, Threw
  <2>2. V = a
    BY <1>11 DEF Contested
  <2>3. /\ volatile'[k] = a /\ CidOf(k)' \in {None, a} /\ disk'[k] # None
    BY <1>1, <1>4, <1>11, <2>2 DEF CidOf
  <2>4. Free(k, {"reread"}) /\ Free(k, {"saveError"})
    <3>1. \A g \in Handlers : Is(k, g, {"saveError"}) => Precedes(g, h)
      BY <1>11 DEF Catches
    <3> QED BY <1>1, <1>2, <1>11, <3>1 DEF StorePlaces
  <2>5. Free(k, {"validate", "attest", "saveArtifact", "add", "persist", "pin", "savePinned",
                 "saveError", "reread"})'
    BY <1>1, <1>2, <2>1, <2>4
  <2>6. \A g \in Handlers : Is(k, g, {"failing"})' => task'[g].partial = a
    BY <1>1, <1>2, <2>1
  <2> QED BY <2>3, <2>5, <2>6 DEF Named
(* The answer names the CID that is on disk.                               *)
<1>12. ASSUME task[h].at = "savePinned", d = r, v = V, Resumes(h, t, r)
       PROVE  Named(k, a)'
  <2>1. r # None /\ r.cid = a /\ r.pinned /\ t = Finished
    BY <1>6, <1>12 DEF RecordAt, RecordOf, Resumes
  <2>2. t.at = "done"
    BY <2>1, FinishedType
  <2>3. /\ volatile'[k] \in {None, a} /\ CidOf(k)' = a /\ disk'[k] # None
    BY <1>1, <1>4, <1>12, <2>1 DEF CidOf
  <2>4. Free(k, {"saveError"})
    BY <1>1, <1>12 DEF Contested, StorePlaces
  <2>5. Free(k, {"validate", "attest", "saveArtifact", "add", "persist", "pin", "savePinned",
                 "saveError"})'
    BY <1>1, <1>2, <2>2, <2>4
  <2>6. \A g \in Handlers : Is(k, g, Catching)' => task'[g].partial = None
    BY <1>1, <2>2 DEF Contested
  <2> QED BY <2>3, <2>5, <2>6 DEF Named
<1>13. ASSUME task[h].at \in {"load", "reload"}, Resumes(h, t, D), d = D, v = V
       PROVE  Contested(k, a)'
  <2>1. ASSUME D.cid = a
        PROVE  (D.cid = a /\ Free(k, {"saveError"})) \/ Free(k, {"reread", "failing"})
    <3>1. CASE task[h].at = "load"
      <4>1. SavedBeforeRead(k)
        BY <1>4, <2>1 DEF Contested
      <4> QED BY <1>1, <2>1, <3>1, <4>1 DEF SavedBeforeRead, StorePlaces
    <3>2. CASE task[h].at = "reload"
      BY <1>2, <3>2 DEF StorePlaces
    <3> QED BY <1>13, <3>1, <3>2
  <2> HIDE DEF Holding, Working, Catching, KeyOf, Is, Free
  <2>2. CASE D.cid = a
    <3>1. t.at = "pin" /\ t.record = D /\ t.partial = None
      BY <1>3, <1>4, <1>5, <1>13, <2>2 DEF Resumes, Went
    <3> QED BY <1>4, <1>9, <1>13, <2>1, <2>2, <3>1
  <2>3. CASE D.cid = None /\ V = a
    <3>1. /\ t.at = "persist" /\ t.record = Persisting(D, a) /\ t.partial = None
      BY <1>3, <1>5, <1>13, <2>3 DEF Resumes, Went
    <3>2. t.record.artifact = a
      BY <1>4, <3>1, PersistingType
    <3> QED BY <1>9, <1>13, <2>3, <3>1, <3>2
  <2>4. CASE D.cid = None /\ V = None
    <3>1. D.artifact = a /\ D.artifact # None
      BY <1>3, <1>4, <2>4
    <3>2. t.at = "add" /\ t.record = D /\ t.partial = None
      BY <1>5, <1>13, <2>4, <3>1 DEF Resumes, Went
    <3> QED BY <1>9, <1>13, <2>4, <3>1, <3>2
  <2> QED BY <1>4, <2>2, <2>3, <2>4
<1>14. task[h].at \in {"add", "pin", "savePinned"} => D.artifact = a
  BY DEF Contested
<1>15. task[h].at = "pin" =>
         (D.cid = a /\ Free(k, {"saveError"})) \/ Free(k, {"reread", "failing"})
  BY <1>4 DEF Contested
<1>16. task[h].at = "persist" => V = a
  BY DEF Contested
<1> HIDE DEF Holding, Working, Catching, KeyOf, Is, Free
<1> QED
  <2>1. CASE /\ task[h].at \in {"load", "blocked"} /\ d = D /\ v = V
             /\ \E p \in {"blocked", "reload"} : Went(h, t, p, None)
    BY <1>5, <1>9, <2>1 DEF Went
  <2>2. CASE /\ task[h].at = "add" /\ Went(h, t, "persist", Persisting(r, r.artifact))
             /\ d = D /\ v = r.artifact
    <3>1. t.at = "persist" /\ t.record.artifact = a /\ t.partial = None /\ v = a
      BY <1>5, <1>6, <2>2, PersistingType DEF Went
    <3> QED BY <1>9, <2>2, <3>1
  <2>3. CASE task[h].at = "persist" /\ Went(h, t, "persist", r) /\ d = D /\ v = V
    <3>1. t.at = "persist" /\ t.record.artifact = a /\ t.partial = None /\ v = a
      BY <1>5, <1>6, <1>16, <2>3 DEF Went
    <3> QED BY <1>9, <2>3, <3>1
  <2>4. CASE /\ task[h].at = "pin" /\ Went(h, t, "savePinned", [r EXCEPT !.pinned = TRUE])
             /\ d = D /\ v = V
    <3>1. [r EXCEPT !.pinned = TRUE].artifact = a
      BY <1>6, <2>4 DEF Record
    <3>2. t.at = "savePinned" /\ t.record.artifact = a /\ t.partial = None
      BY <1>5, <2>4, <3>1 DEF Went
    <3> QED BY <1>9, <1>14, <1>15, <2>4, <3>2
  <2>5. CASE task[h].at \in {"add", "pin", "savePinned"} /\ Threw(h, t, None) /\ d = D /\ v = V
    BY <1>9, <1>14, <2>5 DEF Threw
  <2> QED BY <1>5, <1>10, <1>11, <1>12, <1>13, <2>1, <2>2, <2>3, <2>4, <2>5 DEF Held

(* A CID that is safe stays safe, and what is on disk is not forgotten.    *)
LEMMA NamedHeld ==
  ASSUME Shape, NEW h \in Handlers, NEW t, NEW d, NEW v, Step(h, t, d, v),
         Held(h, t, d, v), NEW k, k = KeyOf(h), Catches(k), NEW a \in Artifact, Named(k, a)
  PROVE  Named(k, a)' /\ (CidOf(k) = a => CidOf(k)' = a)
<1> DEFINE r == task[h].record
           D == disk[k]
           V == volatile[k]
<1>1. /\ task'[h] = t /\ \A g \in Handlers \ {h} : task'[g] = task[g]
      /\ disk'[k] = d /\ volatile'[k] = v /\ k \in Keys
  BY StepOrder
<1>2. task[h].at \in Holding /\ \A g \in Handlers \ {h} : ~Is(k, g, Holding)
  BY HeldAlone
<1>3. a # None
  BY NoneAssumption
<1>4. /\ D \in Record /\ D # None /\ V \in {None, a} /\ D.cid \in {None, a}
      /\ (V = a \/ D.cid = a) /\ CidOf(k) = D.cid
  BY <1>2, OnDisk DEF KeyPlaces, Named, CidOf
<1>5. task[h].partial = None /\ task[h].at \notin {"validate", "attest", "saveArtifact", "add"}
  <2>1. task[h].at \notin {"validate", "attest", "saveArtifact", "add"}
    BY DEF Named, Free, Is
  <2>2. RecordAt(h)
    BY DEF Shape, Records
  <2>3. task[h].partial = None
    BY <1>2, <2>2 DEF RecordAt, RecordOf, Holding, Working, Catching
  <2> QED BY <2>1, <2>3
<1>6. task[h].at \in {"persist", "pin", "savePinned"} =>
        r \in Record /\ r # None /\ r.cid = a /\ RecordAt(h)
  <2>1. task[h].at \in {"persist", "pin", "savePinned"} => r.cid = a
    BY DEF Named, Is
  <2> QED BY <2>1, Works DEF RecordPlaces
<1>7. task[h].at \in {"pin", "savePinned"} => D.cid = a
  BY <1>4 DEF Named, Is
<1>8. ASSUME d # None, v \in {None, a}, d.cid \in {None, a}, v = a \/ d.cid = a,
             D.cid = a => d.cid = a, t.partial \in {None, a},
             t.at \in {"blocked", "reload", "persist", "pin", "savePinned", "failing", "done"},
             t.at \in {"persist", "pin", "savePinned"} => t.record.cid = a,
             t.at \in {"pin", "savePinned"} => d.cid = a,
             t.at = "failing" => t.partial = a \/ d.cid = a
      PROVE  Named(k, a)' /\ (CidOf(k) = a => CidOf(k)' = a)
  <2> USE DEF Holding, Working, Catching, KeyOf, Is, Free
  <2>1. /\ volatile'[k] \in {None, a} /\ CidOf(k)' \in {None, a}
        /\ disk'[k] # None /\ (volatile'[k] = a \/ CidOf(k)' = a) /\ CidOf(k)' = d.cid
        /\ CidOf(k) = a => CidOf(k)' = a
    BY <1>1, <1>4, <1>8 DEF CidOf
  <2>2. Free(k, {"validate", "attest", "saveArtifact", "add"})'
    BY <1>1, <1>2, <1>8
  <2>3. \A g \in Handlers :
          Is(k, g, {"persist", "pin", "savePinned", "saveError"})' => task'[g].record.cid = a
    BY <1>1, <1>2, <1>8 DEF Named
  <2>4. \A g \in Handlers : Is(k, g, Catching)' => task'[g].partial \in {None, a}
    BY <1>1, <1>8 DEF Named
  <2>5. \A g \in Handlers : Is(k, g, {"pin", "savePinned"})' => CidOf(k)' = a
    BY <1>1, <1>2, <1>8, <2>1
  <2>6. \A g \in Handlers :
          Is(k, g, {"reread", "failing"})' => task'[g].partial = a \/ CidOf(k)' = a
    BY <1>1, <1>8, <2>1 DEF Named
  <2> QED BY ONLY <2>1, <2>2, <2>3, <2>4, <2>5, <2>6 DEF Named, Catching, Is, Free
<1>9. ASSUME Resumes(h, t, D), d = D, v = V
      PROVE  Named(k, a)' /\ (CidOf(k) = a => CidOf(k)' = a)
  <2>1. CASE D.cid = a
    <3>1. t = Finished \/ (t.at = "pin" /\ t.record = D /\ t.partial = None)
      BY <1>3, <1>5, <1>9, <2>1 DEF Resumes, Went
    <3>2. t.partial = None /\ t.at \in {"pin", "done"}
      BY <3>1, FinishedType
    <3> QED BY <1>4, <1>8, <1>9, <2>1, <3>1, <3>2, FinishedType
  <2>2. CASE D.cid = None
    <3>1. V = a
      BY <1>3, <1>4, <2>2
    <3>2. t.at = "persist" /\ t.record = Persisting(D, a) /\ t.partial = None
      BY <1>3, <1>5, <1>9, <2>2, <3>1 DEF Resumes, Went
    <3>3. t.record.cid = a
      BY <1>4, <3>2, PersistingType
    <3> QED BY <1>3, <1>4, <1>8, <1>9, <3>1, <3>2, <3>3
  <2> QED BY <1>4, <2>1, <2>2
<1> QED
  <2>1. CASE /\ task[h].at \in {"load", "blocked"} /\ d = D /\ v = V
             /\ \E p \in {"blocked", "reload"} : Went(h, t, p, None)
    BY <1>4, <1>5, <1>8, <2>1 DEF Went
  <2>2. CASE task[h].at = "persist" /\ d = r /\ v = None /\ Went(h, t, "pin", r)
    BY <1>4, <1>5, <1>6, <1>8, <2>2 DEF Went
  <2>3. CASE task[h].at = "persist" /\ Went(h, t, "persist", r) /\ d = D /\ v = V
    BY <1>4, <1>5, <1>6, <1>8, <2>3 DEF Went
  <2>4. CASE task[h].at = "persist" /\ Threw(h, t, r.cid) /\ d = D /\ v = V
    BY <1>4, <1>5, <1>6, <1>8, <2>4 DEF Threw
  <2>5. CASE /\ task[h].at = "pin" /\ Went(h, t, "savePinned", [r EXCEPT !.pinned = TRUE])
             /\ d = D /\ v = V
    <3>1. [r EXCEPT !.pinned = TRUE].cid = a
      BY <1>6, <2>5 DEF Record
    <3>2. t.at = "savePinned" /\ t.record.cid = a /\ t.partial = None
      BY <1>5, <2>5, <3>1 DEF Went
    <3> QED BY <1>4, <1>7, <1>8, <2>5, <3>2
  <2>6. CASE task[h].at = "savePinned" /\ d = r /\ v = V /\ Resumes(h, t, r)
    <3>1. r.cid = a /\ r # None /\ r.pinned
      BY <1>6, <2>6 DEF RecordAt, RecordOf
    <3>2. t = Finished
      BY <1>3, <2>6, <3>1 DEF Resumes
    <3> QED BY <1>4, <1>8, <2>6, <3>1, <3>2, FinishedType
  <2>7. CASE task[h].at \in {"pin", "savePinned"} /\ Threw(h, t, None) /\ d = D /\ v = V
    BY <1>4, <1>7, <1>8, <2>7 DEF Threw
  <2> QED BY <1>5, <1>9, <2>1, <2>2, <2>3, <2>4, <2>5, <2>6, <2>7 DEF Held

(* A catch block writes back what it has read: it keeps a key without a    *)
(* CID as it is.                                                           *)
LEMMA UnnamedCaught ==
  ASSUME Shape, NEW h \in Handlers, NEW t, NEW d, NEW v, Step(h, t, d, v),
         Caught(h, t, d, v), NEW k, k = KeyOf(h), Catches(k), Unnamed(k)
  PROVE  Unnamed(k)'
<1> DEFINE r == task[h].record
           D == disk[k]
<1>1. /\ task'[h] = t /\ \A g \in Handlers \ {h} : task'[g] = task[g]
      /\ disk'[k] = d /\ volatile'[k] = v /\ k \in Keys
      /\ \A f, g \in Handlers \ {h} : Precedes(f, g)' <=> Precedes(f, g)
      /\ t.at \in StorePlaces =>
           \A g \in Handlers \ {h} : task[g].at \in StorePlaces => Precedes(g, h)'
      /\ task[h].at \in StorePlaces => \A g \in Handlers : ~Precedes(g, h)
  BY StepOrder
<1>2. task[h].at \in Catching
  BY DEF Caught, Catching
<1>3. D \in Record /\ D # None /\ volatile[k] = None /\ D.cid = None
  BY <1>2, OnDisk DEF Unnamed, CidOf
<1>4. task[h].partial = None
  BY <1>2 DEF Unnamed, Is
<1> USE DEF Holding, Working, Catching, KeyOf, Is, Free
<1>5. CASE task[h].at = "failing" /\ Went(h, t, "reread", None) /\ d = D /\ v = volatile[k]
  <2>1. t.at = "reread" /\ t.partial = None
    BY <1>4, <1>5 DEF Went
  <2>2. volatile'[k] = None /\ CidOf(k)' = None /\ disk'[k] = D
    BY <1>1, <1>3, <1>5 DEF CidOf
  <2>3. Free(k, {"add"})'
    BY <1>1, <1>5, <2>1 DEF Catches
  <2>4. Free(k, {"persist", "pin", "savePinned"})'
    BY <1>1, <2>1 DEF Unnamed
  <2>5. \A g \in Handlers : Is(k, g, {"saveError"})' =>
          g # h /\ Is(k, g, {"saveError"}) /\ task'[g] = task[g]
    BY <1>1, <2>1
  <2>6. /\ \A g \in Handlers : Is(k, g, Catching)' => task'[g].partial = None
        /\ \A g \in Handlers : Is(k, g, {"saveError"})' => task'[g].record.cid = None
    BY <1>1, <2>1, <2>5 DEF Unnamed
  <2>7. SavedBeforeRead(k) => SavedBeforeRead(k)'
    BY <1>1, <2>1, <2>5 DEF SavedBeforeRead, StorePlaces
  <2>8. \/ \A g \in Handlers :
             Is(k, g, {"saveError"})' => task'[g].record.artifact = disk'[k].artifact
        \/ SavedBeforeRead(k)'
    BY <2>2, <2>5, <2>7 DEF Unnamed
  <2> QED BY ONLY <2>2, <2>3, <2>4, <2>6, <2>8 DEF Unnamed, Catching, Is, Free
<1>6. CASE task[h].at = "reread" /\ Went(h, t, "saveError", D) /\ d = D /\ v = volatile[k]
  <2>1. t.at = "saveError" /\ t.partial = None /\ t.record = D
    BY <1>4, <1>6 DEF Went
  <2>2. volatile'[k] = None /\ CidOf(k)' = None /\ disk'[k] = D
    BY <1>1, <1>3, <1>6 DEF CidOf
  <2>3. Free(k, {"persist", "pin", "savePinned"})'
    BY <1>1, <2>1 DEF Unnamed
  <2>4. \A g \in Handlers : Is(k, g, {"saveError"})' =>
          g = h \/ (Is(k, g, {"saveError"}) /\ task'[g] = task[g])
    BY <1>1, <2>1
  <2>5. /\ \A g \in Handlers : Is(k, g, Catching)' => task'[g].partial = None
        /\ \A g \in Handlers : Is(k, g, {"saveError"})' => task'[g].record.cid = None
    BY <1>1, <1>3, <2>1, <2>4 DEF Unnamed
  <2>6. SavedBeforeRead(k) => Free(k, {"saveError"})
    BY <1>1, <1>6 DEF SavedBeforeRead, StorePlaces
  <2>7. \A g \in Handlers :
          Is(k, g, {"saveError"})' => task'[g].record.artifact = disk'[k].artifact
    BY <1>1, <2>1, <2>2, <2>4, <2>6 DEF Unnamed
  <2>8. \A g \in Handlers : Is(k, g, {"add"})' => disk'[k].artifact = task'[g].record.artifact
    BY <1>1, <1>6, <2>1, <2>2 DEF Unnamed
  <2> QED BY ONLY <2>2, <2>3, <2>5, <2>7, <2>8 DEF Unnamed, Catching, Is, Free
<1>7. CASE task[h].at = "saveError" /\ t = Finished /\ v = volatile[k] /\ d \in {r, D}
  <2>1. t.at = "done" /\ r.cid = None /\ r # None
    BY <1>7, FinishedType, Works DEF Unnamed, RecordPlaces
  <2>2. volatile'[k] = None /\ CidOf(k)' = None /\ disk'[k] = d
    BY <1>1, <1>3, <1>7, <2>1 DEF CidOf
  <2>3. Free(k, {"persist", "pin", "savePinned"})'
    BY <1>1, <2>1 DEF Unnamed
  <2>4. \A g \in Handlers : Is(k, g, {"saveError"})' =>
          g # h /\ Is(k, g, {"saveError"}) /\ task'[g] = task[g]
    BY <1>1, <2>1
  <2>5. /\ \A g \in Handlers : Is(k, g, Catching)' => task'[g].partial = None
        /\ \A g \in Handlers : Is(k, g, {"saveError"})' => task'[g].record.cid = None
    BY <1>1, <2>1, <2>4 DEF Unnamed
  <2>6. SavedBeforeRead(k) => SavedBeforeRead(k)'
    BY <1>1, <2>1 DEF SavedBeforeRead
  <2>7. ASSUME \A g \in Handlers : Is(k, g, {"saveError"}) => task[g].record.artifact = D.artifact
        PROVE  /\ disk'[k].artifact = D.artifact
               /\ \A g \in Handlers :
                    Is(k, g, {"saveError"})' => task'[g].record.artifact = disk'[k].artifact
    BY <1>1, <1>7, <2>4, <2>7
  <2>8. \/ \A g \in Handlers :
             Is(k, g, {"saveError"})' => task'[g].record.artifact = disk'[k].artifact
        \/ SavedBeforeRead(k)'
    BY <2>6, <2>7 DEF Unnamed
  <2>9. \A f \in Handlers : Is(k, f, {"add"})' =>
          \/ Free(k, {"reread"})'
          \/ /\ disk'[k].artifact = task'[f].record.artifact
             /\ \A g \in Handlers :
                  Is(k, g, {"saveError"})' => task'[g].record.artifact = disk'[k].artifact
    <3>1. ASSUME NEW f \in Handlers, Is(k, f, {"add"})'
          PROVE  \/ Free(k, {"reread"})'
                 \/ /\ disk'[k].artifact = task'[f].record.artifact
                    /\ \A g \in Handlers : Is(k, g, {"saveError"})' =>
                         task'[g].record.artifact = disk'[k].artifact
      <4>1. f # h /\ Is(k, f, {"add"}) /\ task'[f] = task[f]
        BY <1>1, <2>1, <3>1
      <4>2. CASE Free(k, {"reread"})
        BY <1>1, <2>1, <4>2
      <4>3. CASE ~Free(k, {"reread"})
        <5>1. /\ D.artifact = task[f].record.artifact
              /\ \A g \in Handlers : Is(k, g, {"saveError"}) => task[g].record.artifact = D.artifact
          BY <4>1, <4>3 DEF Unnamed
        <5> QED BY <2>7, <4>1, <5>1
      <4> QED BY <4>2, <4>3
    <3> QED BY <3>1
  <2> QED BY ONLY <2>2, <2>3, <2>5, <2>8, <2>9 DEF Unnamed, Catching, Is, Free
<1> QED BY <1>4, <1>5, <1>6, <1>7 DEF Caught

(* A catch block that writes a record without the CID, or without the      *)
(* artifact, comes before the handler that has to write the CID; the first *)
(* one that has read the CID makes it safe.                                *)
LEMMA ContestedCaught ==
  ASSUME Shape, NEW h \in Handlers, NEW t, NEW d, NEW v, Step(h, t, d, v),
         Caught(h, t, d, v), NEW k, k = KeyOf(h), Catches(k), NEW a \in Artifact,
         Contested(k, a)
  PROVE  Contested(k, a)' \/ Named(k, a)'
<1> DEFINE r == task[h].record
           D == disk[k]
           V == volatile[k]
<1>1. /\ task'[h] = t /\ \A g \in Handlers \ {h} : task'[g] = task[g]
      /\ disk'[k] = d /\ volatile'[k] = v /\ k \in Keys
      /\ \A f, g \in Handlers \ {h} : Precedes(f, g)' <=> Precedes(f, g)
      /\ t.at \in StorePlaces =>
           \A g \in Handlers \ {h} : task[g].at \in StorePlaces => Precedes(g, h)'
      /\ task[h].at \in StorePlaces => \A g \in Handlers : ~Precedes(g, h)
  BY StepOrder
<1>2. task[h].at \in Catching
  BY DEF Caught, Catching
<1>3. a # None
  BY NoneAssumption
<1>4. /\ D \in Record /\ D # None /\ V \in {None, a} /\ D.cid \in {None, a}
      /\ ~D.pinned /\ (V = a \/ D.artifact = a) /\ CidOf(k) = D.cid
  BY <1>2, OnDisk DEF Contested, CidOf
<1>5. task[h].partial = None
  BY <1>2 DEF Contested, Is
<1> USE DEF Holding, Working, Catching, KeyOf, Is, Free
(* What does not depend on the record that is on disk.                     *)
<1>6. ASSUME t.at \in {"reread", "saveError", "done"}, v = V,
             t.at # "done" => t.partial = None, t.at = "saveError" => t.record.cid = None
      PROVE  /\ Free(k, {"validate", "attest", "saveArtifact"})'
             /\ \A g \in Handlers :
                  Is(k, g, {"add", "persist", "pin", "savePinned"})' =>
                    g # h /\ task'[g] = task[g] /\ task'[g].record.artifact = a
             /\ \A g \in Handlers : Is(k, g, Catching)' => task'[g].partial = None
             /\ \A g \in Handlers : Is(k, g, {"saveError"})' => task'[g].record.cid = None
             /\ \A g \in Handlers : Is(k, g, {"persist"})' => volatile'[k] = a
             /\ volatile'[k] \in {None, a}
  <2>1. Free(k, {"validate", "attest", "saveArtifact"})'
    BY <1>1, <1>6 DEF Contested
  <2>2. \A g \in Handlers :
          Is(k, g, {"add", "persist", "pin", "savePinned"})' =>
            g # h /\ task'[g] = task[g] /\ task'[g].record.artifact = a
    BY <1>1, <1>6 DEF Contested
  <2>3. \A g \in Handlers : Is(k, g, Catching)' => task'[g].partial = None
    BY <1>1, <1>6 DEF Contested
  <2>4. \A g \in Handlers : Is(k, g, {"saveError"})' => task'[g].record.cid = None
    BY <1>1, <1>6 DEF Contested
  <2>5. \A g \in Handlers : Is(k, g, {"persist"})' => volatile'[k] = a
    BY <1>1, <1>6, <2>2 DEF Contested
  <2> QED BY <1>1, <1>4, <1>6, <2>1, <2>2, <2>3, <2>4, <2>5
<1>7. CASE task[h].at = "failing" /\ Went(h, t, "reread", None) /\ d = D /\ v = V
  <2>1. t.at = "reread" /\ t.partial = None
    BY <1>5, <1>7 DEF Went
  <2>2. /\ CidOf(k)' = D.cid /\ disk'[k] = D /\ D.artifact = a
        /\ \A g \in Handlers : ~Lossy(k, a, g)
    BY <1>1, <1>4, <1>7 DEF CidOf, Contested
  <2>3. Free(k, {"add", "persist", "pin", "savePinned"})'
    BY <1>1, <1>7, <2>1 DEF Catches
  <2>4. \A g \in Handlers : Is(k, g, {"saveError"})' =>
          g # h /\ Is(k, g, {"saveError"}) /\ task'[g] = task[g]
    BY <1>1, <2>1
  <2>5. SavedBeforeRead(k) => SavedBeforeRead(k)'
    BY <1>1, <2>1, <2>4 DEF SavedBeforeRead, StorePlaces
  <2>6. CidOf(k)' = a => SavedBeforeRead(k)'
    BY <1>4, <2>2, <2>5 DEF Contested
  <2>7. \A g \in Handlers : ~Lossy(k, a, g)'
    BY <2>2, <2>4 DEF Lossy
  <2>8. /\ Free(k, {"validate", "attest", "saveArtifact"})'
        /\ \A g \in Handlers : Is(k, g, Catching)' => task'[g].partial = None
        /\ \A g \in Handlers : Is(k, g, {"saveError"})' => task'[g].record.cid = None
        /\ volatile'[k] \in {None, a}
    BY <1>6, <1>7, <2>1
  <2> QED BY ONLY <1>4, <2>2, <2>3, <2>6, <2>7, <2>8 DEF Contested, Catching, Is, Free
<1>8. CASE task[h].at = "reread" /\ Went(h, t, "saveError", D) /\ d = D /\ v = V
  <2>1. t.at = "saveError" /\ t.partial = None /\ t.record = D
    BY <1>5, <1>8 DEF Went
  <2>2. /\ CidOf(k)' = D.cid /\ disk'[k] = D /\ D.artifact = a
        /\ \A g \in Handlers : ~Lossy(k, a, g)
    BY <1>1, <1>4, <1>8 DEF CidOf, Contested
  <2>3. \A g \in Handlers : Is(k, g, {"saveError"})' =>
          g = h \/ (Is(k, g, {"saveError"}) /\ task'[g] = task[g])
    BY <1>1, <2>1
  <2>4. CASE D.cid = a
    <3>1. SavedBeforeRead(k)
      BY <1>4, <2>4 DEF Contested
    <3>2. Free(k, {"saveError"})
      BY <1>1, <1>8, <3>1 DEF SavedBeforeRead, StorePlaces
    <3>3. Free(k, {"add"})
      BY <1>3, <1>4, <2>4 DEF Contested
    <3>4. Free(k, {"validate", "attest", "saveArtifact", "add"})'
      BY <1>1, <2>1, <3>3 DEF Contested
    <3>5. ASSUME NEW g \in Handlers, Is(k, g, {"persist", "pin", "savePinned"})'
          PROVE  task'[g].record.cid = a
      <4>1. Is(k, g, {"persist", "pin", "savePinned"}) /\ task'[g] = task[g]
        BY <1>1, <2>1, <3>5
      <4>2. task[g].record.artifact = a
        BY <4>1 DEF Contested
      <4>3. task[g].record.cid # None /\ Sound(task[g].record)
        BY <4>1, Works DEF RecordPlaces, RecordAt, RecordOf
      <4> QED BY <4>1, <4>2, <4>3 DEF Sound
    <3>6. \A g \in Handlers : Is(k, g, {"saveError"})' => task'[g].record.cid = a
      BY <1>1, <2>1, <2>3, <2>4, <3>2
    <3>7. \A g \in Handlers : Is(k, g, Catching)' => task'[g].partial = None
      BY <1>1, <2>1 DEF Contested
    <3>8. volatile'[k] \in {None, a}
      BY <1>1, <1>4, <1>8
    <3> QED BY <1>4, <2>2, <2>4, <3>4, <3>5, <3>6, <3>7, <3>8 DEF Named
  <2>5. CASE D.cid = None
    <3>1. Free(k, {"pin", "savePinned"})'
      <4>1. Free(k, {"pin", "savePinned"})
        BY <1>3, <1>4, <1>8, <2>5 DEF Contested
      <4> QED BY <1>1, <2>1, <4>1
    <3>2. \A g \in Handlers : ~Lossy(k, a, g)'
      BY <1>1, <2>1, <2>2, <2>3 DEF Lossy
    <3>3. /\ Free(k, {"validate", "attest", "saveArtifact"})'
          /\ \A g \in Handlers :
               Is(k, g, {"add", "persist", "pin", "savePinned"})' => task'[g].record.artifact = a
          /\ \A g \in Handlers : Is(k, g, Catching)' => task'[g].partial = None
          /\ \A g \in Handlers : Is(k, g, {"saveError"})' => task'[g].record.cid = None
          /\ \A g \in Handlers : Is(k, g, {"persist"})' => volatile'[k] = a
          /\ volatile'[k] \in {None, a}
      BY <1>6, <1>8, <2>1, <2>5
    <3> QED BY ONLY <1>3, <1>4, <2>2, <2>5, <3>1, <3>2, <3>3 DEF Contested, Catching, Is, Free
  <2> QED BY <1>4, <2>4, <2>5
<1>9. CASE task[h].at = "saveError" /\ t = Finished /\ v = V /\ d \in {r, D}
  <2>1. t.at = "done" /\ r.cid = None /\ r # None /\ ~r.pinned
    BY <1>9, FinishedType, Works DEF Contested, RecordPlaces, Sound
  <2>2. /\ CidOf(k)' = d.cid /\ disk'[k] = d /\ disk'[k] # None /\ ~disk'[k].pinned
        /\ d.cid \in {None, D.cid}
    BY <1>1, <1>4, <1>9, <2>1 DEF CidOf
  <2>3. \A g \in Handlers : Is(k, g, {"saveError"})' =>
          g # h /\ Is(k, g, {"saveError"}) /\ task'[g] = task[g]
    BY <1>1, <2>1
  <2>4. \A g \in Handlers : Lossy(k, a, g)' => g # h /\ Lossy(k, a, g)
    BY <2>3 DEF Lossy
  <2>5. /\ Free(k, {"validate", "attest", "saveArtifact"})'
        /\ \A g \in Handlers :
             Is(k, g, {"add", "persist", "pin", "savePinned"})' => task'[g].record.artifact = a
        /\ \A g \in Handlers : Is(k, g, Catching)' => task'[g].partial = None
        /\ \A g \in Handlers : Is(k, g, {"saveError"})' => task'[g].record.cid = None
        /\ \A g \in Handlers : Is(k, g, {"persist"})' => volatile'[k] = a
        /\ volatile'[k] \in {None, a}
    BY <1>6, <1>9, <2>1
  <2>6. CidOf(k)' = a => SavedBeforeRead(k)'
    <3>1. CidOf(k)' = a => CidOf(k) = a
      BY <1>3, <1>4, <2>2
    <3>2. SavedBeforeRead(k) => SavedBeforeRead(k)'
      BY <1>1, <2>1 DEF SavedBeforeRead
    <3> QED BY <3>1, <3>2 DEF Contested
  <2>7. \A g \in Handlers : Lossy(k, a, g)' =>
          \E f \in Handlers : Is(k, f, {"persist"})' /\ Precedes(g, f)'
    <3>1. ASSUME NEW g \in Handlers, Lossy(k, a, g)'
          PROVE  \E f \in Handlers : Is(k, f, {"persist"})' /\ Precedes(g, f)'
      <4>1. PICK f \in Handlers : Is(k, f, {"persist"}) /\ Precedes(g, f)
        BY <2>4, <3>1 DEF Contested
      <4>2. f # h /\ g # h
        BY <1>9, <2>4, <3>1, <4>1
      <4> QED BY <1>1, <4>1, <4>2
    <3> QED BY <3>1
  <2>8. volatile'[k] = a \/ disk'[k].artifact = a
    <3>1. CASE Lossy(k, a, h)
      <4>1. ~Free(k, {"persist"})
        BY <3>1 DEF Contested
      <4> QED BY <1>1, <1>9, <4>1 DEF Contested
    <3>2. CASE ~Lossy(k, a, h)
      BY <1>1, <1>4, <1>9, <2>2, <3>2 DEF Lossy
    <3> QED BY <3>1, <3>2
  <2>9. \A g \in Handlers : Is(k, g, {"reread", "failing", "add", "pin", "savePinned"})' =>
          disk'[k].artifact = a /\ \A f \in Handlers : ~Lossy(k, a, f)'
    <3>1. ASSUME NEW g \in Handlers, Is(k, g, {"reread", "failing", "add", "pin", "savePinned"})'
          PROVE  disk'[k].artifact = a /\ \A f \in Handlers : ~Lossy(k, a, f)'
      <4>1. Is(k, g, {"reread", "failing", "add", "pin", "savePinned"})
        BY <1>1, <2>1, <3>1
      <4>2. D.artifact = a /\ \A f \in Handlers : ~Lossy(k, a, f)
        BY <4>1 DEF Contested
      <4>3. r.artifact = a
        BY <1>9, <4>2 DEF Lossy
      <4> QED BY <1>9, <2>2, <2>4, <4>2, <4>3
    <3> QED BY <3>1
  <2>10. \A g \in Handlers : Is(k, g, {"add"})' => CidOf(k)' = None
    <3>1. ASSUME NEW g \in Handlers, Is(k, g, {"add"})' PROVE CidOf(k)' = None
      <4>1. Is(k, g, {"add"})
        BY <1>1, <2>1, <3>1
      <4>2. CidOf(k) = None
        BY <4>1 DEF Contested
      <4> QED BY <1>4, <2>2, <4>2
    <3> QED BY <3>1
  <2>11. \A g \in Handlers : Is(k, g, {"pin", "savePinned"})' => Free(k, {"reread", "failing"})'
    <3>1. ASSUME NEW g \in Handlers, Is(k, g, {"pin", "savePinned"})'
          PROVE  Free(k, {"reread", "failing"})'
      <4>1. Is(k, g, {"pin", "savePinned"})
        BY <1>1, <2>1, <3>1
      <4>2. Free(k, {"reread", "failing"})
        BY <1>9, <4>1 DEF Contested
      <4> QED BY <1>1, <2>1, <4>2
    <3> QED BY <3>1
  <2>12. \A f, g \in Handlers :
           Is(k, f, {"saveError"})' /\ Is(k, g, {"savePinned"})' => Precedes(f, g)'
    BY <1>1, <2>1, <2>3 DEF Contested
  <2>13. CidOf(k)' \in {None, a}
    BY <1>4, <2>2
  <2> HIDE DEF Is, Free, KeyOf, Holding, Working
  <2> QED BY ONLY <2>2, <2>5, <2>6, <2>7, <2>8, <2>9, <2>10, <2>11, <2>12, <2>13
       DEF Contested, Catching
<1> QED BY <1>5, <1>7, <1>8, <1>9 DEF Caught

(* A catch block writes the safe CID or leaves it where it is.             *)
LEMMA NamedCaught ==
  ASSUME Shape, NEW h \in Handlers, NEW t, NEW d, NEW v, Step(h, t, d, v),
         Caught(h, t, d, v), NEW k, k = KeyOf(h), NEW a \in Artifact, Named(k, a)
  PROVE  Named(k, a)' /\ (CidOf(k) = a => CidOf(k)' = a)
<1> DEFINE r == task[h].record
           p == task[h].partial
           D == disk[k]
           V == volatile[k]
<1>1. /\ task'[h] = t /\ \A g \in Handlers \ {h} : task'[g] = task[g]
      /\ disk'[k] = d /\ volatile'[k] = v /\ k \in Keys
  BY StepOrder
<1>2. task[h].at \in Catching
  BY DEF Caught, Catching
<1>3. a # None
  BY NoneAssumption
<1>4. /\ D \in Record /\ D # None /\ V \in {None, a} /\ D.cid \in {None, a}
      /\ (V = a \/ D.cid = a) /\ CidOf(k) = D.cid /\ p \in {None, a}
  BY <1>2, OnDisk DEF Named, CidOf, Is
<1>5. task[h].at \in {"failing", "reread"} => p = a \/ D.cid = a
  BY <1>4 DEF Named, Is
<1>6. task[h].at = "saveError" => r # None /\ r.cid = a
  BY Works DEF RecordPlaces, Named, Is
<1>7. ASSUME d # None, v \in {None, a}, d.cid \in {None, a}, v = a \/ d.cid = a,
             D.cid = a => d.cid = a, t.partial \in {None, a},
             t.at \in {"reread", "saveError", "done"}, t.at = "saveError" => t.record.cid = a,
             t.at = "reread" => t.partial = a \/ d.cid = a
      PROVE  Named(k, a)' /\ (CidOf(k) = a => CidOf(k)' = a)
  <2> USE DEF Holding, Working, Catching, KeyOf, Is, Free
  <2>1. /\ volatile'[k] \in {None, a} /\ CidOf(k)' \in {None, a}
        /\ disk'[k] # None /\ (volatile'[k] = a \/ CidOf(k)' = a) /\ CidOf(k)' = d.cid
        /\ CidOf(k) = a => CidOf(k)' = a
    BY <1>1, <1>4, <1>7 DEF CidOf
  <2>2. Free(k, {"validate", "attest", "saveArtifact", "add"})'
    BY <1>1, <1>7 DEF Named
  <2>3. \A g \in Handlers :
          Is(k, g, {"persist", "pin", "savePinned", "saveError"})' => task'[g].record.cid = a
    BY <1>1, <1>7 DEF Named
  <2>4. \A g \in Handlers : Is(k, g, Catching)' => task'[g].partial \in {None, a}
    BY <1>1, <1>7 DEF Named
  <2>5. \A g \in Handlers : Is(k, g, {"pin", "savePinned"})' => CidOf(k)' = a
    BY <1>1, <1>7, <2>1 DEF Named
  <2>6. \A g \in Handlers :
          Is(k, g, {"reread", "failing"})' => task'[g].partial = a \/ CidOf(k)' = a
    BY <1>1, <1>7, <2>1 DEF Named
  <2> QED BY ONLY <2>1, <2>2, <2>3, <2>4, <2>5, <2>6 DEF Named, Catching, Is, Free
<1>8. CASE task[h].at = "failing" /\ Went(h, t, "reread", None) /\ d = D /\ v = V
  BY <1>4, <1>5, <1>7, <1>8 DEF Went
<1>9. CASE /\ task[h].at = "reread"
           /\ Went(h, t, "saveError", IF p = None THEN D ELSE Persisting(D, p))
           /\ d = D /\ v = V
  <2>1. t.at = "saveError" /\ t.partial = p
    BY <1>9 DEF Went
  <2>2. t.record.cid = a
    <3>1. CASE p = None
      BY <1>3, <1>5, <1>9, <3>1 DEF Went
    <3>2. CASE p = a
      <4>1. t.record = Persisting(D, a)
        BY <1>3, <1>9, <3>2 DEF Went
      <4> QED BY <1>4, <4>1, PersistingType
    <3> QED BY <1>4, <3>1, <3>2
  <2> QED BY <1>4, <1>7, <1>9, <2>1, <2>2
<1>10. CASE task[h].at = "saveError" /\ t = Finished /\ v \in {V, None} /\ d = r
  BY <1>4, <1>6, <1>7, <1>10, FinishedType
<1>11. CASE task[h].at = "saveError" /\ t = Finished /\ v = V /\ d = D
  BY <1>4, <1>7, <1>11, FinishedType
<1> QED BY <1>8, <1>9, <1>10, <1>11 DEF Caught

-----------------------------------------------------------------------------
(* What a step answers: that the record on disk is pinned, with its CID;   *)
(* or a refusal with the CID the record had when it was read.              *)
LEMMA Reports ==
  ASSUME Shape, NEW h \in Handlers, NEW t, NEW d, NEW v, Step(h, t, d, v), NEW k, k = KeyOf(h)
  PROVE  \/ Silent
         \/ \E status, c :
              /\ Says(h, status, c)
              /\ \/ /\ status \in {"published", "duplicate"} /\ d # None /\ c = d.cid
                    /\ c # None /\ d.pinned /\ d.request = task[h].request
                 \/ /\ status \in Refusals
                    /\ c = CidOf(k) \/ (Is(k, h, {"saveError"}) /\ c = task[h].record.cid)
<1>1. CASE Early(h, t, d, v)
  BY <1>1 DEF Early
<1>2. ASSUME NEW r, r # None, r.request = task[h].request, Resumes(h, t, r), d = r
      PROVE  \/ Silent
             \/ \E status, c :
                  /\ Says(h, status, c)
                  /\ status \in {"published", "duplicate"} /\ d # None /\ c = d.cid
                  /\ c # None /\ d.pinned /\ d.request = task[h].request
  <2>1. CASE /\ r.cid # None /\ r.pinned
             /\ \E status \in {"published", "duplicate"} : Says(h, status, r.cid)
    BY <1>2, <2>1
  <2> QED BY <1>2, <2>1 DEF Resumes
<1>3. CASE Held(h, t, d, v)
  <2>1. task[h].at \in {"load", "reload"} =>
          disk[k] # None /\ disk[k].request = task[h].request
    BY OnDisk DEF KeyPlaces, Holding, Working
  <2>2. task[h].at \in {"saveArtifact", "savePinned"} =>
          task[h].record # None /\ task[h].record.request = task[h].request
    BY Works DEF RecordPlaces
  <2> QED BY <1>2, <1>3, <2>1, <2>2 DEF Held
<1>4. CASE Caught(h, t, d, v)
  BY <1>4 DEF Caught, Is, Refusals
<1> QED BY <1>1, <1>3, <1>4 DEF Step

(* How a step moves the phase of a key.                                    *)
LEMMA KeyStep ==
  ASSUME Shape, NEW h \in Handlers, NEW t, NEW d, NEW v, Step(h, t, d, v), NEW k \in Keys,
         Catches(k)
  PROVE  /\ Catches(k)'
         /\ Unnamed(k) => Unnamed(k)' \/ \E a \in Artifact : Contested(k, a)'
         /\ \A a \in Artifact : Contested(k, a) => Contested(k, a)' \/ Named(k, a)'
         /\ \A a \in Artifact :
              Named(k, a) => Named(k, a)' /\ (CidOf(k) = a => CidOf(k)' = a)
<1>1. ASSUME Same(k)
      PROVE  /\ Catches(k)' /\ (Unnamed(k) => Unnamed(k)')
             /\ \A a \in Artifact : Contested(k, a) => Contested(k, a)'
             /\ \A a \in Artifact :
                  Named(k, a) => Named(k, a)' /\ (CidOf(k) = a => CidOf(k)' = a)
  <2>1. CidOf(k)' = CidOf(k)
    BY <1>1 DEF Same, CidOf
  <2> QED BY <1>1, <2>1, SameCatches, SameUnnamed, SameContested, SameNamed
<1>2. CASE k # KeyOf(h)
  BY <1>1, <1>2, StepSame
<1>3. CASE k = KeyOf(h) /\ Early(h, t, d, v)
  <2>1. CASE t.at = "load"
    <3>1. CidOf(k)' = CidOf(k)
      <4>1. d = disk[k]
        BY <1>3, <2>1, FinishedType DEF Early, Went
      <4> QED BY <1>3, <4>1, StepOrder DEF CidOf
    <3> QED BY <1>3, <2>1, <3>1, Loads
  <2>2. CASE t.at # "load" /\ d = disk[k]
    BY <1>1, <1>3, <2>2, EarlySame
  <2>3. CASE t.at # "load" /\ d # disk[k]
    <3>1. disk[k] = None /\ d = Fresh(task[h].request) /\ t.at = "queued"
      BY <1>3, <2>3, FinishedType DEF Early, Went
    <3>2. Catches(k)' /\ Unnamed(k)'
      BY <1>3, <3>1, FirstRecord
    <3>3. \A a : ~Contested(k, a) /\ ~Named(k, a)
      BY <3>1 DEF Contested, Named
    <3> QED BY <3>2, <3>3
  <2> QED BY <2>1, <2>2, <2>3
<1>4. CASE k = KeyOf(h) /\ Held(h, t, d, v)
  BY <1>4, HeldCatches, UnnamedHeld, ContestedHeld, NamedHeld
<1>5. CASE k = KeyOf(h) /\ Caught(h, t, d, v)
  BY <1>5, CaughtCatches, UnnamedCaught, ContestedCaught, NamedCaught
<1> QED BY <1>2, <1>3, <1>4, <1>5 DEF Step

(* The answers so far, after one more.                                     *)
LEMMA AnswersStep ==
  ASSUME Shape, NEW h \in Handlers, NEW t, NEW d, NEW v, Step(h, t, d, v), NEW k \in Keys,
         NEW cids, Answers(k, cids), CidOf(k) \in cids,
         d # None /\ d.pinned /\ k = KeyOf(h) => d.cid \in cids,
         \A g \in Handlers : Is(k, g, {"saveError"}) => task[g].record.cid \in cids
  PROVE  Answers(k, cids)'
<1>1. crashes' = crashes
  BY DEF Step
<1>2. CASE Silent
  BY <1>1, <1>2 DEF Silent, Answers
<1>3. ASSUME NEW status, NEW c, Says(h, status, c), k = KeyOf(h) => c \in cids
      PROVE  Answers(k, cids)'
  <2>1. \A x \in answers' :
          x \in answers \/ (x.request = task[h].request /\ x.cid = c)
    BY <1>3 DEF Says, Reply
  <2> QED BY <1>1, <1>3, <2>1 DEF Answers, KeyOf
<1>4. CASE k # KeyOf(h)
  BY <1>2, <1>3, <1>4, Reports
<1>5. CASE k = KeyOf(h)
  BY <1>2, <1>3, <1>5, Reports
<1> QED BY <1>4, <1>5

(* A handler's step takes a key from one phase to the same or the next,    *)
(* and no answer names a CID other than the key's.                         *)
LEMMA PhaseStep ==
  ASSUME Shape, NEW h \in Handlers, NEW t, NEW d, NEW v, Step(h, t, d, v), NEW k \in Keys,
         Catches(k), Phase(k)
  PROVE  Catches(k)' /\ Phase(k)'
<1>1. Catches(k)'
  BY KeyStep
<1>2. k = KeyOf(h) => disk'[k] = d
  BY StepOrder
<1>3. CASE Unnamed(k) /\ Answers(k, {None})
  <2>1. CidOf(k) = None /\ \A g \in Handlers : Is(k, g, {"saveError"}) => task[g].record.cid = None
    BY <1>3 DEF Unnamed
  <2>2. Unnamed(k)' \/ \E a \in Artifact : Contested(k, a)'
    BY <1>3, KeyStep
  <2>3. ASSUME d # None, d.pinned, k = KeyOf(h) PROVE d.cid = None
    BY <1>2, <2>2, <2>3 DEF Unnamed, Contested, CidOf
  <2>4. Answers(k, {None})'
    BY <1>3, <2>1, <2>3, AnswersStep
  <2>5. \A a : Answers(k, {None})' => Answers(k, {None, a})'
    BY DEF Answers
  <2> QED BY <1>1, <2>2, <2>4, <2>5 DEF Phase
<1>4. ASSUME NEW a \in Artifact, Contested(k, a) \/ Named(k, a), Answers(k, {None, a})
      PROVE  Phase(k)'
  <2>1. /\ CidOf(k) \in {None, a}
        /\ \A g \in Handlers : Is(k, g, {"saveError"}) => task[g].record.cid \in {None, a}
    BY <1>4 DEF Contested, Named, Is
  <2>2. Contested(k, a)' \/ Named(k, a)'
    BY <1>4, KeyStep
  <2>3. ASSUME d # None, d.pinned, k = KeyOf(h) PROVE d.cid \in {None, a}
    BY <1>2, <2>2, <2>3 DEF Named, Contested, CidOf
  <2>4. Answers(k, {None, a})'
    BY <1>4, <2>1, <2>3, AnswersStep
  <2> QED BY <2>2, <2>4 DEF Phase
<1> QED BY <1>1, <1>3, <1>4 DEF Phase

(* After a crash a key has the CID that is on disk, or none.               *)
LEMMA AfterCrash ==
  ASSUME Shape, Crash, NEW k \in Keys
  PROVE  /\ Catches(k)' /\ CidOf(k)' = CidOf(k) /\ disk'[k] = disk[k]
         /\ CidOf(k) = None => Unnamed(k)'
         /\ \A a \in Artifact : CidOf(k) = a => Named(k, a)'
         /\ \A cids : Answers(k, cids)'
<1>1. /\ task' = [h \in Handlers |-> IF task[h].at = "idle" THEN Idle ELSE Finished]
      /\ volatile' = [j \in Keys |-> None] /\ crashes' = crashes + 1 /\ disk' = disk
  BY DEF Crash
<1>2. \A h \in Handlers : task'[h].at \in {"idle", "done"}
  BY <1>1, FinishedType
<1>3. volatile'[k] = None /\ CidOf(k)' = CidOf(k) /\ disk'[k] = disk[k]
  BY <1>1 DEF CidOf
<1>4. Catches(k)'
  BY <1>2 DEF Catches, Is, Working
<1>5. ASSUME CidOf(k) = None PROVE Unnamed(k)'
  BY <1>2, <1>3, <1>5 DEF Unnamed, Is, Free, Catching
<1>6. ASSUME NEW a \in Artifact, CidOf(k) = a PROVE Named(k, a)'
  <2>1. disk'[k] # None
    BY <1>3, <1>6, NoneAssumption DEF CidOf
  <2> QED BY <1>2, <1>3, <1>6, <2>1 DEF Named, Is, Free, Catching
<1>7. \A cids : Answers(k, cids)'
  <2>1. crashes \in Nat
    BY DEF Shape, TypeOK
  <2>2. crashes' # 0
    BY <1>1, <2>1
  <2> QED BY <2>2 DEF Answers
<1> QED BY <1>3, <1>4, <1>5, <1>6, <1>7

(* Phases stay when nothing happens.                                       *)
LEMMA PhaseStutter ==
  ASSUME NEW k \in Keys, UNCHANGED vars, Catches(k), Phase(k)
  PROVE  Catches(k)' /\ Phase(k)'
<1>1. Same(k) /\ CidOf(k)' = CidOf(k)
  BY DEF vars, Same, CidOf, Precedes, Ahead
<1>2. \A cids : Answers(k, cids) => Answers(k, cids)'
  BY DEF vars, Answers
<1> QED BY <1>1, <1>2, SameCatches, SameUnnamed, SameContested, SameNamed DEF Phase

(* Every step keeps every key in one of its phases.                        *)
LEMMA PhasesNext ==
  ASSUME Shape, [Next]_vars, NEW k \in Keys, Catches(k), Phase(k)
  PROVE  Catches(k)' /\ Phase(k)'
<1>1. ASSUME NEW h \in Handlers, NEW t, NEW d, NEW v, Step(h, t, d, v)
      PROVE  Catches(k)' /\ Phase(k)'
  BY <1>1, PhaseStep
<1>2. ASSUME NEW h \in Handlers, NEW q \in workload, Arrives(h, q)
      PROVE  Catches(k)' /\ Phase(k)'
  <2>1. Same(k)
    BY <1>2, ArriveSame
  <2>2. \A cids : Answers(k, cids) => Answers(k, cids)'
    BY <1>2 DEF Arrives, Receive, Answers
  <2> QED BY <2>1, <2>2, SameCatches, SameUnnamed, SameContested, SameNamed DEF Phase
<1>3. ASSUME Crash PROVE Catches(k)' /\ Phase(k)'
  <2>1. CidOf(k) \in ArtifactOrNone
    BY DEF Shape, TypeOK, CidOf, Record, ArtifactOrNone
  <2> QED BY <1>3, <2>1, AfterCrash DEF Phase, ArtifactOrNone
<1> QED BY <1>1, <1>2, <1>3, NextSteps, PhaseStutter

(* Keys start without a CID.                                               *)
LEMMA PhasesInit ==
  ASSUME Init
  PROVE  Phases
<1>1. ASSUME NEW k \in Keys PROVE Catches(k) /\ Phase(k)
  <2>1. \A h \in Handlers : task[h].at = "idle"
    BY FinishedType DEF Init
  <2>2. volatile[k] = None /\ CidOf(k) = None
    BY DEF Init, CidOf
  <2>3. Catches(k)
    BY <2>1 DEF Catches, Is, Working
  <2>4. Unnamed(k)
    BY <2>1, <2>2 DEF Unnamed, Is, Free, Catching
  <2>5. Answers(k, {None})
    BY DEF Init, Answers
  <2> QED BY <2>3, <2>4, <2>5 DEF Phase
<1> QED BY <1>1 DEF Phases

(* Every key is always in one of its phases.                               *)
LEMMA PhasesInvariant == Spec => []Phases
<1>1. Init => Phases
  BY PhasesInit
<1>2. Shape /\ Phases /\ [Next]_vars => Phases'
  <2>1. ASSUME Shape, Phases, [Next]_vars, NEW k \in Keys PROVE Catches(k)' /\ Phase(k)'
    BY <2>1, PhasesNext DEF Phases
  <2> QED BY <2>1 DEF Phases
<1> QED BY <1>1, <1>2, ShapeInvariant, PTL DEF Spec

(* Until the node is restarted every response that names a CID for a       *)
(* request names the same one (agent/README.md:317), whatever fails and    *)
(* whatever catch blocks write back.                                       *)
THEOREM PublicationOneCid == Spec => []OneCidUntilCrash
<1>1. ASSUME Shape, Phases PROVE OneCidUntilCrash
  <2>1. ASSUME crashes = 0, NEW x \in answers, NEW y \in answers, x.request = y.request,
               x.cid # None, y.cid # None
        PROVE  x.cid = y.cid
    <3>1. x.request \in Requests /\ x.request.key \in Keys
      BY PublicationAssumption, <1>1 DEF Shape, Records, Request
    <3>2. Phase(x.request.key)
      BY <1>1, <3>1 DEF Phases
    <3> QED BY <2>1, <3>2 DEF Phase, Answers
  <2> QED BY <2>1 DEF OneCidUntilCrash, OneCidPerRequest
<1> QED BY <1>1, ShapeInvariant, PhasesInvariant, PTL

-----------------------------------------------------------------------------
(* A success names the CID that is on disk, for good.                      *)
LEMMA SettledNext ==
  ASSUME Shape, Phases, Phases', Settled, [Next]_vars
  PROVE  Settled'
<1> DEFINE Kept(x) == /\ x.cid # None /\ Named(x.request.key, x.cid)
                      /\ CidOf(x.request.key) = x.cid
                      /\ disk[x.request.key].request = x.request
<1>1. ASSUME NEW x \in Successes
      PROVE  /\ Kept(x) /\ x.cid \in Artifact /\ x.request.key \in Keys
             /\ disk[x.request.key] # None
  <2>1. Kept(x)
    BY <1>1 DEF Settled
  <2>2. x.cid \in ArtifactOrNone /\ x.request \in Requests
    BY <1>1 DEF Shape, Records, Successes
  <2>3. x.request.key \in Keys
    BY <2>2, PublicationAssumption DEF Request
  <2> QED BY <2>1, <2>2, <2>3 DEF CidOf, ArtifactOrNone
<1>2. ASSUME NEW x \in Successes, Same(x.request.key)
      PROVE  Kept(x)'
  <2>1. Named(x.request.key, x.cid)'
    BY <1>1, <1>2, SameNamed
  <2> QED BY <1>1, <1>2, <2>1 DEF Same, CidOf
<1>3. ASSUME NEW h \in Handlers, NEW t, NEW d, NEW v, Step(h, t, d, v), NEW x \in Successes
      PROVE  Kept(x)'
  <2> DEFINE k == x.request.key
  <2>1. Kept(x) /\ x.cid \in Artifact /\ k \in Keys /\ disk[k] # None
    BY <1>1
  <2>2. Named(k, x.cid)' /\ CidOf(k)' = x.cid
    BY <1>3, <2>1, KeyStep DEF Phases
  <2>3. disk'[k].request = disk[k].request
    <3>1. /\ disk'[KeyOf(h)] = d
          /\ \A j \in Keys \ {KeyOf(h)} : disk'[j] = disk[j] /\ volatile'[j] = volatile[j]
      BY <1>3, StepOrder
    <3>2. disk[KeyOf(h)] # None => d # None /\ d.request = disk[KeyOf(h)].request
      BY <1>3, KeyRecord
    <3> QED BY <2>1, <3>1, <3>2
  <2> QED BY <2>1, <2>2, <2>3
<1>4. ASSUME NEW h \in Handlers, NEW t, NEW d, NEW v, Step(h, t, d, v), NEW x \in Successes',
             x \notin Successes, NEW k, k = KeyOf(h)
      PROVE  Kept(x)'
  <2>1. d # None /\ x.cid = d.cid /\ d.pinned /\ x.cid # None /\ d.request = task[h].request
        /\ x.request = task[h].request
    <3>1. PICK status, c :
            /\ Says(h, status, c)
            /\ \/ /\ status \in {"published", "duplicate"} /\ d # None /\ c = d.cid
                  /\ c # None /\ d.pinned /\ d.request = task[h].request
               \/ status \in Refusals
      BY <1>4, Reports DEF Silent, Successes
    <3>2. x = Reply(task[h].request, status, c)
      BY <1>4, <3>1 DEF Says, Successes
    <3>3. x.request = task[h].request /\ x.cid = c /\ x.status = status
      BY <3>2 DEF Reply
    <3> QED BY <1>4, <3>1, <3>3 DEF Successes, Refusals
  <2>2. disk'[k] = d /\ k \in Keys
    BY <1>4, StepOrder
  <2>3. CidOf(k)' = x.cid
    BY <2>1, <2>2 DEF CidOf
  <2>4. Phase(k)'
    BY <2>2 DEF Phases
  <2>5. Named(k, x.cid)'
    BY <2>1, <2>2, <2>3, <2>4 DEF Phase, Unnamed, Contested, Named
  <2>6. x.request.key = k
    BY <1>4, <2>1 DEF KeyOf
  <2> QED BY <2>1, <2>2, <2>3, <2>5, <2>6
<1>5. ASSUME NEW h \in Handlers, NEW q \in workload, Arrives(h, q), NEW x \in Successes
      PROVE  Kept(x)'
  BY <1>1, <1>2, <1>5, ArriveSame
<1>6. ASSUME Crash, NEW x \in Successes PROVE Kept(x)'
  BY <1>1, <1>6, AfterCrash
<1>7. ASSUME UNCHANGED vars, NEW x \in Successes PROVE Kept(x)'
  <2>1. Same(x.request.key)
    BY <1>7 DEF vars, Same, Precedes, Ahead
  <2> QED BY <1>2, <2>1
<1>8. ASSUME NEW h \in Handlers, NEW q \in workload, Arrives(h, q) PROVE Successes' = Successes
  BY <1>8 DEF Arrives, Receive, Successes
<1>9. Crash \/ UNCHANGED vars => Successes' = Successes
  BY DEF Crash, vars, Successes
<1>10. \A x \in Successes' : Kept(x)'
  BY <1>3, <1>4, <1>5, <1>6, <1>7, <1>8, <1>9, NextSteps
<1> QED BY <1>10 DEF Settled

(* A success always names the CID that is on disk, for good.               *)
LEMMA SettledInvariant == Spec => []Settled
<1>1. Init => Settled
  BY DEF Init, Settled, Successes
<1>2. Shape /\ Phases /\ Phases' /\ Settled /\ [Next]_vars => Settled'
  BY SettledNext
<1> QED BY <1>1, <1>2, ShapeInvariant, PhasesInvariant, PTL DEF Spec

(* The CID of a successful answer is from then on the one on disk, with    *)
(* its artifact and for its request (agent/README.md:314), whatever fails, *)
(* crashes or is retried.                                                  *)
THEOREM PublicationDurable == Spec => []AnsweredCidIsDurable
<1>1. ASSUME Shape, Settled PROVE AnsweredCidIsDurable
  <2>1. ASSUME NEW x \in Successes
        PROVE  LET r == disk[x.request.key]
               IN  r # None /\ r.request = x.request /\ r.cid = x.cid /\ r.artifact = x.cid
    <3>1. /\ x.cid # None /\ CidOf(x.request.key) = x.cid
          /\ disk[x.request.key].request = x.request
      BY <1>1, <2>1 DEF Settled
    <3>2. disk[x.request.key] # None /\ disk[x.request.key].cid = x.cid
      BY <3>1 DEF CidOf
    <3>3. x.request.key \in Keys
      BY <1>1, <2>1, PublicationAssumption DEF Shape, Records, Successes, Request
    <3>4. Sound(disk[x.request.key])
      BY <1>1, <3>2, <3>3 DEF Shape, Records
    <3> QED BY <3>1, <3>2, <3>4 DEF Sound
  <2> QED BY <2>1 DEF AnsweredCidIsDurable
<1> QED BY <1>1, ShapeInvariant, SettledInvariant, PTL

(* The ledger's view of the node.                                          *)
OwnerOf(k) == IF disk[k] = None THEN None ELSE disk[k].request
AnnouncedFor(k) == {a.cid : a \in {x \in Successes : x.request.key = k}}
Owners == [k \in Keys |-> OwnerOf(k)]
Announced == [k \in Keys |-> AnnouncedFor(k)]

(* A step takes a key that has no owner, or announces the first CID of a   *)
(* key, or shows nothing to the clients that they did not know.            *)
LEMMA LedgerStep ==
  ASSUME Shape, Settled, Settled', NEW h \in Handlers, NEW t, NEW d, NEW v, Step(h, t, d, v),
         NEW k, k = KeyOf(h)
  PROVE  \/ UNCHANGED <<Owners, Announced>>
         \/ \E q \in Requests :
              /\ Owners[q.key] = None /\ Owners' = [Owners EXCEPT ![q.key] = q]
              /\ UNCHANGED Announced
         \/ \E a \in Artifact :
              /\ Owners[a.request.key] = a.request /\ Announced[a.request.key] = {}
              /\ Announced' = [Announced EXCEPT ![a.request.key] = {a}]
              /\ UNCHANGED Owners
<1>1. /\ k \in Keys /\ disk'[k] = d /\ task[h].request \in Requests /\ task[h].request.key = k
      /\ \A j \in Keys \ {k} : disk'[j] = disk[j]
  BY StepOrder, StepPlaces DEF KeyOf
<1>2. /\ disk[k] # None => d # None /\ d.request = disk[k].request
      /\ d # None => d.request.key = k /\ Sound(d)
  BY KeyRecord
<1>3. d \in Record \cup {None}
  BY DEF Step
<1>4. disk[k] # None => Owners' = Owners
  <2>1. ASSUME disk[k] # None PROVE \A j \in Keys : OwnerOf(j)' = OwnerOf(j)
    BY <1>1, <1>2, <2>1 DEF OwnerOf
  <2> QED BY <2>1 DEF Owners
<1>5. CASE Successes' = Successes
  <2>1. Announced' = Announced
    <3>1. \A j \in Keys : AnnouncedFor(j)' = AnnouncedFor(j)
      BY <1>5 DEF AnnouncedFor
    <3> QED BY <3>1 DEF Announced
  <2>2. CASE d = None \/ disk[k] # None
    <3>1. \A j \in Keys : OwnerOf(j)' = OwnerOf(j)
      BY <1>1, <1>2, <2>2 DEF OwnerOf
    <3> QED BY <2>1, <3>1 DEF Owners
  <2>3. CASE d # None /\ disk[k] = None
    <3>1. d.request \in Requests /\ d.request.key = k
      BY <1>2, <1>3, <2>3 DEF Record
    <3>2. Owners[k] = None
      BY <1>1, <2>3 DEF Owners, OwnerOf
    <3>3. Owners' = [Owners EXCEPT ![k] = d.request]
      <4>1. OwnerOf(k)' = d.request /\ \A j \in Keys \ {k} : OwnerOf(j)' = OwnerOf(j)
        BY <1>1, <2>3 DEF OwnerOf
      <4> QED BY <1>1, <4>1 DEF Owners
    <3> QED BY <2>1, <3>1, <3>2, <3>3
  <2> QED BY <2>2, <2>3
<1>6. CASE Successes' # Successes
  <2>1. PICK status, c :
          /\ Says(h, status, c)
          /\ status \in {"published", "duplicate"} /\ d # None /\ c = d.cid
          /\ c # None /\ d.pinned /\ d.request = task[h].request
    <3>1. ASSUME NEW status \in Refusals, NEW c, Says(h, status, c)
          PROVE  Successes' = Successes
      <4>1. Reply(task[h].request, status, c).status = status
        BY DEF Reply
      <4> QED BY <3>1, <4>1 DEF Says, Successes, Refusals
    <3> QED BY <1>6, <3>1, Reports DEF Silent, Successes
  <2> DEFINE x == Reply(task[h].request, status, c)
  <2>2. x.request = task[h].request /\ x.status = status /\ x.cid = c
    BY DEF Reply
  <2>3. Successes' = Successes \cup {x}
    <3> HIDE DEF x
    <3> QED BY <2>1, <2>2 DEF Says, Successes, x
  <2> HIDE DEF x
  <2>4. disk[k] # None
    <3>1. ~Early(h, t, d, v)
      <4>1. ASSUME Early(h, t, d, v) PROVE FALSE
        <5>1. CASE Silent
          BY <1>6, <5>1 DEF Silent, Successes
        <5>2. ASSUME NEW s \in Refusals, NEW e, Says(h, s, e) PROVE FALSE
          <6>1. Reply(task[h].request, s, e).status = s
            BY DEF Reply
          <6>2. Successes' = Successes
            BY <5>2, <6>1 DEF Says, Successes, Refusals
          <6> QED BY <1>6, <6>2
        <5> QED BY <4>1, <5>1, <5>2 DEF Early
      <4> QED BY <4>1
    <3>2. task[h].at \in KeyPlaces \cup Catching
      BY <3>1 DEF Step, Held, Caught, KeyPlaces, Holding, Working, Catching
    <3> QED BY <3>2, OnDisk
  <2>5. c \in Artifact /\ c.request = d.request
    <3>1. Sound(d) /\ d.cid \in ArtifactOrNone
      BY <1>2, <1>3, <2>1 DEF Record
    <3> QED BY <2>1, <3>1 DEF Sound, ArtifactOrNone
  <2>6. \A j \in Keys : AnnouncedFor(j)' =
          IF j = k THEN AnnouncedFor(j) \cup {c} ELSE AnnouncedFor(j)
    BY <1>1, <2>2, <2>3 DEF AnnouncedFor
  <2>7. CASE AnnouncedFor(k) = {}
    <3>1. /\ c.request.key = k /\ Owners[k] = c.request /\ Announced[k] = {}
      BY <1>1, <1>2, <2>1, <2>4, <2>5, <2>7 DEF Owners, OwnerOf, Announced
    <3>2. Announced' = [Announced EXCEPT ![k] = {c}]
      BY <1>1, <2>6, <2>7 DEF Announced
    <3> QED BY <1>4, <2>4, <2>5, <3>1, <3>2
  <2>8. CASE AnnouncedFor(k) # {}
    <3>1. PICK y \in Successes : y.request.key = k
      BY <2>8 DEF AnnouncedFor
    <3>2. y \in Successes'
      BY <2>3, <3>1
    <3>3. CidOf(k)' = y.cid
      BY <3>1, <3>2 DEF Settled
    <3>4. y.cid = c
      BY <1>1, <2>1, <3>3 DEF CidOf
    <3>5. c \in AnnouncedFor(k)
      BY <3>1, <3>4 DEF AnnouncedFor
    <3>6. Announced' = Announced
      BY <2>6, <3>5 DEF Announced
    <3> QED BY <1>4, <2>4, <3>6
  <2> QED BY <2>7, <2>8
<1> QED BY <1>5, <1>6

(* The node implements the ledger: the first signed request for a key owns *)
(* it for ever, and at most one artifact, of that request, is announced.   *)
THEOREM PublicationLedgerHolds == Spec => LedgerSpec
<1>1. Init => Ledger!Init
  <2> SUFFICES ASSUME Init PROVE Ledger!Init
    OBVIOUS
  <2>1. \A k \in Keys : OwnerOf(k) = None /\ AnnouncedFor(k) = {}
    BY DEF Init, OwnerOf, AnnouncedFor, Successes
  <2> QED BY <2>1 DEF Ledger!Init, OwnerOf, AnnouncedFor
<1>2. Shape /\ Settled /\ Settled' /\ [Next]_vars => [Ledger!Next]_<<Owners, Announced>>
  <2> SUFFICES ASSUME Shape, Settled, Settled', [Next]_vars
               PROVE  Ledger!Next \/ UNCHANGED <<Owners, Announced>>
    OBVIOUS
  <2>1. ASSUME NEW h \in Handlers, NEW t, NEW d, NEW v, Step(h, t, d, v)
        PROVE  Ledger!Next \/ UNCHANGED <<Owners, Announced>>
    <3>1. CASE \E q \in Requests :
                 /\ Owners[q.key] = None /\ Owners' = [Owners EXCEPT ![q.key] = q]
                 /\ UNCHANGED Announced
      BY <3>1 DEF Ledger!Next, Ledger!Own, Owners, Announced, OwnerOf, AnnouncedFor
    <3>2. CASE \E a \in Artifact :
                 /\ Owners[a.request.key] = a.request /\ Announced[a.request.key] = {}
                 /\ Announced' = [Announced EXCEPT ![a.request.key] = {a}]
                 /\ UNCHANGED Owners
      BY <3>2 DEF Ledger!Next, Ledger!Announce, Owners, Announced, OwnerOf, AnnouncedFor
    <3> QED BY <2>1, <3>1, <3>2, LedgerStep
  <2>2. ASSUME UNCHANGED <<disk, answers>> PROVE UNCHANGED <<Owners, Announced>>
    BY <2>2 DEF Owners, Announced, OwnerOf, AnnouncedFor, Successes
  <2>3. ASSUME NEW h \in Handlers, NEW q \in workload, Arrives(h, q)
        PROVE  UNCHANGED <<disk, answers>>
    BY <2>3 DEF Arrives, Receive
  <2>4. Crash \/ UNCHANGED vars => UNCHANGED <<disk, answers>>
    BY DEF Crash, vars
  <2> QED BY <2>1, <2>2, <2>3, <2>4, NextSteps
<1>3. Owners = [k \in Keys |-> IF disk[k] = None THEN None ELSE disk[k].request]
  BY DEF Owners, OwnerOf
<1>4. Announced = [k \in Keys |-> {a.cid : a \in {x \in Successes : x.request.key = k}}]
  BY DEF Announced, AnnouncedFor
<1> QED BY <1>1, <1>2, ShapeInvariant, SettledInvariant, PTL
    DEF Spec, LedgerSpec, Ledger!Spec, Owners, Announced, OwnerOf, AnnouncedFor
-----------------------------------------------------------------------------
(* A step without a failure.                                               *)
LEMMA CalmBefore ==
  ASSUME Shape, NEW h \in Handlers, NEW t, NEW d, NEW v, Step(h, t, d, v), Calm'
  PROVE  Calm /\ ~Fell
<1>1. /\ failures \in Nat /\ failures' \in {failures, failures + 1} /\ failures' = 0
      /\ crashes' = crashes /\ crashes' = 0
  BY DEF Shape, TypeOK, Step, Calm
<1>2. failures = 0
  BY <1>1
<1>3. failures' # failures + 1
  BY <1>1, <1>2
<1> QED BY <1>1, <1>2, <1>3 DEF Calm, Fell

(* What a calm key knows depends on its records and its handlers only.     *)
LEMMA SameOrderly ==
  ASSUME NEW k \in Keys, Same(k), Orderly(k)
  PROVE  Orderly(k)'
<1> USE DEF Active, Holding, Working, Catching, KeyOf
<1>1. (volatile[k] # None \/ Unfinished(k) =>
         \E h \in Handlers :
           Is(k, h, {"persist"}) \/ (Is(k, h, {"add"}) /\ volatile[k] = None))'
  <2>1. ASSUME NEW h \in Handlers,
               Is(k, h, {"persist"}) \/ (Is(k, h, {"add"}) /\ volatile[k] = None)
        PROVE  Is(k, h, {"persist"})' \/ (Is(k, h, {"add"})' /\ volatile'[k] = None)
    <3>1. Is(k, h, Active)
      BY <2>1 DEF Is
    <3> QED BY <2>1, <3>1 DEF Same, Is
  <2>2. Unfinished(k)' = Unfinished(k) /\ volatile'[k] = volatile[k]
    BY DEF Same, Unfinished
  <2> QED BY <2>1, <2>2 DEF Orderly
<1>2. \A h \in Handlers : Is(k, h, Catching)' => task'[h].partial = None
  BY DEF Same, Orderly, Is
<1>3. \A h \in Handlers :
        Is(k, h, {"validate", "attest", "saveArtifact", "failing", "reread"})' =>
          disk'[k].artifact = None
  BY DEF Same, Orderly, Is
<1>4. \A h \in Handlers : Is(k, h, {"saveError"})' => task'[h].record.artifact = None
  BY DEF Same, Orderly, Is
<1> HIDE DEF Active, Holding, Working, Catching, KeyOf
<1> QED BY <1>1, <1>2, <1>3, <1>4 DEF Orderly

(* What a handler does before it holds the key, and while it waits.        *)
LEMMA WaitsOrderly ==
  ASSUME Shape, NEW h \in Handlers, NEW t, NEW d, NEW v, Step(h, t, d, v), NEW k,
         k = KeyOf(h), Orderly(k), d = disk[k], v = volatile[k],
         task[h].at \notin {"add", "persist"},
         t.at \notin {"validate", "attest", "saveArtifact", "failing", "reread", "saveError"}
  PROVE  Orderly(k)'
<1>1. /\ task'[h] = t /\ \A g \in Handlers \ {h} : task'[g] = task[g]
      /\ disk'[k] = d /\ volatile'[k] = v /\ k \in Keys
  BY StepOrder
<1> USE DEF Holding, Working, Catching, KeyOf, Is
<1>2. (volatile[k] # None \/ Unfinished(k) =>
         \E g \in Handlers :
           Is(k, g, {"persist"}) \/ (Is(k, g, {"add"}) /\ volatile[k] = None))'
  <2>1. Unfinished(k)' = Unfinished(k) /\ volatile'[k] = volatile[k]
    BY <1>1 DEF Unfinished
  <2>2. ASSUME NEW g \in Handlers,
               Is(k, g, {"persist"}) \/ (Is(k, g, {"add"}) /\ volatile[k] = None)
        PROVE  Is(k, g, {"persist"})' \/ (Is(k, g, {"add"})' /\ volatile'[k] = None)
    BY <1>1, <2>1, <2>2
  <2> QED BY <2>1, <2>2 DEF Orderly
<1>3. \A g \in Handlers : Is(k, g, Catching)' => task'[g].partial = None
  BY <1>1 DEF Orderly
<1>4. \A g \in Handlers :
        Is(k, g, {"validate", "attest", "saveArtifact", "failing", "reread"})' =>
          disk'[k].artifact = None
  BY <1>1 DEF Orderly
<1>5. \A g \in Handlers : Is(k, g, {"saveError"})' => task'[g].record.artifact = None
  BY <1>1 DEF Orderly
<1> HIDE DEF Holding, Working, Catching, KeyOf, Is
<1> QED BY <1>2, <1>3, <1>4, <1>5 DEF Orderly

(* Steps on the way to the key keep it orderly.                            *)
LEMMA EarlyOrderly ==
  ASSUME Shape, NEW h \in Handlers, NEW t, NEW d, NEW v, Step(h, t, d, v),
         Early(h, t, d, v), NEW k, k = KeyOf(h), Orderly(k)
  PROVE  Orderly(k)'
<1>1. CASE d = disk[k]
  <2>1. /\ v = volatile[k] /\ task[h].at \in {"lookup", "prepare", "queued"}
        /\ t.at \in {"done", "prepare", "queued", "load"}
    BY FinishedType DEF Early, Went
  <2> QED BY <1>1, <2>1, WaitsOrderly
<1>2. CASE d # disk[k]
  <2>1. disk[k] = None /\ d = Fresh(task[h].request) /\ t.at = "queued"
    BY <1>2, FinishedType DEF Early, Went
  <2>2. Unnamed(k)' /\ disk'[k] = d
    <3>1. Unnamed(k)'
      BY <2>1, FirstRecord
    <3>2. disk'[k] = d
      BY StepOrder
    <3> QED BY <3>1, <3>2
  <2>3. d.artifact = None
    BY <2>1 DEF Fresh
  <2>4. \A g \in Handlers : ~Is(k, g, KeyPlaces \cup Catching)
    BY <2>1, OnDisk DEF Is
  <2>5. \A g \in Handlers : ~Is(k, g, {"saveError"})'
    <3>1. task'[h] = t /\ \A g \in Handlers \ {h} : task'[g] = task[g]
      BY StepOrder
    <3> QED BY <2>1, <2>4, <3>1 DEF Is, KeyOf, Catching
  <2>6. volatile'[k] = None /\ ~Unfinished(k)'
    BY <2>2, <2>3 DEF Unnamed, Unfinished
  <2>7. \A g \in Handlers : Is(k, g, Catching)' => task'[g].partial = None
    BY <2>2 DEF Unnamed
  <2> QED BY <2>2, <2>3, <2>5, <2>6, <2>7 DEF Orderly
<1> QED BY <1>1, <1>2

(* What the holder of the key does.                                        *)
LEMMA HeldOrderly ==
  ASSUME Shape, NEW h \in Handlers, NEW t, NEW d, NEW v, Step(h, t, d, v),
         Held(h, t, d, v), ~Fell, NEW k, k = KeyOf(h), Catches(k), Orderly(k)
  PROVE  /\ Orderly(k)'
         /\ t.at \in {"add", "persist"} => task[h].at \in Checked
         /\ t.at = "pin" /\ task[h].at \notin Checked => disk[k].cid # None
<1> DEFINE r == task[h].record
           D == disk[k]
           V == volatile[k]
<1>1. /\ task'[h] = t /\ \A g \in Handlers \ {h} : task'[g] = task[g]
      /\ disk'[k] = d /\ volatile'[k] = v /\ k \in Keys
  BY StepOrder
<1>2. /\ task[h].at \in Holding /\ \A g \in Handlers \ {h} : ~Is(k, g, Holding)
      /\ Free(k, {"failing"})
      /\ task[h].at \in Working \cap StorePlaces => Free(k, {"reread"})
  BY HeldAlone
<1>3. D \in Record /\ D # None
  BY <1>2, OnDisk DEF KeyPlaces
<1>4. task[h].at # "persist" => V = None /\ (task[h].at # "add" => ~Unfinished(k))
  BY <1>2 DEF Orderly, Is, Holding, Working
<1>5. task[h].partial = None
  BY <1>2 DEF Shape, Records, RecordAt, RecordOf, Holding, Working, Catching
<1>6. task[h].at \in {"saveArtifact", "add", "persist", "pin", "savePinned"} =>
        /\ r \in Record /\ r # None
        /\ task[h].at \in {"saveArtifact", "add"} => r.artifact # None /\ r.cid = None
        /\ task[h].at \in {"persist", "pin"} => r.cid # None
        /\ task[h].at = "savePinned" => r.cid # None /\ r.pinned
  BY Works DEF RecordPlaces, RecordAt, RecordOf
<1>7. task[h].at \in {"validate", "attest", "saveArtifact"} => D.artifact = None
  BY DEF Orderly, Is
<1>8. ASSUME \/ v = None /\ (d.artifact = None \/ d.cid # None)
             \/ t.at = "persist" \/ (t.at = "add" /\ v = None),
             t.at \in Catching => t.partial = None, t = Finished \/ t.request = task[h].request,
             t.at \in {"validate", "attest", "saveArtifact", "failing", "reread"} =>
               d.artifact = None,
             d = D \/ Free(k, {"reread"}), t.at # "saveError"
      PROVE  Orderly(k)'
  <2> USE DEF Holding, Working, Catching, KeyOf, Is, Free
  <2>1. (volatile[k] # None \/ Unfinished(k) =>
           \E g \in Handlers :
             Is(k, g, {"persist"}) \/ (Is(k, g, {"add"}) /\ volatile[k] = None))'
    <3>1. t.at \in {"persist", "add"} => t.request.key = k
      BY <1>8, FinishedType
    <3> QED BY <1>1, <1>8, <3>1 DEF Unfinished
  <2>2. \A g \in Handlers : Is(k, g, Catching)' => task'[g].partial = None
    BY <1>1, <1>8 DEF Orderly
  <2>3. \A g \in Handlers :
          Is(k, g, {"validate", "attest", "saveArtifact", "failing", "reread"})' =>
            disk'[k].artifact = None
    <3>1. ASSUME NEW g \in Handlers,
                 Is(k, g, {"validate", "attest", "saveArtifact", "failing", "reread"})'
          PROVE  disk'[k].artifact = None
      <4>1. CASE g = h
        BY <1>1, <1>8, <3>1, <4>1
      <4>2. CASE g # h
        <5>1. Is(k, g, {"reread"})
          BY <1>1, <1>2, <3>1, <4>2
        <5> QED BY <1>1, <1>8, <5>1 DEF Orderly
      <4> QED BY <4>1, <4>2
    <3> QED BY <3>1
  <2>4. \A g \in Handlers : Is(k, g, {"saveError"})' => task'[g].record.artifact = None
    BY <1>1, <1>8 DEF Orderly
  <2> HIDE DEF Holding, Working, Catching, KeyOf, Is, Free
  <2> QED BY <2>1, <2>2, <2>3, <2>4 DEF Orderly
<1>9. t = Finished \/ t.request = task[h].request
  BY StepPlaces
<1>10. ASSUME Resumes(h, t, D), task[h].at \in {"load", "reload"}, d = D, v = V
       PROVE  /\ Orderly(k)' /\ t.at \notin {"add", "persist"}
              /\ t.at = "pin" => D.cid # None
  <2>1. V = None /\ (D.artifact = None \/ D.cid # None)
    BY <1>3, <1>4, <1>10 DEF Unfinished
  <2>2. \/ t = Finished \/ (t.at = "pin" /\ D.cid # None)
        \/ t.at \in {"attest", "validate"} /\ D.artifact = None
    BY <1>10, <2>1 DEF Resumes, Went
  <2> QED BY <1>8, <1>9, <1>10, <2>1, <2>2, FinishedType DEF Catching
<1>11. ASSUME /\ task[h].at \in {"load", "blocked"} /\ d = D /\ v = V
              /\ t.at \in {"blocked", "reload"}
       PROVE  Orderly(k)'
  BY <1>3, <1>4, <1>8, <1>9, <1>11 DEF Unfinished, Catching
<1>12. ASSUME /\ task[h].at \in {"validate", "attest"} /\ d = D /\ v = V
              /\ t.at \in {"attest", "saveArtifact", "failing"} /\ t.partial = None
       PROVE  Orderly(k)'
  BY <1>4, <1>7, <1>8, <1>9, <1>12
<1>13. ASSUME task[h].at = "saveArtifact", d = r, v = V, Resumes(h, t, r)
       PROVE  Orderly(k)' /\ t.at = "add"
  <2>1. V = None /\ t.at = "add"
    BY <1>4, <1>6, <1>13 DEF Resumes, Went
  <2>2. Free(k, {"reread"})
    BY <1>2, <1>13 DEF Working, StorePlaces
  <2> QED BY <1>8, <1>9, <1>13, <2>1, <2>2 DEF Catching
<1>14. ASSUME task[h].at = "add", t.at = "persist", d = D
       PROVE  Orderly(k)'
  BY <1>8, <1>9, <1>14 DEF Catching
<1>15. ASSUME task[h].at = "persist", d = r, v = None, t.at = "pin"
       PROVE  Orderly(k)'
  <2>1. Free(k, {"reread"})
    BY <1>2, <1>15 DEF Working, StorePlaces
  <2> QED BY <1>6, <1>8, <1>9, <1>15, <2>1 DEF Catching
<1>16. ASSUME task[h].at = "pin", d = D, v = V, t.at = "savePinned"
       PROVE  Orderly(k)'
  BY <1>3, <1>4, <1>8, <1>9, <1>16 DEF Unfinished, Catching
<1>17. ASSUME task[h].at = "savePinned", d = r, v = V, Resumes(h, t, r)
       PROVE  Orderly(k)' /\ t.at = "done"
  <2>1. t.at = "done"
    BY <1>6, <1>17, FinishedType DEF Resumes
  <2>2. Free(k, {"reread"})
    BY <1>2, <1>17 DEF Working, StorePlaces
  <2> QED BY <1>4, <1>6, <1>8, <1>9, <1>17, <2>1, <2>2 DEF Catching
<1>18. CASE task[h].at \in {"load", "blocked", "reload"}
  <2>1. t.at \in {"blocked", "reload"} => t.at \notin {"add", "persist", "pin"}
    OBVIOUS
  <2> QED BY <1>10, <1>11, <1>18, <2>1 DEF Held, Went, Checked
<1>19. CASE task[h].at = "validate"
  BY <1>5, <1>12, <1>19 DEF Held, Went, Threw, Checked
<1>20. CASE task[h].at \in Checked
  BY <1>5, <1>12, <1>13, <1>14, <1>15, <1>16, <1>17, <1>20 DEF Held, Went, Threw, Checked
<1> QED BY <1>2, <1>18, <1>19, <1>20 DEF Holding, Working, Checked

(* What a catch block does.                                                *)
LEMMA CaughtOrderly ==
  ASSUME Shape, NEW h \in Handlers, NEW t, NEW d, NEW v, Step(h, t, d, v),
         Caught(h, t, d, v), NEW k, k = KeyOf(h), Orderly(k)
  PROVE  Orderly(k)' /\ d.cid \in {None, disk[k].cid} /\ (d = disk[k] \/ d.cid = None)
<1> DEFINE r == task[h].record
           D == disk[k]
           V == volatile[k]
<1>1. /\ task'[h] = t /\ \A g \in Handlers \ {h} : task'[g] = task[g]
      /\ disk'[k] = d /\ volatile'[k] = v /\ k \in Keys
  BY StepOrder
<1>2. task[h].at \in Catching
  BY DEF Caught, Catching
<1>3. task[h].partial = None
  BY <1>2 DEF Orderly, Is
<1>4. task[h].at = "saveError" => r # None /\ r.artifact = None /\ r.cid = None
  BY Works, NoneAssumption DEF RecordPlaces, Orderly, Is, Sound
<1>5. task[h].at \in {"failing", "reread"} => D.artifact = None
  BY DEF Orderly, Is
<1>6. /\ v = V /\ t.at \in {"reread", "saveError", "done"}
      /\ t.at # "done" => t.partial = None /\ d = D /\ D.artifact = None
      /\ t.at = "saveError" => t.record.artifact = None
      /\ d = D \/ (d.cid = None /\ d.artifact = None)
  BY <1>3, <1>4, <1>5, FinishedType DEF Caught, Went
<1> USE DEF Holding, Working, Catching, KeyOf, Is, Free
<1>7. (volatile[k] # None \/ Unfinished(k) =>
         \E g \in Handlers :
           Is(k, g, {"persist"}) \/ (Is(k, g, {"add"}) /\ volatile[k] = None))'
  <2>1. (Unfinished(k)' => Unfinished(k)) /\ volatile'[k] = volatile[k]
    BY <1>1, <1>6 DEF Unfinished
  <2>2. ASSUME NEW g \in Handlers,
               Is(k, g, {"persist"}) \/ (Is(k, g, {"add"}) /\ volatile[k] = None)
        PROVE  Is(k, g, {"persist"})' \/ (Is(k, g, {"add"})' /\ volatile'[k] = None)
    BY <1>1, <1>2, <2>1, <2>2
  <2> QED BY <2>1, <2>2 DEF Orderly
<1>8. \A g \in Handlers : Is(k, g, Catching)' => task'[g].partial = None
  BY <1>1, <1>6 DEF Orderly
<1>9. \A g \in Handlers :
        Is(k, g, {"validate", "attest", "saveArtifact", "failing", "reread"})' =>
          disk'[k].artifact = None
  BY <1>1, <1>6 DEF Orderly
<1>10. \A g \in Handlers : Is(k, g, {"saveError"})' => task'[g].record.artifact = None
  BY <1>1, <1>6 DEF Orderly
<1> HIDE DEF Holding, Working, Catching, KeyOf, Is, Free
<1> QED BY <1>6, <1>7, <1>8, <1>9, <1>10 DEF Orderly

(* A stream has one handler that holds its lock.                           *)
LEMMA OneLocked ==
  ASSUME Shape, NEW g \in Handlers, NEW h \in Handlers, task[g].at \in Checked,
         task[h].at \in Checked, StreamOf(g) = StreamOf(h), StreamOf(h) \in Streams
  PROVE  g = h
<1>1. Locked(g) /\ Locked(h) /\ task[g].at # "blocked" /\ task[h].at # "blocked"
  BY PublicationAssumption DEF Locked, Checked, Working
<1>2. Chain(lockTail, Handlers) /\ g \in Range(lockTail) /\ h \in Range(lockTail)
  BY <1>1 DEF Shape, Chains
<1>3. ~Ahead(lockTail, g, h) /\ ~Ahead(lockTail, h, g)
  BY <1>1 DEF Shape, Chains
<1> QED BY <1>2, <1>3, OneIsAhead

(* The published snapshots of a stream, and their numbers.                 *)
LEMMA PublishedFinite ==
  ASSUME Shape, NEW s \in Streams
  PROVE  /\ IsFiniteSet(Published(s)) /\ IsFiniteSet(Numbers(s)) /\ Numbers(s) \subseteq Nat
         /\ \A r \in Published(s) : \E k \in Keys : disk[k] = r /\ PublishedIn(k, s)
         /\ \A k \in Keys : PublishedIn(k, s) => disk[k].request.sequence \in Numbers(s)
         /\ [r \in Published(s) |-> r.request.sequence] \in Surjection(Published(s), Numbers(s))
<1>1. disk \in [Keys -> Record \cup {None}] /\ IsFiniteSet(Keys)
  BY PublicationAssumption DEF Shape, TypeOK
<1>2. Range(disk) = {disk[k] : k \in Keys}
  BY <1>1 DEF Range
<1>3. IsFiniteSet(Range(disk))
  <2> DEFINE f == [k \in Keys |-> disk[k]]
  <2>1. f \in Surjection(Keys, Range(disk))
    BY <1>1, <1>2 DEF Surjection
  <2> QED BY <1>1, <2>1, FS_Surjection
<1>4. IsFiniteSet(Published(s))
  <2>1. Published(s) \subseteq Range(disk)
    BY DEF Published
  <2> QED BY <1>3, <2>1, FS_Subset
<1>5. \A r \in Published(s) : \E k \in Keys : disk[k] = r /\ PublishedIn(k, s)
  BY <1>2 DEF Published, PublishedIn
<1>6. \A k \in Keys : PublishedIn(k, s) => disk[k].request.sequence \in Numbers(s)
  BY <1>2 DEF Published, PublishedIn, Numbers
<1>7. \A r \in Published(s) : r.request.sequence \in Nat
  <2>1. \A r \in Published(s) : r.request \in Requests
    BY <1>1, <1>5 DEF PublishedIn, Record
  <2> QED BY <2>1, PublicationAssumption DEF Request
<1>8. [r \in Published(s) |-> r.request.sequence] \in Surjection(Published(s), Numbers(s))
  BY DEF Surjection, Numbers
<1>9. IsFiniteSet(Numbers(s))
  BY <1>4, <1>8, FS_Surjection
<1>10. Numbers(s) \subseteq Nat
  BY <1>7 DEF Numbers
<1> QED BY <1>4, <1>5, <1>6, <1>8, <1>9, <1>10

(* What the validator accepts has a new number.                            *)
LEMMA FollowsAll ==
  ASSUME Shape, NEW q \in Requests, q.stream \in Streams, Follows(q), NEW j \in Keys,
         PublishedIn(j, q.stream)
  PROVE  disk[j].request.sequence # q.sequence
<1> DEFINE S == Numbers(q.stream)
           n == disk[j].request.sequence
<1>1. n \in S /\ S \subseteq Int /\ IsFiniteSet(S)
  <2>1. S \subseteq Nat /\ n \in S /\ IsFiniteSet(S)
    BY PublishedFinite
  <2> QED BY <2>1
<1>2. q.sequence = 1 + Max(S)
  BY <1>1 DEF Follows
<1> HIDE DEF S, n
<1>3. Max(S) \in Int /\ n \in Int /\ n <= Max(S)
  BY <1>1, EndsExist
<1>4. q.sequence # n
  BY <1>2, <1>3
<1> QED BY <1>4 DEF n

(* A key is published by the handler that has checked its number.          *)
LEMMA NewlyPublished ==
  ASSUME Shape, NEW h \in Handlers, NEW t, NEW d, NEW v, Step(h, t, d, v), NEW k,
         k = KeyOf(h), Orderly(k), NEW s \in Streams, PublishedIn(k, s)'
  PROVE  /\ disk'[k].request = d.request
         /\ \/ PublishedIn(k, s) /\ d.request = disk[k].request
            \/ task[h].at \in Checked /\ StreamOf(h) = s /\ d.request = task[h].request
<1>1. disk'[k] = d /\ d # None /\ d.cid # None /\ d.request.stream = s
  BY StepOrder DEF PublishedIn
<1>2. CASE d = disk[k]
  BY <1>1, <1>2 DEF PublishedIn
<1>3. CASE d # disk[k] /\ Early(h, t, d, v)
  BY <1>1, <1>3 DEF Early, Fresh
<1>4. CASE d # disk[k] /\ Held(h, t, d, v)
  <2>1. task[h].at \in {"saveArtifact", "persist", "savePinned"} /\ d = task[h].record
    BY <1>4 DEF Held
  <2>2. d.request = task[h].request
    BY <2>1, Works DEF RecordPlaces
  <2> QED BY <1>1, <2>1, <2>2 DEF Checked, StreamOf
<1>5. CASE d # disk[k] /\ Caught(h, t, d, v)
  BY <1>1, <1>5, CaughtOrderly
<1> QED BY <1>1, <1>2, <1>3, <1>4, <1>5 DEF Step

(* A handler's step keeps the checked numbers free and the published ones  *)
(* different.                                                              *)
LEMMA NumbersStep ==
  ASSUME Shape, NEW h \in Handlers, NEW t, NEW d, NEW v, Step(h, t, d, v), NEW k,
         k = KeyOf(h), Catches(k), Orderly(k), ~Fell, NumberFree, NumbersDiffer
  PROVE  NumberFree' /\ NumbersDiffer'
<1>1. /\ task'[h] = t /\ \A g \in Handlers \ {h} : task'[g] = task[g]
      /\ disk'[k] = d /\ k \in Keys
      /\ \A j \in Keys \ {k} : disk'[j] = disk[j]
      /\ t = Finished \/ t.request = task[h].request
  BY StepOrder, StepPlaces
<1>2. \A j \in Keys \ {k}, s \in Streams : PublishedIn(j, s)' <=> PublishedIn(j, s)
  BY <1>1 DEF PublishedIn
<1>3. ASSUME NEW j \in Keys \ {k}, NEW s \in Streams, PublishedIn(j, s), PublishedIn(k, s)'
      PROVE  disk'[j].request.sequence # disk'[k].request.sequence
  <2>1. /\ disk'[k].request = d.request
        /\ \/ PublishedIn(k, s) /\ d.request = disk[k].request
           \/ task[h].at \in Checked /\ StreamOf(h) = s /\ d.request = task[h].request
    BY <1>3, NewlyPublished
  <2>2. disk'[j] = disk[j]
    BY <1>1
  <2>3. CASE PublishedIn(k, s) /\ d.request = disk[k].request
    BY <1>1, <1>3, <2>1, <2>2, <2>3 DEF NumbersDiffer
  <2>4. CASE task[h].at \in Checked /\ StreamOf(h) = s /\ d.request = task[h].request
    BY <1>3, <2>1, <2>2, <2>4 DEF NumberFree
  <2> QED BY <2>1, <2>3, <2>4
<1>4. NumbersDiffer'
  <2>1. ASSUME NEW i \in Keys, NEW j \in Keys, NEW s \in Streams, i # j,
               PublishedIn(i, s)', PublishedIn(j, s)'
        PROVE  disk'[i].request.sequence # disk'[j].request.sequence
    <3>1. CASE i # k /\ j # k
      BY <1>1, <1>2, <2>1, <3>1 DEF NumbersDiffer
    <3>2. CASE i = k
      BY <1>2, <1>3, <2>1, <3>2
    <3>3. CASE j = k
      BY <1>2, <1>3, <2>1, <3>3
    <3> QED BY <3>1, <3>2, <3>3
  <2> QED BY <2>1 DEF NumbersDiffer
(* The handler itself: it has just been checked, or its key is published.  *)
<1>5. ASSUME t.at \in Checked, StreamOf(h) \in Streams, NEW j \in Keys \ {k},
             PublishedIn(j, StreamOf(h))
      PROVE  disk[j].request.sequence # task[h].request.sequence
  <2>1. CASE task[h].at \in Checked
    BY <1>5, <2>1 DEF NumberFree
  <2>2. CASE task[h].at \notin Checked
    <3>1. Held(h, t, d, v)
      BY <1>5, FinishedType DEF Step, Early, Caught, Went, Checked
    <3>2. task[h].at \in {"load", "reload"} \/ (task[h].at = "validate" /\ Follows(task[h].request))
      BY <1>5, <2>2, <3>1 DEF Held, Went, Threw, Checked
    <3>3. CASE task[h].at = "validate" /\ Follows(task[h].request)
      <4>1. task[h].request \in Requests /\ StreamOf(h) = task[h].request.stream
        BY StepPlaces DEF StreamOf
      <4> QED BY <1>5, <3>3, <4>1, FollowsAll
    <3>4. CASE task[h].at \in {"load", "reload"}
      <4>1. t.at \in {"attest", "pin"}
        <5>1. t.at \notin {"add", "persist"}
          BY <2>2, <3>1, HeldOrderly
        <5>2. t.at \in {"blocked", "reload", "persist", "attest", "validate", "add", "pin", "done"}
          BY <3>1, <3>4, FinishedType DEF Held, Went, Resumes
        <5> QED BY <1>5, <5>1, <5>2 DEF Checked
      <4>2. t.at # "attest"
        BY <1>5, <3>1, <3>4, FinishedType, PublicationAssumption DEF Held, Went, Resumes
      <4>3. disk[k].cid # None
        BY <2>2, <3>1, <4>1, <4>2, HeldOrderly
      <4>4. disk[k] # None /\ disk[k].request = task[h].request
        BY <3>4, OnDisk DEF KeyPlaces, Holding, Working
      <4>5. PublishedIn(k, StreamOf(h))
        BY <4>3, <4>4 DEF PublishedIn, StreamOf
      <4> QED BY <1>1, <1>5, <4>4, <4>5 DEF NumbersDiffer
    <3> QED BY <3>2, <3>3, <3>4
  <2> QED BY <2>1, <2>2
<1>6. NumberFree'
  <2>1. ASSUME NEW g \in Handlers, NEW j \in Keys, NEW u \in Streams, task'[g].at \in Checked,
               StreamOf(g)' = u, j # KeyOf(g)', PublishedIn(j, u)'
        PROVE  disk'[j].request.sequence # task'[g].request.sequence
    <3>1. CASE g = h
      <4>1. t.at \in Checked /\ t.request = task[h].request
        BY <1>1, <2>1, <3>1, FinishedType DEF Checked
      <4>2. StreamOf(h) = u /\ j # k
        BY <1>1, <2>1, <3>1, <4>1 DEF StreamOf, KeyOf
      <4>3. PublishedIn(j, u) /\ disk'[j] = disk[j]
        BY <1>1, <1>2, <2>1, <4>2
      <4> QED BY <1>1, <1>5, <2>1, <3>1, <4>1, <4>2, <4>3
    <3>2. CASE g # h
      <4>1. task'[g] = task[g] /\ StreamOf(g) = u /\ KeyOf(g)' = KeyOf(g)
        BY <1>1, <2>1, <3>2 DEF StreamOf, KeyOf
      <4>2. CASE j # k
        <5>1. disk'[j] = disk[j] /\ PublishedIn(j, u)
          BY <1>1, <1>2, <2>1, <4>2
        <5> QED BY <2>1, <4>1, <5>1 DEF NumberFree
      <4>3. CASE j = k
        <5>1. /\ disk'[k].request = d.request
              /\ \/ PublishedIn(k, u) /\ d.request = disk[k].request
                 \/ task[h].at \in Checked /\ StreamOf(h) = u /\ d.request = task[h].request
          BY <2>1, <4>3, NewlyPublished
        <5>2. ~(task[h].at \in Checked /\ StreamOf(h) = u)
          BY <2>1, <3>2, <4>1, OneLocked
        <5>3. PublishedIn(k, u) /\ disk'[k].request = disk[k].request
          BY <5>1, <5>2
        <5> QED BY <1>1, <2>1, <4>1, <4>3, <5>3 DEF NumberFree
      <4> QED BY <4>2, <4>3
    <3> QED BY <3>1, <3>2
  <2> QED BY <2>1 DEF NumberFree, PublishedIn
<1> QED BY <1>4, <1>6

(* Every step without a failure keeps keys orderly and numbers apart.      *)
LEMMA CalmNext ==
  ASSUME Shape, Phases, CalmKeys, [Next]_vars
  PROVE  CalmKeys'
<1>1. ASSUME NEW h \in Handlers, NEW t, NEW d, NEW v, Step(h, t, d, v), Calm'
      PROVE  (\A k \in Keys : Orderly(k)') /\ NumberFree' /\ NumbersDiffer'
  <2>1. /\ Calm /\ ~Fell /\ (\A k \in Keys : Orderly(k)) /\ NumberFree /\ NumbersDiffer
    BY <1>1, CalmBefore DEF CalmKeys
  <2>2. PICK k \in Keys : k = KeyOf(h)
    BY <1>1, StepOrder
  <2>3. Catches(k) /\ Orderly(k)
    BY <2>1 DEF Phases
  <2>4. Orderly(k)'
    BY <1>1, <2>1, <2>2, <2>3, EarlyOrderly, HeldOrderly, CaughtOrderly DEF Step
  <2>5. ASSUME NEW j \in Keys, j # k PROVE Orderly(j)'
    BY <1>1, <2>1, <2>2, <2>5, StepSame, SameOrderly
  <2>6. NumberFree' /\ NumbersDiffer'
    BY <1>1, <2>1, <2>2, <2>3, NumbersStep
  <2> QED BY <2>4, <2>5, <2>6
<1>2. ASSUME NEW h \in Handlers, NEW q \in workload, Arrives(h, q), Calm'
      PROVE  (\A k \in Keys : Orderly(k)') /\ NumberFree' /\ NumbersDiffer'
  <2>1. UNCHANGED <<disk, failures, crashes>>
    BY <1>2 DEF Arrives, Receive
  <2>2. (\A k \in Keys : Orderly(k)) /\ NumberFree /\ NumbersDiffer
    BY <1>2, <2>1 DEF CalmKeys, Calm
  <2>3. \A k \in Keys : Orderly(k)'
    BY <1>2, <2>2, ArriveSame, SameOrderly
  <2>4. \A g \in Handlers : task'[g].at \in Checked => task'[g] = task[g]
    BY <1>2 DEF Arrives, Receive, Shape, TypeOK, Task, Checked
  <2>5. NumberFree'
    BY <2>1, <2>2, <2>4 DEF NumberFree, PublishedIn, StreamOf, KeyOf
  <2>6. NumbersDiffer'
    BY <2>1, <2>2 DEF NumbersDiffer, PublishedIn
  <2> QED BY <2>3, <2>5, <2>6
<1>3. ASSUME Crash PROVE ~Calm'
  BY <1>3 DEF Crash, Calm, Shape, TypeOK
<1>4. ASSUME UNCHANGED vars PROVE CalmKeys'
  <2>1. \A k \in Keys : Same(k)
    BY <1>4 DEF vars, Same, Precedes, Ahead
  <2>2. \A k \in Keys : Orderly(k) => Orderly(k)'
    BY <2>1, SameOrderly
  <2>3. (Calm' => Calm) /\ (NumberFree => NumberFree') /\ (NumbersDiffer => NumbersDiffer')
    BY <1>4 DEF vars, Calm, NumberFree, NumbersDiffer, PublishedIn, StreamOf, KeyOf
  <2> QED BY <2>2, <2>3 DEF CalmKeys
<1> QED BY <1>1, <1>2, <1>3, <1>4, NextSteps DEF CalmKeys

(* While nothing has failed, keys are orderly and numbers are apart.       *)
LEMMA CalmInvariant == Spec => []CalmKeys
<1>1. Init => CalmKeys
  <2> SUFFICES ASSUME Init PROVE (\A k \in Keys : Orderly(k)) /\ NumberFree /\ NumbersDiffer
    BY DEF CalmKeys
  <2>1. \A h \in Handlers : task[h].at = "idle"
    BY FinishedType DEF Init
  <2>2. \A k \in Keys : disk[k] = None /\ volatile[k] = None
    BY DEF Init
  <2>3. \A k \in Keys : Orderly(k)
    BY <2>1, <2>2 DEF Orderly, Unfinished, Is, Catching
  <2>4. NumberFree /\ NumbersDiffer
    BY <2>2 DEF NumberFree, NumbersDiffer, PublishedIn
  <2> QED BY <2>3, <2>4
<1>2. Shape /\ Phases /\ CalmKeys /\ [Next]_vars => CalmKeys'
  BY CalmNext
<1> QED BY <1>1, <1>2, ShapeInvariant, PhasesInvariant, PTL DEF Spec

(* As long as every call succeeds, the published snapshots of a stream     *)
(* have distinct sequence numbers: handlers that validate against the same *)
(* stored snapshots are kept apart by the lock key.                        *)
THEOREM PublicationSequence == Spec => []SequenceUniqueUntilFailure
<1>1. ASSUME Shape, CalmKeys PROVE SequenceUniqueUntilFailure
  <2>1. ASSUME Calm, NEW s \in Streams
        PROVE  Cardinality(Numbers(s)) = Cardinality(Published(s))
    <3> DEFINE f == [r \in Published(s) |-> r.request.sequence]
    <3>1. /\ IsFiniteSet(Published(s)) /\ f \in Surjection(Published(s), Numbers(s))
          /\ \A r \in Published(s) : \E k \in Keys : disk[k] = r /\ PublishedIn(k, s)
      BY <1>1, PublishedFinite
    <3>2. ASSUME NEW r \in Published(s), NEW u \in Published(s),
                 r.request.sequence = u.request.sequence
          PROVE  r = u
      <4>1. PICK j \in Keys, k \in Keys :
              disk[j] = r /\ disk[k] = u /\ PublishedIn(j, s) /\ PublishedIn(k, s)
        BY <3>1
      <4>2. NumbersDiffer
        BY <1>1, <2>1 DEF CalmKeys
      <4> QED BY <3>2, <4>1, <4>2 DEF NumbersDiffer
    <3>3. f \in Injection(Published(s), Numbers(s))
      BY <3>1, <3>2 DEF Injection, Surjection, IsInjective
    <3> HIDE DEF f
    <3> QED BY <3>1, <3>3, FS_Surjection
  <2> QED BY <2>1 DEF SequenceUniqueUntilFailure, SequenceNumbersUnique, Calm
<1> QED BY <1>1, ShapeInvariant, CalmInvariant, PTL
=============================================================================
