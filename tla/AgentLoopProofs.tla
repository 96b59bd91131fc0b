-------------------------- MODULE AgentLoopProofs --------------------------
(***************************************************************************)
(* What the loop of the agent runtime guarantees for every set of deposits *)
(* and proposal hashes, every delay, every length of the chain and every   *)
(* number of failures and restarts.                                        *)
(***************************************************************************)
EXTENDS AgentLoop, FiniteSetTheorems, TLAPS

(* A non-empty set of blocks has a latest one.                             *)
LEMMA LatestExists ==
  ASSUME NEW n \in Nat, NEW S \in SUBSET (1..n), S # {}
  PROVE  Latest(S) \in S /\ \A b \in S : b <= Latest(S)
<1> DEFINE hasLatest(T) == \E b \in T : \A c \in T : c <= b
<1> DEFINE Bad == {T \in SUBSET S : T # {} /\ ~hasLatest(T)}
<1> DEFINE R == StrictSubsetOrdering(S)
<1>1. IsFiniteSet(S)
  <2>1. 1 \in Int /\ n \in Int
    OBVIOUS
  <2>2. IsFiniteSet(1..n)
    BY <2>1, FS_Interval
  <2> QED BY <2>2, FS_Subset
<1>2. SUBSET S = FiniteSubsetsOf(S)
  BY <1>1, FS_FiniteSubsetsOfFinite
<1>3. Bad = {}
  <2>1. SUFFICES ASSUME Bad # {} PROVE FALSE
    OBVIOUS
  <2>2. IsWellFoundedOn(R, SUBSET S)
    BY <1>1, <1>2, FS_StrictSubsetOrderingWellFounded
  <2>3. PICK T \in Bad : \A U \in Bad : <<U, T>> \notin R
    <3> HIDE DEF Bad, R
    <3>1. Bad \subseteq SUBSET S
      BY DEF Bad
    <3> QED BY <2>1, <2>2, <3>1, WFMin
  <2>4. PICK x \in T : TRUE
    OBVIOUS
  <2>5. T \ {x} \notin Bad
    <3>1. T \ {x} \in SUBSET S /\ T \in SUBSET S /\ T \ {x} # T
      OBVIOUS
    <3>2. <<T \ {x}, T>> \in R
      BY <3>1 DEF StrictSubsetOrdering
    <3> QED BY <2>3, <3>2
  <2>6. CASE T \ {x} = {}
    BY <2>6, x \in Int
  <2>7. CASE T \ {x} # {}
    <3>1. PICK a \in T \ {x} : \A c \in T \ {x} : c <= a
      BY <2>5, <2>7
    <3>2. CASE a <= x
      <4>1. \A c \in T : c <= x
        BY <3>1, <3>2
      <4> QED BY <4>1
    <3>3. CASE x <= a
      <4>1. \A c \in T : c <= a
        BY <3>1, <3>3
      <4> QED BY <4>1
    <3> QED BY <3>1, <3>2, <3>3
  <2> QED BY <2>6, <2>7
<1>4. hasLatest(S)
  BY <1>3
<1> QED BY <1>4 DEF Latest

-----------------------------------------------------------------------------
(* The inductive invariants.  Events are of the kind their subject has;    *)
(* what the iteration holds fits its phase; a known proposal has an event  *)
(* at or before the cursor.                                                *)
Events ==
  \A b \in 1..Height :
    /\ chain[b].kind = "deposit" <=> chain[b].of \in Deposits
    /\ chain[b].kind \in {"proposed"} \cup Ended => chain[b].of \in Hashes
Phases ==
  /\ stage = "record" => \A b \in fresh : chain[b].kind = "deposit"
  /\ stage # "executing" => todo = {}
Cursors ==
  /\ checked <= Height
  /\ pchecked # None => pchecked <= Height
  /\ \A h \in DOMAIN known : pchecked # None /\ EventsOf(h, pchecked) # {}
Shape == TypeOK /\ Events /\ Phases /\ Cursors

(* What may be said until a phase fails or the agent restarts.             *)
Calm == failures = 0 /\ crashes = 0

(* A timelock that had side effects is marked as fired.                    *)
FiredWhenActed == Calm => \A d \in Deposits : acts[d] <= 1 /\ (d \notin fired => acts[d] = 0)

(* An execution of the latest proposal of its hash that did not revert is  *)
(* the one the loop tracks.                                                *)
Tracking ==
  Calm => \A i \in DOMAIN txs :
    /\ pchecked # None /\ txs[i].at <= pchecked
    /\ txs[i].state # "reverted" /\ txs[i].at = Latest(EventsOf(txs[i].hash, pchecked))
         => txs[i].hash \in DOMAIN known /\ known[txs[i].hash] = i

(* What the cursors have passed is in the hands of the iteration or was    *)
(* handed over by an earlier one.                                          *)
Handed ==
  Calm =>
    /\ stage \in {"idle", "deposits"} => fresh = {}
    /\ \A b \in 1..Height : Owed(b) => b \in handed \cup fresh
    /\ \A b \in 1..checked : chain[b].kind = "deposit" =>
         chain[b].of \in history \/ (stage = "record" /\ b \in fresh)

-----------------------------------------------------------------------------
(* The chain only grows.                                                   *)
LEMMA Grown ==
  ASSUME Shape, NEW kind, NEW x, [kind |-> kind, of |-> x] \in Block, Made(kind, x)
  PROVE  /\ chain' \in Seq(Block) /\ Height' = Height + 1
         /\ \A b \in 1..Height : chain'[b] = chain[b]
         /\ chain'[Height + 1] = [kind |-> kind, of |-> x]
  BY DEF Shape, TypeOK, Made, Height

(* The events at or before a block that was on chain stay the same.        *)
LEMMA EventsKept ==
  ASSUME Height \in Nat, Height' \in Nat, Height <= Height',
         \A b \in 1..Height : chain'[b] = chain[b], NEW h, NEW n \in Nat, n <= Height
  PROVE  {b \in 1..n : chain'[b].of = h} = EventsOf(h, n)
  BY DEF EventsOf

(* The subject of a workload is a deposit or a hash.                       *)
LEMMA LoadTypes ==
  ASSUME load \in Workloads
  PROVE  /\ load.start \in {0, None} /\ load.deposits \subseteq Deposits
         /\ load.hashes \subseteq Hashes
         /\ load.blocks \in Nat /\ load.failures \in Nat /\ load.crashes \in Nat
<1>1. load \in [start : {0, None}, deposits : SUBSET Deposits,
                hashes : SUBSET Hashes, blocks : Nat, failures : Nat, crashes : Nat]
  BY LoopAssumption
<1> QED BY <1>1

(* The shape holds in the state a start leaves.                            *)
LEMMA ShapeInit == Init => Shape
<1> SUFFICES ASSUME Init PROVE Shape
  OBVIOUS
<1> USE DEF Init
<1>1. TypeOK
  <2>1. chain = <<>> /\ Len(chain) = 0 /\ chain \in Seq(Block)
    OBVIOUS
  <2>2. known = <<>> /\ DOMAIN known = {} /\ tried \subseteq DOMAIN known
    OBVIOUS
  <2>3. acts \in [Deposits -> Nat]
    OBVIOUS
  <2>4. checked \in Nat /\ pchecked \in Nat \cup {None}
    BY LoadTypes
  <2>5. failures \in 0..load.failures /\ crashes \in 0..load.crashes
    BY LoadTypes
  <2> QED BY <2>1, <2>2, <2>3, <2>4, <2>5 DEF TypeOK, Height
<1>2. Events
  BY DEF Events, Height
<1>3. Phases
  BY DEF Phases
<1>4. Cursors
  BY LoadTypes DEF Cursors, Height
<1> QED BY <1>1, <1>2, <1>3, <1>4 DEF Shape

(* A stuttering step keeps it.                                             *)
LEMMA ShapeStutter == Shape /\ UNCHANGED vars => Shape'
<1> SUFFICES ASSUME Shape, UNCHANGED vars PROVE Shape'
  OBVIOUS
<1> USE DEF vars, cursors, memory, iteration, ghosts
<1>1. TypeOK'
  BY DEF Shape, TypeOK, Height
<1>2. Events' /\ Phases'
  BY DEF Shape, Events, Phases, Height
<1>3. Cursors'
  BY DEF Shape, Cursors, Height, EventsOf
<1> QED BY <1>1, <1>2, <1>3 DEF Shape

(* What others do to the chain.                                            *)
LEMMA ShapeGrown ==
  ASSUME Shape, NEW kind, NEW x, [kind |-> kind, of |-> x] \in Block, Made(kind, x),
         kind = "deposit" <=> x \in Deposits, kind \in {"proposed"} \cup Ended => x \in Hashes,
         UNCHANGED <<cursors, memory, iteration, ghosts, failures, load, crashes>>,
         txs' \in Seq(Sent),
         Len(txs') = Len(txs)
  PROVE  Shape'
<1> USE DEF cursors, memory, iteration, ghosts
<1>1. /\ chain' \in Seq(Block) /\ Height \in Nat /\ Height' = Height + 1
      /\ \A b \in 1..Height : chain'[b] = chain[b]
      /\ chain'[Height + 1] = [kind |-> kind, of |-> x]
  BY Grown DEF Shape, TypeOK, Height
<1>2. TypeOK'
  BY <1>1 DEF Shape, TypeOK
<1>3. Events'
  <2> SUFFICES ASSUME NEW b \in 1..Height' 
               PROVE  /\ chain'[b].kind = "deposit" <=> chain'[b].of \in Deposits
                      /\ chain'[b].kind \in {"proposed"} \cup Ended => chain'[b].of \in Hashes
    BY DEF Events
  <2>1. CASE b \in 1..Height
    BY <1>1, <2>1 DEF Shape, Events
  <2>2. CASE b = Height + 1
    BY <1>1, <2>2
  <2> QED BY <1>1, <2>1, <2>2
<1>4. Phases'
  BY <1>1 DEF Shape, Phases, TypeOK
<1>5. Cursors'
  <2>1. checked' <= Height' /\ (pchecked' # None => pchecked' <= Height')
    BY <1>1 DEF Shape, TypeOK, Cursors
  <2>2. ASSUME NEW h \in DOMAIN known PROVE pchecked' # None /\ EventsOf(h, pchecked)' # {}
    <3>1. /\ pchecked \in Nat /\ pchecked <= Height /\ EventsOf(h, pchecked) # {}
          /\ pchecked # None
      BY DEF Shape, TypeOK, Cursors
    <3>2. Height' \in Nat /\ Height <= Height'
      BY <1>1
    <3>3. {b \in 1..pchecked : chain'[b].of = h} = EventsOf(h, pchecked)
      BY <1>1, <3>1, <3>2, EventsKept
    <3> QED BY <3>1, <3>3 DEF EventsOf
  <2> QED BY <2>1, <2>2 DEF Cursors
<1> QED BY <1>2, <1>3, <1>4, <1>5 DEF Shape

(* Blocks made by others and mined executions keep the shape.              *)
LEMMA ShapeOthers == Shape /\ Others => Shape'
<1> SUFFICES ASSUME Shape, Others PROVE Shape'
  OBVIOUS
<1> USE DEF ByOthers
<1>0. txs \in Seq(Sent)
  BY DEF Shape, TypeOK
<1>1. CASE Tick
  <2>1. [kind |-> "none", of |-> None] \in Block
    BY DEF Block
  <2> QED BY <1>0, <1>1, <2>1, ShapeGrown, LoopAssumption DEF Tick, Ended
<1>2. ASSUME NEW d \in Deposits, Deposit(d) PROVE Shape'
  <2>1. [kind |-> "deposit", of |-> d] \in Block
    BY DEF Block
  <2> QED BY <1>0, <1>2, <2>1, ShapeGrown DEF Deposit, Ended
<1>3. ASSUME NEW h \in Hashes, Propose(h) PROVE Shape'
  <2>1. [kind |-> "proposed", of |-> h] \in Block
    BY DEF Block
  <2> QED BY <1>0, <1>3, <2>1, ShapeGrown, LoopAssumption DEF Propose
<1>4. ASSUME NEW h \in Hashes, Delete(h) PROVE Shape'
  <2>1. [kind |-> "deleted", of |-> h] \in Block
    BY DEF Block, Ended
  <2> QED BY <1>0, <1>4, <2>1, ShapeGrown, LoopAssumption DEF Delete
<1>5. ASSUME NEW i \in DOMAIN txs, Mine(i) PROVE Shape'
  <2>0. DOMAIN txs = 1..Len(txs) /\ i \in 1..Len(txs) /\ txs[i] \in Sent
    BY <1>0, <1>5
  <2>2. /\ txs[i].hash \in Hashes
        /\ [txs[i] EXCEPT !.state = "mined"] \in Sent
        /\ [txs[i] EXCEPT !.state = "reverted"] \in Sent
    BY <2>0 DEF Sent
  <2>1. txs' \in Seq(Sent) /\ Len(txs') = Len(txs)
    BY <1>0, <1>5, <2>0, <2>2 DEF Mine
  <2>3. CASE Executable(txs[i].hash)
    <3>1. [kind |-> "executed", of |-> txs[i].hash] \in Block
      BY <2>2 DEF Block, Ended
    <3> QED BY <1>5, <2>1, <2>2, <2>3, <3>1, ShapeGrown, LoopAssumption DEF Mine
  <2>4. CASE ~Executable(txs[i].hash)
    <3> USE DEF cursors, memory, iteration, ghosts
    <3>1. UNCHANGED <<chain, cursors, memory, iteration, ghosts, failures, load, crashes>>
      BY <1>5, <2>4 DEF Mine
    <3>2. TypeOK'
      BY <2>1, <3>1 DEF Shape, TypeOK, Height
    <3>3. Events' /\ Phases'
      BY <3>1 DEF Shape, Events, Phases, Height
    <3>4. Cursors'
      BY <3>1 DEF Shape, Cursors, Height, EventsOf
    <3> QED BY <3>2, <3>3, <3>4 DEF Shape
  <2> QED BY <2>3, <2>4
<1> QED BY <1>1, <1>2, <1>3, <1>4, <1>5 DEF Others

(* What the phases of an iteration do to the shape.                        *)
LEMMA FailuresBounded ==
  ASSUME Shape, Fails \/ NoFailure, UNCHANGED load
  PROVE  failures' \in 0..load'.failures
  BY LoadTypes DEF Shape, TypeOK, Fails, NoFailure

(* Reading the head keeps the shape.                                       *)
LEMMA ShapeLoadHead == Shape /\ LoadHead => Shape'
<1> SUFFICES ASSUME Shape, LoadHead PROVE Shape'
  OBVIOUS
<1> USE DEF LoadHead, cursors, memory, ghosts
<1>1. TypeOK'
  BY DEF Shape, TypeOK, Height
<1>2. Events' /\ Phases'
  BY DEF Shape, Events, Phases, Height
<1>3. Cursors'
  BY DEF Shape, Cursors, Height, EventsOf
<1> QED BY <1>1, <1>2, <1>3 DEF Shape

(* A scan for deposits finds deposits of blocks on chain.                  *)
LEMMA ShapePollCommitment == Shape /\ PollCommitment => Shape'
<1> SUFFICES ASSUME Shape, PollCommitment PROVE Shape'
  OBVIOUS
<1> USE DEF memory, ghosts
<1>0. failures' \in 0..load'.failures
  BY FailuresBounded DEF PollCommitment, Throws
<1>1. UNCHANGED <<chain, txs, pchecked, history, fired, known, tried, now, decision, acts,
                  handed, load, crashes>>
  BY DEF PollCommitment
<1>2. /\ checked' \in Nat /\ checked' <= Height /\ fresh' \subseteq 1..Height
      /\ \A b \in fresh' : chain[b].kind = "deposit"
      /\ stage' \in {"record", "idle"} /\ todo' = {}
  BY DEF PollCommitment, ScannedTo, Scanned, Throws, Idle, Shape, TypeOK, Phases, Cursors, Height
<1>3. TypeOK'
  BY <1>0, <1>1, <1>2 DEF Shape, TypeOK, Height
<1>4. Events' /\ Phases'
  BY <1>1, <1>2 DEF Shape, Events, Phases, Height
<1>5. Cursors'
  BY <1>1, <1>2 DEF Shape, Cursors, Height, EventsOf
<1> QED BY <1>3, <1>4, <1>5 DEF Shape

(* What is recorded are deposits.                                          *)
LEMMA ShapeRecordDeposits == Shape /\ RecordDeposits => Shape'
<1> SUFFICES ASSUME Shape, RecordDeposits PROVE Shape'
  OBVIOUS
<1> USE DEF cursors, ghosts
<1>0. failures' \in 0..load'.failures
  BY FailuresBounded DEF RecordDeposits, Throws
<1>1. UNCHANGED <<chain, txs, checked, pchecked, fired, known, tried, now, decision, acts,
                  handed, load, crashes>>
  BY DEF RecordDeposits
<1>2. {chain[b].of : b \in fresh} \subseteq Deposits
  BY DEF RecordDeposits, Shape, TypeOK, Phases, Events
<1>3. /\ history \subseteq history' /\ history' \subseteq Deposits
      /\ stage' \in {"proposals", "idle"} /\ fresh' \in {fresh, {}} /\ todo' = {}
  BY <1>2 DEF RecordDeposits, Throws, Idle, Shape, TypeOK, Phases
<1>4. TypeOK'
  BY <1>0, <1>1, <1>3 DEF Shape, TypeOK, Height
<1>5. Events' /\ Phases'
  BY <1>1, <1>3 DEF Shape, Events, Phases, Height
<1>6. Cursors'
  BY <1>1, <1>3 DEF Shape, Cursors, Height, EventsOf
<1> QED BY <1>4, <1>5, <1>6 DEF Shape

(* The events of a range of blocks, and those before it.                   *)
LEMMA Ranges ==
  ASSUME NEW from \in Nat, NEW upto \in Nat, from <= upto, NEW h
  PROVE  /\ EventsOf(h, from) \subseteq EventsOf(h, upto)
         /\ h \notin {chain[b].of : b \in from + 1..upto} => EventsOf(h, from) = EventsOf(h, upto)
  BY DEF EventsOf

(* What a scan for proposals reads and where it leaves the cursor.         *)
LEMMA ProposalScan ==
  ASSUME Shape, NEW from \in FirstBlock, NEW upto \in 0..Height, upto \in ScannedTo(from),
         pchecked' = IF upto = from /\ Height > from THEN pchecked ELSE upto
  PROVE  /\ from \in Nat /\ from <= upto /\ upto <= Height
         /\ pchecked' \in Nat \cup {None}
         /\ pchecked # None => from = pchecked /\ pchecked' = upto
         /\ pchecked = None => DOMAIN known = {} /\ from \in {0, Height}
         /\ pchecked' = None => pchecked = None /\ upto = from
         /\ pchecked' # None => pchecked' = upto
<1>1. Height \in Nat
  BY DEF Shape, TypeOK, Height
<1>2. pchecked = None => DOMAIN known = {}
  BY DEF Shape, Cursors
<1> QED BY <1>1, <1>2, LoopAssumption DEF FirstBlock, ScannedTo, Shape, TypeOK

(* A scan for proposals knows those with an event up to the cursor.        *)
LEMMA ShapePollProposals == Shape /\ PollProposals => Shape'
<1> SUFFICES ASSUME Shape, PollProposals PROVE Shape'
  OBVIOUS
<1> USE DEF ghosts
<1>0. failures' \in 0..load'.failures
  BY FailuresBounded DEF PollProposals, FailsIf, Throws
<1>1. UNCHANGED <<chain, txs, checked, history, fired, now, decision, acts, handed, load, crashes>>
  BY DEF PollProposals
<1> DEFINE Good ==
      /\ fresh' \subseteq 1..Height /\ pchecked' \in Nat \cup {None}
      /\ stage' \in {"execute", "idle"} /\ todo' = {}
      /\ pchecked' # None => pchecked' <= Height
      /\ DOMAIN known' \subseteq Hashes /\ tried' \subseteq DOMAIN known'
      /\ \A h \in DOMAIN known' :
           known'[h] \in 0..Len(txs) /\ pchecked' # None /\ EventsOf(h, pchecked') # {}
<1>2. Good
  <2>1. CASE Throws /\ UNCHANGED <<known, tried, pchecked>>
    BY <2>1 DEF Throws, Idle, Shape, TypeOK, Cursors
  <2>2. ASSUME NEW from \in FirstBlock, NEW upto \in 0..Height, upto \in ScannedTo(from),
               known' = KnownAfter(from, upto),
               tried' = {h \in tried : h \in DOMAIN known' /\ EventsOf(h, from) = EventsOf(h, upto)},
               fresh' = fresh \cup {b \in Scanned(from, upto, "proposed") :
                                      b = Latest(EventsOf(chain[b].of, upto))},
               pchecked' = IF upto = from /\ Height > from THEN pchecked ELSE upto,
               stage' = "execute", UNCHANGED todo
        PROVE  Good
    <3>1. /\ from \in Nat /\ upto \in Nat /\ from <= upto /\ upto <= Height /\ Height \in Nat
          /\ pchecked' \in Nat \cup {None}
          /\ pchecked # None => from = pchecked /\ pchecked' = upto
          /\ pchecked = None => DOMAIN known = {} /\ from \in {0, Height}
          /\ pchecked' = None => pchecked = None /\ upto = from
          /\ pchecked' # None => pchecked' = upto
      BY <2>2, ProposalScan DEF Shape, TypeOK, Height
    <3>2. fresh' \subseteq 1..Height
      <4>1. Scanned(from, upto, "proposed") \subseteq 1..Height
        BY <3>1 DEF Scanned
      <4>2. fresh \subseteq 1..Height
        BY DEF Shape, TypeOK
      <4>3. fresh' \subseteq fresh \cup Scanned(from, upto, "proposed")
        BY <2>2
      <4> QED BY <4>1, <4>2, <4>3
    <3>3. todo' = {}
      BY <2>2 DEF PollProposals, Shape, Phases
    <3>4. ASSUME NEW h \in DOMAIN known'
          PROVE  /\ h \in Hashes /\ known'[h] \in 0..Len(txs)
                 /\ pchecked' # None /\ EventsOf(h, pchecked') # {}
      <4>1. CASE h \in Hashes /\ LiveAt(h, upto) /\ known'[h] = 0
                   /\ h \in {chain[b].of : b \in from + 1..upto}
        <5>1. from # upto
          BY <3>1, <4>1
        <5>2. pchecked' = upto /\ pchecked' # None
          BY <2>2, <3>1, <5>1, LoopAssumption
        <5>3. 0 \in 0..Len(txs)
          BY DEF Shape, TypeOK
        <5> QED BY <4>1, <5>2, <5>3 DEF LiveAt
      <4>2. CASE /\ h \in DOMAIN known /\ known'[h] = known[h]
                 /\ h \notin {chain[b].of : b \in from + 1..upto}
        <5>1. pchecked # None /\ EventsOf(h, pchecked) # {}
          BY <4>2 DEF Shape, Cursors
        <5>2. EventsOf(h, pchecked') # {} /\ pchecked' # None
          BY <3>1, <4>2, <5>1, Ranges, LoopAssumption
        <5> QED BY <4>2, <5>2 DEF Shape, TypeOK
      <4> QED BY <2>2, <4>1, <4>2 DEF KnownAfter
    <3>5. tried' \subseteq DOMAIN known'
      BY <2>2
    <3> QED BY <2>2, <3>1, <3>2, <3>3, <3>4, <3>5
  <2> QED BY <2>1, <2>2 DEF PollProposals
<1> HIDE DEF Good
<1>3. TypeOK'
  BY <1>0, <1>1, <1>2 DEF Good, Shape, TypeOK, Height
<1>4. Events' /\ Phases'
  BY <1>1, <1>2 DEF Good, Shape, Events, Phases, Height
<1>5. Cursors'
  BY <1>1, <1>2 DEF Good, Shape, Cursors, Height, EventsOf
<1> QED BY <1>3, <1>4, <1>5 DEF Shape

(* The execution phase looks at known proposals.                           *)
LEMMA ShapeStartExecution == Shape /\ StartExecution => Shape'
<1> SUFFICES ASSUME Shape, StartExecution PROVE Shape'
  OBVIOUS
<1> USE DEF cursors, memory, ghosts
<1>0. failures' \in 0..load'.failures
  BY FailuresBounded DEF StartExecution, Throws
<1>1. UNCHANGED <<chain, txs, checked, pchecked, history, fired, known, tried, now, decision,
                  acts, handed, load, crashes>>
  BY DEF StartExecution
<1>2. /\ stage' \in {"executing", "idle"} /\ fresh' \subseteq fresh
      /\ todo' \subseteq DOMAIN known /\ (stage' # "executing" => todo' = {})
  BY DEF StartExecution, Throws, Idle
<1>3. TypeOK'
  BY <1>0, <1>1, <1>2 DEF Shape, TypeOK, Height
<1>4. Events' /\ Phases'
  BY <1>1, <1>2 DEF Shape, Events, Phases, Height
<1>5. Cursors'
  BY <1>1 DEF Shape, Cursors, Height, EventsOf
<1> QED BY <1>3, <1>4, <1>5 DEF Shape

(* A step on one proposal: what is known only shrinks, and its execution   *)
(* is one that was sent.                                                   *)
LEMMA ShapeExecution ==
  ASSUME Shape, UNCHANGED <<chain, cursors, history, fired, stage, now, fresh, decision,
                            ghosts, load, crashes>>,
         Fails \/ NoFailure, stage = "executing",
         DOMAIN known' \subseteq DOMAIN known, tried' \subseteq DOMAIN known',
         todo' \subseteq DOMAIN known', txs' \in Seq(Sent),
         \A h \in DOMAIN known' : known'[h] \in 0..Len(txs')
  PROVE  Shape'
<1> USE DEF cursors, ghosts
<1>0. failures' \in 0..load'.failures
  BY FailuresBounded
<1>1. TypeOK'
  BY <1>0 DEF Shape, TypeOK, Height
<1>2. Events' /\ Phases'
  BY DEF Shape, Events, Phases, Height
<1>3. Cursors'
  BY DEF Shape, Cursors, Height, EventsOf
<1> QED BY <1>1, <1>2, <1>3 DEF Shape

(* Waiting for an execution keeps the shape.                               *)
LEMMA ShapeWait == ASSUME NEW h \in Hashes, Shape, Wait(h) PROVE Shape'
<1>1. /\ UNCHANGED <<chain, txs, cursors, history, fired, tried, stage, now, fresh, decision,
                     ghosts, load, crashes>>
      /\ stage = "executing" /\ todo' \subseteq todo
      /\ Fails \/ NoFailure
      /\ known' \in {known, [known EXCEPT ![h] = 0]}
  BY DEF Wait
<1>2. DOMAIN known' = DOMAIN known
  BY <1>1
<1>3. Len(txs) \in Nat /\ \A g \in DOMAIN known : known[g] \in 0..Len(txs)
  BY DEF Shape, TypeOK
<1>4. \A g \in DOMAIN known' : known'[g] \in 0..Len(txs')
  BY <1>1, <1>3
<1>5. tried' \subseteq DOMAIN known' /\ todo' \subseteq DOMAIN known' /\ txs' \in Seq(Sent)
  BY <1>1, <1>2 DEF Shape, TypeOK
<1> QED BY <1>1, <1>2, <1>4, <1>5, ShapeExecution

(* The execution of a known proposal is well formed.                       *)
LEMMA ExecutionTypes ==
  ASSUME Shape, NEW h \in DOMAIN known
  PROVE  /\ h \in Hashes /\ pchecked \in Nat /\ pchecked <= Height
         /\ Latest(EventsOf(h, pchecked)) \in EventsOf(h, pchecked)
         /\ \A b \in EventsOf(h, pchecked) : b <= Latest(EventsOf(h, pchecked))
         /\ Latest(EventsOf(h, pchecked)) \in 1..pchecked
         /\ Execution(h) \in Sent
         /\ Append(txs, Execution(h)) \in Seq(Sent)
         /\ Len(Append(txs, Execution(h))) = Len(txs) + 1
<1>1. h \in Hashes /\ pchecked \in Nat /\ pchecked <= Height /\ EventsOf(h, pchecked) # {}
  BY DEF Shape, TypeOK, Cursors
<1>2. EventsOf(h, pchecked) \in SUBSET (1..pchecked)
  BY DEF EventsOf
<1>3. /\ Latest(EventsOf(h, pchecked)) \in EventsOf(h, pchecked)
      /\ \A b \in EventsOf(h, pchecked) : b <= Latest(EventsOf(h, pchecked))
  BY <1>1, <1>2, LatestExists
<1>4. Latest(EventsOf(h, pchecked)) \in 1..pchecked
  BY <1>2, <1>3
<1>5. Execution(h) \in Sent
  BY <1>1, <1>4 DEF Execution, Sent
<1>6. txs \in Seq(Sent)
  BY DEF Shape, TypeOK
<1> QED BY <1>1, <1>3, <1>4, <1>5, <1>6

(* An attempt forgets, sends or waits again; the rest stays known.         *)
LEMMA ShapeAttempt == ASSUME NEW h \in Hashes, Shape, Attempt(h) PROVE Shape'
<1>1. /\ UNCHANGED <<chain, cursors, history, fired, stage, now, fresh, decision,
                     ghosts, load, crashes>>
      /\ stage = "executing" /\ h \in todo /\ todo' = todo \ {h}
      /\ tried' \subseteq DOMAIN known'
      /\ Fails \/ NoFailure
      /\ Forget(h) \/ Refused(h) \/ Send(h) \/ SendFails(h)
  BY DEF Attempt
<1>2. /\ h \in DOMAIN known /\ todo \subseteq DOMAIN known /\ txs \in Seq(Sent)
      /\ Len(txs) \in Nat /\ \A g \in DOMAIN known : known[g] \in 0..Len(txs)
  BY <1>1 DEF Shape, TypeOK
<1>3. /\ Append(txs, Execution(h)) \in Seq(Sent)
      /\ Len(Append(txs, Execution(h))) = Len(txs) + 1
  BY <1>2, ExecutionTypes
<1>4. txs' \in {txs, Append(txs, Execution(h))}
  BY <1>1 DEF Forget, Refused, Send, SendFails
<1>5. txs' \in Seq(Sent) /\ Len(txs') \in Nat /\ Len(txs) <= Len(txs')
  BY <1>2, <1>3, <1>4
<1>6. /\ DOMAIN known' \subseteq DOMAIN known /\ DOMAIN known \ {h} \subseteq DOMAIN known'
      /\ \A g \in DOMAIN known' : known'[g] \in 0..Len(txs')
  <2>1. CASE Forget(h)
    BY <1>2, <1>5, <2>1 DEF Forget
  <2>2. CASE Refused(h)
    BY <1>2, <1>5, <2>2 DEF Refused
  <2>3. CASE Send(h)
    BY <1>2, <1>5, <2>3 DEF Send
  <2>4. CASE SendFails(h)
    BY <1>2, <1>5, <2>4 DEF SendFails
  <2> QED BY <1>1, <2>1, <2>2, <2>3, <2>4
<1>7. todo' \subseteq DOMAIN known'
  BY <1>1, <1>2, <1>6
<1> QED BY <1>1, <1>5, <1>6, <1>7, ShapeExecution

(* The outcomes of a decision are well formed; one with side effects is    *)
(* handled, unless the tools threw.                                        *)
Outcomes == Undecided \cup Ran \cup {ThrewAfterEffects}

(* Outcomes with effects are handled, except that of a decision that       *)
(* threw.                                                                  *)
LEMMA OutcomeTypes ==
  ASSUME NEW outcome \in Outcomes
  PROVE  /\ outcome \in [status : Statuses, effects : BOOLEAN]
         /\ outcome.effects /\ outcome # ThrewAfterEffects => outcome.status = "handled"
<1>1. CASE outcome \in Undecided
  <2>1. PICK status \in Statuses : outcome = Outcome(status, FALSE)
    BY <1>1 DEF Undecided, Statuses
  <2>2. outcome = [status |-> status, effects |-> FALSE]
    BY <2>1 DEF Outcome
  <2>3. outcome \in [status : Statuses, effects : BOOLEAN]
    BY <2>2
  <2>4. ~outcome.effects
    BY <2>2
  <2> QED BY <2>3, <2>4
<1>2. CASE outcome \in Ran
  <2>1. PICK outputs \in SUBSET ToolOutputs :
          outcome = Outcome(Evaluate(outputs), Effects(outputs))
    BY <1>2 DEF Ran
  <2>2. Effects(outputs) \in BOOLEAN
    BY DEF Effects
  <2>3. Evaluate(outputs) \in Statuses
    BY DEF Evaluate, Statuses
  <2>4. Effects(outputs) => Evaluate(outputs) = "handled"
    BY DEF Evaluate
  <2>5. outcome.status = Evaluate(outputs) /\ outcome.effects = Effects(outputs)
    BY <2>1 DEF Outcome
  <2>6. outcome \in [status : Statuses, effects : BOOLEAN]
    BY <2>1, <2>2, <2>3 DEF Outcome
  <2> QED BY <2>4, <2>5, <2>6
<1>3. CASE outcome = ThrewAfterEffects
  BY <1>3 DEF ThrewAfterEffects, Outcome, Statuses
<1> QED BY <1>1, <1>2, <1>3 DEF Outcomes

(* A decision marks recorded deposits only.                                *)
LEMMA ShapeDecide == Shape /\ Decide => Shape'
<1> SUFFICES ASSUME Shape, Decide PROVE Shape'
  OBVIOUS
<1> USE DEF cursors
<1>1. /\ UNCHANGED <<chain, txs, checked, pchecked, history, known, tried, now, load, crashes>>
      /\ handed' = handed \cup fresh /\ stage' = "idle" /\ fresh' = {} /\ todo' = {}
  BY DEF Decide, Idle
<1>2. PICK outcome \in Outcomes :
        /\ FailsIf(outcome = ThrewAfterEffects)
        /\ decision' = outcome
        /\ fired' = IF outcome.status = "handled" THEN fired \cup Due ELSE fired
        /\ acts' = [d \in Deposits |-> IF d \in Due /\ outcome.effects THEN acts[d] + 1 ELSE acts[d]]
  BY DEF Decide, Outcomes
<1>3. failures' \in 0..load'.failures
  BY <1>1, <1>2, FailuresBounded DEF FailsIf
<1>4. decision' \in [status : Statuses, effects : BOOLEAN] \cup {None}
  BY <1>2, OutcomeTypes
<1>5. fired' \subseteq history'
  BY <1>1, <1>2 DEF Shape, TypeOK, Due, Scheduled
<1>6. acts' \in [Deposits -> Nat]
  BY <1>2 DEF Shape, TypeOK
<1>7. TypeOK'
  BY <1>1, <1>3, <1>4, <1>5, <1>6 DEF Shape, TypeOK, Height
<1>8. Events' /\ Phases'
  BY <1>1 DEF Shape, Events, Phases, Height
<1>9. Cursors'
  BY <1>1 DEF Shape, Cursors, Height, EventsOf
<1> QED BY <1>7, <1>8, <1>9 DEF Shape

(* An iteration without a decision keeps the shape.                        *)
LEMMA ShapeSkip == Shape /\ Skip => Shape'
<1> SUFFICES ASSUME Shape, Skip PROVE Shape'
  OBVIOUS
<1> USE DEF cursors, memory, ghosts
<1>0. failures' \in 0..load'.failures
  BY FailuresBounded DEF Skip, FailsIf
<1>1. /\ UNCHANGED <<chain, txs, checked, pchecked, history, fired, known, tried, now, decision,
                     acts, handed, load, crashes>>
      /\ stage' = "idle" /\ fresh' = {} /\ todo' = {}
  BY DEF Skip, Idle
<1>2. TypeOK'
  BY <1>0, <1>1 DEF Shape, TypeOK, Height
<1>3. Events' /\ Phases'
  BY <1>1 DEF Shape, Events, Phases, Height
<1>4. Cursors'
  BY <1>1 DEF Shape, Cursors, Height, EventsOf
<1> QED BY <1>2, <1>3, <1>4 DEF Shape

(* A restart begins with nothing known, and no cursor past the head.       *)
LEMMA ShapeCrash == Shape /\ Crash => Shape'
<1> SUFFICES ASSUME Shape, Crash PROVE Shape'
  OBVIOUS
<1> USE DEF ghosts
<1>1. /\ UNCHANGED <<chain, txs, acts, handed, load, failures>>
      /\ history' = {} /\ fired' = {} /\ known' = <<>> /\ tried' = {}
      /\ stage' = "idle" /\ fresh' = {} /\ todo' = {} /\ now' = 0 /\ decision' = None
  BY DEF Crash, Idle
<1>2. DOMAIN known' = {}
  BY <1>1
<1>3. Height \in Nat
  BY DEF Shape, TypeOK, Height
<1>4. /\ checked' \in 0..Height /\ pchecked' \in {0, None}
      /\ crashes' \in 0..load'.crashes
  BY <1>1, <1>3, LoadTypes DEF Crash, StartedAt, Shape, TypeOK
<1>5. TypeOK'
  BY <1>1, <1>2, <1>3, <1>4 DEF Shape, TypeOK, Height
<1>6. Events' /\ Phases'
  BY <1>1 DEF Shape, Events, Phases, Height
<1>7. Cursors'
  BY <1>1, <1>2, <1>3, <1>4 DEF Shape, Cursors, Height
<1> QED BY <1>5, <1>6, <1>7 DEF Shape

(* Every step keeps the shape.                                             *)
LEMMA ShapeNext == Shape /\ [Next]_vars => Shape'
<1> SUFFICES ASSUME Shape, [Next]_vars PROVE Shape'
  OBVIOUS
<1>1. CASE UNCHANGED vars
  BY <1>1, ShapeStutter
<1>2. CASE Loop
  BY <1>2, ShapeLoadHead, ShapePollCommitment, ShapeRecordDeposits, ShapePollProposals,
     ShapeStartExecution, ShapeWait, ShapeAttempt, ShapeDecide, ShapeSkip DEF Loop
<1>3. CASE Others
  BY <1>3, ShapeOthers
<1>4. CASE Crash
  BY <1>4, ShapeCrash
<1> QED BY <1>1, <1>2, <1>3, <1>4 DEF Next

(* The variables of the loop and of the chain keep their types.            *)
THEOREM LoopTypes == Spec => []TypeOK
<1>1. Spec => []Shape
  BY ShapeInit, ShapeNext, PTL DEF Spec
<1>2. Shape => TypeOK
  BY DEF Shape
<1> QED BY <1>1, <1>2, PTL

-----------------------------------------------------------------------------
(* A step after which nothing failed yet follows a state in which nothing  *)
(* had failed, and did not fail itself.                                    *)
LEMMA CalmBefore ==
  ASSUME Shape, [Next]_vars, Calm'
  PROVE  Calm /\ ~Crash /\ ~Fails /\ UNCHANGED <<failures, crashes>>
<1>1. failures \in Nat /\ crashes \in Nat
  BY LoadTypes DEF Shape, TypeOK
<1>2. ~Crash /\ ~Fails
  BY <1>1 DEF Calm, Crash, Fails
<1>3. UNCHANGED <<failures, crashes>>
  <2>1. CASE UNCHANGED vars
    BY <2>1 DEF vars
  <2>2. CASE Others
    BY <2>2 DEF Others, Tick, Deposit, Propose, Delete, Mine, ByOthers
  <2>3. CASE LoadHead \/ PollCommitment \/ RecordDeposits \/ PollProposals
    BY <1>2, <2>3 DEF LoadHead, PollCommitment, RecordDeposits, PollProposals, Throws, FailsIf,
       NoFailure
  <2>4. CASE StartExecution \/ Decide \/ Skip
    BY <1>2, <2>4 DEF StartExecution, Decide, Skip, Throws, FailsIf, NoFailure
  <2>5. ASSUME NEW h \in Hashes, Wait(h) \/ Attempt(h) PROVE UNCHANGED <<failures, crashes>>
    BY <1>2, <2>5 DEF Wait, Attempt, NoFailure
  <2> QED BY <1>2, <2>1, <2>2, <2>3, <2>4, <2>5 DEF Next, Loop
<1> QED BY <1>2, <1>3 DEF Calm

(* No step takes a block back.                                             *)
LEMMA ChainExtended ==
  ASSUME Shape, [Next]_vars
  PROVE  Height' \in Nat /\ Height <= Height' /\ \A b \in 1..Height : chain'[b] = chain[b]
<1>1. Height \in Nat /\ chain \in Seq(Block) /\ chain' \in Seq(Block)
  BY ShapeNext DEF Shape, TypeOK, Height
<1>2. CASE UNCHANGED chain
  BY <1>1, <1>2 DEF Height
<1>3. ASSUME NEW kind, NEW x, Made(kind, x)
      PROVE  Height' \in Nat /\ Height <= Height' /\ \A b \in 1..Height : chain'[b] = chain[b]
  BY <1>1, <1>3 DEF Made, Height
<1>4. CASE UNCHANGED vars
  BY <1>2, <1>4 DEF vars
<1>5. CASE Others
  BY <1>2, <1>3, <1>5 DEF Others, Tick, Deposit, Propose, Delete, Mine
<1>6. CASE Loop
  <2>1. CASE LoadHead \/ PollCommitment \/ RecordDeposits \/ PollProposals
    BY <1>2, <2>1 DEF LoadHead, PollCommitment, RecordDeposits, PollProposals
  <2>2. CASE StartExecution \/ Decide \/ Skip
    BY <1>2, <2>2 DEF StartExecution, Decide, Skip
  <2>3. ASSUME NEW h \in Hashes, Wait(h) \/ Attempt(h) PROVE UNCHANGED chain
    BY <2>3 DEF Wait, Attempt
  <2> QED BY <1>2, <1>6, <2>1, <2>2, <2>3 DEF Loop
<1>7. CASE Crash
  BY <1>2, <1>7 DEF Crash
<1> QED BY <1>4, <1>5, <1>6, <1>7 DEF Next

(* No timelock acted before the first decision.                            *)
LEMMA FiredInit == Init => FiredWhenActed
  BY DEF Init, FiredWhenActed

(* Only a decision acts on a timelock, and one that does marks it.         *)
LEMMA FiredNext == Shape /\ FiredWhenActed /\ [Next]_vars => FiredWhenActed'
<1> SUFFICES ASSUME Shape, FiredWhenActed, [Next]_vars, Calm',
                    NEW d \in Deposits
             PROVE  acts'[d] <= 1 /\ (d \notin fired' => acts'[d] = 0)
  BY DEF FiredWhenActed
<1>1. Calm /\ ~Crash /\ ~Fails
  BY CalmBefore
<1>2. acts \in [Deposits -> Nat] /\ acts[d] <= 1 /\ (d \notin fired => acts[d] = 0)
  BY <1>1 DEF Shape, TypeOK, FiredWhenActed
<1>3. CASE UNCHANGED <<acts, fired>>
  BY <1>2, <1>3
<1>4. CASE Decide
  <2>1. PICK outcome \in Outcomes :
          /\ FailsIf(outcome = ThrewAfterEffects)
          /\ fired' = IF outcome.status = "handled" THEN fired \cup Due ELSE fired
          /\ acts' = [e \in Deposits |-> IF e \in Due /\ outcome.effects THEN acts[e] + 1 ELSE acts[e]]
    BY <1>4 DEF Decide, Outcomes
  <2>2. outcome.effects => outcome.status = "handled"
    BY <1>1, <2>1, OutcomeTypes DEF FailsIf
  <2>3. CASE d \in Due /\ outcome.effects
    <3>1. d \notin fired
      BY <2>3 DEF Due, Scheduled
    <3>2. d \in fired'
      BY <2>1, <2>2, <2>3
    <3> QED BY <1>2, <2>1, <2>3, <3>1, <3>2
  <2>4. CASE ~(d \in Due /\ outcome.effects)
    <3>1. acts'[d] = acts[d] /\ fired \subseteq fired'
      BY <2>1, <2>4
    <3> QED BY <1>2, <3>1
  <2> QED BY <2>3, <2>4
<1>5. CASE UNCHANGED vars
  BY <1>3, <1>5 DEF vars, memory, ghosts
<1>6. CASE Others
  BY <1>3, <1>6 DEF Others, Tick, Deposit, Propose, Delete, Mine, ByOthers, memory, ghosts
<1>7. CASE Loop
  <2>1. CASE LoadHead \/ PollCommitment \/ RecordDeposits \/ PollProposals
    BY <1>3, <2>1 DEF LoadHead, PollCommitment, RecordDeposits, PollProposals, memory, ghosts
  <2>2. CASE StartExecution \/ Skip
    BY <1>3, <2>2 DEF StartExecution, Skip, memory, ghosts
  <2>3. ASSUME NEW h \in Hashes, Wait(h) \/ Attempt(h) PROVE UNCHANGED <<acts, fired>>
    BY <2>3 DEF Wait, Attempt, ghosts
  <2> QED BY <1>3, <1>4, <1>7, <2>1, <2>2, <2>3 DEF Loop
<1> QED BY <1>1, <1>5, <1>6, <1>7 DEF Next

(* However often a decision is repeated, the timelock of a deposit leads   *)
(* to side effects once, as long as no phase failed and the agent was not  *)
(* restarted: a timelock whose decision had side effects is marked as      *)
(* fired, and what is marked is not due any more.                          *)
THEOREM LoopTimelockActsOnce == Spec => []TimelockActsOnce
<1>1. Init => Shape /\ FiredWhenActed
  BY ShapeInit, FiredInit
<1>2. Shape /\ FiredWhenActed /\ [Next]_vars => (Shape /\ FiredWhenActed)'
  BY ShapeNext, FiredNext
<1>3. FiredWhenActed => TimelockActsOnce
  BY DEF FiredWhenActed, TimelockActsOnce, Calm
<1> QED BY <1>1, <1>2, <1>3, PTL DEF Spec

-----------------------------------------------------------------------------
(* Whenever an attempt is allowed, every execution of the latest proposal  *)
(* of the hash has reverted.                                               *)
LEMMA Freed ==
  ASSUME Shape, Tracking, Calm, NEW h \in DOMAIN known, MayRetry(h),
         NEW i \in DOMAIN txs, txs[i].hash = h, txs[i].at = Latest(EventsOf(h, pchecked))
  PROVE  txs[i].state = "reverted"
<1>1. SUFFICES ASSUME txs[i].state # "reverted" PROVE FALSE
  OBVIOUS
<1>2. known[h] = i
  BY <1>1 DEF Tracking
<1>3. i # 0
  <2>1. txs \in Seq(Sent)
    BY DEF Shape, TypeOK
  <2> QED BY <2>1
<1> QED BY <1>1, <1>2, <1>3 DEF MayRetry, Tracked

(* Steps that leave the cursor and what is known alone, and at most mine   *)
(* or revert executions.                                                   *)
LEMMA TrackingKept ==
  ASSUME Shape, Tracking, OneExecutionInFlight, Calm, UNCHANGED <<pchecked, known>>,
         Height' \in Nat, Height <= Height', \A b \in 1..Height : chain'[b] = chain[b],
         DOMAIN txs' = DOMAIN txs,
         \A i \in DOMAIN txs :
           /\ txs'[i].hash = txs[i].hash /\ txs'[i].at = txs[i].at
           /\ txs[i].state = "reverted" => txs'[i].state = "reverted"
  PROVE  Tracking' /\ OneExecutionInFlight'
<1>1. Tracking'
  <2> SUFFICES ASSUME NEW i \in DOMAIN txs
               PROVE  /\ pchecked' # None /\ txs'[i].at <= pchecked'
                      /\ txs'[i].state # "reverted"
                         /\ txs'[i].at = Latest(EventsOf(txs[i].hash, pchecked))'
                         => txs'[i].hash \in DOMAIN known' /\ known'[txs'[i].hash] = i
    BY DEF Tracking
  <2>1. pchecked # None /\ txs[i].at <= pchecked
    BY DEF Tracking
  <2>2. pchecked \in Nat /\ pchecked <= Height /\ Height \in Nat
    BY <2>1 DEF Shape, TypeOK, Cursors, Height
  <2>3. {b \in 1..pchecked : chain'[b].of = txs[i].hash} = EventsOf(txs[i].hash, pchecked)
    BY <2>2, EventsKept
  <2>4. Latest(EventsOf(txs[i].hash, pchecked))' = Latest(EventsOf(txs[i].hash, pchecked))
    BY <2>3 DEF EventsOf, Latest
  <2>5. /\ txs[i].state # "reverted" /\ txs[i].at = Latest(EventsOf(txs[i].hash, pchecked))
           => txs[i].hash \in DOMAIN known /\ known[txs[i].hash] = i
    BY DEF Tracking
  <2> QED BY <2>1, <2>4, <2>5
<1>2. OneExecutionInFlight'
  BY DEF OneExecutionInFlight, Calm
<1> QED BY <1>1, <1>2

(* An appended sequence has the new element last.                          *)
LEMMA Appended ==
  ASSUME NEW S, NEW s \in Seq(S), NEW e \in S
  PROVE  /\ Len(Append(s, e)) = Len(s) + 1 /\ DOMAIN Append(s, e) = 1..Len(s) + 1
         /\ Append(s, e)[Len(s) + 1] = e
         /\ \A i \in DOMAIN s : Append(s, e)[i] = s[i]
  OBVIOUS

(* An iteration stops tracking the execution of one proposal, or sends     *)
(* another and tracks that.                                                *)
LEMMA TrackingAttempt ==
  ASSUME NEW h \in DOMAIN known, Shape, Tracking, OneExecutionInFlight, Calm, MayRetry(h),
         UNCHANGED <<chain, pchecked>>,
         \A g \in DOMAIN known \ {h} : g \in DOMAIN known' /\ known'[g] = known[g],
         \/ UNCHANGED txs
         \/ /\ txs' = Append(txs, Execution(h))
            /\ h \in DOMAIN known' /\ known'[h] = Len(txs')
  PROVE  Tracking' /\ OneExecutionInFlight'
<1>1. /\ txs \in Seq(Sent) /\ DOMAIN txs = 1..Len(txs) /\ Len(txs) \in Nat
  BY DEF Shape, TypeOK
<1>2. \A g : EventsOf(g, pchecked)' = EventsOf(g, pchecked)
  BY DEF EventsOf
<1>3. pchecked # None
  BY DEF Shape, Cursors
<1>4. \A i \in DOMAIN txs :
        txs[i].hash = h /\ txs[i].at = Latest(EventsOf(h, pchecked)) => txs[i].state = "reverted"
  BY Freed
<1>5. ASSUME NEW i \in DOMAIN txs, txs'[i] = txs[i]
      PROVE  /\ pchecked' # None /\ txs'[i].at <= pchecked'
             /\ txs'[i].state # "reverted"
                /\ txs'[i].at = Latest(EventsOf(txs'[i].hash, pchecked'))
                => txs'[i].hash \in DOMAIN known' /\ known'[txs'[i].hash] = i
  <2>1. txs[i].at <= pchecked
    BY DEF Tracking
  <2>2. SUFFICES ASSUME txs[i].state # "reverted",
                        txs[i].at = Latest(EventsOf(txs[i].hash, pchecked))
                 PROVE  txs[i].hash \in DOMAIN known' /\ known'[txs[i].hash] = i
    BY <1>3, <1>5, <2>1
  <2>3. txs[i].hash \in DOMAIN known /\ known[txs[i].hash] = i
    BY <2>2 DEF Tracking
  <2>4. txs[i].hash # h
    BY <1>4, <2>2
  <2> QED BY <2>3, <2>4
<1>6. CASE UNCHANGED txs
  <2>1. Tracking'
    BY <1>2, <1>5, <1>6 DEF Tracking
  <2>2. OneExecutionInFlight'
    BY <1>6 DEF OneExecutionInFlight, Calm
  <2> QED BY <2>1, <2>2
<1>7. CASE txs' = Append(txs, Execution(h)) /\ h \in DOMAIN known' /\ known'[h] = Len(txs')
  <2> DEFINE n == Len(txs) + 1
  <2>1. /\ Len(txs') = n /\ DOMAIN txs' = 1..n /\ txs'[n] = Execution(h)
        /\ \A i \in DOMAIN txs : txs'[i] = txs[i]
    <3>1. Execution(h) \in Sent
      BY ExecutionTypes
    <3>2. /\ Len(Append(txs, Execution(h))) = n /\ DOMAIN Append(txs, Execution(h)) = 1..n
          /\ Append(txs, Execution(h))[n] = Execution(h)
          /\ \A i \in DOMAIN txs : Append(txs, Execution(h))[i] = txs[i]
      BY <1>1, <3>1, Appended
    <3> HIDE DEF n
    <3> QED BY ONLY <1>7, <3>2, Zenon
  <2>2. txs'[n].hash = h /\ txs'[n].at = Latest(EventsOf(h, pchecked)) /\ txs'[n].at <= pchecked
    BY <2>1, ExecutionTypes DEF Execution
  <2>3. \A i \in DOMAIN txs' : i \in DOMAIN txs \/ i = n
    BY <1>1, <2>1
  <2> HIDE DEF n
  <2>4. Tracking'
    <3> SUFFICES ASSUME NEW i \in DOMAIN txs'
                 PROVE  /\ pchecked' # None /\ txs'[i].at <= pchecked'
                        /\ txs'[i].state # "reverted"
                           /\ txs'[i].at = Latest(EventsOf(txs'[i].hash, pchecked'))
                           => txs'[i].hash \in DOMAIN known' /\ known'[txs'[i].hash] = i
      BY <1>2 DEF Tracking
    <3>1. CASE i \in DOMAIN txs
      BY <1>5, <2>1, <3>1
    <3>2. CASE i = n
      BY <1>3, <1>7, <2>1, <2>2, <3>2
    <3> QED BY <2>3, <3>1, <3>2
  <2>5. OneExecutionInFlight'
    <3> SUFFICES ASSUME NEW i \in DOMAIN txs', NEW j \in DOMAIN txs', i # j,
                        txs'[i].hash = txs'[j].hash, txs'[i].at = txs'[j].at
                 PROVE  "reverted" \in {txs'[i].state, txs'[j].state}
      BY DEF OneExecutionInFlight
    <3>1. CASE i \in DOMAIN txs /\ j \in DOMAIN txs
      BY <2>1, <3>1 DEF OneExecutionInFlight, Calm
    <3>2. CASE i \in DOMAIN txs /\ j = n
      BY <1>4, <2>1, <2>2, <3>2
    <3>3. CASE i = n /\ j \in DOMAIN txs
      BY <1>4, <2>1, <2>2, <3>3
    <3> QED BY <2>3, <3>1, <3>2, <3>3
  <2> QED BY <2>4, <2>5
<1> QED BY <1>6, <1>7

(* A scan: an execution of a proposal the scan leaves alone stays tracked, *)
(* any other is not of the latest proposal of its hash any more.           *)
LEMMA TrackingPollProposals ==
  Shape /\ Tracking /\ OneExecutionInFlight /\ Calm /\ ~Fails /\ PollProposals
    => Tracking' /\ OneExecutionInFlight'
<1> SUFFICES ASSUME Shape, Tracking, OneExecutionInFlight, Calm, ~Fails, PollProposals
             PROVE  Tracking' /\ OneExecutionInFlight'
  OBVIOUS
<1>1. UNCHANGED <<chain, txs>>
  BY DEF PollProposals
<1>2. OneExecutionInFlight'
  BY <1>1 DEF OneExecutionInFlight, Calm
<1>3. ASSUME NEW i \in DOMAIN txs
      PROVE  /\ pchecked' # None /\ txs[i].at <= pchecked'
             /\ txs[i].state # "reverted" /\ txs[i].at = Latest(EventsOf(txs[i].hash, pchecked'))
                => txs[i].hash \in DOMAIN known' /\ known'[txs[i].hash] = i
  <2> DEFINE h == txs[i].hash
  <2>1. pchecked # None /\ txs[i].at <= pchecked
    BY DEF Tracking
  <2>2. txs[i].at \in Nat
    <3>1. txs[i] \in Sent
      BY DEF Shape, TypeOK
    <3> QED BY <3>1 DEF Sent
  <2>3. PICK from \in FirstBlock, upto \in 0..Height :
          /\ upto \in ScannedTo(from) /\ known' = KnownAfter(from, upto)
          /\ pchecked' = IF upto = from /\ Height > from THEN pchecked ELSE upto
    BY DEF PollProposals, Throws
  <2>4. /\ from \in Nat /\ upto \in Nat /\ from <= upto /\ upto <= Height
        /\ from = pchecked /\ pchecked' = upto
    BY <2>1, <2>3, ProposalScan DEF Shape, TypeOK, Height
  <2>5. pchecked' # None /\ txs[i].at <= pchecked'
    BY <2>1, <2>2, <2>4, LoopAssumption
  <2>6. CASE h \in {chain[b].of : b \in from + 1..upto}
    <3>1. PICK b \in from + 1..upto : chain[b].of = h
      BY <2>6
    <3>2. b \in EventsOf(h, upto) /\ EventsOf(h, upto) \in SUBSET (1..upto)
      BY <2>4, <3>1 DEF EventsOf
    <3>3. b <= Latest(EventsOf(h, upto)) /\ Latest(EventsOf(h, upto)) \in 1..upto
      BY <2>4, <3>2, LatestExists
    <3>4. txs[i].at # Latest(EventsOf(h, upto))
      BY <2>1, <2>2, <2>4, <3>1, <3>3
    <3> QED BY <2>4, <2>5, <3>4
  <2>7. CASE h \notin {chain[b].of : b \in from + 1..upto}
    <3>1. EventsOf(h, pchecked') = EventsOf(h, pchecked)
      BY <2>4, <2>7, Ranges
    <3>2. SUFFICES ASSUME txs[i].state # "reverted", txs[i].at = Latest(EventsOf(h, pchecked))
                   PROVE  h \in DOMAIN known' /\ known'[h] = i
      BY <2>5, <3>1
    <3>3. h \in DOMAIN known /\ known[h] = i
      BY <3>2 DEF Tracking
    <3> HIDE DEF h
    <3> QED BY <2>3, <2>7, <3>3 DEF KnownAfter
  <2> QED BY <2>6, <2>7
<1>4. Tracking'
  <2>1. \A g : EventsOf(g, pchecked)' = EventsOf(g, pchecked')
    BY <1>1 DEF EventsOf
  <2> QED BY <1>1, <1>3, <2>1 DEF Tracking
<1> QED BY <1>2, <1>4

(* Nothing is sent at the start.                                           *)
LEMMA TrackingInit == Init => Tracking /\ OneExecutionInFlight
  BY DEF Init, Tracking, OneExecutionInFlight

(* Every step keeps track of the executions sent.                          *)
LEMMA TrackingNext ==
  Shape /\ Tracking /\ OneExecutionInFlight /\ [Next]_vars => Tracking' /\ OneExecutionInFlight'
<1>1. SUFFICES ASSUME Shape, Tracking, OneExecutionInFlight, [Next]_vars, Calm'
               PROVE  Tracking' /\ OneExecutionInFlight'
  BY DEF Tracking, OneExecutionInFlight, Calm
<1>2. Calm /\ ~Crash /\ ~Fails
  BY <1>1, CalmBefore
<1>3. Height \in Nat /\ txs \in Seq(Sent)
  BY <1>1 DEF Shape, TypeOK, Height
<1>4. CASE UNCHANGED <<chain, txs, pchecked, known>>
  BY <1>1, <1>2, <1>3, <1>4, TrackingKept DEF Height
<1>5. CASE UNCHANGED vars
  BY <1>4, <1>5 DEF vars, cursors, memory
<1>6. CASE Others
  <2>1. UNCHANGED <<pchecked, known>>
    BY <1>6 DEF Others, Tick, Deposit, Propose, Delete, Mine, ByOthers, cursors, memory
  <2>2. /\ Height' \in Nat /\ Height <= Height'
        /\ \A b \in 1..Height : chain'[b] = chain[b]
    BY <1>1, ChainExtended
  <2>3. /\ DOMAIN txs' = DOMAIN txs
        /\ \A i \in DOMAIN txs :
             /\ txs'[i].hash = txs[i].hash /\ txs'[i].at = txs[i].at
             /\ txs[i].state = "reverted" => txs'[i].state = "reverted"
    <3>1. CASE UNCHANGED txs
      BY <3>1
    <3>2. ASSUME NEW j \in DOMAIN txs, Mine(j)
          PROVE  /\ DOMAIN txs' = DOMAIN txs
                 /\ \A i \in DOMAIN txs :
                      /\ txs'[i].hash = txs[i].hash /\ txs'[i].at = txs[i].at
                      /\ txs[i].state = "reverted" => txs'[i].state = "reverted"
      <4>1. PICK state \in {"mined", "reverted"} : txs' = [txs EXCEPT ![j].state = state]
        BY <3>2 DEF Mine
      <4>2. txs[j].state # "reverted"
        BY <3>2 DEF Mine
      <4>3. DOMAIN txs' = DOMAIN txs
        BY <4>1
      <4>4. ASSUME NEW i \in DOMAIN txs
            PROVE  /\ txs'[i].hash = txs[i].hash /\ txs'[i].at = txs[i].at
                   /\ txs[i].state = "reverted" => txs'[i].state = "reverted"
        <5>1. txs[i] \in Sent
          BY <1>3
        <5>2. CASE i = j
          <6>1. txs'[i] = [txs[i] EXCEPT !.state = state]
            BY <4>1, <5>2
          <6> QED BY <4>2, <5>1, <5>2, <6>1 DEF Sent
        <5>3. CASE i # j
          <6>1. txs'[i] = txs[i]
            BY <4>1, <5>3
          <6> QED BY <6>1
        <5> QED BY <5>2, <5>3
      <4> QED BY <4>3, <4>4
    <3> QED BY <1>6, <3>1, <3>2 DEF Others, Tick, Deposit, Propose, Delete, ByOthers
  <2> QED BY <1>1, <1>2, <2>1, <2>2, <2>3, TrackingKept
<1>7. CASE Loop
  <2>1. CASE LoadHead \/ PollCommitment \/ RecordDeposits
    BY <1>4, <2>1 DEF LoadHead, PollCommitment, RecordDeposits, cursors, memory
  <2>2. CASE StartExecution \/ Decide \/ Skip
    BY <1>4, <2>2 DEF StartExecution, Decide, Skip, cursors, memory
  <2>3. CASE PollProposals
    BY <1>1, <1>2, <2>3, TrackingPollProposals
  <2>4. ASSUME NEW h \in Hashes, Wait(h) PROVE Tracking' /\ OneExecutionInFlight'
    <3>1. h \in DOMAIN known /\ UNCHANGED <<chain, txs, pchecked>>
      BY <1>1, <2>4 DEF Wait, Shape, TypeOK, cursors
    <3>2. CASE UNCHANGED known
      BY <1>4, <3>1, <3>2
    <3>3. CASE MayRetry(h) /\ known' = [known EXCEPT ![h] = 0]
      <4>1. \A g \in DOMAIN known \ {h} : g \in DOMAIN known' /\ known'[g] = known[g]
        BY <3>3
      <4> QED BY <1>1, <1>2, <3>1, <3>3, <4>1, TrackingAttempt
    <3> QED BY <2>4, <3>2, <3>3 DEF Wait
  <2>5. ASSUME NEW h \in Hashes, Attempt(h) PROVE Tracking' /\ OneExecutionInFlight'
    <3>1. h \in DOMAIN known /\ UNCHANGED <<chain, pchecked>>
      BY <1>1, <2>5 DEF Attempt, Shape, TypeOK, cursors
    <3>2. MayRetry(h) /\ (Forget(h) \/ Refused(h) \/ Send(h))
      BY <1>2, <2>5 DEF Attempt
    <3>3. \A g \in DOMAIN known \ {h} : g \in DOMAIN known' /\ known'[g] = known[g]
      BY <3>2 DEF Forget, Refused, Send
    <3>4. \/ UNCHANGED txs
          \/ /\ txs' = Append(txs, Execution(h))
             /\ h \in DOMAIN known' /\ known'[h] = Len(txs')
      BY <3>1, <3>2 DEF Forget, Refused, Send
    <3> QED BY <1>1, <1>2, <3>1, <3>2, <3>3, <3>4, TrackingAttempt
  <2> QED BY <1>7, <2>1, <2>2, <2>3, <2>4, <2>5 DEF Loop
<1> QED BY <1>1, <1>2, <1>5, <1>6, <1>7 DEF Next

(* The execution of a proposal is sent again only when the one before      *)
(* reverted, as long as no call failed and the agent was not restarted:    *)
(* what the loop knows of a proposal names its execution until then.       *)
THEOREM LoopOneExecutionInFlight == Spec => []OneExecutionInFlight
<1>1. Init => Shape /\ Tracking /\ OneExecutionInFlight
  BY ShapeInit, TrackingInit
<1>2. Shape /\ Tracking /\ OneExecutionInFlight /\ [Next]_vars
        => (Shape /\ Tracking /\ OneExecutionInFlight)'
  BY ShapeNext, TrackingNext
<1> QED BY <1>1, <1>2, PTL DEF Spec

-----------------------------------------------------------------------------
(* While the cursors stay, nothing more is owed.                           *)
LEMMA OwedKept ==
  ASSUME Shape, UNCHANGED <<checked, pchecked>>, Height' \in Nat, Height <= Height',
         \A b \in 1..Height : chain'[b] = chain[b], NEW b \in 1..Height', Owed(b)'
  PROVE  b \in 1..Height /\ Owed(b)
<1>1. Height \in Nat /\ checked \in Nat /\ checked <= Height
  BY DEF Shape, TypeOK, Cursors, Height
<1>2. CASE chain'[b].kind = "deposit" /\ b <= checked'
  BY <1>1, <1>2 DEF Owed
<1>3. CASE /\ chain'[b].kind = "proposed" /\ pchecked' # None /\ b <= pchecked'
           /\ b = Latest(EventsOf(chain[b].of, pchecked))'
  <2>1. pchecked \in Nat /\ pchecked <= Height
    BY <1>3 DEF Shape, TypeOK, Cursors
  <2>2. b \in 1..Height /\ chain'[b] = chain[b]
    BY <1>1, <1>3, <2>1
  <2>3. {c \in 1..pchecked : chain'[c].of = chain[b].of} = EventsOf(chain[b].of, pchecked)
    BY <1>1, <2>1, EventsKept
  <2>4. Latest(EventsOf(chain[b].of, pchecked))' = Latest(EventsOf(chain[b].of, pchecked))
    BY <2>2, <2>3 DEF EventsOf, Latest
  <2> QED BY <1>3, <2>2, <2>4 DEF Owed
<1> QED BY <1>2, <1>3 DEF Owed

(* Steps that leave the cursors alone and drop nothing not handed.         *)
LEMMA HandedKept ==
  ASSUME Shape, Handed, Calm, UNCHANGED <<checked, pchecked>>,
         Height' \in Nat, Height <= Height', \A b \in 1..Height : chain'[b] = chain[b],
         history \subseteq history', handed \cup fresh \subseteq handed' \cup fresh',
         stage' \in {"idle", "deposits"} => fresh' = {},
         stage = "record" => \/ stage' = "record" /\ fresh' = fresh
                             \/ {chain[b].of : b \in fresh} \subseteq history'
  PROVE  Handed'
<1>1. ASSUME NEW b \in 1..Height', Owed(b)' PROVE b \in handed' \cup fresh'
  BY <1>1, OwedKept DEF Handed
<1>2. ASSUME NEW b \in 1..checked', chain'[b].kind = "deposit"
      PROVE  chain'[b].of \in history' \/ (stage' = "record" /\ b \in fresh')
  <2>1. b \in 1..checked /\ chain'[b] = chain[b]
    BY <1>2 DEF Shape, TypeOK, Cursors, Height
  <2>2. chain[b].of \in history \/ (stage = "record" /\ b \in fresh)
    BY <1>2, <2>1 DEF Handed
  <2> QED BY <2>1, <2>2
<1> QED BY <1>1, <1>2 DEF Handed

(* The scan for deposits: the iteration holds the deposits of the range.   *)
LEMMA HandedPollCommitment ==
  ASSUME Shape, Handed, Calm, ~Fails, PollCommitment
  PROVE  Handed'
<1>1. PICK upto \in ScannedTo(checked) :
        checked' = upto /\ fresh' = Scanned(checked, upto, "deposit") /\ stage' = "record"
  BY DEF PollCommitment, Throws
<1>2. UNCHANGED <<chain, pchecked, history, handed>> /\ stage = "deposits" /\ fresh = {}
  BY DEF PollCommitment, memory, ghosts, Handed
<1>3. checked \in Nat /\ upto \in Nat /\ checked <= upto /\ upto <= Height /\ Height \in Nat
  BY DEF ScannedTo, Shape, TypeOK, Cursors, Height
<1>4. ASSUME NEW b \in 1..Height', Owed(b)' PROVE b \in handed' \cup fresh'
  <2>1. b \in 1..Height
    BY <1>2, <1>4 DEF Height
  <2>2. CASE chain[b].kind = "deposit" /\ b \in checked + 1..upto
    BY <1>1, <2>2 DEF Scanned
  <2>3. CASE Owed(b)
    BY <1>2, <2>1, <2>3 DEF Handed
  <2> QED BY <1>1, <1>2, <1>3, <1>4, <2>1, <2>2, <2>3 DEF Owed, EventsOf
<1>5. ASSUME NEW b \in 1..checked', chain'[b].kind = "deposit"
      PROVE  chain'[b].of \in history' \/ (stage' = "record" /\ b \in fresh')
  <2>1. CASE b \in checked + 1..upto
    BY <1>1, <1>2, <1>5, <2>1 DEF Scanned
  <2>2. CASE b \in 1..checked
    BY <1>2, <1>5, <2>2 DEF Handed
  <2> QED BY <1>1, <1>3, <2>1, <2>2
<1> QED BY <1>1, <1>4, <1>5 DEF Handed

(* The scan for proposals: the iteration holds the proposals of the range  *)
(* that are the latest of their hash; one before it that is the latest     *)
(* still was the latest before.                                            *)
LEMMA HandedPollProposals ==
  ASSUME Shape, Handed, Calm, ~Fails, PollProposals
  PROVE  Handed'
<1>1. PICK from \in FirstBlock, upto \in 0..Height :
        /\ upto \in ScannedTo(from) /\ FailsIf(pchecked = None /\ from # 0)
        /\ fresh' = fresh \cup {b \in Scanned(from, upto, "proposed") :
                                  b = Latest(EventsOf(chain[b].of, upto))}
        /\ pchecked' = IF upto = from /\ Height > from THEN pchecked ELSE upto
        /\ stage' = "execute"
  BY DEF PollProposals, Throws
<1>2. UNCHANGED <<chain, checked, history, handed>> /\ stage = "proposals"
  BY DEF PollProposals, ghosts
<1>3. /\ from \in Nat /\ upto \in Nat /\ from <= upto /\ upto <= Height /\ Height \in Nat
      /\ pchecked # None => from = pchecked /\ pchecked' = upto
      /\ pchecked' # None => pchecked' = upto
  BY <1>1, ProposalScan DEF Shape, TypeOK, Height
<1>4. pchecked = None => from = 0
  BY <1>1 DEF FailsIf
<1>5. ASSUME NEW b \in 1..Height', Owed(b)' PROVE b \in handed' \cup fresh'
  <2>1. b \in 1..Height
    BY <1>2, <1>5 DEF Height
  <2>2. CASE chain[b].kind = "deposit" /\ b <= checked
    <3>1. b \in handed \cup fresh
      BY <2>1, <2>2 DEF Handed, Owed
    <3> QED BY <1>1, <1>2, <3>1
  <2>3. CASE /\ chain[b].kind = "proposed" /\ pchecked' # None /\ b <= upto
             /\ b = Latest(EventsOf(chain[b].of, upto))
    <3>1. CASE b > from
      BY <1>1, <1>3, <2>1, <2>3, <3>1 DEF Scanned
    <3>2. CASE b <= from
      <4>1. pchecked # None /\ pchecked = from
        BY <1>3, <1>4, <2>1, <3>2
      <4> DEFINE S == EventsOf(chain[b].of, pchecked)
      <4>2. S \in SUBSET (1..pchecked) /\ b \in S
        BY <2>1, <3>2, <4>1 DEF EventsOf
      <4>3. Latest(S) \in S /\ \A c \in S : c <= Latest(S)
        BY <1>3, <4>1, <4>2, LatestExists
      <4>4. /\ EventsOf(chain[b].of, upto) \in SUBSET (1..upto)
            /\ S \subseteq EventsOf(chain[b].of, upto) /\ b \in EventsOf(chain[b].of, upto)
        BY <1>3, <4>1, <4>2, Ranges DEF EventsOf
      <4>5. \A c \in EventsOf(chain[b].of, upto) : c <= b
        BY <1>3, <2>3, <4>4, LatestExists
      <4>6. b = Latest(S)
        <5>1. Latest(S) <= b /\ b <= Latest(S)
          BY <4>2, <4>3, <4>4, <4>5
        <5>2. Latest(S) \in 1..pchecked /\ b \in 1..pchecked
          BY <4>2, <4>3
        <5> HIDE DEF S
        <5> QED BY <1>3, <4>1, <5>1, <5>2
      <4>7. Owed(b)
        BY <2>3, <3>2, <4>1, <4>6 DEF Owed
      <4>8. b \in handed \cup fresh
        BY <2>1, <4>7 DEF Handed
      <4> QED BY <1>1, <1>2, <4>8
    <3> QED BY <1>3, <2>1, <3>1, <3>2
  <2>4. Owed(b)' => \/ chain[b].kind = "deposit" /\ b <= checked
                    \/ /\ chain[b].kind = "proposed" /\ pchecked' # None /\ b <= upto
                       /\ b = Latest(EventsOf(chain[b].of, upto))
    BY <1>2, <1>3 DEF Owed, EventsOf
  <2> QED BY <1>5, <2>2, <2>3, <2>4
<1>6. ASSUME NEW b \in 1..checked', chain'[b].kind = "deposit" PROVE chain'[b].of \in history'
  BY <1>2, <1>6 DEF Handed
<1> QED BY <1>1, <1>5, <1>6 DEF Handed

(* Nothing is owed at the start.                                           *)
LEMMA HandedInit == Init => Handed
  BY LoadTypes DEF Init, Handed, Height

(* Every step keeps what the cursors passed in hand or hands it over.      *)
LEMMA HandedNext == Shape /\ Handed /\ [Next]_vars => Handed'
<1>1. SUFFICES ASSUME Shape, Handed, [Next]_vars, Calm' PROVE Handed'
  BY DEF Handed, Calm
<1>2. Calm /\ ~Crash /\ ~Fails
  BY <1>1, CalmBefore
<1>3. Height' \in Nat /\ Height <= Height' /\ \A b \in 1..Height : chain'[b] = chain[b]
  BY <1>1, ChainExtended
<1>4. CASE UNCHANGED <<checked, pchecked, history, handed, stage, fresh>>
  <2>1. stage \in {"idle", "deposits"} => fresh = {}
    BY <1>1, <1>2 DEF Handed
  <2> QED BY <1>1, <1>2, <1>3, <1>4, <2>1, HandedKept
<1>5. CASE UNCHANGED vars
  BY <1>4, <1>5 DEF vars, cursors, memory, iteration, ghosts
<1>6. CASE Others
  BY <1>4, <1>6 DEF Others, Tick, Deposit, Propose, Delete, Mine, ByOthers, cursors, memory,
     iteration, ghosts
<1>7. CASE LoadHead
  <2>1. /\ stage = "idle" /\ stage' = "deposits"
        /\ UNCHANGED <<checked, pchecked, history, handed, fresh>>
    BY <1>7 DEF LoadHead, cursors, memory, ghosts
  <2>2. fresh = {}
    BY <1>1, <1>2, <2>1 DEF Handed
  <2> QED BY <1>1, <1>2, <1>3, <2>1, <2>2, HandedKept
<1>8. CASE RecordDeposits
  <2>1. /\ stage' = "proposals" /\ UNCHANGED <<checked, pchecked, handed, fresh>>
        /\ history' = history \cup {chain[b].of : b \in fresh}
    BY <1>2, <1>8 DEF RecordDeposits, Throws, cursors, ghosts
  <2> QED BY <1>1, <1>2, <1>3, <2>1, HandedKept
<1>9. CASE StartExecution
  <2>1. /\ stage = "execute" /\ stage' = "executing"
        /\ UNCHANGED <<checked, pchecked, history, handed, fresh>>
    BY <1>2, <1>9 DEF StartExecution, Throws, cursors, memory, ghosts
  <2> QED BY <1>1, <1>2, <1>3, <2>1, HandedKept
<1>10. ASSUME NEW h \in Hashes, Wait(h) \/ Attempt(h) PROVE Handed'
  BY <1>4, <1>10 DEF Wait, Attempt, cursors, ghosts
<1>11. CASE Decide
  <2>1. /\ stage = "executing" /\ stage' = "idle" /\ handed' = handed \cup fresh /\ fresh' = {}
        /\ UNCHANGED <<checked, pchecked, history>>
    BY <1>11 DEF Decide, Idle, cursors
  <2> QED BY <1>1, <1>2, <1>3, <2>1, HandedKept
<1>12. CASE Skip
  <2>1. /\ stage = "executing" /\ stage' = "idle" /\ fresh = {} /\ fresh' = {}
        /\ UNCHANGED <<checked, pchecked, history, handed>>
    BY <1>2, <1>12 DEF Skip, Idle, FailsIf, cursors, memory, ghosts
  <2> QED BY <1>1, <1>2, <1>3, <2>1, HandedKept
<1>13. CASE PollCommitment
  BY <1>1, <1>2, <1>13, HandedPollCommitment
<1>14. CASE PollProposals
  BY <1>1, <1>2, <1>14, HandedPollProposals
<1> QED
  BY <1>1, <1>2, <1>5, <1>6, <1>7, <1>8, <1>9, <1>10, <1>11, <1>12, <1>13, <1>14 DEF Next, Loop

(* As long as no phase failed and the agent was not restarted, a deposit   *)
(* or a live proposal the cursors have passed was handed to the decision   *)
(* engine or is in the hands of the iteration, and the deposit is recorded,*)
(* however far the logs lag behind the head.                               *)
THEOREM LoopNothingLost == Spec => []NothingLostUntilFailure
<1>1. Init => Shape /\ Handed
  BY ShapeInit, HandedInit
<1>2. Shape /\ Handed /\ [Next]_vars => (Shape /\ Handed)'
  BY ShapeNext, HandedNext
<1>3. Shape /\ Handed => NothingLostUntilFailure
  <2> SUFFICES ASSUME Shape, Handed, Calm PROVE
        /\ \A b \in 1..Height : Owed(b) => b \in handed \cup fresh
        /\ \A d \in Deposits :
             OnChain(d) /\ DepositBlock(d) <= checked => d \in history \/ stage = "record"
    BY DEF NothingLostUntilFailure, Calm
  <2>1. ASSUME NEW d \in Deposits, OnChain(d), DepositBlock(d) <= checked
        PROVE  d \in history \/ stage = "record"
    <3> DEFINE b == DepositBlock(d)
    <3>1. b \in 1..Height /\ chain[b].of = d
      BY <2>1 DEF OnChain, DepositBlock, EventsOf
    <3>2. chain[b].kind = "deposit"
      BY <3>1 DEF Shape, Events
    <3>3. b \in 1..checked
      BY <2>1, <3>1 DEF Shape, TypeOK, Height
    <3> HIDE DEF b
    <3> QED BY <3>1, <3>2, <3>3 DEF Handed
  <2> QED BY <2>1 DEF Handed
<1> QED BY <1>1, <1>2, <1>3, PTL DEF Spec

=============================================================================
