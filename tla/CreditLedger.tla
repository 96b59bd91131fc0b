---------------------------- MODULE CreditLedger ----------------------------
(***************************************************************************)
(* What the intent trader promises the signer: an intent is taken only     *)
(* when it fits what is left of the credit, is traded once and paid only   *)
(* when its order was filled, and gives its credit back only when nothing  *)
(* was, or will be, spent for it.  The one exception is an intent in doubt: *)
(* the exchange took its order and the agent was told that it did not.     *)
(***************************************************************************)
EXTENDS Integers, FiniteSetsExt

CONSTANT Intents

VARIABLES
  load,   \* spend of each intent and credit of the signer
  phase   \* how far an intent has come

Phases == {"none", "accepted", "open", "filled", "failed", "doubted", "released", "paid"}
Committed == {i \in Intents : phase[i] \notin {"none", "released"}}
Total(S) == MapThenSumSet(LAMBDA i : load.spend[i], S)

Init == phase = [i \in Intents |-> "none"]

Move(i, from, to) == phase[i] = from /\ phase' = [phase EXCEPT ![i] = to]
Accept(i) == Move(i, "none", "accepted") /\ Total(Committed \cup {i}) <= load.credit
Order(i) == Move(i, "accepted", "open")
Answer(i) == Move(i, "open", "filled") \/ Move(i, "open", "failed")
Doubt(i) == Move(i, "accepted", "doubted")
Pay(i) == Move(i, "filled", "paid") \/ Move(i, "doubted", "paid")

(* Several intents at a time.                                              *)
Release(S) ==
  /\ \A i \in S : phase[i] \in {"accepted", "failed", "doubted"}
  /\ phase' = [i \in Intents |-> IF i \in S THEN "released" ELSE phase[i]]

Next ==
  /\ UNCHANGED load
  /\ \/ \E i \in Intents : Accept(i) \/ Order(i) \/ Answer(i) \/ Doubt(i) \/ Pay(i)
     \/ \E S \in SUBSET Intents : Release(S)

Spec == Init /\ [][Next]_<<load, phase>>
=============================================================================
