------------------------ MODULE MCProposalSubmission ------------------------
(* Small instances of the proposal node.                                   *)
EXTENDS ProposalSubmission, TLC

CONSTANTS r1, r2, r3, d1, d2, p1, p2, p3

(* Two proposals that share a deposit.                                     *)
Overlapping == (r1 :> {d1, d2}) @@ (r2 :> {d2})
Distinct == (r1 :> p1) @@ (r2 :> p2)

(* The same transactions signed under two request ids, and a proposal that *)
(* reimburses their deposit together with another one.                     *)
Widened == (r1 :> {d1}) @@ (r2 :> {d1}) @@ (r3 :> {d1, d2})
Repeated == (r1 :> p1) @@ (r2 :> p1) @@ (r3 :> p2)

(* Verification enforced; or only advised, and proposing whatever the      *)
(* simulation says; or switched off.                                       *)
Enforced == {[mode |-> "enforce", proposeAnyway |-> FALSE]}
AnySettings == Enforced \cup
  {[mode |-> "advisory", proposeAnyway |-> TRUE], [mode |-> "off", proposeAnyway |-> TRUE]}
=============================================================================
