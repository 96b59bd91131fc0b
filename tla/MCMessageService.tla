-------------------------- MODULE MCMessageService --------------------------
(* TLC instance of MessageService: all requests are signed.                *)
EXTENDS MessageService

CONSTANTS alice, r1, r2

SignedRequest(id, signedAt, deadline) ==
  [sender |-> alice, requestId |-> id, signedAt |-> signedAt, deadline |-> deadline,
   wellFormed |-> TRUE]

(* A request dated one tick ahead, one with a deadline, and one with       *)
(* another request id.                                                     *)
MCRequests == {SignedRequest(r1, 1, 0), SignedRequest(r2, 0, 3), SignedRequest(r2, 2, 0)}

CallerSymmetry == Permutations(Callers)
=============================================================================
