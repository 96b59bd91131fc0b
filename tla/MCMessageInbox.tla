--------------------------- MODULE MCMessageInbox ---------------------------
(* TLC instance of MessageInbox: one signed and one API-key sender.        *)
EXTENDS MessageInbox

CONSTANTS alice, bot, r1

(* Requests with and without a deadline, two signatures of one request id, *)
(* and a malformed request.                                                *)
SignedRequest(signedAt, deadline) ==
  [sender |-> alice, requestId |-> r1, signedAt |-> signedAt, deadline |-> deadline,
   wellFormed |-> TRUE]
KeyRequest(id, deadline) ==
  [sender |-> bot, requestId |-> id, signedAt |-> 0, deadline |-> deadline,
   wellFormed |-> TRUE]
MCRequests ==
  {SignedRequest(1, 0), SignedRequest(2, 4), KeyRequest(r1, 0),
   KeyRequest(NoRequestId, 0), [KeyRequest(r1, 0) EXCEPT !.wellFormed = FALSE]}
=============================================================================
