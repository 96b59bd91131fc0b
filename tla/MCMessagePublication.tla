------------------------ MODULE MCMessagePublication ------------------------
(* Small instances of the message publication node.                        *)
EXTENDS MessagePublication, TLC

CONSTANTS k1, k2, b1, b2, s1

(* One key, signed twice with different contents.                          *)
ConflictingRequests ==
  {[key |-> k1, body |-> b1, stream |-> NoStream, sequence |-> 0],
   [key |-> k1, body |-> b2, stream |-> NoStream, sequence |-> 0]}

OneRequest == {[key |-> k1, body |-> b1, stream |-> NoStream, sequence |-> 0]}

(* Two snapshots that both claim to be the first of a stream, and a second. *)
StreamRequests ==
  {[key |-> k1, body |-> b1, stream |-> s1, sequence |-> 1],
   [key |-> k2, body |-> b1, stream |-> s1, sequence |-> 1],
   [key |-> k2, body |-> b2, stream |-> s1, sequence |-> 2]}
AllRequests == ConflictingRequests \cup StreamRequests
BothWorkloads == {ConflictingRequests, StreamRequests}
BothBudgets == ConflictingRequests :> 5 @@ StreamRequests :> 2
RetryWorkload == {OneRequest}
RetryBudget == OneRequest :> 4
=============================================================================
