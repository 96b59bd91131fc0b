--------------------------- MODULE MCControlNode ---------------------------
(***************************************************************************)
(* Instances of ControlNode for TLC.                                       *)
(***************************************************************************)
EXTENDS ControlNode
CONSTANTS p1, p2, w1

TwoMarkets == 1..2
OneMarket == 1..1
SomePayloads == {p1, p2}
OneWithdrawal == {w1}
NoWithdrawal == {}
(* Each market its own amount, the same for every request of a market.     *)
OwnPayload == [m \in Markets |-> [c \in 1..MaxRequests |-> IF m = 1 THEN p1 ELSE p2]]
(* Two markets with the same amount.                                       *)
SamePayload == [m \in Markets |-> [c \in 1..MaxRequests |-> p1]]

Load(markets, requests, withdrawals, fails, stops, deletes) ==
  [markets |-> markets, requests |-> requests, withdrawals |-> withdrawals,
   failures |-> fails, crashes |-> stops, deletions |-> deletes]
LoadA == {Load(Markets, 1, {w1}, 0, 0, 1)}
LoadB == {Load({1}, 2, {w1}, 1, 0, 1)}
LoadC == {Load({1}, 2, {w1}, 0, 1, 1)}
LoadD == {Load({1}, 1, {w1}, 1, 1, 1)}
AllLoads == LoadA \cup LoadB \cup LoadC \cup LoadD
EqualLoad == {Load(Markets, 1, {}, 0, 0, 1)}
ReceiptLoad == {Load({1}, 1, {w1}, 1, 0, 0)}
=============================================================================
