------------------------------ MODULE MessagePool ------------------------------
(***************************************************************************)
(* What the inbox promises the agent and its users, whatever it caches,    *)
(* prunes and meters to keep the promise: an accepted message waits in     *)
(* line or is leased until it expires or is acknowledged; the line is      *)
(* served from its head, and what is given back goes to its head; there is *)
(* a limit, and never a second copy of a request that is still alive.      *)
(***************************************************************************)
EXTENDS Integers, FiniteSets

CONSTANTS Limit, NoRequestId

VARIABLES
  clock,
  waiting,  \* messages in line
  ahead,    \* the line: <<m, n>> when m comes before n
  leased,   \* messages handed out and not settled
  acked,    \* messages that were settled
  seen      \* messages that were accepted

vars == <<clock, waiting, ahead, leased, acked, seen>>

Alive(S, now) == {m \in S : m.expiresAt > now}
SameRequest(m, n) ==
  m.requestId # NoRequestId /\ m.sender = n.sender /\ m.requestId = n.requestId
Lines(S) ==
  {R \in SUBSET (S \X S) :
     \A m, n \in S : /\ m = n \/ <<m, n>> \in R \/ <<n, m>> \in R
                     /\ ~(<<m, n>> \in R /\ <<n, m>> \in R)
                     /\ \A o \in S : <<m, n>> \in R /\ <<n, o>> \in R => <<m, o>> \in R}

Init ==
  /\ clock = 0
  /\ waiting = {} /\ ahead = {} /\ leased = {} /\ acked = {} /\ seen = {}

(* What expires is gone.                                                   *)
Pass ==
  /\ clock' = clock + 1
  /\ waiting' = Alive(waiting, clock')
  /\ ahead' = ahead \cap (waiting' \X waiting')
  /\ leased' = Alive(leased, clock')
  /\ UNCHANGED <<acked, seen>>

(* A message that took long to arrive may have expired already.            *)
Accept(m) ==
  /\ m \notin seen
  /\ Cardinality(waiting \cup leased) < Limit
  /\ \A n \in waiting \cup leased : ~SameRequest(m, n)
  /\ seen' = seen \cup {m}
  /\ waiting' = waiting \cup Alive({m}, clock)
  /\ ahead' = ahead \cup (waiting \X Alive({m}, clock))
  /\ UNCHANGED <<clock, leased, acked>>

Take(S) ==
  /\ \A m \in S, n \in waiting \ S : <<m, n>> \in ahead
  /\ waiting' = waiting \ S
  /\ ahead' = ahead \cap (waiting' \X waiting')
  /\ leased' = leased \cup S
  /\ UNCHANGED <<clock, acked, seen>>

GiveBack(S) ==
  /\ leased' = leased \ S
  /\ waiting' = waiting \cup S
  /\ \E line \in Lines(S) : ahead' = ahead \cup line \cup (S \X waiting)
  /\ UNCHANGED <<clock, acked, seen>>

Acknowledge(S) ==
  /\ leased' = leased \ S
  /\ acked' = acked \cup S
  /\ UNCHANGED <<clock, waiting, ahead, seen>>

Next ==
  \/ Pass
  \/ \E m \in seen' \ seen : Accept(m)
  \/ \E S \in SUBSET waiting : Take(S)
  \/ \E S \in SUBSET leased : GiveBack(S) \/ Acknowledge(S)

Spec == Init /\ [][Next]_vars
=============================================================================
