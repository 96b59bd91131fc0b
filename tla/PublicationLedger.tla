-------------------------- MODULE PublicationLedger --------------------------
(***************************************************************************)
(* What a publication node promises its clients: the first signed request  *)
(* for a key owns the key for ever, and at most one artifact, of that      *)
(* request, is ever announced for it.                                      *)
(***************************************************************************)
CONSTANTS Keys, Requests, Artifacts, None

VARIABLES
  owner,      \* key |-> the request that owns it, or None
  announced   \* key |-> the artifacts whose CID clients were given

Init ==
  /\ owner = [k \in Keys |-> None]
  /\ announced = [k \in Keys |-> {}]

Own(q) ==
  /\ owner[q.key] = None
  /\ owner' = [owner EXCEPT ![q.key] = q]
  /\ UNCHANGED announced

Announce(a) ==
  /\ owner[a.request.key] = a.request
  /\ announced[a.request.key] = {}
  /\ announced' = [announced EXCEPT ![a.request.key] = {a}]
  /\ UNCHANGED owner

Next == (\E q \in Requests : Own(q)) \/ (\E a \in Artifacts : Announce(a))

Spec == Init /\ [][Next]_<<owner, announced>>
=============================================================================
