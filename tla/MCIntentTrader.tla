--------------------------- MODULE MCIntentTrader ---------------------------
(***************************************************************************)
(* Instances of IntentTrader for TLC.                                      *)
(***************************************************************************)
EXTENDS IntentTrader
Load(spend, credit, fails, stops, disputed) ==
  [spend |-> spend, credit |-> credit, failures |-> fails, crashes |-> stops, disputes |-> disputed]
(* Two intents of the same amount, two of different amounts, two the       *)
(* credit only covers one of, and one with everything that may happen.     *)
Equal == Load(<<1, 1>>, 2, 0, 0, 0)
Different == Load(<<1, 2>>, 3, 0, 0, 0)
Scarce == Load(<<1, 1>>, 1, 2, 1, 0)
Faults == Load(<<1, 1>>, 1, 1, 1, 1)
AllLoads == {Equal, Different, Scarce, Faults, Load(<<1, 1>>, 2, 0, 1, 0)}
OneLoad == {Equal}
(* Credit for one intent, and one call of a tool that fails.               *)
OneFailure == {Load(<<1, 1>>, 1, 1, 0, 0)}
=============================================================================
