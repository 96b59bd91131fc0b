---------------------------- MODULE MCAgentLoop ----------------------------
(***************************************************************************)
(* Instances of AgentLoop for TLC.                                         *)
(***************************************************************************)
EXTENDS AgentLoop
CONSTANTS d1, d2, h1

Load(starts, deposits, hashes, blocks, fails, stops) ==
  [start : starts, deposits : {deposits}, hashes : {hashes}, blocks : {blocks},
   failures : {fails}, crashes : {stops}]
LoadA == Load({None, 0}, {d1}, {}, 3, 1, 1)
LoadB == Load({0}, {d1, d2}, {}, 3, 1, 0)
LoadC == Load({0}, {}, {h1}, 4, 1, 0)
LoadD == Load({None}, {}, {h1}, 3, 1, 1)
LoadE == Load({0}, {d1}, {h1}, 3, 0, 0)
AllLoads == LoadA \cup LoadB \cup LoadC \cup LoadD \cup LoadE
=============================================================================
