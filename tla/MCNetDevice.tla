----------------------------- MODULE MCNetDevice -----------------------------
(***************************************************************************)
(* A model of NetDevice: a call of the planner and one from a thread, two  *)
(* devices of which one has a save command, and batches of green, yellow   *)
(* and red lines.                                                          *)
(***************************************************************************)
EXTENDS NetDevice

CONSTANTS d1, d2

Green == {"green", "yellow"}     \* "monitor session 1 source ..."
Yellow == {"yellow"}
Red == {"red", "yellow"}         \* "shutdown system"

MCRequest ==
  {[tool |-> "show", device |-> d1, commands |-> <<l>>, save |-> FALSE] :
     l \in {Green, {}}}
  \cup
  {[tool |-> "config", device |-> d1, commands |-> b, save |-> TRUE] :
     b \in {<<Yellow, Green>>, <<Green, {}, Yellow, Red>>}}
  \cup
  {[tool |-> "config", device |-> d, commands |-> <<Green>>, save |-> d = d2] :
     d \in Device}
==============================================================================
