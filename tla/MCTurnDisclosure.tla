--------------------------- MODULE MCTurnDisclosure ---------------------------
(***************************************************************************)
(* A small instance of TurnDisclosure: one chat, two tool calls of which   *)
(* one may be launched as agent a1, and two handlers that overlap.         *)
(***************************************************************************)
EXTENDS TurnDisclosure

CONSTANTS c1, c2, k1, k2, a1, ch1, quota

MCCalls == {c1, c2}
MCTasks == {k1, k2}
MCAgents == {a1}
MCChats == {ch1}
MCErrors == {quota}
MCConfigured == {TRUE, FALSE}
=============================================================================
