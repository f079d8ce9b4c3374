-------------------------- MODULE MCSessionTitles --------------------------
(***************************************************************************)
(* A small instance of SessionTitles: one /rename, for title u1;           *)
(* one of two background tasks can be tracked.                             *)
(***************************************************************************)
EXTENDS SessionTitles

CONSTANTS u1, k1, k2

MCUsers == {u1}
MCTasks == {k1, k2}
=============================================================================
