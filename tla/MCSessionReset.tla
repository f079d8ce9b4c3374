-------------------------- MODULE MCSessionReset --------------------------
(***************************************************************************)
(* A small instance of SessionReset: connections q1 and q2 ask for a       *)
(* reset, for session sc, for the model opus or for a title, possibly for  *)
(* the same thing twice.                                                   *)
(***************************************************************************)
EXTENDS SessionReset

CONSTANTS q1, q2, sa, sb, sc, sd, opus, m1, m2, m3, m4

MCRequests == {q1, q2}
MCMessages == {m1, m2, m3, m4}
MCSessions == {sa, sb, sc, sd}
MCModels == {opus}
MCFresh == [r \in MCRequests |-> IF r = q1 THEN sb ELSE sd]
MCKinds == {[action |-> "reset", message |-> m1, target |-> None],
            [action |-> "resume", message |-> m2, target |-> sc],
            [action |-> "model", message |-> m3, target |-> opus],
            [action |-> "title", message |-> m4, target |-> None]}
=============================================================================
