--------------------------- MODULE AnswerContract ---------------------------
(***************************************************************************)
(* What deliverFinal promises to the disclosure that awaits it             *)
(* (progress-disclosure.ts:785-815, TurnDisclosure): a turn's answer is    *)
(* shown at most once, "delivered" means it is there, and "too_large" and  *)
(* "rejected" that it is not, so that only after "too_large" another may   *)
(* be tried.  "uncertain", and a process that dies, promise nothing more.  *)
(***************************************************************************)
EXTENDS Naturals

CONSTANT Turns
VARIABLES
    answers,    \* [Turns -> how many answers of the turn the chat shows]
    verdict     \* [Turns -> what the last call returned, or "none"]

Unsettled == {"none", "too_large"}
ContractInit == answers = [t \in Turns |-> 0] /\ verdict = [t \in Turns |-> "none"]

Shows(t) ==
    /\ verdict[t] \in Unsettled /\ answers[t] = 0
    /\ answers' = [answers EXCEPT ![t] = 1]
Settles(t, v) == verdict[t] \in Unsettled /\ verdict' = [verdict EXCEPT ![t] = v]

ContractNext == \E t \in Turns :
    \/ Shows(t) /\ UNCHANGED verdict
    \/ answers[t] = 1 /\ Settles(t, "delivered") /\ UNCHANGED answers
    \/ answers[t] = 0 /\ (Settles(t, "too_large") \/ Settles(t, "rejected")) /\ UNCHANGED answers
    \/ Settles(t, "uncertain") /\ (Shows(t) \/ UNCHANGED answers)
Contract == ContractInit /\ [][ContractNext]_<<answers, verdict>>
=============================================================================
