-------------------------- MODULE MCControlBroker --------------------------
(***************************************************************************)
(* A small instance of ControlBroker: four connections, each with a reset  *)
(* for a message of its own.                                               *)
(***************************************************************************)
EXTENDS ControlBroker, TLC

CONSTANTS r1, r2, r3, r4, s

MCRequests == {r1, r2, r3, r4}
MCSessions == {s}
MCModels == {}
Symmetry == Permutations(MCRequests)

\* The message is named like its connection.
Reset(r) == [action |-> "reset", message |-> r, named |-> s, target |-> None]

LimitsNext ==
    \/ Tick
    \/ \E r \in Requests : \/ Count(r, Reset(r)) \/ TakeTime(r) \/ Reserve(r) \/ Run(r)
                           \/ JobEnds(r)

LimitsSpec == BrokerInit /\ [][LimitsNext]_brokerVars
=============================================================================
