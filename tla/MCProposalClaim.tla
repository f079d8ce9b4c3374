--------------------------- MODULE MCProposalClaim --------------------------
(***************************************************************************)
(* Three process incarnations of ProposalClaim; c may get the pid of a.    *)
(***************************************************************************)
EXTENDS ProposalClaim, TLC

CONSTANTS a, b, c

MCProcs == {a, b, c}
MCPidOf == a :> 1 @@ b :> 2 @@ c :> 1
DistinctPids == a :> 1 @@ b :> 2 @@ c :> 3
FourInodes == 1..4
OnlyA == {a}
=============================================================================
