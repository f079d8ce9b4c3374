------------------------- MODULE MCControlCommands -------------------------
(***************************************************************************)
(* One private chat and one group.  A list, a choice, its confirmation and *)
(* one more prompt; two handlers at work at a time.                        *)
(***************************************************************************)
EXTENDS ControlCommands, TLC

Prompted == Permutations(Prompts) \cup Permutations(Sessions)
=============================================================================
