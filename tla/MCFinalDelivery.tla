--------------------------- MODULE MCFinalDelivery ---------------------------
(***************************************************************************)
(* Two turns of one or two sessions, two artifacts, and room for the       *)
(* evidence of two turns, of which one or two may be there already.        *)
(***************************************************************************)
EXTENDS FinalDelivery

Interchanged == Permutations(Turns) \cup Permutations(Sessions) \cup Permutations(Paths)
\* parseArtifactRows against its reference.
ASSUME FoundAsReferenced == \A us \in BoundedSeq(Uses, MaxUses) : Found(us) = FoundReference(us)
=============================================================================
