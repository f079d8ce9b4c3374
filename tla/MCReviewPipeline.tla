-------------------------- MODULE MCReviewPipeline --------------------------
(***************************************************************************)
(* A small instance of ReviewPipeline: three Stop hooks over two turns of  *)
(* one session, so that a turn may stop more than once.                    *)
(***************************************************************************)
EXTENDS ReviewPipeline, TLC

CONSTANTS h1, h2, h3, t1, t2, s

MCRequests == {h1, h2, h3}
MCMessages == {t1, t2}
MCSessions == {s}
MCModels == {}
MCSessionOf == [t \in MCMessages |-> s]
Symmetry == Permutations(MCRequests) \cup Permutations(MCMessages)
=============================================================================
