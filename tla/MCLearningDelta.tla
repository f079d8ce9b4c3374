--------------------------- MODULE MCLearningDelta --------------------------
(***************************************************************************)
(* Small instances of LearningDelta: two sessions with a proposal each, or *)
(* a session s1 with two proposals.                                        *)
(***************************************************************************)
EXTENDS LearningDelta, TLC

CONSTANTS s1, s2, p1, p2, p3

TwoSessions == {s1, s2}
OneSession == {s1}

OneEach == <<p1, p2>>
OneEachOf == p1 :> s1 @@ p2 :> s2

Both == <<p1, p2>>
BothOf == p1 :> s1 @@ p2 :> s1

TwoAndOne == <<p1, p2, p3>>
TwoAndOneOf == p1 :> s1 @@ p2 :> s1 @@ p3 :> s2
=============================================================================
