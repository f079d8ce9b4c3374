-------------------------- MODULE MCMemoryApplier --------------------------
(***************************************************************************)
(* Small instances of MemoryApplier.  Proposal p1 creates topic t1.        *)
(* "Mixed": p2 patches topic t2, which an earlier run created.             *)
(* "Create": p2 creates topic t2, so that both append to the index.        *)
(***************************************************************************)
EXTENDS MemoryApplierRefinement, TLC

CONSTANTS h1, h2, p1, p2, t1, t2, b1, b2, old, ext

MCHooks1 == {h1}
MCHooks2 == {h1, h2}
MCProposals == {p1, p2}
MCTopics == {t1, t2}
MCBodies == {b1, b2, old, ext}
MCExtBodies == {ext}
MCTopicOf == p1 :> t1 @@ p2 :> t2
MCBodyOf == p1 :> b1 @@ p2 :> b2

MixedCreates == {p1}
MixedMem == t1 :> Absent @@ t2 :> old @@ Index :> <<t2>>
MixedLedger == t1 :> None @@ t2 :> [sha |-> old, key |-> OldKey, at |-> 0]

CreateCreates == {p1, p2}
CreateMem == t1 :> Absent @@ t2 :> Absent @@ Index :> <<>>
CreateLedger == t1 :> None @@ t2 :> None

\* One session, or one session per hook.
MineAll == [h \in Hooks |-> Proposals]
MineSplit == h1 :> {p1} @@ h2 :> {p2}

=============================================================================
