--------------------------- MODULE ManagedMemory ---------------------------
(***************************************************************************)
(* What the applier promises (docs/memory-applier.md): a proposal changes  *)
(* its topic, the index and the ownership ledger in one step or not at     *)
(* all; a create never replaces an existing topic, a patch only replaces   *)
(* bytes the ledger records as the applier's own; and a file that somebody *)
(* else edited in the meantime keeps that edit.                            *)
(***************************************************************************)
EXTENDS Sequences

CONSTANTS Proposals, Topics, Index, Absent, None, TopicOf, BodyOf, Creates,
          InitMem, InitLedger

VARIABLES memory,     \* [leaves -> image] as a reader may rely on it
          owners,     \* [Topics -> [sha, key] or None]
          edited      \* [Proposals -> leaves edited since p last read them]

managed == <<memory, owners, edited>>

PLeaves(p) == {TopicOf[p]} \cup (IF p \in Creates THEN {Index} ELSE {})

MInit == /\ memory = InitMem
         /\ owners = InitLedger
         /\ edited = [p \in Proposals |-> {}]

\* Another program replaces, creates or deletes a file.
MEdit(l) == /\ memory' = [memory EXCEPT ![l] = memory'[l]]
            /\ edited' = [p \in Proposals |-> edited[p] \cup {l}]
            /\ UNCHANGED owners

\* p reads some of its files (again).
MCapture(p) == /\ edited' \in {[edited EXCEPT ![p] = e] : e \in SUBSET edited[p]}
               /\ UNCHANGED <<memory, owners>>

MReady(p) ==
    LET t == TopicOf[p] IN
    /\ t \notin edited[p] =>
         IF p \in Creates THEN memory[t] = Absent
         ELSE owners[t] # None /\ owners[t].sha = memory[t]
    /\ Index \in PLeaves(p) \ edited[p] => memory[Index] # Absent

MApply(p) ==
    /\ MReady(p)
    /\ owners' = [owners EXCEPT ![TopicOf[p]] = [sha |-> BodyOf[p], key |-> p]]
    /\ memory' = [l \in DOMAIN memory |->
                    IF l \notin PLeaves(p) \ edited[p] THEN memory[l]
                    ELSE IF l = Index THEN Append(memory[l], TopicOf[p]) ELSE BodyOf[p]]
    /\ UNCHANGED edited

MNext == \/ \E l \in DOMAIN memory : MEdit(l)
         \/ \E p \in Proposals : MCapture(p) \/ MApply(p)

MSpec == MInit /\ [][MNext]_managed
=============================================================================
