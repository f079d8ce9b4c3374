----------------------- MODULE MemoryApplierRefinement ----------------------
(***************************************************************************)
(* MemoryApplier implements ManagedMemory.  While a journal is in flight   *)
(* (durable, not committed) a file at its after image counts as its before *)
(* image, and so does the ledger: the writes of a proposal take effect     *)
(* together when the "committed" journal replaces the in-flight one, and a *)
(* rollback is invisible.                                                  *)
(***************************************************************************)
EXTENDS MemoryApplier

InFlight(p) == Pending(p) /\ ~Committed(p)
WrittenBy(l) == {p \in Proposals : InFlight(p) /\ l \in LeafSet(p)
                                     /\ mem[l] = journals[p].after[l]}
LedgerBy == {p \in Proposals : InFlight(p) /\ ledger = journals[p].ledgerAfter}

\* The images and owners a reader may rely on.
SettledMemory == [l \in Leaves |->
    IF WrittenBy(l) = {} THEN mem[l]
    ELSE journals[CHOOSE p \in WrittenBy(l) : TRUE].before[l]]
Named(l) == [t \in Topics |-> IF l[t] = None THEN None ELSE [sha |-> l[t].sha, key |-> l[t].key]]
SettledLedger == Named(IF LedgerBy = {} THEN ledger
                       ELSE journals[CHOOSE p \in LedgerBy : TRUE].ledgerBefore)

Promise == INSTANCE ManagedMemory
             WITH memory <- SettledMemory, owners <- SettledLedger, edited <- touched,
                  InitLedger <- Named(InitLedger)

\* A proposal is applied entirely or not at all, whatever call fails and
\* wherever the process is killed: every step of the applier is one atomic
\* apply of ManagedMemory, an edit by someone else, or invisible.
AppliesAtomically == Promise!MSpec
=============================================================================
