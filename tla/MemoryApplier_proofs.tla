----------------------- MODULE MemoryApplier_proofs ------------------------
(***************************************************************************)
(* Proofs about MemoryApplier, for any number of hooks, proposals, topics, *)
(* edits, errors and kills.  IInv, the inductive invariant, is TypeOK and  *)
(* TransactionsAreSerial, regrouped so that a step of one hook is checked  *)
(* for that hook alone: lemma Others shows that a hook which holds the     *)
(* claim, or changes neither files nor journals, leaves the rest alone.    *)
(*                                                                         *)
(* OInv adds what the ownership ledger means.  A journal whose entry was   *)
(* undone may stay on disk, and later journals may hold that entry in a    *)
(* ledger image of theirs: Settled keeps the set D of such journals, whose *)
(* entry is in no image that can still be restored, and the stamps tell an *)
(* old entry of a proposal from its new one.                               *)
(*                                                                         *)
(* LinkInv bounds the links to a topic in every image of the index that is *)
(* in the files, in a journal or seen by a reviewer.                       *)
(***************************************************************************)
EXTENDS MemoryApplier, SequenceTheorems, FiniteSetTheorems, TLAPS

DataTyped ==
    /\ mem \in Memories
    /\ ledger \in Ledgers
    /\ journals = [p \in Proposals |-> journals[p]]
    /\ \A p \in Proposals : journals[p] \in JournalOrNone(p)
    /\ bound \in [Proposals -> Memories \cup {None}]
    /\ foreign \subseteq Proposals /\ committed \subseteq Proposals /\ emitted \subseteq Proposals
    /\ holder \in Hooks \cup {None}
    /\ touched \in [Proposals -> SUBSET Leaves]
    /\ clock \in Nat /\ budget \in [ext : Nat, fault : Nat, crash : Nat]

HookTyped ==
    /\ hook = [h \in Hooks |-> hook[h]]
    /\ \A h \in Hooks : \E p \in Proposals \cup {None} : hook[h] \in HookStates(p)

Serial(h) ==
    /\ HasProposal(h) => hook[h].key \in Proposals
    /\ HoldsClaim(h) => holder = h
    /\ hook[h].pc = "prepare" => bound[hook[h].key] \in Memories
    /\ InTransaction(h) => OwnsJournal(h) /\ WindowHolds(h)

IInv == DataTyped /\ HookTyped /\ \A h \in Hooks : Serial(h)

USE BoundsAssumption, NamesAssumption, ProposalAssumption, NoneAssumption

\* IInv is the conjunction of the two checked invariants.
LEMMA IInvSplit == IInv <=> TypeOK /\ TransactionsAreSerial
BY DEF IInv, TypeOK, TransactionsAreSerial, DataTyped, HookTyped, Serial

\* The state of a hook that does not run.
LEMMA IdleTyped == Idle \in HookStates(None)
BY DEF Idle, HookStates, Labels

\* The state of a hook between two proposals.
LEMMA NextTyped ==
    ASSUME NEW todo \in SUBSET Proposals
    PROVE  AtNext(todo) \in HookStates(None)
BY IdleTyped DEF AtNext, HookStates, Labels

\* A hook state is typed at its own proposal.
LEMMA StateTyped ==
    ASSUME HookTyped, NEW h \in Hooks
    PROVE  /\ hook[h].key \in Proposals \cup {None}
           /\ hook[h] \in HookStates(hook[h].key)
BY DEF HookTyped, HookStates

\* The orders in which the files of a proposal are written and undone.
LEMMA LeafOrders ==
    ASSUME NEW p \in Proposals
    PROVE  /\ LeafSet(p) \subseteq Leaves
           /\ LeavesOf(p) \in Seq(LeafSet(p)) /\ LeavesOf(p) # <<>>
           /\ RollbackOrder(p) \in Seq(LeafSet(p)) /\ RollbackOrder(p) # <<>>
           /\ Seq(LeafSet(p)) \subseteq Seq(Leaves)
<1>1. LeafSet(p) \subseteq Leaves
  BY DEF LeafSet, Leaves
<1>2. CASE p \in Creates
  <2>1. LeavesOf(p) = <<TopicOf[p], Index>> /\ RollbackOrder(p) = <<Index, TopicOf[p]>>
    BY <1>2 DEF LeavesOf, RollbackOrder
  <2>2. TopicOf[p] \in LeafSet(p) /\ Index \in LeafSet(p)
    BY <1>2 DEF LeafSet
  <2> QED BY <1>1, <2>1, <2>2, SeqMonotonic
<1>3. CASE p \notin Creates
  <2>1. LeavesOf(p) = <<TopicOf[p]>> /\ RollbackOrder(p) = <<TopicOf[p]>>
    BY <1>3 DEF LeavesOf, RollbackOrder
  <2>2. TopicOf[p] \in LeafSet(p)
    BY <1>3 DEF LeafSet
  <2> QED BY <1>1, <2>1, <2>2, SeqMonotonic
<1> QED BY <1>2, <1>3

\* A step of h leaves the invariant of every other hook alone.
LEMMA Others ==
    ASSUME IInv, NEW h \in Hooks, NEW g \in Hooks \ {h},
           hook'[g] = hook[g], UNCHANGED bound,
           \/ HoldsClaim(h)
           \/ /\ UNCHANGED <<mem, journals>>
              /\ holder' = holder \/ holder = None
    PROVE  Serial(g)'
<1>1. CASE HoldsClaim(h)
  <2>1. ~HoldsClaim(g)
    BY <1>1 DEF IInv, Serial
  <2> QED
    BY <2>1 DEF IInv, Serial, HasProposal, HoldsClaim, InTransaction
<1>2. CASE UNCHANGED <<mem, journals>> /\ (holder' = holder \/ holder = None)
  <2>1. HoldsClaim(g) => holder' = g
    BY <1>2 DEF IInv, Serial
  <2>2. UNCHANGED <<HoldsClaim(g), HasProposal(g), InTransaction(g), OwnsJournal(g), WindowHolds(g)>>
    BY <1>2 DEF HoldsClaim, HasProposal, InTransaction, OwnsJournal, WindowHolds, Pending
  <2> QED
    BY <2>1, <2>2 DEF IInv, Serial
<1> QED BY <1>1, <1>2

\* A step of h preserves IInv if it preserves the part of h.
LEMMA HookStepPreserves ==
    ASSUME IInv, NEW h \in Hooks, NEW k \in Proposals \cup {None}, NEW s \in HookStates(k),
           Becomes(h, s), DataTyped', UNCHANGED bound,
           \/ HoldsClaim(h)
           \/ /\ UNCHANGED <<mem, journals>>
              /\ holder' = holder \/ holder = None,
           hook'[h] = s => Serial(h)'
    PROVE  IInv'
<1>1. HookTyped'
  BY DEF IInv, HookTyped, Becomes
<1>2. hook'[h] = s /\ \A g \in Hooks \ {h} : hook'[g] = hook[g]
  BY DEF IInv, HookTyped, Becomes
<1>3. \A g \in Hooks \ {h} : Serial(g)'
  BY <1>2, Others
<1> QED BY <1>1, <1>2, <1>3 DEF IInv

\* The fault budget stays a number.
LEMMA BudgetTyped ==
    ASSUME DataTyped, Throws \/ Works
    PROVE  budget' \in [ext : Nat, fault : Nat, crash : Nat]
BY DEF DataTyped, Throws, Works

\* Outside any transaction nothing is required of a hook.
LEMMA OutsideSerial ==
    ASSUME NEW h \in Hooks, hook'[h].pc \in {"idle", "recover", "next"}
    PROVE  Serial(h)'
BY DEF Serial, HasProposal, HoldsClaim, InTransaction, Writing, Undoing

\* Action Crash preserves the invariant.
LEMMA CrashStep == ASSUME IInv, NEW h \in Hooks, Crash(h) PROVE IInv'
<1>1. DataTyped'
  BY DEF IInv, DataTyped, Crash, disk, env, hist
<1>2. Idle.pc = "idle"
  BY DEF Idle
<1>3. hook'[h] = Idle => Serial(h)'
  BY <1>2, OutsideSerial
<1>4. \A g \in Hooks \ {h} : Serial(g)'
  <2> SUFFICES ASSUME NEW g \in Hooks \ {h} PROVE Serial(g)'
    OBVIOUS
  <2>1. hook'[g] = hook[g] /\ (holder # h => holder' = holder)
    BY DEF Crash, Becomes, IInv, HookTyped
  <2>2. HoldsClaim(g) => holder' = g
    BY DEF Crash, IInv, Serial
  <2>3. UNCHANGED <<mem, journals, bound>>
    BY DEF Crash, disk, env
  <2>4. UNCHANGED <<HoldsClaim(g), HasProposal(g), InTransaction(g), OwnsJournal(g), WindowHolds(g)>>
    BY <2>1, <2>3 DEF HoldsClaim, HasProposal, InTransaction, OwnsJournal, WindowHolds, Pending
  <2> QED BY <2>1, <2>2, <2>3, <2>4 DEF IInv, Serial
<1>5. HookTyped'
  BY IdleTyped DEF IInv, HookTyped, Crash, Becomes
<1>6. hook'[h] = Idle
  BY DEF IInv, HookTyped, Crash, Becomes
<1> QED BY <1>1, <1>3, <1>4, <1>5, <1>6 DEF IInv

\* Action Stop preserves the invariant.
LEMMA StopStep == ASSUME IInv, NEW h \in Hooks, Stop(h) PROVE IInv'
<1>. DEFINE s == [Idle EXCEPT !.pc = "recover"]
<1>1. s \in HookStates(None) /\ s.pc = "recover"
  BY IdleTyped DEF HookStates, Labels
<1>2. hook'[h] = s => Serial(h)'
  BY <1>1, OutsideSerial
<1>3. DataTyped'
  BY DEF Stop, IInv, DataTyped, disk, env, hist
<1> QED BY <1>1, <1>2, <1>3, HookStepPreserves DEF Stop, disk, env

\* A step of h that ends outside any transaction.
LEMMA LeavesClaim ==
    ASSUME IInv, NEW h \in Hooks, NEW k \in Proposals \cup {None}, NEW s \in HookStates(k),
           s.pc \in {"idle", "recover", "next"},
           Becomes(h, s), DataTyped', UNCHANGED bound,
           HoldsClaim(h) \/ (UNCHANGED <<mem, journals>> /\ holder' = holder)
    PROVE  IInv'
BY OutsideSerial, HookStepPreserves

\* A recovery holds the claim and nothing else.
LEMMA RecoveringSerial ==
    ASSUME NEW h \in Hooks, hook'[h].pc = "recovering", holder' = h
    PROVE  Serial(h)'
BY DEF Serial, HasProposal, HoldsClaim, InTransaction, Writing, Undoing

\* A step within the recovery loop.
LEMMA WhileRecovering ==
    ASSUME IInv, NEW h \in Hooks, NEW k \in Proposals \cup {None}, NEW s \in HookStates(k),
           hook[h].pc = "recovering", s.pc = "recovering",
           Becomes(h, s), DataTyped', UNCHANGED <<bound, holder>>
    PROVE  IInv'
<1>1. HoldsClaim(h) /\ holder = h
  BY DEF IInv, Serial, HoldsClaim
<1> QED BY <1>1, RecoveringSerial, HookStepPreserves

\* Action ClaimForRecovery preserves the invariant.
LEMMA ClaimForRecoveryStep == ASSUME IInv, NEW h \in Hooks, ClaimForRecovery(h) PROVE IInv'
<1>. DEFINE s == [hook[h] EXCEPT !.pc = "recovering", !.recovering = TRUE,
                                 !.todo = {p \in Proposals : Pending(p)}]
<1>1. s \in HookStates(hook[h].key) /\ s.pc = "recovering" /\ hook[h].key \in Proposals \cup {None}
  BY StateTyped DEF IInv, HookStates, Labels
<1>2. DataTyped'
  BY BudgetTyped DEF ClaimForRecovery, IInv, DataTyped, disk, env, hist
<1>3. CASE ClaimFree(h) /\ holder' = h /\ Becomes(h, s)
  <2>1. hook'[h] = s => Serial(h)'
    BY <1>1, <1>3, RecoveringSerial
  <2> QED BY <1>1, <1>2, <1>3, <2>1, HookStepPreserves DEF ClaimFree, ClaimForRecovery, disk, env
<1>4. CASE Becomes(h, Idle) /\ UNCHANGED holder
  BY <1>2, <1>4, IdleTyped, LeavesClaim DEF ClaimForRecovery, disk, env, Idle
<1> QED BY <1>3, <1>4 DEF ClaimForRecovery

\* Removing a journal keeps the others.
LEMMA JournalGone ==
    ASSUME DataTyped, NEW p \in Proposals,
           journals' = journals \/ journals' = [journals EXCEPT ![p] = None]
    PROVE  /\ journals' = [q \in Proposals |-> journals'[q]]
           /\ \A q \in Proposals : journals'[q] \in JournalOrNone(q)
BY DEF DataTyped, JournalOrNone

\* Action SkipJournal preserves the invariant.
LEMMA SkipJournalStep ==
    ASSUME IInv, NEW h \in Hooks, NEW p \in Proposals, SkipJournal(h, p) PROVE IInv'
<1>. DEFINE s == [hook[h] EXCEPT !.todo = @ \ {p}, !.conf = TRUE]
<1>1. s \in HookStates(hook[h].key) /\ s.pc = hook[h].pc /\ hook[h].key \in Proposals \cup {None}
  BY StateTyped DEF IInv, HookStates
<1>2. DataTyped'
  BY DEF SkipJournal, IInv, DataTyped, disk, env, hist
<1> QED BY <1>1, <1>2, WhileRecovering DEF SkipJournal, env

\* Action RemoveCommitted preserves the invariant.
LEMMA RemoveCommittedStep ==
    ASSUME IInv, NEW h \in Hooks, NEW p \in Proposals, RemoveCommitted(h, p) PROVE IInv'
<1>. DEFINE s == [hook[h] EXCEPT !.todo = @ \ {p}]
<1>1. s \in HookStates(hook[h].key) /\ s.pc = hook[h].pc /\ hook[h].key \in Proposals \cup {None}
  BY StateTyped DEF IInv, HookStates
<1>2. DataTyped'
  BY JournalGone DEF RemoveCommitted, IInv, DataTyped, env, hist
<1> QED BY <1>1, <1>2, WhileRecovering DEF RemoveCommitted, env

\* Action RecoveryThrows preserves the invariant.
LEMMA RecoveryThrowsStep == ASSUME IInv, NEW h \in Hooks, RecoveryThrows(h) PROVE IInv'
<1>1. DataTyped'
  BY JournalGone, BudgetTyped DEF RecoveryThrows, IInv, DataTyped, env, hist
<1>2. HoldsClaim(h) /\ Idle.pc = "idle"
  BY DEF RecoveryThrows, HoldsClaim, Idle
<1> QED BY <1>1, <1>2, IdleTyped, LeavesClaim DEF RecoveryThrows, env

\* Action RecoveryDone preserves the invariant.
LEMMA RecoveryDoneStep == ASSUME IInv, NEW h \in Hooks, RecoveryDone(h) PROVE IInv'
<1>1. DataTyped'
  BY DEF RecoveryDone, IInv, DataTyped, disk, env, hist
<1>2. HoldsClaim(h) /\ Idle.pc = "idle" /\ UNCHANGED bound
  BY DEF RecoveryDone, HoldsClaim, Idle, env
<1>. DEFINE todo == {p \in Mine[h] \ foreign : bound[p] # None}
<1>3. AtNext(todo) \in HookStates(None) /\ AtNext(todo).pc = "next"
  BY NextTyped DEF AtNext, Idle
<1>4. Becomes(h, AtNext(todo)) \/ Becomes(h, Idle)
  BY DEF RecoveryDone
<1> QED BY <1>1, <1>2, <1>3, <1>4, IdleTyped, LeavesClaim

-----------------------------------------------------------------------------
(* Inside a transaction.                                                    *)

\* The journal on disk is still the one h works from.
Kept(h) ==
    LET p == hook[h].key
        j == hook[h].jr IN
    /\ journals'[p] # None
    /\ journals'[p].before = j.before /\ journals'[p].after = j.after

\* What the invariant says of a hook in a transaction.
LEMMA TransactionFacts ==
    ASSUME IInv, NEW h \in Hooks, InTransaction(h)
    PROVE  /\ HoldsClaim(h) /\ holder = h
           /\ hook[h].key \in Proposals /\ hook[h].key # None
           /\ hook[h] \in HookStates(hook[h].key)
           /\ OwnsJournal(h) /\ WindowHolds(h)
           /\ UNCHANGED journals => Kept(h)
BY StateTyped DEF IInv, Serial, HoldsClaim, HasProposal, OwnsJournal, Kept, Pending

\* A hook that stays in its transaction with the same files to undo.
LEMMA InsideTransaction ==
    ASSUME IInv, NEW h \in Hooks, InTransaction(h), NEW s \in HookStates(hook[h].key),
           Becomes(h, s), DataTyped', UNCHANGED <<bound, holder>>,
           s.pc \in Writing \cup Undoing,
           s.jr \in JournalsOf(hook[h].key),
           s.jr.before = hook[h].jr.before, s.jr.after = hook[h].jr.after, Kept(h),
           s.at \in Seq(LeafSet(hook[h].key)),
           s.pc \in {"check", "rename", "mark", "rbwrite"} => s.at # <<>>,
           s.pc = "rename" => mem'[Head(s.at)] = s.jr.before[Head(s.at)],
           s.pc = "rbwrite" => mem'[Head(s.at)] = s.jr.after[Head(s.at)]
    PROVE  IInv'
<1>1. hook'[h] = s /\ s.key = hook[h].key
  BY StateTyped DEF IInv, HookTyped, Becomes, HookStates
<1>2. OwnsJournal(h)'
  BY <1>1 DEF OwnsJournal, Kept, Pending
<1>3. WindowHolds(h)'
  BY <1>1 DEF WindowHolds
<1>4. Serial(h)'
  BY <1>1, <1>2, <1>3, TransactionFacts DEF Serial, Writing, Undoing
<1> QED BY <1>4, TransactionFacts, HookStepPreserves

\* The first state of a rollback.
LEMMA RollbackTyped ==
    ASSUME IInv, NEW h \in Hooks, NEW p \in Proposals, NEW j \in JournalsOf(p)
    PROVE  LET s == RollbackOf(h, p, j) IN
           /\ s \in HookStates(p)
           /\ s.pc = "rbleaf" /\ s.key = p /\ s.jr = j /\ s.at = RollbackOrder(p)
           /\ s.todo = hook[h].todo
<1>1. PICK k \in Proposals \cup {None} : hook[h] \in HookStates(k)
  BY DEF IInv, HookTyped
<1>2. RollbackOrder(p) \in Seq(Leaves) /\ p # None /\ j \in JournalOrNone(p)
  BY LeafOrders DEF JournalOrNone
<1> QED BY <1>1, <1>2 DEF RollbackOf, HookStates, Labels

\* The catch of an apply.
LEMMA FailStep ==
    ASSUME IInv, NEW h \in Hooks, InTransaction(h), Fail(h),
           DataTyped', UNCHANGED <<bound, holder>>, Kept(h)
    PROVE  IInv'
<1>. DEFINE p == hook[h].key
            s == RollbackOf(h, p, hook[h].jr)
<1>1. p \in Proposals /\ hook[h].jr \in JournalsOf(p)
  BY TransactionFacts DEF OwnsJournal
<1>2. /\ s \in HookStates(p)
      /\ s.pc = "rbleaf" /\ s.jr = hook[h].jr /\ s.at = RollbackOrder(p)
  BY <1>1, RollbackTyped
<1>3. s.at \in Seq(LeafSet(p))
  BY <1>1, <1>2, LeafOrders
<1>4. Becomes(h, s)
  BY DEF Fail
<1>. HIDE DEF s
<1> QED BY <1>1, <1>2, <1>3, <1>4, InsideTransaction DEF Undoing

\* Action RecoverJournal preserves the invariant.
LEMMA RecoverJournalStep ==
    ASSUME IInv, NEW h \in Hooks, NEW p \in Proposals, RecoverJournal(h, p) PROVE IInv'
<1>. DEFINE r == RollbackOf(h, p, journals[p])
            s == [r EXCEPT !.todo = @ \ {p}]
<1>1. journals[p] \in JournalsOf(p) /\ journals[p] # None
  BY DEF RecoverJournal, Pending, IInv, DataTyped, JournalOrNone
<1>2. r \in HookStates(p) /\ r.pc = "rbleaf" /\ r.key = p /\ r.jr = journals[p] /\ r.at = RollbackOrder(p)
  BY <1>1, RollbackTyped
<1>. HIDE DEF r
<1>3. /\ s \in HookStates(p)
      /\ s.pc = "rbleaf" /\ s.key = p /\ s.jr = journals[p] /\ s.at = RollbackOrder(p)
  BY <1>2 DEF HookStates
<1>4. DataTyped' /\ UNCHANGED <<journals, bound, holder>>
  BY DEF RecoverJournal, IInv, DataTyped, disk, env, hist
<1>5. HoldsClaim(h) /\ holder = h
  BY DEF RecoverJournal, IInv, Serial, HoldsClaim
<1>6. Becomes(h, s)
  BY DEF RecoverJournal, r
<1>. HIDE DEF s
<1>7. hook'[h] = s => Serial(h)'
  <2> HAVE hook'[h] = s
  <2>1. OwnsJournal(h)' /\ WindowHolds(h)'
    BY <1>1, <1>3, <1>4, LeafOrders DEF OwnsJournal, WindowHolds, Pending
  <2> QED BY <1>3, <1>4, <1>5, <2>1 DEF Serial
<1> QED BY <1>3, <1>4, <1>5, <1>6, <1>7, HookStepPreserves

\* A leaf write keeps memory well typed.
LEMMA ImageWrite ==
    ASSUME NEW m \in Memories, NEW p \in Proposals, NEW f \in ImageMaps(LeafSet(p)),
           NEW l \in LeafSet(p)
    PROVE  [m EXCEPT ![l] = f[l]] \in Memories
BY LeafOrders DEF Memories, ImageMaps

\* The file a transaction works on is one of its own.
LEMMA TransactionLeaf ==
    ASSUME IInv, NEW h \in Hooks, InTransaction(h), hook[h].at # <<>>
    PROVE  /\ Head(hook[h].at) \in LeafSet(hook[h].key)
           /\ Tail(hook[h].at) \in Seq(LeafSet(hook[h].key))
           /\ Tail(hook[h].at) \in Seq(Leaves)
           /\ hook[h].jr.before \in ImageMaps(LeafSet(hook[h].key))
           /\ hook[h].jr.after \in ImageMaps(LeafSet(hook[h].key))
<1>1. hook[h].key \in Proposals /\ hook[h].at \in Seq(LeafSet(hook[h].key))
  BY TransactionFacts DEF OwnsJournal
<1>2. hook[h].jr \in JournalsOf(hook[h].key)
  BY TransactionFacts DEF OwnsJournal
<1>. DEFINE at == hook[h].at
            S == LeafSet(hook[h].key)
<1>. HIDE DEF at, S
<1>3. at \in Seq(S) /\ at # <<>> => Head(at) \in S /\ Tail(at) \in Seq(S)
  OBVIOUS
<1> QED BY <1>1, <1>2, <1>3, LeafOrders DEF at, S, JournalsOf

\* An exception or the end of a rollback.
LEMMA AbandonStep ==
    ASSUME IInv, NEW h \in Hooks, HoldsClaim(h), Abandon(h), DataTyped', UNCHANGED bound
    PROVE  IInv'
<1>1. hook[h].todo \in SUBSET Proposals
  BY StateTyped DEF IInv, HookStates
<1>2. AtNext(hook[h].todo) \in HookStates(None) /\ AtNext(hook[h].todo).pc = "next" /\ Idle.pc = "idle"
  BY <1>1, NextTyped DEF AtNext, Idle
<1>3. Becomes(h, AtNext(hook[h].todo)) \/ Becomes(h, Idle)
  BY DEF Abandon
<1> QED BY <1>2, <1>3, IdleTyped, LeavesClaim

\* Action RollbackRefused preserves the invariant.
LEMMA RollbackRefusedStep == ASSUME IInv, NEW h \in Hooks, RollbackRefused(h) PROVE IInv'
<1>. DEFINE s == [hook[h] EXCEPT !.pc = "rbdone", !.bad = TRUE]
<1>1. InTransaction(h)
  BY DEF RollbackRefused, InTransaction, Undoing
<1>2. /\ hook[h] \in HookStates(hook[h].key) /\ hook[h].key \in Proposals /\ Kept(h)
      /\ hook[h].jr \in JournalsOf(hook[h].key) /\ hook[h].at \in Seq(LeafSet(hook[h].key))
  BY <1>1, TransactionFacts DEF OwnsJournal, RollbackRefused, disk
<1>3. DataTyped' /\ UNCHANGED <<mem, bound, holder>>
  BY BudgetTyped DEF RollbackRefused, IInv, DataTyped, disk, env, hist
<1>4. /\ s \in HookStates(hook[h].key)
      /\ s.pc = "rbdone" /\ s.jr = hook[h].jr /\ s.at = hook[h].at
  BY <1>2 DEF HookStates, Labels
<1>5. Becomes(h, s)
  BY DEF RollbackRefused
<1>. HIDE DEF s
<1> QED BY <1>1, <1>2, <1>3, <1>4, <1>5, InsideTransaction DEF Undoing

\* Action RollbackLeaf preserves the invariant.
LEMMA RollbackLeafStep == ASSUME IInv, NEW h \in Hooks, RollbackLeaf(h) PROVE IInv'
<1>1. InTransaction(h) /\ hook[h].at # <<>>
  BY DEF RollbackLeaf, InTransaction, Undoing
<1>2. /\ hook[h] \in HookStates(hook[h].key) /\ hook[h].key \in Proposals /\ Kept(h)
      /\ hook[h].jr \in JournalsOf(hook[h].key) /\ hook[h].at \in Seq(LeafSet(hook[h].key))
  BY <1>1, TransactionFacts DEF OwnsJournal, RollbackLeaf, disk
<1>3. DataTyped' /\ UNCHANGED <<mem, bound, holder>>
  BY BudgetTyped DEF RollbackLeaf, IInv, DataTyped, disk, env, hist
<1>. DEFINE l == Head(hook[h].at)
            s1 == [hook[h] EXCEPT !.at = Tail(@)]
            s2 == [hook[h] EXCEPT !.pc = "rbwrite"]
            s3 == [hook[h] EXCEPT !.at = Tail(@), !.bad = TRUE]
<1>4. \A s \in {s1, s3} : /\ s \in HookStates(hook[h].key)
                          /\ s.pc = "rbleaf" /\ s.jr = hook[h].jr /\ s.at = Tail(hook[h].at)
  <2>1. Tail(hook[h].at) \in Seq(Leaves) /\ hook[h].pc = "rbleaf"
    BY <1>1, TransactionLeaf DEF RollbackLeaf
  <2>2. s1 \in HookStates(hook[h].key) /\ s3 \in HookStates(hook[h].key)
    BY <1>2, <2>1 DEF HookStates
  <2> QED BY <1>2, <2>1, <2>2 DEF HookStates
<1>5. /\ s2 \in HookStates(hook[h].key)
      /\ s2.pc = "rbwrite" /\ s2.jr = hook[h].jr /\ s2.at = hook[h].at
  BY <1>2 DEF HookStates, Labels
<1>6. ASSUME NEW s \in {s1, s3}, Becomes(h, s) PROVE IInv'
  <2>1. s.at \in Seq(LeafSet(hook[h].key))
    BY <1>1, <1>4, TransactionLeaf
  <2> HIDE DEF s1, s3
  <2> QED BY <1>1, <1>2, <1>3, <1>4, <1>6, <2>1, InsideTransaction DEF Undoing
<1>7. CASE OurBytes(hook[h].jr, l) /\ Becomes(h, s2)
  <2> HIDE DEF s2
  <2> QED BY <1>1, <1>2, <1>3, <1>5, <1>7, InsideTransaction DEF Undoing, OurBytes
<1> QED BY <1>6, <1>7 DEF RollbackLeaf

\* Action RollbackWrite preserves the invariant.
LEMMA RollbackWriteStep == ASSUME IInv, NEW h \in Hooks, RollbackWrite(h) PROVE IInv'
<1>1. InTransaction(h)
  BY DEF RollbackWrite, InTransaction, Undoing
<1>2. /\ hook[h] \in HookStates(hook[h].key) /\ hook[h].key \in Proposals /\ Kept(h)
      /\ hook[h].jr \in JournalsOf(hook[h].key) /\ hook[h].at # <<>>
  BY <1>1, TransactionFacts DEF OwnsJournal, RollbackWrite
<1>3. mem' \in Memories /\ UNCHANGED <<bound, holder>>
  <2>. DEFINE l == Head(hook[h].at)
              f == hook[h].jr.before
  <2>1. l \in LeafSet(hook[h].key) /\ f \in ImageMaps(LeafSet(hook[h].key)) /\ mem \in Memories
    BY <1>1, <1>2, TransactionLeaf DEF IInv, DataTyped
  <2>2. [mem EXCEPT ![l] = f[l]] \in Memories
    BY <1>2, <2>1, ImageWrite
  <2> QED BY <2>1, <2>2 DEF RollbackWrite, env
<1>4. DataTyped'
  BY <1>3, BudgetTyped DEF RollbackWrite, IInv, DataTyped, env, hist
<1>5. PICK b \in BOOLEAN : Becomes(h, [hook[h] EXCEPT !.pc = "rbleaf", !.at = Tail(@), !.bad = b])
  BY <1>2 DEF RollbackWrite, HookStates
<1>. DEFINE s == [hook[h] EXCEPT !.pc = "rbleaf", !.at = Tail(@), !.bad = b]
<1>6. /\ s \in HookStates(hook[h].key)
      /\ s.pc = "rbleaf" /\ s.jr = hook[h].jr /\ s.at \in Seq(LeafSet(hook[h].key))
  BY <1>1, <1>2, TransactionLeaf DEF HookStates, Labels
<1>7. Becomes(h, s)
  BY <1>5
<1>. HIDE DEF s
<1> QED BY <1>1, <1>2, <1>3, <1>4, <1>6, <1>7, InsideTransaction DEF Undoing

\* Action RollbackLedger preserves the invariant.
LEMMA RollbackLedgerStep == ASSUME IInv, NEW h \in Hooks, RollbackLedger(h) PROVE IInv'
<1>1. InTransaction(h)
  BY DEF RollbackLedger, InTransaction, Undoing
<1>2. /\ hook[h] \in HookStates(hook[h].key) /\ hook[h].key \in Proposals /\ Kept(h)
      /\ hook[h].jr \in JournalsOf(hook[h].key) /\ hook[h].at = <<>> /\ HoldsClaim(h)
  BY <1>1, TransactionFacts DEF OwnsJournal, RollbackLedger
<1>3. ledger' \in Ledgers
  BY <1>2 DEF RollbackLedger, IInv, DataTyped, JournalsOf
<1>4. holder' \in {holder, None} /\ (Throws \/ Works) /\ UNCHANGED <<mem, journals, env, hist>>
  BY DEF RollbackLedger, Abandon
<1>5. DataTyped'
  BY <1>3, <1>4, BudgetTyped DEF IInv, DataTyped, env, hist
<1>6. CASE Abandon(h)
  BY <1>2, <1>4, <1>5, <1>6, AbandonStep DEF env
<1>7. ASSUME NEW b \in BOOLEAN, Becomes(h, [hook[h] EXCEPT !.pc = "rbdone", !.bad = b]), UNCHANGED holder
      PROVE  IInv'
  <2>. DEFINE s == [hook[h] EXCEPT !.pc = "rbdone", !.bad = b]
  <2>1. /\ s \in HookStates(hook[h].key)
        /\ s.pc = "rbdone" /\ s.jr = hook[h].jr /\ s.at \in Seq(LeafSet(hook[h].key))
    <3>1. <<>> \in Seq(LeafSet(hook[h].key))
      BY EmptySeq
    <3> QED BY <1>2, <3>1 DEF HookStates, Labels
  <2>2. Becomes(h, s)
    BY <1>7
  <2>3. UNCHANGED <<bound, holder>>
    BY <1>4, <1>7 DEF env
  <2>. HIDE DEF s
  <2> QED BY <1>1, <1>2, <1>5, <2>1, <2>2, <2>3, InsideTransaction DEF Undoing
<1>8. hook[h].bad \in BOOLEAN
  BY <1>2 DEF HookStates
<1> QED BY <1>6, <1>7, <1>8 DEF RollbackLedger

\* Action RollbackDone preserves the invariant.
LEMMA RollbackDoneStep == ASSUME IInv, NEW h \in Hooks, RollbackDone(h) PROVE IInv'
<1>1. InTransaction(h)
  BY DEF RollbackDone, InTransaction, Undoing
<1>2. hook[h] \in HookStates(hook[h].key) /\ hook[h].key \in Proposals /\ HoldsClaim(h)
  BY <1>1, TransactionFacts
<1>3. /\ journals' = [q \in Proposals |-> journals'[q]]
      /\ \A q \in Proposals : journals'[q] \in JournalOrNone(q)
  BY <1>2, JournalGone DEF RollbackDone, IInv
<1>4. holder' \in {holder, None} /\ (Throws \/ Works) /\ UNCHANGED <<mem, ledger, env, hist>>
  BY DEF RollbackDone, Abandon
<1>5. DataTyped'
  BY <1>3, <1>4, BudgetTyped DEF IInv, DataTyped, env, hist
<1>6. CASE Abandon(h)
  BY <1>2, <1>4, <1>5, <1>6, AbandonStep DEF env
<1>. DEFINE s == [hook[h] EXCEPT !.pc = "recovering", !.conf = @ \/ ~Clean(h), !.key = None, !.jr = None]
<1>7. CASE Becomes(h, s) /\ UNCHANGED holder
  <2>1. s \in HookStates(None) /\ s.pc = "recovering"
    BY <1>2 DEF HookStates, Labels
  <2>2. hook'[h] = s => Serial(h)'
    BY <1>1, <1>7, <2>1, TransactionFacts, RecoveringSerial
  <2>. HIDE DEF s
  <2> QED BY <1>2, <1>4, <1>5, <1>7, <2>1, <2>2, HookStepPreserves DEF env
<1> QED BY <1>6, <1>7 DEF RollbackDone

-----------------------------------------------------------------------------
(* The apply.                                                               *)

\* A report of a learned proposal.
LEMMA ReportStep ==
    ASSUME IInv, NEW h \in Hooks, NEW p \in Proposals, NEW todo \in SUBSET Proposals,
           Report(h, p, AtNext(todo)),
           UNCHANGED <<disk, env, holder, touched, committed, clock>>
    PROVE  IInv'
<1>1. AtNext(todo) \in HookStates(None) /\ AtNext(todo).pc = "next" /\ Idle.pc = "idle"
  BY NextTyped DEF AtNext, Idle
<1>2. DataTyped' /\ UNCHANGED <<mem, journals, bound, holder>>
  BY BudgetTyped DEF Report, IInv, DataTyped, disk, env
<1>3. Becomes(h, AtNext(todo)) \/ Becomes(h, Idle)
  BY DEF Report
<1> QED BY <1>1, <1>2, <1>3, IdleTyped, LeavesClaim

\* Action ReportOwned preserves the invariant.
LEMMA ReportOwnedStep ==
    ASSUME IInv, NEW h \in Hooks, NEW p \in Proposals, ReportOwned(h, p) PROVE IInv'
<1>1. hook[h].todo \ {p} \in SUBSET Proposals
  BY StateTyped DEF IInv, HookStates
<1> QED BY <1>1, ReportStep DEF ReportOwned

\* Action Emit preserves the invariant.
LEMMA EmitStep == ASSUME IInv, NEW h \in Hooks, Emit(h) PROVE IInv'
<1>1. hook[h].todo \in SUBSET Proposals /\ hook[h].key \in Proposals
  BY StateTyped DEF IInv, Serial, Emit, HasProposal, HookStates
<1> QED BY <1>1, ReportStep DEF Emit

\* Action Observe preserves the invariant.
LEMMA ObserveStep ==
    ASSUME IInv, NEW h \in Hooks, NEW p \in Proposals, Observe(h, p) PROVE IInv'
<1>. DEFINE n == AtNext(hook[h].todo \ {p})
            s == [n EXCEPT !.pc = "claim", !.key = p]
<1>1. n \in HookStates(None) /\ n.pc = "next" /\ n.jr = None
  <2>1. hook[h].todo \ {p} \in SUBSET Proposals
    BY StateTyped DEF IInv, HookStates
  <2> QED BY <2>1, NextTyped DEF AtNext, Idle
<1>2. DataTyped' /\ UNCHANGED <<mem, journals, bound, holder>>
  BY BudgetTyped DEF Observe, IInv, DataTyped, disk, env, hist
<1>. HIDE DEF n
<1>3. s \in HookStates(p) /\ s.pc = "claim" /\ s.key = p
  BY <1>1 DEF HookStates, Labels, JournalOrNone
<1>4. CASE Becomes(h, n)
  BY <1>1, <1>2, <1>4, LeavesClaim
<1>5. CASE Becomes(h, s)
  <2>1. hook'[h] = s => Serial(h)'
    BY <1>3 DEF Serial, HasProposal, HoldsClaim, InTransaction, Writing, Undoing
  <2>. HIDE DEF s
  <2> QED BY <1>2, <1>3, <1>5, <2>1, HookStepPreserves
<1>6. CASE Becomes(h, Idle)
  BY <1>2, <1>6, IdleTyped, LeavesClaim DEF Idle
<1> QED BY <1>4, <1>5, <1>6 DEF Observe, n

\* Action HookDone preserves the invariant.
LEMMA HookDoneStep == ASSUME IInv, NEW h \in Hooks, HookDone(h) PROVE IInv'
<1>1. DataTyped' /\ UNCHANGED <<mem, journals, bound, holder>> /\ Idle.pc = "idle"
  BY DEF HookDone, IInv, DataTyped, disk, env, hist, Idle
<1> QED BY <1>1, IdleTyped, LeavesClaim DEF HookDone

\* Action ClaimForApply preserves the invariant.
LEMMA ClaimForApplyStep == ASSUME IInv, NEW h \in Hooks, ClaimForApply(h) PROVE IInv'
<1>. DEFINE s == [hook[h] EXCEPT !.pc = "plan"]
            n == AtNext(hook[h].todo)
<1>1. /\ hook[h] \in HookStates(hook[h].key) /\ hook[h].key \in Proposals
      /\ hook[h].todo \in SUBSET Proposals
  BY StateTyped DEF IInv, Serial, ClaimForApply, HasProposal, HookStates
<1>2. DataTyped' /\ UNCHANGED <<mem, journals, bound>>
  BY DEF ClaimForApply, IInv, DataTyped, disk, env, hist
<1>3. CASE ClaimFree(h) /\ holder' = h /\ Becomes(h, s)
  <2>1. s \in HookStates(hook[h].key) /\ s.pc = "plan" /\ s.key = hook[h].key
    BY <1>1 DEF HookStates, Labels
  <2>2. hook'[h] = s => Serial(h)'
    BY <1>1, <1>3, <2>1 DEF Serial, HasProposal, HoldsClaim, InTransaction, Writing, Undoing
  <2>. HIDE DEF s
  <2> QED BY <1>1, <1>2, <1>3, <2>1, <2>2, HookStepPreserves DEF ClaimFree
<1>4. CASE Becomes(h, n) /\ UNCHANGED holder
  <2>1. n \in HookStates(None) /\ n.pc = "next"
    BY <1>1, NextTyped DEF AtNext, Idle
  <2>. HIDE DEF n
  <2> QED BY <1>2, <1>4, <2>1, LeavesClaim
<1> QED BY <1>3, <1>4 DEF ClaimForApply

\* A proposal that is not applied.
LEMMA RejectStep ==
    ASSUME IInv, NEW h \in Hooks, HoldsClaim(h), Reject(h), DataTyped', UNCHANGED bound
    PROVE  IInv'
<1>1. AtNext(hook[h].todo) \in HookStates(None) /\ AtNext(hook[h].todo).pc = "next"
  <2>1. hook[h].todo \in SUBSET Proposals
    BY StateTyped DEF IInv, HookStates
  <2> QED BY <2>1, NextTyped DEF AtNext, Idle
<1> QED BY <1>1, LeavesClaim DEF Reject

\* Action DropCommitted preserves the invariant.
LEMMA DropCommittedStep == ASSUME IInv, NEW h \in Hooks, DropCommitted(h) PROVE IInv'
<1>1. HoldsClaim(h) /\ hook[h].key \in Proposals /\ ~InTransaction(h)
  BY DEF DropCommitted, IInv, Serial, HoldsClaim, HasProposal, InTransaction, Writing, Undoing
<1>2. DataTyped' /\ UNCHANGED <<mem, bound>>
  <2>1. /\ journals' = [q \in Proposals |-> journals'[q]]
        /\ \A q \in Proposals : journals'[q] \in JournalOrNone(q)
    BY <1>1, JournalGone DEF DropCommitted, IInv
  <2>2. /\ holder' \in {holder, None} /\ (Throws \/ Works)
        /\ UNCHANGED <<mem, ledger, env, hist>>
    BY DEF DropCommitted, Reject
  <2> QED BY <2>1, <2>2, BudgetTyped DEF IInv, DataTyped, env, hist
<1>3. CASE Reject(h)
  BY <1>1, <1>2, <1>3, RejectStep
<1>4. CASE UNCHANGED <<hook, holder>>
  <2>1. \A g \in Hooks \ {h} : Serial(g)'
    BY <1>1, <1>2, <1>4, Others
  <2>2. Serial(h)'
    BY <1>1, <1>2, <1>4 DEF IInv, Serial, HasProposal, HoldsClaim, InTransaction
  <2>3. HookTyped'
    BY <1>4 DEF IInv, HookTyped
  <2> QED BY <1>2, <2>1, <2>2, <2>3 DEF IInv
<1> QED BY <1>3, <1>4 DEF DropCommitted

\* Action Plan preserves the invariant.
LEMMA PlanStep == ASSUME IInv, NEW h \in Hooks, Plan(h) PROVE IInv'
<1>. DEFINE p == hook[h].key
            e == [hook[h] EXCEPT !.pc = "emit"]
            r == [hook[h] EXCEPT !.pc = "prepare"]
<1>1. /\ HoldsClaim(h) /\ holder = h /\ p \in Proposals /\ hook[h] \in HookStates(p)
  BY StateTyped DEF Plan, IInv, Serial, HoldsClaim, HasProposal
<1>2. DataTyped' /\ UNCHANGED <<mem, journals, bound>>
  BY <1>1, BudgetTyped DEF Plan, Reject, IInv, DataTyped, disk, env, hist
<1>3. CASE Reject(h)
  BY <1>1, <1>2, <1>3, RejectStep
<1>4. CASE holder' = None /\ Becomes(h, e)
  <2>1. e \in HookStates(p) /\ e.pc = "emit" /\ e.key = p
    BY <1>1 DEF HookStates, Labels
  <2>2. hook'[h] = e => Serial(h)'
    BY <1>1, <2>1 DEF Serial, HasProposal, HoldsClaim, InTransaction, Writing, Undoing
  <2>. HIDE DEF e
  <2> QED BY <1>1, <1>2, <1>4, <2>1, <2>2, HookStepPreserves
<1>5. CASE ObservationCurrent(p) /\ Becomes(h, r) /\ UNCHANGED holder
  <2>1. r \in HookStates(p) /\ r.pc = "prepare" /\ r.key = p
    BY <1>1 DEF HookStates, Labels
  <2>2. bound'[p] \in Memories
    BY <1>2, <1>5 DEF ObservationCurrent, IInv, DataTyped
  <2>3. hook'[h] = r => Serial(h)'
    BY <1>1, <1>5, <2>1, <2>2 DEF Serial, HasProposal, HoldsClaim, InTransaction, Writing, Undoing
  <2>. HIDE DEF r
  <2> QED BY <1>1, <1>2, <1>5, <2>1, <2>3, HookStepPreserves
<1> QED BY <1>3, <1>4, <1>5 DEF Plan

\* A prepared journal is well formed.
LEMMA NewJournalTyped ==
    ASSUME IInv, NEW p \in Proposals, bound[p] \in Memories
    PROVE  NewJournal(p) \in JournalsOf(p)
<1>. DEFINE S == LeafSet(p)
            before == [l \in S |-> IF l = Index THEN mem[Index] ELSE bound[p][l]]
            after == [l \in S |-> IF l = Index THEN IndexAfter(p) ELSE BodyOf[p]]
            ledgerAfter == [ledger EXCEPT ![TopicOf[p]] = Entry(p)]
<1>1. \A l \in S : l \in Leaves
  BY LeafOrders
<1>2. \A m \in Memories : \A l \in Leaves : m[l] \in Images /\ m[l] \in ImagesOf(l)
  BY DEF Memories, ImageMaps
<1>3. mem \in Memories /\ ledger \in Ledgers
  BY DEF IInv, DataTyped
<1>4. Index \in Leaves
  BY DEF Leaves
<1>5. before \in ImageMaps(S)
  BY <1>1, <1>2, <1>3, <1>4 DEF ImageMaps
<1>6. IndexAfter(p) \in Images /\ IndexAfter(p) \in ImagesOf(Index)
  <2>1. mem[Index] \in {Absent} \cup Seq(Topics \cup {ExtLine})
    BY <1>2, <1>3, <1>4 DEF ImagesOf
  <2>2. TopicOf[p] \in Topics \cup {ExtLine}
    OBVIOUS
  <2>3. IndexAfter(p) \in {Absent} \cup Seq(Topics \cup {ExtLine})
    BY <2>1, <2>2 DEF IndexAfter
  <2> QED BY <2>3 DEF Images, ImagesOf
<1>7. BodyOf[p] \in Images /\ \A l \in S \ {Index} : BodyOf[p] \in ImagesOf(l)
  BY DEF Images, ImagesOf
<1>8. after \in ImageMaps(S)
  BY <1>6, <1>7 DEF ImageMaps
<1>9. ledgerAfter \in Ledgers
  <2>1. Entry(p) \in Entries
    <3>1. clock + 1 \in Nat
      BY DEF IInv, DataTyped
    <3> QED BY <3>1 DEF Entries, Entry
  <2> QED BY <1>3, <2>1 DEF Ledgers
<1>10. NewJournal(p) = [phase |-> "prepared", before |-> before, after |-> after,
                        ledgerBefore |-> ledger, ledgerAfter |-> ledgerAfter]
  BY DEF NewJournal
<1>. HIDE DEF before, after, ledgerAfter
<1> QED BY <1>3, <1>5, <1>8, <1>9, <1>10 DEF JournalsOf, Phases

\* Writing one journal keeps the others.
LEMMA JournalWritten ==
    ASSUME DataTyped, NEW p \in Proposals, NEW j \in JournalsOf(p),
           journals' = journals \/ journals' = [journals EXCEPT ![p] = j]
    PROVE  /\ journals' = [q \in Proposals |-> journals'[q]]
           /\ \A q \in Proposals : journals'[q] \in JournalOrNone(q)
BY DEF DataTyped, JournalOrNone

\* Action Prepare preserves the invariant.
LEMMA PrepareStep == ASSUME IInv, NEW h \in Hooks, Prepare(h) PROVE IInv'
<1>. DEFINE p == hook[h].key
            j == NewJournal(p)
            s == [hook[h] EXCEPT !.pc = "check", !.jr = j, !.at = LeavesOf(p)]
<1>1. /\ HoldsClaim(h) /\ holder = h /\ p \in Proposals /\ hook[h] \in HookStates(p)
      /\ bound[p] \in Memories
  BY StateTyped DEF Prepare, IInv, Serial, HoldsClaim, HasProposal
<1>2. j \in JournalsOf(p)
  BY <1>1, NewJournalTyped
<1>. HIDE DEF j
<1>3. /\ journals' \in {journals, [journals EXCEPT ![p] = j]}
      /\ UNCHANGED <<mem, ledger, env, touched, committed, emitted>>
  BY DEF Prepare, j
<1>4. DataTyped'
  <2>1. /\ journals' = [q \in Proposals |-> journals'[q]]
        /\ \A q \in Proposals : journals'[q] \in JournalOrNone(q)
    BY <1>1, <1>2, <1>3, JournalWritten DEF IInv
  <2>2. holder' \in {holder, None} /\ (Throws \/ Works)
    BY DEF Prepare, Reject
  <2>3. clock' \in Nat
    BY DEF Prepare, IInv, DataTyped
  <2> QED BY <1>3, <2>1, <2>2, <2>3, BudgetTyped DEF IInv, DataTyped, env
<1>5. CASE Reject(h)
  BY <1>1, <1>3, <1>4, <1>5, RejectStep DEF env
<1>6. CASE journals' = [journals EXCEPT ![p] = j] /\ Becomes(h, s) /\ UNCHANGED holder
  <2>1. LeavesOf(p) \in Seq(LeafSet(p)) /\ LeavesOf(p) \in Seq(Leaves) /\ LeavesOf(p) # <<>>
    BY <1>1, LeafOrders
  <2>2. /\ s \in HookStates(p)
        /\ s.pc = "check" /\ s.key = p /\ s.jr = j /\ s.at = LeavesOf(p)
    BY <1>1, <1>2, <2>1 DEF HookStates, Labels, JournalOrNone
  <2>3. journals'[p] = j /\ j # None
    BY <1>1, <1>2, <1>6 DEF IInv, DataTyped
  <2>. HIDE DEF s
  <2>4. hook'[h] = s => Serial(h)'
    <3> HAVE hook'[h] = s
    <3>1. OwnsJournal(h)' /\ WindowHolds(h)'
      BY <1>2, <2>1, <2>2, <2>3 DEF OwnsJournal, WindowHolds, Pending
    <3> QED BY <1>1, <1>6, <2>2, <3>1 DEF Serial
  <2> QED BY <1>1, <1>3, <1>4, <1>6, <2>2, <2>4, HookStepPreserves DEF env
<1> QED BY <1>5, <1>6 DEF Prepare, j

\* Action CheckLeaf preserves the invariant.
LEMMA CheckLeafStep == ASSUME IInv, NEW h \in Hooks, CheckLeaf(h) PROVE IInv'
<1>. DEFINE l == Head(hook[h].at)
            s == [hook[h] EXCEPT !.pc = "rename"]
<1>1. InTransaction(h)
  BY DEF CheckLeaf, InTransaction, Writing
<1>2. /\ hook[h] \in HookStates(hook[h].key) /\ hook[h].key \in Proposals /\ Kept(h)
      /\ hook[h].jr \in JournalsOf(hook[h].key)
      /\ hook[h].at \in Seq(LeafSet(hook[h].key)) /\ hook[h].at # <<>>
  BY <1>1, TransactionFacts DEF OwnsJournal, CheckLeaf, disk
<1>3. DataTyped' /\ UNCHANGED <<mem, bound, holder>>
  BY <1>2, BudgetTyped DEF CheckLeaf, IInv, DataTyped, disk, env
<1>4. CASE Fail(h)
  BY <1>1, <1>2, <1>3, <1>4, FailStep
<1>5. CASE mem[l] = hook[h].jr.before[l] /\ Becomes(h, s)
  <2>1. /\ s \in HookStates(hook[h].key)
        /\ s.pc = "rename" /\ s.jr = hook[h].jr /\ s.at = hook[h].at
    BY <1>2 DEF HookStates, Labels
  <2>. HIDE DEF s
  <2> QED BY <1>1, <1>2, <1>3, <1>5, <2>1, InsideTransaction DEF Writing
<1> QED BY <1>4, <1>5 DEF CheckLeaf

\* Action RenameLeaf preserves the invariant.
LEMMA RenameLeafStep == ASSUME IInv, NEW h \in Hooks, RenameLeaf(h) PROVE IInv'
<1>. DEFINE l == Head(hook[h].at)
            f == hook[h].jr.after
            s == [hook[h] EXCEPT !.pc = "mark"]
<1>1. InTransaction(h)
  BY DEF RenameLeaf, InTransaction, Writing
<1>2. /\ hook[h] \in HookStates(hook[h].key) /\ hook[h].key \in Proposals /\ Kept(h)
      /\ hook[h].jr \in JournalsOf(hook[h].key)
      /\ hook[h].at \in Seq(LeafSet(hook[h].key)) /\ hook[h].at # <<>>
  BY <1>1, TransactionFacts DEF OwnsJournal, RenameLeaf
<1>3. mem' \in Memories
  <2>1. l \in LeafSet(hook[h].key) /\ f \in ImageMaps(LeafSet(hook[h].key)) /\ mem \in Memories
    BY <1>1, <1>2, TransactionLeaf DEF IInv, DataTyped
  <2>2. [mem EXCEPT ![l] = f[l]] \in Memories
    BY <1>2, <2>1, ImageWrite
  <2> QED BY <2>1, <2>2 DEF RenameLeaf
<1>4. DataTyped' /\ UNCHANGED <<bound, holder>>
  BY <1>3, BudgetTyped DEF RenameLeaf, IInv, DataTyped, env, hist
<1>5. CASE Fail(h)
  BY <1>1, <1>2, <1>4, <1>5, FailStep
<1>6. CASE Becomes(h, s)
  <2>1. /\ s \in HookStates(hook[h].key)
        /\ s.pc = "mark" /\ s.jr = hook[h].jr /\ s.at = hook[h].at
    BY <1>2 DEF HookStates, Labels
  <2>. HIDE DEF s
  <2> QED BY <1>1, <1>2, <1>4, <1>6, <2>1, InsideTransaction DEF Writing
<1> QED BY <1>5, <1>6 DEF RenameLeaf

\* A journal with another phase replaces the one on disk.
LEMMA PhaseWritten ==
    ASSUME IInv, NEW h \in Hooks, InTransaction(h), NEW phase \in Phases,
           NEW j, j = [hook[h].jr EXCEPT !.phase = phase],
           journals' \in {journals, [journals EXCEPT ![hook[h].key] = j]}
    PROVE  /\ j \in JournalsOf(hook[h].key)
           /\ j.before = hook[h].jr.before /\ j.after = hook[h].jr.after
           /\ Kept(h)
           /\ journals' = [q \in Proposals |-> journals'[q]]
           /\ \A q \in Proposals : journals'[q] \in JournalOrNone(q)
<1>. DEFINE p == hook[h].key
<1>1. p \in Proposals /\ hook[h].jr \in JournalsOf(p) /\ (UNCHANGED journals => Kept(h))
  BY TransactionFacts DEF OwnsJournal
<1>2. /\ j \in JournalsOf(p) /\ j # None
      /\ j.before = hook[h].jr.before /\ j.after = hook[h].jr.after
  BY <1>1 DEF JournalsOf
<1>3. CASE UNCHANGED journals
  BY <1>1, <1>2, <1>3, JournalWritten DEF IInv
<1>4. CASE journals' = [journals EXCEPT ![p] = j]
  <2>1. journals'[p] = j
    BY <1>1, <1>4 DEF IInv, DataTyped
  <2> QED BY <1>1, <1>2, <1>4, <2>1, JournalWritten DEF IInv, Kept
<1> QED BY <1>3, <1>4

\* A write of the journal's next phase, done or failed.
LEMMA AdvanceStep ==
    ASSUME IInv, NEW h \in Hooks, InTransaction(h), NEW phase \in Phases,
           NEW pc \in {"check", "ledger", "commit"}, NEW rest \in Seq(LeafSet(hook[h].key)),
           pc = "check" => rest # <<>>,
           Advance(h, phase, pc, rest),
           UNCHANGED <<mem, ledger, env, holder, hist>>
    PROVE  IInv'
<1>. DEFINE j == [hook[h].jr EXCEPT !.phase = phase]
            s == [hook[h] EXCEPT !.pc = pc, !.jr = j, !.at = rest]
<1>1. hook[h].key \in Proposals /\ hook[h] \in HookStates(hook[h].key)
  BY TransactionFacts
<1>2. journals' \in {journals, [journals EXCEPT ![hook[h].key] = j]} /\ (Throws \/ Works)
  BY DEF Advance
<1>3. /\ j \in JournalsOf(hook[h].key)
      /\ j.before = hook[h].jr.before /\ j.after = hook[h].jr.after
      /\ Kept(h)
      /\ journals' = [q \in Proposals |-> journals'[q]]
      /\ \A q \in Proposals : journals'[q] \in JournalOrNone(q)
  BY <1>2, PhaseWritten
<1>4. DataTyped' /\ UNCHANGED <<bound, holder>>
  BY <1>2, <1>3, BudgetTyped DEF IInv, DataTyped, env, hist
<1>5. CASE Fail(h)
  BY <1>3, <1>4, <1>5, FailStep
<1>. HIDE DEF j
<1>6. CASE Becomes(h, s)
  <2>1. rest \in Seq(Leaves)
    BY <1>1, LeafOrders
  <2>2. /\ s \in HookStates(hook[h].key) /\ s.pc = pc /\ s.jr = j /\ s.at = rest
    BY <1>1, <1>3, <2>1 DEF HookStates, Labels, JournalOrNone
  <2>. HIDE DEF s
  <2> QED BY <1>3, <1>4, <1>6, <2>2, InsideTransaction DEF Writing
<1> QED BY <1>5, <1>6 DEF Advance, j

\* Action MarkLeaf preserves the invariant.
LEMMA MarkLeafStep == ASSUME IInv, NEW h \in Hooks, MarkLeaf(h) PROVE IInv'
<1>1. InTransaction(h)
  BY DEF MarkLeaf, InTransaction, Writing
<1>2. hook[h].at # <<>>
  BY <1>1, TransactionFacts DEF OwnsJournal, MarkLeaf
<1>3. Tail(hook[h].at) \in Seq(LeafSet(hook[h].key))
  BY <1>1, <1>2, TransactionLeaf
<1>4. PICK phase \in Phases, pc \in {"check", "ledger", "commit"}, rest \in Seq(LeafSet(hook[h].key)) :
        /\ pc = "check" => rest # <<>>
        /\ Advance(h, phase, pc, rest)
  <2>. DEFINE phase == IF Head(hook[h].at) = Index THEN "index_applied" ELSE "topic_applied"
              pc == IF Tail(hook[h].at) = <<>> THEN "ledger" ELSE "check"
              rest == Tail(hook[h].at)
  <2>1. phase \in Phases /\ pc \in {"check", "ledger", "commit"} /\ (pc = "check" => rest # <<>>)
    BY DEF Phases
  <2>2. Advance(h, phase, pc, rest)
    BY DEF MarkLeaf
  <2> QED BY <1>3, <2>1, <2>2
<1> QED BY <1>1, <1>4, AdvanceStep DEF MarkLeaf

\* Action MarkLedger preserves the invariant.
LEMMA MarkLedgerStep == ASSUME IInv, NEW h \in Hooks, MarkLedger(h) PROVE IInv'
<1>1. InTransaction(h)
  BY DEF MarkLedger, InTransaction, Writing
<1>2. <<>> \in Seq(LeafSet(hook[h].key)) /\ "ledger_applied" \in Phases
  BY EmptySeq DEF Phases
<1> QED BY <1>1, <1>2, AdvanceStep DEF MarkLedger

\* Action WriteLedger preserves the invariant.
LEMMA WriteLedgerStep == ASSUME IInv, NEW h \in Hooks, WriteLedger(h) PROVE IInv'
<1>. DEFINE s == [hook[h] EXCEPT !.pc = "markledger"]
<1>1. InTransaction(h)
  BY DEF WriteLedger, InTransaction, Writing
<1>2. /\ hook[h] \in HookStates(hook[h].key) /\ hook[h].key \in Proposals /\ Kept(h)
      /\ hook[h].jr \in JournalsOf(hook[h].key) /\ hook[h].at \in Seq(LeafSet(hook[h].key))
  BY <1>1, TransactionFacts DEF OwnsJournal, WriteLedger
<1>3. ledger' \in Ledgers
  BY <1>2 DEF WriteLedger, IInv, DataTyped, JournalsOf
<1>4. DataTyped' /\ UNCHANGED <<mem, bound, holder>>
  BY <1>3, BudgetTyped DEF WriteLedger, IInv, DataTyped, env, hist
<1>5. CASE Fail(h)
  BY <1>1, <1>2, <1>4, <1>5, FailStep
<1>6. CASE Becomes(h, s)
  <2>1. /\ s \in HookStates(hook[h].key)
        /\ s.pc = "markledger" /\ s.jr = hook[h].jr /\ s.at = hook[h].at
    BY <1>2 DEF HookStates, Labels
  <2>. HIDE DEF s
  <2> QED BY <1>1, <1>2, <1>4, <1>6, <2>1, InsideTransaction DEF Writing
<1> QED BY <1>5, <1>6 DEF WriteLedger

\* Action Commit preserves the invariant.
LEMMA CommitStep == ASSUME IInv, NEW h \in Hooks, Commit(h) PROVE IInv'
<1>. DEFINE p == hook[h].key
            j == [hook[h].jr EXCEPT !.phase = "committed"]
            s == [hook[h] EXCEPT !.pc = "cleanup", !.jr = j]
<1>1. InTransaction(h)
  BY DEF Commit, InTransaction, Writing
<1>2. p \in Proposals /\ hook[h] \in HookStates(p) /\ HoldsClaim(h) /\ holder = h
  BY <1>1, TransactionFacts
<1>3. /\ journals' \in {journals, [journals EXCEPT ![p] = j]} /\ (Throws \/ Works)
      /\ committed' \in {committed, committed \cup {p}}
      /\ UNCHANGED <<mem, ledger, env, holder, touched, emitted, clock>>
  BY DEF Commit
<1>4. /\ j \in JournalsOf(p) /\ Kept(h)
      /\ journals' = [q \in Proposals |-> journals'[q]]
      /\ \A q \in Proposals : journals'[q] \in JournalOrNone(q)
  BY <1>1, <1>3, PhaseWritten DEF Phases
<1>5. DataTyped' /\ UNCHANGED <<bound, holder>>
  BY <1>2, <1>3, <1>4, BudgetTyped DEF IInv, DataTyped, env
<1>6. CASE Fail(h)
  BY <1>1, <1>4, <1>5, <1>6, FailStep
<1>. HIDE DEF j
<1>7. CASE Becomes(h, s)
  <2>1. s \in HookStates(p) /\ s.pc = "cleanup" /\ s.key = p
    BY <1>2, <1>4 DEF HookStates, Labels, JournalOrNone
  <2>2. hook'[h] = s => Serial(h)'
    BY <1>2, <1>5, <2>1 DEF Serial, HasProposal, HoldsClaim, InTransaction, Writing, Undoing
  <2>. HIDE DEF s
  <2> QED BY <1>2, <1>5, <1>7, <2>1, <2>2, HookStepPreserves
<1> QED BY <1>6, <1>7 DEF Commit, j

\* Action Cleanup preserves the invariant.
LEMMA CleanupStep == ASSUME IInv, NEW h \in Hooks, Cleanup(h) PROVE IInv'
<1>. DEFINE p == hook[h].key
            s == [hook[h] EXCEPT !.pc = "emit", !.jr = None, !.todo = {}]
<1>1. HoldsClaim(h) /\ p \in Proposals /\ hook[h] \in HookStates(p)
  BY StateTyped DEF Cleanup, IInv, Serial, HoldsClaim, HasProposal
<1>2. /\ journals' = journals \/ journals' = [journals EXCEPT ![p] = None]
      /\ Throws \/ Works
      /\ holder' = None /\ Becomes(h, s) /\ UNCHANGED <<mem, ledger, env, hist>>
  BY DEF Cleanup
<1>3. DataTyped' /\ UNCHANGED bound
  BY <1>1, <1>2, JournalGone, BudgetTyped DEF IInv, DataTyped, env, hist
<1>4. s \in HookStates(p) /\ s.pc = "emit" /\ s.key = p
  BY <1>1 DEF HookStates, Labels, JournalOrNone
<1>5. hook'[h] = s => Serial(h)'
  BY <1>1, <1>4 DEF Serial, HasProposal, HoldsClaim, InTransaction, Writing, Undoing
<1>. HIDE DEF s
<1> QED BY <1>1, <1>2, <1>3, <1>4, <1>5, HookStepPreserves

-----------------------------------------------------------------------------
(* The environment.                                                         *)

\* Action Review preserves the invariant.
LEMMA ReviewStep == ASSUME IInv, NEW p \in Proposals, Review(p) PROVE IInv'
<1>1. DataTyped' /\ UNCHANGED <<mem, journals, hook, holder>>
  BY DEF Review, IInv, DataTyped, disk, hist
<1>2. \A q \in Proposals : bound[q] \in Memories => bound'[q] \in Memories
  BY DEF Review, IInv, DataTyped
<1>3. ASSUME NEW h \in Hooks PROVE Serial(h)'
  <2>1. UNCHANGED <<HoldsClaim(h), HasProposal(h), InTransaction(h), OwnsJournal(h), WindowHolds(h)>>
    BY <1>1 DEF HoldsClaim, HasProposal, InTransaction, OwnsJournal, WindowHolds, Pending
  <2>2. hook[h].pc = "prepare" => HasProposal(h)
    BY DEF HasProposal
  <2> QED BY <1>1, <1>2, <2>1, <2>2 DEF IInv, Serial
<1> QED BY <1>1, <1>3 DEF IInv, HookTyped

\* Action Edit preserves the invariant.
LEMMA EditStep == ASSUME IInv, NEW l \in Leaves, Edit(l) PROVE IInv'
<1>1. PICK c \in ExtImages(l) : mem' = [mem EXCEPT ![l] = c]
  BY DEF Edit
<1>2. c \in Images /\ c \in ImagesOf(l)
  <2>1. CASE l = Index
    <3>1. mem[Index] \in {Absent} \cup Seq(Topics \cup {ExtLine})
      BY DEF IInv, DataTyped, Memories, ImageMaps, ImagesOf, Leaves
    <3>2. ExtLine \in Topics \cup {ExtLine} /\ <<ExtLine>> \in Seq(Topics \cup {ExtLine})
      OBVIOUS
    <3>3. mem[Index] # Absent => Append(mem[Index], ExtLine) \in Seq(Topics \cup {ExtLine})
      BY <3>1, <3>2
    <3>4. c \in {Absent, IF mem[Index] = Absent THEN <<ExtLine>> ELSE Append(mem[Index], ExtLine)}
      BY <1>1, <2>1 DEF ExtImages
    <3>5. c \in {Absent} \cup Seq(Topics \cup {ExtLine})
      BY <3>2, <3>3, <3>4
    <3> QED BY <2>1, <3>5 DEF Images, ImagesOf
  <2>2. CASE l # Index
    BY <1>1, <2>2 DEF ExtImages, Images, ImagesOf
  <2> QED BY <2>1, <2>2
<1>3. mem' \in Memories
  BY <1>1, <1>2 DEF IInv, DataTyped, Memories, ImageMaps
<1>4. touched' \in [Proposals -> SUBSET Leaves] /\ budget' \in [ext : Nat, fault : Nat, crash : Nat]
  BY DEF Edit, IInv, DataTyped
<1>5. DataTyped' /\ UNCHANGED <<journals, bound, hook, holder>>
  BY <1>3, <1>4 DEF Edit, IInv, DataTyped, env
<1>6. ASSUME NEW h \in Hooks PROVE Serial(h)'
  <2>1. UNCHANGED <<HoldsClaim(h), HasProposal(h), InTransaction(h), OwnsJournal(h)>>
    BY <1>5 DEF HoldsClaim, HasProposal, InTransaction, OwnsJournal, Pending
  <2>2. ASSUME InTransaction(h) PROVE WindowHolds(h)'
    <3> SUFFICES ASSUME ~WindowWrites, hook[h].pc \in {"rename", "rbwrite"}
                 PROVE  WindowHolds(h)'
      BY <1>5 DEF WindowHolds
    <3>1. hook[h].at # <<>> /\ Head(hook[h].at) \in Leaves
      BY <2>2, TransactionFacts, TransactionLeaf, LeafOrders DEF OwnsJournal
    <3>2. Head(hook[h].at) # l
      BY <3>1 DEF Edit, InWindow
    <3>3. mem'[Head(hook[h].at)] = mem[Head(hook[h].at)]
      BY <1>1, <3>1, <3>2 DEF IInv, DataTyped, Memories, ImageMaps
    <3> QED BY <1>5, <2>2, <3>3, TransactionFacts DEF WindowHolds
  <2> QED BY <1>5, <2>1, <2>2 DEF IInv, Serial
<1> QED BY <1>5, <1>6 DEF IInv, HookTyped

\* Action Deploy preserves the invariant.
LEMMA DeployStep == ASSUME IInv, Deploy PROVE IInv'
<1>1. DataTyped' /\ UNCHANGED <<mem, journals, bound, hook, holder>>
  BY DEF Deploy, IInv, DataTyped, disk, hist
<1>2. ASSUME NEW h \in Hooks PROVE Serial(h)'
  BY <1>1 DEF IInv, Serial, HoldsClaim, HasProposal, InTransaction, OwnsJournal, WindowHolds, Pending
<1> QED BY <1>1, <1>2 DEF IInv, HookTyped

-----------------------------------------------------------------------------
(* The theorems.                                                            *)

\* The initial state satisfies the invariant.
LEMMA InitialState == Init => IInv
<1>. SUFFICES ASSUME Init PROVE IInv
  OBVIOUS
<1>1. DataTyped
  BY InitialAssumption DEF Init, DataTyped, JournalOrNone
<1>2. HookTyped
  BY IdleTyped DEF Init, HookTyped
<1>3. \A h \in Hooks : Serial(h)
  BY DEF Init, Idle, Serial, HasProposal, HoldsClaim, InTransaction, Writing, Undoing
<1> QED BY <1>1, <1>2, <1>3 DEF IInv

\* Every step preserves the invariant.
LEMMA NextPreserves == IInv /\ [Next]_vars => IInv'
<1>. SUFFICES ASSUME IInv, [Next]_vars PROVE IInv'
  OBVIOUS
<1>1. CASE UNCHANGED vars
  BY <1>1 DEF vars, IInv, DataTyped, HookTyped, Serial, HoldsClaim, HasProposal, InTransaction,
              OwnsJournal, WindowHolds, Pending
<1>2. ASSUME NEW h \in Hooks, Recovery(h) PROVE IInv'
  BY <1>2, ClaimForRecoveryStep, RecoveryThrowsStep, RecoveryDoneStep, SkipJournalStep,
     RemoveCommittedStep, RecoverJournalStep DEF Recovery
<1>3. ASSUME NEW h \in Hooks, Rollback(h) PROVE IInv'
  BY <1>3, RollbackRefusedStep, RollbackLeafStep, RollbackWriteStep, RollbackLedgerStep,
     RollbackDoneStep DEF Rollback
<1>4. ASSUME NEW h \in Hooks, Apply(h) PROVE IInv'
  BY <1>4, ReportOwnedStep, ObserveStep, HookDoneStep, ClaimForApplyStep, DropCommittedStep,
     PlanStep, PrepareStep, CheckLeafStep, RenameLeafStep, MarkLeafStep, WriteLedgerStep,
     MarkLedgerStep, CommitStep, CleanupStep, EmitStep DEF Apply
<1> QED BY <1>1, <1>2, <1>3, <1>4, ReviewStep, EditStep, DeployStep, StopStep, CrashStep
        DEF Next, HookStep

\* Every variable keeps its type, whatever the interleaving and the failures.
THEOREM TypeCorrect == Spec => []TypeOK
<1>1. IInv => TypeOK
  BY IInvSplit
<1> QED BY <1>1, InitialState, NextPreserves, PTL DEF Spec

\* Transactions are serial over all sessions.
THEOREM Serialised == Spec => []TransactionsAreSerial
<1>1. IInv => TransactionsAreSerial
  BY IInvSplit
<1> QED BY <1>1, InitialState, NextPreserves, PTL DEF Spec

\* Only RenameLeaf, RollbackWrite and Edit change a file.
LEMMA JournalledStep ==
    ASSUME ~WindowWrites, IInv, [Next]_vars
    PROVE  JournalledWrite \/ UNCHANGED vars
<1>1. CASE UNCHANGED mem
  BY <1>1 DEF JournalledWrite
<1>2. ASSUME NEW l \in Leaves, Edit(l) PROVE budget'.ext # budget.ext
  BY <1>2 DEF Edit, IInv, DataTyped
<1>3. ASSUME NEW h \in Hooks, RenameLeaf(h) \/ RollbackWrite(h), NEW l \in Leaves, mem'[l] # mem[l]
      PROVE  /\ Pending(hook[h].key) /\ l \in LeafSet(hook[h].key) /\ hook[h].key \in Proposals
             /\ {mem[l], mem'[l]} = {journals[hook[h].key].before[l], journals[hook[h].key].after[l]}
  <2>1. InTransaction(h) /\ hook[h].pc \in {"rename", "rbwrite"}
    BY <1>3 DEF RenameLeaf, RollbackWrite, InTransaction, Writing, Undoing
  <2>2. OwnsJournal(h) /\ WindowHolds(h) /\ hook[h].key \in Proposals /\ hook[h].at # <<>>
    BY <2>1, TransactionFacts DEF OwnsJournal
  <2>3. Head(hook[h].at) \in LeafSet(hook[h].key)
    BY <2>1, <2>2, TransactionLeaf
  <2>4. l = Head(hook[h].at)
    BY <1>3 DEF RenameLeaf, RollbackWrite, IInv, DataTyped, Memories, ImageMaps
  <2>5. mem \in [Leaves -> Images]
    BY DEF IInv, DataTyped, Memories, ImageMaps
  <2>6. CASE RenameLeaf(h)
    <3>1. mem[l] = hook[h].jr.before[l] /\ mem'[l] = hook[h].jr.after[l]
      BY <1>3, <2>2, <2>4, <2>5, <2>6 DEF RenameLeaf, WindowHolds
    <3> QED BY <2>2, <2>3, <2>4, <3>1 DEF OwnsJournal
  <2>7. CASE RollbackWrite(h)
    <3>1. mem[l] = hook[h].jr.after[l] /\ mem'[l] = hook[h].jr.before[l]
      BY <1>3, <2>2, <2>4, <2>5, <2>7 DEF RollbackWrite, WindowHolds
    <3> QED BY <2>2, <2>3, <2>4, <3>1 DEF OwnsJournal
  <2> QED BY <1>3, <2>6, <2>7
<1>4. \/ UNCHANGED mem
      \/ \E l \in Leaves : Edit(l)
      \/ \E h \in Hooks : RenameLeaf(h) \/ RollbackWrite(h)
  <2>1. ASSUME NEW p \in Proposals, Review(p) PROVE UNCHANGED mem
    BY <2>1 DEF Review, disk
  <2>2. ASSUME Deploy PROVE UNCHANGED mem
    BY <2>2 DEF Deploy, disk
  <2>3. ASSUME NEW h \in Hooks, Stop(h) \/ Crash(h) \/ Recovery(h) PROVE UNCHANGED mem
    BY <2>3 DEF Stop, Crash, Recovery, ClaimForRecovery, RecoveryThrows, RecoveryDone, SkipJournal,
                RemoveCommitted, RecoverJournal, disk
  <2>4. ASSUME NEW h \in Hooks, Rollback(h), ~RollbackWrite(h) PROVE UNCHANGED mem
    BY <2>4 DEF Rollback, RollbackRefused, RollbackLeaf, RollbackLedger, RollbackDone, disk
  <2>5. ASSUME NEW h \in Hooks, Apply(h), ~RenameLeaf(h) PROVE UNCHANGED mem
    BY <2>5 DEF Apply, ReportOwned, Observe, HookDone, ClaimForApply, DropCommitted, Plan, Prepare,
                CheckLeaf, MarkLeaf, WriteLedger, MarkLedger, Commit, Cleanup, Emit, disk
  <2>6. CASE UNCHANGED vars
    BY <2>6 DEF vars
  <2> QED BY <2>1, <2>2, <2>3, <2>4, <2>5, <2>6 DEF Next, HookStep
<1> QED BY <1>1, <1>2, <1>3, <1>4 DEF JournalledWrite

\* Every byte the applier changes in native memory moves a file between the two
\* images of a journal that is on disk, if no edit falls between the check of a
\* CAS and its rename.
THEOREM WritesAreJournalled == ASSUME ~WindowWrites PROVE Spec => OnlyJournalledWrites
<1>1. IInv /\ [Next]_vars => [JournalledWrite]_vars
  BY JournalledStep DEF vars
<1> QED BY <1>1, InitialState, NextPreserves, PTL DEF Spec, OnlyJournalledWrites

-----------------------------------------------------------------------------
(* Ownership: what the ledger names is committed or can still be undone.    *)

EntryOf(q) == journals[q].ledgerAfter[TopicOf[q]]
InJournal(e) == Pending(e.key) /\ e = EntryOf(e.key)

\* An entry of a committed proposal or of a journal that is on disk; D are the
\* journals whose entry no longer is, nor can become, part of the ledger.
Good(e, D) ==
    e # None /\ e.key # OldKey =>
        /\ e.key \in committed \/ InJournal(e)
        /\ InJournal(e) => e.key \notin D

JournalSound(q) ==
    LET j == journals[q]
        t == TopicOf[q] IN
    /\ j.ledgerAfter = [j.ledgerBefore EXCEPT ![t] = j.ledgerAfter[t]]
    /\ j.ledgerAfter[t] \in Entries /\ j.ledgerAfter[t].key = q /\ j.ledgerAfter[t].at <= clock
    /\ \A u \in Topics : j.ledgerBefore[u] # None =>
          /\ j.ledgerBefore[u].at < j.ledgerAfter[t].at
          /\ j.ledgerBefore[u].key = q => q \in committed
    /\ j.phase = "committed" => q \in committed

Settled(D) ==
    /\ \A t \in Topics : Good(ledger[t], D)
    /\ \A q \in Proposals \ D : Pending(q) => Good(journals[q].ledgerBefore[TopicOf[q]], D)
    /\ \A q \in D : Pending(q)

LedgerSound ==
    /\ \A t \in Topics : ledger[t] # None => ledger[t].at <= clock
    /\ \A q \in Proposals : Pending(q) => JournalSound(q)
    /\ \E D \in SUBSET Proposals : Settled(D)

\* The typed values of the ledger and of the journals.
LEMMA LedgerTypes ==
    ASSUME IInv
    PROVE  /\ clock \in Nat
           /\ \A t \in Topics : ledger[t] \in Entries \cup {None}
           /\ \A e \in Entries : e.key \in Proposals \cup {OldKey} /\ e.at \in Nat
           /\ \A q \in Proposals : Pending(q) =>
                /\ journals[q] \in JournalsOf(q) /\ TopicOf[q] \in Topics
                /\ journals[q].ledgerBefore \in Ledgers /\ journals[q].ledgerAfter \in Ledgers
                /\ \A t \in Topics : journals[q].ledgerBefore[t] \in Entries \cup {None}
<1>1. clock \in Nat /\ ledger \in Ledgers
  BY DEF IInv, DataTyped
<1>2. \A l \in Ledgers : \A t \in Topics : l[t] \in Entries \cup {None}
  BY DEF Ledgers
<1>3. \A e \in Entries : e.key \in Proposals \cup {OldKey} /\ e.at \in Nat
  BY DEF Entries
<1>4. ASSUME NEW q \in Proposals, Pending(q)
      PROVE  /\ journals[q] \in JournalsOf(q) /\ TopicOf[q] \in Topics
             /\ journals[q].ledgerBefore \in Ledgers /\ journals[q].ledgerAfter \in Ledgers
  <2>1. journals[q] \in JournalsOf(q)
    BY <1>4 DEF IInv, DataTyped, JournalOrNone, Pending
  <2> QED BY <2>1 DEF JournalsOf
<1> QED BY <1>1, <1>2, <1>3, <1>4

\* The journals on disk stay, but for their phase and those that committed.
JournalsKept ==
    /\ committed \subseteq committed'
    /\ \A q \in Proposals :
         /\ Pending(q)' => /\ Pending(q)
                           /\ journals'[q].ledgerBefore = journals[q].ledgerBefore
                           /\ journals'[q].ledgerAfter = journals[q].ledgerAfter
                           /\ journals'[q].phase = "committed" => q \in committed'
         /\ Pending(q) /\ ~Pending(q)' => q \in committed

\* A step that keeps the ledger and the journals.
LEMMA KeptSound ==
    ASSUME IInv, LedgerSound, JournalsKept, UNCHANGED <<ledger, clock>>
    PROVE  LedgerSound'
<1>1. PICK D \in SUBSET Proposals : Settled(D)
  BY DEF LedgerSound
<1>0. PICK E \in SUBSET Proposals : \A q \in Proposals : q \in E <=> q \in D /\ Pending(q)'
  <2>. DEFINE E == {q \in D : Pending(q)'}
  <2>1. E \in SUBSET Proposals /\ \A q \in Proposals : q \in E <=> q \in D /\ Pending(q)'
    OBVIOUS
  <2>. HIDE DEF E
  <2> QED BY <2>1
<1>2. ASSUME NEW e \in Entries \cup {None}, Good(e, D)
      PROVE  Good(e, E)'
  <2>1. SUFFICES ASSUME e # None, e.key # OldKey
                 PROVE  /\ e.key \in committed' \/ InJournal(e)'
                        /\ InJournal(e)' => e.key \notin E
    BY DEF Good
  <2>2. e.key \in Proposals
    BY <2>1, LedgerTypes
  <2>3. InJournal(e)' => InJournal(e)
    BY <2>2 DEF InJournal, EntryOf, JournalsKept
  <2>4. InJournal(e) => InJournal(e)' \/ e.key \in committed
    BY <2>2 DEF InJournal, EntryOf, JournalsKept
  <2> QED BY <1>2, <2>1, <2>3, <2>4, <1>0 DEF Good, JournalsKept
<1>3. Settled(E)'
  <2>1. \A t \in Topics : Good(ledger[t], E)'
    BY <1>1, <1>2, LedgerTypes DEF Settled
  <2>2. ASSUME NEW q \in Proposals \ E, Pending(q)'
        PROVE  Good(journals[q].ledgerBefore[TopicOf[q]], E)'
    <3>1. Pending(q) /\ q \notin D /\ journals'[q].ledgerBefore = journals[q].ledgerBefore
      BY <1>0, <2>2 DEF JournalsKept
    <3>2. Good(journals[q].ledgerBefore[TopicOf[q]], D)
      BY <1>1, <3>1 DEF Settled
    <3> QED BY <1>2, <3>1, <3>2, LedgerTypes
  <2> QED BY <1>0, <2>1, <2>2 DEF Settled
<1>4. ASSUME NEW q \in Proposals, Pending(q)' PROVE JournalSound(q)'
  <2>1. /\ Pending(q) /\ journals'[q].ledgerBefore = journals[q].ledgerBefore
        /\ journals'[q].ledgerAfter = journals[q].ledgerAfter
        /\ journals'[q].phase = "committed" => q \in committed'
        /\ committed \subseteq committed'
    BY <1>4 DEF JournalsKept
  <2>2. JournalSound(q)
    BY <2>1 DEF LedgerSound
  <2> QED BY <2>1, <2>2 DEF JournalSound
<1> QED BY <1>3, <1>4 DEF LedgerSound

\* An entry is stamped later than those that were there before it.
LEMMA PrepareSound ==
    ASSUME IInv, LedgerSound, NEW k \in Proposals, bound[k] \in Memories, ~Pending(k),
           journals' \in {journals, [journals EXCEPT ![k] = NewJournal(k)]},
           clock' = clock + 1, UNCHANGED <<ledger, committed>>
    PROVE  LedgerSound'
<1>1. PICK D \in SUBSET Proposals : Settled(D)
  BY DEF LedgerSound
<1>2. k \notin D
  BY <1>1 DEF Settled
<1>. DEFINE j == NewJournal(k)
            t == TopicOf[k]
<1>3. /\ j \in JournalsOf(k) /\ j # None
      /\ j.ledgerBefore = ledger /\ j.ledgerAfter = [ledger EXCEPT ![t] = Entry(k)]
      /\ j.ledgerAfter[t] = Entry(k) /\ j.phase = "prepared"
  <2>1. /\ j.ledgerBefore = ledger /\ j.ledgerAfter = [ledger EXCEPT ![t] = Entry(k)]
        /\ j.phase = "prepared"
    BY DEF NewJournal
  <2>2. [ledger EXCEPT ![t] = Entry(k)][t] = Entry(k)
    BY DEF IInv, DataTyped, Ledgers
  <2> QED BY <2>1, <2>2, NewJournalTyped
<1>. HIDE DEF j
<1>4. Entry(k) \in Entries /\ Entry(k).key = k /\ Entry(k).at = clock + 1 /\ clock \in Nat
  BY LedgerTypes DEF Entry, Entries
<1>5. /\ \A q \in Proposals \ {k} : journals'[q] = journals[q]
      /\ Pending(k)' => journals'[k] = j
  BY DEF IInv, DataTyped, j, Pending
<1>6. ASSUME NEW e \in Entries \cup {None}, Good(e, D), e # None => e.at <= clock
      PROVE  Good(e, D)'
  <2>1. SUFFICES ASSUME e # None, e.key # OldKey
                 PROVE  /\ e.key \in committed \/ InJournal(e)'
                        /\ InJournal(e)' => e.key \notin D
    BY DEF Good
  <2>2. e.key \in Proposals
    BY <2>1, LedgerTypes
  <2>3. CASE e.key = k
    <3>1. ~InJournal(e)
      BY <2>3 DEF InJournal
    <3>2. Pending(k)' => journals'[k].ledgerAfter[TopicOf[k]].at = clock + 1
      BY <1>3, <1>4, <1>5
    <3>3. ~InJournal(e)'
      BY <1>4, <1>6, <2>1, <2>3, <3>2, LedgerTypes DEF InJournal, EntryOf
    <3> QED BY <1>6, <2>1, <3>1, <3>3 DEF Good
  <2>4. CASE e.key # k
    <3>1. InJournal(e)' <=> InJournal(e)
      BY <1>5, <2>2, <2>4 DEF InJournal, EntryOf, Pending
    <3> QED BY <1>6, <2>1, <3>1 DEF Good
  <2> QED BY <2>3, <2>4
<1>7. Settled(D)'
  <2>1. ASSUME NEW u \in Topics PROVE Good(ledger[u], D)'
    BY <1>1, <1>6, LedgerTypes DEF Settled, LedgerSound
  <2>2. ASSUME NEW q \in Proposals \ D, Pending(q)'
        PROVE  Good(journals[q].ledgerBefore[TopicOf[q]], D)'
    <3>1. CASE q = k
      BY <1>3, <1>5, <2>1, <2>2, <3>1
    <3>2. CASE q # k
      <4>1. Pending(q) /\ journals'[q] = journals[q] /\ JournalSound(q)
        BY <1>5, <2>2, <3>2 DEF Pending, LedgerSound
      <4>. DEFINE e == journals[q].ledgerBefore[TopicOf[q]]
      <4>2. e \in Entries \cup {None} /\ Good(e, D)
        BY <1>1, <4>1, LedgerTypes DEF Settled
      <4>3. e # None => e.at <= clock
        BY <4>1, <4>2, LedgerTypes DEF JournalSound
      <4> QED BY <1>6, <4>1, <4>2, <4>3
    <3> QED BY <3>1, <3>2
  <2>3. \A q \in D : Pending(q)'
    BY <1>1, <1>2, <1>5 DEF Settled, Pending
  <2> QED BY <2>1, <2>2, <2>3 DEF Settled
<1>8. ASSUME NEW q \in Proposals, Pending(q)' PROVE JournalSound(q)'
  <2>1. CASE q = k
    <3>1. \A u \in Topics : ledger[u] # None => ledger[u].at < clock + 1 /\ (ledger[u].key = k => k \in committed)
      <4> TAKE u \in Topics
      <4> HAVE ledger[u] # None
      <4>1. ledger[u].at <= clock /\ ledger[u] \in Entries /\ clock \in Nat
        BY LedgerTypes DEF LedgerSound
      <4>2. ledger[u].key = k => k \in committed
        BY <1>1, DistinctAssumption DEF Settled, Good, InJournal
      <4> QED BY <4>1, <4>2, LedgerTypes
    <3>2. journals'[q] = j /\ j.phase # "committed"
      BY <1>3, <1>5, <1>8, <2>1
    <3>3. /\ j.ledgerAfter = [j.ledgerBefore EXCEPT ![t] = j.ledgerAfter[t]]
          /\ j.ledgerAfter[t] \in Entries /\ j.ledgerAfter[t].key = k
          /\ j.ledgerAfter[t].at = clock + 1 /\ clock + 1 <= clock'
      <4>1. j.ledgerAfter = [j.ledgerBefore EXCEPT ![t] = j.ledgerAfter[t]]
        BY <1>3
      <4>2. /\ j.ledgerAfter[t] \in Entries /\ j.ledgerAfter[t].key = k
            /\ j.ledgerAfter[t].at = clock + 1
        BY <1>3, <1>4
      <4>3. clock + 1 <= clock'
        BY <1>4
      <4> QED BY <4>1, <4>2, <4>3
    <3>4. \A u \in Topics : j.ledgerBefore[u] # None =>
             /\ j.ledgerBefore[u].at < j.ledgerAfter[t].at
             /\ j.ledgerBefore[u].key = k => k \in committed'
      BY <1>3, <3>1, <3>3
    <3> HIDE DEF t
    <3>5. JournalSound(k)'
      BY <3>2, <3>3, <3>4, <2>1 DEF JournalSound, t
    <3> QED BY <2>1, <3>5
  <2>2. CASE q # k
    <3>1. Pending(q) /\ journals'[q] = journals[q] /\ JournalSound(q)
      BY <1>5, <1>8, <2>2 DEF Pending, LedgerSound
    <3>2. journals[q].ledgerAfter[TopicOf[q]].at \in Nat
      BY <3>1, LedgerTypes DEF JournalSound
    <3> QED BY <1>4, <3>1, <3>2 DEF JournalSound
  <2> QED BY <2>1, <2>2
<1>9. \A u \in Topics : ledger'[u] # None => ledger'[u].at <= clock'
  BY LedgerTypes DEF LedgerSound
<1> QED BY <1>7, <1>8, <1>9 DEF LedgerSound

\* The proposal's own entry enters the ledger.
LEMMA WrittenSound ==
    ASSUME IInv, LedgerSound, NEW k \in Proposals, Pending(k),
           ledger = journals[k].ledgerBefore, ledger' = journals[k].ledgerAfter,
           UNCHANGED <<journals, clock, committed>>
    PROVE  LedgerSound'
<1>1. PICK D \in SUBSET Proposals : Settled(D)
  BY DEF LedgerSound
<1>. DEFINE t == TopicOf[k]
<1>2. /\ JournalSound(k) /\ t \in Topics /\ ledger \in Ledgers
      /\ journals[k].ledgerAfter = [ledger EXCEPT ![t] = EntryOf(k)]
      /\ EntryOf(k) \in Entries /\ EntryOf(k).key = k /\ EntryOf(k).at <= clock
  BY LedgerTypes DEF LedgerSound, JournalSound, EntryOf
<1>3. ledger'[t] = EntryOf(k) /\ \A u \in Topics \ {t} : ledger'[u] = ledger[u]
  BY <1>2 DEF Ledgers
<1>4. ASSUME NEW e, Good(e, D) PROVE Good(e, D \ {k})'
  BY <1>4 DEF Good, InJournal, EntryOf, Pending
<1>5. Good(EntryOf(k), D \ {k})'
  BY <1>2 DEF Good, InJournal, EntryOf, Pending
<1>6. Settled(D \ {k})'
  <2>1. \A u \in Topics : Good(ledger[u], D)
    BY <1>1 DEF Settled
  <2>2. \A u \in Topics \ {t} : Good(ledger[u], D \ {k})'
    BY <1>3, <1>4, <2>1
  <2>3. ASSUME NEW q \in Proposals \ (D \ {k}), Pending(q)
        PROVE  Good(journals[q].ledgerBefore[TopicOf[q]], D)
    BY <1>1, <1>2, <2>1, <2>3 DEF Settled
  <2>4. \A q \in D : Pending(q)
    BY <1>1 DEF Settled
  <2>5. \A q \in Proposals \ (D \ {k}) : Pending(q) => Good(journals[q].ledgerBefore[TopicOf[q]], D \ {k})'
    BY <1>4, <2>3
  <2> QED BY <1>3, <1>5, <2>2, <2>4, <2>5 DEF Settled, Pending, EntryOf
<1>7. \A u \in Topics : ledger'[u] # None => ledger'[u].at <= clock'
  BY <1>2, <1>3 DEF LedgerSound
<1>8. \A q \in Proposals : JournalSound(q) => JournalSound(q)'
  BY DEF JournalSound
<1> QED BY <1>6, <1>7, <1>8 DEF LedgerSound, Pending

\* The ledger goes back to where the journal found it.
LEMMA RestoredSound ==
    ASSUME IInv, LedgerSound, NEW k \in Proposals, Pending(k),
           ledger = journals[k].ledgerAfter, ledger' = journals[k].ledgerBefore,
           UNCHANGED <<journals, clock, committed>>
    PROVE  LedgerSound'
<1>1. PICK D \in SUBSET Proposals : Settled(D)
  BY DEF LedgerSound
<1>. DEFINE t == TopicOf[k]
            before == journals[k].ledgerBefore
<1>2. /\ JournalSound(k) /\ t \in Topics /\ before \in Ledgers /\ clock \in Nat
      /\ ledger = [before EXCEPT ![t] = EntryOf(k)]
      /\ EntryOf(k) \in Entries /\ EntryOf(k).key = k /\ EntryOf(k).at <= clock
  BY LedgerTypes DEF LedgerSound, JournalSound, EntryOf
<1>3. ledger[t] = EntryOf(k) /\ \A u \in Topics \ {t} : ledger'[u] = ledger[u]
  BY <1>2 DEF Ledgers
<1>4. k \notin D
  <2>1. Good(EntryOf(k), D)
    BY <1>1, <1>2, <1>3 DEF Settled
  <2> QED BY <1>2, <2>1, DistinctAssumption DEF Good, InJournal
<1>5. \A u \in Topics : Good(ledger'[u], D)
  <2>1. Good(before[t], D)
    BY <1>1, <1>4 DEF Settled
  <2>2. \A u \in Topics \ {t} : Good(ledger[u], D)
    BY <1>1 DEF Settled
  <2> QED BY <1>3, <2>1, <2>2
<1>6. Settled(D)'
  BY <1>1, <1>5 DEF Settled, Good, InJournal, EntryOf, Pending
<1>7. \A u \in Topics : ledger'[u] # None => ledger'[u].at <= clock'
  <2> TAKE u \in Topics
  <2> HAVE ledger'[u] # None
  <2>1. before[u].at < EntryOf(k).at
    BY <1>2 DEF JournalSound, EntryOf
  <2>2. before[u] \in Entries
    BY LedgerTypes
  <2> QED BY <1>2, <2>1, <2>2, LedgerTypes
<1>8. \A q \in Proposals : JournalSound(q) => JournalSound(q)'
  BY DEF JournalSound
<1> QED BY <1>6, <1>7, <1>8 DEF LedgerSound, Pending

\* A journal goes after its rollback: what was stamped later than its entry is
\* not part of the ledger any more.
LEMMA UndoneSound ==
    ASSUME IInv, LedgerSound, NEW k \in Proposals, Pending(k),
           ledger = journals[k].ledgerBefore,
           journals' = [journals EXCEPT ![k] = None],
           UNCHANGED <<ledger, clock, committed>>
    PROVE  LedgerSound'
<1>1. PICK D \in SUBSET Proposals : Settled(D)
  BY DEF LedgerSound
<1>. DEFINE n == EntryOf(k).at
<1>2. PICK E \in SUBSET Proposals : \A q \in Proposals :
        q \in E <=> q # k /\ Pending(q) /\ (q \in D \/ EntryOf(q).at > n)
  <2>. DEFINE E == {q \in Proposals : q # k /\ Pending(q) /\ (q \in D \/ EntryOf(q).at > n)}
  <2>1. /\ E \in SUBSET Proposals
        /\ \A q \in Proposals : q \in E <=> q # k /\ Pending(q) /\ (q \in D \/ EntryOf(q).at > n)
    OBVIOUS
  <2>. HIDE DEF E
  <2> QED BY <2>1
<1>3. ~Pending(k)' /\ \A q \in Proposals \ {k} : journals'[q] = journals[q]
  BY DEF IInv, DataTyped, Pending
<1>4. \A q \in Proposals : Pending(q) => JournalSound(q) /\ EntryOf(q).at \in Nat
  BY LedgerTypes DEF LedgerSound, JournalSound, EntryOf
<1>5. n \in Nat
  BY <1>4
<1>6. ASSUME NEW e \in Entries \cup {None}, Good(e, D), e # None => e.at < n
      PROVE  Good(e, E)'
  <2>1. SUFFICES ASSUME e # None, e.key # OldKey
                 PROVE  /\ e.key \in committed \/ InJournal(e)'
                        /\ InJournal(e)' => e.key \notin E
    BY DEF Good
  <2>2. e.key \in Proposals /\ e.at \in Nat /\ e.at < n
    BY <1>6, <2>1, LedgerTypes
  <2>3. CASE e.key = k
    <3>1. ~InJournal(e)
      BY <1>5, <2>2, <2>3 DEF InJournal
    <3>2. ~InJournal(e)'
      BY <1>3, <2>3 DEF InJournal
    <3> QED BY <1>6, <2>1, <3>1, <3>2 DEF Good
  <2>4. CASE e.key # k
    <3>1. InJournal(e)' <=> InJournal(e)
      BY <1>3, <2>2, <2>4 DEF InJournal, EntryOf, Pending
    <3>2. InJournal(e) => e.key \notin D /\ ~(EntryOf(e.key).at > n)
      <4>1. InJournal(e) => e.key \notin D
        BY <1>6, <2>1 DEF Good
      <4>2. InJournal(e) => EntryOf(e.key).at < n
        BY <2>2 DEF InJournal
      <4> QED BY <1>5, <2>2, <4>1, <4>2 DEF InJournal
    <3> QED BY <1>2, <1>6, <2>1, <2>2, <3>1, <3>2 DEF Good
  <2> QED BY <2>3, <2>4
<1>7. ASSUME NEW u \in Topics PROVE Good(ledger[u], E)'
  <2>1. ledger[u] \in Entries \cup {None} /\ Good(ledger[u], D)
    BY <1>1, LedgerTypes DEF Settled
  <2>2. ledger[u] # None => ledger[u].at < n
    BY <1>4 DEF JournalSound, EntryOf
  <2> QED BY <1>6, <2>1, <2>2
<1>8. ASSUME NEW q \in Proposals \ E, Pending(q)'
      PROVE  Good(journals[q].ledgerBefore[TopicOf[q]], E)'
  <2>. DEFINE e == journals[q].ledgerBefore[TopicOf[q]]
  <2>1. q # k /\ Pending(q) /\ q \notin D /\ ~(EntryOf(q).at > n) /\ journals'[q] = journals[q]
    BY <1>2, <1>3, <1>8 DEF Pending
  <2>2. e \in Entries \cup {None} /\ Good(e, D)
    BY <1>1, <2>1, LedgerTypes DEF Settled
  <2>3. e # None => e.at < EntryOf(q).at
    BY <1>4, <2>1, LedgerTypes DEF JournalSound, EntryOf
  <2>4. e # None => e.at < n
    BY <1>4, <1>5, <2>1, <2>2, <2>3, LedgerTypes
  <2> QED BY <1>6, <2>1, <2>2, <2>4
<1>9. Settled(E)'
  <2>1. \A q \in E : Pending(q)'
    BY <1>2, <1>3 DEF Pending
  <2>2. \A q \in Proposals \ E : Pending(q)' => journals'[q] = journals[q]
    BY <1>3
  <2> QED BY <1>7, <1>8, <2>1, <2>2 DEF Settled
<1>10. \A q \in Proposals : Pending(q)' => JournalSound(q)'
  <2> TAKE q \in Proposals
  <2> HAVE Pending(q)'
  <2>1. Pending(q) /\ journals'[q] = journals[q]
    BY <1>3 DEF Pending
  <2> QED BY <1>4, <2>1 DEF JournalSound
<1> QED BY <1>9, <1>10 DEF LedgerSound

-----------------------------------------------------------------------------
(* What a hook knows of the ledger, and of the journals of its proposals.   *)

Shared(h, p) == \E g \in Hooks \ {h} : p \in Mine[g]

\* The ledger at each point of a transaction.
LedgerAt(h) ==
    /\ hook[h].pc \in {"check", "rename", "mark", "ledger"} => ledger = hook[h].jr.ledgerBefore
    /\ hook[h].pc \in {"markledger", "commit"} => ledger = hook[h].jr.ledgerAfter
    /\ hook[h].pc = "rbdone" /\ Clean(h) => ledger = hook[h].jr.ledgerBefore

LedgerHook(h) ==
    /\ InTransaction(h) => /\ hook[h].jr.ledgerBefore = journals[hook[h].key].ledgerBefore
                           /\ hook[h].jr.ledgerAfter = journals[hook[h].key].ledgerAfter
    /\ LedgerAt(h)
    /\ hook[h].pc = "prepare" => ~Pending(hook[h].key)
    /\ hook[h].pc \in {"cleanup", "emit"} => hook[h].key \in committed

\* After its recovery a hook meets a journal of its own proposals only if
\* another hook of the session wrote it.
ReportHook(h) ==
    /\ hook[h].pc \in {"claim", "plan", "prepare"} => hook[h].key \in Mine[h]
    /\ hook[h].pc = "recovering" => hook[h].recovering
    /\ hook[h].recovering => hook[h].pc \in {"recovering"} \cup Undoing
    /\ hook[h].recovering /\ ~hook[h].conf =>
         \A p \in Proposals : Pending(p) => p \in hook[h].todo \/ (InTransaction(h) /\ p = hook[h].key)
    /\ ~hook[h].recovering =>
         /\ HasProposal(h) => hook[h].key \notin hook[h].todo
         /\ \A p \in hook[h].todo : p \in Mine[h] /\ (Pending(p) => Shared(h, p))

HookSound(h) == LedgerHook(h) /\ ReportHook(h)

\* What every step of h ensures.
Fits(h) ==
    /\ LedgerSound' /\ HookSound(h)'
    /\ \A g \in Hooks \ {h} : hook'[g] = hook[g]
    /\ committed \subseteq committed'
    /\ HoldsClaim(h) \/ UNCHANGED <<ledger, journals>>
    /\ \A p \in Proposals : Pending(p)' => Pending(p) \/ p \in Mine[h]

\* Such a step leaves what the other hooks know alone.
LEMMA OtherSound ==
    ASSUME IInv, NEW h \in Hooks, Fits(h), NEW g \in Hooks \ {h}, HookSound(g)
    PROVE  HookSound(g)'
<1>1. hook'[g] = hook[g] /\ committed \subseteq committed'
  BY DEF Fits
<1>2. UNCHANGED <<HasProposal(g), InTransaction(g), HoldsClaim(g), Clean(g)>>
  BY <1>1 DEF HasProposal, InTransaction, HoldsClaim, Clean
<1>3. \A p \in Proposals : Pending(p)' => Pending(p) \/ Shared(g, p)
  BY DEF Fits, Shared
<1>4. \A p \in hook[g].todo : p \in Proposals
  BY StateTyped DEF IInv, HookStates
<1>5. CASE HoldsClaim(h)
  <2>1. ~HoldsClaim(g)
    BY <1>5 DEF IInv, Serial
  <2>2. /\ ~InTransaction(g) /\ ~hook[g].recovering
        /\ hook[g].pc \notin {"recovering", "plan", "prepare", "cleanup"} \cup Writing \cup Undoing
    BY <2>1 DEF HoldsClaim, InTransaction, HookSound, ReportHook
  <2>3. LedgerHook(g)'
    BY <1>1, <1>2, <2>2 DEF HookSound, LedgerHook, LedgerAt, Writing, Undoing
  <2>4. ReportHook(g)'
    BY <1>1, <1>2, <1>3, <1>4, <2>2 DEF HookSound, ReportHook, Shared
  <2> QED BY <2>3, <2>4 DEF HookSound
<1>6. CASE UNCHANGED <<ledger, journals>>
  <2>1. LedgerHook(g)'
    BY <1>1, <1>2, <1>6 DEF HookSound, LedgerHook, LedgerAt, Pending
  <2>2. ReportHook(g)'
    BY <1>1, <1>2, <1>6 DEF HookSound, ReportHook, Shared, Pending
  <2> QED BY <2>1, <2>2 DEF HookSound
<1> QED BY <1>5, <1>6 DEF Fits

\* The states of the hooks after a step of one of them.
LEMMA HookAfter ==
    ASSUME IInv, NEW h \in Hooks, NEW s, Becomes(h, s)
    PROVE  hook'[h] = s /\ \A g \in Hooks \ {h} : hook'[g] = hook[g]
BY DEF IInv, HookTyped, Becomes

\* A step that changes neither ledger nor journals.
LEMMA QuietFits ==
    ASSUME IInv, LedgerSound, NEW h \in Hooks, NEW s, Becomes(h, s), HookSound(h)',
           UNCHANGED <<ledger, journals, clock, committed>>
    PROVE  Fits(h)
<1>1. JournalsKept
  BY DEF JournalsKept, Pending, LedgerSound, JournalSound
<1> QED BY <1>1, KeptSound, HookAfter DEF Fits, Pending

\* Nothing is asked of an idle hook.
LEMMA IdleSound ==
    ASSUME NEW h \in Hooks, hook'[h] = Idle \/ hook'[h] = [Idle EXCEPT !.pc = "recover"]
    PROVE  HookSound(h)'
<1>1. hook'[h].pc \in {"idle", "recover"} /\ hook'[h].todo = {} /\ ~hook'[h].recovering
  BY DEF Idle
<1> QED BY <1>1 DEF HookSound, LedgerHook, LedgerAt, ReportHook, HasProposal, InTransaction, Writing, Undoing

\* Of a hook between two proposals, only those left to do matter.
LEMMA NextSound ==
    ASSUME NEW h \in Hooks, NEW todo \in SUBSET Proposals, hook'[h] = AtNext(todo),
           \A p \in todo : p \in Mine[h] /\ (Pending(p)' => Shared(h, p))
    PROVE  HookSound(h)'
<1>1. hook'[h].pc = "next" /\ hook'[h].todo = todo /\ ~hook'[h].recovering
  BY DEF AtNext, Idle
<1> QED BY <1>1 DEF HookSound, LedgerHook, LedgerAt, ReportHook, HasProposal, InTransaction, Writing, Undoing, Shared

\* What stays of a hook's state inside its transaction.
SameWork(h) ==
    /\ hook'[h].key = hook[h].key /\ hook'[h].todo = hook[h].todo
    /\ hook'[h].recovering = hook[h].recovering /\ hook'[h].conf = hook[h].conf
    /\ hook'[h].jr.ledgerBefore = hook[h].jr.ledgerBefore
    /\ hook'[h].jr.ledgerAfter = hook[h].jr.ledgerAfter

\* A hook that stays in its transaction is sound again.
LEMMA StaysSound ==
    ASSUME IInv, NEW h \in Hooks, HookSound(h), InTransaction(h), SameWork(h),
           hook'[h].pc \in Undoing \/ (hook[h].pc \in Writing /\ hook'[h].pc \in Writing),
           JournalsKept, Kept(h), LedgerAt(h)'
    PROVE  HookSound(h)'
<1>1. hook[h].key \in Proposals /\ InTransaction(h)' /\ HasProposal(h)' /\ HasProposal(h)
  BY TransactionFacts DEF SameWork, InTransaction, HasProposal
<1>2. /\ hook'[h].pc \notin {"prepare", "cleanup", "emit", "claim", "plan", "recovering"}
      /\ hook[h].recovering => hook'[h].pc \in Undoing
  BY DEF Writing, Undoing, HookSound, ReportHook
<1>3. LedgerHook(h)'
  BY <1>1, <1>2 DEF SameWork, HookSound, LedgerHook, JournalsKept, Kept, Pending
<1>4. \A p \in hook[h].todo : p \in Proposals
  BY StateTyped DEF IInv, HookStates
<1>5. ReportHook(h)'
  BY <1>1, <1>2, <1>4 DEF SameWork, HookSound, ReportHook, JournalsKept, Shared
<1> QED BY <1>3, <1>5 DEF HookSound

\* Fits of the steps before and after a transaction.
LEMMA StopFits ==
    ASSUME IInv, LedgerSound, NEW h \in Hooks, HookSound(h), Stop(h) \/ Crash(h) PROVE Fits(h)
<1>1. PICK s \in {Idle, [Idle EXCEPT !.pc = "recover"]} : Becomes(h, s)
  BY DEF Stop, Crash
<1>2. HookSound(h)'
  BY <1>1, HookAfter, IdleSound
<1> QED BY <1>1, <1>2, QuietFits DEF Stop, Crash, disk, hist

\* Action ClaimForRecovery fits: the hook holds the claim, or is done.
LEMMA ClaimForRecoveryFits ==
    ASSUME IInv, LedgerSound, NEW h \in Hooks, HookSound(h), ClaimForRecovery(h) PROVE Fits(h)
<1>. DEFINE s == [hook[h] EXCEPT !.pc = "recovering", !.recovering = TRUE,
                                 !.todo = {p \in Proposals : Pending(p)}]
<1>1. UNCHANGED <<ledger, journals, clock, committed>>
  BY DEF ClaimForRecovery, disk, hist
<1>2. CASE Becomes(h, Idle)
  BY <1>1, <1>2, HookAfter, IdleSound, QuietFits
<1>3. CASE Becomes(h, s)
  <2>1. /\ s.pc = "recovering" /\ s.recovering
        /\ s.todo = {p \in Proposals : Pending(p)}
    BY StateTyped DEF IInv, HookStates
  <2>. HIDE DEF s
  <2>2. hook'[h] = s
    BY <1>3, HookAfter
  <2>3. HookSound(h)'
    BY <1>1, <2>1, <2>2 DEF HookSound, LedgerHook, LedgerAt, ReportHook, HasProposal, InTransaction,
                            Writing, Undoing, Pending
  <2> QED BY <1>1, <1>3, <2>3, QuietFits
<1> QED BY <1>2, <1>3 DEF ClaimForRecovery

\* In the recovery loop: every pending journal not yet passed is left to do.
LEMMA LoopSound ==
    ASSUME NEW h \in Hooks, hook'[h].pc = "recovering", hook'[h].recovering,
           hook'[h].conf \/ \A p \in Proposals : Pending(p)' => p \in hook'[h].todo
    PROVE  HookSound(h)'
BY DEF HookSound, LedgerHook, LedgerAt, ReportHook, HasProposal, InTransaction, Writing, Undoing

\* What the loop knows.
LEMMA LoopFacts ==
    ASSUME IInv, NEW h \in Hooks, HookSound(h), hook[h].pc = "recovering"
    PROVE  /\ hook[h] \in HookStates(hook[h].key) /\ HoldsClaim(h) /\ hook[h].recovering
           /\ hook[h].todo \subseteq Proposals
           /\ hook[h].conf \/ \A p \in Proposals : Pending(p) => p \in hook[h].todo
<1>1. ~InTransaction(h) /\ HoldsClaim(h)
  BY DEF InTransaction, HoldsClaim, Writing, Undoing
<1> QED BY <1>1, StateTyped DEF IInv, HookSound, ReportHook, HookStates

\* Action SkipJournal fits: no journal changes.
LEMMA SkipJournalFits ==
    ASSUME IInv, LedgerSound, NEW h \in Hooks, HookSound(h), NEW p \in Proposals, SkipJournal(h, p)
    PROVE  Fits(h)
<1>. DEFINE s == [hook[h] EXCEPT !.todo = @ \ {p}, !.conf = TRUE]
<1>1. s.pc = "recovering" /\ s.recovering /\ s.conf
  BY LoopFacts DEF SkipJournal, HookStates
<1>2. Becomes(h, s) /\ UNCHANGED <<ledger, journals, clock, committed>>
  BY DEF SkipJournal, disk, hist
<1>. HIDE DEF s
<1>3. HookSound(h)'
  BY <1>1, <1>2, HookAfter, LoopSound
<1> QED BY <1>2, <1>3, QuietFits

\* Removing the journal of a committed proposal.
LEMMA CommittedGone ==
    ASSUME IInv, LedgerSound, NEW k \in Proposals, k \in committed,
           journals' \in {journals, [journals EXCEPT ![k] = None]},
           UNCHANGED <<ledger, clock, committed>>
    PROVE  /\ LedgerSound'
           /\ \A q \in Proposals : Pending(q)' => Pending(q)
           /\ journals' # journals => ~Pending(k)'
<1>1. \A q \in Proposals : journals'[q] = journals[q] \/ (q = k /\ journals'[q] = None)
  BY DEF IInv, DataTyped
<1>2. JournalsKept
  BY <1>1 DEF JournalsKept, Pending, LedgerSound, JournalSound
<1>3. journals' # journals => journals'[k] = None
  BY DEF IInv, DataTyped
<1> QED BY <1>2, <1>3, KeptSound DEF JournalsKept, Pending

\* A durable commit record means that the proposal committed.
LEMMA CommittedRecord ==
    ASSUME LedgerSound, NEW p \in Proposals, Committed(p)
    PROVE  p \in committed
BY DEF LedgerSound, JournalSound, Committed

\* Action RemoveCommitted fits: the proposal of the journal has committed.
LEMMA RemoveCommittedFits ==
    ASSUME IInv, LedgerSound, NEW h \in Hooks, HookSound(h), NEW p \in Proposals, RemoveCommitted(h, p)
    PROVE  Fits(h)
<1>. DEFINE s == [hook[h] EXCEPT !.todo = @ \ {p}]
<1>1. /\ s.pc = "recovering" /\ s.recovering /\ HoldsClaim(h)
      /\ s.conf = hook[h].conf /\ s.todo = hook[h].todo \ {p}
  BY LoopFacts DEF RemoveCommitted, HookStates
<1>2. /\ Becomes(h, s) /\ UNCHANGED <<ledger, clock, committed>>
      /\ journals' = [journals EXCEPT ![p] = None] /\ Committed(p)
  BY DEF RemoveCommitted, hist
<1>. HIDE DEF s
<1>3. LedgerSound' /\ (\A q \in Proposals : Pending(q)' => Pending(q)) /\ ~Pending(p)'
  <2>1. journals' # journals
    BY <1>2 DEF IInv, DataTyped, Committed, Pending
  <2> QED BY <1>2, <2>1, CommittedGone, CommittedRecord
<1>4. HookSound(h)'
  BY <1>1, <1>2, <1>3, HookAfter, LoopSound, LoopFacts DEF RemoveCommitted
<1> QED BY <1>1, <1>2, <1>3, <1>4, HookAfter DEF Fits

\* Action RecoverJournal fits: the journal becomes the one of the hook.
LEMMA RecoverJournalFits ==
    ASSUME IInv, LedgerSound, NEW h \in Hooks, HookSound(h), NEW p \in Proposals, RecoverJournal(h, p)
    PROVE  Fits(h)
<1>. DEFINE r == RollbackOf(h, p, journals[p])
            s == [r EXCEPT !.todo = @ \ {p}]
<1>1. journals[p] \in JournalsOf(p) /\ Becomes(h, s) /\ UNCHANGED <<ledger, journals, clock, committed>>
  BY DEF RecoverJournal, Pending, IInv, DataTyped, JournalOrNone, disk, hist
<1>2. r \in HookStates(p) /\ r.pc = "rbleaf" /\ r.key = p /\ r.jr = journals[p] /\ r.todo = hook[h].todo
  BY <1>1, RollbackTyped
<1>3. r.recovering = hook[h].recovering /\ r.conf = hook[h].conf
  BY LoopFacts DEF RecoverJournal, RollbackOf, HookStates
<1>. HIDE DEF r
<1>4. /\ s.pc = "rbleaf" /\ s.key = p /\ s.jr = journals[p] /\ s.todo = hook[h].todo \ {p}
      /\ s.recovering /\ s.conf = hook[h].conf
  BY <1>2, <1>3, LoopFacts DEF RecoverJournal, HookStates
<1>. HIDE DEF s
<1>5. hook'[h] = s
  BY <1>1, HookAfter
<1>6. hook[h].conf \/ \A q \in Proposals : Pending(q)' => q = p \/ q \in hook[h].todo \ {p}
  BY <1>1, LoopFacts DEF RecoverJournal, Pending
<1>7. HookSound(h)'
  BY <1>1, <1>4, <1>5, <1>6 DEF HookSound, LedgerHook, LedgerAt, ReportHook, HasProposal, InTransaction,
                                Writing, Undoing
<1> QED BY <1>1, <1>7, QuietFits

\* Action RecoveryThrows fits: at most a committed journal goes.
LEMMA RecoveryThrowsFits ==
    ASSUME IInv, LedgerSound, NEW h \in Hooks, HookSound(h), RecoveryThrows(h) PROVE Fits(h)
<1>1. Becomes(h, Idle) /\ UNCHANGED <<ledger, clock, committed>> /\ HoldsClaim(h)
  BY DEF RecoveryThrows, hist, HoldsClaim
<1>2. HookSound(h)'
  BY <1>1, HookAfter, IdleSound
<1>3. LedgerSound' /\ \A q \in Proposals : Pending(q)' => Pending(q)
  <2>1. CASE UNCHANGED journals
    <3>1. JournalsKept
      BY <1>1, <2>1 DEF JournalsKept, Pending, LedgerSound, JournalSound
    <3> QED BY <1>1, <3>1, KeptSound DEF JournalsKept
  <2>2. ASSUME NEW p \in hook[h].todo, Committed(p), journals' = [journals EXCEPT ![p] = None]
        PROVE  LedgerSound' /\ \A q \in Proposals : Pending(q)' => Pending(q)
    <3>1. p \in Proposals
      BY LoopFacts DEF RecoveryThrows
    <3> QED BY <1>1, <2>2, <3>1, CommittedGone, CommittedRecord
  <2> QED BY <2>1, <2>2 DEF RecoveryThrows
<1> QED BY <1>1, <1>2, <1>3, HookAfter DEF Fits

\* Action RecoveryDone fits: the proposals left to try are those of the session.
LEMMA RecoveryDoneFits ==
    ASSUME IInv, LedgerSound, NEW h \in Hooks, HookSound(h), RecoveryDone(h) PROVE Fits(h)
<1>. DEFINE todo == {p \in Mine[h] \ foreign : bound[p] # None}
<1>1. UNCHANGED <<ledger, journals, clock, committed>> /\ todo \in SUBSET Proposals /\ todo \subseteq Mine[h]
  BY DEF RecoveryDone, disk, hist
<1>2. CASE Becomes(h, Idle)
  BY <1>1, <1>2, HookAfter, IdleSound, QuietFits
<1>3. CASE ~hook[h].conf /\ Becomes(h, AtNext(todo))
  <2>1. \A p \in Proposals : ~Pending(p)'
    BY <1>1, <1>3, LoopFacts DEF RecoveryDone, Pending
  <2>2. HookSound(h)'
    <3>1. hook'[h] = AtNext(todo)
      BY <1>3, HookAfter
    <3>2. \A p \in todo : p \in Mine[h] /\ ~Pending(p)'
      BY <1>1, <2>1
    <3>. HIDE DEF todo
    <3> QED BY <1>1, <3>1, <3>2, NextSound
  <2> QED BY <1>1, <1>3, <2>2, QuietFits
<1> QED BY <1>2, <1>3 DEF RecoveryDone, Recovered

\* The journal of a transaction, as the hook and the disk have it.
LEMMA OwnLedgers ==
    ASSUME IInv, NEW h \in Hooks, HookSound(h), InTransaction(h)
    PROVE  /\ hook[h].key \in Proposals /\ Pending(hook[h].key) /\ HoldsClaim(h)
           /\ hook[h] \in HookStates(hook[h].key)
           /\ journals[hook[h].key].ledgerBefore = hook[h].jr.ledgerBefore
           /\ journals[hook[h].key].ledgerAfter = hook[h].jr.ledgerAfter
           /\ LedgerAt(h) /\ (UNCHANGED journals => Kept(h))
           /\ hook[h].todo \in SUBSET Proposals
BY TransactionFacts DEF HookSound, LedgerHook, OwnsJournal, HookStates

\* A step inside a transaction that changes neither ledger nor journals.
LEMMA QuietStays ==
    ASSUME IInv, LedgerSound, NEW h \in Hooks, HookSound(h), InTransaction(h),
           NEW s, Becomes(h, s),
           s.pc \in Undoing \/ (hook[h].pc \in Writing /\ s.pc \in Writing),
           s.key = hook[h].key, s.todo = hook[h].todo, s.jr = hook[h].jr,
           s.recovering = hook[h].recovering, s.conf = hook[h].conf,
           UNCHANGED <<ledger, journals, clock, committed>>, LedgerAt(h)'
    PROVE  Fits(h)
<1>1. hook'[h] = s
  BY HookAfter
<1>2. SameWork(h)
  BY <1>1 DEF SameWork
<1>3. JournalsKept
  BY DEF JournalsKept, Pending, LedgerSound, JournalSound
<1>4. Kept(h)
  BY OwnLedgers
<1> QED BY <1>1, <1>2, <1>3, <1>4, StaysSound, QuietFits

\* Action RollbackRefused fits: the rollback is not clean, so the journal stays.
LEMMA RollbackRefusedFits ==
    ASSUME IInv, LedgerSound, NEW h \in Hooks, HookSound(h), RollbackRefused(h) PROVE Fits(h)
<1>. DEFINE s == [hook[h] EXCEPT !.pc = "rbdone", !.bad = TRUE]
<1>1. InTransaction(h) /\ Becomes(h, s) /\ UNCHANGED <<ledger, journals, clock, committed>>
  BY DEF RollbackRefused, InTransaction, Undoing, disk, hist
<1>2. /\ s.pc = "rbdone" /\ s.bad /\ s.key = hook[h].key /\ s.todo = hook[h].todo /\ s.jr = hook[h].jr
      /\ s.recovering = hook[h].recovering /\ s.conf = hook[h].conf
  BY <1>1, OwnLedgers DEF HookStates
<1>. HIDE DEF s
<1>3. LedgerAt(h)'
  BY <1>1, <1>2, HookAfter DEF LedgerAt, Clean
<1> QED BY <1>1, <1>2, <1>3, QuietStays DEF Undoing

\* Actions RollbackLeaf and RollbackWrite fit: they leave the ledger and the journals.
LEMMA RollbackLeafFits ==
    ASSUME IInv, LedgerSound, NEW h \in Hooks, HookSound(h), RollbackLeaf(h) \/ RollbackWrite(h)
    PROVE  Fits(h)
<1>1. InTransaction(h) /\ UNCHANGED <<ledger, journals, clock, committed>>
  BY DEF RollbackLeaf, RollbackWrite, InTransaction, Undoing, disk, hist
<1>2. hook[h] \in HookStates(hook[h].key)
  BY <1>1, OwnLedgers
<1>3. ASSUME NEW s, Becomes(h, s), s.pc \in {"rbleaf", "rbwrite"},
             s.key = hook[h].key, s.todo = hook[h].todo, s.jr = hook[h].jr,
             s.recovering = hook[h].recovering, s.conf = hook[h].conf
      PROVE  Fits(h)
  <2>1. LedgerAt(h)'
    BY <1>3, HookAfter DEF LedgerAt
  <2> QED BY <1>1, <1>3, <2>1, QuietStays DEF Undoing
<1>4. CASE RollbackLeaf(h)
  <2>. DEFINE s1 == [hook[h] EXCEPT !.at = Tail(@)]
              s2 == [hook[h] EXCEPT !.pc = "rbwrite"]
              s3 == [hook[h] EXCEPT !.at = Tail(@), !.bad = TRUE]
  <2>1. Becomes(h, s1) \/ Becomes(h, s2) \/ Becomes(h, s3)
    BY <1>4 DEF RollbackLeaf
  <2>2. hook[h].pc = "rbleaf"
    BY <1>4 DEF RollbackLeaf
  <2>3. \A s \in {s1, s2, s3} : /\ s.pc \in {"rbleaf", "rbwrite"}
                                /\ s.key = hook[h].key /\ s.todo = hook[h].todo /\ s.jr = hook[h].jr
                                /\ s.recovering = hook[h].recovering /\ s.conf = hook[h].conf
    BY <1>2, <2>2 DEF HookStates
  <2>. HIDE DEF s1, s2, s3
  <2> QED BY <1>3, <2>1, <2>3
<1>5. CASE RollbackWrite(h)
  <2>. DEFINE t(b) == [hook[h] EXCEPT !.pc = "rbleaf", !.at = Tail(@), !.bad = b]
  <2>1. Becomes(h, t(hook[h].bad)) \/ Becomes(h, t(TRUE))
    BY <1>5 DEF RollbackWrite
  <2>2. ASSUME NEW b PROVE
          /\ t(b).pc = "rbleaf" /\ t(b).key = hook[h].key /\ t(b).todo = hook[h].todo
          /\ t(b).jr = hook[h].jr /\ t(b).recovering = hook[h].recovering /\ t(b).conf = hook[h].conf
    BY <1>2 DEF HookStates
  <2>. HIDE DEF t
  <2> QED BY <1>3, <2>1, <2>2
<1> QED BY <1>4, <1>5

\* A transaction that ends without a commit; the journal may be left.
LEMMA AbandonFits ==
    ASSUME IInv, NEW h \in Hooks, HookSound(h), HoldsClaim(h),
           Abandon(h) \/ (Reject(h) /\ ~hook[h].recovering),
           LedgerSound', UNCHANGED committed,
           \A p \in Proposals : Pending(p)' => Pending(p) \/ (p = hook[h].key /\ p \in Mine[h]),
           HasProposal(h)
    PROVE  Fits(h)
<1>. DEFINE todo == hook[h].todo
<1>1. todo \in SUBSET Proposals
  BY StateTyped DEF IInv, HookStates
<1>2. CASE Becomes(h, Idle)
  BY <1>2, HookAfter, IdleSound DEF Fits
<1>3. CASE ~hook[h].recovering /\ Becomes(h, AtNext(todo))
  <2>1. \A p \in todo : p \in Mine[h] /\ (Pending(p)' => Shared(h, p))
    BY <1>1, <1>3 DEF HookSound, ReportHook
  <2>2. hook'[h] = AtNext(todo)
    BY <1>3, HookAfter
  <2>3. HookSound(h)'
    BY <1>1, <2>1, <2>2, NextSound
  <2> QED BY <1>3, <2>3, HookAfter DEF Fits
<1> QED BY <1>2, <1>3 DEF Abandon, Reject

\* Action RollbackLedger fits: the entry of the journal is undone, or the journal stays.
LEMMA RollbackLedgerFits ==
    ASSUME IInv, LedgerSound, NEW h \in Hooks, HookSound(h), RollbackLedger(h) PROVE Fits(h)
<1>. DEFINE k == hook[h].key
            j == hook[h].jr
<1>1. InTransaction(h) /\ UNCHANGED <<journals, clock, committed>>
  BY DEF RollbackLedger, InTransaction, Undoing, hist
<1>2. /\ k \in Proposals /\ Pending(k) /\ HoldsClaim(h) /\ HasProposal(h)
      /\ journals[k].ledgerBefore = j.ledgerBefore /\ journals[k].ledgerAfter = j.ledgerAfter
  BY <1>1, OwnLedgers DEF HasProposal
<1>3. JournalsKept
  BY <1>1 DEF JournalsKept, Pending, LedgerSound, JournalSound
<1>4. ledger' = ledger \/ (ledger = j.ledgerAfter /\ ledger' = j.ledgerBefore)
  BY DEF RollbackLedger
<1>5. LedgerSound'
  BY <1>1, <1>2, <1>3, <1>4, KeptSound, RestoredSound
<1>6. CASE Abandon(h)
  BY <1>1, <1>2, <1>5, <1>6, AbandonFits DEF Pending
<1>7. ASSUME NEW b \in BOOLEAN, Becomes(h, [hook[h] EXCEPT !.pc = "rbdone", !.bad = b]),
             b \/ ledger' = j.ledgerBefore
      PROVE  Fits(h)
  <2>. DEFINE s == [hook[h] EXCEPT !.pc = "rbdone", !.bad = b]
  <2>1. /\ s.pc = "rbdone" /\ s.bad = b /\ s.key = k /\ s.todo = hook[h].todo /\ s.jr = j
        /\ s.recovering = hook[h].recovering /\ s.conf = hook[h].conf
    BY <1>1, OwnLedgers DEF HookStates
  <2>. HIDE DEF s
  <2>2. hook'[h] = s
    BY <1>7, HookAfter DEF s
  <2>3. SameWork(h) /\ LedgerAt(h)'
    BY <1>7, <2>1, <2>2 DEF SameWork, LedgerAt, Clean
  <2>4. HookSound(h)'
    BY <1>1, <1>3, <2>1, <2>2, <2>3, OwnLedgers, StaysSound DEF Undoing
  <2> QED BY <1>1, <1>2, <1>5, <1>7, <2>4, HookAfter DEF Fits, Pending
<1>8. hook[h].bad \in BOOLEAN
  BY <1>1, OwnLedgers DEF HookStates
<1> QED BY <1>6, <1>7, <1>8 DEF RollbackLedger

\* Action RollbackDone fits: the journal goes only when the ledger does not hold its entry.
LEMMA RollbackDoneFits ==
    ASSUME IInv, LedgerSound, NEW h \in Hooks, HookSound(h), RollbackDone(h) PROVE Fits(h)
<1>. DEFINE k == hook[h].key
            gone == [journals EXCEPT ![k] = None]
<1>1. InTransaction(h) /\ UNCHANGED <<ledger, clock, committed>>
  BY DEF RollbackDone, InTransaction, Undoing, hist
<1>2. /\ k \in Proposals /\ Pending(k) /\ HoldsClaim(h) /\ HasProposal(h)
      /\ journals[k].ledgerBefore = hook[h].jr.ledgerBefore
      /\ Clean(h) => ledger = hook[h].jr.ledgerBefore
  BY <1>1, OwnLedgers DEF HasProposal, LedgerAt, RollbackDone
<1>3. journals' = journals \/ (Clean(h) /\ journals' = gone)
  BY DEF RollbackDone
<1>4. LedgerSound'
  <2>1. CASE UNCHANGED journals
    <3>1. JournalsKept
      BY <1>1, <2>1 DEF JournalsKept, Pending, LedgerSound, JournalSound
    <3> QED BY <1>1, <3>1, KeptSound
  <2>2. CASE Clean(h) /\ journals' = gone
    BY <1>1, <1>2, <2>2, UndoneSound
  <2> QED BY <1>3, <2>1, <2>2
<1>5. (\A q \in Proposals : Pending(q)' => Pending(q)) /\ (journals' = gone => journals'[k] = None)
  <2>1. journals = [q \in Proposals |-> journals[q]]
    BY DEF IInv, DataTyped
  <2>2. gone[k] = None /\ \A q \in Proposals \ {k} : gone[q] = journals[q]
    BY <1>2, <2>1
  <2>. HIDE DEF gone
  <2> QED BY <1>3, <2>2 DEF Pending
<1>6. CASE Abandon(h)
  BY <1>1, <1>2, <1>4, <1>5, <1>6, AbandonFits
<1>7. CASE /\ hook[h].recovering
           /\ Becomes(h, [hook[h] EXCEPT !.pc = "recovering", !.conf = @ \/ ~Clean(h), !.key = None, !.jr = None])
           /\ journals' = IF Clean(h) THEN gone ELSE journals
  <2>. DEFINE s == [hook[h] EXCEPT !.pc = "recovering", !.conf = @ \/ ~Clean(h), !.key = None, !.jr = None]
  <2>1. /\ s.pc = "recovering" /\ s.conf = (hook[h].conf \/ ~Clean(h)) /\ s.todo = hook[h].todo
        /\ s.recovering = hook[h].recovering
    BY <1>1, OwnLedgers DEF HookStates
  <2>. HIDE DEF s
  <2>2. hook'[h] = s
    BY <1>7, HookAfter DEF s
  <2>3. hook[h].conf \/ ~Clean(h) \/ \A q \in Proposals : Pending(q)' => q \in hook[h].todo
    <3>1. hook[h].conf \/ \A q \in Proposals : Pending(q) => q \in hook[h].todo \/ q = k
      BY <1>7 DEF HookSound, ReportHook
    <3>2. Clean(h) => journals'[k] = None
      BY <1>5, <1>7
    <3> QED BY <1>5, <3>1, <3>2 DEF Pending
  <2>4. HookSound(h)'
    BY <1>7, <2>1, <2>2, <2>3, LoopSound
  <2> QED BY <1>1, <1>2, <1>4, <1>5, <1>7, <2>4, HookAfter DEF Fits
<1> QED BY <1>6, <1>7 DEF RollbackDone

\* Fits of the steps of an apply.
LEMMA LeftToDo ==
    ASSUME IInv, NEW h \in Hooks, HookSound(h), hook[h].pc = "next" \/ (HasProposal(h) /\ ~InTransaction(h))
    PROVE  /\ ~hook[h].recovering /\ hook[h].todo \in SUBSET Proposals
           /\ hook[h] \in HookStates(hook[h].key)
           /\ HasProposal(h) => hook[h].key \in Proposals /\ hook[h].key \notin hook[h].todo
           /\ \A p \in hook[h].todo : p \in Mine[h] /\ (Pending(p) => Shared(h, p))
<1>1. ~hook[h].recovering
  BY DEF HookSound, ReportHook, HasProposal, InTransaction, Writing, Undoing
<1>2. hook[h] \in HookStates(hook[h].key) /\ (HasProposal(h) => hook[h].key \in Proposals)
  BY StateTyped DEF IInv, Serial
<1> QED BY <1>1, <1>2 DEF HookSound, ReportHook, HookStates

\* A hook that turns to its next proposal, the rest unchanged.
LEMMA ToNextFits ==
    ASSUME IInv, LedgerSound, NEW h \in Hooks, HookSound(h),
           hook[h].pc = "next" \/ (HasProposal(h) /\ ~InTransaction(h)),
           NEW todo \in SUBSET Proposals, todo \subseteq hook[h].todo,
           Becomes(h, AtNext(todo)) \/ Becomes(h, Idle),
           UNCHANGED <<ledger, journals, clock, committed>>
    PROVE  Fits(h)
<1>1. CASE Becomes(h, Idle)
  BY <1>1, HookAfter, IdleSound, QuietFits
<1>2. CASE Becomes(h, AtNext(todo))
  <2>1. \A p \in todo : p \in Mine[h] /\ (Pending(p)' => Shared(h, p))
    BY LeftToDo DEF Pending
  <2>2. HookSound(h)'
    BY <1>2, <2>1, HookAfter, NextSound
  <2> QED BY <1>2, <2>2, QuietFits
<1> QED BY <1>1, <1>2

\* Actions ReportOwned and Emit fit: they leave the ledger and the journals.
LEMMA ReportFits ==
    ASSUME IInv, LedgerSound, NEW h \in Hooks, HookSound(h),
           Emit(h) \/ HookDone(h) \/ \E p \in Proposals : ReportOwned(h, p)
    PROVE  Fits(h)
<1>1. CASE Emit(h)
  BY <1>1, LeftToDo, ToNextFits DEF Emit, Report, disk, HasProposal, InTransaction, Writing, Undoing
<1>2. CASE HookDone(h)
  <2>1. {} \in SUBSET Proposals /\ {} \subseteq hook[h].todo
    OBVIOUS
  <2> QED BY <1>2, <2>1, ToNextFits DEF HookDone, disk, hist
<1>3. ASSUME NEW p \in Proposals, ReportOwned(h, p) PROVE Fits(h)
  <2>1. hook[h].todo \ {p} \in SUBSET Proposals /\ hook[h].todo \ {p} \subseteq hook[h].todo
    BY <1>3, LeftToDo DEF ReportOwned
  <2> QED BY <1>3, <2>1, ToNextFits DEF ReportOwned, Report, disk
<1> QED BY <1>1, <1>2, <1>3

\* Action Observe fits: the proposal is owned by nobody.
LEMMA ObserveFits ==
    ASSUME IInv, LedgerSound, NEW h \in Hooks, HookSound(h), NEW p \in Proposals, Observe(h, p)
    PROVE  Fits(h)
<1>. DEFINE todo == hook[h].todo \ {p}
            s == [AtNext(todo) EXCEPT !.pc = "claim", !.key = p]
<1>1. todo \in SUBSET Proposals /\ todo \subseteq hook[h].todo /\ p \in Mine[h]
  BY LeftToDo DEF Observe
<1>2. UNCHANGED <<ledger, journals, clock, committed>> /\ hook[h].pc = "next"
  BY DEF Observe, disk, hist
<1>3. CASE Becomes(h, AtNext(todo)) \/ Becomes(h, Idle)
  BY <1>1, <1>2, <1>3, ToNextFits
<1>4. CASE Becomes(h, s)
  <2>1. s.pc = "claim" /\ s.key = p /\ s.todo = todo /\ ~s.recovering
    BY DEF AtNext, Idle
  <2>. HIDE DEF s
  <2>2. hook'[h] = s
    BY <1>4, HookAfter
  <2>3. \A q \in todo : q \in Mine[h] /\ (Pending(q)' => Shared(h, q))
    BY <1>1, <1>2, LeftToDo DEF Pending
  <2>4. HookSound(h)'
    BY <1>1, <2>1, <2>2, <2>3 DEF HookSound, LedgerHook, LedgerAt, ReportHook, HasProposal, InTransaction,
                                  Writing, Undoing, Shared
  <2> QED BY <1>2, <1>4, <2>4, QuietFits
<1> QED BY <1>3, <1>4 DEF Observe

\* A hook that goes on with its proposal, outside any transaction.
LEMMA GoesOn ==
    ASSUME IInv, NEW h \in Hooks, HookSound(h), HasProposal(h), ~InTransaction(h),
           hook'[h].key = hook[h].key, hook'[h].todo \subseteq hook[h].todo, ~hook'[h].recovering,
           \/ hook'[h].pc \in {"claim", "plan", "prepare"} /\ hook[h].key \in Mine[h]
           \/ hook'[h].pc \in {"cleanup", "emit"} /\ hook[h].key \in committed',
           hook'[h].pc = "prepare" => journals'[hook[h].key] = None,
           \A p \in Proposals : Pending(p)' => Pending(p)
    PROVE  HookSound(h)'
<1>1. \A p \in hook'[h].todo : p \in Mine[h] /\ (Pending(p)' => Shared(h, p))
  BY LeftToDo
<1>2. hook'[h].key \notin hook'[h].todo
  BY LeftToDo
<1> QED BY <1>1, <1>2 DEF HookSound, LedgerHook, LedgerAt, ReportHook, HasProposal, InTransaction,
                          Writing, Undoing, Shared, Pending

\* Action ClaimForApply fits: what the hook has observed stays.
LEMMA ClaimForApplyFits ==
    ASSUME IInv, LedgerSound, NEW h \in Hooks, HookSound(h), ClaimForApply(h) PROVE Fits(h)
<1>. DEFINE s == [hook[h] EXCEPT !.pc = "plan"]
<1>1. /\ HasProposal(h) /\ ~InTransaction(h) /\ hook[h].key \in Mine[h]
      /\ UNCHANGED <<ledger, journals, clock, committed>>
  BY DEF ClaimForApply, HasProposal, InTransaction, Writing, Undoing, HookSound, ReportHook, disk, hist
<1>2. CASE Becomes(h, AtNext(hook[h].todo))
  BY <1>1, <1>2, LeftToDo, ToNextFits
<1>3. CASE Becomes(h, s)
  <2>1. s.pc = "plan" /\ s.key = hook[h].key /\ s.todo = hook[h].todo /\ ~s.recovering
    BY <1>1, LeftToDo DEF HookStates
  <2>. HIDE DEF s
  <2>2. HookSound(h)'
    BY <1>1, <1>3, <2>1, HookAfter, GoesOn DEF Pending
  <2> QED BY <1>1, <1>3, <2>2, QuietFits
<1> QED BY <1>2, <1>3 DEF ClaimForApply

\* A proposal that is not applied.
LEMMA RejectFits ==
    ASSUME IInv, LedgerSound, NEW h \in Hooks, HookSound(h), hook[h].pc \in {"plan", "prepare"}, Reject(h),
           LedgerSound', UNCHANGED committed,
           \A p \in Proposals : Pending(p)' => Pending(p) \/ p = hook[h].key
    PROVE  Fits(h)
<1>1. HasProposal(h) /\ ~InTransaction(h) /\ HoldsClaim(h) /\ hook[h].key \in Mine[h]
  BY DEF HasProposal, InTransaction, HoldsClaim, Writing, Undoing, HookSound, ReportHook
<1> QED BY <1>1, LeftToDo, AbandonFits

\* Action DropCommitted fits: the journal removed has committed.
LEMMA DropCommittedFits ==
    ASSUME IInv, LedgerSound, NEW h \in Hooks, HookSound(h), DropCommitted(h) PROVE Fits(h)
<1>. DEFINE k == hook[h].key
<1>1. /\ HasProposal(h) /\ ~InTransaction(h) /\ HoldsClaim(h) /\ k \in Mine[h]
      /\ UNCHANGED <<ledger, clock, committed>>
      /\ journals' \in {journals, [journals EXCEPT ![k] = None]}
  BY DEF DropCommitted, HasProposal, InTransaction, HoldsClaim, Writing, Undoing, HookSound, ReportHook, hist
<1>2. k \in Proposals /\ k \in committed
  BY <1>1, LeftToDo, CommittedRecord DEF DropCommitted
<1>3. LedgerSound' /\ \A p \in Proposals : Pending(p)' => Pending(p)
  BY <1>1, <1>2, CommittedGone
<1>4. CASE Reject(h)
  BY <1>1, <1>3, <1>4, RejectFits DEF DropCommitted
<1>5. CASE UNCHANGED hook
  <2>1. HookSound(h)'
    BY <1>1, <1>3, <1>5, LeftToDo, GoesOn DEF DropCommitted
  <2> QED BY <1>1, <1>3, <1>5, <2>1 DEF Fits
<1> QED BY <1>4, <1>5 DEF DropCommitted

\* What the ledger names has committed, or has its journal.
LEMMA NamedInLedger ==
    ASSUME LedgerSound, NEW t \in Topics, ledger[t] # None, ledger[t].key # OldKey
    PROVE  ledger[t].key \in committed \/ Pending(ledger[t].key)
<1>1. PICK D \in SUBSET Proposals : Settled(D)
  BY DEF LedgerSound
<1> QED BY <1>1 DEF Settled, Good, InJournal

\* Action Plan fits: an applied proposal has committed or is still in its journal.
LEMMA PlanFits ==
    ASSUME IInv, LedgerSound, NEW h \in Hooks, HookSound(h), Plan(h) PROVE Fits(h)
<1>. DEFINE k == hook[h].key
            e == [hook[h] EXCEPT !.pc = "emit"]
            r == [hook[h] EXCEPT !.pc = "prepare"]
<1>1. /\ HasProposal(h) /\ ~InTransaction(h) /\ k \in Mine[h]
      /\ UNCHANGED <<ledger, journals, clock, committed>>
  BY DEF Plan, HasProposal, InTransaction, Writing, Undoing, HookSound, ReportHook, disk, hist
<1>2. hook[h] \in HookStates(k) /\ k \in Proposals /\ ~hook[h].recovering
  BY <1>1, LeftToDo
<1>3. CASE Reject(h)
  BY <1>1, <1>3, LeftToDo, ToNextFits DEF Reject
<1>4. CASE AlreadyApplied(k) /\ ~Pending(k) /\ Becomes(h, e)
  <2>1. k \in committed
    BY <1>2, <1>4, NamedInLedger, DistinctAssumption DEF AlreadyApplied
  <2>2. e.pc = "emit" /\ e.key = k /\ e.todo = hook[h].todo /\ ~e.recovering
    BY <1>2 DEF HookStates
  <2>. HIDE DEF e
  <2>3. HookSound(h)'
    BY <1>1, <1>4, <2>1, <2>2, HookAfter, GoesOn DEF Pending
  <2> QED BY <1>1, <1>4, <2>3, QuietFits
<1>5. CASE ~Pending(k) /\ Becomes(h, r)
  <2>1. r.pc = "prepare" /\ r.key = k /\ r.todo = hook[h].todo /\ ~r.recovering
    BY <1>2 DEF HookStates
  <2>. HIDE DEF r
  <2>2. HookSound(h)'
    BY <1>1, <1>5, <2>1, HookAfter, GoesOn DEF Pending
  <2> QED BY <1>1, <1>5, <2>2, QuietFits
<1> QED BY <1>3, <1>4, <1>5 DEF Plan

\* Action Prepare fits: the new entry is stamped later than all others.
LEMMA PrepareFits ==
    ASSUME IInv, LedgerSound, NEW h \in Hooks, HookSound(h), Prepare(h) PROVE Fits(h)
<1>. DEFINE k == hook[h].key
            j == NewJournal(k)
            s == [hook[h] EXCEPT !.pc = "check", !.jr = j, !.at = LeavesOf(k)]
<1>1. /\ HasProposal(h) /\ ~InTransaction(h) /\ HoldsClaim(h) /\ k \in Mine[h] /\ ~Pending(k)
      /\ bound[k] \in Memories /\ UNCHANGED <<ledger, committed>>
  BY DEF Prepare, HasProposal, InTransaction, HoldsClaim, Writing, Undoing, HookSound, LedgerHook,
         ReportHook, IInv, Serial
<1>2. hook[h] \in HookStates(k) /\ k \in Proposals /\ ~hook[h].recovering
  BY <1>1, LeftToDo
<1>3. CASE Reject(h) /\ UNCHANGED <<journals, clock>>
  BY <1>1, <1>2, <1>3, LeftToDo, ToNextFits DEF Reject
<1>4. CASE clock' = clock + 1 /\ journals' \in {journals, [journals EXCEPT ![k] = j]}
  <2>1. LedgerSound'
    BY <1>1, <1>2, <1>4, PrepareSound
  <2>2. j \in JournalsOf(k) /\ j # None /\ j.ledgerBefore = ledger
    BY <1>1, <1>2, NewJournalTyped DEF NewJournal
  <2>. HIDE DEF j
  <2>3. \A p \in Proposals : Pending(p)' => Pending(p) \/ p = k
    BY <1>4 DEF IInv, DataTyped, Pending
  <2>4. CASE Reject(h)
    BY <1>1, <2>1, <2>3, <2>4, RejectFits DEF Prepare
  <2>5. CASE journals' = [journals EXCEPT ![k] = j] /\ Becomes(h, s)
    <3>1. journals'[k] = j
      BY <1>2, <2>5 DEF IInv, DataTyped
    <3>2. s.pc = "check" /\ s.key = k /\ s.jr = j /\ s.todo = hook[h].todo /\ ~s.recovering
      BY <1>2 DEF HookStates
    <3>. HIDE DEF s
    <3>3. hook'[h] = s
      BY <2>5, HookAfter
    <3>4. /\ k \notin hook[h].todo
          /\ \A p \in hook[h].todo : p \in Mine[h] /\ (Pending(p)' => Shared(h, p))
      BY <1>1, <2>3, LeftToDo
    <3>5. LedgerHook(h)'
      BY <1>1, <2>2, <3>1, <3>2, <3>3 DEF LedgerHook, LedgerAt
    <3>6. ReportHook(h)'
      BY <3>2, <3>3, <3>4 DEF ReportHook, Shared
    <3> QED BY <1>1, <2>1, <2>3, <2>5, <3>5, <3>6, HookAfter DEF Fits, HookSound
  <2> QED BY <1>4, <2>4, <2>5 DEF Prepare, j
<1> QED BY <1>3, <1>4 DEF Prepare

\* A step inside a transaction.
LEMMA StaysFits ==
    ASSUME IInv, NEW h \in Hooks, HookSound(h), InTransaction(h), NEW s, Becomes(h, s),
           s.pc \in Undoing \/ (hook[h].pc \in Writing /\ s.pc \in Writing),
           s.key = hook[h].key, s.todo = hook[h].todo,
           s.jr.ledgerBefore = hook[h].jr.ledgerBefore, s.jr.ledgerAfter = hook[h].jr.ledgerAfter,
           s.recovering = hook[h].recovering, s.conf = hook[h].conf,
           JournalsKept, Kept(h), LedgerAt(h)', LedgerSound'
    PROVE  Fits(h)
<1>1. hook'[h] = s
  BY HookAfter
<1>2. SameWork(h)
  BY <1>1 DEF SameWork
<1>3. HookSound(h)'
  BY <1>1, <1>2, StaysSound
<1> QED BY <1>3, HookAfter, OwnLedgers DEF Fits, JournalsKept

\* The catch of an apply.
LEMMA FailFits ==
    ASSUME IInv, NEW h \in Hooks, HookSound(h), InTransaction(h), Fail(h),
           JournalsKept, Kept(h), LedgerSound'
    PROVE  Fits(h)
<1>. DEFINE k == hook[h].key
            s == RollbackOf(h, k, hook[h].jr)
<1>1. k \in Proposals /\ hook[h].jr \in JournalsOf(k) /\ hook[h] \in HookStates(k)
  BY TransactionFacts DEF OwnsJournal
<1>2. s.pc = "rbleaf" /\ s.key = k /\ s.jr = hook[h].jr /\ s.todo = hook[h].todo
  BY <1>1, RollbackTyped
<1>3. s.recovering = hook[h].recovering /\ s.conf = hook[h].conf
  BY <1>1 DEF RollbackOf, HookStates
<1>4. Becomes(h, s)
  BY DEF Fail
<1>. HIDE DEF s
<1>5. LedgerAt(h)'
  BY <1>2, <1>4, HookAfter DEF LedgerAt
<1> QED BY <1>2, <1>3, <1>4, <1>5, StaysFits DEF Undoing

\* Actions CheckLeaf and RenameLeaf fit: they leave the ledger and the journals.
LEMMA LeafFits ==
    ASSUME IInv, LedgerSound, NEW h \in Hooks, HookSound(h), CheckLeaf(h) \/ RenameLeaf(h) PROVE Fits(h)
<1>. DEFINE s(pc) == [hook[h] EXCEPT !.pc = pc]
<1>1. /\ InTransaction(h) /\ UNCHANGED <<ledger, journals, clock, committed>>
      /\ hook[h].pc \in {"check", "rename"}
      /\ Fail(h) \/ Becomes(h, s("rename")) \/ Becomes(h, s("mark"))
  BY DEF CheckLeaf, RenameLeaf, InTransaction, Writing, disk, hist
<1>2. /\ hook[h] \in HookStates(hook[h].key) /\ Kept(h)
      /\ ledger = hook[h].jr.ledgerBefore
  BY <1>1, OwnLedgers DEF LedgerAt
<1>3. JournalsKept
  BY <1>1 DEF JournalsKept, Pending, LedgerSound, JournalSound
<1>4. CASE Fail(h)
  BY <1>1, <1>2, <1>3, <1>4, KeptSound, FailFits
<1>5. ASSUME NEW pc \in {"rename", "mark"}, Becomes(h, s(pc)) PROVE Fits(h)
  <2>1. /\ s(pc).pc = pc /\ s(pc).key = hook[h].key /\ s(pc).todo = hook[h].todo /\ s(pc).jr = hook[h].jr
        /\ s(pc).recovering = hook[h].recovering /\ s(pc).conf = hook[h].conf
    BY <1>2 DEF HookStates
  <2>. HIDE DEF s
  <2>2. LedgerAt(h)'
    BY <1>1, <1>2, <1>5, <2>1, HookAfter DEF LedgerAt
  <2> QED BY <1>1, <1>5, <2>1, <2>2, QuietStays DEF Writing
<1> QED BY <1>1, <1>4, <1>5

\* Another phase of the journal keeps it, if it says "committed" only when the proposal did.
LEMMA PhaseKept ==
    ASSUME IInv, LedgerSound, NEW h \in Hooks, HookSound(h), InTransaction(h),
           NEW phase \in Phases, NEW j, j = [hook[h].jr EXCEPT !.phase = phase],
           journals' \in {journals, [journals EXCEPT ![hook[h].key] = j]},
           committed \subseteq committed',
           journals' # journals => (phase = "committed" => hook[h].key \in committed')
    PROVE  /\ JournalsKept /\ Kept(h)
           /\ j.ledgerBefore = hook[h].jr.ledgerBefore /\ j.ledgerAfter = hook[h].jr.ledgerAfter
<1>. DEFINE k == hook[h].key
<1>1. /\ k \in Proposals /\ Pending(k)
      /\ journals[k].ledgerBefore = hook[h].jr.ledgerBefore
      /\ journals[k].ledgerAfter = hook[h].jr.ledgerAfter
  BY OwnLedgers
<1>2. j \in JournalsOf(k) /\ j # None /\ Kept(h)
  BY <1>1, PhaseWritten
<1>3. /\ j.ledgerBefore = hook[h].jr.ledgerBefore /\ j.ledgerAfter = hook[h].jr.ledgerAfter
      /\ j.phase = phase
  <2>1. hook[h].jr \in JournalsOf(k)
    BY TransactionFacts DEF OwnsJournal
  <2> QED BY <2>1 DEF JournalsOf
<1>4. ASSUME NEW q \in Proposals
      PROVE  /\ Pending(q)' <=> Pending(q)
             /\ Pending(q)' => /\ journals'[q].ledgerBefore = journals[q].ledgerBefore
                               /\ journals'[q].ledgerAfter = journals[q].ledgerAfter
                               /\ journals'[q].phase = "committed" => q \in committed'
  <2>1. CASE journals'[q] = journals[q]
    BY <2>1 DEF Pending, LedgerSound, JournalSound
  <2>2. CASE q = k /\ journals' # journals /\ journals'[q] = j
    BY <1>1, <1>2, <1>3, <2>2 DEF Pending
  <2> QED BY <1>1, <2>1, <2>2 DEF IInv, DataTyped
<1> QED BY <1>2, <1>3, <1>4 DEF JournalsKept

\* Actions MarkLeaf and MarkLedger fit: only the phase of the journal changes.
LEMMA MarkFits ==
    ASSUME IInv, LedgerSound, NEW h \in Hooks, HookSound(h), MarkLeaf(h) \/ MarkLedger(h) PROVE Fits(h)
<1>1. /\ InTransaction(h) /\ UNCHANGED <<ledger, clock, committed>>
      /\ hook[h].pc \in {"mark", "markledger"}
  BY DEF MarkLeaf, MarkLedger, InTransaction, Writing, hist
<1>2. PICK phase, pc, rest :
        /\ phase \in Phases \ {"committed"} /\ pc \in {"check", "ledger", "commit"}
        /\ Advance(h, phase, pc, rest)
        /\ pc = "commit" <=> hook[h].pc = "markledger"
  <2>1. CASE MarkLeaf(h)
    <3>. DEFINE phase == IF Head(hook[h].at) = Index THEN "index_applied" ELSE "topic_applied"
                pc == IF Tail(hook[h].at) = <<>> THEN "ledger" ELSE "check"
    <3>1. phase \in Phases \ {"committed"} /\ pc \in {"check", "ledger"}
      BY DEF Phases
    <3>2. Advance(h, phase, pc, Tail(hook[h].at)) /\ hook[h].pc = "mark"
      BY <2>1 DEF MarkLeaf
    <3> QED BY <3>1, <3>2
  <2>2. CASE MarkLedger(h)
    <3>1. "ledger_applied" \in Phases \ {"committed"}
      BY DEF Phases
    <3>2. Advance(h, "ledger_applied", "commit", <<>>) /\ hook[h].pc = "markledger"
      BY <2>2 DEF MarkLedger
    <3> QED BY <3>1, <3>2
  <2> QED BY <2>1, <2>2
<1>. DEFINE j == [hook[h].jr EXCEPT !.phase = phase]
            s == [hook[h] EXCEPT !.pc = pc, !.jr = j, !.at = rest]
<1>3. journals' \in {journals, [journals EXCEPT ![hook[h].key] = j]} /\ (Fail(h) \/ Becomes(h, s))
  BY <1>2 DEF Advance
<1>4. /\ JournalsKept /\ Kept(h)
      /\ j.ledgerBefore = hook[h].jr.ledgerBefore /\ j.ledgerAfter = hook[h].jr.ledgerAfter
  BY <1>1, <1>2, <1>3, PhaseKept
<1>5. LedgerSound' /\ hook[h] \in HookStates(hook[h].key) /\ LedgerAt(h)
  BY <1>1, <1>4, KeptSound, OwnLedgers
<1>. HIDE DEF j
<1>6. CASE Fail(h)
  BY <1>1, <1>4, <1>5, <1>6, FailFits
<1>7. CASE Becomes(h, s)
  <2>1. /\ s.pc = pc /\ s.key = hook[h].key /\ s.todo = hook[h].todo /\ s.jr = j
        /\ s.recovering = hook[h].recovering /\ s.conf = hook[h].conf
    BY <1>5 DEF HookStates
  <2>. HIDE DEF s
  <2>2. LedgerAt(h)'
    BY <1>1, <1>2, <1>4, <1>5, <1>7, <2>1, HookAfter DEF LedgerAt
  <2> QED BY <1>1, <1>2, <1>4, <1>5, <1>7, <2>1, <2>2, StaysFits DEF Writing
<1> QED BY <1>3, <1>6, <1>7

\* Action WriteLedger fits: the entry is in the journal that undoes it.
LEMMA WriteLedgerFits ==
    ASSUME IInv, LedgerSound, NEW h \in Hooks, HookSound(h), WriteLedger(h) PROVE Fits(h)
<1>. DEFINE k == hook[h].key
            s == [hook[h] EXCEPT !.pc = "markledger"]
<1>1. /\ InTransaction(h) /\ UNCHANGED <<journals, clock, committed>> /\ hook[h].pc = "ledger"
      /\ ledger' \in {ledger, hook[h].jr.ledgerAfter}
  BY DEF WriteLedger, InTransaction, Writing, hist
<1>2. /\ hook[h] \in HookStates(k) /\ Kept(h) /\ ledger = hook[h].jr.ledgerBefore
      /\ k \in Proposals /\ Pending(k)
      /\ journals[k].ledgerBefore = hook[h].jr.ledgerBefore
      /\ journals[k].ledgerAfter = hook[h].jr.ledgerAfter
  BY <1>1, OwnLedgers DEF LedgerAt
<1>3. JournalsKept
  BY <1>1 DEF JournalsKept, Pending, LedgerSound, JournalSound
<1>4. LedgerSound'
  BY <1>1, <1>2, <1>3, KeptSound, WrittenSound
<1>5. CASE Fail(h)
  BY <1>1, <1>2, <1>3, <1>4, <1>5, FailFits
<1>6. CASE Becomes(h, s) /\ ledger' = hook[h].jr.ledgerAfter
  <2>1. /\ s.pc = "markledger" /\ s.key = k /\ s.todo = hook[h].todo /\ s.jr = hook[h].jr
        /\ s.recovering = hook[h].recovering /\ s.conf = hook[h].conf
    BY <1>2 DEF HookStates
  <2>. HIDE DEF s
  <2>2. LedgerAt(h)'
    BY <1>6, <2>1, HookAfter DEF LedgerAt
  <2> QED BY <1>1, <1>2, <1>3, <1>4, <1>6, <2>1, <2>2, StaysFits DEF Writing
<1> QED BY <1>5, <1>6 DEF WriteLedger

\* Action Commit fits: the record becomes durable with the phase.
LEMMA CommitFits ==
    ASSUME ~CommitFaults, IInv, LedgerSound, NEW h \in Hooks, HookSound(h), Commit(h) PROVE Fits(h)
<1>. DEFINE k == hook[h].key
            j == [hook[h].jr EXCEPT !.phase = "committed"]
            s == [hook[h] EXCEPT !.pc = "cleanup", !.jr = j]
<1>1. InTransaction(h) /\ UNCHANGED <<ledger, clock>> /\ hook[h].pc = "commit"
  BY DEF Commit, InTransaction, Writing
<1>2. /\ committed \subseteq committed'
      /\ journals' \in {journals, [journals EXCEPT ![k] = j]}
      /\ journals' # journals => k \in committed'
  BY DEF Commit
<1>3. JournalsKept /\ Kept(h)
  BY <1>1, <1>2, PhaseKept DEF Phases
<1>4. LedgerSound' /\ hook[h] \in HookStates(k) /\ HoldsClaim(h) /\ k \in Proposals
  BY <1>1, <1>3, KeptSound, OwnLedgers
<1>5. CASE Fail(h)
  BY <1>1, <1>3, <1>4, <1>5, FailFits
<1>6. CASE Becomes(h, s) /\ k \in committed'
  <2>1. s.pc = "cleanup" /\ s.key = k /\ s.todo = hook[h].todo /\ s.recovering = hook[h].recovering
    BY <1>4 DEF HookStates
  <2>2. /\ ~hook[h].recovering /\ k \notin hook[h].todo
        /\ \A p \in hook[h].todo : p \in Mine[h] /\ (Pending(p) => Shared(h, p)) /\ p \in Proposals
    BY <1>1, <1>4, StateTyped DEF HookSound, ReportHook, HasProposal, Undoing, IInv, HookStates
  <2>. HIDE DEF s
  <2>3. hook'[h] = s
    BY <1>6, HookAfter
  <2>4. LedgerHook(h)'
    BY <1>6, <2>1, <2>3 DEF LedgerHook, LedgerAt, InTransaction, Writing, Undoing
  <2>5. ReportHook(h)'
    BY <1>3, <2>1, <2>2, <2>3 DEF ReportHook, JournalsKept, Shared
  <2> QED BY <1>2, <1>3, <1>4, <1>6, <2>4, <2>5, HookAfter DEF Fits, HookSound, JournalsKept
<1> QED BY <1>5, <1>6 DEF Commit

\* Action Cleanup fits: the proposal has committed.
LEMMA CleanupFits ==
    ASSUME IInv, LedgerSound, NEW h \in Hooks, HookSound(h), Cleanup(h) PROVE Fits(h)
<1>. DEFINE k == hook[h].key
            s == [hook[h] EXCEPT !.pc = "emit", !.jr = None, !.todo = {}]
<1>1. /\ HasProposal(h) /\ ~InTransaction(h) /\ HoldsClaim(h) /\ Becomes(h, s)
      /\ UNCHANGED <<ledger, clock, committed>> /\ journals' \in {journals, [journals EXCEPT ![k] = None]}
  BY DEF Cleanup, HasProposal, InTransaction, HoldsClaim, Writing, Undoing, hist
<1>2. hook[h] \in HookStates(k) /\ k \in Proposals /\ ~hook[h].recovering /\ k \in committed
  BY <1>1, LeftToDo DEF HookSound, LedgerHook, Cleanup
<1>3. LedgerSound' /\ \A p \in Proposals : Pending(p)' => Pending(p)
  BY <1>1, <1>2, CommittedGone
<1>4. s.pc = "emit" /\ s.key = k /\ s.todo = {} /\ ~s.recovering
  BY <1>2 DEF HookStates
<1>. HIDE DEF s
<1>5. HookSound(h)'
  BY <1>1, <1>2, <1>3, <1>4, HookAfter, GoesOn
<1> QED BY <1>1, <1>3, <1>5, HookAfter DEF Fits

\* What is reported as learned has committed, unless hooks of one session overlap.
ReportsSound == \A p \in emitted \ committed : \E h \in Hooks : p \in Mine[h] /\ Shared(h, p)

OInv == IInv /\ LedgerSound /\ (\A h \in Hooks : HookSound(h)) /\ ReportsSound

\* Every step of a hook fits.
LEMMA HookFits ==
    ASSUME ~CommitFaults, OInv, NEW h \in Hooks, Stop(h) \/ Crash(h) \/ HookStep(h) PROVE Fits(h)
<1>. USE DEF OInv
<1>1. CASE Stop(h) \/ Crash(h)
  BY <1>1, StopFits
<1>2. CASE Recovery(h)
  BY <1>2, ClaimForRecoveryFits, RecoveryThrowsFits, RecoveryDoneFits, SkipJournalFits,
     RemoveCommittedFits, RecoverJournalFits DEF Recovery
<1>3. CASE Rollback(h)
  BY <1>3, RollbackRefusedFits, RollbackLeafFits, RollbackLedgerFits, RollbackDoneFits DEF Rollback
<1>4. CASE Apply(h)
  BY <1>4, ReportFits, ObserveFits, ClaimForApplyFits, DropCommittedFits, PlanFits, PrepareFits,
     LeafFits, MarkFits, WriteLedgerFits, CommitFits, CleanupFits DEF Apply
<1> QED BY <1>1, <1>2, <1>3, <1>4 DEF HookStep

\* A report of p by a hook that may make it.
LEMMA NewReport ==
    ASSUME OInv, NEW h \in Hooks, NEW p \in Proposals,
           \/ ReportOwned(h, p)
           \/ Emit(h) /\ p = hook[h].key
    PROVE  p \in committed \/ (p \in Mine[h] /\ Shared(h, p))
<1>1. CASE ReportOwned(h, p)
  <2>1. PICK t \in Topics : ledger[t] # None /\ ledger[t].key = p
    BY <1>1 DEF ReportOwned, Owned
  <2>2. p \in committed \/ Pending(p)
    BY <2>1, NamedInLedger, DistinctAssumption DEF OInv
  <2>3. p \in Mine[h] /\ (Pending(p) => Shared(h, p))
    BY <1>1, LeftToDo DEF OInv, ReportOwned
  <2> QED BY <2>2, <2>3
<1>2. CASE Emit(h) /\ p = hook[h].key
  BY <1>2 DEF OInv, HookSound, LedgerHook, Emit
<1> QED BY <1>1, <1>2

\* Only these two steps report.
LEMMA WhoReports ==
    ASSUME IInv, [Next]_vars
    PROVE  \/ UNCHANGED emitted
           \/ \E h \in Hooks, p \in Proposals :
                /\ emitted' = emitted \cup {p}
                /\ ReportOwned(h, p) \/ (Emit(h) /\ p = hook[h].key)
<1>1. CASE UNCHANGED vars
  BY <1>1 DEF vars
<1>2. ASSUME NEW p \in Proposals, Review(p) PROVE UNCHANGED emitted
  BY <1>2 DEF Review, hist
<1>3. ASSUME NEW l \in Leaves, Edit(l) PROVE UNCHANGED emitted
  BY <1>3 DEF Edit
<1>4. CASE Deploy
  BY <1>4 DEF Deploy, hist
<1>5. ASSUME NEW h \in Hooks, Stop(h) \/ Crash(h) \/ Recovery(h) \/ Rollback(h) PROVE UNCHANGED emitted
  BY <1>5 DEF Stop, Crash, Recovery, ClaimForRecovery, RecoveryThrows, RecoveryDone, SkipJournal,
              RemoveCommitted, RecoverJournal, Rollback, RollbackRefused, RollbackLeaf, RollbackWrite,
              RollbackLedger, RollbackDone, hist
<1>6. ASSUME NEW h \in Hooks, Emit(h)
      PROVE  UNCHANGED emitted \/ (emitted' = emitted \cup {hook[h].key} /\ hook[h].key \in Proposals)
  BY <1>6 DEF Emit, Report, IInv, Serial, HasProposal
<1>7. ASSUME NEW h \in Hooks, NEW p \in Proposals, ReportOwned(h, p)
      PROVE  UNCHANGED emitted \/ emitted' = emitted \cup {p}
  BY <1>7 DEF ReportOwned, Report
<1>8. ASSUME NEW h \in Hooks, Apply(h), ~Emit(h), \A p \in Proposals : ~ReportOwned(h, p)
      PROVE  UNCHANGED emitted
  BY <1>8 DEF Apply, Observe, HookDone, ClaimForApply, DropCommitted, Plan, Prepare,
              CheckLeaf, RenameLeaf, MarkLeaf, WriteLedger, MarkLedger, Commit, Cleanup, hist
<1> QED BY <1>1, <1>2, <1>3, <1>4, <1>5, <1>6, <1>7, <1>8 DEF Next, HookStep

\* The invariant holds initially.
LEMMA OwnershipInit == Init => OInv
<1>. SUFFICES ASSUME Init PROVE OInv
  OBVIOUS
<1>1. IInv
  BY InitialState
<1>2. \A p \in Proposals : ~Pending(p)
  BY DEF Init, Pending
<1>3. LedgerSound
  <2>1. Settled({})
    BY <1>2, InitialAssumption DEF Init, Settled, Good
  <2>2. \A t \in Topics : ledger[t] # None => ledger[t].at <= clock
    BY InitialAssumption DEF Init
  <2> QED BY <1>2, <2>1, <2>2 DEF LedgerSound
<1>4. \A h \in Hooks : HookSound(h)
  <2> TAKE h \in Hooks
  <2>1. hook[h].pc = "idle" /\ hook[h].todo = {} /\ ~hook[h].recovering
    BY DEF Init, Idle
  <2> QED BY <2>1 DEF HookSound, LedgerHook, LedgerAt, ReportHook, HasProposal, InTransaction, Writing, Undoing
<1>5. ReportsSound
  BY DEF Init, ReportsSound
<1> QED BY <1>1, <1>3, <1>4, <1>5 DEF OInv

\* Every step preserves it.
LEMMA OwnershipStep == ASSUME ~CommitFaults PROVE OInv /\ [Next]_vars => OInv'
<1>. SUFFICES ASSUME OInv, [Next]_vars PROVE OInv'
  OBVIOUS
<1>1. IInv' /\ IInv
  BY NextPreserves DEF OInv
<1>2. ASSUME UNCHANGED <<ledger, journals, hook, committed, clock>>
      PROVE  LedgerSound' /\ (\A g \in Hooks : HookSound(g)') /\ committed \subseteq committed'
  <2>1. LedgerSound'
    BY <1>2 DEF OInv, LedgerSound, JournalSound, Settled, Good, InJournal, EntryOf, Pending
  <2>2. \A h \in Hooks : HookSound(h)'
    BY <1>2 DEF OInv, HookSound, LedgerHook, LedgerAt, ReportHook, HasProposal, InTransaction, Clean, Pending, Shared
  <2> QED BY <1>2, <2>1, <2>2
<1>3. ASSUME NEW h \in Hooks, Stop(h) \/ Crash(h) \/ HookStep(h)
      PROVE  LedgerSound' /\ (\A g \in Hooks : HookSound(g)') /\ committed \subseteq committed'
  <2>1. Fits(h)
    BY <1>3, HookFits
  <2> QED BY <1>1, <2>1, OtherSound DEF OInv, Fits
<1>4. LedgerSound' /\ (\A g \in Hooks : HookSound(g)') /\ committed \subseteq committed'
  <2>1. ASSUME NEW p \in Proposals, Review(p) PROVE UNCHANGED <<ledger, journals, hook, committed, clock>>
    BY <2>1 DEF Review, disk, hist
  <2>2. ASSUME NEW l \in Leaves, Edit(l) PROVE UNCHANGED <<ledger, journals, hook, committed, clock>>
    BY <2>2 DEF Edit
  <2>3. ASSUME Deploy PROVE UNCHANGED <<ledger, journals, hook, committed, clock>>
    BY <2>3 DEF Deploy, disk, hist
  <2>4. ASSUME UNCHANGED vars PROVE UNCHANGED <<ledger, journals, hook, committed, clock>>
    BY <2>4 DEF vars
  <2> QED BY <1>2, <1>3, <2>1, <2>2, <2>3, <2>4 DEF Next
<1>5. ReportsSound'
  <2>1. CASE UNCHANGED emitted
    BY <1>4, <2>1 DEF OInv, ReportsSound, Shared
  <2>2. ASSUME NEW h \in Hooks, NEW p \in Proposals, emitted' = emitted \cup {p},
               ReportOwned(h, p) \/ (Emit(h) /\ p = hook[h].key)
        PROVE  ReportsSound'
    <3>1. p \in committed \/ (p \in Mine[h] /\ Shared(h, p))
      BY <2>2, NewReport
    <3> QED BY <1>4, <2>2, <3>1 DEF OInv, ReportsSound, Shared
  <2> QED BY <1>1, <2>1, <2>2, WhoReports
<1> QED BY <1>1, <1>4, <1>5 DEF OInv

\* If the commit record cannot fail after its rename, the ledger names only
\* proposals that committed or whose journal is there to undo the entry, and a
\* proposal is reported before its commit only where hooks of its session overlap.
THEOREM OwnershipIsJustified == ASSUME ~CommitFaults PROVE Spec => []OwnershipJustified
<1>1. OInv => OwnershipJustified
  <2> SUFFICES ASSUME OInv PROVE OwnershipJustified
    OBVIOUS
  <2>1. \A t \in Topics : ledger[t] # None =>
          ledger[t].key \in committed \cup {OldKey} \/ Pending(ledger[t].key)
    BY NamedInLedger DEF OInv
  <2>2. \A p \in emitted \ committed : \E g, h \in Hooks : g # h /\ p \in Mine[g] \cap Mine[h]
    BY DEF OInv, ReportsSound, Shared
  <2> QED BY <2>1, <2>2 DEF OwnershipJustified
<1> QED BY <1>1, OwnershipInit, OwnershipStep, PTL DEF Spec

-----------------------------------------------------------------------------
(* The links of the index.                                                  *)

IndexImages == {Absent} \cup Seq(Topics \cup {ExtLine})

\* The most links to t the index may have.
Limit(t) == LinksTo(InitMem[Index], t) + Cardinality(Creators(t))
Within(image) == \A t \in Topics : LinksTo(image, t) <= Limit(t)
\* There is room for one more, the one of p.
Short(p, image) == LinksTo(image, TopicOf[p]) < Limit(TopicOf[p])

LinkInv ==
    /\ Within(mem[Index])
    /\ \A p \in Creates : bound[p] # None => Short(p, bound[p][Index])
    /\ \A p \in Creates : Pending(p) => Within(journals[p].before[Index]) /\ Within(journals[p].after[Index])
    /\ \A h \in Hooks : hook[h].pc = "prepare" /\ hook[h].key \in Creates => Short(hook[h].key, mem[Index])

\* The lines of an index that link t.
LinkLines(s, t) == {i \in DOMAIN s : s[i] = t}

\* They are finitely many.
LEMMA LinesFinite ==
    ASSUME NEW s \in Seq(Topics \cup {ExtLine}), NEW t
    PROVE  IsFiniteSet(LinkLines(s, t))
<1>1. IsFiniteSet(1..Len(s)) /\ DOMAIN s = 1..Len(s)
  <2>1. Len(s) \in Nat
    OBVIOUS
  <2> QED BY <2>1, FS_Interval
<1>2. LinkLines(s, t) \in SUBSET (1..Len(s))
  BY <1>1 DEF LinkLines
<1> QED BY <1>1, <1>2, FS_Subset

\* Links are counted by a number.
LEMMA LinksNat == ASSUME NEW image \in IndexImages, NEW t PROVE LinksTo(image, t) \in Nat
<1>1. CASE image = Absent
  BY <1>1 DEF LinksTo
<1>2. CASE image # Absent
  <2>1. image \in Seq(Topics \cup {ExtLine})
    BY <1>2 DEF IndexImages
  <2>2. IsFiniteSet(LinkLines(image, t))
    BY <2>1, LinesFinite
  <2>3. LinksTo(image, t) = Cardinality(LinkLines(image, t))
    BY <1>2 DEF LinksTo, LinkLines
  <2> QED BY <2>2, <2>3, FS_CardinalityType
<1> QED BY <1>1, <1>2

\* A line adds a link to what it names and to nothing else.
LEMMA LinksAppend ==
    ASSUME NEW image \in IndexImages, image # Absent, NEW x \in Topics \cup {ExtLine}, NEW t
    PROVE  LinksTo(Append(image, x), t) <= LinksTo(image, t) + (IF x = t THEN 1 ELSE 0)
<1>. DEFINE n == Len(image)
            app == Append(image, x)
            A == LinkLines(image, t)
            B == LinkLines(app, t)
<1>1. /\ image \in Seq(Topics \cup {ExtLine}) /\ n \in Nat /\ DOMAIN image = 1..n
      /\ app \in Seq(Topics \cup {ExtLine}) /\ DOMAIN app = 1..(n + 1)
      /\ app[n + 1] = x /\ \A i \in 1..n : app[i] = image[i]
  <2>1. image \in Seq(Topics \cup {ExtLine})
    BY DEF IndexImages
  <2>2. n \in Nat /\ DOMAIN image = 1..n
    BY <2>1
  <2>3. /\ app \in Seq(Topics \cup {ExtLine}) /\ Len(app) = n + 1
        /\ app[n + 1] = x /\ \A i \in 1..n : app[i] = image[i]
    BY <2>1, AppendProperties
  <2>4. DOMAIN app = 1..(n + 1)
    BY <2>3
  <2> QED BY <2>1, <2>2, <2>3, <2>4
<1>2. IsFiniteSet(A) /\ Cardinality(A) \in Nat
  <2>1. IsFiniteSet(A)
    BY <1>1, LinesFinite
  <2>. HIDE DEF A
  <2> QED BY <2>1, FS_CardinalityType
<1>3. n + 1 \notin A /\ B = IF x = t THEN A \cup {n + 1} ELSE A
  BY <1>1 DEF LinkLines
<1>4. Cardinality(B) = Cardinality(A) + (IF x = t THEN 1 ELSE 0)
  <2>. HIDE DEF A, B
  <2>1. CASE x = t
    BY <1>2, <1>3, <2>1, FS_AddElement
  <2>2. CASE x # t
    BY <1>2, <1>3, <2>2
  <2> QED BY <2>1, <2>2
<1>5. LinksTo(image, t) = Cardinality(A)
  BY DEF LinksTo, LinkLines
<1>6. LinksTo(app, t) = Cardinality(B) \/ LinksTo(app, t) = 0
  BY DEF LinksTo, LinkLines
<1>. HIDE DEF A, B, app
<1> QED BY <1>2, <1>4, <1>5, <1>6 DEF app

\* Index images, and what another program makes of one.
LEMMA IndexTyped ==
    ASSUME IInv
    PROVE  /\ \A m \in Memories : m[Index] \in IndexImages
           /\ \A p \in Creates : Index \in LeafSet(p) /\ (Pending(p) =>
                journals[p].before[Index] \in IndexImages /\ journals[p].after[Index] \in IndexImages)
<1>1. Index \in Leaves /\ ImagesOf(Index) = IndexImages
  BY DEF Leaves, ImagesOf, IndexImages
<1>2. \A m \in Memories : m[Index] \in IndexImages
  BY <1>1 DEF Memories, ImageMaps
<1>3. ASSUME NEW p \in Creates
      PROVE  /\ Index \in LeafSet(p)
             /\ Pending(p) => /\ journals[p].before[Index] \in IndexImages
                              /\ journals[p].after[Index] \in IndexImages
  <2>1. Index \in LeafSet(p)
    BY DEF LeafSet
  <2>2. ASSUME Pending(p)
        PROVE  journals[p].before \in ImageMaps(LeafSet(p)) /\ journals[p].after \in ImageMaps(LeafSet(p))
    BY <2>2 DEF IInv, DataTyped, JournalOrNone, JournalsOf, Pending
  <2> QED BY <1>1, <2>1, <2>2 DEF ImageMaps
<1> QED BY <1>2, <1>3

\* The limits are numbers, which a review raises.
LEMMA LimitNat ==
    ASSUME NEW t
    PROVE  Limit(t) \in Nat /\ IsFiniteSet(Creators(t)) /\ Cardinality(Creators(t)) \in Nat
<1>1. InitMem[Index] \in IndexImages
  BY InitialAssumption DEF Memories, ImageMaps, Leaves, ImagesOf, IndexImages
<1>2. Creators(t) \in SUBSET Creates
  BY DEF Creators
<1>3. IsFiniteSet(Creators(t)) /\ Cardinality(Creators(t)) \in Nat
  BY <1>2, FiniteAssumption, FS_Subset, FS_CardinalityType
<1> QED BY <1>1, <1>3, LinksNat DEF Limit

\* A review raises the limits, that of its own topic by one.
LEMMA ReviewRaises ==
    ASSUME IInv, NEW p \in Proposals, Review(p), NEW t
    PROVE  /\ Limit(t)' \in Nat /\ Limit(t) <= Limit(t)'
           /\ p \in Creates /\ t = TopicOf[p] => Limit(t) < Limit(t)'
<1>1. bound' = [bound EXCEPT ![p] = mem] /\ bound[p] = None /\ mem # None
  BY DistinctAssumption DEF Review, IInv, DataTyped
<1>2. \A q \in Proposals : bound'[q] # None <=> bound[q] # None \/ q = p
  BY <1>1 DEF IInv, DataTyped
<1>3. Creators(t)' = IF p \in Creates /\ TopicOf[p] = t THEN Creators(t) \cup {p} ELSE Creators(t)
  BY <1>2 DEF Creators
<1>4. p \notin Creators(t)
  BY <1>1 DEF Creators
<1>5. /\ Cardinality(Creators(t)') \in Nat /\ Cardinality(Creators(t)) <= Cardinality(Creators(t)')
      /\ p \in Creates /\ t = TopicOf[p] => Cardinality(Creators(t)') = Cardinality(Creators(t)) + 1
  <2>1. IsFiniteSet(Creators(t)) /\ Cardinality(Creators(t)) \in Nat
    BY LimitNat
  <2>2. CASE p \in Creates /\ TopicOf[p] = t
    <3>1. Cardinality(Creators(t) \cup {p}) = Cardinality(Creators(t)) + 1
      BY <1>4, <2>1, FS_AddElement
    <3> QED BY <1>3, <2>1, <2>2, <3>1
  <2>3. CASE ~(p \in Creates /\ TopicOf[p] = t)
    BY <1>3, <2>1, <2>3
  <2> QED BY <2>2, <2>3
<1>6. LinksTo(InitMem[Index], t) \in Nat
  <2>1. InitMem[Index] \in IndexImages
    BY IndexTyped, InitialAssumption
  <2> QED BY <2>1, LinksNat
<1> QED BY <1>5, <1>6, LimitNat DEF Limit

\* An edit by another program adds no link.
LEMMA EditAddsNoLink ==
    ASSUME IInv, NEW l \in Leaves, Edit(l), NEW t \in Topics
    PROVE  LinksTo(mem'[Index], t) <= LinksTo(mem[Index], t)
<1>1. mem[Index] \in IndexImages
  BY IndexTyped DEF IInv, DataTyped
<1>2. LinksTo(mem[Index], t) \in Nat
  BY <1>1, LinksNat
<1>3. mem'[Index] = mem[Index] \/ mem'[Index] \in ExtImages(Index)
  BY DEF Edit, IInv, DataTyped, Memories, ImageMaps
<1>4. ExtLine # t
  BY DistinctAssumption
<1>5. CASE mem'[Index] = Absent
  BY <1>2, <1>5 DEF LinksTo
<1>6. CASE mem[Index] = Absent /\ mem'[Index] = <<ExtLine>>
  <2>1. {i \in DOMAIN <<ExtLine>> : <<ExtLine>>[i] = t} = {}
    BY <1>4
  <2>2. LinksTo(mem'[Index], t) = 0
    BY <1>6, <2>1, FS_EmptySet DEF LinksTo
  <2> QED BY <1>2, <2>2
<1>7. CASE mem[Index] # Absent /\ mem'[Index] = Append(mem[Index], ExtLine)
  BY <1>1, <1>2, <1>4, <1>7, LinksAppend
<1> QED BY <1>2, <1>3, <1>5, <1>6, <1>7 DEF ExtImages

\* What a step of h does to the journals: it keeps their images, and only
\* Prepare adds one.
ImagesKept(q) ==
    /\ Pending(q)
    /\ journals'[q].before = journals[q].before /\ journals'[q].after = journals[q].after
JournalsFrom(h) ==
    \A q \in Proposals : journals'[q] # None =>
        \/ ImagesKept(q)
        \/ Prepare(h) /\ q = hook[h].key /\ journals'[q] = NewJournal(q)

\* Removing a journal.
LEMMA RemovalFrom ==
    ASSUME IInv, NEW h \in Hooks, NEW k, journals' \in {journals, [journals EXCEPT ![k] = None]}
    PROVE  JournalsFrom(h)
BY DEF JournalsFrom, ImagesKept, Pending, IInv, DataTyped

\* Writing another phase.
LEMMA PhaseFrom ==
    ASSUME IInv, NEW h \in Hooks, InTransaction(h), NEW phase \in Phases,
           NEW j, j = [hook[h].jr EXCEPT !.phase = phase],
           journals' \in {journals, [journals EXCEPT ![hook[h].key] = j]}
    PROVE  JournalsFrom(h)
<1>1. j.before = hook[h].jr.before /\ j.after = hook[h].jr.after
  BY PhaseWritten
<1>2. /\ hook[h].key \in Proposals /\ Pending(hook[h].key)
      /\ journals[hook[h].key].before = hook[h].jr.before
      /\ journals[hook[h].key].after = hook[h].jr.after
  BY TransactionFacts DEF OwnsJournal
<1>3. ASSUME NEW q \in Proposals, journals'[q] # None PROVE ImagesKept(q)
  <2>1. CASE journals'[q] = journals[q]
    BY <1>3, <2>1 DEF ImagesKept, Pending
  <2>2. CASE q = hook[h].key /\ journals'[q] = j
    BY <1>1, <1>2, <2>2 DEF ImagesKept
  <2> QED BY <1>2, <2>1, <2>2 DEF IInv, DataTyped
<1> QED BY <1>3 DEF JournalsFrom

\* Every step of a hook.
LEMMA JournalsOfStep ==
    ASSUME IInv, NEW h \in Hooks, Stop(h) \/ Crash(h) \/ HookStep(h)
    PROVE  JournalsFrom(h)
<1>1. CASE UNCHANGED journals
  BY <1>1, RemovalFrom
<1>2. CASE \/ \E p \in Proposals : RemoveCommitted(h, p)
           \/ RecoveryThrows(h) \/ RollbackDone(h) \/ DropCommitted(h) \/ Cleanup(h)
  <2>1. \E k : journals' \in {journals, [journals EXCEPT ![k] = None]}
    BY <1>2 DEF RemoveCommitted, RecoveryThrows, RollbackDone, DropCommitted, Cleanup
  <2> QED BY <2>1, RemovalFrom
<1>3. CASE MarkLeaf(h) \/ MarkLedger(h) \/ Commit(h)
  <2>1. InTransaction(h)
    BY <1>3 DEF MarkLeaf, MarkLedger, Commit, InTransaction, Writing
  <2>2. \E phase \in Phases : journals' \in
          {journals, [journals EXCEPT ![hook[h].key] = [hook[h].jr EXCEPT !.phase = phase]]}
    BY <1>3 DEF MarkLeaf, MarkLedger, Commit, Advance, Phases
  <2> QED BY <2>1, <2>2, PhaseFrom
<1>4. CASE Prepare(h)
  <2>1. hook[h].key \in Proposals
    BY <1>4 DEF Prepare, IInv, Serial, HasProposal
  <2>2. journals' \in {journals, [journals EXCEPT ![hook[h].key] = NewJournal(hook[h].key)]}
    BY <1>4 DEF Prepare
  <2> QED BY <1>4, <2>1, <2>2 DEF JournalsFrom, ImagesKept, Pending, IInv, DataTyped
<1>5. CASE Stop(h) \/ Crash(h) \/ Recovery(h)
  BY <1>1, <1>2, <1>5 DEF Stop, Crash, Recovery, ClaimForRecovery, RecoveryDone, SkipJournal,
                          RecoverJournal, disk
<1>6. CASE Rollback(h)
  BY <1>1, <1>2, <1>6 DEF Rollback, RollbackRefused, RollbackLeaf, RollbackWrite, RollbackLedger, disk
<1>7. CASE Apply(h)
  BY <1>1, <1>2, <1>3, <1>4, <1>7 DEF Apply, ReportOwned, Observe, HookDone, ClaimForApply, Plan,
                                      CheckLeaf, RenameLeaf, WriteLedger, Emit, disk
<1> QED BY <1>5, <1>6, <1>7 DEF HookStep

\* Only a transaction changes a file, and to an image of its journal.
LEMMA IndexOfStep ==
    ASSUME IInv, NEW h \in Hooks, Stop(h) \/ Crash(h) \/ HookStep(h), mem'[Index] # mem[Index]
    PROVE  /\ InTransaction(h) /\ hook[h].key \in Creates /\ Pending(hook[h].key)
           /\ mem'[Index] \in {journals[hook[h].key].before[Index], journals[hook[h].key].after[Index]}
<1>1. RenameLeaf(h) \/ RollbackWrite(h)
  <2>1. ASSUME Stop(h) \/ Crash(h) \/ Recovery(h) PROVE UNCHANGED mem
    BY <2>1 DEF Stop, Crash, Recovery, ClaimForRecovery, RecoveryThrows, RecoveryDone, SkipJournal,
                RemoveCommitted, RecoverJournal, disk
  <2>2. ASSUME Rollback(h), ~RollbackWrite(h) PROVE UNCHANGED mem
    BY <2>2 DEF Rollback, RollbackRefused, RollbackLeaf, RollbackLedger, RollbackDone, disk
  <2>3. ASSUME Apply(h), ~RenameLeaf(h) PROVE UNCHANGED mem
    BY <2>3 DEF Apply, ReportOwned, Observe, HookDone, ClaimForApply, DropCommitted, Plan, Prepare,
                CheckLeaf, MarkLeaf, WriteLedger, MarkLedger, Commit, Cleanup, Emit, disk
  <2> QED BY <2>1, <2>2, <2>3 DEF HookStep
<1>2. InTransaction(h) /\ hook[h].pc \in {"rename", "rbwrite"}
  BY <1>1 DEF RenameLeaf, RollbackWrite, InTransaction, Writing, Undoing
<1>3. OwnsJournal(h) /\ hook[h].key \in Proposals /\ hook[h].at # <<>>
  BY <1>2, TransactionFacts DEF OwnsJournal
<1>4. Head(hook[h].at) \in LeafSet(hook[h].key)
  BY <1>2, <1>3, TransactionLeaf
<1>5. mem \in [Leaves -> Images] /\ Index \in Leaves
  BY DEF IInv, DataTyped, Memories, ImageMaps, Leaves
<1>6. /\ Head(hook[h].at) = Index
      /\ mem'[Index] \in {hook[h].jr.before[Index], hook[h].jr.after[Index]}
  BY <1>1, <1>5 DEF RenameLeaf, RollbackWrite
<1>7. hook[h].key \in Creates
  BY <1>3, <1>4, <1>6 DEF LeafSet
<1> QED BY <1>2, <1>3, <1>6, <1>7 DEF OwnsJournal

\* A hook gets to "prepare" by Plan, over the memory its proposal is bound to.
LEMMA PrepareOfStep ==
    ASSUME IInv, NEW h \in Hooks, Stop(h) \/ Crash(h) \/ HookStep(h),
           NEW g \in Hooks, hook'[g].pc = "prepare"
    PROVE  \/ hook[g].pc = "prepare" /\ hook'[g].key = hook[g].key
           \/ /\ g = h /\ hook[h].pc = "plan" /\ UNCHANGED mem
              /\ hook'[h].key = hook[h].key /\ mem = bound[hook[h].key]
<1>. USE DEF IInv, HookTyped
<1>1. CASE g # h
  <2>1. \E s : Becomes(h, s) \/ hook' = hook
    BY DEF HookStep, Stop, Crash, Recovery, ClaimForRecovery, RecoveryThrows, RecoveryDone, SkipJournal,
           RemoveCommitted, RecoverJournal, Rollback, RollbackRefused, RollbackLeaf, RollbackWrite,
           RollbackLedger, RollbackDone, Abandon, Apply, ReportOwned, Report, Observe, HookDone,
           ClaimForApply, DropCommitted, Plan, Prepare, Reject, CheckLeaf, RenameLeaf, Fail, Advance,
           MarkLeaf, WriteLedger, MarkLedger, Commit, Cleanup, Emit
  <2> QED BY <1>1, <2>1 DEF Becomes
<1>2. CASE g = h
  <2>1. ASSUME NEW s, Becomes(h, s) PROVE hook'[h] = s
    BY <2>1 DEF Becomes
  <2>2. hook[h] \in HookStates(hook[h].key)
    BY StateTyped
  <2>3. Idle.pc = "idle" /\ \A todo : AtNext(todo).pc = "next"
    BY DEF Idle, AtNext
  <2>4. ASSUME Stop(h) \/ Crash(h) \/ RecoveryThrows(h) \/ RecoveryDone(h) \/ HookDone(h)
               \/ \E p \in Proposals : ReportOwned(h, p)
        PROVE  hook'[h].pc # "prepare"
    BY <2>1, <2>3, <2>4 DEF Stop, Crash, RecoveryThrows, RecoveryDone, HookDone, ReportOwned, Report, Idle
  <2>6. ASSUME ClaimForRecovery(h) PROVE hook'[h].pc # "prepare"
    BY <2>1, <2>2, <2>3, <2>6 DEF ClaimForRecovery, HookStates
  <2>7. ASSUME NEW p \in Proposals, SkipJournal(h, p) PROVE hook'[h].pc # "prepare"
    BY <2>1, <2>2, <2>3, <2>7 DEF SkipJournal, HookStates
  <2>8. ASSUME NEW p \in Proposals, RemoveCommitted(h, p) PROVE hook'[h].pc # "prepare"
    BY <2>1, <2>2, <2>3, <2>8 DEF RemoveCommitted, HookStates
  <2>9. ASSUME NEW p \in Proposals, RecoverJournal(h, p) PROVE hook'[h].pc # "prepare"
    <3>. DEFINE s == RollbackOf(h, p, journals[p])
    <3>1. s.pc = "rbleaf" /\ [s EXCEPT !.todo = @ \ {p}].pc = s.pc
      BY <2>2 DEF RollbackOf, HookStates
    <3>2. hook'[h] = [s EXCEPT !.todo = @ \ {p}]
      BY <2>1, <2>9 DEF RecoverJournal
    <3> QED BY <3>1, <3>2
  <2>10. ASSUME RollbackRefused(h) PROVE hook'[h].pc # "prepare"
    BY <2>1, <2>2, <2>3, <2>10 DEF RollbackRefused, HookStates
  <2>11. ASSUME RollbackLeaf(h) PROVE hook'[h].pc # "prepare"
    BY <2>1, <2>2, <2>3, <2>11 DEF RollbackLeaf, HookStates
  <2>12. ASSUME RollbackWrite(h) PROVE hook'[h].pc # "prepare"
    BY <2>1, <2>2, <2>3, <2>12 DEF RollbackWrite, HookStates
  <2>13. ASSUME RollbackLedger(h) PROVE hook'[h].pc # "prepare"
    BY <2>1, <2>2, <2>3, <2>13 DEF RollbackLedger, HookStates, Abandon
  <2>14. ASSUME RollbackDone(h) PROVE hook'[h].pc # "prepare"
    <3>1. CASE Abandon(h)
      BY <2>1, <2>3, <3>1 DEF Abandon
    <3>2. ASSUME NEW c, Becomes(h, [hook[h] EXCEPT !.pc = "recovering", !.conf = c, !.key = None, !.jr = None])
          PROVE  hook'[h].pc = "recovering"
      BY <2>1, <2>2, <3>2 DEF HookStates
    <3> QED BY <2>14, <3>1, <3>2 DEF RollbackDone
  <2>15. ASSUME NEW p \in Proposals, Observe(h, p) PROVE hook'[h].pc # "prepare"
    BY <2>1, <2>2, <2>3, <2>15 DEF Observe, HookStates, AtNext, Idle
  <2>16. ASSUME ClaimForApply(h) PROVE hook'[h].pc # "prepare"
    BY <2>1, <2>2, <2>3, <2>16 DEF ClaimForApply, HookStates
  <2>17. ASSUME DropCommitted(h) PROVE hook'[h].pc # "prepare"
    BY <2>1, <2>2, <2>3, <2>17 DEF DropCommitted, HookStates, Reject
  <2>18. ASSUME Prepare(h) PROVE hook'[h].pc # "prepare"
    BY <2>1, <2>2, <2>3, <2>18 DEF Prepare, HookStates, Reject
  <2>19. ASSUME CheckLeaf(h) PROVE hook'[h].pc # "prepare"
    BY <2>1, <2>2, <2>3, <2>19 DEF CheckLeaf, HookStates, Fail, RollbackOf
  <2>20. ASSUME RenameLeaf(h) PROVE hook'[h].pc # "prepare"
    BY <2>1, <2>2, <2>3, <2>20 DEF RenameLeaf, HookStates, Fail, RollbackOf
  <2>21. ASSUME MarkLeaf(h) PROVE hook'[h].pc # "prepare"
    <3>1. CASE Fail(h)
      BY <2>1, <2>2, <3>1 DEF Fail, RollbackOf, HookStates
    <3>2. ASSUME NEW pc \in {"ledger", "check"}, NEW j, NEW at,
                 Becomes(h, [hook[h] EXCEPT !.pc = pc, !.jr = j, !.at = at])
          PROVE  hook'[h].pc # "prepare"
      BY <2>1, <2>2, <3>2 DEF HookStates
    <3> QED BY <2>21, <3>1, <3>2 DEF MarkLeaf, Advance
  <2>22. ASSUME MarkLedger(h) PROVE hook'[h].pc # "prepare"
    BY <2>1, <2>2, <2>3, <2>22 DEF MarkLedger, HookStates, Advance, Fail, RollbackOf
  <2>23. ASSUME WriteLedger(h) PROVE hook'[h].pc # "prepare"
    BY <2>1, <2>2, <2>3, <2>23 DEF WriteLedger, HookStates, Fail, RollbackOf
  <2>24. ASSUME Commit(h) PROVE hook'[h].pc # "prepare"
    BY <2>1, <2>2, <2>3, <2>24 DEF Commit, HookStates, Fail, RollbackOf
  <2>25. ASSUME Cleanup(h) PROVE hook'[h].pc # "prepare"
    BY <2>1, <2>2, <2>3, <2>25 DEF Cleanup, HookStates
  <2>26. ASSUME Emit(h) PROVE hook'[h].pc # "prepare"
    BY <2>1, <2>2, <2>3, <2>26 DEF Emit, HookStates, Report
  <2>27. CASE Plan(h)
    BY <1>2, <2>1, <2>2, <2>3, <2>27 DEF HookStates, Plan, Reject, ObservationCurrent, disk
  <2> QED BY <1>2, <2>4, <2>6, <2>7, <2>8, <2>9, <2>10, <2>11, <2>12, <2>13, <2>14, <2>15, <2>16, <2>17, <2>18, <2>19, <2>20, <2>21, <2>22, <2>23, <2>24, <2>25, <2>26, <2>27 DEF HookStep, Recovery, Rollback, Apply
<1> QED BY <1>1, <1>2

\* A step of a hook preserves the invariant on links.
LEMMA LinkOfHook ==
    ASSUME IInv, IInv', LinkInv, NEW h \in Hooks, Stop(h) \/ Crash(h) \/ HookStep(h), UNCHANGED bound
    PROVE  LinkInv'
<1>1. \A t : Limit(t)' = Limit(t) /\ Limit(t) \in Nat
  BY LimitNat DEF Limit, Creators
<1>2. /\ \A image : Within(image)' <=> Within(image)
      /\ \A p \in Creates : \A image : Short(p, image)' <=> Short(p, image)
  BY <1>1 DEF Within, Short
<1>3. mem[Index] \in IndexImages
  BY IndexTyped DEF IInv, DataTyped
<1>4. Within(mem'[Index])
  BY IndexOfStep DEF LinkInv
<1>5. ASSUME NEW q \in Creates, journals'[q] # None
      PROVE  Within(journals'[q].before[Index]) /\ Within(journals'[q].after[Index])
  <2>1. CASE ImagesKept(q)
    BY <2>1 DEF ImagesKept, LinkInv
  <2>2. CASE Prepare(h) /\ q = hook[h].key /\ journals'[q] = NewJournal(q)
    <3>1. Index \in LeafSet(q)
      BY IndexTyped
    <3>2. journals'[q].before[Index] = mem[Index] /\ journals'[q].after[Index] = IndexAfter(q)
      BY <2>2, <3>1 DEF NewJournal
    <3>3. Short(q, mem[Index])
      BY <2>2 DEF Prepare, LinkInv
    <3>4. Within(IndexAfter(q))
      <4>1. CASE mem[Index] = Absent
        BY <1>1, <4>1 DEF Within, IndexAfter, LinksTo
      <4>2. ASSUME mem[Index] # Absent, NEW t \in Topics
            PROVE  LinksTo(IndexAfter(q), t) <= Limit(t)
        <5>1. LinksTo(Append(mem[Index], TopicOf[q]), t)
                <= LinksTo(mem[Index], t) + (IF TopicOf[q] = t THEN 1 ELSE 0)
          BY <1>3, <4>2, LinksAppend
        <5>2. LinksTo(mem[Index], t) <= Limit(t) /\ (TopicOf[q] = t => LinksTo(mem[Index], t) < Limit(t))
          BY <3>3 DEF LinkInv, Within, Short
        <5>3. IndexAfter(q) = Append(mem[Index], TopicOf[q])
          BY <4>2 DEF IndexAfter
        <5>4. IndexAfter(q) \in IndexImages
          <6>1. mem[Index] \in Seq(Topics \cup {ExtLine})
            BY <1>3, <4>2 DEF IndexImages
          <6>2. Append(mem[Index], TopicOf[q]) \in Seq(Topics \cup {ExtLine})
            BY <6>1, AppendProperties
          <6> QED BY <5>3, <6>2 DEF IndexImages
        <5>5. /\ LinksTo(IndexAfter(q), t) \in Nat /\ LinksTo(mem[Index], t) \in Nat
              /\ Limit(t) \in Nat
          BY <1>1, <1>3, <5>4, LinksNat
        <5> QED BY <5>1, <5>2, <5>3, <5>5
      <4> QED BY <4>1, <4>2 DEF Within
    <3> QED BY <3>2, <3>4 DEF LinkInv
  <2> QED BY <1>5, <2>1, <2>2, JournalsOfStep DEF JournalsFrom
<1>6. ASSUME NEW g \in Hooks, hook'[g].pc = "prepare", hook'[g].key \in Creates
      PROVE  Short(hook'[g].key, mem'[Index])
  <2>1. CASE hook[g].pc = "prepare" /\ hook'[g].key = hook[g].key
    <3>1. Short(hook[g].key, mem[Index])
      BY <1>6, <2>1 DEF LinkInv
    <3>2. mem'[Index] = mem[Index]
      <4>1. SUFFICES ASSUME mem'[Index] # mem[Index] PROVE FALSE
        OBVIOUS
      <4>2. InTransaction(h) /\ holder = h
        BY <4>1, IndexOfStep, TransactionFacts
      <4>3. holder = g
        BY <2>1 DEF IInv, Serial, HoldsClaim
      <4> QED BY <2>1, <4>2, <4>3 DEF InTransaction, Writing, Undoing
    <3> QED BY <2>1, <3>1, <3>2
  <2>2. CASE /\ g = h /\ hook[h].pc = "plan" /\ UNCHANGED mem
             /\ hook'[h].key = hook[h].key /\ mem = bound[hook[h].key]
    <3>1. bound[hook[h].key] # None
      BY <2>2, DistinctAssumption DEF IInv, DataTyped
    <3> QED BY <1>6, <2>2, <3>1 DEF LinkInv
  <2> QED BY <1>6, <2>1, <2>2, PrepareOfStep
<1>7. \A p \in Creates : bound'[p] # None => Short(p, bound'[p][Index])
  BY DEF LinkInv
<1>. HIDE DEF Short, Within
<1> QED BY <1>2, <1>4, <1>5, <1>6, <1>7 DEF LinkInv, Pending

\* So does a review, which raises the limits.
LEMMA LinkOfReview ==
    ASSUME IInv, LinkInv, NEW p \in Proposals, Review(p) PROVE LinkInv'
<1>1. \A t : /\ Limit(t) \in Nat /\ Limit(t)' \in Nat /\ Limit(t) <= Limit(t)'
             /\ p \in Creates /\ t = TopicOf[p] => Limit(t) < Limit(t)'
  BY ReviewRaises, LimitNat
<1>2. UNCHANGED <<mem, journals, hook>> /\ bound' = [bound EXCEPT ![p] = mem] /\ bound[p] = None
  BY DEF Review, disk
<1>3. ASSUME NEW image \in IndexImages
      PROVE  /\ Within(image) => Within(image)'
             /\ \A q \in Creates : Short(q, image) => Short(q, image)'
             /\ Within(image) /\ p \in Creates => Short(p, image)'
  <2>1. \A t : LinksTo(image, t) \in Nat
    BY LinksNat
  <2> QED BY <1>1, <2>1 DEF Within, Short
<1>4. /\ mem \in Memories /\ mem[Index] \in IndexImages
      /\ \A q \in Creates : bound[q] # None => bound[q][Index] \in IndexImages
      /\ \A q \in Creates : Pending(q) =>
           journals[q].before[Index] \in IndexImages /\ journals[q].after[Index] \in IndexImages
  BY IndexTyped DEF IInv, DataTyped
<1>5. ASSUME NEW q \in Creates, bound'[q] # None
      PROVE  LinksTo(bound'[q][Index], TopicOf[q]) < Limit(TopicOf[q])'
  <2>1. CASE q = p
    <3>1. bound'[q] = mem
      BY <1>2, <2>1 DEF IInv, DataTyped
    <3>2. LinksTo(mem[Index], TopicOf[q]) <= Limit(TopicOf[q])
      BY DEF LinkInv, Within
    <3>3. LinksTo(mem[Index], TopicOf[q]) \in Nat
      BY <1>4, LinksNat
    <3> QED BY <1>1, <2>1, <3>1, <3>2, <3>3
  <2>2. CASE q # p
    <3>1. bound'[q] = bound[q]
      BY <1>2, <2>2 DEF IInv, DataTyped
    <3>2. LinksTo(bound[q][Index], TopicOf[q]) < Limit(TopicOf[q])
      BY <1>5, <3>1 DEF LinkInv, Short
    <3>3. LinksTo(bound[q][Index], TopicOf[q]) \in Nat
      BY <1>4, <1>5, <3>1, LinksNat
    <3> QED BY <1>1, <3>1, <3>2, <3>3
  <2> QED BY <2>1, <2>2
<1>6. \A q \in Creates : bound'[q] # None => Short(q, bound[q][Index])'
  BY <1>5 DEF Short
<1>7. Within(mem[Index])' /\ (\A q \in Creates : Pending(q)' => Within(journals[q].before[Index])' /\ Within(journals[q].after[Index])')
  BY <1>2, <1>3, <1>4 DEF LinkInv, Pending, Within
<1>8. \A h \in Hooks : hook'[h].pc = "prepare" /\ hook'[h].key \in Creates => Short(hook[h].key, mem[Index])'
  BY <1>2, <1>3, <1>4 DEF LinkInv, Short
<1> QED BY <1>6, <1>7, <1>8 DEF LinkInv

\* And an edit, which adds no link.
LEMMA LinkOfEdit ==
    ASSUME IInv, LinkInv, NEW l \in Leaves, Edit(l) PROVE LinkInv'
<1>1. UNCHANGED <<bound, journals, hook>> /\ \A t : Limit(t)' = Limit(t) /\ Limit(t) \in Nat
  BY LimitNat DEF Edit, env, Limit, Creators
<1>2. mem[Index] \in IndexImages /\ mem'[Index] \in IndexImages
  BY EditStep, IndexTyped DEF IInv, DataTyped
<1>3. ASSUME NEW t \in Topics
      PROVE  /\ LinksTo(mem'[Index], t) <= LinksTo(mem[Index], t) /\ Limit(t)' = Limit(t)
             /\ LinksTo(mem'[Index], t) \in Nat /\ LinksTo(mem[Index], t) \in Nat /\ Limit(t) \in Nat
  BY <1>1, <1>2, EditAddsNoLink, LinksNat
<1>4. Within(mem[Index])'
  BY <1>3 DEF LinkInv, Within
<1>5. \A h \in Hooks : hook[h].pc = "prepare" /\ hook[h].key \in Creates => Short(hook[h].key, mem[Index])'
  BY <1>1, <1>3 DEF LinkInv, Short
<1>6. \A p \in Creates : bound[p] # None => Short(p, bound[p][Index])'
  BY <1>1 DEF LinkInv, Short
<1>7. \A p \in Creates : Pending(p) => Within(journals[p].before[Index])' /\ Within(journals[p].after[Index])'
  BY <1>1 DEF LinkInv, Within
<1> QED BY <1>1, <1>4, <1>5, <1>6, <1>7 DEF LinkInv, Pending

\* The invariant holds initially.
LEMMA LinkInit == Init => LinkInv
<1>. SUFFICES ASSUME Init PROVE LinkInv
  OBVIOUS
<1>1. mem[Index] = InitMem[Index]
  BY DEF Init
<1>2. ASSUME NEW t \in Topics PROVE LinksTo(mem[Index], t) <= Limit(t)
  <2>1. LinksTo(mem[Index], t) \in Nat
    BY InitialState, IndexTyped, LinksNat DEF IInv, DataTyped
  <2> QED BY <1>1, <2>1, LimitNat DEF Limit
<1> QED BY <1>2 DEF Init, Idle, LinkInv, Within, Pending

\* Every step preserves it.
LEMMA LinkStep == IInv /\ LinkInv /\ [Next]_vars => LinkInv'
<1>. SUFFICES ASSUME IInv, LinkInv, [Next]_vars PROVE LinkInv'
  OBVIOUS
<1>1. IInv'
  BY NextPreserves
<1>2. CASE UNCHANGED <<mem, journals, bound, hook>>
  BY <1>2 DEF LinkInv, Within, Short, Limit, Creators, Pending
<1>3. ASSUME NEW h \in Hooks, Stop(h) \/ Crash(h) \/ HookStep(h) PROVE LinkInv'
  <2>1. UNCHANGED bound
    BY <1>3 DEF HookStep, Stop, Crash, Recovery, ClaimForRecovery, RecoveryThrows, RecoveryDone, SkipJournal,
           RemoveCommitted, RecoverJournal, Rollback, RollbackRefused, RollbackLeaf, RollbackWrite,
           RollbackLedger, RollbackDone, Apply, ReportOwned, Observe, HookDone,
           ClaimForApply, DropCommitted, Plan, Prepare, CheckLeaf, RenameLeaf,
           MarkLeaf, WriteLedger, MarkLedger, Commit, Cleanup, Emit, env
  <2> QED BY <1>1, <1>3, <2>1, LinkOfHook
<1>4. CASE Deploy
  BY <1>2, <1>4 DEF Deploy, disk
<1> QED BY <1>2, <1>3, <1>4, LinkOfReview, LinkOfEdit DEF Next, vars

\* Every proposal to create a topic adds at most one link to it, whatever
\* edits, errors, kills and overlapping hooks the run has.
THEOREM TopicsAreLinkedOnce == Spec => []LinkedOnce
<1>1. LinkInv => LinkedOnce
  BY DEF LinkInv, LinkedOnce, LinkCount, Within, Limit
<1> QED BY <1>1, InitialState, NextPreserves, LinkInit, LinkStep, PTL DEF Spec

=============================================================================
