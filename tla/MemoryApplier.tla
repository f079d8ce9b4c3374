--------------------------- MODULE MemoryApplier ---------------------------
(***************************************************************************)
(* The managed-memory applier: packages/shared/src/memory-applier.ts, the  *)
(* file operations of memory-applier-state.ts it is built from, and the    *)
(* Stop hook that drives both (memory-apply-command.ts).                   *)
(*                                                                         *)
(* A Stop hook first recovers every pending journal under the global       *)
(* claim, then tries the reviewed proposals of its session one by one and  *)
(* stops after the first it applies.  An apply writes a journal, the topic *)
(* file, for a create also the index MEMORY.md, the ownership ledger, and  *)
(* a committed journal, each by a compare, a rename and a readback.  Any   *)
(* of those calls may throw before or after its rename took effect, the    *)
(* process may be killed between two of them, and other programs edit the  *)
(* same memory files at any time.                                          *)
(*                                                                         *)
(* A file's bytes and its hash are one value here (SHA-256 is injective on *)
(* the values a model has); the inode and mtime a CAS also compares only   *)
(* add refusals, which the failing branch of every write already has.      *)
(***************************************************************************)
EXTENDS Naturals, Sequences, FiniteSets

CONSTANTS
    Hooks,          \* Stop-hook processes that may run at the same time
    Proposals,      \* immutable reviewed proposals (session, prompt)
    Topics,         \* topic file names
    Index,          \* the leaf name MEMORY.md
    Absent,         \* image of a leaf that does not exist
    None,           \* no journal, no ledger entry, no holder, no watermark
    OldKey,         \* proposal key of a ledger entry that predates the run
    ExtLine,        \* a line another program appends to MEMORY.md
    Bodies,         \* contents of a topic file
    ExtBodies,      \* the contents another program writes
    TopicOf,        \* [Proposals -> Topics]
    BodyOf,         \* [Proposals -> Bodies]
    Creates,        \* the proposals whose decision is "create"; others patch
    Mine,           \* [Hooks -> SUBSET Proposals], the hook's session
    InitMem,        \* memory images at the start
    InitLedger,     \* ownership ledger at the start
    WindowWrites,   \* may an edit fall between a CAS check and its rename
    CommitFaults,   \* may the committed-journal write throw after its rename
    MaxExt, MaxFaults, MaxCrashes   \* bounds on edits, I/O errors and kills

ASSUME BoundsAssumption == MaxExt \in Nat /\ MaxFaults \in Nat /\ MaxCrashes \in Nat
ASSUME NamesAssumption == Index \notin Topics /\ None \notin Hooks \cup Proposals
ASSUME ProposalAssumption ==
    /\ TopicOf \in [Proposals -> Topics]
    /\ BodyOf \in [Proposals -> Bodies] /\ ExtBodies \subseteq Bodies
    /\ Creates \subseteq Proposals
    /\ Mine \in [Hooks -> SUBSET Proposals]

VARIABLES
    mem,        \* [Leaves -> image], the native-memory files
    ledger,     \* [Topics -> entry or None], managed-memory ledger
    journals,   \* [Proposals -> journal or None], the applier state directory
    bound,      \* [Proposals -> memory seen by the reviewer, or None]
    foreign,    \* proposals and journals that carry an earlier release SHA
    holder,     \* the live hook that holds the global claim, or None
    hook,       \* the local state of each hook process
    touched,    \* history: leaves edited by others since p last checked them
    committed,  \* history: proposals whose commit record became durable
    emitted,    \* proposals reported as learned (writeLearningDelta)
    clock,      \* journals prepared so far: the time a ledger entry bears
    budget      \* edits, I/O errors and kills used so far

vars == <<mem, ledger, journals, bound, foreign, holder, hook,
          touched, committed, emitted, clock, budget>>
disk == <<mem, ledger, journals>>
env  == <<bound, foreign>>
hist == <<touched, committed, emitted, clock>>

Leaves == Topics \cup {Index}
LeavesOf(p) == IF p \in Creates THEN <<TopicOf[p], Index>> ELSE <<TopicOf[p]>>
LeafSet(p) == IF p \in Creates THEN {TopicOf[p], Index} ELSE {TopicOf[p]}
RollbackOrder(p) == IF p \in Creates THEN <<Index, TopicOf[p]>> ELSE <<TopicOf[p]>>

(* The values of the variables.                                             *)
ImagesOf(l) == {Absent} \cup IF l = Index THEN Seq(Topics \cup {ExtLine}) ELSE Bodies
Images == {Absent} \cup Seq(Topics \cup {ExtLine}) \cup Bodies
ImageMaps(S) == {f \in [S -> Images] : \A l \in S : f[l] \in ImagesOf(l)}
Memories == ImageMaps(Leaves)
Entries == [sha : Bodies, key : Proposals \cup {OldKey}, at : Nat]
Ledgers == [Topics -> Entries \cup {None}]
Phases == {"prepared", "topic_applied", "index_applied", "ledger_applied", "committed"}
JournalsOf(p) == [phase : Phases,
                  before : ImageMaps(LeafSet(p)), after : ImageMaps(LeafSet(p)),
                  ledgerBefore : Ledgers, ledgerAfter : Ledgers]
Labels == {"idle", "recover", "recovering", "rbleaf", "rbwrite", "rbdone", "next", "claim",
           "plan", "prepare", "check", "rename", "mark", "ledger", "markledger", "commit",
           "cleanup", "emit"}
JournalOrNone(p) == JournalsOf(p) \cup {None}
HookStates(p) ==
    [pc : Labels, key : {p}, jr : IF p = None THEN {None} ELSE JournalOrNone(p),
     at : Seq(Leaves), todo : SUBSET Proposals,
     bad : BOOLEAN, conf : BOOLEAN, recovering : BOOLEAN]

ASSUME NoneAssumption == \A p \in Proposals : None \notin JournalsOf(p)
ASSUME DistinctAssumption ==
    /\ None \notin Memories \cup Entries
    /\ ExtLine \notin Topics /\ OldKey \notin Proposals
ASSUME FiniteAssumption == IsFiniteSet(Creates)
ASSUME InitialAssumption ==
    /\ InitMem \in Memories /\ InitLedger \in Ledgers
    /\ \A t \in Topics : InitLedger[t] # None => InitLedger[t].key = OldKey /\ InitLedger[t].at = 0

Idle == [pc |-> "idle", key |-> None, jr |-> None, at |-> <<>>, todo |-> {},
         bad |-> FALSE, conf |-> FALSE, recovering |-> FALSE]

Init ==
    /\ mem = InitMem
    /\ ledger = InitLedger
    /\ journals = [p \in Proposals |-> None]
    /\ bound = [p \in Proposals |-> None]
    /\ foreign = {}
    /\ holder = None
    /\ hook = [h \in Hooks |-> Idle]
    /\ touched = [p \in Proposals |-> {}]
    /\ committed = {}
    /\ emitted = {}
    /\ clock = 0
    /\ budget = [ext |-> 0, fault |-> 0, crash |-> 0]

Pending(p) == journals[p] # None
Committed(p) == Pending(p) /\ journals[p].phase = "committed"

\* acquireMemoryReviewProposalClaim on the global key: no live process has it.
\* The mutant is a lock that does not look.
ClaimAlwaysFree(h) == TRUE
ClaimFree(h) == holder = None

\* The hook turns to its next proposal.
AtNext(todo) == [Idle EXCEPT !.pc = "next", !.todo = todo]

\* A call throws: one unit of the fault budget, otherwise it succeeds.
Throws == /\ budget.fault < MaxFaults
          /\ budget' = [budget EXCEPT !.fault = @ + 1]
Works == UNCHANGED budget

\* The local state of h is s from now on.
Becomes(h, s) == hook' = [hook EXCEPT ![h] = s]

-----------------------------------------------------------------------------
(* Environment: reviewer, other writers of native memory, deployments.      *)

\* The reviewer stores p with the watermark of the memory it saw and its
\* receipt turns "reviewed".
Review(p) ==
    /\ bound[p] = None
    /\ bound' = [bound EXCEPT ![p] = mem]
    /\ UNCHANGED <<disk, foreign, holder, hook, hist, budget>>

ExtImages(l) ==
    IF l = Index
    THEN {Absent, IF mem[l] = Absent THEN <<ExtLine>> ELSE Append(mem[l], ExtLine)}
    ELSE ExtBodies \cup {Absent}

\* The leaf whose CAS check h has passed and whose rename it is about to do.
InWindow(h, l) == /\ hook[h].pc \in {"rename", "rbwrite"}
                  /\ hook[h].at # <<>> /\ Head(hook[h].at) = l

Edit(l) ==
    /\ budget.ext < MaxExt
    /\ WindowWrites \/ \A h \in Hooks : ~InWindow(h, l)
    /\ \E c \in ExtImages(l) \ {mem[l]} : mem' = [mem EXCEPT ![l] = c]
    /\ touched' = [p \in Proposals |-> touched[p] \cup {l}]
    /\ budget' = [budget EXCEPT !.ext = @ + 1]
    /\ UNCHANGED <<ledger, journals, env, holder, hook, committed, emitted, clock>>

\* A new release: earlier proposals and journals carry the old release SHA.
Deploy ==
    /\ \A h \in Hooks : hook[h].pc = "idle"
    /\ foreign' = {p \in Proposals : bound[p] # None}
    /\ foreign' # foreign
    /\ UNCHANGED <<disk, bound, holder, hook, hist, budget>>

\* The hook process is killed: its claims become stale, which the next
\* acquirer clears, and nothing on disk changes.
Crash(h) ==
    /\ hook[h].pc # "idle"
    /\ budget.crash < MaxCrashes
    /\ budget' = [budget EXCEPT !.crash = @ + 1]
    /\ Becomes(h, Idle)
    /\ holder' = IF holder = h THEN None ELSE holder
    /\ UNCHANGED <<disk, env, hist>>

-----------------------------------------------------------------------------
(* Recovery: recoverMemoryReviewApplier.                                    *)

Stop(h) ==
    /\ hook[h].pc = "idle"
    /\ Becomes(h, [Idle EXCEPT !.pc = "recover"])
    /\ UNCHANGED <<disk, env, holder, hist, budget>>

ClaimForRecovery(h) ==
    /\ hook[h].pc = "recover"
    /\ \/ /\ ClaimFree(h)
          /\ holder' = h
          /\ Becomes(h, [hook[h] EXCEPT !.pc = "recovering", !.recovering = TRUE,
                                          !.todo = {p \in Proposals : Pending(p)}])
          /\ Works
       \/ /\ (~ClaimFree(h) /\ Works) \/ Throws  \* applier_busy, or no claim
          /\ Becomes(h, Idle)
          /\ UNCHANGED holder
    /\ UNCHANGED <<disk, env, hist>>

\* A journal of another release, or whose proposal claim a reviewer holds,
\* is counted as a conflict and left alone.
SkipJournal(h, p) ==
    /\ hook[h].pc = "recovering" /\ p \in hook[h].todo
    /\ p \in foreign \/ ~Committed(p)
    /\ Becomes(h, [hook[h] EXCEPT !.todo = @ \ {p}, !.conf = TRUE])
    /\ UNCHANGED <<disk, env, holder, hist, budget>>

RemoveCommitted(h, p) ==
    /\ hook[h].pc = "recovering" /\ p \in hook[h].todo \ foreign
    /\ Committed(p)
    /\ journals' = [journals EXCEPT ![p] = None]
    /\ Becomes(h, [hook[h] EXCEPT !.todo = @ \ {p}])
    /\ UNCHANGED <<mem, ledger, env, holder, hist, budget>>

RollbackOf(h, p, j) ==
    [hook[h] EXCEPT !.pc = "rbleaf", !.key = p, !.jr = j, !.at = RollbackOrder(p), !.bad = FALSE]

RecoverJournal(h, p) ==
    /\ hook[h].pc = "recovering" /\ p \in hook[h].todo \ foreign
    /\ Pending(p) /\ ~Committed(p)
    /\ Becomes(h, [RollbackOf(h, p, journals[p]) EXCEPT !.todo = @ \ {p}])
    /\ UNCHANGED <<disk, env, holder, hist, budget>>

\* Reading, removing or claiming throws out of the whole recovery, a removal
\* of a committed journal perhaps after it took effect.
RecoveryThrows(h) ==
    /\ hook[h].pc = "recovering" /\ hook[h].todo # {}
    /\ \/ UNCHANGED journals
       \/ \E p \in hook[h].todo \ foreign :
            Committed(p) /\ journals' = [journals EXCEPT ![p] = None]
    /\ Throws
    /\ holder' = None
    /\ Becomes(h, Idle)
    /\ UNCHANGED <<mem, ledger, env, hist>>

\* The hook goes on to its proposals only when nothing conflicted.
Recovered(h) == ~hook[h].conf

RecoveryDone(h) ==
    /\ hook[h].pc = "recovering" /\ hook[h].todo = {}
    /\ holder' = None
    /\ Becomes(h, IF Recovered(h) THEN AtNext({p \in Mine[h] \ foreign : bound[p] # None})
                  ELSE Idle)
    /\ UNCHANGED <<disk, env, hist, budget>>

-----------------------------------------------------------------------------
(* Rollback: rollbackJournal, from recovery or from a failed apply.         *)

\* contentMatches(current, file.before), and the after image we wrote.  The
\* mutants forget that a file may already be restored, or that it may hold
\* somebody else's bytes.
NeverRestored(j, l) == FALSE
Restored(j, l) == mem[l] = j.before[l]
AnyBytes(j, l) == TRUE
OurBytes(j, l) == mem[l] = j.after[l]

\* The state and memory directories do not open: nothing is restored.
RollbackRefused(h) ==
    /\ hook[h].pc = "rbleaf" /\ hook[h].at = RollbackOrder(hook[h].key)
    /\ Becomes(h, [hook[h] EXCEPT !.pc = "rbdone", !.bad = TRUE])
    /\ Throws
    /\ UNCHANGED <<disk, env, holder, hist>>

\* One file: already at its before image, at our after image (the CAS check
\* passes), or unknown bytes or an unreadable file, which are preserved.
RollbackLeaf(h) ==
    LET j == hook[h].jr
        l == Head(hook[h].at) IN
    /\ hook[h].pc = "rbleaf" /\ hook[h].at # <<>>
    /\ \/ /\ Restored(j, l)
          /\ Becomes(h, [hook[h] EXCEPT !.at = Tail(@)]) /\ Works
       \/ /\ ~Restored(j, l) /\ OurBytes(j, l)
          /\ Becomes(h, [hook[h] EXCEPT !.pc = "rbwrite"]) /\ Works
       \/ /\ \/ ~Restored(j, l) /\ ~OurBytes(j, l) /\ Works
             \/ Throws
          /\ Becomes(h, [hook[h] EXCEPT !.at = Tail(@), !.bad = TRUE])
    /\ UNCHANGED <<disk, env, holder, hist>>

\* Restore or remove the file; an error before or after the rename is caught
\* and counted as a conflict.
RollbackWrite(h) ==
    LET l == Head(hook[h].at)
        restored == [mem EXCEPT ![l] = hook[h].jr.before[l]]
        onward(b) == Becomes(h, [hook[h] EXCEPT !.pc = "rbleaf", !.at = Tail(@), !.bad = b]) IN
    /\ hook[h].pc = "rbwrite"
    /\ \/ mem' = restored /\ onward(hook[h].bad) /\ Works
       \/ mem' \in {mem, restored} /\ onward(TRUE) /\ Throws
    /\ UNCHANGED <<ledger, journals, env, holder, hist>>

\* An exception leaves the rollback: out of recovery it ends the hook, out of
\* an apply it becomes the outcome "rejected" and the loop goes on.
Abandon(h) ==
    /\ holder' = None
    /\ Becomes(h, IF hook[h].recovering THEN Idle ELSE AtNext(hook[h].todo))

\* A rollback that forgets the ledger.
RollbackLedgerSkipped(h) ==
    /\ hook[h].pc = "rbleaf" /\ hook[h].at = <<>>
    /\ Becomes(h, [hook[h] EXCEPT !.pc = "rbdone"])
    /\ UNCHANGED <<disk, env, holder, hist, budget>>

\* restoreManagedLedgerFd, run whether or not the files conflicted.
RollbackLedger(h) ==
    LET j == hook[h].jr
        onward(b) == Becomes(h, [hook[h] EXCEPT !.pc = "rbdone", !.bad = b]) IN
    /\ hook[h].pc = "rbleaf" /\ hook[h].at = <<>>
    /\ \/ /\ ledger = j.ledgerBefore
          /\ onward(hook[h].bad) /\ UNCHANGED <<ledger, holder>> /\ Works
       \/ /\ ledger # j.ledgerBefore /\ ledger = j.ledgerAfter
          /\ ledger' = j.ledgerBefore
          /\ onward(hook[h].bad) /\ UNCHANGED holder /\ Works
       \/ /\ ledger \notin {j.ledgerBefore, j.ledgerAfter}
          /\ onward(TRUE) /\ UNCHANGED <<ledger, holder>> /\ Works
       \/ /\ ledger' \in {ledger} \cup IF ledger = j.ledgerAfter THEN {j.ledgerBefore} ELSE {}
          /\ Abandon(h) /\ Throws
    /\ UNCHANGED <<mem, journals, env, hist>>

\* The journal goes only when no file and no ledger conflicted; the mutant
\* drops it in any case.
CleanAnyway(h) == TRUE
Clean(h) == ~hook[h].bad

RollbackDone(h) ==
    LET p == hook[h].key
        gone == [journals EXCEPT ![p] = None] IN
    /\ hook[h].pc = "rbdone"
    /\ \/ /\ Clean(h)
          /\ journals' \in {journals, gone} /\ Abandon(h) /\ Throws
       \/ /\ journals' = IF Clean(h) THEN gone ELSE journals
          /\ IF hook[h].recovering
             THEN /\ Becomes(h, [hook[h] EXCEPT !.pc = "recovering", !.conf = @ \/ ~Clean(h),
                                                !.key = None, !.jr = None])
                  /\ UNCHANGED holder
             ELSE Abandon(h)
          /\ Works
    /\ UNCHANGED <<mem, ledger, env, hist>>

-----------------------------------------------------------------------------
(* Apply: the loop of handleMemoryApplyCommand, applyMemoryReviewProposal.  *)

Owned(p) == \E t \in Topics : ledger[t] # None /\ ledger[t].key = p

\* writeLearningDelta: it may throw, which ends the hook.
Report(h, p, next) ==
    \/ emitted' = emitted \cup {p} /\ Becomes(h, next) /\ Works
    \/ UNCHANGED emitted /\ Becomes(h, Idle) /\ Throws

\* Ownership is read without any claim; an owned proposal is only reported.
ReportOwned(h, p) ==
    /\ hook[h].pc = "next" /\ p \in hook[h].todo
    /\ Owned(p)
    /\ Report(h, p, AtNext(hook[h].todo \ {p}))
    /\ UNCHANGED <<disk, env, holder, touched, committed, clock>>

\* observeNativeMemory, then validateBinding compares the watermark; a failed
\* observation ends the hook.
Observe(h, p) ==
    /\ hook[h].pc = "next" /\ p \in hook[h].todo
    /\ ~Owned(p)
    /\ \/ /\ Becomes(h, IF mem = bound[p]
                        THEN [AtNext(hook[h].todo \ {p}) EXCEPT !.pc = "claim", !.key = p]
                        ELSE AtNext(hook[h].todo \ {p}))
          /\ Works
       \/ Becomes(h, Idle) /\ Throws
    /\ UNCHANGED <<disk, env, holder, hist>>

HookDone(h) ==
    /\ hook[h].pc = "next" /\ hook[h].todo = {}
    /\ Becomes(h, Idle)
    /\ UNCHANGED <<disk, env, holder, hist, budget>>

\* The global claim, then the proposal claim; either may be busy.
ClaimForApply(h) ==
    /\ hook[h].pc = "claim"
    /\ \/ /\ ClaimFree(h)
          /\ holder' = h
          /\ Becomes(h, [hook[h] EXCEPT !.pc = "plan"])
       \/ /\ Becomes(h, AtNext(hook[h].todo))
          /\ UNCHANGED holder
    /\ UNCHANGED <<disk, env, hist, budget>>

\* Every "rejected" return between the claims and the journal.
Reject(h) ==
    /\ holder' = None
    /\ Becomes(h, AtNext(hook[h].todo))

\* The proposal's own leftover journal: a committed one is removed.
DropCommitted(h) ==
    LET p == hook[h].key
        gone == [journals EXCEPT ![p] = None] IN
    /\ hook[h].pc = "plan" /\ Committed(p)
    /\ \/ journals' = gone /\ UNCHANGED <<hook, holder>> /\ Works
       \/ journals' \in {journals, gone} /\ Reject(h) /\ Throws
    /\ UNCHANGED <<mem, ledger, env, hist>>

LinksTo(image, t) == IF image = Absent THEN 0
                     ELSE Cardinality({i \in DOMAIN image : image[i] = t})
LinkCount(t) == LinksTo(mem[Index], t)

AlreadyApplied(p) ==
    LET t == TopicOf[p] IN
    /\ ledger[t] # None /\ ledger[t].key = p
    /\ mem[t] # Absent /\ mem[t] = ledger[t].sha
    /\ p \in Creates => LinkCount(t) = 1

\* observationMatchesCurrent: memory is still what the reviewer saw.
ObservationAssumed(p) == TRUE
ObservationCurrent(p) == mem = bound[p]

\* What must hold of the topic for p to be applied; the mutant takes any.
TopicAlwaysReady(p) == TRUE
TopicReady(p) ==
    LET t == TopicOf[p] IN
    IF p \in Creates THEN mem[t] = Absent
    ELSE ledger[t] # None /\ mem[t] # Absent /\ ledger[t].sha = mem[t]

Plan(h) ==
    LET p == hook[h].key IN
    /\ hook[h].pc = "plan" /\ ~Committed(p)
    /\ \/ Pending(p) /\ Reject(h) /\ Works                        \* pending_recovery
       \/ /\ ~Pending(p) /\ AlreadyApplied(p)
          /\ holder' = None /\ Becomes(h, [hook[h] EXCEPT !.pc = "emit"]) /\ Works
       \/ /\ ~Pending(p) /\ ~AlreadyApplied(p)
          /\ IF ObservationCurrent(p) /\ TopicReady(p)
             THEN Becomes(h, [hook[h] EXCEPT !.pc = "prepare"]) /\ UNCHANGED holder
             ELSE Reject(h)       \* observation_stale, create_cas_mismatch, unmanaged_topic
          /\ Works
       \/ Reject(h) /\ Throws
    /\ UNCHANGED <<disk, env, hist>>

IndexAfter(p) == IF mem[Index] = Absent THEN Absent ELSE Append(mem[Index], TopicOf[p])

\* updated_at is the time of the Stop, which tells this entry from every other;
\* the journals written count it here.  The mutant swaps topic and proposal key.
EntrySwapped(p) == [sha |-> BodyOf[p], key |-> TopicOf[p], at |-> clock + 1]
Entry(p) == [sha |-> BodyOf[p], key |-> p, at |-> clock + 1]

\* The journal of p over the current memory.  The topic's before image is the
\* one the observation just confirmed.
NewJournal(p) ==
    [phase |-> "prepared",
     before |-> [l \in LeafSet(p) |-> IF l = Index THEN mem[Index] ELSE bound[p][l]],
     after |-> [l \in LeafSet(p) |-> IF l = Index THEN IndexAfter(p) ELSE BodyOf[p]],
     ledgerBefore |-> ledger,
     ledgerAfter |-> [ledger EXCEPT ![TopicOf[p]] = Entry(p)]]

\* Capture the index, write the "prepared" journal.  A create needs the index.
Prepare(h) ==
    LET p == hook[h].key
        j == NewJournal(p)
        written == [journals EXCEPT ![p] = j] IN
    /\ hook[h].pc = "prepare"
    /\ \/ /\ p \in Creates /\ mem[Index] = Absent           \* missing_memory_index
          /\ Reject(h) /\ UNCHANGED <<journals, clock>> /\ Works
       \/ /\ ~(p \in Creates /\ mem[Index] = Absent)
          /\ clock' = clock + 1
          /\ \/ /\ journals' = written
                /\ Becomes(h, [hook[h] EXCEPT !.pc = "check", !.jr = j, !.at = LeavesOf(p)])
                /\ UNCHANGED holder /\ Works
             \/ journals' \in {journals, written} /\ Reject(h) /\ Throws
    /\ UNCHANGED <<mem, ledger, env, touched, committed, emitted>>

\* The inner catch: roll the journal in memory back.
Fail(h) == Becomes(h, RollbackOf(h, hook[h].key, hook[h].jr))

\* writeMemoryLeafCas, temporary file and recheck.
CheckLeaf(h) ==
    LET l == Head(hook[h].at) IN
    /\ hook[h].pc = "check"
    /\ \/ /\ mem[l] = hook[h].jr.before[l]
          /\ Becomes(h, [hook[h] EXCEPT !.pc = "rename"])
          /\ touched' = [touched EXCEPT ![hook[h].key] = @ \ {l}] /\ Works
       \/ mem[l] # hook[h].jr.before[l] /\ Fail(h) /\ UNCHANGED touched /\ Works
       \/ Fail(h) /\ UNCHANGED touched /\ Throws
    /\ UNCHANGED <<disk, env, holder, committed, emitted, clock>>

\* writeMemoryLeafCas, rename, directory fsync and readback.
RenameLeaf(h) ==
    LET l == Head(hook[h].at)
        renamed == [mem EXCEPT ![l] = hook[h].jr.after[l]] IN
    /\ hook[h].pc = "rename"
    /\ \/ mem' = renamed /\ Becomes(h, [hook[h] EXCEPT !.pc = "mark"]) /\ Works
       \/ mem' \in {mem, renamed} /\ Fail(h) /\ Throws
    /\ UNCHANGED <<ledger, journals, env, holder, hist>>

\* writeJournalFd with the next phase, then go to pc.
Advance(h, phase, pc, rest) ==
    LET p == hook[h].key
        j == [hook[h].jr EXCEPT !.phase = phase]
        written == [journals EXCEPT ![p] = j] IN
    \/ /\ journals' = written
       /\ Becomes(h, [hook[h] EXCEPT !.pc = pc, !.jr = j, !.at = rest]) /\ Works
    \/ journals' \in {journals, written} /\ Fail(h) /\ Throws

MarkLeaf(h) ==
    LET l == Head(hook[h].at)
        rest == Tail(hook[h].at) IN
    /\ hook[h].pc = "mark"
    /\ Advance(h, IF l = Index THEN "index_applied" ELSE "topic_applied",
               IF rest = <<>> THEN "ledger" ELSE "check", rest)
    /\ UNCHANGED <<mem, ledger, env, holder, hist>>

WriteLedger(h) ==
    /\ hook[h].pc = "ledger"
    /\ \/ /\ ledger' = hook[h].jr.ledgerAfter
          /\ Becomes(h, [hook[h] EXCEPT !.pc = "markledger"]) /\ Works
       \/ ledger' \in {ledger, hook[h].jr.ledgerAfter} /\ Fail(h) /\ Throws
    /\ UNCHANGED <<mem, journals, env, holder, hist>>

MarkLedger(h) ==
    /\ hook[h].pc = "markledger"
    /\ Advance(h, "ledger_applied", "commit", <<>>)
    /\ UNCHANGED <<mem, ledger, env, holder, hist>>

\* The commit point: the rename of the "committed" journal.
Commit(h) ==
    LET p == hook[h].key
        j == [hook[h].jr EXCEPT !.phase = "committed"]
        written == [journals EXCEPT ![p] = j] IN
    /\ hook[h].pc = "commit"
    /\ \/ /\ journals' = written
          /\ committed' = committed \cup {p}
          /\ Becomes(h, [hook[h] EXCEPT !.pc = "cleanup", !.jr = j]) /\ Works
       \/ /\ journals' \in IF CommitFaults THEN {journals, written} ELSE {journals}
          /\ UNCHANGED committed
          /\ Fail(h) /\ Throws
    /\ UNCHANGED <<mem, ledger, env, holder, touched, emitted, clock>>

\* Removing the committed journal may fail and is then left to recovery; the
\* claims are released and the loop ends after reporting p.
Cleanup(h) ==
    LET gone == [journals EXCEPT ![hook[h].key] = None] IN
    /\ hook[h].pc = "cleanup"
    /\ \/ journals' = gone /\ Works
       \/ journals' \in {journals, gone} /\ Throws
    /\ holder' = None
    /\ Becomes(h, [hook[h] EXCEPT !.pc = "emit", !.jr = None, !.todo = {}])
    /\ UNCHANGED <<mem, ledger, env, hist>>

Emit(h) ==
    /\ hook[h].pc = "emit"
    /\ Report(h, hook[h].key, AtNext(hook[h].todo))
    /\ UNCHANGED <<disk, env, holder, touched, committed, clock>>

-----------------------------------------------------------------------------
Recovery(h) ==
    \/ ClaimForRecovery(h) \/ RecoveryThrows(h) \/ RecoveryDone(h)
    \/ \E p \in Proposals : SkipJournal(h, p) \/ RemoveCommitted(h, p) \/ RecoverJournal(h, p)

Rollback(h) == RollbackRefused(h) \/ RollbackLeaf(h) \/ RollbackWrite(h) \/ RollbackLedger(h) \/ RollbackDone(h)

Apply(h) ==
    \/ \E p \in Proposals : ReportOwned(h, p) \/ Observe(h, p)
    \/ HookDone(h) \/ ClaimForApply(h) \/ DropCommitted(h) \/ Plan(h) \/ Prepare(h)
    \/ CheckLeaf(h) \/ RenameLeaf(h) \/ MarkLeaf(h) \/ WriteLedger(h) \/ MarkLedger(h)
    \/ Commit(h) \/ Cleanup(h) \/ Emit(h)

HookStep(h) == Recovery(h) \/ Rollback(h) \/ Apply(h)

Next ==
    \/ \E p \in Proposals : Review(p)
    \/ \E l \in Leaves : Edit(l)
    \/ Deploy
    \/ \E h \in Hooks : Stop(h) \/ Crash(h) \/ HookStep(h)

Spec == Init /\ [][Next]_vars

\* Claude Code runs the Stop hook after every turn and lets it finish, and no
\* reviewer holds a proposal claim at every one of those turns.
FairSpec ==
    /\ Spec
    /\ \A h \in Hooks : WF_vars(Stop(h)) /\ WF_vars(HookStep(h))
    /\ \A h \in Hooks, p \in Proposals : SF_vars(RecoverJournal(h, p))

-----------------------------------------------------------------------------
(* Properties.                                                              *)

\* Shape of every variable (applier state files, memory images, hook state).
TypeOK ==
    /\ mem \in Memories
    /\ ledger \in Ledgers
    /\ journals = [p \in Proposals |-> journals[p]]
    /\ \A p \in Proposals : journals[p] \in JournalOrNone(p)
    /\ bound \in [Proposals -> Memories \cup {None}]
    /\ foreign \subseteq Proposals /\ committed \subseteq Proposals /\ emitted \subseteq Proposals
    /\ holder \in Hooks \cup {None}
    /\ touched \in [Proposals -> SUBSET Leaves]
    /\ hook = [h \in Hooks |-> hook[h]]
    /\ \A h \in Hooks : \E p \in Proposals \cup {None} : hook[h] \in HookStates(p)
    /\ clock \in Nat /\ budget \in [ext : Nat, fault : Nat, crash : Nat]

\* Every byte the applier changes in native memory moves a file between the
\* two images of a journal that is already durable: it never clobbers bytes it
\* did not read ("preserves those external bytes", docs/memory-applier.md:31),
\* and a kill at any point leaves what recovery needs to undo it.
JournalledWrite ==
    \/ budget'.ext # budget.ext
    \/ \A l \in Leaves :
         \/ mem'[l] = mem[l]
         \/ \E p \in Proposals :
              /\ Pending(p) /\ l \in LeafSet(p)
              /\ {mem[l], mem'[l]} = {journals[p].before[l], journals[p].after[l]}
OnlyJournalledWrites == [][JournalledWrite]_vars

\* Where a hook works on a proposal, inside a transaction, under the claim.
Writing == {"check", "rename", "mark", "ledger", "markledger", "commit"}
Undoing == {"rbleaf", "rbwrite", "rbdone"}
InTransaction(h) == hook[h].pc \in Writing \cup Undoing
HoldsClaim(h) == hook[h].pc \in {"recovering", "plan", "prepare", "cleanup"} \/ InTransaction(h)
HasProposal(h) == hook[h].pc \in {"claim", "plan", "prepare", "cleanup", "emit"} \/ InTransaction(h)

\* A hook in a transaction works from a copy of the journal that is on disk:
\* nobody else replaces or removes it meanwhile.
OwnsJournal(h) ==
    LET p == hook[h].key
        j == hook[h].jr IN
    /\ j \in JournalsOf(p) /\ Pending(p)
    /\ journals[p].before = j.before /\ journals[p].after = j.after
    /\ hook[h].at \in Seq(LeafSet(p))
    /\ hook[h].pc \in {"check", "rename", "mark", "rbwrite"} => hook[h].at # <<>>

\* Between a CAS check and its rename the file still has the checked bytes.
WindowHolds(h) ==
    LET l == Head(hook[h].at) IN
    ~WindowWrites =>
        /\ hook[h].pc = "rename" => mem[l] = hook[h].jr.before[l]
        /\ hook[h].pc = "rbwrite" => mem[l] = hook[h].jr.after[l]

\* Transactions are serial over all sessions ("the crash-recoverable global
\* claim", docs/memory-applier.md:15): whoever writes or undoes holds the
\* claim, its journal stays on disk as it knows it, and what a CAS checked is
\* still there at the rename.  Two hooks that both passed a free claim, or a
\* recovery that takes another hook's journal away, break it.
TransactionsAreSerial ==
    \A h \in Hooks :
        /\ HasProposal(h) => hook[h].key \in Proposals
        /\ HoldsClaim(h) => holder = h
        /\ hook[h].pc = "prepare" => bound[hook[h].key] \in Memories
        /\ InTransaction(h) => OwnsJournal(h) /\ WindowHolds(h)

\* All of p's writes are in place, but for files edited by others since; or
\* none of them is.
AllWritten(p) ==
    /\ ledger = journals[p].ledgerAfter
    /\ \A l \in LeafSet(p) : mem[l] = journals[p].after[l] \/ l \in touched[p]
NoneWritten(p) ==
    /\ ledger # journals[p].ledgerAfter
    /\ \A l \in LeafSet(p) : journals[p].before[l] # journals[p].after[l] =>
                               mem[l] # journals[p].after[l]

\* The journal of a transaction disappears only when none of its files holds
\* its after image and the ledger is not its after ledger, or when it committed
\* and all of its writes are in place: whatever fails, "no partial write is
\* inferred to be committed" (docs/memory-applier.md:33), and none is orphaned.
NoOrphanedWrite ==
    [][\A p \in Proposals : Pending(p) /\ journals'[p] = None =>
         NoneWritten(p) \/ (Committed(p) /\ AllWritten(p))]_vars

\* The ledger names p as the owner of a topic only if p committed or its
\* journal is still there to undo the entry; and the user is told "learned"
\* only about a proposal whose commit is durable, although ownership is read
\* outside the claims, unless two hooks of its session run at once.
OwnershipJustified ==
    /\ \A p \in emitted \ committed : \E g, h \in Hooks : g # h /\ p \in Mine[g] \cap Mine[h]
    /\ \A t \in Topics : ledger[t] # None =>
         \/ ledger[t].key \in committed \cup {OldKey}
         \/ Pending(ledger[t].key)

\* A proposal links its topic in the index at most once, even when two hooks of
\* its session try it while the topic is being deleted by others: the index
\* has no more links to a topic than it started with and proposals to create it.
Creators(t) == {p \in Creates : TopicOf[p] = t /\ bound[p] # None}
LinkedOnce ==
    \A t \in Topics : LinkCount(t) <= LinksTo(InitMem[Index], t) + Cardinality(Creators(t))

\* A journal that recovery can never undo: other bytes, or another release.
Unrestorable(p) ==
    \/ p \in foreign
    \/ ledger \notin {journals[p].ledgerBefore, journals[p].ledgerAfter}
    \/ \E l \in LeafSet(p) : mem[l] \notin {journals[p].before[l], journals[p].after[l]}

\* "Different proposals sharing that state authority cannot race the shared
\* index or ownership ledger" (docs/memory-applier.md:15): while nobody else
\* edits a file of p and the release stays, no other proposal's writes make
\* p's journal unrestorable.
ProposalsDoNotRace ==
    \A p \in Proposals : Pending(p) /\ Unrestorable(p) => p \in foreign \/ touched[p] # {}

\* Once kills, I/O errors and edits stop, repeated Stop hooks leave no journal
\* behind but those that recovery must preserve for an operator.
RecoveryConverges == <>[](\A p \in Proposals : Pending(p) => Unrestorable(p))

=============================================================================
