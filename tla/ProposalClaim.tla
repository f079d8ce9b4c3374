--------------------------- MODULE ProposalClaim ---------------------------
(***************************************************************************)
(* The claim file of memory-review-proposal-store.ts: the lock behind the  *)
(* global applier claim, the reviewer's proposal claim and the learning-   *)
(* delta store.  A claim is a file made with O_CREAT|O_EXCL that names its *)
(* owner by pid and process start time.  An acquirer that finds the file   *)
(* reads it, looks the owner up in /proc, and when the owner is gone       *)
(* compares the inode once more, unlinks the path and tries again.         *)
(*                                                                         *)
(* Each system call is a step.  A process is one incarnation: killed or    *)
(* exited it never returns, and another one may get its pid.               *)
(***************************************************************************)
EXTENDS Naturals, FiniteSets

CONSTANTS
    Procs,              \* process incarnations
    PidOf,              \* [Procs -> pids]
    Mortal,             \* the processes that may exit or be killed
    Inodes,             \* inode numbers of the file system
    NoFile,             \* no file
    ReuseInodes,        \* may the file system reuse a freed inode number
    ConcurrentRecovery, \* may two recoverers be between recheck and unlink
    EmptyClaims,        \* may a kill or a failing unlink leave an empty claim
    MaxKills, MaxFaults \* bounds on kills and failing calls

ASSUME ClaimBounds == MaxKills \in Nat /\ MaxFaults \in Nat
ASSUME ClaimNames == Mortal \subseteq Procs /\ PidOf \in [Procs -> Nat]

VARIABLES
    file,       \* the claim file [ino, by, written], or NoFile
    proc,       \* [Procs -> local state]
    used,       \* inodes that were ever allocated
    budget,     \* kills and faults so far
    overtaken   \* history: a recoverer removed a claim it had not judged,
                \* of a running process

claimVars == <<file, proc, used, budget, overtaken>>

Files == [ino : Inodes, by : Procs, written : BOOLEAN]
ASSUME ClaimNone == NoFile \notin Files

Steps == {"unborn", "idle", "open", "write", "sync", "held", "release",
          "read", "judge", "recheck", "unlink", "dead"}

\* seen is the claim a recoverer read, mine the inode of the claim it created.
LocalStates == [pc : Steps, seen : Files \cup {NoFile}, mine : Inodes \cup {NoFile},
                retried : BOOLEAN]
At(step) == [pc |-> step, seen |-> NoFile, mine |-> NoFile, retried |-> FALSE]

ClaimInit ==
    /\ file = NoFile
    /\ proc = [p \in Procs |-> At("unborn")]
    /\ used = {}
    /\ budget = [kill |-> 0, fault |-> 0]
    /\ overtaken = FALSE

Alive(p) == proc[p].pc \notin {"unborn", "dead"}
TurnsTo(p, s) == proc' = [proc EXCEPT ![p] = s]
GoesTo(p, to) == TurnsTo(p, [proc[p] EXCEPT !.pc = to])
Ends(p) == TurnsTo(p, At("idle"))
Throws == /\ budget.fault < MaxFaults
          /\ budget' = [budget EXCEPT !.fault = @ + 1]

\* processStartTicks(pid) === start_ticks: the very process that wrote the
\* claim still runs.  The mutants know the pid only, or do not look.
PidRuns(o) == \E q \in Procs : Alive(q) /\ PidOf[q] = PidOf[o]
NobodyRuns(o) == FALSE
OwnerRuns(o) == Alive(o)

Start(p) ==
    /\ proc[p].pc = "unborn" /\ ~PidRuns(p)
    /\ Ends(p)
    /\ UNCHANGED <<file, used, budget, overtaken>>

Exit(p) ==
    /\ proc[p].pc = "idle" /\ p \in Mortal
    /\ TurnsTo(p, At("dead"))
    /\ UNCHANGED <<file, used, budget, overtaken>>

KillProcess(p) ==
    /\ Alive(p) /\ p \in Mortal
    /\ proc[p].pc = "write" => EmptyClaims
    /\ budget.kill < MaxKills
    /\ budget' = [budget EXCEPT !.kill = @ + 1]
    /\ TurnsTo(p, At("dead"))
    /\ UNCHANGED <<file, used, overtaken>>

Acquire(p) ==
    /\ proc[p].pc = "idle"
    /\ GoesTo(p, "open")
    /\ UNCHANGED <<file, used, budget, overtaken>>

\* An inode is free once no path and no open descriptor refers to it.
Free(i) ==
    IF ReuseInodes
    THEN /\ file # NoFile => file.ino # i
         /\ \A q \in Procs : proc[q].pc = "write" => proc[q].mine # i
    ELSE i \notin used

\* The new claim.
Claim(p, i) == [ino |-> i, by |-> p, written |-> FALSE]

\* open(O_CREAT | O_EXCL) of the claim path, still empty.
Create(p) ==
    /\ proc[p].pc = "open" /\ file = NoFile
    /\ \E i \in Inodes :
         /\ Free(i)
         /\ file' = Claim(p, i)
         /\ used' = used \cup {i}
         /\ TurnsTo(p, [proc[p] EXCEPT !.pc = "write", !.mine = i])
    /\ UNCHANGED <<budget, overtaken>>

Exists(p) ==
    /\ proc[p].pc = "open" /\ file # NoFile
    /\ GoesTo(p, "read")
    /\ UNCHANGED <<file, used, budget, overtaken>>

OnPath(p) == file # NoFile /\ file.ino = proc[p].mine

\* Write the record and fsync.  On failure the path is unlinked, best effort.
WriteRecord(p) ==
    /\ proc[p].pc = "write"
    /\ \/ /\ file' = IF OnPath(p) THEN [file EXCEPT !.written = TRUE] ELSE file
          /\ GoesTo(p, "sync") /\ UNCHANGED budget
       \/ /\ file' = NoFile \/ (EmptyClaims /\ file' = file)
          /\ Ends(p) /\ Throws
    /\ UNCHANGED <<used, overtaken>>

\* fsync of the directory; when it throws the claim stays behind unreleased.
SyncDirectory(p) ==
    /\ proc[p].pc = "sync"
    /\ \/ GoesTo(p, "held") /\ UNCHANGED budget
       \/ Ends(p) /\ Throws
    /\ UNCHANGED <<file, used, overtaken>>

\* readClaim throws when the file is gone or still empty.
ReadClaim(p) ==
    /\ proc[p].pc = "read"
    /\ IF file # NoFile /\ file.written
       THEN TurnsTo(p, [proc[p] EXCEPT !.pc = "judge", !.seen = file])
       ELSE Ends(p)
    /\ UNCHANGED <<file, used, budget, overtaken>>

\* Busy while the owner runs.
Judge(p) ==
    /\ proc[p].pc = "judge"
    /\ IF OwnerRuns(proc[p].seen.by) THEN Ends(p) ELSE GoesTo(p, "recheck")
    /\ UNCHANGED <<file, used, budget, overtaken>>

\* The path still leads to the inode that was read; the mutant does not look.
AnyFile(p) == file # NoFile
SameFile(p) == file # NoFile /\ file.ino = proc[p].seen.ino

Recheck(p) ==
    /\ proc[p].pc = "recheck"
    /\ ConcurrentRecovery \/ \A q \in Procs : proc[q].pc # "unlink"
    /\ IF SameFile(p) THEN GoesTo(p, "unlink") ELSE Ends(p)
    /\ UNCHANGED <<file, used, budget, overtaken>>

\* unlink by path, whatever it now leads to; ENOENT throws, and so does the
\* end of the second attempt.
Unlink(p) ==
    /\ proc[p].pc = "unlink"
    /\ file' = NoFile
    /\ IF file # NoFile /\ ~proc[p].retried
       THEN TurnsTo(p, [At("open") EXCEPT !.retried = TRUE]) ELSE Ends(p)
    /\ overtaken' = (overtaken \/ (file \notin {NoFile, proc[p].seen} /\ Alive(file.by)))
    /\ UNCHANGED <<used, budget>>

\* release(): the inode is compared, then the path is unlinked.
ReleaseCheck(p) ==
    /\ proc[p].pc = "held"
    /\ IF OnPath(p) THEN GoesTo(p, "release") ELSE Ends(p)
    /\ UNCHANGED <<file, used, budget, overtaken>>

ReleaseUnlink(p) ==
    /\ proc[p].pc = "release"
    /\ file' = NoFile
    /\ Ends(p)
    /\ UNCHANGED <<used, budget, overtaken>>

ClaimStep(p) ==
    \/ Create(p) \/ Exists(p) \/ WriteRecord(p) \/ SyncDirectory(p)
    \/ ReadClaim(p) \/ Judge(p) \/ Recheck(p) \/ Unlink(p)
    \/ ReleaseCheck(p) \/ ReleaseUnlink(p)

ClaimNext == \E p \in Procs : Start(p) \/ Exit(p) \/ KillProcess(p) \/ Acquire(p) \/ ClaimStep(p)

ClaimSpec == ClaimInit /\ [][ClaimNext]_claimVars

\* A running process takes its steps and releases what it holds, hooks keep
\* coming back for the claim, and processes keep being started.
FairClaimSpec == ClaimSpec /\ \A p \in Procs : WF_claimVars(Start(p) \/ Acquire(p) \/ ClaimStep(p))

-----------------------------------------------------------------------------
(* Properties.                                                              *)

\* Shape of the claim file and of every process's local state.
ClaimTypeOK ==
    /\ file \in Files \cup {NoFile}
    /\ proc \in [Procs -> LocalStates]
    /\ used \subseteq Inodes
    /\ budget \in [kill : Nat, fault : Nat]
    /\ overtaken \in BOOLEAN

Holding(p) == proc[p].pc \in {"held", "release"}

\* "A PID/start-time claim singleflights the reviewer model call and recovers
\* after a crashed owner" (session-control-mcp/README.md:124): no two running
\* processes hold the claim.
AtMostOneHolder == \A p, q \in Procs : Holding(p) /\ Holding(q) => p = q

\* The claim file of a running holder is never taken away from it: it is on
\* the path, complete, and names the holder until the holder removes it.  (It
\* implies AtMostOneHolder.)
HolderOnDisk ==
    \A p \in Procs :
        Holding(p) => file = [ino |-> proc[p].mine, by |-> p, written |-> TRUE]

\* Without any assumption on recoverers, inode numbers or kills: a holder
\* loses its claim, and the lock is broken, in no other way than by a
\* recoverer that unlinks the path after it has come to lead to another claim
\* than the one it judged (memory-review-proposal-store.ts:270-272).
KeptUnlessOvertaken == overtaken \/ HolderOnDisk
ExclusiveUnlessOvertaken == overtaken \/ AtMostOneHolder

\* A claim whose owner is gone is eventually cleared by whoever comes next.
RecoversCrashedOwner ==
    \A p \in Procs :
        file # NoFile /\ file.by = p /\ proc[p].pc = "dead" ~> ~(file # NoFile /\ file.by = p)
=============================================================================
