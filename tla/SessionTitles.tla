---------------------------- MODULE SessionTitles ----------------------------
(***************************************************************************)
(* Naming one session (session-control-mcp/src/session-title-*.ts).  Hooks *)
(* ask the broker for a title job; its worker claims the session's state   *)
(* leaf, lets a small model propose a title and applies it with the Claude *)
(* CLI.  /rename applies the user's title through the same CLI.  Both hold *)
(* the session's flock.                                                    *)
(*                                                                         *)
(* A title is a row at the end of the transcript; whoever reads titles     *)
(* sees the first and the last 512 KiB only.  Claude, its CLI and the      *)
(* broker (one title job of a session at a time) are external.             *)
(***************************************************************************)
EXTENDS Naturals, FiniteSets

CONSTANTS
    Users,          \* /rename commands; one stands for the title it asks for
    Proposed,       \* the title the model proposes
    Tasks,          \* background tasks the session may start
    Worker,
    None,
    MaxTracked,     \* MAX_TRACKED_BACKGROUND_TASKS
    MaxMishaps      \* bound: kills, failing calls, unreadable transcripts

ASSUME TitleNames == /\ {Proposed, None, Worker} \cap Users = {}
                     /\ Proposed # None /\ Worker # None
ASSUME TitleBounds == MaxTracked \in Nat \ {0} /\ MaxMishaps \in Nat /\ IsFiniteSet(Tasks)

VARIABLES
    title,      \* the session's title: what its last custom-title row says
    head,       \* the last such row in the first window, or None
    tail,       \* the last such row in the last window, or None
    ai,         \* where the ai-title row is: none, head, tail or past
    big,        \* the transcript is longer than a window
    talk,       \* none; asked: a prompt of an authorised chat; answered
    running,    \* background tasks the scan of the transcript finds unfinished
    overflow,   \* the scan found more than it tracks
    leaf,       \* the title state of the session
    lock,       \* who holds the flock, or None
    hook,       \* a hook has asked for a title job
    worker,     \* step of the title job
    rename,     \* [Users -> step of the /rename command]
    orphans,    \* titles of CLI processes whose server is gone
    told,       \* [Users -> what the command returned, or None]
    calls,      \* history: calls of the model
    mishaps

transcriptVars == <<title, head, tail, ai, big, talk, running, overflow>>
commandVars == <<rename, orphans, told>>
vars == <<transcriptVars, leaf, lock, hook, worker, commandVars, calls, mishaps>>

Titles == Users \cup {Proposed}
\* What a valid leaf may say; retry: no, waiting until retryAt, or due.
Claimed(n) == [status |-> "claimed", attempts |-> n, title |-> None, retry |-> "no"]
Failed(n, retry) == [status |-> "failed", attempts |-> n, title |-> None, retry |-> retry]
Applied(n, t) == [status |-> "auto_applied", attempts |-> n, title |-> t, retry |-> "no"]
Locked(t) == [status |-> "user_locked", attempts |-> 1, title |-> t, retry |-> "no"]
Blank(status) == [status |-> status, attempts |-> 0, title |-> None, retry |-> "no"]
NoLeaf == Blank("absent")
Corrupt == Blank("corrupt")     \* what readLeaf throws at
Leaves == {NoLeaf, Corrupt, Failed(1, "waiting"), Failed(1, "due")}
    \cup {Claimed(n) : n \in 1..2} \cup {Failed(n, "no") : n \in 1..2}
    \cup {Applied(n, t) : n \in 1..2, t \in Titles} \cup {Locked(t) : t \in Titles \cup {"ai"}}

Init ==
    /\ title = None /\ head = None /\ tail = None /\ ai = "none" /\ big \in BOOLEAN
    /\ talk = "none" /\ running = {} /\ overflow = FALSE
    /\ leaf = NoLeaf /\ lock = None /\ hook = FALSE /\ worker = "idle"
    /\ rename = [u \in Users |-> "idle"] /\ orphans = {}
    /\ told = [u \in Users |-> None]
    /\ calls = 0 /\ mishaps = 0

Mishap == mishaps < MaxMishaps /\ mishaps' = mishaps + 1
Works == UNCHANGED mishaps

-----------------------------------------------------------------------------
(* The transcript.                                                          *)

\* readHeadAndTail: the rows of the tail come last, so they win.
Custom == IF tail # None THEN tail ELSE head
AiShown == ai \in {"head", "tail"}

\* The CLI appends a custom-title row.
Renames(t) ==
    /\ title' = t /\ tail' = t
    /\ head' = IF big THEN head ELSE t
    /\ UNCHANGED <<ai, big, talk, running, overflow>>

\* More than a window is appended: what only the tail showed is out of sight.
Grow ==
    /\ ~big \/ tail # None \/ ai = "tail"
    /\ big' = TRUE /\ tail' = None
    /\ ai' = IF ai = "tail" THEN "past" ELSE ai
    /\ UNCHANGED <<title, head, talk, running, overflow>>

AiTitled ==
    /\ ~AiShown
    /\ ai' = IF big THEN "tail" ELSE "head"
    /\ UNCHANGED <<title, head, tail, big, talk, running, overflow>>

Talks ==
    /\ talk # "answered"
    /\ talk' = IF talk = "none" THEN "asked" ELSE "answered"
    /\ UNCHANGED <<title, head, tail, ai, big, running, overflow>>

\* A launch is tracked while there is room; one too many hides for ever
\* whether anything still runs.
TaskForks(k) ==
    /\ k \notin running /\ ~overflow
    /\ IF Cardinality(running) < MaxTracked
       THEN running' = running \cup {k} /\ UNCHANGED overflow
       ELSE overflow' = TRUE /\ UNCHANGED running
    /\ UNCHANGED <<title, head, tail, ai, big, talk>>

TaskEnds(k) ==
    /\ k \in running
    /\ running' = running \ {k}
    /\ UNCHANGED <<title, head, tail, ai, big, talk, overflow>>

IncompleteTask == overflow \/ running # {}

SessionGoesOn ==
    /\ Grow \/ AiTitled \/ Talks \/ \E k \in Tasks : TaskForks(k) \/ TaskEnds(k)
    /\ UNCHANGED <<leaf, lock, hook, worker, commandVars, calls, mishaps>>

-----------------------------------------------------------------------------
(* The hook and the lock.                                                   *)

\* A hook of this session, at the end of a turn or for /sessions and /reset.
\* It reads the leaf without the lock and asks for a job when there is none,
\* or one failure that may be retried now.
MayAttempt == leaf = NoLeaf \/ leaf = Failed(1, "due")
HookFires ==
    /\ ~hook /\ MayAttempt
    /\ hook' = TRUE
    /\ UNCHANGED <<transcriptVars, leaf, lock, worker, commandVars, calls, mishaps>>

\* The broker starts the job, unless it refuses: always while one runs.
JobStarts ==
    /\ hook /\ hook' = FALSE
    /\ \/ worker = "idle" /\ worker' = "lock"
       \/ UNCHANGED worker
    /\ UNCHANGED <<transcriptVars, leaf, lock, commandVars, calls, mishaps>>

\* retryAt passes.
RetryComesDue ==
    /\ leaf = Failed(1, "waiting")
    /\ leaf' = Failed(1, "due")
    /\ UNCHANGED <<transcriptVars, lock, hook, worker, commandVars, calls, mishaps>>

\* flock -x -w 30: the lock, or after the time-out nothing.  The mutant lets
\* /rename go on without it.
EnterUnlocked(p) == lock' = IF p = Worker /\ lock = None THEN p ELSE lock
Enter(p) == lock = None /\ lock' = p
LockTimesOut(p) == lock \notin {None, p}
Release(p) == lock' = IF lock = p THEN None ELSE lock

WorkerLocks ==
    /\ worker = "lock"
    /\ \/ Enter(Worker) /\ worker' = "examine"
       \/ LockTimesOut(Worker) /\ worker' = "idle" /\ UNCHANGED lock
    /\ UNCHANGED <<transcriptVars, leaf, hook, commandVars, calls, mishaps>>

\* replaceLeaf renames first and syncs the directory afterwards: a write that
\* fails may have replaced the leaf.
Replaces(new) == leaf' = new /\ Works
ReplaceFails(new) == leaf' \in {leaf, new} /\ Mishap

-----------------------------------------------------------------------------
(* ensureAutoTitle, in the worker.                                          *)

WorkerLeaves == worker' = "idle" /\ Release(Worker)
Fails(retry) == worker' = IF retry THEN "fail_retryably" ELSE "fail"

\* The title to record when the session turns out to have one already; the
\* mutant heeds Claude's own titles only.
Existing == IF Custom # None THEN Custom ELSE "ai"
OnlyNative == AiShown
HasTitle == Custom # None \/ AiShown

\* Under the lock: read the leaf and the transcript; record a title that is
\* there; leave what is not ready; go on to the claim otherwise.
Examine ==
    /\ worker = "examine"
    /\ \/ /\ MayAttempt /\ talk # "none" /\ HasTitle
          /\ Replaces(Locked(Existing)) \/ ReplaceFails(Locked(Existing))
          /\ WorkerLeaves
       \/ /\ ~(MayAttempt /\ talk # "none" /\ HasTitle)
          /\ IF MayAttempt /\ talk = "answered" /\ ~IncompleteTask
             THEN worker' = "claim" /\ UNCHANGED lock
             ELSE WorkerLeaves
          /\ Works /\ UNCHANGED leaf
       \/ Mishap /\ WorkerLeaves /\ UNCHANGED leaf    \* reading fails
    /\ UNCHANGED <<transcriptVars, hook, commandVars, calls>>

\* claimAutoTitle creates the leaf exclusively, retryAutoTitle replaces the
\* failure by the second attempt; either may throw after the fact.  The mutant
\* counts the retry as a first attempt.
RetriedAgain == Claimed(1)
Retried == Claimed(2)
Claim ==
    LET new == IF leaf = NoLeaf THEN Claimed(1) ELSE Retried IN
    /\ worker = "claim"
    /\ \/ Replaces(new) /\ worker' = "call" /\ UNCHANGED lock
       \/ ReplaceFails(new) /\ WorkerLeaves
    /\ UNCHANGED <<transcriptVars, hook, commandVars, calls>>

\* generateSessionTitle: one call of the model.
CallModel ==
    /\ worker = "call"
    /\ worker' = "await" /\ calls' = calls + 1
    /\ UNCHANGED <<transcriptVars, leaf, lock, hook, commandVars, mishaps>>

\* A valid title, or output that is not one; a failed call is like the latter.
ModelAnswers ==
    /\ worker = "await"
    /\ worker' = "apply" \/ Fails(TRUE)
    /\ UNCHANGED <<transcriptVars, leaf, lock, hook, commandVars, calls, mishaps>>

\* After 15 seconds the process group is killed; the mutant waits for ever.
NeverStopped == FALSE
Stopped == Fails(TRUE)
ModelTimesOut ==
    /\ worker = "await" /\ Stopped
    /\ UNCHANGED <<transcriptVars, leaf, lock, hook, commandVars, calls, mishaps>>

\* The transcript is read again before the title is applied: a title that
\* appeared meanwhile wins.
PreApply ==
    /\ worker = "apply"
    /\ \/ /\ ~HasTitle
          /\ worker' = "rename" /\ Works /\ UNCHANGED <<leaf, lock>>
       \/ /\ Custom # None
          /\ \/ Replaces(Locked(Custom)) /\ WorkerLeaves
             \/ ReplaceFails(Locked(Custom)) /\ Fails(FALSE) /\ UNCHANGED lock
       \/ /\ AiShown /\ Custom = None
          /\ Fails(FALSE) /\ Works /\ UNCHANGED <<leaf, lock>>
       \/ Mishap /\ Fails(FALSE) /\ UNCHANGED <<leaf, lock>>
    /\ UNCHANGED <<transcriptVars, hook, commandVars, calls>>

\* renameSessionWithClaude: a failure may come after the row was written.
ApplyTitle ==
    /\ worker = "rename"
    /\ \/ Renames(Proposed) /\ worker' = "read_back" /\ Works
       \/ (Renames(Proposed) \/ UNCHANGED transcriptVars) /\ Fails(FALSE) /\ Mishap
    /\ UNCHANGED <<leaf, lock, hook, commandVars, calls>>

ReadBack ==
    /\ worker = "read_back"
    /\ \/ /\ Custom = Proposed /\ worker' = "complete" /\ Works
       \/ Custom # Proposed /\ Fails(FALSE) /\ Works
       \/ Fails(FALSE) /\ Mishap
    /\ UNCHANGED <<transcriptVars, leaf, lock, hook, commandVars, calls>>

\* completeAutoTitle: a claimed leaf only.
Complete ==
    /\ worker = "complete"
    /\ \/ Replaces(Applied(leaf.attempts, Proposed)) /\ WorkerLeaves
       \/ ReplaceFails(Applied(leaf.attempts, Proposed)) /\ Fails(FALSE) /\ UNCHANGED lock
    /\ UNCHANGED <<transcriptVars, hook, commandVars, calls>>

\* failAutoTitle: a claimed leaf only; a second attempt is not retried.
RetryLeft == IF worker = "fail_retryably" /\ leaf.attempts = 1 THEN "waiting" ELSE "no"
Fail ==
    /\ worker \in {"fail", "fail_retryably"}
    /\ IF leaf.status = "claimed"
       THEN \/ Replaces(Failed(leaf.attempts, RetryLeft))
            \/ ReplaceFails(Failed(leaf.attempts, RetryLeft))
       ELSE UNCHANGED <<leaf, mishaps>>
    /\ WorkerLeaves
    /\ UNCHANGED <<transcriptVars, hook, commandVars, calls>>

\* The job's unit dies with its children.  Killed while it creates the leaf
\* it leaves one that no longer parses.
KillWorker ==
    /\ worker # "idle" /\ Mishap
    /\ leaf' \in IF worker = "claim" /\ leaf = NoLeaf THEN {leaf, Corrupt} ELSE {leaf}
    /\ WorkerLeaves
    /\ UNCHANGED <<transcriptVars, hook, commandVars, calls>>

WorkerStep ==
    \/ WorkerLocks \/ Examine \/ Claim \/ CallModel \/ ModelTimesOut \/ PreApply
    \/ ApplyTitle \/ ReadBack \/ Complete \/ Fail

-----------------------------------------------------------------------------
(* renameUserSession, in the control server.                                *)

Becomes(u, step) == rename' = [rename EXCEPT ![u] = step]
Returns(u, result) == /\ Becomes(u, "gone") /\ Release(u)
                      /\ told' = [told EXCEPT ![u] = result]

RenameArrives(u) ==
    /\ rename[u] = "idle"
    /\ Becomes(u, "lock")
    /\ UNCHANGED <<transcriptVars, leaf, lock, hook, worker, orphans, told, calls, mishaps>>

RenameLocks(u) ==
    /\ rename[u] = "lock"
    /\ \/ Enter(u) /\ Becomes(u, "cli") /\ UNCHANGED told
       \/ LockTimesOut(u) /\ Returns(u, "failed")
    /\ UNCHANGED <<transcriptVars, leaf, hook, worker, orphans, calls, mishaps>>

ApplyUserTitle(u) ==
    /\ rename[u] = "cli"
    /\ \/ Renames(u) /\ Becomes(u, "read_back") /\ Works /\ UNCHANGED <<lock, told>>
       \/ (Renames(u) \/ UNCHANGED transcriptVars) /\ Returns(u, "failed") /\ Mishap
    /\ UNCHANGED <<leaf, hook, worker, orphans, calls>>

ReadUserTitleBack(u) ==
    /\ rename[u] = "read_back"
    /\ \/ Custom = u /\ Becomes(u, "record") /\ Works /\ UNCHANGED <<lock, told>>
       \/ Custom # u /\ Returns(u, "failed") /\ Works
       \/ Returns(u, "failed") /\ Mishap
    /\ UNCHANGED <<transcriptVars, leaf, hook, worker, orphans, calls>>

\* lockUserTitle; that it throws, as it does at a corrupt leaf, is swallowed.
RecordUserTitle(u) ==
    /\ rename[u] = "record"
    /\ \/ leaf # Corrupt /\ Replaces(Locked(u))
       \/ leaf # Corrupt /\ ReplaceFails(Locked(u))
       \/ leaf = Corrupt /\ Works /\ UNCHANGED leaf
    /\ Returns(u, "renamed")
    /\ UNCHANGED <<transcriptVars, hook, worker, orphans, calls>>

\* The control server dies: its locks with it, but not the CLI it started.
ServerDies ==
    LET running_ == {u \in Users : rename[u] \notin {"idle", "gone"}} IN
    /\ running_ # {} /\ Mishap
    /\ rename' = [u \in Users |-> IF u \in running_ THEN "gone" ELSE rename[u]]
    /\ orphans' = orphans \cup {u \in running_ : rename[u] = "cli"}
    /\ lock' = IF lock \in running_ THEN None ELSE lock
    /\ UNCHANGED <<transcriptVars, leaf, hook, worker, told, calls>>

OrphanEnds(t) ==
    /\ t \in orphans /\ orphans' = orphans \ {t}
    /\ Renames(t) \/ UNCHANGED transcriptVars
    /\ UNCHANGED <<leaf, lock, hook, worker, rename, told, calls, mishaps>>

RenameStep(u) ==
    RenameLocks(u) \/ ApplyUserTitle(u) \/ ReadUserTitleBack(u) \/ RecordUserTitle(u)

Next ==
    \/ SessionGoesOn \/ HookFires \/ JobStarts \/ RetryComesDue
    \/ WorkerStep \/ ModelAnswers \/ KillWorker
    \/ \E u \in Users : RenameArrives(u) \/ RenameStep(u)
    \/ ServerDies \/ \E t \in orphans : OrphanEnds(t)

Spec == Init /\ [][Next]_vars

\* The kernel runs the worker and the server; the model owes no answer.
FairSpec == Spec /\ WF_vars(WorkerStep) /\ \A u \in Users : WF_vars(RenameStep(u))

-----------------------------------------------------------------------------
(* Properties.                                                              *)

WorkerSteps == {"idle", "lock", "examine", "claim", "call", "await", "apply", "rename",
                "read_back", "complete", "fail", "fail_retryably"}

\* Between its claim and its verdict the worker alone holds the session: the
\* leaf stays claimed, so that no /rename slips in between the last look at
\* the transcript and the title.
Applying == {"call", "await", "apply", "rename", "read_back", "complete"}
ClaimIsHeld == worker \in Applying => lock = Worker /\ leaf.status = "claimed"

\* Shape of the transcript, the leaf and the processes, and who holds the claim.
TypeOK ==
    /\ {title, head, tail} \subseteq Titles \cup {None}
    /\ ai \in {"none", "head", "tail", "past"} /\ big \in BOOLEAN
    /\ talk \in {"none", "asked", "answered"}
    /\ running \subseteq Tasks /\ overflow \in BOOLEAN
    /\ leaf \in Leaves /\ lock \in Users \cup {Worker, None} /\ hook \in BOOLEAN
    /\ worker \in WorkerSteps
    /\ rename \in [Users -> {"idle", "lock", "cli", "read_back", "record", "gone"}]
    /\ orphans \subseteq Users
    /\ told \in [Users -> {None, "renamed", "failed"}]
    /\ calls \in Nat /\ mishaps \in 0..MaxMishaps
    /\ Cardinality(running) <= MaxTracked
    /\ ClaimIsHeld

\* A session costs at most two calls of the model, its retry included, however
\* often hooks fire, jobs are killed, or commands and jobs take turns
\* (session-control-mcp/README.md:64; other documents say one, see OneCall).
AtMostTwoCalls == calls <= 2

\* A title the user was told of is not overwritten by an automatic one as
\* long as the leaf records it or the transcript's windows show it.
VisibleTitleStands ==
    [][\A u \in Users : title = u /\ told[u] # None /\ title' = Proposed
         => leaf.status # "user_locked" /\ Custom = None]_vars

\* "/rename always creates a permanent user lock, so automatic naming can
\* never overwrite it" (docs/operations.md:183), whatever is visible.
UserTitleStands ==
    [][\A u \in Users : title = u /\ told[u] = "renamed" => title' # Proposed]_vars

\* "makes at most one Haiku-class call per exact session UUID"
\* (docs/design-invariants.md:71), "makes one isolated Haiku call"
\* (docs/operations.md:182).  The code makes a second one after a failure it
\* holds to be retryable.
OneCall == calls <= 1

\* The lock is given back, also when the model never answers: a /rename that
\* waits for it is answered.
LockIsReleased == lock # None ~> lock = None
=============================================================================
