--------------------------- MODULE ReviewPipeline ---------------------------
(***************************************************************************)
(* The memory review of a finished turn, from the Stop hook to the verdict *)
(* (memory-review-command.ts, memory-review-receipt.ts, the root helper's  *)
(* memory_review_session, memory-review-worker.ts).  The hook makes one    *)
(* receipt for the turn, stores the snapshot to review and asks the        *)
(* broker; the job runs an isolated worker once, or twice when the worker  *)
(* asks for it; the worker records an attempt, calls the model, stores the *)
(* proposal and turns the receipt.                                         *)
(*                                                                         *)
(* Hook, broker connection and job share the name r in Requests.  Evidence *)
(* of delivery, cadence and the model are external choices, and the claim  *)
(* on a proposal is an atomic lock (ProposalClaim has its steps).          *)
(***************************************************************************)
EXTENDS ControlBroker

CONSTANTS
    SessionOf,      \* [Messages -> Sessions], the session of a turn
    MaxAttempts,    \* MEMORY_REVIEW_MAX_ATTEMPTS
    MaxReceipts,    \* MEMORY_REVIEW_RECEIPT_MAX_ENTRIES, near enough to prune
    Torn,           \* a file that cannot be parsed
    MaxMishaps      \* bound: kills, failing calls, expiries

ASSUME ReviewBounds == /\ {MaxAttempts, MaxReceipts} \subseteq Nat \ {0}
                       /\ MaxMishaps \in Nat
ASSUME ReviewNames == /\ SessionOf \in [Messages -> Sessions]
                      /\ Torn \notin Requests \cup {None} /\ None \notin Requests \cup Messages

Turns == Messages

\* by stands for what the hook bound: its snapshot and message digests.
\* failed: failure telemetry was recorded; expired: older than 30 days.
Receipts == [by : Requests, status : {"queued", "reviewed", "failed"}, attempts : 0..MaxAttempts,
             failed : BOOLEAN, expired : BOOLEAN]
Torns == [by : {Torn}, status : {"torn"}, attempts : {0}, failed : {FALSE}, expired : {FALSE}]

ASSUME FileNames == None \notin Receipts \cup Torns

VARIABLES
    hook,       \* [Requests -> [pc, turn]]
    receipt,    \* [Turns -> the receipt file]
    snapshot,   \* [Turns -> whose snapshot is stored]
    proposal,   \* [Turns -> the snapshot the stored proposal is bound to]
    claim,      \* [Turns -> the job that made the claim file]
    job,        \* [Requests -> [pc, run, input, permanent, exit]]
    calls,      \* history: [Requests -> model calls for the receipt it made]
    mishaps

files == <<receipt, snapshot, proposal, claim>>
reviewVars == <<hook, files, job, calls, mishaps>>
vars == <<brokerVars, reviewVars>>

HookSteps == {"idle", "gather", "look", "open", "snapshot", "condemn", "submit", "done"}
JobSteps == {"none", "spawn", "claim", "examine", "attempt", "call", "store", "transition",
             "failing", "release", "over"}
\* The steps a worker takes inside its claim.
Claimed == {"examine", "attempt", "call", "store", "transition"}
Exits == {"ok", "retry", "failed"}
NoJob == [pc |-> "none", run |-> 0, input |-> None, permanent |-> FALSE, exit |-> "failed"]

Init ==
    /\ BrokerInit
    /\ hook = [r \in Requests |-> [pc |-> "idle", turn |-> None]]
    /\ receipt = [t \in Turns |-> None] /\ snapshot = [t \in Turns |-> None]
    /\ proposal = [t \in Turns |-> None] /\ claim = [t \in Turns |-> None]
    /\ job = [r \in Requests |-> NoJob]
    /\ calls = [r \in Requests |-> 0]
    /\ mishaps = 0

Mishap == mishaps < MaxMishaps /\ mishaps' = mishaps + 1
Works == UNCHANGED mishaps

Turn(r) == hook[r].turn
Stands(t, status) == receipt[t] # None /\ receipt[t].status = status
\* transitionMemoryReviewReceipt and mutateQueuedReceipt touch nothing else;
\* the mutant does.
AnyReceipt(t) == receipt[t] # None
Queued(t) == Stands(t, "queued")
Live(t) == receipt[t] # None /\ ~Stands(t, "torn") /\ ~receipt[t].expired

-----------------------------------------------------------------------------
(* The Stop hook.                                                           *)

HookGoes(r, pc) == hook' = [hook EXCEPT ![r].pc = pc]

\* A Stop of turn t, perhaps not the first.  A receipt, whatever its state,
\* is a reason not to review.
Stop(r, t) ==
    /\ hook[r].pc = "idle"
    /\ hook' = [hook EXCEPT ![r] = [pc |-> IF receipt[t] = None THEN "gather" ELSE "done", turn |-> t]]
    /\ UNCHANGED <<brokerVars, files, job, calls, mishaps>>

\* Wait for delivery evidence, decide, observe memory, build the snapshot.
Gather(r) ==
    /\ hook[r].pc = "gather"
    /\ HookGoes(r, "look") \/ HookGoes(r, "done")
    /\ UNCHANGED <<brokerVars, files, job, calls, mishaps>>

\* createMemoryReviewReceipt up to its open: a duplicate ends the hook; else
\* expired receipts go, and a full store refuses.
Look(r) ==
    LET t == Turn(r) IN
    /\ hook[r].pc = "look"
    /\ IF Live(t) \/ Stands(t, "torn")
       THEN HookGoes(r, "done") /\ UNCHANGED receipt
       ELSE /\ receipt' = [u \in Turns |-> IF Live(u) \/ Stands(u, "torn") THEN receipt[u] ELSE None]
            /\ HookGoes(r, IF Cardinality({u \in Turns : Live(u)}) < MaxReceipts THEN "open" ELSE "done")
    /\ UNCHANGED <<brokerVars, snapshot, proposal, claim, job, calls, mishaps>>

NewReceipt(r) == [by |-> r, status |-> "queued", attempts |-> 0, failed |-> FALSE, expired |-> FALSE]
TornReceipt == CHOOSE f \in Torns : TRUE

\* O_CREAT|O_EXCL; the mutant opens without O_EXCL.
Overwrites(t) == FALSE
Exists(t) == receipt[t] # None

\* A failed write is unlinked again, a kill leaves part of it, and a failed
\* readback leaves all of it.
Open(r) ==
    LET t == Turn(r) IN
    /\ hook[r].pc = "open"
    /\ \/ Exists(t) /\ HookGoes(r, "done") /\ UNCHANGED receipt /\ Works
       \/ ~Exists(t) /\ receipt' = [receipt EXCEPT ![t] = NewReceipt(r)] /\ HookGoes(r, "snapshot") /\ Works
       \/ /\ ~Exists(t) /\ Mishap /\ HookGoes(r, "done")
          /\ \E f \in {None, TornReceipt, NewReceipt(r)} : receipt' = [receipt EXCEPT ![t] = f]
    /\ UNCHANGED <<brokerVars, snapshot, proposal, claim, job, calls>>

\* writeMemoryReviewSnapshot; it may throw after its rename.
WriteSnapshot(r) ==
    LET written == [snapshot EXCEPT ![Turn(r)] = r] IN
    /\ hook[r].pc = "snapshot"
    /\ \/ snapshot' = written /\ HookGoes(r, "submit") /\ Works
       \/ snapshot' \in {snapshot, written} /\ HookGoes(r, "condemn") /\ Mishap
    /\ UNCHANGED <<brokerVars, receipt, proposal, claim, job, calls>>

\* A receipt without a snapshot is failed, best effort.
Condemn(r) ==
    LET t == Turn(r)
        condemned == [receipt EXCEPT ![t].status = "failed"] IN
    /\ hook[r].pc = "condemn"
    /\ \/ receipt' = (IF Queued(t) THEN condemned ELSE receipt) /\ Works
       \/ Queued(t) /\ receipt' \in {receipt, condemned} /\ Mishap
    /\ HookGoes(r, "done")
    /\ UNCHANGED <<brokerVars, snapshot, proposal, claim, job, calls>>

\* scheduleMemoryReview: one request to the broker; whatever it answers, the
\* receipt stays as it is and the request is not repeated.
Submit(r) ==
    /\ hook[r].pc = "submit"
    /\ HookGoes(r, "done")
    /\ Count(r, [action |-> "memory-review", message |-> Turn(r), named |-> SessionOf[Turn(r)], target |-> None])
    /\ UNCHANGED <<files, job, calls, mishaps>>

HookDies(r) ==
    /\ hook[r].pc \notin {"idle", "done"} /\ Mishap
    /\ HookGoes(r, "done")
    /\ UNCHANGED <<brokerVars, files, job, calls>>

\* Thirty days pass, long after all hooks and jobs of the turn.
Expire(t) ==
    /\ Live(t) /\ Mishap
    /\ \A r \in Requests : Turn(r) = t =>
         hook[r].pc = "done" /\ r \notin active /\ broker[r] \notin {"counted", "timed", "reserved"}
    /\ receipt' = [receipt EXCEPT ![t].expired = TRUE]
    /\ UNCHANGED <<brokerVars, hook, snapshot, proposal, claim, job, calls>>

-----------------------------------------------------------------------------
(* The job: memory_review_session and the worker it runs.                   *)

JobGoes(r, pc) == job' = [job EXCEPT ![r].pc = pc]
JobFails(r, permanent) == job' = [job EXCEPT ![r].pc = "failing", ![r].permanent = permanent]
Leaves(r, exit) == job' = [job EXCEPT ![r].pc = "release", ![r].exit = exit]

RunJob(r) ==
    /\ Run(r)
    /\ job' = IF r \in active' THEN [job EXCEPT ![r].pc = "spawn", ![r].run = 1] ELSE job
    /\ UNCHANGED <<hook, files, calls, mishaps>>

\* The worker that runs ends, and the helper with it.
Over(r) == JobGoes(r, "over") /\ JobEnds(r)

\* Assets and account are checked, the snapshot is read and passed on; the
\* worker wants a queued receipt.
Spawn(r) ==
    LET t == Turn(r) IN
    /\ job[r].pc = "spawn"
    /\ \/ /\ snapshot[t] # None /\ Queued(t) /\ Works
          /\ job' = [job EXCEPT ![r].pc = "claim", ![r].input = snapshot[t]]
          /\ UNCHANGED brokerVars
       \/ (snapshot[t] = None \/ ~Queued(t)) /\ Over(r) /\ Works
       \/ Over(r) /\ Mishap
    /\ UNCHANGED <<hook, files, calls>>

Taken(t, r) == [claim EXCEPT ![t] = r]
Busy(t, r) == \E q \in Requests \ {r} : claim[t] = q /\ job[q].pc \in Claimed

\* acquireMemoryReviewProposalClaim; a failure is recorded without the claim.
TakeClaim(r) ==
    LET t == Turn(r) IN
    /\ job[r].pc = "claim"
    /\ \/ /\ IF Busy(t, r) THEN Leaves(r, "failed") /\ UNCHANGED claim
                           ELSE JobGoes(r, "examine") /\ claim' = Taken(t, r)
          /\ Works
       \/ JobFails(r, FALSE) /\ UNCHANGED claim /\ Mishap
    /\ UNCHANGED <<brokerVars, hook, receipt, snapshot, proposal, calls>>

\* A stored proposal is taken if it is bound to this very snapshot; the
\* mutant is content with the turn.
SameTurn(t, r) == TRUE
Bound(t, r) == proposal[t] = job[r].input
\* The mutant never looks for a stored proposal.
Unseen(t) == FALSE
Stored(t) == proposal[t] # None

\* The snapshot must be the one of the receipt.
Examine(r) ==
    LET t == Turn(r) IN
    /\ job[r].pc = "examine"
    /\ \/ /\ Works
          /\ \/ /\ receipt[t].by # job[r].input \/ (Stored(t) /\ ~Bound(t, r))
                /\ JobFails(r, TRUE)
             \/ receipt[t].by = job[r].input /\ Stored(t) /\ Bound(t, r) /\ JobGoes(r, "transition")
             \/ receipt[t].by = job[r].input /\ ~Stored(t) /\ JobGoes(r, "attempt")
       \/ JobFails(r, FALSE) /\ Mishap
    /\ UNCHANGED <<brokerVars, hook, files, calls>>

\* The mutant counts the attempt nowhere.
Uncounted(f) == f
Counted(f) == [f EXCEPT !.attempts = @ + 1]

\* beginMemoryReviewAttempt, before the call; an exception ends the worker.
Attempt(r) ==
    LET t == Turn(r)
        counted == [receipt EXCEPT ![t] = Counted(@)] IN
    /\ job[r].pc = "attempt"
    /\ \/ (~Queued(t) \/ receipt[t].attempts >= MaxAttempts) /\ JobFails(r, TRUE) /\ UNCHANGED receipt /\ Works
       \/ /\ Queued(t) /\ receipt[t].attempts < MaxAttempts
          /\ \/ receipt' = counted /\ JobGoes(r, "call") /\ Works
             \/ receipt' \in {receipt, counted} /\ Leaves(r, "failed") /\ Mishap
    /\ UNCHANGED <<brokerVars, hook, snapshot, proposal, claim, calls>>

\* The model answers, fails for now, or fails for good.
CallModel(r) ==
    /\ job[r].pc = "call"
    /\ calls' = [calls EXCEPT ![r] = @ + 1]
    /\ JobGoes(r, "store") \/ (\E permanent \in BOOLEAN : JobFails(r, permanent))
    /\ UNCHANGED <<brokerVars, hook, files, mishaps>>

\* createMemoryReviewProposalRecord; a full store, or another proposal, is a
\* permanent failure.
Store(r) ==
    LET t == Turn(r)
        stored == [proposal EXCEPT ![t] = job[r].input] IN
    /\ job[r].pc = "store"
    /\ \/ /\ Works
          /\ \/ proposal[t] = None /\ proposal' = stored /\ JobGoes(r, "transition")
             \/ /\ proposal[t] # None /\ UNCHANGED proposal
                /\ (Bound(t, r) /\ JobGoes(r, "transition")) \/ JobFails(r, TRUE)
       \/ proposal[t] = None /\ UNCHANGED proposal /\ JobFails(r, TRUE) /\ Mishap
       \/ proposal[t] = None /\ proposal' \in {proposal, stored} /\ JobFails(r, FALSE) /\ Mishap
    /\ UNCHANGED <<brokerVars, hook, receipt, snapshot, claim, calls>>

\* finish: turn the receipt.
Transition(r) ==
    LET t == Turn(r)
        reviewed == [receipt EXCEPT ![t].status = "reviewed"] IN
    /\ job[r].pc = "transition"
    /\ \/ Queued(t) /\ receipt' = reviewed /\ Leaves(r, "ok") /\ Works
       \/ /\ ~Queued(t) /\ UNCHANGED receipt /\ Works
          /\ IF Stands(t, "reviewed") THEN Leaves(r, "ok") ELSE JobFails(r, FALSE)
       \/ Queued(t) /\ receipt' \in {receipt, reviewed} /\ JobFails(r, FALSE) /\ Mishap
    /\ UNCHANGED <<brokerVars, hook, snapshot, proposal, claim, calls>>

\* recoverableFailure gives up on the second failure or attempt.
GivesUp(t, permanent) == permanent \/ receipt[t].attempts >= 2 \/ receipt[t].failed

\* recordMemoryReviewFailure; an exception ends the worker.
RecordFailure(r) ==
    LET t == Turn(r)
        last == GivesUp(t, job[r].permanent)
        recorded == [receipt EXCEPT ![t].failed = TRUE, ![t].status = IF last THEN "failed" ELSE "queued"] IN
    /\ job[r].pc = "failing"
    /\ \/ Queued(t) /\ receipt' = recorded /\ Leaves(r, IF last THEN "failed" ELSE "retry") /\ Works
       \/ ~Queued(t) /\ UNCHANGED receipt /\ Leaves(r, "failed") /\ Works
       \/ Queued(t) /\ receipt' \in {receipt, recorded} /\ Leaves(r, "failed") /\ Mishap
    /\ UNCHANGED <<brokerVars, hook, snapshot, proposal, claim, calls>>

\* The helper runs the worker again when the first run asks for it (exit 75);
\* the mutant never does.
NeverAgain(r) == FALSE
Again(r) == job[r].exit = "retry" /\ job[r].run = 1

\* The worker gives its claim back and exits; a failing release makes it fail.
Release(r) ==
    LET t == Turn(r)
        freed == IF claim[t] = r THEN [claim EXCEPT ![t] = None] ELSE claim IN
    /\ job[r].pc = "release"
    /\ \/ /\ claim' = freed /\ Works
          /\ IF Again(r) THEN job' = [job EXCEPT ![r] = [NoJob EXCEPT !.pc = "spawn", !.run = 2]] /\ UNCHANGED brokerVars
                         ELSE Over(r)
       \/ claim' \in {claim, freed} /\ Over(r) /\ Mishap
    /\ UNCHANGED <<hook, receipt, snapshot, proposal, calls>>

\* The worker or its helper is killed, at the latest by the helper's timeout;
\* a proposal being written may stay torn.
JobDies(r) ==
    LET t == Turn(r) IN
    /\ r \in active /\ Over(r) /\ Mishap
    /\ proposal' \in {proposal} \cup (IF job[r].pc = "store" /\ proposal[t] = None
                                      THEN {[proposal EXCEPT ![t] = Torn]} ELSE {})
    /\ UNCHANGED <<hook, receipt, snapshot, claim, calls>>

WorkerStep(r) ==
    \/ TakeClaim(r) \/ Examine(r) \/ Attempt(r) \/ CallModel(r) \/ Store(r)
    \/ Transition(r) \/ RecordFailure(r)

Next ==
    \/ Tick /\ UNCHANGED reviewVars
    \/ \E r \in Requests :
         \/ \E t \in Turns : Stop(r, t)
         \/ Gather(r) \/ Look(r) \/ Open(r) \/ WriteSnapshot(r) \/ Condemn(r) \/ Submit(r) \/ HookDies(r)
         \/ (TakeTime(r) \/ Reserve(r)) /\ UNCHANGED reviewVars
         \/ RunJob(r) \/ Spawn(r) \/ WorkerStep(r) \/ Release(r) \/ JobDies(r)
    \/ \E t \in Turns : Expire(t)

Spec == Init /\ [][Next]_vars

-----------------------------------------------------------------------------
(* Properties.                                                              *)

\* Shape of the files, hooks and jobs; inside its steps a worker's claim is
\* on disk.
TypeOK ==
    /\ BrokerTypeOK
    /\ hook \in [Requests -> [pc : HookSteps, turn : Turns \cup {None}]]
    /\ receipt \in [Turns -> Receipts \cup Torns \cup {None}]
    /\ snapshot \in [Turns -> Requests \cup {None}]
    /\ proposal \in [Turns -> Requests \cup {Torn, None}]
    /\ claim \in [Turns -> Requests \cup {None}]
    /\ job \in [Requests -> [pc : JobSteps, run : 0..2, input : Requests \cup {None},
                             permanent : BOOLEAN, exit : Exits]]
    /\ calls \in [Requests -> 0..MaxAttempts]
    /\ mishaps \in 0..MaxMishaps
    /\ \A r \in Requests : /\ r \in active <=> job[r].pc \notin {"none", "over"}
                           /\ job[r].pc \in Claimed => claim[Turn(r)] = r

\* "Singleflight is enforced by O_CREAT|O_EXCL on the key file"
\* (memory-review-receipt.ts:281): the hook that goes on, its request and its
\* job are those of the one hook that made the turn's receipt.
SingleFlight ==
    \A r \in Requests :
        (hook[r].pc \in {"snapshot", "condemn", "submit"} \/ r \in active) =>
            receipt[Turn(r)] # None /\ receipt[Turn(r)].by = r

\* Every model call was first written down, so that kills, failing writes and
\* the second run never add up to more calls than MaxAttempts.
CallsAreCounted ==
    \A r \in Requests : calls[r] > 0 =>
        \/ receipt[Turn(r)] = None \/ receipt[Turn(r)].by # r
        \/ calls[r] <= receipt[Turn(r)].attempts

\* "... a later worker reuses the durable proposal instead of calling the
\* model again" (session-control-mcp/README.md:125).
ProposalReused ==
    [][\A r \in Requests : calls'[r] # calls[r] => proposal[Turn(r)] = None]_vars

\* A reviewed receipt has a readable proposal, bound to the very snapshot the
\* receipt is bound to: what the applier may apply was really reviewed.
ReviewedIsBacked ==
    \A t \in Turns : Stands(t, "reviewed") => proposal[t] = receipt[t].by

\* A verdict is final: failed or reviewed stays so until the receipt is
\* pruned, whatever a late failure of the same worker records.
VerdictIsFinal ==
    [][\A t \in Turns : Stands(t, "reviewed") \/ Stands(t, "failed") =>
          receipt'[t] = None \/ receipt'[t].status = receipt[t].status]_vars

\* An admitted review is decided: with no kill and no failing call, a job
\* that is over leaves a receipt that is reviewed or failed, though the model
\* may fail any way it likes.
Decided ==
    \A r \in Requests : job[r].pc = "over" /\ mishaps = 0 => ~Queued(Turn(r))

\* "Fails closed (no receipt) once the retention-pruned store is at capacity"
\* (memory-review-receipt.ts:283).
WithinCapacity == Cardinality({t \in Turns : Live(t)}) <= MaxReceipts
=============================================================================
