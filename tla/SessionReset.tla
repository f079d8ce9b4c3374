---------------------------- MODULE SessionReset ----------------------------
(***************************************************************************)
(* The root session-control helper (scripts/claude_code_session_reset.py)  *)
(* started by the broker: reset, resume and model switch each rewrite what *)
(* the Claude service boots from, restart it, watch it come up, and put    *)
(* the steady --continue state back, or recover the previous session.      *)
(*                                                                         *)
(* A reset or resume edits the service unit and restores it; a model       *)
(* switch edits model.env.  Either is done under one non-blocking lock and *)
(* at most once for a request id.  Systemd, the service and its session    *)
(* bookkeeping are external; title and review jobs only occupy their unit. *)
(***************************************************************************)
EXTENDS ControlBroker

CONSTANTS
    Fresh,          \* [Requests -> the uuid4 a reset draws]
    Kinds,          \* what the bot asks for: request contents without named
    InitSession,
    MaxMishaps      \* bound: failing calls, kills, service crashes, expiries

Continue == [mode |-> "continue", sid |-> None]
Units == {Continue} \cup [mode : {"session-id", "resume"}, sid : Sessions]
Services == [arg : Units, sid : Sessions, model : Models \cup {None}, ready : BOOLEAN]

ASSUME HelperNames == /\ InitSession \in Sessions
                      /\ Kinds \subseteq [action : Actions, message : Messages,
                                          target : Sessions \cup Models \cup {None}]
                      /\ \A k \in Kinds : /\ k.action = "resume" => k.target \in Sessions
                                          /\ k.action = "model" => k.target \in Models \cup {None}
                      /\ Fresh \in [Requests -> Sessions]
                      /\ MaxMishaps \in Nat
ASSUME HelperNone == /\ None \notin Requests \cup {"complete", "restored", "manual", "unchanged"}
                     /\ None \notin Contents /\ None \notin Services

VARIABLES
    unit,       \* the service unit on disk
    loaded,     \* the unit systemd has loaded
    menv,       \* the model of model.env, None when there is no file
    service,    \* the running service, or None
    latest,     \* the session that --continue continues
    attested,   \* sessions with a SessionStart receipt
    lock,       \* the request whose helper holds the flock, or None
    receipts,   \* request receipts: set of records
    helper,     \* [Requests -> local state of its helper]
    executed,   \* history: requests that changed what the service boots from
    told,       \* history: [Requests -> last outcome the chat was told]
    mishaps

bootVars == <<unit, loaded, menv>>
serviceVars == <<service, latest, attested>>
helperVars == <<bootVars, serviceVars, lock, receipts, helper, executed, told, mishaps>>
vars == <<brokerVars, helperVars>>

Steps == {"idle", "lock", "claim", "read", "forget", "write", "restart", "wait", "restore",
          "reload", "check", "cleanup", "drop", "back_write", "back_restart", "back_wait",
          "back_restore", "back_reload", "back_check", "undo_write", "undo_reload",
          "notify", "finish", "working", "gone", "killed"}
Outcomes == {None, "complete", "restored", "manual", "unchanged"}
Idle == [pc |-> "idle", outcome |-> None, before |-> None, env |-> None]

Init ==
    /\ BrokerInit
    /\ unit = Continue /\ loaded = Continue /\ menv = None
    /\ service = [arg |-> Continue, sid |-> InitSession, model |-> None, ready |-> TRUE]
    /\ latest = InitSession
    /\ attested = {}
    /\ lock = None /\ receipts = {}
    /\ helper = [r \in Requests |-> Idle]
    /\ executed = {}
    /\ told = [r \in Requests |-> None]
    /\ mishaps = 0

Becomes(r, h) == helper' = [helper EXCEPT ![r] = h]
Goes(r, pc) == Becomes(r, [helper[r] EXCEPT !.pc = pc])
Concludes(r, outcome) == Becomes(r, [helper[r] EXCEPT !.pc = "notify", !.outcome = outcome])
Mishap == mishaps < MaxMishaps /\ mishaps' = mishaps + 1
Works == UNCHANGED mishaps

SessionJobs == {r \in Requests : Action(r) \in {"reset", "resume"}}
Workers == {r \in Requests : Action(r) \in {"title", "memory-review"}}

-----------------------------------------------------------------------------
(* The service.                                                             *)

\* --continue goes on with the session that ran last.
Boots(u, model) ==
    LET sid == IF u.mode = "continue" THEN latest ELSE u.sid IN
    /\ service' = [arg |-> u, sid |-> sid, model |-> model, ready |-> FALSE]
    /\ latest' = sid

\* Poller and workers are up; a fresh session's hook writes its receipt.
ServiceReady ==
    /\ service # None /\ ~service.ready
    /\ service' = [service EXCEPT !.ready = TRUE]
    /\ attested' = IF service.arg.mode = "session-id" THEN attested \cup {service.sid} ELSE attested
    /\ UNCHANGED <<brokerVars, bootVars, latest, lock, receipts, helper, executed, told, mishaps>>

\* Restart=always: a crash, or a failed restart, boots what is loaded.
ServiceRestarts ==
    /\ \/ service = None /\ Works
       \/ service # None /\ Mishap
    /\ Boots(loaded, menv)
    /\ UNCHANGED <<brokerVars, bootVars, attested, lock, receipts, helper, executed, told>>

-----------------------------------------------------------------------------
(* Life of a helper.                                                        *)

\* The broker's step; a job it starts validates its arguments and goes on.
RunJob(r) ==
    /\ Run(r)
    /\ IF r \in active' THEN Goes(r, IF r \in Workers THEN "working" ELSE "lock")
                        ELSE UNCHANGED helper
    /\ UNCHANGED <<bootVars, serviceVars, lock, receipts, executed, told, mishaps>>

\* The process ends as pc; the kernel drops its lock, systemd its unit.
Ends(r, pc) ==
    /\ Goes(r, pc)
    /\ lock' = IF lock = r THEN None ELSE lock
    /\ JobEnds(r)

Kill(r) ==
    /\ helper[r].pc \notin {"idle", "gone", "killed"}
    /\ Ends(r, "killed") /\ Mishap
    /\ UNCHANGED <<bootVars, serviceVars, receipts, executed, told>>

\* title_session, memory_review_session.
Work(r) ==
    /\ helper[r].pc = "working"
    /\ Ends(r, "gone")
    /\ UNCHANGED <<bootVars, serviceVars, receipts, executed, told, mishaps>>

\* flock(LOCK_EX | LOCK_NB); a busy lock ends the helper without a word.
Lock(r) ==
    /\ helper[r].pc = "lock"
    /\ \/ /\ lock = None /\ lock' = r
          /\ Becomes(r, [helper[r] EXCEPT !.pc = "claim", !.before = latest])
          /\ UNCHANGED brokerVars
       \/ lock # None /\ Ends(r, "gone")
    /\ UNCHANGED <<bootVars, serviceVars, receipts, executed, told, mishaps>>

\* Thirty days pass.
ReceiptExpires(c) ==
    /\ c \in receipts /\ ~c.expired /\ Mishap
    /\ receipts' = (receipts \ {c}) \cup {[c EXCEPT !.expired = TRUE]}
    /\ UNCHANGED <<brokerVars, bootVars, serviceVars, lock, helper, executed, told>>

\* claim_request: one execution for a request id, whatever became of it.  The
\* mutant takes a claim in progress for abandoned.
OnlyFinished(r) == \E c \in receipts : c.id = RequestId(r) /\ c.status # "in_progress"
Known(r) == \E c \in receipts : c.id = RequestId(r)
Pruned == {c \in receipts : ~c.expired}
NewReceipt(r) == [id |-> RequestId(r), status |-> "in_progress", expired |-> FALSE]

\* Pruning also forgets, in executed, what its receipt no longer protects.
Claim(r) ==
    LET claimed == Pruned \cup {NewReceipt(r)} IN
    /\ helper[r].pc = "claim"
    /\ \/ Known(r) /\ Ends(r, "gone") /\ UNCHANGED <<receipts, executed>> /\ Works
       \/ /\ ~Known(r)
          /\ executed' = {q \in executed : \E c \in claimed : c.id = RequestId(q)}
          /\ \/ /\ receipts' = claimed /\ Works
                /\ Goes(r, "read") /\ UNCHANGED <<brokerVars, lock>>
             \/ receipts' \in {Pruned, claimed} /\ Mishap /\ Ends(r, "gone")
    /\ UNCHANGED <<bootVars, serviceVars, told>>

-----------------------------------------------------------------------------
(* The steps of reset_session, resume_session and model_session.            *)

\* Where an exception leads: forwards to the recovery, from the recovery to a
\* last restoration of the unit, from there to the conclusion.
Raises(r) ==
    LET pc == helper[r].pc IN
    \/ /\ pc \in {"forget", "write", "restart", "wait", "restore", "reload", "check", "cleanup"}
       /\ Goes(r, IF Action(r) = "reset" THEN "drop" ELSE "back_write")
    \/ /\ pc \in {"back_write", "back_restart", "back_wait", "back_restore", "back_reload", "back_check"}
       /\ IF Action(r) = "model" THEN Concludes(r, "manual") ELSE Goes(r, "undo_write")
    \/ pc \in {"undo_write", "undo_reload"} /\ Concludes(r, "manual")

\* The unit or model.env is read.  A reset reads it outside its try block: an
\* unusual unit ends it without a word and leaves its claim in progress.
Read(r) ==
    LET fails == \/ Action(r) = "reset" /\ Ends(r, "gone")
                 \/ Action(r) # "reset" /\ Concludes(r, "unchanged") /\ UNCHANGED <<brokerVars, lock>> IN
    /\ helper[r].pc = "read"
    /\ \/ /\ r \in SessionJobs => unit = Continue
          /\ Action(r) = "resume" => request[r].target # request[r].named
          /\ Becomes(r, [helper[r] EXCEPT !.pc = IF Action(r) = "reset" THEN "forget" ELSE "write",
                                          !.env = IF Action(r) = "model" THEN menv ELSE None])
          /\ UNCHANGED <<brokerVars, lock>> /\ Works
       \/ /\ (r \in SessionJobs /\ unit # Continue) \/ (Action(r) = "resume" /\ request[r].target = request[r].named)
          /\ fails /\ Works
       \/ fails /\ Mishap
    /\ UNCHANGED <<bootVars, serviceVars, receipts, executed, told>>

\* _remove_session_receipt of the fresh session: before the restart, after
\* success, and, errors ignored, before the recovery.
RemoveReceipt(r) ==
    LET next == CASE helper[r].pc = "forget" -> "write"
                  [] helper[r].pc = "cleanup" -> "notify"
                  [] helper[r].pc = "drop" -> "back_write"
        removed == attested \ {Fresh[r]} IN
    /\ helper[r].pc \in {"forget", "cleanup", "drop"}
    /\ \/ /\ attested' = removed /\ Works
          /\ IF next = "notify" THEN Concludes(r, "complete") ELSE Goes(r, next)
       \/ /\ attested' \in {attested, removed} /\ Mishap
          /\ IF next = "back_write" THEN Goes(r, next) ELSE Raises(r)
    /\ UNCHANGED <<brokerVars, bootVars, service, latest, lock, receipts, executed, told>>

\* What the service is to boot from next, and in the recovery.
Pinned(r) == IF Action(r) = "reset" THEN [mode |-> "session-id", sid |-> Fresh[r]]
                                    ELSE [mode |-> "resume", sid |-> request[r].target]
Previous(r) == [mode |-> "resume", sid |-> request[r].named]

\* The files a step leaves, <<unit, model.env>>: pinned, then back to the named
\* session or the earlier model, then canonical again.  The mutant's recovery
\* forgets the last.
ModelSet(r) == IF helper[r].pc = "write" THEN request[r].target ELSE helper[r].env
Rewritten(r) ==
    IF r \in SessionJobs THEN <<IF helper[r].pc = "write" THEN Pinned(r) ELSE Previous(r), menv>>
                         ELSE <<unit, ModelSet(r)>>
WrittenOnce(r) ==
    CASE helper[r].pc \in {"write", "back_write"} -> Rewritten(r)
      [] helper[r].pc = "restore"                 -> <<Continue, menv>>
      [] OTHER                                    -> <<unit, menv>>
Written(r) == IF helper[r].pc \in {"write", "back_write"} THEN Rewritten(r) ELSE <<Continue, menv>>
AfterWrite == [pc \in {"write", "back_write", "restore", "back_restore", "undo_write"} |->
                CASE pc = "write" -> "restart" [] pc = "back_write" -> "back_restart"
                  [] pc = "restore" -> "reload" [] pc = "back_restore" -> "back_reload"
                  [] pc = "undo_write" -> "undo_reload"]

Puts(files) == unit' = files[1] /\ menv' = files[2]

\* An atomic write may raise before or after its rename took effect.
Write(r) ==
    /\ helper[r].pc \in DOMAIN AfterWrite
    /\ executed' = IF helper[r].pc \in {"write", "back_write"} THEN executed \cup {r} ELSE executed
    /\ \/ Puts(Written(r)) /\ Goes(r, AfterWrite[helper[r].pc]) /\ Works
       \/ (\E files \in {<<unit, menv>>, Written(r)} : Puts(files)) /\ Raises(r) /\ Mishap
    /\ UNCHANGED <<brokerVars, loaded, serviceVars, lock, receipts, told>>

\* daemon-reload and restart; a restart that fails may leave the old service,
\* the new one, or none.
Restart(r) ==
    LET next == IF helper[r].pc = "restart" THEN "wait" ELSE "back_wait" IN
    /\ helper[r].pc \in {"restart", "back_restart"}
    /\ \/ loaded' = unit /\ Boots(unit, menv) /\ Goes(r, next) /\ Works
       \/ /\ Raises(r) /\ Mishap
          /\ \/ loaded' \in {loaded, unit} /\ UNCHANGED <<service, latest>>
             \/ loaded' = unit /\ service' = None /\ UNCHANGED latest
             \/ loaded' = unit /\ Boots(unit, menv)
    /\ UNCHANGED <<brokerVars, unit, menv, attested, lock, receipts, executed, told>>

\* The exact process is up with its workers, and attested if it is fresh.
Expected(r) == IF helper[r].pc \in {"back_wait", "back_check"} THEN Previous(r) ELSE Pinned(r)
Healthy(r) ==
    /\ service # None
    /\ IF r \in SessionJobs
       THEN /\ service.arg = Expected(r)
            /\ service.ready \/ (helper[r].pc = "check" /\ Action(r) = "reset")
            /\ (helper[r].pc = "wait" /\ Action(r) = "reset") => Fresh[r] \in attested
       ELSE /\ service.arg.mode = "continue" /\ service.ready
            /\ service.model = IF helper[r].pc = "back_wait" THEN helper[r].env ELSE request[r].target

\* Poll until healthy or out of time.  The mutant waits for ever.
NeverTimesOut(r) == FALSE
TimesOut(r) == Raises(r)
Wait(r) ==
    /\ helper[r].pc \in {"wait", "back_wait"}
    /\ \/ /\ Healthy(r)
          /\ CASE helper[r].pc = "wait" /\ r \in SessionJobs      -> Goes(r, "restore")
               [] helper[r].pc = "back_wait" /\ r \in SessionJobs -> Goes(r, "back_restore")
               [] helper[r].pc = "wait" /\ r \notin SessionJobs   -> Concludes(r, "complete")
               [] OTHER                                           -> Concludes(r, "restored")
       \/ TimesOut(r)
    /\ UNCHANGED <<brokerVars, bootVars, serviceVars, lock, receipts, executed, told, mishaps>>

\* daemon-reload alone; the mutant leaves it out.
NotReloaded == loaded
Reloaded == unit
Reload(r) ==
    /\ helper[r].pc \in {"reload", "back_reload", "undo_reload"}
    /\ \/ /\ loaded' = Reloaded /\ Works
          /\ CASE helper[r].pc = "reload"      -> Goes(r, "check")
               [] helper[r].pc = "back_reload" -> Goes(r, "back_check")
               [] OTHER                        -> Concludes(r, "manual")
       \/ loaded' \in {loaded, unit} /\ Raises(r) /\ Mishap
    /\ UNCHANGED <<brokerVars, unit, menv, serviceVars, lock, receipts, executed, told>>

\* The health check after the restoration.
Check(r) ==
    /\ helper[r].pc \in {"check", "back_check"}
    /\ \/ /\ Healthy(r) /\ Works
          /\ IF helper[r].pc = "back_check" THEN Concludes(r, "restored")
             ELSE IF Action(r) = "reset" THEN Goes(r, "cleanup") ELSE Concludes(r, "complete")
       \/ ~Healthy(r) /\ Raises(r) /\ Works
       \/ Raises(r) /\ Mishap
    /\ UNCHANGED <<brokerVars, bootVars, serviceVars, lock, receipts, executed, told>>

-----------------------------------------------------------------------------
(* The conclusion.                                                          *)

\* The outcome goes to the chat; a lost notification changes nothing.
Notify(r) ==
    /\ helper[r].pc = "notify"
    /\ Goes(r, "finish")
    /\ \/ told' = [told EXCEPT ![r] = helper[r].outcome] /\ Works
       \/ UNCHANGED told /\ Mishap
    /\ UNCHANGED <<brokerVars, bootVars, serviceVars, lock, receipts, executed>>

\* finish_request; when it fails the claim stays in progress.
Finish(r) ==
    LET status == IF helper[r].outcome = "complete" THEN "complete" ELSE "failed"
        finished == {IF c.id = RequestId(r) THEN [c EXCEPT !.status = status, !.expired = FALSE] ELSE c : c \in receipts} IN
    /\ helper[r].pc = "finish"
    /\ \/ receipts' = finished /\ Works
       \/ receipts' \in {receipts, finished} /\ Mishap
    /\ Ends(r, "gone")
    /\ UNCHANGED <<bootVars, serviceVars, executed, told>>

HelperStep(r) ==
    \/ Work(r) \/ Lock(r) \/ Claim(r) \/ Read(r) \/ RemoveReceipt(r) \/ Write(r)
    \/ Restart(r) \/ Wait(r) \/ Reload(r) \/ Check(r) \/ Notify(r) \/ Finish(r)

\* A request is sent while the service runs and names the session it runs.
Submit(r) ==
    /\ service # None
    /\ \E k \in Kinds : Count(r, [action |-> k.action, message |-> k.message,
                                 target |-> k.target, named |-> service.sid])
    /\ UNCHANGED helperVars

\* The broker's clock stands still: it serves the rate limit alone, and with
\* no fewer slots than requests that limit refuses nothing Reserve may not
\* refuse anyway.
Next ==
    \/ \E r \in Requests : \/ Submit(r) \/ RunJob(r) \/ HelperStep(r) \/ Kill(r)
                           \/ (TakeTime(r) \/ Reserve(r)) /\ UNCHANGED helperVars
    \/ \E c \in receipts : ReceiptExpires(c)
    \/ ServiceReady \/ ServiceRestarts

Spec == Init /\ [][Next]_vars

\* The kernel runs every helper; nothing else is promised, and above all not
\* that the service ever becomes ready.
FairSpec == Spec /\ \A r \in Requests : WF_vars(HelperStep(r))

-----------------------------------------------------------------------------
(* Properties.                                                              *)

\* Shape of the files, the service and the helpers.
TypeOK ==
    /\ BrokerTypeOK
    /\ unit \in Units /\ loaded \in Units /\ menv \in Models \cup {None}
    /\ service \in Services \cup {None}
    /\ latest \in Sessions /\ attested \subseteq Sessions
    /\ lock \in Requests \cup {None}
    /\ \A c \in receipts : /\ c.status \in {"in_progress", "complete", "failed"}
                           /\ \E r \in Requests : request[r] # None /\ c.id = RequestId(r)
    /\ helper \in [Requests -> [pc : Steps, outcome : Outcomes, before : Sessions \cup {None},
                                env : Models \cup {None}]]
    /\ \A r \in Requests : helper[r].pc \notin {"idle", "gone", "killed"} => r \in active
    /\ executed \subseteq Requests
    /\ told \in [Requests -> Outcomes]
    /\ mishaps \in 0..MaxMishaps

Steady == unit = Continue /\ loaded = Continue

\* What the chat is told is so: after success the service is on the target,
\* after a recovery on the session (or model) the request named, and either
\* way its unit, on disk and loaded, continues from there, so that the next
\* ordinary restart stays on it (claude_code_session_reset.py:1192-1194).
ToldTheTruth ==
    [][\A r \in Requests : told'[r] # told[r] =>
         CASE told'[r] = "complete" /\ r \in SessionJobs    -> Steady /\ latest = Pinned(r).sid
           [] told'[r] = "restored" /\ r \in SessionJobs    -> Steady /\ latest = request[r].named
           [] told'[r] = "complete" /\ r \notin SessionJobs -> menv = request[r].target /\ service.model = menv
           [] told'[r] = "restored" /\ r \notin SessionJobs -> menv = helper[r].env /\ service.model = menv
           [] told'[r] = "unchanged"                        -> r \notin executed
           [] OTHER                                         -> TRUE]_vars

\* The variables keep their types, and when no helper is at work the service is
\* set to continue, unless a helper was killed half-way or said that manual
\* recovery is required.
SteadyWhenIdle ==
    /\ TypeOK
    /\ \/ lock # None
       \/ Steady
       \/ \E r \in Requests : helper[r].pc = "killed" \/ helper[r].outcome = "manual"

\* "durably idempotent" (docs/design-invariants.md:84): no request id is
\* executed twice while its receipt is kept, whatever is redelivered, killed
\* or fails.
ExecutedOnce == \A r, q \in executed : RequestId(r) = RequestId(q) => r = q

\* The lock is given back, also when the service never comes up: a wait ends
\* by its deadline, so a stuck boot cannot lock out reset and resume for ever.
LockIsReleased == lock # None ~> lock = None

\* "recovery must explicitly restore the exact previously active session"
\* (claude_code_session_reset.py:1268): the session that was active when the
\* helper took its lock.
RestoresPrevious ==
    [][\A r \in SessionJobs : told'[r] # told[r] /\ told'[r] = "restored" => latest = helper[r].before]_vars
=============================================================================
