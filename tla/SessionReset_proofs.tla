------------------------- MODULE SessionReset_proofs -------------------------
(***************************************************************************)
(* The session-control helper, for every number of requests and of failing *)
(* calls, kills and crashes: what its steps leave on disk, loaded and      *)
(* running, what it tells the chat of them, and that it asks of the broker *)
(* nothing the broker does not do.                                         *)
(***************************************************************************)
EXTENDS SessionReset, TLAPS

\* The broker keeps its types, whoever connects to it.
LEMMA BrokerTypesInit == BrokerInit => BrokerTypeOK
  BY DEF BrokerInit, BrokerTypeOK, BrokerSteps

LEMMA BrokerTypesStep ==
    ASSUME BrokerTypeOK, [BrokerNext]_brokerVars
    PROVE  BrokerTypeOK'
<1> USE BrokerBounds, BrokerRequests DEF BrokerTypeOK
<1>1. CASE UNCHANGED brokerVars
  BY <1>1 DEF brokerVars
<1>2. CASE Tick
  BY <1>2 DEF Tick
<1>3. ASSUME NEW r \in Requests, NEW c \in Contents, Count(r, c) PROVE BrokerTypeOK'
  BY <1>3 DEF Count, Replies, BrokerSteps
<1>4. ASSUME NEW r \in Requests, TakeTime(r) PROVE BrokerTypeOK'
  BY <1>4 DEF TakeTime, Replies, BrokerSteps
<1>7. ASSUME NEW r \in Requests, Reserve(r) PROVE BrokerTypeOK'
  BY <1>7 DEF Reserve, Replies, BrokerSteps, Recent
<1>5. ASSUME NEW r \in Requests, Run(r) PROVE BrokerTypeOK'
  BY <1>5 DEF Run, Replies, BrokerSteps
<1>6. ASSUME NEW r \in Requests, JobEnds(r) PROVE BrokerTypeOK'
  BY <1>6 DEF JobEnds
<1> QED
  BY <1>1, <1>2, <1>3, <1>4, <1>5, <1>6, <1>7 DEF BrokerNext

Helpers == [pc : Steps, outcome : Outcomes, before : Sessions \cup {None},
            env : Models \cup {None}]
Statuses == {"in_progress", "complete", "failed"}
BootTypes ==
    /\ unit \in Units /\ loaded \in Units /\ menv \in Models \cup {None}
    /\ service \in Services \cup {None}
    /\ latest \in Sessions /\ attested \subseteq Sessions
ResetTypes ==
    /\ BrokerTypeOK /\ BootTypes
    /\ lock \in Requests \cup {None}
    /\ helper \in [Requests -> Helpers]
    /\ executed \subseteq Requests
    /\ told \in [Requests -> Outcomes]
    /\ mishaps \in 0..MaxMishaps

\* The steps under the lock, and those of a model switch among them.
Held == Steps \ {"idle", "lock", "working", "gone", "killed"}
ModelSteps == {"claim", "read", "write", "restart", "wait", "back_write", "back_restart",
               "back_wait", "notify", "finish"}
Concluded(r) == helper[r].pc \in {"notify", "finish"}

\* A connection asks once, for something the helper knows; and it has a helper
\* only when its unit was started.
RequestsKept ==
    \A r \in Requests :
        /\ broker[r] = "idle" <=> request[r] = None
        /\ broker[r] \in {"idle", "counted", "timed", "reserved"} => helper[r].pc = "idle"
        /\ r \in active <=> helper[r].pc \notin {"idle", "gone", "killed"}
        /\ Action(r) = "resume" => request[r].target \in Sessions
        /\ Action(r) = "model" => request[r].target \in Models \cup {None}

\* One helper at most is under the lock, and none that is not knows an outcome.
LockHeld ==
    \A r \in Requests :
        /\ helper[r].pc \in Held <=> lock = r
        /\ helper[r].pc \in Held \cup {"lock"} => r \in SessionJobs \/ Action(r) = "model"
        /\ helper[r].pc \in Held /\ r \notin SessionJobs => helper[r].pc \in ModelSteps
        /\ helper[r].outcome # None => helper[r].pc \in {"notify", "finish", "gone", "killed"}
        /\ Concluded(r) => helper[r].outcome # None

\* The service runs what it was booted with, and that is what ran last.
ServiceKnown ==
    service # None => /\ service.sid = latest
                      /\ service.arg.mode # "continue" => service.sid = service.arg.sid

\* What is on disk, loaded and running at each step of a reset or a resume, on
\* its way to the pinned session, or back to the named one.
Forward(r) ==
    LET pc == helper[r].pc IN
    /\ pc \in {"restart", "wait"} => unit = Pinned(r)
    /\ pc \in {"wait", "restore", "reload"} => loaded = Pinned(r)
    /\ pc \in {"restore", "reload"} => latest = Pinned(r).sid
    /\ pc = "reload" => unit = Continue
    /\ pc \in {"check", "cleanup"} \/ (Concluded(r) /\ helper[r].outcome = "complete") =>
         Steady /\ latest = Pinned(r).sid
Back(r) ==
    LET pc == helper[r].pc IN
    /\ pc \in {"back_restart", "back_wait"} => unit = Previous(r)
    /\ pc \in {"back_wait", "back_restore", "back_reload"} => loaded = Previous(r)
    /\ pc \in {"back_restore", "back_reload"} => latest = request[r].named
    /\ pc = "back_reload" => unit = Continue
    /\ pc = "back_check" \/ (Concluded(r) /\ helper[r].outcome = "restored") =>
         Steady /\ latest = request[r].named
\* The same of a model switch, which leaves the unit alone.
Switch(r) ==
    LET pc == helper[r].pc
        ends(o) == Concluded(r) /\ helper[r].outcome = o IN
    /\ pc \in {"restart", "wait"} \/ ends("complete") => menv = request[r].target
    /\ pc \in {"back_restart", "back_wait"} \/ ends("restored") => menv = helper[r].env
    /\ ends("complete") \/ ends("restored") => service # None /\ service.model = menv
Phases ==
    \A r \in Requests : helper[r].pc \in Held =>
        IF r \in SessionJobs THEN Forward(r) /\ Back(r) ELSE Switch(r)

\* A helper that was killed, or that asked for manual recovery.
Broken == \E r \in Requests : helper[r].pc = "killed" \/ helper[r].outcome = "manual"
\* Where a helper under the lock has not touched the unit, or has restored it.
Untouched(r) == \/ r \notin SessionJobs
                \/ helper[r].pc \in {"claim", "read", "forget", "write"}
                \/ helper[r].outcome = "unchanged"
SteadyKept ==
    Broken \/ Steady \/ \E r \in Requests : lock = r /\ ~Untouched(r)

\* A request id that was executed has its receipt, and nobody else past its
\* claim has that id.
PastClaim(r) == helper[r].pc \in Held \ {"claim"}
NotBegun(r) == helper[r].pc \in {"idle", "lock", "claim", "read"} \/ helper[r].outcome = "unchanged"
ReceiptsKept ==
    /\ \A c \in receipts : /\ c.status \in Statuses
                           /\ \E r \in Requests : request[r] # None /\ c.id = RequestId(r)
    /\ \A r \in Requests :
         /\ r \in executed \/ PastClaim(r) =>
              request[r] # None /\ \E c \in receipts : c.id = RequestId(r)
         /\ NotBegun(r) => r \notin executed
         /\ \A q \in executed : r \in executed \/ PastClaim(r) =>
              (RequestId(r) = RequestId(q) => r = q)
ResetInv ==
    /\ ResetTypes /\ RequestsKept /\ LockHeld /\ ServiceKnown /\ Phases /\ SteadyKept
    /\ ReceiptsKept
----------------------------------------------------------------------------
(* How a helper moves *)

\* Helper r comes to pc and knows outcome o; nobody else moves.
Moves(r, pc, o) ==
    /\ helper' \in [Requests -> Helpers]
    /\ \A q \in Requests \ {r} : helper'[q] = helper[q]
    /\ helper'[r].pc = pc /\ helper'[r].outcome = o
Keeps(r) == helper'[r].env = helper[r].env

LEMMA GoesMoves ==
    ASSUME ResetTypes, NEW r \in Requests, NEW pc \in Steps, Goes(r, pc)
    PROVE  Moves(r, pc, helper[r].outcome) /\ Keeps(r)
<1> DEFINE h == [helper[r] EXCEPT !.pc = pc]
<1>1. h \in Helpers /\ h.pc = pc /\ h.outcome = helper[r].outcome /\ h.env = helper[r].env
  <2>1. helper[r] \in Helpers
    BY DEF ResetTypes
  <2> QED
    BY <2>1 DEF Helpers
<1>2. helper' = [helper EXCEPT ![r] = h]
  BY DEF Goes, Becomes
<1> HIDE DEF h
<1> QED
  BY <1>1, <1>2 DEF ResetTypes, Moves, Keeps

LEMMA ConcludesMoves ==
    ASSUME ResetTypes, NEW r \in Requests, NEW o \in Outcomes, Concludes(r, o)
    PROVE  Moves(r, "notify", o) /\ Keeps(r)
<1> DEFINE h == [helper[r] EXCEPT !.pc = "notify", !.outcome = o]
<1>1. h \in Helpers /\ h.pc = "notify" /\ h.outcome = o /\ h.env = helper[r].env
  <2>1. helper[r] \in Helpers
    BY DEF ResetTypes
  <2> QED
    BY <2>1 DEF Helpers, Steps
<1>2. helper' = [helper EXCEPT ![r] = h]
  BY DEF Concludes, Becomes
<1> HIDE DEF h
<1> QED
  BY <1>1, <1>2 DEF ResetTypes, Moves, Keeps

LEMMA StepsKnown == Held \subseteq Steps /\ ModelSteps \subseteq Held /\ "lock" \in Steps
                    /\ "working" \in Steps /\ "gone" \in Steps /\ "killed" \in Steps
  BY DEF Held, Steps, ModelSteps

\* Where an exception leads.
Recovers(r) ==
    \/ /\ Keeps(r)
       /\ \E pc \in {"drop", "back_write", "undo_write"} :
            Moves(r, pc, None) /\ (r \notin SessionJobs => pc = "back_write")
    \/ Moves(r, "notify", "manual") /\ Keeps(r)
LEMMA RaisesRecovers ==
    ASSUME ResetTypes, LockHeld, NEW r \in Requests, helper[r].pc \in Held, Raises(r)
    PROVE  Recovers(r)
<1>1. helper[r].pc \notin {"notify", "finish"} /\ helper[r].outcome = None
  BY DEF Raises, LockHeld, Held
<1>2. r \notin SessionJobs => Action(r) = "model" /\ helper[r].pc \in ModelSteps
  BY DEF LockHeld
<1>3. Action(r) = "reset" \/ Action(r) = "model" \/ r \in SessionJobs
  BY DEF LockHeld, SessionJobs
<1>4. {"drop", "back_write", "undo_write"} \subseteq Steps /\ "manual" \in Outcomes
  BY DEF Steps, Outcomes
<1>5. CASE Concludes(r, "manual")
  BY <1>4, <1>5, ConcludesMoves DEF Recovers
<1>6. CASE /\ helper[r].pc \in {"forget", "write", "restart", "wait", "restore", "reload", "check",
                               "cleanup"}
           /\ Goes(r, IF Action(r) = "reset" THEN "drop" ELSE "back_write")
  BY <1>1, <1>2, <1>4, <1>6, GoesMoves DEF Recovers, SessionJobs
<1>7. CASE Action(r) # "model" /\ Goes(r, "undo_write")
  BY <1>1, <1>2, <1>4, <1>7, GoesMoves DEF Recovers
<1> QED
  BY <1>5, <1>6, <1>7 DEF Raises

LEMMA EndsMoves ==
    ASSUME ResetTypes, NEW r \in Requests, NEW pc \in {"gone", "killed"}, Ends(r, pc)
    PROVE  /\ Moves(r, pc, helper[r].outcome) /\ Keeps(r)
           /\ r \in active /\ active' = active \ {r}
           /\ UNCHANGED <<clock, request, read, granted, stamps, broker>>
           /\ lock' = IF lock = r THEN None ELSE lock
  BY GoesMoves, StepsKnown DEF Ends, JobEnds
----------------------------------------------------------------------------
(* The helper and the broker *)

\* What a helper's step is to the broker: nothing, or the end of a job.
LEMMA HelperAsksNothing ==
    ASSUME NEW r \in Requests, HelperStep(r) \/ Kill(r)
    PROVE  JobEnds(r) \/ UNCHANGED brokerVars
<1>1. CASE Kill(r)
  BY <1>1 DEF Kill, Ends
<1>2. CASE Work(r) \/ Lock(r) \/ Claim(r) \/ Finish(r) \/ Read(r)
  BY <1>2 DEF Work, Lock, Claim, Finish, Read, Ends
<1>3. CASE RemoveReceipt(r) \/ Write(r) \/ Restart(r) \/ Wait(r)
  BY <1>3 DEF RemoveReceipt, Write, Restart, Wait
<1>4. CASE Reload(r) \/ Check(r) \/ Notify(r)
  BY <1>4 DEF Reload, Check, Notify
<1> QED
  BY <1>1, <1>2, <1>3, <1>4 DEF HelperStep

LEMMA StepObeysBroker ==
    ASSUME ResetTypes, [Next]_vars
    PROVE  [BrokerNext]_brokerVars
<1>1. ASSUME NEW r \in Requests, Submit(r) PROVE BrokerNext
  <2>1. PICK k \in Kinds : Count(r, [action |-> k.action, message |-> k.message,
                                     target |-> k.target, named |-> service.sid])
    BY <1>1 DEF Submit
  <2>2. service.sid \in Sessions
    BY <1>1 DEF Submit, ResetTypes, BootTypes, Services
  <2>3. [action |-> k.action, message |-> k.message,
         target |-> k.target, named |-> service.sid] \in Contents
    BY <2>2, HelperNames DEF Contents
  <2> QED
    BY <2>1, <2>3 DEF BrokerNext
<1>2. ASSUME NEW r \in Requests, RunJob(r) \/ ((TakeTime(r) \/ Reserve(r)) /\ UNCHANGED helperVars)
      PROVE  BrokerNext
  BY <1>2 DEF RunJob, BrokerNext
<1>3. ASSUME NEW r \in Requests, HelperStep(r) \/ Kill(r) PROVE [BrokerNext]_brokerVars
  BY <1>3, HelperAsksNothing DEF BrokerNext
<1>4. ASSUME NEW c \in receipts, ReceiptExpires(c) PROVE UNCHANGED brokerVars
  BY <1>4 DEF ReceiptExpires
<1>5. CASE ServiceReady \/ ServiceRestarts
  BY <1>5 DEF ServiceReady, ServiceRestarts
<1>6. CASE UNCHANGED vars
  BY <1>6 DEF vars
<1> QED
  BY <1>1, <1>2, <1>3, <1>4, <1>5, <1>6 DEF Next
----------------------------------------------------------------------------
(* What keeps the parts of the invariant *)

LEMMA ActionsStay ==
    ASSUME UNCHANGED request
    PROVE  /\ \A r : Action(r)' = Action(r) /\ RequestId(r)' = RequestId(r)
           /\ SessionJobs' = SessionJobs
  BY DEF Action, RequestId, SessionJobs

\* A step under the lock.
LEMMA HeldKeeps ==
    ASSUME ResetTypes, RequestsKept, LockHeld, NEW r \in Requests, NEW pc \in Held, NEW o,
           helper[r].pc \in Held, Moves(r, pc, o), r \notin SessionJobs => pc \in ModelSteps,
           o # None <=> pc \in {"notify", "finish"}, UNCHANGED <<brokerVars, lock>>
    PROVE  RequestsKept' /\ LockHeld'
<1>1. UNCHANGED <<clock, request, read, granted, stamps, broker, active>>
  BY DEF brokerVars
<1>2. \A q \in Requests : helper'[q].pc = helper[q].pc \/ (q = r /\ helper'[q].pc = pc)
  BY DEF Moves
<1>3. RequestsKept'
  <2>1. helper[r].pc \notin {"idle", "gone", "killed"} /\ pc \notin {"idle", "gone", "killed"}
    BY DEF Held
  <2> QED
    BY <1>1, <1>2, <2>1, ActionsStay DEF RequestsKept
<1>4. LockHeld'
  <2>1. SessionJobs' = SessionJobs /\ \A q : Action(q)' = Action(q)
    BY <1>1, ActionsStay
  <2>2. ASSUME NEW q \in Requests \ {r}
        PROVE  /\ helper'[q].pc \in Held <=> lock' = q
               /\ helper'[q].pc \in Held \cup {"lock"} => q \in SessionJobs' \/ Action(q)' = "model"
               /\ helper'[q].pc \in Held /\ q \notin SessionJobs' => helper'[q].pc \in ModelSteps
               /\ helper'[q].outcome # None =>
                    helper'[q].pc \in {"notify", "finish", "gone", "killed"}
               /\ Concluded(q)' => helper'[q].outcome # None
    BY <2>1 DEF LockHeld, Moves, Concluded
  <2>3. /\ helper'[r].pc \in Held <=> lock' = r
        /\ r \in SessionJobs' \/ Action(r)' = "model"
        /\ r \notin SessionJobs' => helper'[r].pc \in ModelSteps
        /\ helper'[r].outcome # None => helper'[r].pc \in {"notify", "finish"}
        /\ Concluded(r)' => helper'[r].outcome # None
    BY <2>1 DEF LockHeld, Moves, Concluded
  <2> QED
    BY <2>2, <2>3 DEF LockHeld
<1> QED
  BY <1>3, <1>4

\* The end of a helper's process.
LEMMA EndKeeps ==
    ASSUME ResetTypes, RequestsKept, LockHeld, Phases, NEW r \in Requests,
           NEW pc \in {"gone", "killed"}, Ends(r, pc), UNCHANGED <<bootVars, serviceVars>>
    PROVE  RequestsKept' /\ LockHeld' /\ Phases'
<1>1. /\ Moves(r, pc, helper[r].outcome) /\ Keeps(r)
      /\ r \in active /\ active' = active \ {r}
      /\ UNCHANGED <<clock, request, read, granted, stamps, broker>>
      /\ lock' = IF lock = r THEN None ELSE lock
  BY EndsMoves
<1>2. SessionJobs' = SessionJobs /\ \A q : Action(q)' = Action(q)
  BY <1>1, ActionsStay
<1>3. RequestsKept'
  BY <1>1, <1>2 DEF RequestsKept, Moves, ResetTypes
<1>4. LockHeld'
  <2>1. None \notin Requests
    BY HelperNone
  <2>2. ASSUME NEW q \in Requests \ {r}
        PROVE  /\ helper'[q].pc \in Held <=> lock' = q
               /\ helper'[q].pc \in Held \cup {"lock"} => q \in SessionJobs' \/ Action(q)' = "model"
               /\ helper'[q].pc \in Held /\ q \notin SessionJobs' => helper'[q].pc \in ModelSteps
               /\ helper'[q].outcome # None =>
                    helper'[q].pc \in {"notify", "finish", "gone", "killed"}
               /\ Concluded(q)' => helper'[q].outcome # None
    BY <1>1, <1>2, <2>1 DEF LockHeld, Moves, Concluded
  <2> QED
    BY <1>1, <1>2, <2>1, <2>2 DEF LockHeld, Moves, Concluded, Held
<1>5. Phases'
  <2> SUFFICES ASSUME NEW q \in Requests, helper'[q].pc \in Held
               PROVE  IF q \in SessionJobs' THEN Forward(q)' /\ Back(q)' ELSE Switch(q)'
    BY DEF Phases
  <2>1. q # r /\ helper'[q] = helper[q]
    BY <1>1 DEF Moves, Held
  <2>2. IF q \in SessionJobs THEN Forward(q) /\ Back(q) ELSE Switch(q)
    BY <2>1 DEF Phases
  <2>3. UNCHANGED <<unit, loaded, menv, service, latest, request>>
    BY <1>1 DEF bootVars, serviceVars
  <2> QED
    BY <1>2, <2>1, <2>2, <2>3
       DEF Forward, Back, Switch, Steady, Concluded, Pinned, Previous, Action
<1> QED
  BY <1>3, <1>4, <1>5

LEMMA BrokenStays ==
    ASSUME NEW r \in Requests, NEW pc, NEW o, Moves(r, pc, o), helper[r].pc # "killed",
           helper[r].outcome \in {None, o}
    PROVE  Broken => Broken'
<1>1. None # "manual"
  BY HelperNone
<1> QED
  BY <1>1 DEF Broken, Moves

LEMMA SteadyMoves ==
    ASSUME LockHeld, SteadyKept, NEW r \in Requests, NEW pc \in Held, NEW o,
           helper[r].pc \in Held, Moves(r, pc, o), helper[r].outcome \in {None, o},
           UNCHANGED <<request, lock>>,
           \/ Steady' \/ o = "manual"
           \/ Untouched(r) /\ (Steady => Steady')
           \/ r \in SessionJobs /\ pc \notin {"claim", "read", "forget", "write"} /\ o # "unchanged"
    PROVE  SteadyKept'
<1>1. lock = r /\ lock' = r
  BY DEF LockHeld
<1>2. Broken => Broken'
  BY BrokenStays DEF Held
<1>3. CASE o = "manual"
  BY <1>3 DEF SteadyKept, Broken, Moves
<1>4. CASE r \in SessionJobs /\ pc \notin {"claim", "read", "forget", "write"} /\ o # "unchanged"
  BY <1>1, <1>4, ActionsStay DEF SteadyKept, Untouched, Moves
<1>5. CASE Untouched(r) /\ (Steady => Steady')
  BY <1>1, <1>2, <1>5 DEF SteadyKept
<1> QED
  BY <1>3, <1>4, <1>5 DEF SteadyKept

LEMMA SteadyEnds ==
    ASSUME ResetTypes, LockHeld, Phases, SteadyKept, NEW r \in Requests,
           NEW pc \in {"gone", "killed"}, Ends(r, pc), UNCHANGED bootVars,
           helper[r].pc # "killed",
           pc = "killed" \/ helper[r].pc \in {"lock", "working", "claim", "read", "finish"}
    PROVE  SteadyKept'
<1>1. /\ Moves(r, pc, helper[r].outcome)
      /\ lock' = IF lock = r THEN None ELSE lock
      /\ UNCHANGED <<request, unit, loaded>>
  BY EndsMoves DEF bootVars
<1>2. Broken => Broken'
  BY <1>1, BrokenStays
<1>3. Steady => Steady'
  BY <1>1 DEF Steady
<1>4. ASSUME NEW q \in Requests \ {r}, lock = q, ~Untouched(q)
      PROVE  SteadyKept'
  <2>1. lock' = q /\ helper'[q] = helper[q] /\ SessionJobs' = SessionJobs
    BY <1>1, <1>4, ActionsStay DEF Moves
  <2> QED
    BY <1>4, <2>1 DEF SteadyKept, Untouched
<1>5. ASSUME lock = r, ~Untouched(r), pc # "killed" PROVE Steady \/ Broken
  <2>1. helper[r].pc = "finish" /\ r \in SessionJobs /\ helper[r].outcome # "unchanged"
    BY <1>5 DEF LockHeld, Held, Untouched
  <2>2. helper[r].outcome \in {"complete", "restored", "manual"}
    BY <2>1 DEF LockHeld, Concluded, ResetTypes, Helpers, Outcomes
  <2>3. Forward(r) /\ Back(r)
    BY <2>1 DEF Phases, Held, Steps
  <2> QED
    BY <2>1, <2>2, <2>3 DEF Forward, Back, Concluded, Broken
<1>6. pc = "killed" => Broken'
  BY <1>1 DEF Broken, Moves
<1> QED
  BY <1>2, <1>3, <1>4, <1>5, <1>6 DEF SteadyKept

LEMMA ReceiptsStay ==
    ASSUME ReceiptsKept, UNCHANGED <<receipts, executed, request>>,
           \A q \in Requests : /\ PastClaim(q)' => PastClaim(q)
                               /\ NotBegun(q)' => NotBegun(q)
    PROVE  ReceiptsKept'
<1>1. \A q : RequestId(q)' = RequestId(q)
  BY ActionsStay
<1> QED
  BY <1>1 DEF ReceiptsKept

LEMMA ReceiptsMove ==
    ASSUME LockHeld, ReceiptsKept, NEW r \in Requests, NEW pc \in Held, NEW o,
           PastClaim(r), Moves(r, pc, o), UNCHANGED <<receipts, request>>,
           NotBegun(r)' => NotBegun(r),
           executed' = executed \/ (executed' = executed \cup {r} /\ ~NotBegun(r)')
    PROVE  ReceiptsKept'
<1>1. \A q : RequestId(q)' = RequestId(q)
  BY ActionsStay
<1>2. \A q \in Requests : q \in executed' \/ PastClaim(q)' => q \in executed \/ PastClaim(q)
  BY DEF Moves, PastClaim
<1>3. \A q \in Requests : NotBegun(q)' => q \notin executed'
  BY DEF ReceiptsKept, NotBegun, Moves
<1>4. ASSUME NEW p \in Requests, NEW q \in executed', p \in executed' \/ PastClaim(p)',
             RequestId(p) = RequestId(q)
      PROVE  p = q
  <2>1. CASE q \in executed
    BY <1>2, <1>4, <2>1 DEF ReceiptsKept
  <2>2. CASE q = r /\ p \in executed
    BY <1>4, <2>2 DEF ReceiptsKept
  <2>3. CASE q = r /\ p = r
    BY <2>3
  <2>4. CASE q = r /\ PastClaim(p)
    BY <2>4 DEF LockHeld, PastClaim
  <2> QED
    BY <1>2, <1>4, <2>1, <2>2, <2>3, <2>4
<1> QED
  BY <1>1, <1>2, <1>3, <1>4 DEF ReceiptsKept

\* A step under the lock, past the claim.
LEMMA HeldInv ==
    ASSUME ResetInv, NEW r \in Requests, NEW pc \in Held, NEW o, PastClaim(r), Moves(r, pc, o),
           r \notin SessionJobs => pc \in ModelSteps,
           o # None <=> pc \in {"notify", "finish"}, helper[r].outcome \in {None, o},
           UNCHANGED <<brokerVars, lock, receipts>>, Mishap \/ Works,
           NotBegun(r)' => NotBegun(r),
           executed' = executed \/ (executed' = executed \cup {r} /\ ~NotBegun(r)'),
           BootTypes', told' \in [Requests -> Outcomes], ServiceKnown',
           IF r \in SessionJobs THEN Forward(r)' /\ Back(r)' ELSE Switch(r)',
           \/ Steady' \/ o = "manual"
           \/ Untouched(r) /\ (Steady => Steady')
           \/ r \in SessionJobs /\ pc \notin {"claim", "read", "forget", "write"} /\ o # "unchanged"
    PROVE  ResetInv'
<1>1. /\ ResetTypes /\ RequestsKept /\ LockHeld /\ Phases /\ SteadyKept /\ ReceiptsKept
      /\ helper[r].pc \in Held
  BY DEF ResetInv, PastClaim
<1>2. UNCHANGED <<clock, request, read, granted, stamps, broker, active>>
  BY DEF brokerVars
<1>3. RequestsKept' /\ LockHeld'
  BY <1>1, HeldKeeps
<1>4. SteadyKept'
  BY <1>1, <1>2, SteadyMoves
<1>5. ReceiptsKept'
  BY <1>1, <1>2, ReceiptsMove
<1>6. mishaps' \in 0..MaxMishaps
  BY <1>1, HelperNames DEF ResetTypes, Mishap, Works
<1>7. BrokerTypeOK'
  BY <1>1, <1>2 DEF ResetTypes, BrokerTypeOK
<1>8. ResetTypes'
  BY <1>1, <1>6, <1>7 DEF ResetTypes, Moves
<1>9. Phases'
  <2>1. \A q \in Requests : helper'[q].pc \in Held => q = r
    BY <1>1, <1>3 DEF LockHeld
  <2>2. SessionJobs' = SessionJobs
    BY <1>2, ActionsStay
  <2> QED
    BY <2>1, <2>2 DEF Phases
<1> QED
  BY <1>3, <1>4, <1>5, <1>8, <1>9 DEF ResetInv

\* Nothing is asked of what a failing step leaves.
LEMMA RecoversInv ==
    ASSUME ResetInv, NEW r \in Requests, PastClaim(r), Raises(r),
           UNCHANGED <<brokerVars, lock, receipts, told>>, Mishap \/ Works,
           executed' \in {executed, executed \cup {r}},
           BootTypes', ServiceKnown', r \notin SessionJobs /\ Steady => Steady'
    PROVE  ResetInv'
<1>1. ResetTypes /\ LockHeld /\ helper[r].pc \in Held
  BY DEF ResetInv, PastClaim
<1>2. Recovers(r)
  BY <1>1, RaisesRecovers
<1>3. told' \in [Requests -> Outcomes] /\ helper[r].outcome = None
  BY <1>1 DEF ResetTypes, LockHeld, Raises
<1>4. None \notin {"complete", "restored", "manual", "unchanged"}
  BY HelperNone
<1>5. UNCHANGED request
  BY DEF brokerVars
<1>6. ASSUME NEW pc \in {"drop", "back_write", "undo_write"}, Moves(r, pc, None),
             r \notin SessionJobs => pc = "back_write"
      PROVE  ResetInv'
  <2>1. pc \in Held /\ (r \notin SessionJobs => pc \in ModelSteps)
    BY <1>6 DEF Held, Steps, ModelSteps
  <2>2. ~NotBegun(r)'
    BY <1>4, <1>6 DEF NotBegun, Moves
  <2>3. Forward(r)' /\ Back(r)' /\ Switch(r)'
    BY <1>6 DEF Forward, Back, Switch, Concluded, Moves
  <2>4. r \notin SessionJobs => Untouched(r)
    BY DEF Untouched
  <2> QED
    BY <1>3, <1>4, <1>6, <2>1, <2>2, <2>3, <2>4, HeldInv
<1>7. ASSUME Moves(r, "notify", "manual") PROVE ResetInv'
  <2>1. "notify" \in Held /\ "notify" \in ModelSteps
    BY DEF Held, Steps, ModelSteps
  <2>2. ~NotBegun(r)'
    BY <1>7 DEF NotBegun, Moves
  <2>3. Forward(r)' /\ Back(r)' /\ Switch(r)'
    BY <1>7 DEF Forward, Back, Switch, Concluded, Moves
  <2> QED
    BY <1>3, <1>4, <1>7, <2>1, <2>2, <2>3, HeldInv
<1> QED
  BY <1>2, <1>6, <1>7 DEF Recovers
----------------------------------------------------------------------------
(* Steps that end a helper, or do not need the lock *)

LEMMA EndInv ==
    ASSUME ResetInv, NEW r \in Requests, NEW pc \in {"gone", "killed"}, Ends(r, pc),
           UNCHANGED <<bootVars, serviceVars, told>>, Mishap \/ Works, executed' \subseteq Requests,
           helper[r].pc # "killed",
           pc = "killed" \/ helper[r].pc \in {"lock", "working", "claim", "read", "finish"},
           ReceiptsKept'
    PROVE  ResetInv'
<1>1. /\ ResetTypes /\ RequestsKept /\ LockHeld /\ ServiceKnown /\ Phases /\ SteadyKept
  BY DEF ResetInv
<1>2. RequestsKept' /\ LockHeld' /\ Phases'
  BY <1>1, EndKeeps
<1>3. SteadyKept'
  BY <1>1, SteadyEnds
<1>4. ServiceKnown' /\ BootTypes'
  BY <1>1 DEF ServiceKnown, ResetTypes, BootTypes, bootVars, serviceVars
<1>5. /\ helper' \in [Requests -> Helpers] /\ lock' \in Requests \cup {None}
      /\ UNCHANGED <<clock, request, read, granted, stamps, broker>> /\ active' \subseteq Requests
  BY <1>1, EndsMoves DEF Moves, ResetTypes, BrokerTypeOK
<1>6. mishaps' \in 0..MaxMishaps
  BY <1>1, HelperNames DEF ResetTypes, Mishap, Works
<1>7. ResetTypes'
  BY <1>1, <1>4, <1>5, <1>6 DEF ResetTypes, BrokerTypeOK
<1> QED
  BY <1>2, <1>3, <1>4, <1>7 DEF ResetInv

LEMMA EndReceipts ==
    ASSUME ResetInv, NEW r \in Requests, NEW pc \in {"gone", "killed"}, Ends(r, pc),
           UNCHANGED <<receipts, executed>>
    PROVE  ReceiptsKept'
<1>1. Moves(r, pc, helper[r].outcome) /\ UNCHANGED request /\ ReceiptsKept
  BY EndsMoves DEF ResetInv
<1>2. \A q \in Requests : (PastClaim(q)' => PastClaim(q)) /\ (NotBegun(q)' => NotBegun(q))
  BY <1>1 DEF PastClaim, NotBegun, Moves, Held
<1> QED
  BY <1>1, <1>2, ReceiptsStay

LEMMA KillInv ==
    ASSUME ResetInv, NEW r \in Requests, Kill(r) \/ Work(r)
    PROVE  ResetInv'
<1>1. executed \subseteq Requests
  BY DEF ResetInv, ResetTypes
<1>2. CASE Kill(r)
  BY <1>1, <1>2, EndInv, EndReceipts DEF Kill
<1>3. CASE Work(r)
  BY <1>1, <1>3, EndInv, EndReceipts DEF Work, Works
<1> QED
  BY <1>2, <1>3

\* Other helpers stand still, and the lock's holder with them.
LEMMA LockInv ==
    ASSUME ResetInv, NEW r \in Requests, Lock(r)
    PROVE  ResetInv'
<1>1. /\ ResetTypes /\ RequestsKept /\ LockHeld /\ ServiceKnown /\ Phases /\ SteadyKept
      /\ ReceiptsKept
  BY DEF ResetInv
<1>2. CASE lock # None /\ Ends(r, "gone")
  <2>1. executed \subseteq Requests
    BY <1>1 DEF ResetTypes
  <2> QED
    BY <1>2, <2>1, EndInv, EndReceipts DEF Lock, Works
<1>3. CASE /\ lock = None /\ lock' = r /\ UNCHANGED brokerVars
           /\ Becomes(r, [helper[r] EXCEPT !.pc = "claim", !.before = latest])
  <2> DEFINE h == [helper[r] EXCEPT !.pc = "claim", !.before = latest]
  <2>1. h \in Helpers /\ h.pc = "claim" /\ h.outcome = helper[r].outcome /\ h.env = helper[r].env
    <3>1. helper[r] \in Helpers /\ latest \in Sessions
      BY <1>1 DEF ResetTypes, BootTypes
    <3> QED
      BY <3>1 DEF Helpers, Steps
  <2>2. helper' = [helper EXCEPT ![r] = h]
    BY <1>3 DEF Becomes
  <2> HIDE DEF h
  <2>3. Moves(r, "claim", helper[r].outcome)
    BY <1>1, <2>1, <2>2 DEF Moves, ResetTypes
  <2>4. helper[r].outcome = None /\ helper[r].pc = "lock"
    BY <1>1 DEF LockHeld, Lock
  <2>5. None \notin Requests \cup {"complete", "restored", "manual", "unchanged"}
    BY HelperNone
  <2>6. UNCHANGED <<unit, loaded, menv, service, latest, attested, receipts, executed, told, mishaps,
                    clock, request, read, granted, stamps, broker, active>>
    BY <1>3 DEF Lock, bootVars, serviceVars, brokerVars
  <2>7. SessionJobs' = SessionJobs /\ \A q : Action(q)' = Action(q)
    BY <2>6, ActionsStay
  <2>8. ResetTypes'
    BY <1>1, <1>3, <2>3, <2>6 DEF ResetTypes, BrokerTypeOK, BootTypes, Moves
  <2>9. RequestsKept'
    BY <1>1, <2>3, <2>4, <2>6, <2>7 DEF RequestsKept, Moves
  <2>10. \A q \in Requests : helper[q].pc \notin Held
    BY <1>1, <1>3, <2>5 DEF LockHeld
  <2>11. LockHeld'
    <3>1. \A q \in Requests : helper'[q].pc \in Held <=> lock' = q
      BY <1>3, <2>3, <2>10 DEF Moves, Held, Steps
    <3>2. "claim" \in ModelSteps /\ "claim" \in Held
      BY DEF ModelSteps, Held, Steps
    <3> QED
      BY <1>1, <2>3, <2>4, <2>7, <3>1, <3>2 DEF LockHeld, Moves, Concluded
  <2>12. Phases'
    <3>1. Forward(r)' /\ Back(r)' /\ Switch(r)'
      BY <2>3 DEF Forward, Back, Switch, Concluded, Moves
    <3>2. \A q \in Requests : helper'[q].pc \in Held => q = r
      BY <2>3, <2>10 DEF Moves
    <3> QED
      BY <3>1, <3>2 DEF Phases
  <2>13. SteadyKept'
    <3>1. Broken => Broken'
      BY <2>3, <2>4, BrokenStays
    <3>2. Broken \/ Steady
      BY <1>1, <1>3, <2>5 DEF SteadyKept
    <3> QED
      BY <2>6, <3>1, <3>2 DEF SteadyKept, Steady
  <2>14. ServiceKnown'
    BY <1>1, <2>6 DEF ServiceKnown
  <2>15. ReceiptsKept'
    <3>1. \A q \in Requests : (PastClaim(q)' => PastClaim(q)) /\ (NotBegun(q)' => NotBegun(q))
      BY <2>3, <2>4, <2>5 DEF PastClaim, NotBegun, Moves
    <3> QED
      BY <1>1, <2>6, <3>1, ReceiptsStay
  <2> QED
    BY <2>8, <2>9, <2>11, <2>12, <2>13, <2>14, <2>15 DEF ResetInv
<1> QED
  BY <1>2, <1>3 DEF Lock

\* A connection's own steps: what they change, no helper knows of yet.
LEMMA SubmitInv ==
    ASSUME ResetInv, [BrokerNext]_brokerVars, NEW r \in Requests,
           Submit(r) \/ ((TakeTime(r) \/ Reserve(r)) /\ UNCHANGED helperVars)
    PROVE  ResetInv'
<1>1. /\ ResetTypes /\ RequestsKept /\ LockHeld /\ ServiceKnown /\ Phases /\ SteadyKept
      /\ ReceiptsKept
  BY DEF ResetInv
<1>2. UNCHANGED <<unit, loaded, menv, service, latest, attested, lock, receipts, helper, executed,
                  told, mishaps, active>>
  BY DEF Submit, Count, TakeTime, Reserve, helperVars, bootVars, serviceVars
<1>3. ResetTypes'
  BY <1>1, <1>2, BrokerTypesStep DEF ResetTypes, BootTypes
<1>4. \A q \in Requests : q # r => request'[q] = request[q] /\ broker'[q] = broker[q]
  BY <1>1 DEF Submit, Count, TakeTime, Reserve, Replies, ResetTypes, BrokerTypeOK
<1>5. /\ helper[r].pc = "idle" /\ broker'[r] \in {"counted", "timed", "reserved", "rejected"}
      /\ request'[r] = request[r] \/ request[r] = None
      /\ request'[r] # None
      /\ Action(r)' = "resume" => request'[r].target \in Sessions
      /\ Action(r)' = "model" => request'[r].target \in Models \cup {None}
  <2>1. CASE TakeTime(r) \/ Reserve(r)
    BY <1>1, <2>1 DEF TakeTime, Reserve, Replies, RequestsKept, ResetTypes, BrokerTypeOK, Action
  <2>2. CASE Submit(r)
    <3>1. PICK k \in Kinds : Count(r, [action |-> k.action, message |-> k.message,
                                       target |-> k.target, named |-> service.sid])
      BY <2>2 DEF Submit
    <3> DEFINE c == [action |-> k.action, message |-> k.message,
                     target |-> k.target, named |-> service.sid]
    <3>2. service.sid \in Sessions
      BY <1>1, <2>2 DEF Submit, ResetTypes, BootTypes, Services
    <3>3. /\ c \in Contents /\ c # None
          /\ c.action = "resume" => c.target \in Sessions
          /\ c.action = "model" => c.target \in Models \cup {None}
      <4>1. c \in Contents
        BY <3>2, HelperNames DEF Contents
      <4>2. c.action = k.action /\ c.target = k.target
        OBVIOUS
      <4>3. /\ k.action = "resume" => k.target \in Sessions
            /\ k.action = "model" => k.target \in Models \cup {None}
        BY HelperNames
      <4> HIDE DEF c
      <4>4. c # None
        BY <4>1, HelperNone
      <4> QED
        BY <4>1, <4>2, <4>3, <4>4
    <3>4. request' = [request EXCEPT ![r] = c] /\ broker'[r] \in {"counted", "rejected"}
          /\ broker[r] = "idle"
      BY <1>1, <3>1 DEF Count, Replies, ResetTypes, BrokerTypeOK
    <3> HIDE DEF c
    <3> QED
      BY <1>1, <3>3, <3>4 DEF RequestsKept, ResetTypes, BrokerTypeOK, Action
  <2> QED
    BY <2>1, <2>2
<1>6. RequestsKept'
  BY <1>1, <1>2, <1>4, <1>5 DEF RequestsKept, Action
<1>7. \A q \in Requests : q # r => Action(q)' = Action(q) /\ RequestId(q)' = RequestId(q)
                                /\ (q \in SessionJobs' <=> q \in SessionJobs)
  BY <1>4 DEF Action, RequestId, SessionJobs
<1>8. "idle" \notin Held /\ lock # r /\ helper[r].outcome = None
  BY <1>1, <1>5 DEF Held, LockHeld
<1>9. LockHeld'
  BY <1>1, <1>2, <1>5, <1>7, <1>8 DEF LockHeld, Concluded
<1>10. Phases'
  <2> SUFFICES ASSUME NEW q \in Requests, helper[q].pc \in Held
               PROVE  IF q \in SessionJobs' THEN Forward(q)' /\ Back(q)' ELSE Switch(q)'
    BY <1>2 DEF Phases
  <2>1. q # r
    BY <1>5, <1>8
  <2>2. IF q \in SessionJobs THEN Forward(q) /\ Back(q) ELSE Switch(q)
    BY <1>1 DEF Phases
  <2> QED
    BY <1>2, <1>4, <1>7, <2>1, <2>2
       DEF Forward, Back, Switch, Steady, Concluded, Pinned, Previous, Action
<1>11. SteadyKept'
  BY <1>1, <1>2, <1>7, <1>8 DEF SteadyKept, Broken, Steady, Untouched
<1>12. ServiceKnown'
  BY <1>1, <1>2 DEF ServiceKnown
<1>13. ReceiptsKept'
  <2>1. \A q \in Requests : request[q] # None =>
            request'[q] # None /\ RequestId(q)' = RequestId(q)
    BY <1>4, <1>5 DEF RequestId
  <2>2. \A q \in Requests : (PastClaim(q)' <=> PastClaim(q)) /\ (NotBegun(q)' <=> NotBegun(q))
    BY <1>2 DEF PastClaim, NotBegun
  <2>3. executed \subseteq Requests
    BY <1>1 DEF ResetTypes
  <2> QED
    BY <1>1, <1>2, <2>1, <2>2, <2>3 DEF ReceiptsKept
<1> QED
  BY <1>3, <1>6, <1>9, <1>10, <1>11, <1>12, <1>13 DEF ResetInv

LEMMA RunInv ==
    ASSUME ResetInv, [BrokerNext]_brokerVars, NEW r \in Requests, RunJob(r)
    PROVE  ResetInv'
<1>1. /\ ResetTypes /\ RequestsKept /\ LockHeld /\ ServiceKnown /\ Phases /\ SteadyKept
      /\ ReceiptsKept
  BY DEF ResetInv
<1>2. UNCHANGED <<unit, loaded, menv, service, latest, attested, lock, receipts, executed,
                  told, mishaps, request>>
  BY DEF RunJob, Run, bootVars, serviceVars
<1>3. /\ broker[r] = "reserved" /\ helper[r].pc = "idle" /\ r \notin active /\ request[r] # None
      /\ helper[r].outcome = None
      /\ broker' \in [Requests -> BrokerSteps] /\ broker'[r] \in {"scheduled", "rejected"}
      /\ \A q \in Requests \ {r} : broker'[q] = broker[q]
  BY <1>1, BrokerTypesStep
     DEF RunJob, Run, Replies, RequestsKept, LockHeld, ResetTypes, BrokerTypeOK
<1>4. PICK pc \in {"idle", "lock", "working"} :
         /\ Moves(r, pc, None)
         /\ active' = IF pc = "idle" THEN active ELSE active \cup {r}
         /\ pc = "lock" => r \notin Workers
  <2>1. CASE r \in active'
    <3>1. Goes(r, IF r \in Workers THEN "working" ELSE "lock")
      BY <2>1 DEF RunJob
    <3>2. active' = active \cup {r}
      BY <1>3, <2>1 DEF RunJob, Run
    <3> QED
      BY <1>1, <1>3, <3>1, <3>2, GoesMoves, StepsKnown
  <2>2. CASE r \notin active'
    <3>1. UNCHANGED <<helper, active>>
      BY <2>2 DEF RunJob, Run
    <3> QED
      BY <1>1, <1>3, <3>1 DEF Moves, ResetTypes
  <2> QED
    BY <2>1, <2>2
<1>5. ResetTypes'
  BY <1>1, <1>2, <1>4, BrokerTypesStep DEF ResetTypes, BootTypes, Moves
<1>6. SessionJobs' = SessionJobs /\ \A q : Action(q)' = Action(q)
  BY <1>2, ActionsStay
<1>7. RequestsKept'
  BY <1>1, <1>2, <1>3, <1>4, <1>6 DEF RequestsKept, Moves
<1>8. helper'[r].pc \notin Held /\ helper[r].pc \notin Held
  BY <1>3, <1>4 DEF Held, Moves
<1>9. pc = "lock" => r \in SessionJobs \/ Action(r) = "model"
  <2>1. request[r] \in Contents
    BY <1>1, <1>3 DEF ResetTypes, BrokerTypeOK
  <2> QED
    BY <1>3, <1>4, <2>1 DEF Workers, SessionJobs, Action, Contents, Actions
<1>10. LockHeld'
  BY <1>1, <1>2, <1>4, <1>6, <1>8, <1>9 DEF LockHeld, Concluded, Moves
<1>11. Phases'
  <2> SUFFICES ASSUME NEW q \in Requests, helper'[q].pc \in Held
               PROVE  IF q \in SessionJobs' THEN Forward(q)' /\ Back(q)' ELSE Switch(q)'
    BY DEF Phases
  <2>1. q # r /\ helper'[q] = helper[q]
    BY <1>4, <1>8 DEF Moves
  <2>2. IF q \in SessionJobs THEN Forward(q) /\ Back(q) ELSE Switch(q)
    BY <1>1, <2>1 DEF Phases
  <2> QED
    BY <1>2, <1>6, <2>1, <2>2
       DEF Forward, Back, Switch, Steady, Concluded, Pinned, Previous, Action
<1>12. SteadyKept'
  <2>1. Broken => Broken'
    BY <1>3, <1>4, BrokenStays
  <2>2. lock # r
    BY <1>1, <1>8 DEF LockHeld
  <2> QED
    BY <1>1, <1>2, <1>4, <1>6, <2>1, <2>2 DEF SteadyKept, Steady, Untouched, Moves
<1>13. ServiceKnown'
  BY <1>1, <1>2 DEF ServiceKnown
<1>14. ReceiptsKept'
  <2>1. \A q \in Requests : (PastClaim(q)' => PastClaim(q)) /\ (NotBegun(q)' => NotBegun(q))
    BY <1>3, <1>4, <1>8 DEF PastClaim, NotBegun, Moves
  <2> QED
    BY <1>1, <1>2, <2>1, ReceiptsStay
<1> QED
  BY <1>5, <1>7, <1>10, <1>11, <1>12, <1>13, <1>14 DEF ResetInv
----------------------------------------------------------------------------
(* The claim *)

\* What the store's other steps leave: the ids that it has.
LEMMA ReceiptsRewritten ==
    ASSUME ReceiptsKept, UNCHANGED <<executed, request>>,
           \A q \in Requests : /\ PastClaim(q)' => PastClaim(q)
                               /\ NotBegun(q)' => NotBegun(q),
           \A c \in receipts : \E d \in receipts' : d.id = c.id,
           \A d \in receipts' : d.status \in Statuses /\ \E c \in receipts : d.id = c.id
    PROVE  ReceiptsKept'
<1>1. \A q : RequestId(q)' = RequestId(q)
  BY ActionsStay
<1> QED
  BY <1>1 DEF ReceiptsKept

LEMMA FinishInv ==
    ASSUME ResetInv, NEW r \in Requests, Finish(r)
    PROVE  ResetInv'
<1> DEFINE status == IF helper[r].outcome = "complete" THEN "complete" ELSE "failed"
           New(c) == IF c.id = RequestId(r) THEN [c EXCEPT !.status = status, !.expired = FALSE] ELSE c
           finished == {New(c) : c \in receipts}
<1>1. ResetTypes /\ ReceiptsKept /\ executed \subseteq Requests
  BY DEF ResetInv, ResetTypes
<1>2. receipts' \in {receipts, finished} /\ Ends(r, "gone") /\ (Mishap \/ Works)
      /\ UNCHANGED <<executed, told, bootVars, serviceVars>> /\ helper[r].pc = "finish"
  BY DEF Finish
<1>3. ASSUME NEW c \in receipts PROVE New(c).id = c.id /\ New(c).status \in Statuses
  BY <1>1, <1>3 DEF ReceiptsKept, Statuses
<1> HIDE DEF New
<1>4. Moves(r, "gone", helper[r].outcome) /\ UNCHANGED request
  BY <1>1, <1>2, EndsMoves
<1>5. \A q \in Requests : (PastClaim(q)' => PastClaim(q)) /\ (NotBegun(q)' => NotBegun(q))
  BY <1>4 DEF PastClaim, NotBegun, Moves, Held
<1>6. /\ \A c \in receipts : \E d \in receipts' : d.id = c.id
      /\ \A d \in receipts' : d.status \in Statuses /\ \E c \in receipts : d.id = c.id
  BY <1>1, <1>2, <1>3 DEF ReceiptsKept
<1>7. ReceiptsKept'
  BY <1>1, <1>2, <1>4, <1>5, <1>6, ReceiptsRewritten
<1> QED
  BY <1>1, <1>2, <1>7, EndInv

LEMMA ExpiresInv ==
    ASSUME ResetInv, NEW c \in receipts, ReceiptExpires(c)
    PROVE  ResetInv'
<1> DEFINE d == [c EXCEPT !.expired = TRUE]
<1>1. /\ ResetTypes /\ RequestsKept /\ LockHeld /\ ServiceKnown /\ Phases /\ SteadyKept
      /\ ReceiptsKept
  BY DEF ResetInv
<1>2. /\ UNCHANGED <<unit, loaded, menv, service, latest, attested, lock, helper, executed, told,
                    clock, request, read, granted, stamps, broker, active>>
      /\ Mishap /\ receipts' = (receipts \ {c}) \cup {d}
  BY DEF ReceiptExpires, brokerVars, bootVars, serviceVars
<1>3. ResetTypes'
  BY <1>1, <1>2, HelperNames DEF ResetTypes, BrokerTypeOK, BootTypes, Mishap
<1>4. d.id = c.id /\ d.status \in Statuses
  BY <1>1 DEF ReceiptsKept
<1> HIDE DEF d
<1>5. SessionJobs' = SessionJobs /\ \A q : Action(q)' = Action(q)
  BY <1>2, ActionsStay
<1>6. RequestsKept' /\ LockHeld'
  BY <1>1, <1>2, <1>5 DEF RequestsKept, LockHeld, Concluded
<1>7. Phases'
  BY <1>1, <1>2, <1>5
     DEF Phases, Forward, Back, Switch, Steady, Concluded, Pinned, Previous, Action
<1>8. SteadyKept' /\ ServiceKnown'
  BY <1>1, <1>2, <1>5 DEF SteadyKept, Steady, Broken, Untouched, ServiceKnown
<1>9. ReceiptsKept'
  <2>1. \A q \in Requests : (PastClaim(q)' => PastClaim(q)) /\ (NotBegun(q)' => NotBegun(q))
    BY <1>2 DEF PastClaim, NotBegun
  <2>2. /\ \A e \in receipts : \E f \in receipts' : f.id = e.id
        /\ \A f \in receipts' : f.status \in Statuses /\ \E e \in receipts : f.id = e.id
    BY <1>1, <1>2, <1>4 DEF ReceiptsKept
  <2> QED
    BY <1>1, <1>2, <2>1, <2>2, ReceiptsRewritten
<1> QED
  BY <1>3, <1>6, <1>7, <1>8, <1>9 DEF ResetInv

\* An id that has no receipt was never executed.
LEMMA ClaimIsFirst ==
    ASSUME ResetInv, NEW r \in Requests, helper[r].pc = "claim", ~Known(r)
    PROVE  \A q \in executed : RequestId(q) # RequestId(r)
  BY DEF ResetInv, ResetTypes, ReceiptsKept, Known

LEMMA ClaimInv ==
    ASSUME ResetInv, NEW r \in Requests, Claim(r)
    PROVE  ResetInv'
<1> DEFINE claimed == Pruned \cup {NewReceipt(r)}
<1>1. /\ ResetTypes /\ RequestsKept /\ LockHeld /\ ServiceKnown /\ Phases /\ SteadyKept
      /\ ReceiptsKept /\ helper[r].pc = "claim" /\ helper[r].outcome = None
      /\ UNCHANGED <<bootVars, serviceVars, told>>
  BY DEF ResetInv, Claim, LockHeld
<1>2. executed' \subseteq executed /\ executed \subseteq Requests
  BY <1>1 DEF Claim, ResetTypes
<1>3. CASE Known(r) /\ Ends(r, "gone") /\ UNCHANGED <<receipts, executed>> /\ Works
  BY <1>1, <1>2, <1>3, EndInv, EndReceipts
<1>4. ASSUME ~Known(r) PROVE executed' = {q \in executed : \E c \in claimed : c.id = RequestId(q)}
  BY <1>4 DEF Claim
<1>5. /\ NewReceipt(r).id = RequestId(r) /\ NewReceipt(r).status \in Statuses
      /\ Pruned \subseteq receipts
  BY DEF NewReceipt, Statuses, Pruned
<1>6. request[r] # None
  BY <1>1 DEF RequestsKept
<1>7. ASSUME ~Known(r), receipts' \in {Pruned, claimed}, UNCHANGED request,
             \A q \in Requests \ {r} : helper'[q] = helper[q],
             PastClaim(r)' => receipts' = claimed, ~(helper'[r].outcome = "unchanged")
      PROVE  ReceiptsKept'
  <2>1. \A q : RequestId(q)' = RequestId(q)
    BY <1>7, ActionsStay
  <2>2. \A q \in executed : RequestId(q) # RequestId(r)
    BY <1>1, <1>7, ClaimIsFirst
  <2>3. \A c \in receipts' : c.status \in Statuses
                             /\ \E q \in Requests : request[q] # None /\ c.id = RequestId(q)
    BY <1>1, <1>5, <1>6, <1>7 DEF ReceiptsKept
  <2>4. \A q \in executed' : q \in executed /\ q # r /\ request[q] # None
                             /\ \E c \in receipts' : c.id = RequestId(q)
    BY <1>1, <1>4, <1>5, <1>7, <2>2, <1>2 DEF ReceiptsKept
  <2>5. PastClaim(r)' => \E c \in receipts' : c.id = RequestId(r)
    BY <1>5, <1>7
  <2>6. \A q \in Requests \ {r} : ~PastClaim(q)' /\ (NotBegun(q)' => NotBegun(q))
    <3>1. "claim" \in Held
      BY DEF Held, Steps
    <3> QED
      BY <1>1, <1>7, <3>1 DEF PastClaim, NotBegun, LockHeld
  <2>7. \A q \in Requests : NotBegun(q)' => q \notin executed'
    BY <1>1, <2>4, <2>6 DEF ReceiptsKept
  <2>8. ASSUME NEW p \in Requests, NEW q \in executed', p \in executed' \/ PastClaim(p)',
               RequestId(p) = RequestId(q)
        PROVE  p = q
    <3>1. CASE p \in executed
      BY <1>1, <1>2, <2>8, <3>1 DEF ReceiptsKept
    <3>2. CASE p = r
      BY <2>2, <2>4, <2>8, <3>2
    <3> QED
      BY <1>2, <2>6, <2>8, <3>1, <3>2
  <2> QED
    BY <1>2, <1>6, <1>7, <2>1, <2>3, <2>4, <2>5, <2>6, <2>7, <2>8 DEF ReceiptsKept
<1>8. CASE ~Known(r) /\ receipts' \in {Pruned, claimed} /\ Mishap /\ Ends(r, "gone")
  <2>1. Moves(r, "gone", None) /\ UNCHANGED request
    BY <1>1, <1>8, EndsMoves
  <2>2. ~PastClaim(r)' /\ None # "unchanged"
    BY <2>1, HelperNone DEF PastClaim, Moves, Held
  <2>3. ReceiptsKept'
    BY <1>7, <1>8, <2>1, <2>2 DEF Moves
  <2> QED
    BY <1>1, <1>2, <1>8, <2>3, EndInv
<1>9. CASE /\ ~Known(r) /\ receipts' = claimed /\ Works /\ Goes(r, "read")
           /\ UNCHANGED <<brokerVars, lock>>
  <2>1. UNCHANGED <<unit, loaded, menv, service, latest, attested, mishaps, clock, request, read, granted,
                    stamps, broker, active>>
    BY <1>1, <1>9 DEF bootVars, serviceVars, brokerVars, Works
  <2>2. "read" \in Held /\ "read" \in ModelSteps /\ "claim" \in Held
    BY DEF Held, Steps, ModelSteps
  <2>3. Moves(r, "read", None)
    BY <1>1, <1>9, <2>2, GoesMoves, StepsKnown
  <2>4. None # "unchanged"
    BY HelperNone
  <2>5. ReceiptsKept'
    BY <1>7, <1>9, <2>1, <2>3, <2>4 DEF Moves
  <2>6. RequestsKept' /\ LockHeld'
    BY <1>1, <1>9, <2>2, <2>3, HeldKeeps
  <2>7. SteadyKept'
    <3>1. Untouched(r) /\ (Steady => Steady')
      BY <1>1, <2>1 DEF Untouched, Steady
    <3> QED
      BY <1>1, <1>9, <2>1, <2>2, <2>3, <3>1, SteadyMoves
  <2>8. ResetTypes'
    BY <1>1, <1>2, <1>9, <2>1, <2>3 DEF ResetTypes, BrokerTypeOK, BootTypes, Moves
  <2>9. Phases'
    <3>1. Forward(r)' /\ Back(r)' /\ Switch(r)'
      BY <2>3 DEF Forward, Back, Switch, Concluded, Moves
    <3>2. \A q \in Requests : helper'[q].pc \in Held => q = r
      BY <1>1, <2>2, <2>3 DEF Moves, LockHeld
    <3> QED
      BY <3>1, <3>2 DEF Phases
  <2>10. ServiceKnown'
    BY <1>1, <2>1 DEF ServiceKnown
  <2> QED
    BY <2>5, <2>6, <2>7, <2>8, <2>9, <2>10 DEF ResetInv
<1> QED
  BY <1>3, <1>8, <1>9 DEF Claim
----------------------------------------------------------------------------
(* The steps under the lock *)

\* A receipt, a notice or a look at the files: what the service boots from
\* stays.
LEMMA BootStays ==
    ASSUME ResetTypes, UNCHANGED bootVars, UNCHANGED <<service, latest>>,
           attested' \subseteq Sessions, ServiceKnown
    PROVE  BootTypes' /\ ServiceKnown' /\ (Steady' <=> Steady)
  BY DEF ResetTypes, BootTypes, ServiceKnown, Steady, bootVars

LEMMA ReadInv ==
    ASSUME ResetInv, NEW r \in Requests, Read(r)
    PROVE  ResetInv'
<1>1. /\ ResetTypes /\ LockHeld /\ ServiceKnown /\ helper[r].pc = "read"
      /\ helper[r].outcome = None /\ executed \subseteq Requests
      /\ UNCHANGED <<bootVars, serviceVars, receipts, executed, told>>
  BY DEF ResetInv, Read, LockHeld, ResetTypes
<1>2. /\ "read" \in Held /\ PastClaim(r) /\ NotBegun(r) /\ Untouched(r)
      /\ {"forget", "write", "notify"} \subseteq Held
      /\ {"write", "notify"} \subseteq ModelSteps
  BY <1>1 DEF PastClaim, NotBegun, Untouched, Held, Steps, ModelSteps
<1>3. BootTypes' /\ ServiceKnown' /\ (Steady' <=> Steady) /\ told' \in [Requests -> Outcomes]
      /\ executed' = executed /\ (Mishap \/ Works)
  BY <1>1, BootStays DEF serviceVars, ResetTypes, BootTypes, Read
<1>4. None \notin {"complete", "restored", "manual", "unchanged"}
  BY HelperNone
<1>5. CASE Ends(r, "gone")
  BY <1>1, <1>3, <1>5, EndInv, EndReceipts
<1>6. CASE Concludes(r, "unchanged") /\ UNCHANGED <<brokerVars, lock>>
  <2>1. Moves(r, "notify", "unchanged")
    BY <1>1, <1>6, ConcludesMoves DEF Outcomes
  <2>2. Forward(r)' /\ Back(r)' /\ Switch(r)'
    BY <2>1 DEF Forward, Back, Switch, Concluded, Moves
  <2> QED
    BY <1>1, <1>2, <1>3, <1>4, <1>6, <2>1, <2>2, HeldInv
<1>7. CASE /\ Becomes(r, [helper[r] EXCEPT
                !.pc = IF Action(r) = "reset" THEN "forget" ELSE "write",
                !.env = IF Action(r) = "model" THEN menv ELSE None])
           /\ UNCHANGED <<brokerVars, lock>>
  <2> DEFINE pc == IF Action(r) = "reset" THEN "forget" ELSE "write"
             env == IF Action(r) = "model" THEN menv ELSE None
             h == [helper[r] EXCEPT !.pc = pc, !.env = env]
  <2>1. env \in Models \cup {None} /\ pc \in {"forget", "write"} /\ pc \in Steps
    BY <1>1 DEF ResetTypes, BootTypes, Steps
  <2>2. r \notin SessionJobs => pc = "write"
    BY DEF SessionJobs
  <2>3. helper' = [helper EXCEPT ![r] = h]
    BY <1>7 DEF Becomes
  <2> HIDE DEF pc, env
  <2>4. h \in Helpers /\ h.pc = pc /\ h.outcome = None
    <3>1. helper[r] \in Helpers
      BY <1>1 DEF ResetTypes
    <3> QED
      BY <1>1, <2>1, <3>1 DEF Helpers
  <2> HIDE DEF h
  <2>5. Moves(r, pc, None)
    BY <1>1, <2>3, <2>4 DEF Moves, ResetTypes
  <2>6. Forward(r)' /\ Back(r)' /\ Switch(r)'
    BY <2>1, <2>5 DEF Forward, Back, Switch, Concluded, Moves
  <2> QED
    BY <1>1, <1>2, <1>3, <1>4, <1>7, <2>1, <2>2, <2>5, <2>6, HeldInv
<1> QED
  BY <1>5, <1>6, <1>7 DEF Read

LEMMA RemoveInv ==
    ASSUME ResetInv, NEW r \in Requests, RemoveReceipt(r)
    PROVE  ResetInv'
<1>1. /\ ResetTypes /\ LockHeld /\ ServiceKnown /\ Phases
      /\ helper[r].pc \in {"forget", "cleanup", "drop"}
      /\ helper[r].outcome = None /\ attested' \subseteq Sessions /\ (Mishap \/ Works)
      /\ UNCHANGED <<brokerVars, bootVars, service, latest, lock, receipts, executed, told>>
  BY DEF ResetInv, RemoveReceipt, LockHeld, ResetTypes, BootTypes
<1>2. /\ helper[r].pc \in Held /\ PastClaim(r)
      /\ {"write", "back_write", "notify"} \subseteq Held
      /\ {"write", "back_write"} \subseteq Steps
  BY <1>1 DEF PastClaim, Held, Steps
<1>3. r \in SessionJobs /\ Forward(r)
  BY <1>1, <1>2 DEF LockHeld, Phases, ModelSteps
<1>4. BootTypes' /\ ServiceKnown' /\ (Steady' <=> Steady) /\ told' \in [Requests -> Outcomes]
  BY <1>1, BootStays DEF ResetTypes
<1>5. None \notin {"complete", "restored", "manual", "unchanged"} /\ UNCHANGED request
  BY <1>1, HelperNone DEF brokerVars
<1>6. CASE Raises(r)
  BY <1>1, <1>2, <1>4, <1>6, RecoversInv
<1>7. CASE (Goes(r, "write") /\ helper[r].pc = "forget") \/ Goes(r, "back_write")
  <2>1. PICK pc \in {"write", "back_write"} :
           Moves(r, pc, None) /\ (pc = "write" => helper[r].pc = "forget")
    BY <1>1, <1>2, <1>7, GoesMoves
  <2>2. Forward(r)' /\ Back(r)' /\ ~NotBegun(r)'
    BY <1>5, <2>1 DEF Forward, Back, Concluded, NotBegun, Moves
  <2>3. pc = "write" => Untouched(r)
    BY <2>1 DEF Untouched
  <2> QED
    BY <1>1, <1>2, <1>3, <1>4, <1>5, <2>1, <2>2, <2>3, HeldInv
<1>8. CASE Concludes(r, "complete") /\ helper[r].pc = "cleanup"
  <2>1. Moves(r, "notify", "complete")
    BY <1>1, <1>8, ConcludesMoves DEF Outcomes
  <2>2. Steady' /\ latest' = Pinned(r).sid /\ Pinned(r)' = Pinned(r)
    BY <1>1, <1>3, <1>4, <1>5, <1>8 DEF Forward, Pinned, Action
  <2>3. Forward(r)' /\ Back(r)' /\ ~NotBegun(r)'
    BY <2>1, <2>2 DEF Forward, Back, Concluded, NotBegun, Moves
  <2> QED
    BY <1>1, <1>2, <1>3, <1>4, <1>5, <2>1, <2>2, <2>3, HeldInv
<1> QED
  BY <1>6, <1>7, <1>8 DEF RemoveReceipt

LEMMA NotifyInv ==
    ASSUME ResetInv, NEW r \in Requests, Notify(r)
    PROVE  ResetInv'
<1>1. /\ ResetTypes /\ LockHeld /\ ServiceKnown /\ Phases /\ SteadyKept
      /\ helper[r].pc = "notify" /\ helper[r].outcome # None /\ (Mishap \/ Works)
      /\ UNCHANGED <<brokerVars, bootVars, serviceVars, lock, receipts, executed>>
  BY DEF ResetInv, Notify, LockHeld, Concluded
<1>2. helper[r].pc \in Held /\ PastClaim(r) /\ "finish" \in Held /\ "finish" \in ModelSteps
      /\ "finish" \in Steps
  BY <1>1 DEF PastClaim, Held, Steps, ModelSteps
<1>3. Moves(r, "finish", helper[r].outcome) /\ Keeps(r)
  BY <1>1, <1>2, GoesMoves DEF Notify
<1>4. told' \in [Requests -> Outcomes]
  BY <1>1 DEF Notify, ResetTypes, Helpers
<1>5. BootTypes' /\ ServiceKnown' /\ (Steady' <=> Steady) /\ UNCHANGED request
  BY <1>1, BootStays DEF ResetTypes, BootTypes, serviceVars, brokerVars
<1>6. NotBegun(r)' => NotBegun(r)
  BY <1>3 DEF NotBegun, Moves
<1>7. IF r \in SessionJobs THEN Forward(r)' /\ Back(r)' ELSE Switch(r)'
  <2>1. IF r \in SessionJobs THEN Forward(r) /\ Back(r) ELSE Switch(r)
    BY <1>1, <1>2 DEF Phases
  <2>2. Pinned(r)' = Pinned(r) /\ Previous(r)' = Previous(r)
    BY <1>5 DEF Pinned, Previous, Action
  <2> QED
    BY <1>1, <1>3, <1>5, <2>1, <2>2
       DEF Forward, Back, Switch, Concluded, Moves, Keeps, bootVars, serviceVars
<1>8. \/ helper[r].outcome = "manual" \/ Untouched(r)
      \/ r \in SessionJobs /\ helper[r].outcome # "unchanged"
  BY DEF Untouched
<1> QED
  BY <1>1, <1>2, <1>3, <1>4, <1>5, <1>6, <1>7, <1>8, HeldInv

LEMMA PinnedTyped ==
    ASSUME ResetTypes, RequestsKept, NEW r \in SessionJobs
    PROVE  /\ Pinned(r) \in Units /\ Pinned(r).mode # "continue" /\ Pinned(r).sid \in Sessions
           /\ Previous(r) \in Units /\ Previous(r).mode # "continue"
           /\ Previous(r).sid = request[r].named /\ request[r].named \in Sessions
<1>1. r \in Requests /\ request[r] \in Contents /\ Action(r) = request[r].action
  BY DEF SessionJobs, Action, ResetTypes, BrokerTypeOK
<1>2. Action(r) # "reset" => request[r].target \in Sessions
  BY <1>1 DEF SessionJobs, RequestsKept
<1>3. Fresh[r] \in Sessions /\ request[r].named \in Sessions
  BY <1>1, HelperNames DEF Contents
<1> QED
  BY <1>2, <1>3 DEF Pinned, Previous, Units

\* What a write puts on disk.
LEMMA FilesWritten ==
    ASSUME ResetInv, NEW r \in Requests, helper[r].pc \in DOMAIN AfterWrite
    PROVE  LET w == Written(r) pc == helper[r].pc IN
           /\ w[1] \in Units /\ w[2] \in Models \cup {None}
           /\ r \in SessionJobs =>
                /\ w[2] = menv
                /\ pc = "write" => w[1] = Pinned(r)
                /\ pc = "back_write" => w[1] = Previous(r)
                /\ pc \notin {"write", "back_write"} => w[1] = Continue
           /\ r \notin SessionJobs =>
                /\ w[1] = unit /\ pc \in {"write", "back_write"}
                /\ w[2] = IF pc = "write" THEN request[r].target ELSE helper[r].env
<1>1. /\ ResetTypes /\ RequestsKept /\ LockHeld /\ unit \in Units /\ menv \in Models \cup {None}
      /\ helper[r].pc \in {"write", "back_write", "restore", "back_restore", "undo_write"}
  BY DEF ResetInv, ResetTypes, BootTypes, AfterWrite
<1>2. helper[r].pc \in Held
  BY <1>1 DEF Held, Steps
<1>3. CASE r \in SessionJobs
  BY <1>1, <1>3, PinnedTyped DEF Written, Rewritten, Units
<1>4. CASE r \notin SessionJobs
  <2>1. Action(r) = "model" /\ helper[r].pc \in {"write", "back_write"}
    BY <1>1, <1>2, <1>4 DEF LockHeld, ModelSteps
  <2>2. request[r].target \in Models \cup {None} /\ helper[r].env \in Models \cup {None}
    BY <1>1, <2>1 DEF RequestsKept, ResetTypes, Helpers
  <2> QED
    BY <1>1, <1>4, <2>1, <2>2 DEF Written, Rewritten, ModelSet
<1> QED
  BY <1>3, <1>4

LEMMA WriteInv ==
    ASSUME ResetInv, NEW r \in Requests, Write(r)
    PROVE  ResetInv'
<1> DEFINE w == Written(r)
<1>1. /\ ResetTypes /\ LockHeld /\ ServiceKnown /\ Phases /\ RequestsKept
      /\ helper[r].pc \in {"write", "back_write", "restore", "back_restore", "undo_write"}
      /\ helper[r].outcome = None /\ (Mishap \/ Works)
      /\ UNCHANGED <<brokerVars, loaded, serviceVars, lock, receipts, told>>
      /\ executed' \in {executed, executed \cup {r}}
  BY DEF ResetInv, Write, AfterWrite, LockHeld
<1>2. /\ helper[r].pc \in Held /\ PastClaim(r)
      /\ {"restart", "back_restart", "reload", "back_reload", "undo_reload"} \subseteq Held
      /\ {"restart", "back_restart"} \subseteq ModelSteps /\ Held \subseteq Steps
  BY <1>1 DEF PastClaim, Held, Steps, ModelSteps
<1>3. /\ w[1] \in Units /\ w[2] \in Models \cup {None}
      /\ r \in SessionJobs =>
           /\ w[2] = menv
           /\ helper[r].pc = "write" => w[1] = Pinned(r)
           /\ helper[r].pc = "back_write" => w[1] = Previous(r)
           /\ helper[r].pc \notin {"write", "back_write"} => w[1] = Continue
      /\ r \notin SessionJobs =>
           /\ w[1] = unit /\ helper[r].pc \in {"write", "back_write"}
           /\ w[2] = IF helper[r].pc = "write" THEN request[r].target ELSE helper[r].env
  BY FilesWritten DEF Write
<1>4. ASSUME Puts(<<unit, menv>>) \/ Puts(w)
      PROVE  /\ BootTypes' /\ ServiceKnown' /\ unit' \in {unit, w[1]}
             /\ r \notin SessionJobs => (Steady => Steady')
  <2>1. unit' \in {unit, w[1]} /\ menv' \in {menv, w[2]}
    BY <1>4 DEF Puts
  <2> HIDE DEF w
  <2> QED
    BY <1>1, <1>3, <2>1 DEF ResetTypes, BootTypes, ServiceKnown, Steady, serviceVars
<1>5. None \notin {"complete", "restored", "manual", "unchanged"} /\ UNCHANGED request
  BY <1>1, HelperNone DEF brokerVars
<1>6. CASE (\E files \in {<<unit, menv>>, w} : Puts(files)) /\ Raises(r)
  <2>1. Puts(<<unit, menv>>) \/ Puts(w)
    BY <1>6
  <2> QED
    BY <1>1, <1>2, <1>4, <1>6, <2>1, RecoversInv
<1>7. CASE Puts(w) /\ Goes(r, AfterWrite[helper[r].pc])
  <2>1. PICK pc \in {"restart", "back_restart", "reload", "back_reload", "undo_reload"} :
           /\ pc = AfterWrite[helper[r].pc]
           /\ pc = "restart" => helper[r].pc = "write"
           /\ pc = "back_restart" => helper[r].pc = "back_write"
           /\ pc = "reload" => helper[r].pc = "restore"
           /\ pc = "back_reload" => helper[r].pc = "back_restore"
           /\ helper[r].pc \in {"write", "back_write"} => pc \in {"restart", "back_restart"}
    BY <1>1 DEF AfterWrite
  <2>2. Moves(r, pc, None) /\ Keeps(r) /\ unit' = w[1] /\ menv' = w[2]
    BY <1>1, <1>2, <1>7, <2>1, GoesMoves DEF Puts
  <2>3. ~NotBegun(r)'
    BY <1>5, <2>1, <2>2 DEF NotBegun, Moves
  <2> HIDE DEF w
  <2>4. Pinned(r)' = Pinned(r) /\ Previous(r)' = Previous(r)
    BY <1>5 DEF Pinned, Previous, Action
  <2>5. IF r \in SessionJobs THEN Forward(r)' /\ Back(r)' ELSE Switch(r)'
    <3>1. CASE r \in SessionJobs
      <4>1. Forward(r) /\ Back(r)
        BY <1>1, <1>2, <3>1 DEF Phases
      <4> QED
        BY <1>1, <1>3, <1>5, <2>1, <2>2, <2>4, <3>1, <4>1
           DEF Forward, Back, Concluded, Moves, serviceVars
    <3>2. CASE r \notin SessionJobs
      BY <1>3, <1>5, <2>1, <2>2, <3>2 DEF Switch, Concluded, Moves, Keeps
    <3> QED
      BY <3>1, <3>2
  <2>6. r \notin SessionJobs => Untouched(r) /\ pc \in ModelSteps
    BY <1>2, <1>3, <2>1 DEF Untouched
  <2>7. BootTypes' /\ ServiceKnown' /\ (r \notin SessionJobs => (Steady => Steady'))
    BY <1>4, <1>7
  <2>8. told' \in [Requests -> Outcomes]
    BY <1>1 DEF ResetTypes
  <2> QED
    BY <1>1, <1>2, <1>5, <2>1, <2>2, <2>3, <2>5, <2>6, <2>7, <2>8, HeldInv
<1> QED
  BY <1>6, <1>7 DEF Write

\* What booting makes of the service.
LEMMA BootsKnown ==
    ASSUME BootTypes, NEW u \in Units, NEW m \in Models \cup {None}, Boots(u, m)
    PROVE  /\ service' \in Services /\ service' # None /\ service'.model = m
           /\ latest' \in Sessions /\ ServiceKnown'
           /\ latest' = IF u.mode = "continue" THEN latest ELSE u.sid
<1> DEFINE sid == IF u.mode = "continue" THEN latest ELSE u.sid
           v == [arg |-> u, sid |-> sid, model |-> m, ready |-> FALSE]
<1>1. sid \in Sessions /\ (u.mode # "continue" => sid = u.sid)
  BY DEF BootTypes, Units, Continue
<1>2. service' = v /\ latest' = sid
  BY DEF Boots
<1> HIDE DEF sid
<1>3. v \in Services /\ v.model = m /\ v.sid = sid /\ v.arg = u
  BY <1>1 DEF Services
<1>4. v # None
  BY <1>3, HelperNone
<1> HIDE DEF v
<1>5. ServiceKnown'
  BY <1>1, <1>2, <1>3 DEF ServiceKnown
<1> QED
  BY <1>1, <1>2, <1>3, <1>4, <1>5 DEF sid

LEMMA RestartInv ==
    ASSUME ResetInv, NEW r \in Requests, Restart(r)
    PROVE  ResetInv'
<1>1. /\ ResetTypes /\ LockHeld /\ ServiceKnown /\ Phases /\ RequestsKept
      /\ helper[r].pc \in {"restart", "back_restart"} /\ helper[r].outcome = None
      /\ (Mishap \/ Works) /\ executed' = executed
      /\ UNCHANGED <<brokerVars, unit, menv, attested, lock, receipts, executed, told>>
  BY DEF ResetInv, Restart, LockHeld
<1>2. /\ helper[r].pc \in Held /\ PastClaim(r) /\ {"wait", "back_wait"} \subseteq Held
      /\ {"wait", "back_wait"} \subseteq ModelSteps /\ Held \subseteq Steps
  BY <1>1 DEF PastClaim, Held, Steps, ModelSteps
<1>3. /\ unit \in Units /\ menv \in Models \cup {None} /\ BootTypes
      /\ told' \in [Requests -> Outcomes]
  BY <1>1 DEF ResetTypes, BootTypes
<1>4. loaded' \in {loaded, unit}
  BY DEF Restart
<1>5. \/ Boots(unit, menv) \/ UNCHANGED <<service, latest>> \/ (service' = None /\ UNCHANGED latest)
  BY DEF Restart
<1>6. BootTypes' /\ ServiceKnown' /\ (Steady => Steady')
  BY <1>1, <1>3, <1>4, <1>5, BootsKnown DEF BootTypes, ServiceKnown, Steady
<1>7. CASE Raises(r)
  BY <1>1, <1>2, <1>6, <1>7, RecoversInv
<1>8. CASE loaded' = unit /\ Boots(unit, menv)
           /\ Goes(r, IF helper[r].pc = "restart" THEN "wait" ELSE "back_wait")
  <2>1. PICK pc \in {"wait", "back_wait"} :
           /\ Moves(r, pc, None) /\ Keeps(r)
           /\ pc = "wait" <=> helper[r].pc = "restart"
    BY <1>1, <1>2, <1>8, GoesMoves
  <2>2. None # "unchanged" /\ None # "complete" /\ None # "restored" /\ UNCHANGED request
    BY <1>1, HelperNone DEF brokerVars
  <2>3. ~NotBegun(r)'
    BY <2>1, <2>2 DEF NotBegun, Moves
  <2>4. Pinned(r)' = Pinned(r) /\ Previous(r)' = Previous(r)
    BY <2>2 DEF Pinned, Previous, Action
  <2>5. IF r \in SessionJobs THEN Forward(r) /\ Back(r) ELSE Switch(r)
    BY <1>1, <1>2 DEF Phases
  <2>6. IF r \in SessionJobs THEN Forward(r)' /\ Back(r)' ELSE Switch(r)'
    BY <1>1, <1>8, <2>1, <2>2, <2>4, <2>5
       DEF Forward, Back, Switch, Concluded, Moves, Keeps
  <2>7. r \notin SessionJobs => Untouched(r)
    BY DEF Untouched
  <2> QED
    BY <1>1, <1>2, <1>3, <1>6, <2>1, <2>2, <2>3, <2>6, <2>7, HeldInv
<1> QED
  BY <1>7, <1>8 DEF Restart

LEMMA WaitInv ==
    ASSUME ResetInv, NEW r \in Requests, Wait(r)
    PROVE  ResetInv'
<1>1. /\ ResetTypes /\ LockHeld /\ ServiceKnown /\ Phases /\ RequestsKept
      /\ helper[r].pc \in {"wait", "back_wait"} /\ helper[r].outcome = None
      /\ (Mishap \/ Works) /\ executed' = executed
      /\ UNCHANGED <<brokerVars, bootVars, serviceVars, lock, receipts, executed, told>>
  BY DEF ResetInv, Wait, LockHeld, Works
<1>2. /\ helper[r].pc \in Held /\ PastClaim(r)
      /\ {"restore", "back_restore", "notify"} \subseteq Held
      /\ "notify" \in ModelSteps /\ Held \subseteq Steps
  BY <1>1 DEF PastClaim, Held, Steps, ModelSteps
<1>3. /\ BootTypes' /\ ServiceKnown' /\ (Steady' <=> Steady) /\ told' \in [Requests -> Outcomes]
      /\ UNCHANGED <<request, unit, loaded, menv, service, latest>>
  BY <1>1, BootStays DEF ResetTypes, BootTypes, serviceVars, bootVars, brokerVars
<1>4. IF r \in SessionJobs THEN Forward(r) /\ Back(r) ELSE Switch(r)
  BY <1>1, <1>2 DEF Phases
<1>5. /\ Pinned(r)' = Pinned(r) /\ Previous(r)' = Previous(r)
      /\ None \notin {"complete", "restored", "manual", "unchanged"}
  BY <1>3, HelperNone DEF Pinned, Previous, Action
<1>6. CASE Raises(r)
  BY <1>1, <1>2, <1>3, <1>6, RecoversInv
<1>7. CASE Healthy(r) /\ r \in SessionJobs
           /\ \/ helper[r].pc = "wait" /\ Goes(r, "restore")
              \/ helper[r].pc = "back_wait" /\ Goes(r, "back_restore")
  <2>1. PICK pc \in {"restore", "back_restore"} :
           /\ Moves(r, pc, None)
           /\ pc = "restore" <=> helper[r].pc = "wait"
    BY <1>1, <1>2, <1>7, GoesMoves
  <2>2. service # None /\ service.arg = IF pc = "restore" THEN Pinned(r) ELSE Previous(r)
    BY <1>1, <1>7, <2>1 DEF Healthy, Expected
  <2>3. latest = IF pc = "restore" THEN Pinned(r).sid ELSE request[r].named
    BY <1>1, <1>7, <2>2, PinnedTyped DEF ServiceKnown
  <2>4. ~NotBegun(r)'
    BY <1>5, <2>1 DEF NotBegun, Moves
  <2>5. Forward(r)' /\ Back(r)'
    BY <1>3, <1>4, <1>5, <1>7, <2>1, <2>3 DEF Forward, Back, Concluded, Moves
  <2> QED
    BY <1>1, <1>2, <1>3, <1>5, <1>7, <2>1, <2>4, <2>5, HeldInv
<1>8. CASE Healthy(r) /\ r \notin SessionJobs
           /\ \/ helper[r].pc = "wait" /\ Concludes(r, "complete")
              \/ helper[r].pc = "back_wait" /\ Concludes(r, "restored")
  <2>1. PICK o \in {"complete", "restored"} :
           /\ Moves(r, "notify", o) /\ Keeps(r)
           /\ o = "complete" <=> helper[r].pc = "wait"
    BY <1>1, <1>8, ConcludesMoves DEF Outcomes
  <2>2. service # None /\ service.model = menv
        /\ menv = IF o = "complete" THEN request[r].target ELSE helper[r].env
    BY <1>1, <1>4, <1>8, <2>1 DEF Healthy, Switch
  <2>3. ~NotBegun(r)' /\ Untouched(r)
    BY <1>8, <2>1 DEF NotBegun, Moves, Untouched
  <2>4. Switch(r)'
    BY <1>3, <2>1, <2>2 DEF Switch, Concluded, Moves, Keeps
  <2> QED
    BY <1>1, <1>2, <1>3, <1>5, <1>8, <2>1, <2>3, <2>4, HeldInv
<1> QED
  BY <1>1, <1>6, <1>7, <1>8 DEF Wait, TimesOut

LEMMA ReloadInv ==
    ASSUME ResetInv, NEW r \in Requests, Reload(r)
    PROVE  ResetInv'
<1>1. /\ ResetTypes /\ LockHeld /\ ServiceKnown /\ Phases /\ RequestsKept
      /\ helper[r].pc \in {"reload", "back_reload", "undo_reload"} /\ helper[r].outcome = None
      /\ (Mishap \/ Works) /\ executed' = executed /\ loaded' \in {loaded, unit}
      /\ UNCHANGED <<brokerVars, unit, menv, serviceVars, lock, receipts, executed, told>>
  BY DEF ResetInv, Reload, Reloaded, LockHeld
<1>2. /\ helper[r].pc \in Held /\ PastClaim(r) /\ r \in SessionJobs
      /\ {"check", "back_check", "notify"} \subseteq Held /\ Held \subseteq Steps
  BY <1>1 DEF PastClaim, Held, Steps, ModelSteps, LockHeld
<1>3. /\ BootTypes' /\ ServiceKnown' /\ told' \in [Requests -> Outcomes]
      /\ UNCHANGED <<request, unit, latest>>
  BY <1>1 DEF ResetTypes, BootTypes, ServiceKnown, serviceVars, brokerVars
<1>4. Forward(r) /\ Back(r)
  BY <1>1, <1>2 DEF Phases
<1>5. /\ Pinned(r)' = Pinned(r) /\ Previous(r)' = Previous(r)
      /\ None \notin {"complete", "restored", "manual", "unchanged"}
  BY <1>3, HelperNone DEF Pinned, Previous, Action
<1>6. CASE Raises(r)
  BY <1>1, <1>2, <1>3, <1>6, RecoversInv
<1>7. CASE loaded' = unit /\ \/ helper[r].pc = "reload" /\ Goes(r, "check")
                             \/ helper[r].pc = "back_reload" /\ Goes(r, "back_check")
  <2>1. PICK pc \in {"check", "back_check"} :
           /\ Moves(r, pc, None)
           /\ pc = "check" <=> helper[r].pc = "reload"
    BY <1>1, <1>2, <1>7, GoesMoves
  <2>2. Steady' /\ latest' = IF pc = "check" THEN Pinned(r).sid ELSE request[r].named
    BY <1>1, <1>3, <1>4, <1>7, <2>1 DEF Steady, Forward, Back
  <2>3. ~NotBegun(r)'
    BY <1>5, <2>1 DEF NotBegun, Moves
  <2>4. Forward(r)' /\ Back(r)'
    BY <1>3, <1>5, <2>1, <2>2 DEF Forward, Back, Concluded, Moves
  <2> QED
    BY <1>1, <1>2, <1>3, <1>5, <2>1, <2>2, <2>3, <2>4, HeldInv
<1>8. CASE Concludes(r, "manual")
  <2>1. Moves(r, "notify", "manual")
    BY <1>1, <1>8, ConcludesMoves DEF Outcomes
  <2>2. ~NotBegun(r)'
    BY <2>1 DEF NotBegun, Moves
  <2>3. Forward(r)' /\ Back(r)'
    BY <2>1 DEF Forward, Back, Concluded, Moves
  <2> QED
    BY <1>1, <1>2, <1>3, <1>5, <2>1, <2>2, <2>3, HeldInv
<1> QED
  BY <1>1, <1>6, <1>7, <1>8 DEF Reload, Reloaded

LEMMA CheckInv ==
    ASSUME ResetInv, NEW r \in Requests, Check(r)
    PROVE  ResetInv'
<1>1. /\ ResetTypes /\ LockHeld /\ ServiceKnown /\ Phases /\ RequestsKept
      /\ helper[r].pc \in {"check", "back_check"} /\ helper[r].outcome = None
      /\ (Mishap \/ Works) /\ executed' = executed
      /\ UNCHANGED <<brokerVars, bootVars, serviceVars, lock, receipts, executed, told>>
  BY DEF ResetInv, Check, LockHeld
<1>2. /\ helper[r].pc \in Held /\ PastClaim(r) /\ r \in SessionJobs
      /\ {"cleanup", "notify"} \subseteq Held /\ Held \subseteq Steps
  BY <1>1 DEF PastClaim, Held, Steps, ModelSteps, LockHeld
<1>3. /\ BootTypes' /\ ServiceKnown' /\ (Steady' <=> Steady) /\ told' \in [Requests -> Outcomes]
      /\ UNCHANGED <<request, unit, loaded, latest>>
  BY <1>1, BootStays DEF ResetTypes, BootTypes, serviceVars, bootVars, brokerVars
<1>4. Forward(r) /\ Back(r)
  BY <1>1, <1>2 DEF Phases
<1>5. /\ Pinned(r)' = Pinned(r) /\ Previous(r)' = Previous(r)
      /\ None \notin {"complete", "restored", "manual", "unchanged"}
  BY <1>3, HelperNone DEF Pinned, Previous, Action
<1>6. CASE Raises(r)
  BY <1>1, <1>2, <1>3, <1>6, RecoversInv
<1>7. CASE \/ helper[r].pc = "back_check" /\ Concludes(r, "restored")
           \/ helper[r].pc = "check" /\ Goes(r, "cleanup")
           \/ helper[r].pc = "check" /\ Concludes(r, "complete")
  <2>1. \E pc \in {"cleanup", "notify"}, o \in {None, "complete", "restored"} :
           /\ Moves(r, pc, o)
           /\ pc = "cleanup" <=> o = None
           /\ o = "restored" <=> helper[r].pc = "back_check"
    BY <1>1, <1>2, <1>5, <1>7, GoesMoves, ConcludesMoves DEF Outcomes
  <2>2. PICK pc \in {"cleanup", "notify"}, o \in {None, "complete", "restored"} :
           /\ Moves(r, pc, o)
           /\ pc = "cleanup" <=> o = None
           /\ o = "restored" <=> helper[r].pc = "back_check"
    BY <2>1
  <2>3. Steady /\ latest = IF o = "restored" THEN request[r].named ELSE Pinned(r).sid
    BY <1>1, <1>4, <2>2 DEF Forward, Back
  <2>4. ~NotBegun(r)'
    BY <1>5, <2>2 DEF NotBegun, Moves
  <2>5. Forward(r)' /\ Back(r)'
    BY <1>3, <1>5, <2>2, <2>3 DEF Forward, Back, Concluded, Moves
  <2> QED
    BY <1>1, <1>2, <1>3, <1>5, <2>2, <2>3, <2>4, <2>5, HeldInv
<1> QED
  BY <1>1, <1>6, <1>7 DEF Check
----------------------------------------------------------------------------
(* The service *)

\* What the service does by itself: it comes up, or is booted again with what
\* is loaded.
LEMMA ServiceInv ==
    ASSUME ResetInv, UNCHANGED <<brokerVars, bootVars, lock, receipts, helper, executed, told>>,
           BootTypes', ServiceKnown', mishaps' \in 0..MaxMishaps,
           latest' = latest \/ (loaded.mode # "continue" /\ latest' = loaded.sid),
           service # None => service' # None /\ (service.model = menv => service'.model = menv)
    PROVE  ResetInv'
<1>1. /\ ResetTypes /\ RequestsKept /\ LockHeld /\ ServiceKnown /\ Phases /\ SteadyKept
      /\ ReceiptsKept
  BY DEF ResetInv
<1>2. /\ UNCHANGED <<clock, request, read, granted, stamps, broker, active>>
      /\ UNCHANGED <<unit, loaded, menv, lock, receipts, helper, executed, told>>
  BY DEF brokerVars, bootVars
<1>3. ResetTypes'
  BY <1>1, <1>2 DEF ResetTypes, BrokerTypeOK
<1>4. RequestsKept' /\ LockHeld' /\ ReceiptsKept'
  <2>1. RequestsKept'
    BY <1>1, <1>2 DEF RequestsKept, Action
  <2>2. LockHeld'
    BY <1>1, <1>2 DEF LockHeld, Action, SessionJobs, Concluded
  <2>3. ReceiptsKept'
    BY <1>1, <1>2, ReceiptsStay DEF PastClaim, NotBegun
  <2> QED
    BY <2>1, <2>2, <2>3
<1>5. SteadyKept'
  BY <1>1, <1>2 DEF SteadyKept, Broken, Steady, Untouched, SessionJobs, Action
<1>6. ASSUME NEW r \in Requests, helper'[r].pc \in Held
      PROVE  IF r \in SessionJobs' THEN Forward(r)' /\ Back(r)' ELSE Switch(r)'
  <2>1. /\ Pinned(r)' = Pinned(r) /\ Previous(r)' = Previous(r)
        /\ SessionJobs' = SessionJobs /\ helper[r].pc \in Held
    BY <1>2, <1>6 DEF Pinned, Previous, Action, SessionJobs
  <2>2. CASE r \in SessionJobs
    <3>1. Forward(r) /\ Back(r) /\ Pinned(r).mode # "continue" /\ Previous(r).mode # "continue"
          /\ Previous(r).sid = request[r].named /\ Continue.mode = "continue"
      BY <1>1, <2>1, <2>2, PinnedTyped DEF Phases, Continue
    <3>2. Steady => latest' = latest
      BY <3>1 DEF Steady
    <3>3. loaded = Pinned(r) /\ latest = Pinned(r).sid => latest' = latest
      BY <3>1
    <3>4. loaded = Previous(r) /\ latest = request[r].named => latest' = latest
      BY <3>1
    <3>5. Steady' <=> Steady
      BY <1>2 DEF Steady
    <3>6. Forward(r)'
      BY <1>2, <2>1, <3>1, <3>2, <3>3, <3>5 DEF Forward, Concluded
    <3>7. Back(r)'
      BY <1>2, <2>1, <3>1, <3>2, <3>4, <3>5 DEF Back, Concluded
    <3> QED
      BY <2>1, <2>2, <3>6, <3>7
  <2>3. CASE r \notin SessionJobs
    <3>1. Switch(r)
      BY <1>1, <2>1, <2>3 DEF Phases
    <3> QED
      BY <1>2, <2>1, <2>3, <3>1 DEF Switch, Concluded
  <2> QED
    BY <2>2, <2>3
<1>7. Phases'
  BY <1>6 DEF Phases
<1> QED
  BY <1>3, <1>4, <1>5, <1>7 DEF ResetInv

LEMMA ReadyInv ==
    ASSUME ResetInv, ServiceReady
    PROVE  ResetInv'
<1>1. /\ ResetTypes /\ ServiceKnown /\ service \in Services /\ latest \in Sessions
      /\ mishaps' \in 0..MaxMishaps
      /\ UNCHANGED <<brokerVars, bootVars, latest, lock, receipts, helper, executed, told>>
  BY DEF ResetInv, ServiceReady, ResetTypes, BootTypes
<1> DEFINE v == [service EXCEPT !.ready = TRUE]
<1>2. /\ v \in Services /\ v.sid = service.sid /\ v.arg = service.arg /\ v.model = service.model
      /\ service.sid \in Sessions
  BY <1>1 DEF Services
<1>3. service' = v /\ v # None
  BY <1>2, HelperNone DEF ServiceReady
<1> HIDE DEF v
<1>4. attested' \subseteq Sessions
  BY <1>1, <1>2 DEF ServiceReady, ResetTypes, BootTypes
<1>5. BootTypes' /\ ServiceKnown'
  BY <1>1, <1>2, <1>3, <1>4 DEF ResetTypes, BootTypes, ServiceKnown, ServiceReady, bootVars
<1> QED
  BY <1>1, <1>2, <1>3, <1>5, ServiceInv

LEMMA RestartsInv ==
    ASSUME ResetInv, ServiceRestarts
    PROVE  ResetInv'
<1>1. /\ ResetTypes /\ BootTypes /\ loaded \in Units /\ menv \in Models \cup {None}
      /\ UNCHANGED <<brokerVars, bootVars, attested, lock, receipts, helper, executed, told>>
      /\ Boots(loaded, menv) /\ (Mishap \/ Works)
  BY DEF ResetInv, ServiceRestarts, ResetTypes, BootTypes
<1>2. /\ service' \in Services /\ service' # None /\ service'.model = menv
      /\ latest' \in Sessions /\ ServiceKnown'
      /\ latest' = IF loaded.mode = "continue" THEN latest ELSE loaded.sid
  BY <1>1, BootsKnown
<1>3. BootTypes' /\ UNCHANGED menv
  BY <1>1, <1>2 DEF BootTypes, bootVars
<1>4. mishaps' \in 0..MaxMishaps
  BY <1>1, HelperNames DEF ResetTypes, Mishap, Works
<1> QED
  BY <1>1, <1>2, <1>3, <1>4, ServiceInv
----------------------------------------------------------------------------
(* The theorems *)

LEMMA ResetInit == Init => ResetInv
<1> SUFFICES ASSUME Init PROVE ResetInv
  OBVIOUS
<1>1. /\ \A r \in Requests : request[r] = None /\ broker[r] = "idle" /\ helper[r] = Idle
      /\ active = {} /\ BrokerTypeOK
  BY BrokerTypesInit DEF Init, BrokerInit
<1>2. Idle.pc = "idle" /\ Idle.outcome = None /\ Idle \in Helpers
  BY DEF Idle, Helpers, Steps, Outcomes
<1>3. Steady /\ Continue \in Units /\ Continue.mode = "continue"
  BY DEF Init, Steady, Units, Continue
<1> DEFINE v == [arg |-> Continue, sid |-> InitSession, model |-> None, ready |-> TRUE]
<1>4. v \in Services /\ v.sid = InitSession /\ v.arg = Continue /\ service = v
  BY <1>3, HelperNames DEF Services, Init
<1> HIDE DEF v
<1>5. helper \in [Requests -> Helpers] /\ told \in [Requests -> Outcomes]
  BY <1>2 DEF Init, Outcomes
<1>6. ResetTypes
  <2>1. /\ unit \in Units /\ loaded \in Units /\ menv = None /\ service \in Services
        /\ latest \in Sessions /\ attested = {}
    BY <1>3, <1>4, HelperNames DEF Init
  <2>2. BootTypes
    BY <2>1 DEF BootTypes
  <2>3. lock = None /\ executed = {} /\ mishaps \in 0..MaxMishaps
    BY HelperNames DEF Init
  <2> QED
    BY <1>1, <1>5, <2>2, <2>3 DEF ResetTypes
<1>7. \A r \in Requests : Action(r) = "none"
  BY <1>1 DEF Action
<1>8. RequestsKept
  BY <1>1, <1>2, <1>7 DEF RequestsKept
<1>9. LockHeld
  BY <1>1, <1>2, HelperNone DEF Init, LockHeld, Held, Steps, Concluded
<1>10. ServiceKnown
  BY <1>3, <1>4 DEF Init, ServiceKnown
<1>11. Phases
  BY <1>1, <1>2 DEF Phases, Held
<1>12. ReceiptsKept
  BY <1>1, <1>2 DEF Init, ReceiptsKept, PastClaim, Held, Steps
<1> QED
  BY <1>3, <1>6, <1>8, <1>9, <1>10, <1>11, <1>12 DEF ResetInv, SteadyKept

LEMMA StutterInv ==
    ASSUME ResetInv, UNCHANGED vars
    PROVE  ResetInv'
<1>1. /\ UNCHANGED <<clock, request, read, granted, stamps, broker, active>>
      /\ UNCHANGED <<unit, loaded, menv, service, latest, attested, lock, receipts, helper,
                     executed, told, mishaps>>
  BY DEF vars, brokerVars, helperVars, bootVars, serviceVars
<1>2. BootTypes' /\ ServiceKnown' /\ mishaps' \in 0..MaxMishaps
  BY <1>1 DEF ResetInv, ResetTypes, BootTypes, ServiceKnown
<1> QED
  BY <1>1, <1>2, ServiceInv DEF brokerVars, bootVars

LEMMA ResetStep ==
    ASSUME ResetInv, [Next]_vars
    PROVE  ResetInv'
<1>1. [BrokerNext]_brokerVars
  BY StepObeysBroker DEF ResetInv
<1>2. CASE UNCHANGED vars
  BY <1>2, StutterInv
<1>3. ASSUME NEW r \in Requests, Submit(r) \/ ((TakeTime(r) \/ Reserve(r)) /\ UNCHANGED helperVars)
      PROVE  ResetInv'
  BY <1>1, <1>3, SubmitInv
<1>4. ASSUME NEW r \in Requests, RunJob(r) PROVE ResetInv'
  BY <1>1, <1>4, RunInv
<1>5. ASSUME NEW r \in Requests, HelperStep(r) PROVE ResetInv'
  BY <1>5, KillInv, LockInv, ClaimInv, ReadInv, RemoveInv, WriteInv, RestartInv, WaitInv,
     ReloadInv, CheckInv, NotifyInv, FinishInv DEF HelperStep
<1>6. ASSUME NEW r \in Requests, Kill(r) PROVE ResetInv'
  BY <1>6, KillInv
<1>7. ASSUME NEW c \in receipts, ReceiptExpires(c) PROVE ResetInv'
  BY <1>7, ExpiresInv
<1>8. CASE ServiceReady
  BY <1>8, ReadyInv
<1>9. CASE ServiceRestarts
  BY <1>9, RestartsInv
<1> QED
  BY <1>2, <1>3, <1>4, <1>5, <1>6, <1>7, <1>8, <1>9 DEF Next

\* The helper's invariant: at each step of the one helper under the lock, what
\* is on disk, loaded and running; what an outcome it knows stands for; and a
\* receipt for every request id that was executed.
THEOREM HelperInvariant == Spec => []ResetInv
BY ResetInit, ResetStep, PTL DEF Spec

\* When no helper is at work the service is set to continue, on disk and
\* loaded, unless a helper was killed half-way or asked for manual recovery;
\* and every variable keeps its type.
THEOREM SteadyBetweenJobs == Spec => []SteadyWhenIdle
<1>1. ResetInv => SteadyWhenIdle
  <2> SUFFICES ASSUME ResetInv PROVE SteadyWhenIdle
    OBVIOUS
  <2>1. TypeOK
    <3>1. \A c \in receipts : /\ c.status \in {"in_progress", "complete", "failed"}
                              /\ \E r \in Requests : request[r] # None /\ c.id = RequestId(r)
      BY DEF ResetInv, ReceiptsKept, Statuses
    <3>2. \A r \in Requests : helper[r].pc \notin {"idle", "gone", "killed"} => r \in active
      BY DEF ResetInv, RequestsKept
    <3> QED
      BY <3>1, <3>2 DEF ResetInv, ResetTypes, BootTypes, Helpers, TypeOK
  <2>2. lock = None => ~\E r \in Requests : lock = r
    BY HelperNone
  <2> QED
    BY <2>1, <2>2 DEF ResetInv, SteadyKept, Broken, SteadyWhenIdle
<1> QED
  BY <1>1, HelperInvariant, PTL

\* No request id is executed twice while its receipt is kept, whatever is
\* redelivered, killed or fails.
THEOREM OnceOnly == Spec => []ExecutedOnce
<1>1. ResetInv => ExecutedOnce
  BY DEF ResetInv, ReceiptsKept, ResetTypes, ExecutedOnce
<1> QED
  BY <1>1, HelperInvariant, PTL

\* What each outcome the chat can be told stands for.
OutcomeHolds(r, o) ==
    CASE o = "complete" /\ r \in SessionJobs    -> Steady /\ latest = Pinned(r).sid
      [] o = "restored" /\ r \in SessionJobs    -> Steady /\ latest = request[r].named
      [] o = "complete" /\ r \notin SessionJobs -> menv = request[r].target /\ service.model = menv
      [] o = "restored" /\ r \notin SessionJobs -> menv = helper[r].env /\ service.model = menv
      [] o = "unchanged"                        -> r \notin executed
      [] OTHER                                  -> TRUE

LEMMA OutcomeMeans ==
    ASSUME ResetInv, NEW r \in Requests, helper[r].pc = "notify"
    PROVE  OutcomeHolds(r, helper[r].outcome)
<1> DEFINE o == helper[r].outcome
<1>1. helper[r].pc \in Held /\ Concluded(r)
  BY DEF Held, Steps, Concluded
<1>2. IF r \in SessionJobs THEN Forward(r) /\ Back(r) ELSE Switch(r)
  BY <1>1 DEF ResetInv, Phases
<1>3. o = "unchanged" => r \notin executed
  BY DEF ResetInv, ReceiptsKept, NotBegun
<1> QED
  BY <1>1, <1>2, <1>3 DEF OutcomeHolds, Forward, Back, Switch

LEMMA TellsNobodyElse ==
    ASSUME ResetTypes, [Next]_vars, NEW r \in Requests, told'[r] # told[r]
    PROVE  helper[r].pc = "notify" /\ told'[r] = helper[r].outcome
<1>1. ASSUME NEW q \in Requests, HelperStep(q), ~Notify(q) PROVE UNCHANGED told
  BY <1>1 DEF HelperStep, Work, Lock, Claim, Read, RemoveReceipt, Write, Restart, Wait, Reload,
     Check, Finish
<1>2. ASSUME NEW q \in Requests, Notify(q)
      PROVE  helper[r].pc = "notify" /\ told'[r] = helper[r].outcome
  BY <1>2 DEF Notify, ResetTypes
<1>3. ASSUME NEW q \in Requests, Submit(q) \/ ((TakeTime(q) \/ Reserve(q)) /\ UNCHANGED helperVars)
      PROVE  UNCHANGED told
  BY <1>3 DEF Submit, helperVars
<1>4. ASSUME NEW q \in Requests, RunJob(q) \/ Kill(q) PROVE UNCHANGED told
  BY <1>4 DEF RunJob, Kill
<1>5. ASSUME (\E c \in receipts : ReceiptExpires(c)) \/ ServiceReady \/ ServiceRestarts
             \/ UNCHANGED vars
      PROVE  UNCHANGED told
  BY <1>5 DEF ReceiptExpires, ServiceReady, ServiceRestarts, vars, helperVars
<1> QED
  BY <1>1, <1>2, <1>3, <1>4, <1>5 DEF Next

\* What the chat is told is so: after "complete" the service is on the target,
\* after "restored" on the session or the model before, and either way its
\* unit, on disk and loaded, continues from there; after "unchanged" nothing
\* it boots from was touched.
THEOREM OutcomesAreTrue == Spec => ToldTheTruth
<1>1. ASSUME ResetInv, [Next]_vars, NEW r \in Requests, told'[r] # told[r]
      PROVE  OutcomeHolds(r, told'[r])
  BY <1>1, OutcomeMeans, TellsNobodyElse DEF ResetInv
<1>2. ResetInv /\ [Next]_vars =>
        [\A r \in Requests : told'[r] # told[r] =>
           CASE told'[r] = "complete" /\ r \in SessionJobs    -> Steady /\ latest = Pinned(r).sid
             [] told'[r] = "restored" /\ r \in SessionJobs    -> Steady /\ latest = request[r].named
             [] told'[r] = "complete" /\ r \notin SessionJobs -> menv = request[r].target /\ service.model = menv
             [] told'[r] = "restored" /\ r \notin SessionJobs -> menv = helper[r].env /\ service.model = menv
             [] told'[r] = "unchanged"                        -> r \notin executed
             [] OTHER                                         -> TRUE]_vars
  BY <1>1 DEF OutcomeHolds
<1> QED
  BY <1>2, HelperInvariant, PTL DEF Spec, ToldTheTruth

=============================================================================
