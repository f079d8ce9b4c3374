--------------------------- MODULE ControlBroker ----------------------------
(***************************************************************************)
(* The root control broker (scripts/claude_code_control_broker.py).  Every *)
(* connection to its socket gets a process of its own, which handles one   *)
(* request: it counts the helper jobs under way, reads the clock, takes a   *)
(* slot in the mutation-rate file under a lock, and asks systemd to run    *)
(* the helper as a transient unit whose name is derived from the request.  *)
(* A slot is stamped with the time read before the wait for the lock.      *)
(***************************************************************************)
EXTENDS Naturals, FiniteSets

CONSTANTS
    Requests,       \* connections; two may carry the same request
    Messages,       \* inbound messages, and turns to review
    Sessions,
    Models,         \* what model.env may name; "inherit" is None
    None,
    Burst,          \* RATE_BURST
    Window,         \* RATE_WINDOW_SECONDS, in ticks
    Tolerance,      \* how far ahead of its own time a process takes a stamp
    MaxPending,     \* MAX_PENDING_JOBS
    MaxReviews,     \* MAX_PENDING_MEMORY_REVIEW_JOBS
    MaxClock        \* bound

Actions == {"reset", "resume", "model", "title", "memory-review"}

ASSUME BrokerBounds == /\ {Burst, Window, MaxPending, MaxReviews} \subseteq Nat \ {0}
                       /\ {Tolerance, MaxClock} \subseteq Nat
ASSUME BrokerRequests == IsFiniteSet(Requests) /\ None \notin Nat \cup Sessions \cup Models

VARIABLES
    clock,
    request,    \* [Requests -> what the connection asked for, or None]
    read,       \* [Requests -> time its process read, or None]
    granted,    \* [Requests -> time its slot is stamped with, or None]
    stamps,     \* the requests whose timestamps are in mutation-rate.json
    broker,     \* [Requests -> step of the connection's process]
    active      \* requests whose unit is activating or running

\* named: the session a request takes for current; target: the session to
\* resume, or the model to set.
Contents == [action : Actions, message : Messages, named : Sessions,
             target : Sessions \cup Models \cup {None}]

brokerVars == <<clock, request, read, granted, stamps, broker, active>>

BrokerSteps == {"idle", "counted", "timed", "reserved",
                "scheduled", "rejected"}

BrokerInit ==
    /\ clock = 0
    /\ request = [r \in Requests |-> None]
    /\ read = [r \in Requests |-> None]
    /\ granted = [r \in Requests |-> None]
    /\ stamps = {}
    /\ broker = [r \in Requests |-> "idle"]
    /\ active = {}

Replies(r, step) == broker' = [broker EXCEPT ![r] = step]

\* _request_id: what is hashed into the request id and the unit name.
RequestId(r) ==
    LET c == request[r] IN
    <<c.action, IF c.action = "title" THEN None ELSE c.message,
      IF c.action = "model" THEN c.target ELSE c.named>>

Action(r) == IF request[r] = None THEN "none" ELSE request[r].action
Reviews == {r \in Requests : Action(r) = "memory-review"}
\* Reviews have a quota of their own.
Admitted(action) ==
    IF action = "memory-review" THEN Cardinality(active \cap Reviews) < MaxReviews
                                ELSE Cardinality(active \ Reviews) < MaxPending

-----------------------------------------------------------------------------
Tick ==
    /\ clock < MaxClock
    /\ clock' = clock + 1
    /\ UNCHANGED <<request, read, granted, stamps, broker, active>>

\* A well-formed request c of the service user: count the jobs systemd
\* lists.  Counting may fail.
Count(r, c) ==
    /\ broker[r] = "idle"
    /\ request' = [request EXCEPT ![r] = c]
    /\ \/ Admitted(c.action) /\ Replies(r, "counted")
       \/ Replies(r, "rejected")
    /\ UNCHANGED <<clock, read, granted, stamps, active>>

\* The time of the request, read before the lock is waited for.
TakeTime(r) ==
    /\ broker[r] = "counted"
    /\ read' = [read EXCEPT ![r] = clock]
    /\ Replies(r, "timed")
    /\ UNCHANGED <<clock, request, granted, stamps, active>>

\* The timestamps in the window that ends at the time r read.
Recent(r) == {q \in stamps : granted[q] + Window > read[r]}

\* Under the lock: read the file, prune it, append the time read before,
\* replace it.  A stamp too far ahead of that time, and any failure before
\* the replacement, rejects the request.
Reserve(r) ==
    /\ broker[r] = "timed"
    /\ \/ /\ \A q \in stamps : granted[q] <= read[r] + Tolerance
          /\ Cardinality(Recent(r)) < Burst
          /\ granted' = [granted EXCEPT ![r] = read[r]]
          /\ stamps' = Recent(r) \cup {r}
          /\ Replies(r, "reserved")
       \/ Replies(r, "rejected") /\ UNCHANGED <<granted, stamps>>
    /\ UNCHANGED <<clock, request, read, active>>

\* systemd-run --no-block: systemd refuses a unit name in use, or fails; a
\* call that timed out may have started the job all the same.
Run(r) ==
    /\ broker[r] = "reserved"
    /\ \/ /\ \A q \in active : RequestId(q) # RequestId(r)
          /\ active' = active \cup {r}
          /\ Replies(r, "scheduled") \/ Replies(r, "rejected")
       \/ Replies(r, "rejected") /\ UNCHANGED active
    /\ UNCHANGED <<clock, request, read, granted, stamps>>

\* The helper process of r has ended; --collect unloads its unit.
JobEnds(r) ==
    /\ r \in active
    /\ active' = active \ {r}
    /\ UNCHANGED <<clock, request, read, granted, stamps, broker>>

BrokerNext ==
    \/ Tick
    \/ \E r \in Requests : \/ \E c \in Contents : Count(r, c)
                           \/ TakeTime(r) \/ Reserve(r) \/ Run(r)
                           \/ JobEnds(r)

BrokerSpec == BrokerInit /\ [][BrokerNext]_brokerVars

-----------------------------------------------------------------------------
(* Properties.                                                              *)

\* Shape of the rate file, the connections and the units.
BrokerTypeOK ==
    /\ clock \in Nat
    /\ request \in [Requests -> Contents \cup {None}]
    /\ {read, granted} \subseteq [Requests -> Nat \cup {None}]
    /\ stamps \subseteq Requests
    /\ broker \in [Requests -> BrokerSteps]
    /\ active \subseteq Requests

\* The slots stamped within Window - late ticks up to t.
TakenUntil(t, late) ==
    {r \in Requests : granted[r] # None /\ granted[r] <= t /\ t + late < granted[r] + Window}

\* "The broker permits at most 12 mutations per minute"
\* (session-control-mcp/README.md:156): no window of that length has more
\* stamps.  The code does not keep this.
RateLimited == \A t \in 0..clock : Cardinality(TakenUntil(t, 0)) <= Burst

\* What it keeps, with any number of connections at once: no window shorter
\* than the minute by the tolerated second has more.
RateBounded == \A t \in 0..clock : Cardinality(TakenUntil(t, Tolerance)) <= Burst

\* "... and four concurrent helper jobs" (ibid.).
JobsBounded == Cardinality(active \ Reviews) <= MaxPending
=============================================================================
