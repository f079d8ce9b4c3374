---------------------------- MODULE TurnDisclosure ----------------------------
(***************************************************************************)
(* The renderer process of one Claude session: turns bound by prompts and  *)
(* by background completions, their progress bubbles, and the end of a     *)
(* turn: one final answer, or one notice of a runtime failure              *)
(* (progress-disclosure.ts, wired in server.ts).                           *)
(*                                                                         *)
(* Hooks, timers, the transcript watcher and answers of Telegram are       *)
(* events of one JavaScript loop: each handler runs up to its await, and   *)
(* whatever an event makes ready to go on does so before the next event    *)
(* (Quiet).  A call is a handler that awaits: finishTurn, or the failure   *)
(* delivery that the watcher starts.  Telegram and Claude are external.    *)
(***************************************************************************)
EXTENDS ProgressBubble

CONSTANTS
    Calls,          \* handlers that may be waiting at once
    Errors, RateLimit,
    Configured,     \* outcomes of loading the configuration: subset of BOOLEAN
    MaxRetained, MaxActive,     \* MAX_RETAINED_TURNS, MAX_ACTIVE_BACKGROUND_TURNS
    MaxIncidents,
    MaxEvents       \* bound: hooks, expiries and failing calls

ASSUME DisclosureNames == /\ None \notin Errors \cup Flights /\ RateLimit \in Errors
                          /\ Configured \subseteq BOOLEAN /\ Configured # {}
                          /\ MaxRetained \in Nat \ {0} /\ MaxActive \in Nat
                          /\ MaxIncidents \in Nat /\ MaxEvents \in Nat

VARIABLES
    turns,      \* every turn ever bound, in the order of binding
    routes,     \* backgroundTaskRoutes and backgroundTaskAliases
    call,       \* [Calls -> what the handler waits for]
    typing,     \* [Chats -> the turn whose heartbeat runs, or 0]
    incidents,  \* runtimeIncidents: <<chat, error>> reserved
    telegram,   \* external: what the chat received for each turn
    used,       \* external: tool ids Claude has used
    events

vars == <<turns, routes, call, typing, incidents, telegram, used, events>>

Ids == DOMAIN turns
Live == {o \in Ids : turns[o].live}
Messages == {"none", "fits", "huge"}

Idle == [pc |-> "idle", turn |-> 0, hook |-> "Stop", error |-> None, message |-> "none",
         wait |-> 0, typed |-> FALSE, late |-> FALSE]
CallStates == [pc : {"idle", "grace", "drain", "answer", "fallback", "background", "notice"},
               turn : 0..MaxTurns, hook : Hooks, error : Errors \cup {None},
               message : Messages, wait : Nat, typed : BOOLEAN, late : BOOLEAN]

\* Bubbles carry the phase they were sent in; lost is set while the outcome of
\* the last edit is not known.
Received == [bubbles : Seq([phase : Phases, text : Texts, gone : BOOLEAN]), lost : BOOLEAN,
             answers : Nat, fallbacks : Nat, notices : Nat, from : Tasks \cup {None}]
Nothing(from) == [bubbles |-> <<>>, lost |-> FALSE, answers |-> 0, fallbacks |-> 0,
                  notices |-> 0, from |-> from]

Init ==
    /\ turns = <<>> /\ telegram = <<>> /\ routes = NoRoutes
    /\ call = [c \in Calls |-> Idle]
    /\ typing = [ch \in Chats |-> 0]
    /\ incidents = {} /\ used = {} /\ events = 0

-----------------------------------------------------------------------------
(* What handlers have in common.                                             *)

\* A call goes on when the flush it waits for has ended, or its grace.
Ready(c) == call[c].pc \in {"grace", "drain", "background"} /\ call[c].wait = 0
Quiet == \A c \in Calls : ~Ready(c)

\* A new handler takes a free place.
Free == CHOOSE c \in Calls : call[c] = Idle

Costs == events < MaxEvents /\ events' = events + 1

\* Calls that wait for the chain of turn o, after n of its flushes ended.
Advanced(o, n) ==
    [c \in Calls |-> IF call[c].turn = o /\ call[c].pc \in {"drain", "background"}
                     THEN [call[c] EXCEPT !.wait = IF @ > n THEN @ - n ELSE 0]
                     ELSE call[c]]

\* The structured-failure waiters of the turns in out are resolved.
Resolved(out) ==
    [c \in Calls |-> IF call[c].turn \in out /\ call[c].pc = "grace"
                     THEN [call[c] EXCEPT !.wait = 0] ELSE call[c]]

Silenced(out) == [ch \in Chats |-> IF typing[ch] \in out THEN 0 ELSE typing[ch]]

\* drop, then removal from the map; typing and the waiters go with it.
Retire(o) == [turns EXCEPT ![o] = [Dropped(@) EXCEPT !.live = FALSE]]

\* Mutant: after the await any turn will do.
AnyTurn(o) == TRUE

\* turns.get(key) === turn, asked again after every await.
StillBound(o) == o \in Live

-----------------------------------------------------------------------------
(* bindTurn.                                                                 *)

\* A new turn joins: the ones in out leave, then the oldest over the limits.
Bind(t, owned, out, from) ==
    LET n == Len(turns) + 1
        all == Append(owned, t)
        kept == (Live \ out) \cup {n}
        active == {o \in kept : IsActiveBackground(all[o])}
        over(S, max) == {o \in S : Cardinality({p \in S : p > o}) >= max}
        gone == out \cup over(active, MaxActive) \cup over(kept \ active, MaxRetained)
    IN  /\ n <= MaxTurns
        /\ turns' = [o \in 1..n |-> IF o \in gone
                                    THEN [Dropped(all[o]) EXCEPT !.live = FALSE] ELSE all[o]]
        /\ telegram' = Append(telegram, Nothing(from))
        /\ call' = Resolved(gone)
        /\ typing' = IF t.background THEN Silenced(gone)
                     ELSE [Silenced(gone) EXCEPT ![t.chat] = n]
        /\ UNCHANGED <<incidents, used>>

\* A prompt id is known by the first turn it bound; n + 1 is one not seen yet.
Keys == {o \in Ids : turns[o].key = o} \cup {Len(turns) + 1}
Keyed(key) == {o \in Live : turns[o].key = key}

\* A direct prompt retires the older direct turns of its chat.
BindPrompt(chat, key) ==
    /\ routes' = Prune(routes)
    /\ Bind(NewTurn(chat, key, FALSE, 0, None, TRUE), turns,
            Keyed(key) \cup {o \in Live : /\ turns[o].chat = chat
                                          /\ ~turns[o].background
                                          /\ ~IsActiveBackground(turns[o])}, None)

\* A prompt that binds nothing (a control command, a notification without a
\* route, a chat that is not allowed) still prunes the routes.
BindNothing ==
    /\ routes' = Prune(routes)
    /\ UNCHANGED <<turns, call, typing, incidents, telegram, used>>

\* The owner of route r of task k after the terminal notification for it.
Told(t, k, r, a, status) ==
    AgentEnds(TaskEnds(t, k), IF a \in r.aliases THEN a ELSE None, status)

\* A terminal task notification consumes the route it names and binds a turn
\* in the chat of that route.
BindCompletion(key, k, a, status) ==
    LET kept == Prune(routes)
        task == Named(kept, k, a)
    IN  /\ k # None \/ a # None
        /\ task # None
        /\ LET r == RouteOf(kept, task)
               owned == [turns EXCEPT ![r.owner] = IF @.live THEN Told(@, task, r, a, status) ELSE @]
           IN  /\ routes' = Forget(kept, {task})
               /\ Bind(NewTurn(r.chat, key, TRUE, r.depth, status, status = "failed"), owned,
                       Keyed(key), task)

-----------------------------------------------------------------------------
(* Tool and agent hooks, and the debounce timer.                             *)

Change(o, t) ==
    /\ turns' = [turns EXCEPT ![o] = t]
    /\ UNCHANGED <<call, typing, incidents, telegram>>

\* recordTool, recordSuccess and recordFailure of a tool without routes.
RecordTool(o) ==
    /\ o \in Live
    /\ Step(turns[o]) # turns[o]
    /\ Change(o, Step(turns[o])) /\ UNCHANGED <<routes, used>>

\* A new call has an id that was not used; which one makes no difference.
Fresh == CHOOSE k \in Tasks : k \notin used

\* recordTool of a Skill, Task or Agent call: it becomes a pending task of the
\* turn and gets a route, unless the turn is too deep itself.
RecordRouted(o, k) ==
    LET t == turns[o]
        routed == [t EXCEPT !.tasks = @ \cup {k}]
        route == [owner |-> o, chat |-> t.chat, depth |-> t.depth + 1,
                  made |-> Cardinality(used), aliases |-> {}, due |-> FALSE]
    IN  /\ o \in Live /\ k \notin used /\ k = Fresh
        /\ used' = used \cup {k}
        /\ IF t.depth < MaxDepth
           THEN routes' = Remember(routes, k, route) /\ Change(o, Step(routed))
           ELSE UNCHANGED routes /\ Change(o, Step(t))

\* recordSuccess of a call that was launched in the background as agent a.
RecordLaunched(o, k, a) ==
    /\ o \in Live /\ k \in used
    /\ routes' = NameTask(routes, k, a)
    /\ Change(o, Step(turns[o])) /\ UNCHANGED used

\* What a tool result of turn o makes of the turns: its route's owner learns
\* of the end of task k and agent a, and shows it if it is o, or if o itself
\* is not in its background phase.
Ended(o, owner, k, a) ==
    LET t == AgentEnds(TaskEnds(turns[owner], k), a, "killed")
        told == IF owner = o \/ turns[o].phase = "foreground" THEN t
                ELSE [t EXCEPT !.timer = turns[owner].timer]
        all == IF owner \in Live THEN [turns EXCEPT ![owner] = told] ELSE turns
    IN  [all EXCEPT ![o] = Step(@)]

\* recordSuccess of a call that ended in the foreground, and recordFailure.
RecordEnded(o, k) ==
    /\ o \in Live /\ k \in Routed(routes)
    /\ routes' = Forget(routes, {k})
    /\ turns' = Ended(o, RouteOf(routes, k).owner, k, None)
    /\ UNCHANGED <<call, typing, incidents, telegram, used>>

\* recordSuccess of TaskStop for the task id a.
RecordTaskStop(o, a) ==
    LET k == routes.alias[a] IN
    /\ o \in Live /\ k # None
    /\ routes' = Forget(routes, {k})
    /\ turns' = Ended(o, RouteOf(routes, k).owner, k, a)
    /\ UNCHANGED <<call, typing, incidents, telegram, used>>

RecordSubagentStart(o, a) ==
    /\ o \in Live /\ turns[o].depth < MaxDepth /\ turns[o].agents[a] = "absent"
    /\ Change(o, TouchBackground([turns[o] EXCEPT !.agents[a] = "running"]))
    /\ UNCHANGED <<routes, used>>

\* The end of a subagent is shown at once, without the debounce.
RecordSubagentStop(o, a) ==
    /\ o \in Live /\ turns[o].agents[a] = "running"
    /\ \E ok \in Configured :
          LET t == [turns[o] EXCEPT !.agents[a] = "completed"] IN
          Change(o, IF t.phase = "background"
                    THEN Enqueue([t EXCEPT !.timer = FALSE], ok) ELSE t)
    /\ UNCHANGED <<routes, used>>

Debounce(o) ==
    /\ Quiet /\ turns[o].timer
    /\ \E ok \in Configured : Change(o, Enqueue([turns[o] EXCEPT !.timer = FALSE], ok))
    /\ UNCHANGED <<routes, used, events>>

\* Six hours pass for a route, five minutes for an incident; a heartbeat ends
\* by itself when it is rejected or ten minutes old.
RouteExpires(k) ==
    /\ k \in Routed(routes) /\ ~RouteOf(routes, k).due
    /\ routes' = Expire(routes, k)
    /\ UNCHANGED <<turns, call, typing, incidents, telegram, used>>

IncidentExpires(i) ==
    /\ i \in incidents
    /\ incidents' = incidents \ {i}
    /\ UNCHANGED <<turns, routes, call, typing, telegram, used>>

HeartbeatEnds(chat) ==
    /\ typing[chat] # 0
    /\ typing' = [typing EXCEPT ![chat] = 0]
    /\ UNCHANGED <<turns, routes, call, incidents, telegram, used>>

-----------------------------------------------------------------------------
(* Telegram answers a progress call.                                         *)

Answer(o, outcome, t, received) ==
    /\ Quiet
    /\ turns' = [turns EXCEPT ![o] = t]
    /\ call' = Advanced(o, turns[o].chain - t.chain)
    /\ telegram' = [telegram EXCEPT ![o] = received]
    /\ IF outcome \in {"edited", "sent"} THEN UNCHANGED events ELSE Costs
    /\ UNCHANGED <<routes, typing, incidents, used>>

\* A transient edit may have been applied; a bubble that is gone was deleted.
AnswerEdit(o, outcome) ==
    LET t == turns[o]
        i == t.flight.message
        r == telegram[o]
        shown == [r EXCEPT !.bubbles[i].text = t.flight.text]
    IN  /\ t.flight # None /\ t.flight.op = "edit"
        /\ \E ok \in Configured :
              Answer(o, outcome, Edited(t, outcome, ok),
                     IF outcome = "edited" THEN [shown EXCEPT !.lost = FALSE]
                     ELSE IF outcome = "gone" THEN [r EXCEPT !.bubbles[i].gone = TRUE]
                     ELSE IF outcome = "transient" THEN [r EXCEPT !.lost = TRUE]
                     ELSE r)

\* A send of uncertain outcome may have made a bubble.
AnswerSend(o, outcome) ==
    LET t == turns[o]
        r == telegram[o]
        bubble == [phase |-> t.flight.text.phase, text |-> t.flight.text, gone |-> FALSE]
        more == [r EXCEPT !.bubbles = Append(@, bubble)]
    IN  /\ t.flight # None /\ t.flight.op = "send"
        /\ \E ok \in Configured :
           \E got \in (IF outcome = "sent" THEN {[more EXCEPT !.lost = FALSE]}
                       ELSE IF outcome = "uncertain" THEN {r, more} ELSE {r}) :
              Answer(o, outcome, Sent(t, outcome, Len(more.bubbles), ok), got)

-----------------------------------------------------------------------------
(* finishTurn and deliverRuntimeFailure.                                     *)

\* finalize of turn o for call c, up to its await.
Finalize(c, o, t, state) ==
    \E ok \in Configured :
        LET final == Finalized(t, state.hook, ok) IN
        /\ turns' = [turns EXCEPT ![o] = final]
        /\ call' = [Resolved(IF final.failed THEN {o} ELSE {}) EXCEPT
                       ![c] = [state EXCEPT !.pc = "drain", !.wait = final.chain]]
        /\ typing' = Silenced({o})
        /\ UNCHANGED <<incidents, telegram>>

Done(c) == call' = [call EXCEPT ![c] = Idle]

\* finishTurn with its turn still in the map, after any grace.
Proceed(c, state) ==
    LET o == state.turn
        t == turns[o]
    IN  \/ /\ t.phase = "foreground"
           /\ Finalize(c, o, t, state)
        \/ /\ t.phase = "background" /\ state.hook = "StopFailure" /\ ~t.failed
           /\ Finalize(c, o, [t EXCEPT !.failed = TRUE], [state EXCEPT !.typed = FALSE])
        \/ /\ t.phase = "background" /\ (state.hook = "Stop" \/ t.failed)
           /\ Done(c)
           /\ UNCHANGED <<turns, typing, incidents, telegram>>

\* A Stop or StopFailure hook.  A rate limit waits for the watcher first.
FinishTurn(c, o, hook, error, message) ==
    LET state == [Idle EXCEPT !.turn = o, !.hook = hook, !.error = error,
                              !.message = message, !.typed = TRUE]
        waits == hook = "StopFailure" /\ error = RateLimit
        t == turns[o]
    IN  /\ o \in Live /\ call[c] = Idle /\ c = Free
        /\ IF hook = "Stop" THEN error = None ELSE error \in Errors /\ message = "none"
        /\ \/ /\ waits /\ ~t.failed /\ t.watch
              /\ call' = [call EXCEPT ![c] = [state EXCEPT !.pc = "grace", !.wait = 1]]
              /\ UNCHANGED <<turns, typing, incidents, telegram>>
           \/ waits /\ ~t.failed /\ ~t.watch /\ Proceed(c, state)
           \/ ~waits /\ Proceed(c, state)
        /\ UNCHANGED <<routes, used>>

\* The transcript watcher reports a structured failure of the turn.
WatchFires(c, o, error) ==
    /\ call[c] = Idle /\ c = Free
    /\ turns[o].watch /\ ~turns[o].failed
    /\ Finalize(c, o, [turns[o] EXCEPT !.failed = TRUE],
                [Idle EXCEPT !.turn = o, !.hook = "StopFailure", !.error = error])
    /\ UNCHANGED <<routes, used>>

\* The turn is removed, the incident reserved, and the notice sent if that
\* reservation is new.
Fail(c, o, error) ==
    LET incident == <<turns[o].chat, error>>
        reserved == incident \notin incidents /\ Cardinality(incidents) < MaxIncidents
        before == Resolved({o})
    IN  /\ turns' = [Retire(o) EXCEPT ![o].failed = TRUE]
        /\ typing' = Silenced({o})
        /\ incidents' = IF reserved THEN incidents \cup {incident} ELSE incidents
        /\ \/ /\ reserved /\ TRUE \in Configured
              /\ call' = [before EXCEPT ![c] = [call[c] EXCEPT !.pc = "notice"]]
              /\ telegram' = [telegram EXCEPT ![o].notices = @ + 1]
           \/ /\ ~reserved \/ FALSE \in Configured
              /\ call' = [before EXCEPT ![c] = Idle]
              /\ UNCHANGED telegram

\* The end of a finished turn: a background bubble while agents are active,
\* else drop.
Conclude(c, o, t, received) ==
    /\ telegram' = [telegram EXCEPT ![o] = received]
    /\ UNCHANGED incidents
    /\ \/ /\ HasActive(t) /\ t.phase = "foreground"
          /\ \E ok \in Configured :
                LET next == InBackground(t, ok) IN
                /\ turns' = [turns EXCEPT ![o] = next]
                /\ call' = [call EXCEPT ![c].pc = "background", ![c].wait = next.chain]
          /\ UNCHANGED typing
       \/ /\ HasActive(t) /\ t.phase = "background"
          /\ turns' = [turns EXCEPT ![o] = t]
          /\ Done(c) /\ UNCHANGED typing
       \/ /\ ~HasActive(t)
          /\ turns' = [turns EXCEPT ![o] = [Dropped(t) EXCEPT !.live = FALSE]]
          /\ call' = [Resolved({o}) EXCEPT ![c] = Idle]
          /\ typing' = Silenced({o})

\* Mutant: the attempt is not recorded.
Unreserved(t) == t

\* finalDeliveryAttempted is set before the transport is called.
Reserved(t) == [t EXCEPT !.attempted = TRUE]

\* An answer too long to deliver: once, Claude is asked for a shorter one and
\* typing resumes; the second time a fixed text is sent instead.
TooLarge(c, o, received) ==
    LET t == Reserved(turns[o]) IN
    \/ /\ ~t.retried
       /\ turns' = [turns EXCEPT ![o] = [t EXCEPT !.retried = TRUE, !.attempted = FALSE]]
       /\ typing' = IF t.background THEN typing ELSE [typing EXCEPT ![t.chat] = o]
       /\ telegram' = [telegram EXCEPT ![o] = received]
       /\ Done(c) /\ UNCHANGED incidents
    \/ /\ t.retried /\ TRUE \in Configured
       /\ turns' = [turns EXCEPT ![o] = t]
       /\ call' = [call EXCEPT ![c].pc = "fallback"]
       /\ telegram' = [telegram EXCEPT ![o] = [received EXCEPT !.fallbacks = @ + 1]]
       /\ UNCHANGED <<typing, incidents>>
    \/ /\ t.retried /\ call[c].message = "huge" /\ FALSE \in Configured
       /\ Conclude(c, o, t, received)

\* finishTurn with Stop after its drain: whoever comes first delivers.
Deliver(c, o) ==
    LET t == turns[o]
    IN  \/ /\ t.attempted
           /\ Done(c) /\ UNCHANGED <<turns, typing, incidents, telegram>>
        \/ /\ ~t.attempted /\ call[c].message = "none"
           /\ Conclude(c, o, t, telegram[o])
        \/ /\ ~t.attempted /\ call[c].message = "huge"
           /\ TooLarge(c, o, telegram[o])
        \/ /\ ~t.attempted /\ call[c].message = "fits" /\ TRUE \in Configured
           /\ turns' = [turns EXCEPT ![o] = Reserved(t)]
           /\ call' = [call EXCEPT ![c].pc = "answer"]
           /\ telegram' = [telegram EXCEPT ![o].answers = @ + 1]
           /\ UNCHANGED <<typing, incidents>>
        \/ /\ ~t.attempted /\ call[c].message = "fits" /\ FALSE \in Configured
           /\ Conclude(c, o, Reserved(t), telegram[o])

\* The drain of finalize is over; nobody may have removed the turn meanwhile.
Drained(c) ==
    LET o == call[c].turn
        t == turns[o]
    IN  /\ Ready(c) /\ call[c].pc = "drain"
        /\ \/ /\ ~StillBound(o)
              /\ Done(c) /\ UNCHANGED <<turns, typing, incidents, telegram>>
           \/ /\ StillBound(o) /\ ~call[c].typed
              /\ Fail(c, o, call[c].error)
           \/ /\ StillBound(o) /\ call[c].typed /\ t.status = "killed"
              /\ turns' = Retire(o) /\ typing' = Silenced({o})
              /\ call' = [Resolved({o}) EXCEPT ![c] = Idle]
              /\ UNCHANGED <<incidents, telegram>>
           \/ /\ StillBound(o) /\ call[c].typed /\ t.status # "killed"
              /\ call[c].hook = "StopFailure" /\ ~t.failed
              /\ Fail(c, o, call[c].error)
           \/ /\ StillBound(o) /\ call[c].typed /\ t.status # "killed"
              /\ call[c].hook = "StopFailure" /\ t.failed
              /\ Done(c) /\ UNCHANGED <<turns, typing, incidents, telegram>>
           \/ /\ StillBound(o) /\ call[c].typed /\ t.status # "killed"
              /\ call[c].hook = "Stop"
              /\ Deliver(c, o)
        /\ UNCHANGED <<routes, used, events>>

\* The grace of a typed rate limit is over.
Graced(c) ==
    LET o == call[c].turn IN
    /\ Ready(c) /\ call[c].pc = "grace"
    /\ \/ /\ StillBound(o) /\ ~turns[o].failed
          /\ Proceed(c, call[c])
       \/ /\ ~StillBound(o) \/ turns[o].failed
          /\ Done(c) /\ UNCHANGED <<turns, typing, incidents, telegram>>
    /\ UNCHANGED <<routes, used, events>>

Disclosed(c) ==
    /\ Ready(c) /\ call[c].pc = "background"
    /\ Done(c) /\ UNCHANGED <<turns, routes, typing, incidents, telegram, used, events>>

\* 250 milliseconds pass for a grace, two seconds for a drain.
GraceExpires(c) ==
    /\ Quiet /\ call[c].pc = "grace"
    /\ call' = [call EXCEPT ![c].wait = 0]
    /\ UNCHANGED <<turns, routes, typing, incidents, telegram, used, events>>

DrainExpires(c) ==
    /\ call[c].pc = "drain"
    /\ call' = [call EXCEPT ![c].wait = 0, ![c].late = TRUE]
    /\ UNCHANGED <<turns, routes, typing, incidents, telegram, used>>

\* deliverFinal returns; an answer that was too long did not reach the chat.
Answered(c, outcome) ==
    LET o == call[c].turn
        unsent == [telegram[o] EXCEPT !.answers = @ - 1]
    IN  /\ Quiet /\ call[c].pc = "answer"
        /\ \/ outcome = "too_large" /\ TooLarge(c, o, unsent)
           \/ outcome # "too_large" /\ Conclude(c, o, turns[o], telegram[o])
        /\ UNCHANGED <<routes, used, events>>

FellBack(c) ==
    /\ Quiet /\ call[c].pc = "fallback"
    /\ Conclude(c, call[c].turn, turns[call[c].turn], telegram[call[c].turn])
    /\ UNCHANGED <<routes, used, events>>

Noticed(c) ==
    /\ Quiet /\ call[c].pc = "notice" /\ Done(c)
    /\ UNCHANGED <<turns, routes, typing, incidents, telegram, used, events>>

-----------------------------------------------------------------------------
\* Classes of outcomes: an unchanged edit is as good as an edited one, a
\* throttled one as a rejected one, and every answer but a too large one is
\* settled (delivered, uncertain or rejected).
EditOutcomes == {"edited", "transient", "gone", "rejected"}
SendOutcomes == {"sent", "uncertain", "rejected"}
FinalOutcomes == {"settled", "too_large"}

Goes(c) == \/ Drained(c) \/ Graced(c) \/ Disclosed(c) \/ GraceExpires(c)
           \/ FellBack(c) \/ Noticed(c)
           \/ \E outcome \in FinalOutcomes : Answered(c, outcome)

Answers(o) == \/ \E outcome \in EditOutcomes : AnswerEdit(o, outcome)
              \/ \E outcome \in SendOutcomes : AnswerSend(o, outcome)

\* Events of Claude, of its transcript and of the clock, bounded together.
Binds ==
    \/ BindNothing
    \/ \E chat \in Chats, key \in Keys : BindPrompt(chat, key)
    \/ \E key \in Keys, k \in Tasks \cup {None}, a \in Agents \cup {None},
          status \in Statuses : BindCompletion(key, k, a, status)
Hooked(o) ==
    \/ RecordTool(o)
    \/ \E k \in Tasks : RecordRouted(o, k) \/ RecordEnded(o, k)
    \/ \E k \in Tasks, a \in Agents : RecordLaunched(o, k, a)
    \/ \E a \in Agents : \/ RecordTaskStop(o, a)
                         \/ RecordSubagentStart(o, a) \/ RecordSubagentStop(o, a)
    \/ \E c \in Calls, hook \in Hooks, error \in Errors \cup {None},
          message \in Messages : FinishTurn(c, o, hook, error, message)
    \/ \E c \in Calls, error \in Errors : WatchFires(c, o, error)
Expires ==
    \/ \E k \in Tasks : RouteExpires(k)
    \/ \E i \in incidents : IncidentExpires(i)
    \/ \E chat \in Chats : HeartbeatEnds(chat)
    \/ \E c \in Calls : DrainExpires(c)

Next ==
    \/ Quiet /\ Costs /\ (Binds \/ (\E o \in Ids : Hooked(o)) \/ Expires)
    \/ \E o \in Ids : Debounce(o) \/ Answers(o)
    \/ \E c \in Calls : Goes(c)

Spec == Init /\ [][Next]_vars

\* The loop does not rest while a call of Telegram, a timer or a handler has
\* something for it: calls are answered or time out, timers expire, and a
\* handler that can go on does.
Responds == (\E o \in Ids : Answers(o)) \/ (\E c \in Calls : Goes(c))
FairSpec == Spec /\ WF_vars(Responds)
-----------------------------------------------------------------------------
\* Every variable has its type; in particular no turn or route is deeper than
\* MAX_BACKGROUND_CHAIN_DEPTH, and heartbeats and reports are those of turns.
TypeOK ==
    /\ turns \in Seq(Turns) /\ Len(turns) <= MaxTurns
    /\ telegram \in Seq(Received) /\ Len(telegram) = Len(turns)
    /\ routes \in Stores
    /\ call \in [Calls -> CallStates]
    /\ typing \in [Chats -> 0..Len(turns)]
    /\ incidents \subseteq Chats \X Errors
    /\ used \subseteq Tasks /\ events \in 0..MaxEvents

\* A turn answers once: however many hooks, retries and uncertain outcomes it
\* sees, the chat gets at most one text for it that may have arrived.  And a
\* background task answers once: no two turns were bound by completions of
\* the same tool call, whichever of its two ids the notifications used; the
\* two maps of routes stay in agreement.
OneAnswer ==
    /\ \A o \in Ids : telegram[o].answers + telegram[o].fallbacks <= 1
    /\ \A o, p \in Ids : o # p /\ telegram[o].from # None => telegram[o].from # telegram[p].from
    /\ RoutesAgree(routes)

LiveBubbles(o, phase) ==
    {i \in DOMAIN telegram[o].bubbles : /\ telegram[o].bubbles[i].phase = phase
                                       /\ ~telegram[o].bubbles[i].gone}
\* The variables keep their types.  In each phase of a turn at most one of its
\* bubbles can be on the screen, and when the last drain of a turn ended in
\* time and Telegram answered it, the bubble shows the outcome: no debounced or
\* stale text stays in its place.
BubbleTellsOutcome ==
    /\ TypeOK
    /\ \A o \in Ids, phase \in Phases : Cardinality(LiveBubbles(o, phase)) <= 1
    /\ \A c \in Calls :
        LET o == call[c].turn
            t == turns[o]
        IN  /\ call[c].pc = "drain" /\ call[c].wait = 0 /\ ~call[c].late
            /\ t.phase = "foreground" /\ t.bubble = "have" /\ ~telegram[o].lost
            => telegram[o].bubbles[t.message].text = Text(t)

\* A turn that was superseded, evicted or failed while a handler of it waited
\* starts neither its answer nor a failure notice afterwards.
NoStaleAnswer ==
    [][\A o \in Ids : (telegram'[o].answers > telegram[o].answers
                        \/ telegram'[o].notices > telegram[o].notices) => o \in Live]_vars

\* Every hook returns: no lost answer, dropped turn or failure keeps it.
FinishReturns == \A c \in Calls : call[c] # Idle ~> call[c] = Idle

\* Typing belongs to a turn that is still being worked on.
TypingIsOwned == \A ch \in Chats : typing[ch] # 0 => typing[ch] \in Live
=============================================================================
