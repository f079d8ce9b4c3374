---------------------------- MODULE ProgressBubble ----------------------------
(***************************************************************************)
(* One bound turn of the renderer and its progress bubble: what the turn   *)
(* would show, the promise chain of its flushes, and what each answer of   *)
(* Telegram makes of it (progress-disclosure.ts, progress-state.ts,        *)
(* background-progress.ts).  Operators from turn to turn, no variables.    *)
(*                                                                         *)
(* A text is the data it is rendered from.  steps counts the events that   *)
(* change what the foreground phase shows; of an agent only its status is  *)
(* kept, not its latest tool.                                              *)
(***************************************************************************)
EXTENDS BackgroundRoutes

Phases == {"foreground", "background"}
Hooks == {"Stop", "StopFailure"}
Open == "open"
Statuses == {"completed", "failed", "killed"}
AgentStates == {"absent", "running", "completed", "failed", "killed"}

Texts == [phase : {"foreground"}, steps : Nat, outcome : Hooks \cup {Open}]
         \cup [phase : {"background"}, agents : [Agents -> AgentStates], finalizing : BOOLEAN]

\* A transport call in flight: the message it edits, 0 for a new one.
Flights == [op : {"edit", "send"}, message : Nat, text : Texts]

Turns == [chat : Chats, key : 1..MaxTurns, background : BOOLEAN, depth : 0..MaxDepth,
          status : Statuses \cup {None}, steps : Nat, closed : Hooks \cup {Open},
          tasks : SUBSET Tasks, agents : [Agents -> AgentStates], phase : Phases,
          bubble : {"none", "have", "unknown", "abandoned"}, message : Nat,
          replaced : BOOLEAN, lastSent : Texts \cup {None}, timer : BOOLEAN,
          watch : BOOLEAN, failed : BOOLEAN, attempted : BOOLEAN, retried : BOOLEAN,
          live : BOOLEAN, chain : Nat, flight : Flights \cup {None}]

\* A turn as bindTurn makes it; live says that the map of turns holds it.
NewTurn(chat, key, background, depth, status, watch) ==
    [chat |-> chat, key |-> key, background |-> background, depth |-> depth,
     status |-> status, steps |-> 0, closed |-> Open, tasks |-> {},
     agents |-> [a \in Agents |-> "absent"], phase |-> "foreground", bubble |-> "none",
     message |-> 0, replaced |-> FALSE, lastSent |-> None, timer |-> FALSE,
     watch |-> watch, failed |-> FALSE, attempted |-> FALSE, retried |-> FALSE,
     live |-> TRUE, chain |-> 0, flight |-> None]

HasActive(t) == \E a \in Agents : t.agents[a] = "running"
IsActiveBackground(t) == t.tasks # {} \/ (t.phase = "background" /\ HasActive(t))

HasSteps(t) == IF t.phase = "foreground" THEN t.steps > 0
               ELSE \E a \in Agents : t.agents[a] # "absent"
Text(t) == IF t.phase = "foreground"
           THEN [phase |-> "foreground", steps |-> t.steps, outcome |-> t.closed]
           ELSE [phase |-> "background", agents |-> t.agents,
                 finalizing |-> t.tasks # {} /\ ~HasActive(t)]

Settled == {"unknown", "abandoned"}

\* The head of the chain starts as soon as no call is in flight.  A flush that
\* finds nothing to do ends at once, and so do the ones queued behind it.
Run(t, configured) ==
    IF t.chain = 0 \/ t.flight # None THEN t
    ELSE IF t.bubble \in Settled \/ ~HasSteps(t) THEN [t EXCEPT !.chain = 0]
    ELSE IF ~configured THEN [t EXCEPT !.chain = 0, !.bubble = "abandoned"]
    ELSE IF Text(t) = t.lastSent THEN [t EXCEPT !.chain = 0]
    ELSE [t EXCEPT !.flight = [op      |-> IF t.bubble = "have" THEN "edit" ELSE "send",
                               message |-> IF t.bubble = "have" THEN t.message ELSE 0,
                               text    |-> Text(t)]]

Enqueue(t, configured) == Run([t EXCEPT !.chain = @ + 1], configured)

\* Mutant: the next flush of the chain is never started.
FlushEndsChain(t, configured) == [t EXCEPT !.flight = None, !.chain = @ - 1]

FlushEnds(t, configured) == Run([t EXCEPT !.flight = None, !.chain = @ - 1], configured)

\* What the awaited edit makes of the turn, whatever happened to it meanwhile.
Edited(t, outcome, configured) ==
    IF outcome = "edited"
    THEN FlushEnds([t EXCEPT !.lastSent = t.flight.text], configured)
    ELSE IF outcome = "transient" THEN FlushEnds(t, configured)
    ELSE IF outcome = "gone" /\ ~t.replaced
    THEN [t EXCEPT !.replaced = TRUE, !.bubble = "none", !.message = 0,
                   !.flight = [op |-> "send", message |-> 0, text |-> t.flight.text]]
    ELSE FlushEnds([t EXCEPT !.bubble = "abandoned"], configured)

\* Mutant: what was sent is taken from the turn after the await.
SentStale(t, outcome, message, configured) ==
    FlushEnds(IF outcome = "sent"
              THEN [t EXCEPT !.message = message, !.bubble = "have", !.lastSent = Text(t)]
              ELSE IF outcome = "uncertain" THEN [t EXCEPT !.bubble = "unknown"]
              ELSE [t EXCEPT !.bubble = "abandoned"], configured)

\* Likewise for a send; message is the new bubble's.
Sent(t, outcome, message, configured) ==
    FlushEnds(IF outcome = "sent"
              THEN [t EXCEPT !.message = message, !.bubble = "have", !.lastSent = t.flight.text]
              ELSE IF outcome = "uncertain" THEN [t EXCEPT !.bubble = "unknown"]
              ELSE [t EXCEPT !.bubble = "abandoned"], configured)

\* The debounce timer is armed unless there is nothing left to show.
Touch(t) == IF (t.phase = "foreground" /\ t.closed # Open) \/ t.bubble \in Settled
            THEN t ELSE [t EXCEPT !.timer = TRUE]

\* A tool call of the foreground begins or ends.
Step(t) == IF t.phase = "background" \/ t.background \/ t.closed # Open THEN t
           ELSE Touch([t EXCEPT !.steps = @ + 1])

TouchBackground(t) == IF t.phase = "background" THEN Touch(t) ELSE t

\* The turn's task k, and its agent a, are over.
TaskEnds(t, k) == IF k \in t.tasks THEN TouchBackground([t EXCEPT !.tasks = @ \ {k}]) ELSE t
AgentEnds(t, a, status) ==
    IF a # None /\ t.agents[a] = "running"
    THEN TouchBackground([t EXCEPT !.agents[a] = status]) ELSE t

\* finalize up to its await: the turn is closed and its last flush is queued.
Finalized(t, hook, configured) ==
    Enqueue([t EXCEPT !.timer = FALSE,
                      !.watch = @ /\ hook # "Stop",
                      !.closed = IF @ = Open THEN hook ELSE @], configured)

\* The background phase starts with a bubble of its own.
InBackground(t, configured) ==
    Enqueue([t EXCEPT !.phase = "background", !.timer = FALSE, !.message = 0,
                      !.bubble = "none", !.replaced = FALSE, !.lastSent = None], configured)

Dropped(t) == [t EXCEPT !.timer = FALSE, !.watch = FALSE, !.bubble = "abandoned"]
=============================================================================
