----------------------- MODULE TurnDisclosure_proofs -----------------------
(***************************************************************************)
(* Turns and their bubbles, for every number of turns, handlers, tasks and *)
(* events: a turn answers once, a background task answers once, and in     *)
(* each phase of a turn at most one bubble is shown, which tells the       *)
(* outcome when the last drain ended in time.                              *)
(***************************************************************************)
EXTENDS TurnDisclosure, SequenceTheorems, FiniteSetTheorems, TLAPS

USE RouteNames, DisclosureNames

-----------------------------------------------------------------------------
(* What the operators on one turn do to its fields.                          *)

\* Hooks leave alone what the bubble depends on; after the end of a turn its
\* steps are not counted any more, and a turn that is dropped has no bubble.
Steady(t, u) ==
    /\ u \in Turns
    /\ u.phase = t.phase /\ u.closed = t.closed /\ u.message = t.message
    /\ u.lastSent = t.lastSent /\ u.chain = t.chain /\ u.flight = t.flight
    /\ u.steps >= t.steps /\ (t.closed # Open => u.steps = t.steps)
    /\ u.bubble \in {t.bubble, "abandoned"}
Kept(t, u) == Steady(t, u) /\ u.attempted = t.attempted

\* One more flush is queued; the turn may have been closed, or turned to its
\* background phase.
Queued(t, u) ==
    /\ u \in Turns
    /\ u.chain = t.chain + 1 /\ u.flight = t.flight
    /\ u.steps >= t.steps /\ (t.closed # Open => u.steps = t.steps /\ u.closed = t.closed)
    /\ \/ /\ u.phase = t.phase /\ u.message = t.message /\ u.lastSent = t.lastSent
          /\ u.bubble \in {t.bubble, "abandoned"}
       \/ t.phase = "foreground" /\ u.phase = "background" /\ u.bubble = "none"

\* What Run makes of a turn: it has nothing to start, or starts a call, or
\* ends every flush, and gives the bubble up only without a configuration.
Started(t, u) ==
    /\ u \in Turns
    /\ u.phase = t.phase /\ u.closed = t.closed /\ u.steps = t.steps
    /\ u.message = t.message /\ u.lastSent = t.lastSent /\ u.attempted = t.attempted
    /\ \/ /\ t.chain = 0 \/ t.flight # None
          /\ u.chain = t.chain /\ u.flight = t.flight /\ u.bubble = t.bubble
       \/ /\ t.chain > 0 /\ t.flight = None
          /\ u.chain = 0 /\ u.flight = None
          /\ \/ u.bubble = "abandoned"
             \/ /\ u.bubble = t.bubble
                /\ t.bubble \in Settled \/ ~HasSteps(t) \/ Text(t) = t.lastSent
       \/ /\ t.chain > 0 /\ t.flight = None
          /\ u.chain = t.chain /\ u.bubble = t.bubble
          /\ t.bubble \in {"none", "have"} /\ HasSteps(t)
          /\ u.flight \in Flights /\ u.flight.text = Text(t)
          /\ u.flight.op = (IF t.bubble = "have" THEN "edit" ELSE "send")
          /\ t.bubble = "have" => u.flight.message = t.message

LEMMA TextTyped == ASSUME NEW t \in Turns PROVE Text(t) \in Texts
<1>1. CASE t.phase = "foreground"
  BY <1>1 DEF Text, Texts, Turns
<1>2. CASE t.phase # "foreground"
  BY <1>2 DEF Text, Texts, Turns
<1> QED BY <1>1, <1>2

\* Hooks, one by one.
LEMMA KeptSame == ASSUME NEW t \in Turns PROVE Kept(t, t)
<1>1. t.steps \in Nat
  BY DEF Turns
<1> QED BY <1>1 DEF Kept, Steady

LEMMA KeptTransitive ==
    ASSUME NEW t \in Turns, NEW u, NEW v, Kept(t, u), Kept(u, v) PROVE Kept(t, v)
<1>1. t.steps \in Nat /\ u.steps \in Nat /\ v.steps \in Nat
  BY DEF Turns, Kept, Steady
<1> QED BY <1>1 DEF Kept, Steady

LEMMA TouchKept == ASSUME NEW t \in Turns PROVE Kept(t, Touch(t))
<1>1. Touch(t) \in {t, [t EXCEPT !.timer = TRUE]}
  BY DEF Touch
<1>2. [t EXCEPT !.timer = TRUE] \in Turns
  BY DEF Turns
<1>3. t.steps \in Nat
  BY DEF Turns
<1>4. Kept(t, [t EXCEPT !.timer = TRUE])
  BY <1>2, <1>3 DEF Kept, Steady, Turns
<1> QED BY <1>1, <1>4, KeptSame

LEMMA StepKept == ASSUME NEW t \in Turns PROVE Kept(t, Step(t))
<1>. DEFINE u == [t EXCEPT !.steps = @ + 1]
<1>1. CASE t.closed # Open \/ t.phase = "background" \/ t.background
  BY <1>1, KeptSame DEF Step
<1>2. CASE t.closed = Open /\ t.phase # "background" /\ ~t.background
  <2>1. u \in Turns
    BY DEF Turns
  <2>2. t.steps \in Nat
    BY DEF Turns
  <2>3. Kept(t, u)
    BY <1>2, <2>1, <2>2 DEF Kept, Steady, Turns
  <2>. HIDE DEF u
  <2>4. Kept(u, Touch(u))
    BY <2>1, TouchKept
  <2>5. Step(t) = Touch(u)
    BY <1>2 DEF Step, u
  <2> QED BY <2>3, <2>4, <2>5, KeptTransitive
<1> QED BY <1>1, <1>2

LEMMA TouchBackgroundKept == ASSUME NEW t \in Turns PROVE Kept(t, TouchBackground(t))
  BY TouchKept, KeptSame DEF TouchBackground

LEMMA TaskEndsKept == ASSUME NEW t \in Turns, NEW k PROVE Kept(t, TaskEnds(t, k))
<1>. DEFINE u == [t EXCEPT !.tasks = @ \ {k}]
<1>1. u \in Turns
  BY DEF Turns
<1>2. t.steps \in Nat
  BY DEF Turns
<1>3. Kept(t, u)
  BY <1>1, <1>2 DEF Kept, Steady, Turns
<1>4. TaskEnds(t, k) \in {t, TouchBackground(u)}
  BY DEF TaskEnds
<1>. HIDE DEF u
<1> QED BY <1>1, <1>3, <1>4, TouchBackgroundKept, KeptSame, KeptTransitive

\* An agent of the turn gets another state.
LEMMA AgentKept ==
    ASSUME NEW t \in Turns, NEW a \in Agents, NEW state \in AgentStates
    PROVE  Kept(t, [t EXCEPT !.agents[a] = state])
<1>1. [t EXCEPT !.agents[a] = state] \in Turns
  BY DEF Turns
<1>2. t.steps \in Nat
  BY DEF Turns
<1> QED BY <1>1, <1>2 DEF Kept, Steady, Turns

LEMMA AgentEndsKept ==
    ASSUME NEW t \in Turns, NEW a \in Agents \cup {None}, NEW status \in Statuses
    PROVE  Kept(t, AgentEnds(t, a, status))
<1>1. CASE a = None \/ t.agents[a] # "running"
  BY <1>1, KeptSame DEF AgentEnds
<1>2. CASE a # None /\ t.agents[a] = "running"
  <2>. DEFINE u == [t EXCEPT !.agents[a] = status]
  <2>1. status \in AgentStates
    BY DEF Statuses, AgentStates
  <2>2. Kept(t, u)
    BY <1>2, <2>1, AgentKept
  <2>3. AgentEnds(t, a, status) = TouchBackground(u)
    BY <1>2 DEF AgentEnds
  <2>. HIDE DEF u
  <2>4. u \in Turns
    BY <2>2 DEF Kept, Steady
  <2> QED BY <2>2, <2>3, <2>4, TouchBackgroundKept, KeptTransitive
<1> QED BY <1>1, <1>2

LEMMA DroppedKept == ASSUME NEW t \in Turns PROVE Kept(t, Dropped(t))
<1>1. Dropped(t) \in Turns
  BY DEF Turns, Dropped
<1>2. t.steps \in Nat
  BY DEF Turns
<1> QED BY <1>1, <1>2 DEF Kept, Steady, Dropped, Turns

\* The fields that only handlers and bindings read.
LEMMA FieldKept ==
    ASSUME NEW t \in Turns, NEW b \in BOOLEAN
    PROVE  /\ Kept(t, [t EXCEPT !.timer = b]) /\ Kept(t, [t EXCEPT !.failed = b])
           /\ Kept(t, [t EXCEPT !.retried = b]) /\ Kept(t, [t EXCEPT !.live = b])
           /\ Steady(t, [t EXCEPT !.attempted = b])
<1>1. t.steps \in Nat
  BY DEF Turns
<1>2. [t EXCEPT !.timer = b] \in Turns
  BY DEF Turns
<1>3. [t EXCEPT !.failed = b] \in Turns
  BY DEF Turns
<1>4. [t EXCEPT !.attempted = b] \in Turns
  BY DEF Turns
<1>5. [t EXCEPT !.retried = b] \in Turns
  BY DEF Turns
<1>6. [t EXCEPT !.live = b] \in Turns
  BY DEF Turns
<1>7. Kept(t, [t EXCEPT !.timer = b])
  BY <1>1, <1>2 DEF Kept, Steady, Turns
<1>8. Kept(t, [t EXCEPT !.failed = b])
  BY <1>1, <1>3 DEF Kept, Steady, Turns
<1>9. Steady(t, [t EXCEPT !.attempted = b])
  BY <1>1, <1>4 DEF Steady, Turns
<1>10. Kept(t, [t EXCEPT !.retried = b])
  BY <1>1, <1>5 DEF Kept, Steady, Turns
<1>11. Kept(t, [t EXCEPT !.live = b])
  BY <1>1, <1>6 DEF Kept, Steady, Turns
<1> QED BY <1>7, <1>8, <1>9, <1>10, <1>11

LEMMA RunStarts ==
    ASSUME NEW t \in Turns, NEW ok \in BOOLEAN PROVE Started(t, Run(t, ok))
<1>. DEFINE f == [op      |-> IF t.bubble = "have" THEN "edit" ELSE "send",
                  message |-> IF t.bubble = "have" THEN t.message ELSE 0,
                  text    |-> Text(t)]
<1>1. Text(t) \in Texts /\ t.message \in Nat
  BY TextTyped DEF Turns
<1>2. f \in Flights
  BY <1>1 DEF Flights
<1>3. /\ t.bubble \in {"none", "have", "unknown", "abandoned"} /\ t.chain \in Nat
  BY DEF Turns
<1>4. CASE t.chain = 0 \/ t.flight # None
  BY <1>3, <1>4 DEF Run, Started
<1>5. CASE t.chain > 0 /\ t.flight = None
  <2>1. CASE t.bubble \in Settled \/ ~HasSteps(t) \/ (ok /\ Text(t) = t.lastSent)
    <3>. DEFINE u == [t EXCEPT !.chain = 0]
    <3>1. u \in Turns
      BY DEF Turns
    <3>2. u.phase = t.phase /\ u.closed = t.closed /\ u.steps = t.steps /\ u.bubble = t.bubble
          /\ u.message = t.message /\ u.lastSent = t.lastSent /\ u.attempted = t.attempted
          /\ u.chain = 0 /\ u.flight = t.flight
      BY DEF Turns
    <3>3. Run(t, ok) = u
      BY <1>5, <2>1 DEF Run
    <3>. HIDE DEF u
    <3> QED BY <1>5, <2>1, <3>1, <3>2, <3>3 DEF Started
  <2>2. CASE ~(t.bubble \in Settled \/ ~HasSteps(t)) /\ ~ok
    <3>. DEFINE u == [t EXCEPT !.chain = 0, !.bubble = "abandoned"]
    <3>1. u \in Turns
      BY DEF Turns
    <3>2. u.phase = t.phase /\ u.closed = t.closed /\ u.steps = t.steps /\ u.bubble = "abandoned"
          /\ u.message = t.message /\ u.lastSent = t.lastSent /\ u.attempted = t.attempted
          /\ u.chain = 0 /\ u.flight = t.flight
      BY DEF Turns
    <3>3. Run(t, ok) = u
      BY <1>5, <2>2 DEF Run
    <3>. HIDE DEF u
    <3> QED BY <1>5, <3>1, <3>2, <3>3 DEF Started
  <2>3. CASE ~(t.bubble \in Settled \/ ~HasSteps(t)) /\ ok /\ Text(t) # t.lastSent
    <3>. DEFINE u == [t EXCEPT !.flight = f]
    <3>1. Run(t, ok) = u
      BY <1>5, <2>3 DEF Run
    <3>. HIDE DEF f
    <3>2. u \in Turns
      BY <1>2 DEF Turns
    <3>3. u.phase = t.phase /\ u.closed = t.closed /\ u.steps = t.steps /\ u.bubble = t.bubble
          /\ u.message = t.message /\ u.lastSent = t.lastSent /\ u.attempted = t.attempted
          /\ u.chain = t.chain /\ u.flight = f
      BY DEF Turns
    <3>. HIDE DEF u
    <3>4. /\ f.text = Text(t) /\ f.op = (IF t.bubble = "have" THEN "edit" ELSE "send")
          /\ t.bubble = "have" => f.message = t.message
      BY DEF f
    <3>5. t.bubble \in {"none", "have"} /\ HasSteps(t)
      BY <1>3, <2>3 DEF Settled
    <3> QED BY <1>2, <1>5, <3>1, <3>2, <3>3, <3>4, <3>5 DEF Started
  <2> QED BY <2>1, <2>2, <2>3
<1> QED BY <1>3, <1>4, <1>5
\* A flush is queued, the turn is closed, or turns to its background phase.
Advances(t, u) == Steady(t, u) \/ \E v : Queued(t, v) /\ Started(v, u)

LEMMA EnqueueAdvances ==
    ASSUME NEW t \in Turns, NEW v, Steady(t, v), NEW ok \in BOOLEAN
    PROVE  /\ Advances(t, Enqueue(v, ok)) /\ Enqueue(v, ok) \in Turns
           /\ Enqueue(v, ok).attempted = v.attempted
<1>. DEFINE u == [v EXCEPT !.chain = @ + 1]
<1>1. v \in Turns
  BY DEF Steady
<1>2. u \in Turns
  BY <1>1 DEF Turns
<1>3. Queued(t, u) /\ u.attempted = v.attempted
  BY <1>1, <1>2 DEF Queued, Steady, Turns
<1>. HIDE DEF u
<1>4. Started(u, Run(u, ok))
  BY <1>2, RunStarts
<1>5. Run(u, ok) = Enqueue(v, ok)
  BY DEF Enqueue, u
<1> QED BY <1>3, <1>4, <1>5 DEF Advances, Started

LEMMA FinalizedAdvances ==
    ASSUME NEW t \in Turns, NEW hook \in Hooks, NEW ok \in BOOLEAN
    PROVE  \E u : /\ Queued(t, u) /\ Started(u, Finalized(t, hook, ok))
                  /\ u.closed # Open /\ u.phase = t.phase /\ u.attempted = t.attempted
<1>. DEFINE c == IF t.closed = Open THEN hook ELSE t.closed
            w == t.watch /\ hook # "Stop"
            v == [t EXCEPT !.timer = FALSE, !.watch = w, !.closed = c]
            u == [v EXCEPT !.chain = @ + 1]
<1>1. c \in Hooks /\ w \in BOOLEAN /\ (t.closed # Open => c = t.closed)
  BY DEF Turns, Hooks
<1>2. Run(u, ok) = Finalized(t, hook, ok)
  BY DEF Finalized, Enqueue
<1>. HIDE DEF c, w
<1>3. v \in Turns /\ v.closed = c /\ v.chain = t.chain /\ v.flight = t.flight /\ v.steps = t.steps
      /\ v.phase = t.phase /\ v.message = t.message /\ v.lastSent = t.lastSent
      /\ v.bubble = t.bubble /\ v.attempted = t.attempted
  <2>1. v \in Turns
    BY <1>1 DEF Turns
  <2> QED BY <2>1 DEF Turns
<1>. HIDE DEF v
<1>4. u \in Turns
  BY <1>3 DEF Turns
<1>5. u.closed = c /\ u.chain = t.chain + 1 /\ u.flight = t.flight /\ u.steps = t.steps
      /\ u.phase = t.phase /\ u.message = t.message /\ u.lastSent = t.lastSent
      /\ u.bubble = t.bubble /\ u.attempted = t.attempted
  BY <1>3 DEF Turns
<1>. HIDE DEF u
<1>6. Started(u, Run(u, ok))
  BY <1>4, RunStarts
<1>7. Queued(t, u)
  BY <1>1, <1>4, <1>5 DEF Queued, Turns
<1>8. c # Open
  BY <1>1 DEF Hooks, Open
<1> QED BY <1>2, <1>5, <1>6, <1>7, <1>8

LEMMA InBackgroundAdvances ==
    ASSUME NEW t \in Turns, NEW v, Steady(t, v), t.phase = "foreground", NEW ok \in BOOLEAN
    PROVE  /\ Advances(t, InBackground(v, ok)) /\ InBackground(v, ok) \in Turns
           /\ InBackground(v, ok).attempted = v.attempted
           /\ InBackground(v, ok).phase = "background"
<1>. DEFINE x == [v EXCEPT !.phase = "background", !.timer = FALSE, !.message = 0,
                           !.bubble = "none", !.replaced = FALSE, !.lastSent = None]
            u == [x EXCEPT !.chain = @ + 1]
<1>1. v \in Turns
  BY DEF Steady
<1>2. x \in Turns
  BY <1>1 DEF Turns, Phases
<1>3. x.phase = "background" /\ x.bubble = "none" /\ x.chain = v.chain /\ x.flight = v.flight
      /\ x.steps = v.steps /\ x.closed = v.closed /\ x.attempted = v.attempted
  BY <1>1 DEF Turns
<1>4. Run(u, ok) = InBackground(v, ok)
  BY DEF InBackground, Enqueue
<1>. HIDE DEF x
<1>5. u \in Turns
  BY <1>2 DEF Turns
<1>6. u.phase = "background" /\ u.bubble = "none" /\ u.chain = v.chain + 1 /\ u.flight = v.flight
      /\ u.steps = v.steps /\ u.closed = v.closed /\ u.attempted = v.attempted
  BY <1>2, <1>3 DEF Turns
<1>. HIDE DEF u
<1>7. Started(u, Run(u, ok))
  BY <1>5, RunStarts
<1>8. Queued(t, u)
  BY <1>5, <1>6 DEF Queued, Steady, Turns
<1> QED BY <1>4, <1>6, <1>7, <1>8 DEF Advances, Started

-----------------------------------------------------------------------------
(* What a turn knows of its bubbles.                                         *)

Shown(r, phase) == {i \in DOMAIN r.bubbles : r.bubbles[i].phase = phase /\ ~r.bubbles[i].gone}
AtMostOne(S) == \A i, j \in S : i = j
Chained(t) == t.chain > 0 <=> t.flight # None

\* The call in flight sends the first bubble of its phase, or edits the only
\* one; a call of the foreground leaves none for the background.
FlightFits(t, r) ==
    /\ t.flight.text.phase = "foreground" /\ t.phase = "background" => Shown(r, "background") = {}
    /\ t.flight.op = "send" => t.bubble # "have" /\ Shown(r, t.flight.text.phase) = {}
    /\ t.flight.op = "edit" =>
          /\ t.flight.message \in DOMAIN r.bubbles
          /\ Shown(r, t.flight.text.phase) \subseteq {t.flight.message}
          /\ t.bubble = "have" => t.flight.message = t.message

\* The bubble that turn t has is the only one of its phase in the chat, and
\* shows what was sent last unless an answer to an edit was lost.
Fits(t, r) ==
    /\ \A phase \in Phases : AtMostOne(Shown(r, phase))
    /\ t.phase = "foreground" =>
          /\ Shown(r, "background") = {}
          /\ t.flight # None => t.flight.text.phase = "foreground"
          /\ t.bubble = "have" \/ t.flight # None => t.steps > 0
          /\ t.bubble = "have" /\ ~r.lost => r.bubbles[t.message].text = t.lastSent
    /\ t.bubble = "none" => Shown(r, t.phase) = {}
    /\ t.bubble = "have" => t.message \in DOMAIN r.bubbles /\ Shown(r, t.phase) \subseteq {t.message}
    /\ t.flight # None => FlightFits(t, r)

\* What a handler may rely on whose last flush is still w.wait flushes away.
Drains(w, t, r) ==
    ~w.late /\ t.phase = "foreground" =>
        /\ t.closed # Open /\ w.wait <= t.chain
        /\ w.wait <= 1 /\ t.flight # None => t.flight.text = Text(t)
        /\ w.wait = 0 /\ t.bubble = "have" /\ ~r.lost => t.lastSent = Text(t)

LEMMA SteadyFits ==
    ASSUME NEW t \in Turns, NEW r, NEW u, Fits(t, r), Steady(t, u) PROVE Fits(u, r)
<1>1. t.steps \in Nat /\ u.steps \in Nat
  BY DEF Turns, Steady
<1>2. u.flight # None => FlightFits(u, r)
  BY DEF Fits, FlightFits, Steady
<1> QED BY <1>1, <1>2 DEF Fits, Steady

LEMMA QueuedFits ==
    ASSUME NEW t \in Turns, NEW r, NEW u, Fits(t, r), Queued(t, u) PROVE Fits(u, r)
<1>1. t.steps \in Nat /\ u.steps \in Nat
  BY DEF Turns, Queued
<1>2. u.flight # None => FlightFits(u, r)
  BY DEF Fits, FlightFits, Queued
<1> QED BY <1>1, <1>2 DEF Fits, Queued

LEMMA StartedFits ==
    ASSUME NEW t \in Turns, NEW r, NEW u, Fits(t, r), Started(t, u),
           t.flight # None => t.chain > 0
    PROVE  Fits(u, r) /\ Chained(u)
<1>1. t.steps \in Nat /\ t.chain \in Nat /\ t.phase \in Phases
  BY DEF Turns
<1>2. CASE /\ t.chain = 0 \/ t.flight # None
           /\ u.chain = t.chain /\ u.flight = t.flight /\ u.bubble = t.bubble
  <2>1. u.flight # None => FlightFits(u, r)
    BY <1>2 DEF Fits, FlightFits, Started
  <2> QED BY <1>1, <1>2, <2>1 DEF Fits, Started, Chained
<1>3. CASE u.chain = 0 /\ u.flight = None /\ u.bubble \in {t.bubble, "abandoned"}
  BY <1>1, <1>3 DEF Fits, Started, Chained
<1>4. CASE /\ t.chain > 0 /\ t.flight = None
           /\ u.chain = t.chain /\ u.bubble = t.bubble
           /\ t.bubble \in {"none", "have"} /\ HasSteps(t)
           /\ u.flight \in Flights /\ u.flight.text = Text(t)
           /\ u.flight.op = (IF t.bubble = "have" THEN "edit" ELSE "send")
           /\ t.bubble = "have" => u.flight.message = t.message
  <2>1. Text(t).phase = t.phase
    BY <1>1 DEF Text, Phases
  <2>2. u.flight # None
    BY <1>4
  <2>3. FlightFits(u, r)
    BY <1>4, <2>1 DEF Fits, FlightFits, Started
  <2>4. t.phase = "foreground" => t.steps > 0
    BY <1>4 DEF HasSteps
  <2> QED BY <1>1, <1>4, <2>1, <2>2, <2>3, <2>4 DEF Fits, Started, Chained
<1> QED BY <1>2, <1>3, <1>4 DEF Started

LEMMA AdvancesFits ==
    ASSUME NEW t \in Turns, NEW r, NEW u, Fits(t, r), Chained(t), Advances(t, u)
    PROVE  Fits(u, r) /\ Chained(u) /\ u \in Turns
<1>1. CASE Steady(t, u)
  BY <1>1, SteadyFits DEF Steady, Chained
<1>2. ASSUME NEW v, Queued(t, v), Started(v, u) PROVE Fits(u, r) /\ Chained(u) /\ u \in Turns
  <2>1. v \in Turns /\ Fits(v, r) /\ v.chain > 0
    BY <1>2, QueuedFits DEF Queued, Turns
  <2> QED BY <1>2, <2>1, StartedFits DEF Started
<1> QED BY <1>1, <1>2 DEF Advances

LEMMA SameText ==
    ASSUME NEW t, NEW u, t.phase = "foreground", u.phase = "foreground",
           u.steps = t.steps, u.closed = t.closed
    PROVE  Text(u) = Text(t)
  BY DEF Text

\* Flushes that are queued behind the last one a handler waits for have the
\* same text; a turn that was closed shows nothing else in its foreground.
LEMMA AdvancesDrains ==
    ASSUME NEW w \in CallStates, NEW t \in Turns, NEW r, NEW u, Fits(t, r), Chained(t),
           Drains(w, t, r), Advances(t, u)
    PROVE  Drains(w, u, r)
<1> SUFFICES ASSUME ~w.late, u.phase = "foreground" PROVE Drains(w, u, r)
  BY DEF Drains
<1>1. w.wait \in Nat /\ t.chain \in Nat
  BY DEF CallStates, Turns
<1>2. CASE Steady(t, u)
  <2>1. t.phase = "foreground" /\ t.closed # Open
    BY <1>2 DEF Steady, Drains
  <2>2. Text(u) = Text(t)
    BY <1>2, <2>1, SameText DEF Steady
  <2> QED BY <1>1, <1>2, <2>1, <2>2 DEF Steady, Drains
<1>3. ASSUME NEW v, Queued(t, v), Started(v, u) PROVE Drains(w, u, r)
  <2>1. v \in Turns /\ v.phase = "foreground" /\ t.phase = "foreground" /\ t.closed # Open
    BY <1>3 DEF Queued, Started, Drains
  <2>2. /\ v.steps = t.steps /\ v.closed = t.closed /\ v.lastSent = t.lastSent
        /\ v.flight = t.flight /\ v.chain = t.chain + 1 /\ v.bubble \in {t.bubble, "abandoned"}
    BY <1>3, <2>1 DEF Queued
  <2>3. /\ u.steps = v.steps /\ u.closed = v.closed /\ u.lastSent = v.lastSent
        /\ u.phase = v.phase
    BY <1>3 DEF Started
  <2>4. Text(u) = Text(t) /\ Text(v) = Text(t)
    BY <2>1, <2>2, <2>3, SameText
  <2>5. CASE t.flight # None
    <3>1. u.chain = v.chain /\ u.flight = v.flight /\ u.bubble = v.bubble
      BY <1>3, <2>2, <2>5 DEF Started
    <3> QED BY <1>1, <2>1, <2>2, <2>3, <2>4, <3>1 DEF Drains
  <2>6. CASE t.flight = None
    <3>1. w.wait = 0 /\ t.chain = 0
      BY <1>1, <2>1, <2>6 DEF Drains, Chained
    <3>2. /\ u.chain \in Nat
          /\ u.flight = None \/ u.flight.text = Text(t)
      BY <1>3, <2>2, <2>4, <2>6, <3>1 DEF Started, Turns
    <3>3. u.bubble = "have" => t.bubble = "have"
      BY <1>3, <2>2 DEF Started
    <3> QED BY <2>1, <2>2, <2>3, <2>4, <3>1, <3>2, <3>3 DEF Drains
  <2> QED BY <2>5, <2>6
<1> QED BY <1>2, <1>3 DEF Advances

-----------------------------------------------------------------------------
(* What an answer of Telegram does to a turn and its bubbles.                *)

\* The flush whose call was answered is over, and the next one not started.
Landed(t, b) ==
    /\ b \in Turns
    /\ b.phase = t.phase /\ b.closed = t.closed /\ b.steps = t.steps
    /\ b.attempted = t.attempted
    /\ b.flight = None /\ b.chain = t.chain - 1

\* The handler w after the chain of its turn went from t to u.
Closer(w, t, u) ==
    [w EXCEPT !.wait = IF @ > t.chain - u.chain THEN @ - (t.chain - u.chain) ELSE 0]

LEMMA FlushLands ==
    ASSUME NEW t \in Turns, NEW v \in Turns, t.chain > 0, v.chain = t.chain,
           v.phase = t.phase, v.closed = t.closed, v.steps = t.steps, v.attempted = t.attempted,
           NEW ok \in BOOLEAN
    PROVE  \E b : /\ Landed(t, b) /\ Started(b, FlushEnds(v, ok))
                  /\ b.bubble = v.bubble /\ b.message = v.message /\ b.lastSent = v.lastSent
<1>. DEFINE b == [v EXCEPT !.flight = None, !.chain = @ - 1]
<1>1. v.chain \in Nat /\ v.chain - 1 \in Nat
  BY DEF Turns
<1>2. b \in Turns
  BY <1>1 DEF Turns
<1>3. Landed(t, b) /\ b.bubble = v.bubble /\ b.message = v.message /\ b.lastSent = v.lastSent
  BY <1>2 DEF Landed, Turns
<1>4. Run(b, ok) = FlushEnds(v, ok)
  BY DEF FlushEnds
<1>. HIDE DEF b
<1>5. Started(b, Run(b, ok))
  BY <1>3, RunStarts DEF Landed
<1> QED BY <1>3, <1>4, <1>5

\* Handlers that waited for the flush that landed may go on with what it left.
LEMMA LandedDrains ==
    ASSUME NEW w \in CallStates, NEW t \in Turns, NEW r, NEW b, NEW u, NEW q,
           t.flight # None, Chained(t), Drains(w, t, r), Landed(t, b), Started(b, u),
           t.phase = "foreground" /\ b.bubble = "have" =>
                b.steps > 0 /\ (q.lost \/ b.lastSent = t.flight.text)
    PROVE  Drains(Closer(w, t, u), u, q)
<1> SUFFICES ASSUME ~w.late, u.phase = "foreground" PROVE Drains(Closer(w, t, u), u, q)
  BY DEF Drains, Closer, CallStates
<1>. DEFINE n == t.chain - u.chain
<1>1. w.wait \in Nat /\ t.chain \in Nat /\ t.chain > 0 /\ u.chain \in Nat /\ b.chain \in Nat
  BY DEF CallStates, Turns, Chained, Started, Landed
<1>2. Closer(w, t, u).wait = (IF w.wait > n THEN w.wait - n ELSE 0) /\ ~Closer(w, t, u).late
  BY DEF Closer, CallStates
<1>3. t.phase = "foreground" /\ b.phase = "foreground"
  BY DEF Landed, Started
<1>4. /\ t.closed # Open /\ w.wait <= t.chain
      /\ w.wait <= 1 => t.flight.text = Text(t)
  BY <1>3 DEF Drains
<1>5. Text(u) = Text(t) /\ Text(b) = Text(t) /\ u.closed = t.closed
  BY <1>3, SameText DEF Landed, Started
<1>6. b.flight = None /\ b.chain = t.chain - 1
  BY DEF Landed
<1>7. HasSteps(b) <=> b.steps > 0
  BY <1>3 DEF HasSteps
<1>. HIDE DEF n
<1>8. CASE u.chain = b.chain /\ b.chain = 0 /\ u.flight = b.flight /\ u.bubble = b.bubble
  <2>1. n = 1 /\ t.chain = 1 /\ w.wait <= 1 /\ u.flight = None
    BY <1>1, <1>4, <1>6, <1>8 DEF n
  <2> QED BY <1>1, <1>2, <1>3, <1>4, <1>5, <1>8, <2>1 DEF Started, Drains
<1>9. CASE u.chain = 0 /\ u.flight = None /\ u.bubble = "abandoned"
  BY <1>1, <1>2, <1>4, <1>5, <1>9 DEF Drains, n
<1>10. CASE /\ u.chain = 0 /\ u.flight = None /\ u.bubble = b.bubble
            /\ b.bubble \in Settled \/ ~HasSteps(b) \/ Text(b) = b.lastSent
  <2>1. Closer(w, t, u).wait = 0
    BY <1>1, <1>2, <1>4, <1>10 DEF n
  <2>2. u.bubble = "have" => u.lastSent = Text(u)
    BY <1>3, <1>5, <1>7, <1>10 DEF Started, Settled
  <2> QED BY <1>4, <1>5, <1>10, <2>1, <2>2 DEF Drains
<1>11. CASE /\ b.chain > 0 /\ u.chain = b.chain /\ u.bubble = b.bubble /\ u.flight.text = Text(b)
  <2>1. n = 1
    BY <1>1, <1>6, <1>11 DEF n
  <2>2. Closer(w, t, u).wait <= u.chain
    BY <1>1, <1>2, <1>4, <1>6, <1>11, <2>1
  <2>3. ASSUME Closer(w, t, u).wait = 0, u.bubble = "have", ~q.lost PROVE u.lastSent = Text(u)
    <3>1. w.wait <= 1
      BY <1>1, <1>2, <2>1, <2>3
    <3> QED BY <1>3, <1>4, <1>5, <1>11, <2>3, <3>1 DEF Started
  <2> QED BY <1>4, <1>5, <1>11, <2>2, <2>3 DEF Drains
<1> QED BY <1>6, <1>8, <1>9, <1>10, <1>11 DEF Started

\* What the chat shows after the answer to the edit in flight.
EditSeen(t, r, outcome, q) ==
    LET i == t.flight.message IN
    /\ q.lost = (IF outcome = "edited" THEN FALSE ELSE IF outcome = "transient" THEN TRUE ELSE r.lost)
    /\ q.bubbles = (IF outcome = "edited" THEN [r.bubbles EXCEPT ![i].text = t.flight.text]
                    ELSE IF outcome = "gone" THEN [r.bubbles EXCEPT ![i].gone = TRUE]
                    ELSE r.bubbles)

\* And to the send in flight, if it made a bubble or not.
NewBubble(t) == [phase |-> t.flight.text.phase, text |-> t.flight.text, gone |-> FALSE]
SendSeen(t, r, outcome, q) ==
    /\ q.lost = (IF outcome = "sent" THEN FALSE ELSE r.lost)
    /\ q.bubbles \in (IF outcome = "sent" THEN {Append(r.bubbles, NewBubble(t))}
                      ELSE IF outcome = "uncertain"
                      THEN {r.bubbles, Append(r.bubbles, NewBubble(t))} ELSE {r.bubbles})

\* An answer keeps the turn and its bubbles together, and the handlers that
\* wait for them.
AnswerFits(t, r, u, q) ==
    /\ u \in Turns /\ Chained(u) /\ Fits(u, q) /\ u.attempted = t.attempted
    /\ u.chain <= t.chain
    /\ \A w \in CallStates : Drains(w, t, r) => Drains(Closer(w, t, u), u, q)

LEMMA LandedFits ==
    ASSUME NEW t \in Turns, NEW r, NEW b, NEW u, NEW q, Chained(t), t.flight # None,
           Landed(t, b), Started(b, u), Fits(b, q),
           t.phase = "foreground" /\ b.bubble = "have" => (q.lost \/ b.lastSent = t.flight.text)
    PROVE  AnswerFits(t, r, u, q)
<1>1. Fits(u, q) /\ Chained(u)
  BY StartedFits DEF Landed
<1>2. t.phase = "foreground" /\ b.bubble = "have" => b.steps > 0
  BY DEF Fits, Landed
<1>3. \A w \in CallStates : Drains(w, t, r) => Drains(Closer(w, t, u), u, q)
  BY <1>2, LandedDrains
<1>4. u.chain <= t.chain /\ u \in Turns
  BY DEF Started, Landed, Chained, Turns
<1> QED BY <1>1, <1>3, <1>4 DEF AnswerFits, Landed, Started

LEMMA EditedFits ==
    ASSUME NEW t \in Turns, NEW r \in Received, NEW q \in Received, NEW outcome \in EditOutcomes,
           NEW ok \in BOOLEAN, Chained(t), Fits(t, r), t.flight # None, t.flight.op = "edit",
           EditSeen(t, r, outcome, q)
    PROVE  AnswerFits(t, r, Edited(t, outcome, ok), q)
<1>. DEFINE i == t.flight.message
            f == t.flight
            u == Edited(t, outcome, ok)
<1>1. /\ f \in Flights /\ t.chain > 0 /\ FlightFits(t, r) /\ t.phase \in Phases
      /\ f.text \in Texts /\ f.text.phase \in Phases /\ i \in DOMAIN r.bubbles
  BY DEF Turns, Fits, FlightFits, Chained, Flights, Texts, Phases
<1>2. /\ DOMAIN r.bubbles = 1..Len(r.bubbles) /\ Len(r.bubbles) \in Nat
      /\ \A j \in DOMAIN r.bubbles :
            r.bubbles[j] \in [phase : Phases, text : Texts, gone : BOOLEAN]
  <2>1. r.bubbles \in Seq([phase : Phases, text : Texts, gone : BOOLEAN])
    BY DEF Received
  <2>2. DOMAIN r.bubbles = 1..Len(r.bubbles) /\ Len(r.bubbles) \in Nat
    BY <2>1, LenProperties
  <2>3. ASSUME NEW j \in 1..Len(r.bubbles)
        PROVE  r.bubbles[j] \in [phase : Phases, text : Texts, gone : BOOLEAN]
    BY <2>1, <2>3, ElementOfSeq
  <2> QED BY <2>2, <2>3
<1>3. CASE outcome = "edited"
  <2>. DEFINE v == [t EXCEPT !.lastSent = f.text]
  <2>1. v \in Turns
    BY <1>1 DEF Turns
  <2>2. v.chain = t.chain /\ v.phase = t.phase /\ v.closed = t.closed /\ v.steps = t.steps
        /\ v.attempted = t.attempted /\ v.bubble = t.bubble /\ v.message = t.message
        /\ v.lastSent = f.text
    BY DEF Turns
  <2>3. u = FlushEnds(v, ok)
    BY <1>3 DEF Edited
  <2>. HIDE DEF v, u
  <2>4. PICK b : /\ Landed(t, b) /\ Started(b, u)
                 /\ b.bubble = t.bubble /\ b.message = t.message /\ b.lastSent = f.text
    BY <1>1, <2>1, <2>2, <2>3, FlushLands
  <2>5. /\ DOMAIN q.bubbles = DOMAIN r.bubbles /\ q.bubbles[i].text = f.text
        /\ \A phase \in Phases : Shown(q, phase) = Shown(r, phase)
    <3>1. q.bubbles = [r.bubbles EXCEPT ![i].text = f.text]
      BY <1>3 DEF EditSeen
    <3>2. /\ DOMAIN q.bubbles = DOMAIN r.bubbles /\ q.bubbles[i].text = f.text
          /\ \A j \in DOMAIN r.bubbles : /\ q.bubbles[j].phase = r.bubbles[j].phase
                                         /\ q.bubbles[j].gone = r.bubbles[j].gone
      <4>. DEFINE x == [r.bubbles[i] EXCEPT !.text = f.text]
      <4>1. q.bubbles = [r.bubbles EXCEPT ![i] = x]
        BY <3>1
      <4>2. r.bubbles[i] \in [phase : Phases, text : Texts, gone : BOOLEAN]
        BY <1>1, <1>2
      <4>3. x.text = f.text /\ x.phase = r.bubbles[i].phase /\ x.gone = r.bubbles[i].gone
        BY <4>2
      <4>. HIDE DEF x, i, f
      <4>4. i \in DOMAIN r.bubbles
        BY <1>1
      <4> QED BY <4>1, <4>3, <4>4
    <3> QED BY <3>2 DEF Shown
  <2>6. Fits(b, q)
    BY <1>1, <1>3, <2>4, <2>5 DEF Fits, FlightFits, Landed, Phases, EditSeen
  <2> QED BY <2>4, <2>6, LandedFits DEF u
<1>4. CASE outcome = "transient"
  <2>1. u = FlushEnds(t, ok)
    BY <1>4 DEF Edited
  <2>. HIDE DEF u
  <2>2. PICK b : /\ Landed(t, b) /\ Started(b, u)
                 /\ b.bubble = t.bubble /\ b.message = t.message /\ b.lastSent = t.lastSent
    BY <1>1, <2>1, FlushLands
  <2>3. q.bubbles = r.bubbles /\ q.lost
    BY <1>4 DEF EditSeen
  <2>4. \A phase : Shown(q, phase) = Shown(r, phase)
    BY <2>3 DEF Shown
  <2>5. Fits(b, q)
    BY <1>1, <2>2, <2>3, <2>4 DEF Fits, Landed, Phases
  <2> QED BY <2>2, <2>3, <2>5, LandedFits DEF u
<1>5. CASE outcome = "gone" /\ ~t.replaced
  <2>. DEFINE send == [op |-> "send", message |-> 0, text |-> t.flight.text]
  <2>1. send \in Flights
    BY <1>1 DEF Flights
  <2>2. u = [t EXCEPT !.replaced = TRUE, !.bubble = "none", !.message = 0, !.flight = send]
    BY <1>5 DEF Edited
  <2>3. send.op = "send" /\ send.text = f.text
    OBVIOUS
  <2>. HIDE DEF u, send
  <2>4. u \in Turns
    BY <2>1, <2>2 DEF Turns
  <2>5. u.chain = t.chain /\ u.phase = t.phase /\ u.closed = t.closed /\ u.steps = t.steps
        /\ u.attempted = t.attempted /\ u.bubble = "none" /\ u.flight = send
    BY <2>2 DEF Turns
  <2>6. /\ DOMAIN q.bubbles = DOMAIN r.bubbles
        /\ \A phase \in Phases : Shown(q, phase) = Shown(r, phase) \ {i}
    BY <1>1, <1>2, <1>5 DEF EditSeen, Shown
  <2>7. Shown(q, f.text.phase) = {}
    BY <1>1, <2>6, <1>5 DEF FlightFits
  <2>8. Shown(q, u.phase) = {} /\ (u.phase = "foreground" => Shown(q, "background") = {})
        /\ (f.text.phase = "foreground" /\ u.phase = "background" => Shown(q, "background") = {})
    BY <1>1, <2>5, <2>6, <2>7 DEF Fits, FlightFits, Phases
  <2>9. send # None
    BY <2>1
  <2>10. FlightFits(u, q)
    BY <2>3, <2>5, <2>7, <2>8 DEF FlightFits
  <2>11. Fits(u, q)
    BY <1>1, <2>3, <2>5, <2>6, <2>8, <2>9, <2>10 DEF Fits, AtMostOne
  <2>12. Chained(u)
    BY <1>1, <2>5, <2>9 DEF Chained
  <2>13. ASSUME NEW w \in CallStates, Drains(w, t, r) PROVE Drains(Closer(w, t, u), u, q)
    <3>1. w.wait \in Nat /\ t.chain \in Nat
      BY DEF CallStates, Turns
    <3>2. Closer(w, t, u).wait = w.wait /\ Closer(w, t, u).late = w.late
      BY <2>5, <3>1 DEF Closer, CallStates
    <3>3. t.phase = "foreground" => Text(u) = Text(t)
      BY <2>5, SameText
    <3> QED BY <2>3, <2>5, <2>13, <3>2, <3>3 DEF Drains
  <2>14. u.chain <= t.chain
    BY <2>5 DEF Turns
  <2> QED BY <2>4, <2>5, <2>11, <2>12, <2>13, <2>14 DEF AnswerFits, u
<1>6. CASE outcome = "rejected" \/ (outcome = "gone" /\ t.replaced)
  <2>. DEFINE v == [t EXCEPT !.bubble = "abandoned"]
  <2>1. v \in Turns
    BY <1>1 DEF Turns
  <2>2. v.chain = t.chain /\ v.phase = t.phase /\ v.closed = t.closed /\ v.steps = t.steps
        /\ v.attempted = t.attempted /\ v.bubble = "abandoned"
    BY DEF Turns
  <2>3. u = FlushEnds(v, ok)
    BY <1>6 DEF Edited
  <2>. HIDE DEF v, u
  <2>4. PICK b : Landed(t, b) /\ Started(b, u) /\ b.bubble = "abandoned"
    BY <1>1, <2>1, <2>2, <2>3, FlushLands
  <2>5. \A phase \in Phases : Shown(q, phase) \subseteq Shown(r, phase)
    BY <1>1, <1>2, <1>6 DEF EditSeen, Shown
  <2>6. Fits(b, q)
    BY <2>4, <2>5 DEF Fits, Landed, AtMostOne, Phases
  <2> QED BY <2>4, <2>6, LandedFits DEF u
<1> QED BY <1>3, <1>4, <1>5, <1>6 DEF EditOutcomes

LEMMA SentFits ==
    ASSUME NEW t \in Turns, NEW r \in Received, NEW q \in Received, NEW outcome \in SendOutcomes,
           NEW ok \in BOOLEAN, Chained(t), Fits(t, r), t.flight # None, t.flight.op = "send",
           SendSeen(t, r, outcome, q)
    PROVE  AnswerFits(t, r, Sent(t, outcome, Len(r.bubbles) + 1, ok), q)
<1>. DEFINE n == Len(r.bubbles) + 1
            f == t.flight
            u == Sent(t, outcome, n, ok)
<1>1. /\ f \in Flights /\ t.chain > 0 /\ FlightFits(t, r) /\ t.phase \in Phases
      /\ f.text \in Texts /\ f.text.phase \in Phases /\ Shown(r, f.text.phase) = {}
  BY DEF Turns, Fits, FlightFits, Chained, Flights, Texts, Phases
<1>2. DOMAIN r.bubbles = 1..Len(r.bubbles) /\ n \in Nat /\ r.bubbles \in Seq([phase : Phases, text : Texts, gone : BOOLEAN])
  BY DEF Received
<1>3. ASSUME q.bubbles = Append(r.bubbles, NewBubble(t))
      PROVE  /\ DOMAIN q.bubbles = DOMAIN r.bubbles \cup {n} /\ q.bubbles[n] = NewBubble(t)
             /\ \A phase \in Phases : Shown(q, phase) =
                    IF phase = f.text.phase THEN {n} ELSE Shown(r, phase)
  <2>1. /\ DOMAIN q.bubbles = DOMAIN r.bubbles \cup {n} /\ q.bubbles[n] = NewBubble(t)
        /\ \A j \in DOMAIN r.bubbles : q.bubbles[j] = r.bubbles[j] /\ j # n
    BY <1>2, <1>3
  <2>2. NewBubble(t).phase = f.text.phase /\ ~NewBubble(t).gone
    BY DEF NewBubble
  <2> QED BY <1>1, <2>1, <2>2 DEF Shown
<1>4. CASE outcome = "sent"
  <2>. DEFINE v == [t EXCEPT !.message = n, !.bubble = "have", !.lastSent = f.text]
  <2>1. v \in Turns
    BY <1>1, <1>2 DEF Turns
  <2>2. v.chain = t.chain /\ v.phase = t.phase /\ v.closed = t.closed /\ v.steps = t.steps
        /\ v.attempted = t.attempted /\ v.bubble = "have" /\ v.message = n
        /\ v.lastSent = f.text
    BY DEF Turns
  <2>3. u = FlushEnds(v, ok)
    BY <1>4 DEF Sent
  <2>. HIDE DEF v, u, n
  <2>4. PICK b : /\ Landed(t, b) /\ Started(b, u)
                 /\ b.bubble = "have" /\ b.message = n /\ b.lastSent = f.text
    BY <1>1, <2>1, <2>2, <2>3, FlushLands
  <2>5. q.bubbles = Append(r.bubbles, NewBubble(t)) /\ ~q.lost
    BY <1>4 DEF SendSeen
  <2>6. NewBubble(t).text = f.text
    BY DEF NewBubble
  <2>7. Fits(b, q)
    <3>1. n \in DOMAIN q.bubbles /\ q.bubbles[n].text = f.text
      BY <1>3, <2>5, <2>6
    <3>2. \A phase \in Phases : AtMostOne(Shown(q, phase))
      BY <1>3, <2>5 DEF Fits, AtMostOne
    <3>3. Shown(q, t.phase) \subseteq {n}
      BY <1>1, <1>3, <2>5 DEF Fits, FlightFits, Phases
    <3>4. t.phase = "foreground" => Shown(q, "background") = {} /\ t.steps > 0
      BY <1>1, <1>3, <2>5 DEF Fits, Phases
    <3> QED BY <2>4, <3>1, <3>2, <3>3, <3>4 DEF Fits, Landed
  <2> QED BY <2>4, <2>7, LandedFits DEF u, n
<1>5. CASE outcome # "sent"
  <2>. DEFINE s == IF outcome = "uncertain" THEN "unknown" ELSE "abandoned"
              v == [t EXCEPT !.bubble = s]
  <2>1. v \in Turns
    BY <1>1 DEF Turns
  <2>2. v.chain = t.chain /\ v.phase = t.phase /\ v.closed = t.closed /\ v.steps = t.steps
        /\ v.attempted = t.attempted /\ v.bubble \notin {"none", "have"}
    BY DEF Turns
  <2>3. u = FlushEnds(v, ok)
    BY <1>5 DEF Sent
  <2>. HIDE DEF v, u, n
  <2>4. PICK b : Landed(t, b) /\ Started(b, u) /\ b.bubble \notin {"none", "have"}
    BY <1>1, <2>1, <2>2, <2>3, FlushLands
  <2>5. q.bubbles = r.bubbles \/ q.bubbles = Append(r.bubbles, NewBubble(t))
    BY <1>5 DEF SendSeen
  <2>6. \A phase \in Phases : Shown(q, phase) = Shown(r, phase)
                              \/ (phase = f.text.phase /\ Shown(q, phase) = {n})
    BY <1>3, <2>5 DEF Shown
  <2>7. Fits(b, q)
    BY <1>1, <2>4, <2>6 DEF Fits, Landed, AtMostOne, Phases
  <2> QED BY <2>4, <2>7, LandedFits DEF u, n
<1> QED BY <1>4, <1>5

-----------------------------------------------------------------------------
(* Routes of background tasks.                                               *)

Sound(s) == s \in Stores /\ RoutesAgree(s)

LEMMA StoreFacts ==
    ASSUME NEW s \in Stores
    PROVE  /\ s.routes \in [Tasks -> Routes \cup {None}] /\ s.alias \in [Agents -> Tasks \cup {None}]
           /\ Routed(s) \subseteq Tasks
           /\ \A k \in Routed(s) : RouteOf(s, k) \in Routes
  BY DEF Stores, Routed, RouteOf

LEMMA ForgetKeeps ==
    ASSUME NEW s, Sound(s), NEW ks
    PROVE  /\ Sound(Forget(s, ks)) /\ Routed(Forget(s, ks)) = Routed(s) \ ks
           /\ \A k \in Tasks \ ks : RouteOf(Forget(s, ks), k) = RouteOf(s, k)
<1>. DEFINE f == Forget(s, ks)
            routes2 == [k \in Tasks |-> IF k \in ks THEN None ELSE s.routes[k]]
            alias2 == [a \in Agents |->
                        IF s.alias[a] \in ks \cap Routed(s) /\ a \in RouteOf(s, s.alias[a]).aliases
                        THEN None ELSE s.alias[a]]
<1>1. /\ s.routes \in [Tasks -> Routes \cup {None}] /\ s.alias \in [Agents -> Tasks \cup {None}]
      /\ RoutesAgree(s)
  BY StoreFacts DEF Sound
<1>2. f = [routes |-> routes2, alias |-> alias2]
  BY DEF Forget
<1>3. routes2 \in [Tasks -> Routes \cup {None}] /\ alias2 \in [Agents -> Tasks \cup {None}]
  BY <1>1
<1>4. f \in Stores /\ f.routes = routes2 /\ f.alias = alias2
  BY <1>2, <1>3 DEF Stores
<1>5. /\ Routed(f) = Routed(s) \ ks
      /\ \A k \in Tasks \ ks : RouteOf(f, k) = RouteOf(s, k)
  BY <1>4 DEF Routed, RouteOf
<1>6. ASSUME NEW a \in Agents, f.alias[a] # None
      PROVE  f.alias[a] \in Routed(f) /\ a \in RouteOf(f, f.alias[a]).aliases
  <2>1. /\ f.alias[a] = s.alias[a]
        /\ ~(s.alias[a] \in ks \cap Routed(s) /\ a \in RouteOf(s, s.alias[a]).aliases)
    BY <1>4, <1>6
  <2>2. s.alias[a] \in Routed(s) /\ a \in RouteOf(s, s.alias[a]).aliases
    BY <1>1, <1>6, <2>1 DEF RoutesAgree
  <2>3. s.alias[a] \in Tasks \ ks
    BY <2>1, <2>2 DEF Routed
  <2> QED BY <1>5, <2>1, <2>2, <2>3
<1>7. ASSUME NEW k \in Routed(f), NEW a \in Agents, a \in RouteOf(f, k).aliases
      PROVE  f.alias[a] = k
  <2>1. k \in Routed(s) /\ k \notin ks /\ a \in RouteOf(s, k).aliases
    BY <1>5, <1>7 DEF Routed
  <2>2. s.alias[a] = k
    BY <1>1, <2>1 DEF RoutesAgree
  <2> QED BY <1>4, <2>1, <2>2
<1> QED BY <1>4, <1>5, <1>6, <1>7 DEF Sound, RoutesAgree

LEMMA PruneKeeps ==
    ASSUME NEW s, Sound(s)
    PROVE  /\ Sound(Prune(s)) /\ Routed(Prune(s)) \subseteq Routed(s)
           /\ \A k \in Routed(Prune(s)) : RouteOf(Prune(s), k) = RouteOf(s, k)
<1>. DEFINE fresh == Forget(s, Due(s))
            over == {k \in Routed(fresh) : Cardinality(Younger(fresh, k)) >= MaxRoutes}
<1>1. Prune(s) = Forget(fresh, over)
  BY DEF Prune
<1>2. Sound(fresh) /\ Routed(fresh) = Routed(s) \ Due(s)
      /\ \A k \in Tasks \ Due(s) : RouteOf(fresh, k) = RouteOf(s, k)
  BY ForgetKeeps
<1>. HIDE DEF fresh, over
<1>3. Sound(Forget(fresh, over)) /\ Routed(Forget(fresh, over)) = Routed(fresh) \ over
      /\ \A k \in Tasks \ over : RouteOf(Forget(fresh, over), k) = RouteOf(fresh, k)
  BY <1>2, ForgetKeeps
<1> QED BY <1>1, <1>2, <1>3 DEF Routed

LEMMA RememberKeeps ==
    ASSUME NEW s, Sound(s), NEW k \in Tasks \ Routed(s), NEW route \in Routes, route.aliases = {}
    PROVE  Sound(Remember(s, k, route)) /\ Routed(Remember(s, k, route)) \subseteq Routed(s) \cup {k}
<1>. DEFINE f == [s EXCEPT !.routes[k] = route]
<1>1. /\ s.routes \in [Tasks -> Routes \cup {None}] /\ s.alias \in [Agents -> Tasks \cup {None}]
      /\ RoutesAgree(s) /\ s \in Stores
  BY StoreFacts DEF Sound
<1>2. f.routes = [s.routes EXCEPT ![k] = route] /\ f.alias = s.alias
  BY <1>1 DEF Stores
<1>3. f \in Stores
  BY <1>1 DEF Stores
<1>4. Remember(s, k, route) = Prune(f)
  BY DEF Remember
<1>. HIDE DEF f
<1>5. Routed(f) = Routed(s) \cup {k} /\ RouteOf(f, k) = route
      /\ \A j \in Routed(s) : RouteOf(f, j) = RouteOf(s, j)
  BY <1>1, <1>2 DEF Routed, RouteOf
<1>6. RoutesAgree(f)
  BY <1>1, <1>2, <1>5 DEF RoutesAgree
<1> QED BY <1>3, <1>4, <1>5, <1>6, PruneKeeps DEF Sound

LEMMA NameTaskKeeps ==
    ASSUME NEW s, Sound(s), NEW k \in Tasks, NEW a \in Agents
    PROVE  Sound(NameTask(s, k, a)) /\ Routed(NameTask(s, k, a)) = Routed(s)
<1>1. /\ s.routes \in [Tasks -> Routes \cup {None}] /\ s.alias \in [Agents -> Tasks \cup {None}]
      /\ RoutesAgree(s) /\ s \in Stores
  BY StoreFacts DEF Sound
<1>2. CASE k \in Routed(s) /\ s.alias[a] \in {None, k}
  <2>. DEFINE f == [s EXCEPT !.routes[k].aliases = @ \cup {a}, !.alias[a] = k]
              route == [s.routes[k] EXCEPT !.aliases = @ \cup {a}]
  <2>1. s.routes[k] \in Routes
    BY <1>2, StoreFacts DEF RouteOf, Sound
  <2>2. route \in Routes /\ route.aliases = s.routes[k].aliases \cup {a}
    BY <2>1 DEF Routes
  <2>3. f.routes = [s.routes EXCEPT ![k] = route] /\ f.alias = [s.alias EXCEPT ![a] = k]
        /\ f = [s EXCEPT !.routes = f.routes, !.alias = f.alias]
    BY <1>1 DEF Stores
  <2>4. f.routes \in [Tasks -> Routes \cup {None}] /\ f.alias \in [Agents -> Tasks \cup {None}]
    BY <1>1, <2>2, <2>3
  <2>5. f \in Stores
    BY <1>1, <2>3, <2>4 DEF Stores
  <2>6. NameTask(s, k, a) = f
    BY <1>2 DEF NameTask
  <2>. HIDE DEF f, route
  <2>7. Routed(f) = Routed(s)
        /\ \A j \in Routed(s) : RouteOf(f, j).aliases =
                IF j = k THEN RouteOf(s, j).aliases \cup {a} ELSE RouteOf(s, j).aliases
    <3>1. \A j \in Tasks : f.routes[j] = IF j = k THEN route ELSE s.routes[j]
      BY <1>1, <2>3
    <3>2. route # None /\ s.routes[k] # None
      BY <2>1, <2>2
    <3>3. Routed(f) = Routed(s)
      BY <3>1, <3>2 DEF Routed
    <3> QED BY <2>2, <3>1, <3>3 DEF Routed, RouteOf
  <2>8. RoutesAgree(f)
    <3>1. \A b \in Agents : f.alias[b] = IF b = a THEN k ELSE s.alias[b]
      BY <1>1, <2>3
    <3>2. ASSUME NEW b \in Agents, f.alias[b] # None
          PROVE  f.alias[b] \in Routed(f) /\ b \in RouteOf(f, f.alias[b]).aliases
      BY <1>1, <1>2, <2>7, <3>1, <3>2 DEF RoutesAgree
    <3>3. ASSUME NEW j \in Routed(f), NEW b \in Agents, b \in RouteOf(f, j).aliases
          PROVE  f.alias[b] = j
      <4>1. j \in Tasks /\ j # None /\ j \in Routed(s)
        BY <2>7, StoreFacts DEF Sound
      <4>2. CASE j = k /\ b = a
        BY <3>1, <4>2
      <4>3. CASE ~(j = k /\ b = a)
        <5>1. b \in RouteOf(s, j).aliases
          BY <2>7, <3>3, <4>1, <4>3
        <5>2. s.alias[b] = j
          BY <1>1, <4>1, <5>1 DEF RoutesAgree
        <5> QED BY <1>2, <3>1, <4>1, <5>2
      <4> QED BY <4>2, <4>3
    <3> QED BY <3>2, <3>3 DEF RoutesAgree
  <2> QED BY <2>5, <2>6, <2>7, <2>8 DEF Sound
<1>3. CASE ~(k \in Routed(s) /\ s.alias[a] \in {None, k})
  BY <1>3 DEF NameTask
<1> QED BY <1>2, <1>3

LEMMA ExpireKeeps ==
    ASSUME NEW s, Sound(s), NEW k \in Routed(s)
    PROVE  Sound(Expire(s, k)) /\ Routed(Expire(s, k)) = Routed(s)
<1>. DEFINE f == [s EXCEPT !.routes[k].due = TRUE]
            route == [s.routes[k] EXCEPT !.due = TRUE]
<1>1. /\ s.routes \in [Tasks -> Routes \cup {None}] /\ s.alias \in [Agents -> Tasks \cup {None}]
      /\ RoutesAgree(s) /\ s \in Stores /\ s.routes[k] \in Routes /\ k \in Tasks
  BY StoreFacts DEF Sound, RouteOf
<1>2. route \in Routes /\ route.aliases = s.routes[k].aliases
  BY <1>1 DEF Routes
<1>3. f.routes = [s.routes EXCEPT ![k] = route] /\ f.alias = s.alias
  BY <1>1 DEF Stores
<1>4. f \in Stores
  BY <1>1, <1>2 DEF Stores
<1>5. Expire(s, k) = f
  BY DEF Expire
<1>. HIDE DEF f, route
<1>6. Routed(f) = Routed(s) /\ \A j \in Routed(s) : RouteOf(f, j).aliases = RouteOf(s, j).aliases
  BY <1>1, <1>2, <1>3 DEF Routed, RouteOf
<1>7. RoutesAgree(f)
  BY <1>1, <1>3, <1>6 DEF RoutesAgree
<1> QED BY <1>4, <1>5, <1>6, <1>7 DEF Sound

LEMMA NamedRouted ==
    ASSUME NEW s, Sound(s), NEW k, NEW a \in Agents \cup {None}, Named(s, k, a) # None
    PROVE  Named(s, k, a) \in Routed(s)
<1>1. a # None => s.alias[a] = None \/ s.alias[a] \in Routed(s)
  BY DEF Sound, RoutesAgree
<1> QED BY <1>1 DEF Named

-----------------------------------------------------------------------------
(* The inductive invariant.                                                  *)

\* Only a handler of Stop has no error to report.
Blames(w) == w.error \in Errors \/ (w.hook = "Stop" /\ w.typed)

\* The type invariant, the turns that calls are about, and that ids of tasks
\* can be counted.
Typed ==
    /\ TypeOK
    /\ \A c \in Calls : call[c].pc # "idle" => call[c].turn \in Ids /\ Blames(call[c])
    /\ IsFiniteSet(used)

\* A turn that has not attempted its answer has sent nothing; one that waits
\* for Telegram has sent one answer and no fixed text, for one handler only.
\* That nothing more than one text was sent is not inductive without it.
AnswersOnce(o) ==
    /\ telegram[o].answers + telegram[o].fallbacks <= 1
    /\ ~turns[o].attempted => telegram[o].answers = 0 /\ telegram[o].fallbacks = 0
    /\ \A c \in Calls : call[c].pc = "answer" /\ call[c].turn = o =>
          /\ turns[o].attempted /\ telegram[o].answers = 1 /\ telegram[o].fallbacks = 0
          /\ \A d \in Calls : call[d].pc = "answer" /\ call[d].turn = o => d = c

\* A route is of a task that Claude used; a task whose completion bound a turn
\* has none any more, and bound no other turn.
RoutesSpent ==
    /\ RoutesAgree(routes) /\ Routed(routes) \subseteq used
    /\ \A o \in Ids : telegram[o].from # None =>
          /\ telegram[o].from \in used \ Routed(routes)
          /\ \A p \in Ids : telegram[p].from = telegram[o].from => p = o

BubbleInv ==
    /\ \A o \in Ids : Chained(turns[o]) /\ Fits(turns[o], telegram[o])
    /\ \A c \in Calls : call[c].pc = "drain" =>
          Drains(call[c], turns[call[c].turn], telegram[call[c].turn])

IInv == Typed /\ (\A o \in Ids : AnswersOnce(o)) /\ RoutesSpent /\ BubbleInv

LEMMA Facts ==
    ASSUME Typed
    PROVE  /\ Len(turns) \in Nat /\ Ids = 1..Len(turns) /\ DOMAIN telegram = Ids
           /\ \A o \in Ids : turns[o] \in Turns /\ telegram[o] \in Received
           /\ \A c \in Calls : /\ call[c] \in CallStates
                              /\ call[c].pc # "idle" => call[c].turn \in Ids
<1>1. turns \in Seq(Turns) /\ telegram \in Seq(Received) /\ Len(telegram) = Len(turns)
  BY DEF Typed, TypeOK
<1>2. Len(turns) \in Nat /\ Ids = 1..Len(turns) /\ DOMAIN telegram = Ids
  BY <1>1, LenProperties DEF Ids
<1>3. ASSUME NEW o \in Ids PROVE turns[o] \in Turns /\ telegram[o] \in Received
  <2>1. o \in 1..Len(turns) /\ o \in 1..Len(telegram)
    BY <1>1, <1>2
  <2> QED BY <1>1, <2>1, ElementOfSeq
<1> QED BY <1>2, <1>3 DEF Typed, TypeOK

-----------------------------------------------------------------------------
(* What the steps have in common: turns advance, calls move on.              *)

SameBubbles(o) ==
    telegram'[o].bubbles = telegram[o].bubbles /\ telegram'[o].lost = telegram[o].lost

\* Telegram is asked for nothing but, perhaps, a final text or a notice.
TelegramKept ==
    /\ telegram' \in Seq(Received) /\ Len(telegram') = Len(telegram)
    /\ \A o \in Ids : SameBubbles(o) /\ telegram'[o].from = telegram[o].from

\* Every turn advances by a step of its own or not at all, and a turn that is
\* bound starts without bubbles.
TurnsMove ==
    /\ turns' \in Seq(Turns) /\ telegram' \in Seq(Received)
    /\ Len(turns') \in Len(turns)..MaxTurns /\ Len(telegram') = Len(turns')
    /\ \A o \in Ids : Advances(turns[o], turns'[o]) /\ SameBubbles(o)
    /\ \A o \in Ids' \ Ids : /\ turns'[o].chain = 0 /\ turns'[o].flight = None
                             /\ turns'[o].phase = "foreground" /\ turns'[o].bubble # "have"
                             /\ telegram'[o].bubbles = <<>>

\* A call that was just made to drain its turn waits for the last flush of it.
Opened(c) ==
    LET o == call'[c].turn IN
    /\ call'[c].wait = turns'[o].chain
    /\ \E u : /\ Queued(turns[o], u) /\ Started(u, turns'[o])
              /\ u.closed # Open /\ u.phase = turns[o].phase

\* A call is left alone, but for the end of its grace.
CallKept(c) ==
    /\ call'[c].pc = call[c].pc /\ call'[c].turn = call[c].turn
    /\ Blames(call[c]) => Blames(call'[c])
    /\ call[c].pc # "grace" => call'[c] = call[c]

CallsMove ==
    /\ call' \in [Calls -> CallStates]
    /\ \A c \in Calls : \/ CallKept(c)
                        \/ /\ call'[c].pc # "idle" => call'[c].turn \in Ids /\ Blames(call'[c])
                           /\ call'[c].pc = "drain" => call'[c].late \/ Opened(c)

\* No answer is started or given up.
AnswersKept ==
    /\ \A o \in Ids : /\ turns'[o].attempted = turns[o].attempted
                      /\ telegram'[o].answers = telegram[o].answers
                      /\ telegram'[o].fallbacks = telegram[o].fallbacks
    /\ \A o \in Ids' \ Ids : telegram'[o].answers = 0 /\ telegram'[o].fallbacks = 0
    /\ \A c \in Calls : call'[c].pc = "answer" =>
                            call[c].pc = "answer" /\ call'[c].turn = call[c].turn

\* Routes are of tasks that were used, and never come back; a turn is bound by
\* a task whose route it takes.
RoutesMove ==
    /\ Sound(routes') /\ used \subseteq used' /\ used' \subseteq Tasks /\ IsFiniteSet(used')
    /\ Routed(routes') \subseteq used' /\ Routed(routes') \cap used \subseteq Routed(routes)
    /\ \A o \in Ids : telegram'[o].from = telegram[o].from
    /\ \A o \in Ids' \ Ids : telegram'[o].from # None =>
                                telegram'[o].from \in Routed(routes) \ Routed(routes')
    /\ \A o, p \in Ids' \ Ids : o = p

RestTyped ==
    /\ typing' \in [Chats -> 0..Len(turns')]
    /\ incidents' \subseteq Chats \X Errors /\ events' \in 0..MaxEvents

\* A step of these parts keeps the invariant.
LEMMA TypesKept ==
    ASSUME Typed, TurnsMove, CallsMove, RoutesMove, RestTyped
    PROVE  Typed' /\ Ids \subseteq Ids'
<1>1. Len(turns) \in Nat /\ Ids = 1..Len(turns) /\ Ids' = 1..Len(turns') /\ Len(turns') \in Nat
      /\ Len(turns') >= Len(turns) /\ Len(turns') <= MaxTurns
  BY Facts, LenProperties DEF TurnsMove, Ids
<1>2. Ids \subseteq Ids'
  BY <1>1
<1>3. TypeOK'
  BY <1>1 DEF TypeOK, Typed, TurnsMove, CallsMove, RoutesMove, RestTyped, Sound
<1>4. ASSUME NEW c \in Calls, call'[c].pc # "idle" PROVE call'[c].turn \in Ids' /\ Blames(call'[c])
  BY <1>2, <1>4 DEF CallsMove, CallKept, Typed
<1> QED BY <1>2, <1>3, <1>4 DEF Typed, RoutesMove, Blames

LEMMA AnswersMove ==
    ASSUME Typed, Typed', \A o \in Ids : AnswersOnce(o), AnswersKept
    PROVE  (\A o \in Ids : AnswersOnce(o))'
<1> SUFFICES ASSUME NEW o \in Ids' PROVE AnswersOnce(o)'
  OBVIOUS
<1>1. CASE o \in Ids
  <2>1. AnswersOnce(o)
    BY <1>1
  <2> QED BY <1>1, <2>1 DEF AnswersOnce, AnswersKept
<1>2. CASE o \notin Ids
  <2>1. \A c \in Calls : call'[c].pc = "answer" => call'[c].turn # o
    BY <1>2 DEF AnswersKept, Typed
  <2>2. telegram'[o].answers = 0 /\ telegram'[o].fallbacks = 0
    BY <1>2 DEF AnswersKept
  <2> QED BY <2>1, <2>2 DEF AnswersOnce
<1> QED BY <1>1, <1>2

LEMMA RoutesKept ==
    ASSUME Typed, RoutesSpent, RoutesMove PROVE RoutesSpent'
<1>1. RoutesAgree(routes') /\ Routed(routes') \subseteq used' /\ Routed(routes) \subseteq used
  BY DEF RoutesMove, RoutesSpent, Sound
<1>2. ASSUME NEW o \in Ids', telegram'[o].from # None
      PROVE  telegram'[o].from \in used' \ Routed(routes')
  BY <1>1, <1>2 DEF RoutesMove, RoutesSpent
<1>3. ASSUME NEW o \in Ids', telegram'[o].from # None, NEW p \in Ids',
             telegram'[p].from = telegram'[o].from
      PROVE  p = o
  BY <1>1, <1>3 DEF RoutesMove, RoutesSpent
<1> QED BY <1>1, <1>2, <1>3 DEF RoutesSpent

LEMMA SameFits ==
    ASSUME NEW t, NEW r, NEW q, q.bubbles = r.bubbles, q.lost = r.lost
    PROVE  /\ Fits(t, r) => Fits(t, q)
           /\ \A w : Drains(w, t, r) => Drains(w, t, q)
<1>1. \A phase : Shown(q, phase) = Shown(r, phase)
  BY DEF Shown
<1>2. FlightFits(t, r) => FlightFits(t, q)
  BY <1>1 DEF FlightFits
<1> QED BY <1>1, <1>2 DEF Fits, Drains

\* A drain that was just opened knows its last flush.
LEMMA OpenedDrains ==
    ASSUME NEW w \in CallStates, NEW t \in Turns, NEW r, NEW u, NEW v,
           Fits(t, r), Chained(t), Queued(t, u), Started(u, v),
           u.closed # Open, u.phase = t.phase, w.wait = v.chain
    PROVE  Drains(w, v, r)
<1> SUFFICES ASSUME v.phase = "foreground" PROVE Drains(w, v, r)
  BY DEF Drains
<1>1. t.chain \in Nat /\ u.chain = t.chain + 1 /\ u.phase = "foreground" /\ u \in Turns /\ v \in Turns
  BY DEF Turns, Queued, Started
<1>2. v.closed # Open /\ v.chain \in Nat
  BY <1>1 DEF Started, Turns
<1>3. Text(v) = Text(u)
  BY <1>1, SameText DEF Started
<1>4. Fits(u, r)
  BY QueuedFits
<1>5. u.bubble = "have" => u.steps > 0
  BY <1>1, <1>4 DEF Fits
<1>6. CASE u.flight # None
  <2>1. v.chain = t.chain + 1 /\ t.chain > 0
    BY <1>1, <1>6 DEF Started, Queued, Chained
  <2> QED BY <1>1, <1>2, <2>1 DEF Drains
<1>7. CASE u.flight = None
  <2>1. v.chain > 0 => v.flight.text = Text(v) /\ v.chain = 1
    BY <1>1, <1>3, <1>7 DEF Started, Queued, Chained
  <2>2. v.chain = 0 => v.flight = None /\ (v.bubble = "have" => v.lastSent = Text(v))
    BY <1>1, <1>3, <1>5, <1>7 DEF Started, Settled, HasSteps
  <2> QED BY <1>2, <2>1, <2>2 DEF Drains
<1> QED BY <1>6, <1>7

LEMMA BubblesMove ==
    ASSUME Typed, Typed', BubbleInv, TurnsMove, CallsMove PROVE BubbleInv'
<1>1. ASSUME NEW o \in Ids' PROVE Chained(turns'[o]) /\ Fits(turns'[o], telegram'[o])
  <2>1. CASE o \in Ids
    <3>1. turns[o] \in Turns /\ Chained(turns[o]) /\ Fits(turns[o], telegram[o])
          /\ Advances(turns[o], turns'[o]) /\ SameBubbles(o)
      BY <2>1, Facts DEF BubbleInv, TurnsMove
    <3>2. Fits(turns'[o], telegram[o]) /\ Chained(turns'[o])
      BY <3>1, AdvancesFits
    <3> QED BY <3>1, <3>2, SameFits DEF SameBubbles
  <2>2. CASE o \notin Ids
    <3>1. /\ turns'[o].chain = 0 /\ turns'[o].flight = None
          /\ turns'[o].phase = "foreground" /\ turns'[o].bubble # "have"
          /\ telegram'[o].bubbles = <<>>
      BY <2>2 DEF TurnsMove
    <3>2. \A phase : Shown(telegram'[o], phase) = {}
      BY <3>1 DEF Shown
    <3> QED BY <3>1, <3>2 DEF Fits, Chained, AtMostOne
  <2> QED BY <2>1, <2>2
<1>2. ASSUME NEW c \in Calls, call'[c].pc = "drain"
      PROVE  Drains(call'[c], turns'[call'[c].turn], telegram'[call'[c].turn])
  <2>. DEFINE o == call'[c].turn
  <2>1. call[c] \in CallStates /\ call'[c] \in CallStates
    BY DEF Typed, TypeOK
  <2>2. CASE call'[c].late
    BY <2>2 DEF Drains
  <2>3. CASE CallKept(c)
    <3>1. call'[c] = call[c] /\ call[c].pc = "drain" /\ o \in Ids
      BY <1>2, <2>3 DEF CallKept, Typed
    <3>2. turns[o] \in Turns /\ Chained(turns[o]) /\ Fits(turns[o], telegram[o])
          /\ Advances(turns[o], turns'[o]) /\ SameBubbles(o) /\ Drains(call[c], turns[o], telegram[o])
      BY <3>1, Facts DEF BubbleInv, TurnsMove
    <3>3. Drains(call[c], turns'[o], telegram[o])
      BY <2>1, <3>2, AdvancesDrains
    <3> QED BY <3>1, <3>2, <3>3, SameFits DEF SameBubbles
  <2>4. CASE Opened(c) /\ o \in Ids
    <3>1. PICK u : /\ Queued(turns[o], u) /\ Started(u, turns'[o])
                   /\ u.closed # Open /\ u.phase = turns[o].phase
      BY <2>4 DEF Opened
    <3>2. turns[o] \in Turns /\ Chained(turns[o]) /\ Fits(turns[o], telegram[o]) /\ SameBubbles(o)
          /\ call'[c].wait = turns'[o].chain
      BY <2>4, Facts DEF BubbleInv, TurnsMove, Opened
    <3>3. Drains(call'[c], turns'[o], telegram[o])
      BY <2>1, <3>1, <3>2, OpenedDrains
    <3> QED BY <3>2, <3>3, SameFits DEF SameBubbles
  <2> QED BY <1>2, <2>2, <2>3, <2>4 DEF CallsMove
<1> QED BY <1>1, <1>2 DEF BubbleInv

LEMMA MovesKeep ==
    ASSUME IInv, TurnsMove, CallsMove, AnswersKept, RoutesMove, RestTyped PROVE IInv'
<1>1. Typed'
  BY TypesKept DEF IInv
<1>2. (\A o \in Ids : AnswersOnce(o))'
  BY <1>1, AnswersMove DEF IInv
<1> QED BY <1>1, <1>2, RoutesKept, BubblesMove DEF IInv

-----------------------------------------------------------------------------
(* Shapes of steps.                                                          *)

LEMMA KeptAdvances ==
    ASSUME NEW t \in Turns, NEW u, Kept(t, u)
    PROVE  Advances(t, u) /\ u \in Turns /\ u.attempted = t.attempted
  BY DEF Kept, Advances, Steady

LEMMA SameTelegram ==
    ASSUME Typed, UNCHANGED telegram PROVE TelegramKept
  BY DEF TelegramKept, Typed, TypeOK, SameBubbles

LEMMA SameTurnsMove ==
    ASSUME Typed, UNCHANGED turns, TelegramKept PROVE TurnsMove /\ Ids' = Ids
<1>1. Ids' = Ids
  BY DEF Ids
<1>2. \A o \in Ids : turns[o] \in Turns /\ Advances(turns[o], turns'[o])
  BY Facts, KeptSame, KeptAdvances
<1>3. Len(turns') \in Len(turns)..MaxTurns /\ turns' \in Seq(Turns) /\ Len(telegram') = Len(turns')
  BY Facts DEF Typed, TypeOK, TelegramKept
<1> QED BY <1>1, <1>2, <1>3 DEF TurnsMove, TelegramKept

LEMMA OneTurnMoves ==
    ASSUME Typed, NEW o \in Ids, NEW u \in Turns, Advances(turns[o], u),
           turns' = [turns EXCEPT ![o] = u], TelegramKept
    PROVE  /\ TurnsMove /\ Ids' = Ids /\ turns'[o] = u
           /\ \A p \in Ids \ {o} : turns'[p] = turns[p]
<1>1. turns \in Seq(Turns) /\ o \in 1..Len(turns)
  BY Facts DEF Typed, TypeOK
<1>2. turns' \in Seq(Turns) /\ Len(turns') = Len(turns)
  BY <1>1, ExceptSeq
<1>3. Ids' = Ids /\ turns'[o] = u /\ \A p \in Ids \ {o} : turns'[p] = turns[p]
  BY DEF Ids
<1>4. \A p \in Ids : turns[p] \in Turns /\ Advances(turns[p], turns'[p])
  <2> SUFFICES ASSUME NEW p \in Ids PROVE turns[p] \in Turns /\ Advances(turns[p], turns'[p])
    OBVIOUS
  <2>1. turns[p] \in Turns
    BY Facts
  <2> QED BY <1>3, <2>1, KeptSame, KeptAdvances
<1>5. Len(turns') \in Len(turns)..MaxTurns /\ Len(telegram') = Len(turns')
  BY <1>2, Facts DEF Typed, TypeOK, TelegramKept
<1> QED BY <1>2, <1>3, <1>4, <1>5 DEF TurnsMove, TelegramKept

\* Calls: all but the ones whose grace ends are left alone.
LEMMA ResolvedFacts ==
    ASSUME Typed, NEW out
    PROVE  /\ Resolved(out) \in [Calls -> CallStates]
           /\ \A c \in Calls : /\ Resolved(out)[c].pc = call[c].pc
                               /\ Resolved(out)[c].turn = call[c].turn
                               /\ Blames(call[c]) => Blames(Resolved(out)[c])
                               /\ call[c].pc # "grace" => Resolved(out)[c] = call[c]
<1>1. ASSUME NEW c \in Calls
      PROVE  /\ Resolved(out)[c] \in CallStates
             /\ Resolved(out)[c].pc = call[c].pc
             /\ Resolved(out)[c].turn = call[c].turn
             /\ Blames(call[c]) => Blames(Resolved(out)[c])
             /\ call[c].pc # "grace" => Resolved(out)[c] = call[c]
  <2>1. call[c] \in CallStates
    BY DEF Typed, TypeOK
  <2>2. Resolved(out)[c] = IF call[c].turn \in out /\ call[c].pc = "grace"
                           THEN [call[c] EXCEPT !.wait = 0] ELSE call[c]
    BY DEF Resolved
  <2>3. /\ [call[c] EXCEPT !.wait = 0] \in CallStates
        /\ [call[c] EXCEPT !.wait = 0].pc = call[c].pc
        /\ [call[c] EXCEPT !.wait = 0].turn = call[c].turn
        /\ Blames(call[c]) => Blames([call[c] EXCEPT !.wait = 0])
    BY <2>1 DEF CallStates, Blames
  <2> QED BY <2>1, <2>2, <2>3
<1> QED BY <1>1 DEF Resolved

LEMMA SameCallsMove ==
    ASSUME Typed, \/ UNCHANGED call \/ \E out : call' = Resolved(out)
    PROVE  CallsMove /\ \A c \in Calls : CallKept(c)
<1>1. CASE UNCHANGED call
  BY <1>1 DEF CallsMove, CallKept, Typed, TypeOK
<1>2. ASSUME NEW out, call' = Resolved(out) PROVE CallsMove /\ \A c \in Calls : CallKept(c)
  BY <1>2, ResolvedFacts DEF CallsMove, CallKept
<1> QED BY <1>1, <1>2

LEMMA OneCallMoves ==
    ASSUME Typed, NEW c \in Calls, NEW w \in CallStates, NEW out,
           call' \in {[call EXCEPT ![c] = w], [Resolved(out) EXCEPT ![c] = w]},
           w.pc # "idle" => w.turn \in Ids /\ Blames(w),
           w.pc = "drain" => w.late \/ Opened(c)
    PROVE  CallsMove /\ call'[c] = w /\ \A d \in Calls \ {c} : CallKept(d)
<1>1. call \in [Calls -> CallStates]
  BY DEF Typed, TypeOK
<1>2. CASE call' = [call EXCEPT ![c] = w]
  BY <1>1, <1>2 DEF CallsMove, CallKept
<1>3. CASE call' = [Resolved(out) EXCEPT ![c] = w]
  <2>1. Resolved(out) \in [Calls -> CallStates]
    BY ResolvedFacts
  <2>2. call' \in [Calls -> CallStates] /\ call'[c] = w
        /\ \A d \in Calls \ {c} : call'[d] = Resolved(out)[d]
    BY <1>3, <2>1
  <2>3. \A d \in Calls \ {c} : CallKept(d)
    BY <2>2, ResolvedFacts DEF CallKept
  <2> QED BY <2>2, <2>3 DEF CallsMove
<1> QED BY <1>2, <1>3

LEMMA IdleTyped == Idle \in CallStates /\ Idle.pc = "idle"
  BY DEF Idle, CallStates, Hooks, Messages

\* A turn answers as before when none of it is attempted and calls only leave.
LEMMA NoAnswer ==
    ASSUME Typed, Ids' = Ids, \A o \in Ids : turns'[o].attempted = turns[o].attempted,
           \A o \in Ids : /\ telegram'[o].answers = telegram[o].answers
                          /\ telegram'[o].fallbacks = telegram[o].fallbacks,
           NEW D, \A c \in Calls \ D : CallKept(c), \A c \in D : call'[c].pc # "answer"
    PROVE  AnswersKept
  BY DEF AnswersKept, CallKept

LEMMA SameRoutes ==
    ASSUME Typed, RoutesSpent, Ids' = Ids, UNCHANGED <<routes, used>>,
           \A o \in Ids : telegram'[o].from = telegram[o].from
    PROVE  RoutesMove
  BY DEF RoutesMove, RoutesSpent, Typed, TypeOK, Sound

\* Routes change, and no turn is bound.
LEMMA LessRoutes ==
    ASSUME Typed, RoutesSpent, Ids' = Ids, UNCHANGED used, Sound(routes'),
           Routed(routes') \subseteq Routed(routes),
           \A o \in Ids : telegram'[o].from = telegram[o].from
    PROVE  RoutesMove
  BY DEF RoutesMove, RoutesSpent, Typed, TypeOK, Sound

LEMMA SoundRoutes == ASSUME IInv PROVE Sound(routes) /\ routes \in Stores
  BY DEF IInv, RoutesSpent, Typed, TypeOK, Sound

LEMMA SilencedTyped ==
    ASSUME Typed, NEW out PROVE Silenced(out) \in [Chats -> 0..Len(turns)]
<1>1. typing \in [Chats -> 0..Len(turns)] /\ Len(turns) \in Nat
  BY Facts DEF Typed, TypeOK
<1> QED BY <1>1 DEF Silenced

LEMMA CostsTyped ==
    ASSUME Typed, Costs \/ UNCHANGED events PROVE events' \in 0..MaxEvents
  BY DEF Typed, TypeOK, Costs

-----------------------------------------------------------------------------
(* Hooks, timers and expiries.                                               *)

\* A step of one turn that leaves calls, chats and heartbeats alone.
LEMMA ChangeMoves ==
    ASSUME Typed, NEW o \in Ids, NEW u \in Turns, Advances(turns[o], u),
           u.attempted = turns[o].attempted, Change(o, u), Costs \/ UNCHANGED events
    PROVE  /\ TurnsMove /\ CallsMove /\ AnswersKept /\ RestTyped
           /\ Ids' = Ids /\ \A p \in Ids : telegram'[p].from = telegram[p].from
<1>1. turns' = [turns EXCEPT ![o] = u] /\ UNCHANGED <<call, typing, incidents, telegram>>
  BY DEF Change
<1>2. TurnsMove /\ Ids' = Ids /\ turns'[o] = u /\ \A p \in Ids \ {o} : turns'[p] = turns[p]
  BY <1>1, SameTelegram, OneTurnMoves
<1>3. CallsMove /\ \A c \in Calls : CallKept(c)
  BY <1>1, SameCallsMove
<1>4. AnswersKept
  BY <1>1, <1>2, <1>3 DEF AnswersKept, CallKept
<1>5. RestTyped
  <2>1. Len(turns') = Len(turns)
    BY <1>1 DEF Typed, TypeOK
  <2> QED BY <1>1, <2>1, CostsTyped DEF RestTyped, Typed, TypeOK
<1> QED BY <1>1, <1>2, <1>3, <1>4, <1>5

LEMMA QuietHooks ==
    ASSUME IInv, NEW o \in Ids, Costs,
           \/ RecordTool(o)
           \/ \E a \in Agents : RecordSubagentStart(o, a) \/ RecordSubagentStop(o, a)
    PROVE  IInv'
<1>. DEFINE t == turns[o]
<1>1. Typed /\ RoutesSpent /\ t \in Turns
  BY Facts DEF IInv
<1>2. SUFFICES ASSUME NEW u \in Turns, Advances(t, u), u.attempted = t.attempted, Change(o, u),
                      UNCHANGED <<routes, used>>
               PROVE  IInv'
  <2>1. ASSUME RecordTool(o)
        PROVE  \E u \in Turns : /\ Advances(t, u) /\ u.attempted = t.attempted /\ Change(o, u)
                                /\ UNCHANGED <<routes, used>>
    <3>1. Kept(t, Step(t))
      BY <1>1, StepKept
    <3> QED BY <1>1, <2>1, <3>1, KeptAdvances DEF RecordTool
  <2>2. ASSUME NEW a \in Agents, RecordSubagentStart(o, a)
        PROVE  \E u \in Turns : /\ Advances(t, u) /\ u.attempted = t.attempted /\ Change(o, u)
                                /\ UNCHANGED <<routes, used>>
    <3>. DEFINE v == [t EXCEPT !.agents[a] = "running"]
    <3>1. Kept(t, v)
      BY <1>1, AgentKept DEF AgentStates
    <3>2. Change(o, TouchBackground(v)) /\ UNCHANGED <<routes, used>>
      BY <2>2 DEF RecordSubagentStart
    <3>. HIDE DEF v
    <3>3. v \in Turns
      BY <1>1, <3>1, KeptAdvances
    <3>4. Kept(t, TouchBackground(v))
      BY <1>1, <3>1, <3>3, TouchBackgroundKept, KeptTransitive
    <3> QED BY <1>1, <3>2, <3>4, KeptAdvances
  <2>3. ASSUME NEW a \in Agents, RecordSubagentStop(o, a)
        PROVE  \E u \in Turns : /\ Advances(t, u) /\ u.attempted = t.attempted /\ Change(o, u)
                                /\ UNCHANGED <<routes, used>>
    <3>. DEFINE v == [t EXCEPT !.agents[a] = "completed"]
                x == [v EXCEPT !.timer = FALSE]
    <3>1. Kept(t, v)
      BY <1>1, AgentKept DEF AgentStates
    <3>2. PICK ok \in Configured :
            Change(o, IF v.phase = "background" THEN Enqueue(x, ok) ELSE v)
      BY <2>3 DEF RecordSubagentStop
    <3>3. UNCHANGED <<routes, used>> /\ ok \in BOOLEAN
      BY <2>3 DEF RecordSubagentStop
    <3>. HIDE DEF v
    <3>4. v \in Turns
      BY <1>1, <3>1, KeptAdvances
    <3>5. Kept(v, x)
      BY <3>4, FieldKept
    <3>. HIDE DEF x
    <3>6. Kept(t, x)
      BY <1>1, <3>1, <3>5, KeptTransitive
    <3>7. /\ Advances(t, Enqueue(x, ok)) /\ Enqueue(x, ok) \in Turns
          /\ Enqueue(x, ok).attempted = t.attempted
      BY <1>1, <3>3, <3>6, EnqueueAdvances DEF Kept
    <3> QED BY <1>1, <3>1, <3>2, <3>3, <3>7, KeptAdvances
  <2> QED BY <2>1, <2>2, <2>3
<1>3. /\ TurnsMove /\ CallsMove /\ AnswersKept /\ RestTyped
      /\ Ids' = Ids /\ \A p \in Ids : telegram'[p].from = telegram[p].from
  BY <1>1, <1>2, ChangeMoves
<1> QED BY <1>1, <1>2, <1>3, SameRoutes, MovesKeep

LEMMA DebounceKeeps ==
    ASSUME IInv, NEW o \in Ids, Debounce(o) PROVE IInv'
<1>. DEFINE x == [turns[o] EXCEPT !.timer = FALSE]
<1>1. Typed /\ RoutesSpent /\ turns[o] \in Turns
  BY Facts DEF IInv
<1>2. PICK ok \in Configured : Change(o, Enqueue(x, ok))
  BY DEF Debounce
<1>3. Kept(turns[o], x)
  BY <1>1, FieldKept
<1>. HIDE DEF x
<1>4. /\ Advances(turns[o], Enqueue(x, ok)) /\ Enqueue(x, ok) \in Turns
      /\ Enqueue(x, ok).attempted = turns[o].attempted
  BY <1>1, <1>3, EnqueueAdvances DEF Kept
<1>5. UNCHANGED <<routes, used, events>>
  BY DEF Debounce
<1>6. /\ TurnsMove /\ CallsMove /\ AnswersKept /\ RestTyped
      /\ Ids' = Ids /\ \A p \in Ids : telegram'[p].from = telegram[p].from
  BY <1>1, <1>2, <1>4, <1>5, ChangeMoves
<1> QED BY <1>1, <1>5, <1>6, SameRoutes, MovesKeep

LEMMA RoutedHook ==
    ASSUME IInv, NEW o \in Ids, NEW k \in Tasks, RecordRouted(o, k), Costs PROVE IInv'
<1>. DEFINE t == turns[o]
            routed == [t EXCEPT !.tasks = @ \cup {k}]
            route == [owner |-> o, chat |-> t.chat, depth |-> t.depth + 1,
                      made |-> Cardinality(used), aliases |-> {}, due |-> FALSE]
<1>1. Typed /\ RoutesSpent /\ t \in Turns /\ Sound(routes) /\ IsFiniteSet(used) /\ used \subseteq Tasks
  BY Facts, SoundRoutes DEF IInv, Typed, TypeOK
<1>2. k \notin used /\ used' = used \cup {k} /\ k \notin Routed(routes)
  BY DEF RecordRouted, IInv, RoutesSpent
<1>3. IsFiniteSet(used') /\ used' \subseteq Tasks
  BY <1>1, <1>2, FS_AddElement
<1>4. CASE t.depth < MaxDepth
  <2>1. routes' = Remember(routes, k, route) /\ Change(o, Step(routed))
    BY <1>4 DEF RecordRouted
  <2>2. route \in Routes /\ route.aliases = {}
    <3>1. Cardinality(used) \in Nat
      BY <1>1, FS_CardinalityType
    <3>2. o \in 1..MaxTurns
      BY <1>1, Facts DEF Typed, TypeOK
    <3>3. t.chat \in Chats /\ t.depth + 1 \in 1..MaxDepth
      BY <1>1, <1>4 DEF Turns
    <3> QED BY <3>1, <3>2, <3>3 DEF Routes
  <2>3. routed \in Turns
    BY <1>1 DEF Turns
  <2>4. t.steps \in Nat
    BY <1>1 DEF Turns
  <2>5. Kept(t, routed)
    BY <1>1, <2>3, <2>4 DEF Kept, Steady, Turns
  <2>. HIDE DEF routed, route
  <2>6. Kept(t, Step(routed))
    BY <1>1, <2>3, <2>5, StepKept, KeptTransitive
  <2>7. Sound(routes') /\ Routed(routes') \subseteq Routed(routes) \cup {k}
    BY <1>1, <1>2, <2>1, <2>2, RememberKeeps
  <2>8. /\ TurnsMove /\ CallsMove /\ AnswersKept /\ RestTyped
        /\ Ids' = Ids /\ \A p \in Ids : telegram'[p].from = telegram[p].from
    BY <1>1, <2>1, <2>6, KeptAdvances, ChangeMoves
  <2>9. RoutesMove
    BY <1>1, <1>2, <1>3, <2>7, <2>8 DEF RoutesMove, RoutesSpent
  <2> QED BY <2>8, <2>9, MovesKeep
<1>5. CASE ~(t.depth < MaxDepth)
  <2>1. UNCHANGED routes /\ Change(o, Step(t))
    BY <1>5 DEF RecordRouted
  <2>2. Kept(t, Step(t))
    BY <1>1, StepKept
  <2>3. /\ TurnsMove /\ CallsMove /\ AnswersKept /\ RestTyped
        /\ Ids' = Ids /\ \A p \in Ids : telegram'[p].from = telegram[p].from
    BY <1>1, <2>1, <2>2, KeptAdvances, ChangeMoves
  <2>4. RoutesMove
    BY <1>1, <1>2, <1>3, <2>1, <2>3 DEF RoutesMove, RoutesSpent
  <2> QED BY <2>3, <2>4, MovesKeep
<1> QED BY <1>4, <1>5

LEMMA LaunchedHook ==
    ASSUME IInv, NEW o \in Ids, NEW k \in Tasks, NEW a \in Agents, RecordLaunched(o, k, a), Costs
    PROVE  IInv'
<1>1. Typed /\ RoutesSpent /\ turns[o] \in Turns /\ Sound(routes)
  BY Facts, SoundRoutes DEF IInv
<1>2. routes' = NameTask(routes, k, a) /\ Change(o, Step(turns[o])) /\ UNCHANGED used
  BY DEF RecordLaunched
<1>3. Sound(routes') /\ Routed(routes') = Routed(routes)
  BY <1>1, <1>2, NameTaskKeeps
<1>4. Kept(turns[o], Step(turns[o]))
  BY <1>1, StepKept
<1>5. /\ TurnsMove /\ CallsMove /\ AnswersKept /\ RestTyped
      /\ Ids' = Ids /\ \A p \in Ids : telegram'[p].from = telegram[p].from
  BY <1>1, <1>2, <1>4, KeptAdvances, ChangeMoves
<1> QED BY <1>1, <1>2, <1>3, <1>5, LessRoutes, MovesKeep

\* The end of a task changes its owner and the turn whose hook it was.
LEMMA EndedTurns ==
    ASSUME Typed, NEW o \in Ids, NEW owner, NEW k, NEW a \in Agents \cup {None}
    PROVE  /\ Ended(o, owner, k, a) \in Seq(Turns) /\ Len(Ended(o, owner, k, a)) = Len(turns)
           /\ \A p \in Ids : Kept(turns[p], Ended(o, owner, k, a)[p])
<1>. DEFINE t == AgentEnds(TaskEnds(turns[owner], k), a, "killed")
            told == IF owner = o \/ turns[o].phase = "foreground" THEN t
                    ELSE [t EXCEPT !.timer = turns[owner].timer]
            all == IF owner \in Live THEN [turns EXCEPT ![owner] = told] ELSE turns
            end == [all EXCEPT ![o] = Step(@)]
<1>1. Ended(o, owner, k, a) = end
  BY DEF Ended
<1>2. turns \in Seq(Turns) /\ Ids = 1..Len(turns)
      /\ \A p \in Ids : turns[p] \in Turns /\ Kept(turns[p], turns[p])
  BY Facts, KeptSame DEF Typed, TypeOK
<1>3. ASSUME owner \in Live PROVE Kept(turns[owner], told) /\ told \in Turns
  <2>1. turns[owner] \in Turns
    BY <1>2, <1>3 DEF Live
  <2>2. Kept(turns[owner], TaskEnds(turns[owner], k)) /\ TaskEnds(turns[owner], k) \in Turns
    BY <2>1, TaskEndsKept, KeptAdvances
  <2>3. Kept(TaskEnds(turns[owner], k), t)
    BY <2>2, AgentEndsKept DEF Statuses
  <2>. HIDE DEF t
  <2>4. Kept(turns[owner], t) /\ t \in Turns
    BY <2>1, <2>2, <2>3, KeptTransitive, KeptAdvances
  <2>5. Kept(t, [t EXCEPT !.timer = turns[owner].timer])
    <3>1. turns[owner].timer \in BOOLEAN
      BY <2>1 DEF Turns
    <3> QED BY <2>4, <3>1, FieldKept
  <2>6. Kept(turns[owner], [t EXCEPT !.timer = turns[owner].timer])
    BY <2>1, <2>4, <2>5, KeptTransitive
  <2> QED BY <2>1, <2>4, <2>6, KeptAdvances
<1>. HIDE DEF told, t
<1>4. /\ all \in Seq(Turns) /\ Len(all) = Len(turns) /\ DOMAIN all = Ids
      /\ \A p \in Ids : Kept(turns[p], all[p])
  <2>1. CASE owner \in Live
    <3>1. owner \in 1..Len(turns) /\ all = [turns EXCEPT ![owner] = told]
      BY <1>2, <2>1 DEF Live
    <3>2. /\ all \in Seq(Turns) /\ Len(all) = Len(turns)
          /\ \A p \in 1..Len(turns) : all[p] = IF p = owner THEN told ELSE turns[p]
      BY <1>2, <1>3, <2>1, <3>1, ExceptSeq
    <3> QED BY <1>2, <1>3, <2>1, <3>2
  <2>2. CASE owner \notin Live
    BY <1>2, <2>2
  <2> QED BY <2>1, <2>2
<1>. HIDE DEF all
<1>5. all[o] \in Turns /\ Kept(all[o], Step(all[o])) /\ Step(all[o]) \in Turns
  <2>1. all[o] \in Turns
    BY <1>2, <1>4, KeptAdvances
  <2> QED BY <2>1, StepKept, KeptAdvances
<1>6. /\ end \in Seq(Turns) /\ Len(end) = Len(turns)
      /\ \A p \in Ids : end[p] = IF p = o THEN Step(all[p]) ELSE all[p]
  <2>1. end = [all EXCEPT ![o] = Step(all[o])]
    BY <1>4
  <2>2. o \in 1..Len(all)
    BY <1>2, <1>4
  <2> QED BY <1>2, <1>4, <1>5, <2>1, <2>2, ExceptSeq
<1>. HIDE DEF end
<1>7. ASSUME NEW p \in Ids PROVE Kept(turns[p], end[p])
  BY <1>2, <1>4, <1>5, <1>6, KeptTransitive
<1> QED BY <1>1, <1>6, <1>7

LEMMA EndedHooks ==
    ASSUME IInv, NEW o \in Ids, Costs,
           \/ \E k \in Tasks : RecordEnded(o, k)
           \/ \E a \in Agents : RecordTaskStop(o, a)
    PROVE  IInv'
<1>1. Typed /\ RoutesSpent /\ Sound(routes)
  BY SoundRoutes DEF IInv
<1>2. PICK k, owner, a : /\ a \in Agents \cup {None}
                         /\ routes' = Forget(routes, {k}) /\ turns' = Ended(o, owner, k, a)
                         /\ UNCHANGED <<call, typing, incidents, telegram, used>>
  BY DEF RecordEnded, RecordTaskStop
<1>3. Sound(routes') /\ Routed(routes') \subseteq Routed(routes)
  BY <1>1, <1>2, ForgetKeeps
<1>4. /\ turns' \in Seq(Turns) /\ Len(turns') = Len(turns)
      /\ \A p \in Ids : Kept(turns[p], turns'[p])
  BY <1>1, <1>2, EndedTurns
<1>5. Ids' = Ids
  BY <1>1, <1>4, Facts, LenProperties DEF Ids
<1>6. TurnsMove
  <2>1. \A p \in Ids : Advances(turns[p], turns'[p])
    BY <1>1, <1>4, Facts, KeptAdvances
  <2> QED BY <1>1, <1>2, <1>4, <1>5, <2>1, Facts, SameTelegram DEF TurnsMove, TelegramKept, Typed, TypeOK
<1>7. CallsMove /\ \A c \in Calls : CallKept(c)
  BY <1>1, <1>2, SameCallsMove
<1>8. AnswersKept
  BY <1>2, <1>4, <1>5, <1>7 DEF AnswersKept, CallKept, Kept
<1>9. RestTyped
  BY <1>1, <1>2, <1>4, CostsTyped DEF RestTyped, Typed, TypeOK
<1>10. RoutesMove
  BY <1>1, <1>2, <1>3, <1>5, LessRoutes
<1> QED BY <1>6, <1>7, <1>8, <1>9, <1>10, MovesKeep

\* Time passes, or a prompt binds nothing.
LEMMA ExpiresKeep ==
    ASSUME IInv, Costs, BindNothing \/ Expires PROVE IInv'
<1>1. Typed /\ RoutesSpent /\ Sound(routes)
  BY SoundRoutes DEF IInv
<1>2. UNCHANGED <<turns, telegram, used>>
  BY DEF BindNothing, Expires, RouteExpires, IncidentExpires, HeartbeatEnds, DrainExpires
<1>3. TurnsMove /\ Ids' = Ids
  BY <1>1, <1>2, SameTelegram, SameTurnsMove
<1>4. Sound(routes') /\ Routed(routes') \subseteq Routed(routes)
  <2>1. CASE BindNothing
    BY <1>1, <2>1, PruneKeeps DEF BindNothing
  <2>2. ASSUME NEW k \in Tasks, RouteExpires(k) PROVE Sound(routes') /\ Routed(routes') \subseteq Routed(routes)
    BY <1>1, <2>2, ExpireKeeps DEF RouteExpires
  <2>3. CASE UNCHANGED routes
    BY <1>1, <2>3
  <2> QED BY <2>1, <2>2, <2>3 DEF Expires, IncidentExpires, HeartbeatEnds, DrainExpires
<1>5. CallsMove /\ \A c \in Calls : call'[c].pc = "answer" => call[c].pc = "answer" /\ call'[c].turn = call[c].turn
  <2>1. CASE UNCHANGED call
    BY <1>1, <2>1, SameCallsMove
  <2>2. ASSUME NEW c \in Calls, DrainExpires(c)
        PROVE  CallsMove /\ \A d \in Calls : call'[d].pc = "answer" =>
                                call[d].pc = "answer" /\ call'[d].turn = call[d].turn
    <3>. DEFINE w == [call[c] EXCEPT !.wait = 0, !.late = TRUE]
    <3>1. call[c] \in CallStates /\ call[c].turn \in Ids /\ call[c].pc = "drain" /\ Blames(call[c])
      <4>1. call[c].pc = "drain"
        BY <2>2 DEF DrainExpires
      <4> QED BY <1>1, <4>1 DEF Typed, TypeOK
    <3>2. w \in CallStates /\ w.pc = "drain" /\ w.late /\ w.turn \in Ids /\ Blames(w)
      BY <3>1 DEF CallStates, Blames
    <3>3. call' = [call EXCEPT ![c] = w]
      BY <1>1, <2>2 DEF DrainExpires, Typed, TypeOK, CallStates
    <3>. HIDE DEF w
    <3>4. CallsMove /\ call'[c] = w /\ \A d \in Calls \ {c} : CallKept(d)
      BY <1>1, <3>2, <3>3, OneCallMoves
    <3> QED BY <3>2, <3>4 DEF CallKept
  <2> QED BY <2>1, <2>2 DEF BindNothing, Expires, RouteExpires, IncidentExpires, HeartbeatEnds
<1>6. AnswersKept
  BY <1>2, <1>3, <1>5 DEF AnswersKept
<1>7. RestTyped
  <2>1. typing' \in [Chats -> 0..Len(turns)]
    <3>1. typing \in [Chats -> 0..Len(turns)] /\ 0 \in 0..Len(turns)
      BY <1>1, Facts DEF Typed, TypeOK
    <3>2. UNCHANGED typing \/ \E chat \in Chats : typing' = [typing EXCEPT ![chat] = 0]
      BY DEF BindNothing, Expires, RouteExpires, IncidentExpires, HeartbeatEnds, DrainExpires
    <3> QED BY <3>1, <3>2
  <2>2. incidents' \subseteq incidents
    BY DEF BindNothing, Expires, RouteExpires, IncidentExpires, HeartbeatEnds, DrainExpires
  <2> QED BY <1>1, <1>2, <2>1, <2>2, CostsTyped DEF RestTyped, Typed, TypeOK
<1>8. RoutesMove
  BY <1>1, <1>2, <1>3, <1>4, LessRoutes
<1> QED BY <1>3, <1>5, <1>6, <1>7, <1>8, MovesKeep

-----------------------------------------------------------------------------
(* A turn is bound.                                                          *)

LEMMA NothingTyped ==
    ASSUME NEW from \in Tasks \cup {None}
    PROVE  LET r == Nothing(from) IN
           /\ r \in Received /\ r.bubbles = <<>> /\ r.answers = 0 /\ r.fallbacks = 0
           /\ r.from = from
<1>1. <<>> \in Seq([phase : Phases, text : Texts, gone : BOOLEAN])
  BY EmptySeq
<1> QED BY <1>1 DEF Nothing, Received

\* The turn may be evicted at once, and others with it.
LEMMA BindMoves ==
    ASSUME Typed, NEW t \in Turns, t.chain = 0, t.flight = None, t.phase = "foreground",
           t.bubble = "none", NEW owned \in Seq(Turns), Len(owned) = Len(turns),
           \A o \in Ids : Kept(turns[o], owned[o]),
           NEW out, NEW from \in Tasks \cup {None}, Bind(t, owned, out, from), Costs
    PROVE  /\ TurnsMove /\ CallsMove /\ AnswersKept /\ RestTyped /\ UNCHANGED used
           /\ \A o \in Ids : telegram'[o].from = telegram[o].from
           /\ \E n \in Ids' : Ids' \ Ids = {n} /\ telegram'[n].from = from
<1>. DEFINE n == Len(turns) + 1
            all == Append(owned, t)
            Gone(o) == [Dropped(all[o]) EXCEPT !.live = FALSE]
<1>1. PICK gone : /\ n <= MaxTurns
                  /\ turns' = [o \in 1..n |-> IF o \in gone THEN Gone(o) ELSE all[o]]
                  /\ telegram' = Append(telegram, Nothing(from))
                  /\ call' = Resolved(gone)
                  /\ typing' = IF t.background THEN Silenced(gone)
                               ELSE [Silenced(gone) EXCEPT ![t.chat] = n]
                  /\ UNCHANGED <<incidents, used>>
  BY DEF Bind
<1>2. /\ Len(turns) \in Nat /\ Ids = 1..Len(turns)
      /\ \A o \in Ids : turns[o] \in Turns /\ telegram[o] \in Received
      /\ telegram \in Seq(Received) /\ Len(telegram) = Len(turns)
  BY Facts DEF Typed, TypeOK
<1>3. /\ all[n] = t /\ \A o \in Ids : all[o] = owned[o]
  BY <1>2
<1>4. \A o \in 1..n : all[o] \in Turns
  <2> SUFFICES ASSUME NEW o \in 1..n PROVE all[o] \in Turns
    OBVIOUS
  <2>1. CASE o = n
    BY <1>3, <2>1
  <2>2. CASE o # n
    <3>1. o \in Ids
      BY <1>2, <2>2
    <3> QED BY <1>2, <1>3, <3>1, KeptAdvances
  <2> QED BY <2>1, <2>2
<1>. HIDE DEF all
<1>5. \A o \in 1..n : Kept(all[o], Gone(o)) /\ Kept(all[o], all[o])
  <2> SUFFICES ASSUME NEW o \in 1..n PROVE Kept(all[o], Gone(o)) /\ Kept(all[o], all[o])
    OBVIOUS
  <2>1. all[o] \in Turns
    BY <1>4
  <2>2. Kept(all[o], Dropped(all[o])) /\ Dropped(all[o]) \in Turns
    BY <2>1, DroppedKept, KeptAdvances
  <2>3. Kept(Dropped(all[o]), Gone(o))
    BY <2>2, FieldKept
  <2> QED BY <2>1, <2>2, <2>3, KeptTransitive, KeptSame
<1>. HIDE DEF Gone
<1>6. \A o \in 1..n : Kept(all[o], turns'[o]) /\ turns'[o] \in Turns
  BY <1>1, <1>4, <1>5, KeptAdvances
<1>7. n \in Nat /\ n \notin Ids /\ 1..n = Ids \cup {n}
  BY <1>2
<1>8. turns' \in Seq(Turns) /\ Len(turns') = n /\ Ids' = 1..n
  <2>1. turns' \in [1..n -> Turns]
    BY <1>1, <1>6
  <2>2. turns' \in Seq(Turns) /\ Len(turns') = n
    BY <1>7, <2>1
  <2> QED BY <2>1, <2>2 DEF Ids
<1>9. \A o \in Ids : Kept(turns[o], turns'[o])
  BY <1>2, <1>3, <1>6, <1>7, KeptTransitive
<1>10. Kept(t, turns'[n])
  BY <1>3, <1>6, <1>7
<1>11. /\ telegram' \in Seq(Received) /\ Len(telegram') = n
       /\ telegram'[n] = Nothing(from) /\ \A o \in Ids : telegram'[o] = telegram[o]
  <2>1. Nothing(from) \in Received
    BY NothingTyped
  <2> QED BY <1>1, <1>2, <2>1
<1>12. TurnsMove
  <2>1. \A o \in Ids : Advances(turns[o], turns'[o])
    BY <1>2, <1>9, KeptAdvances
  <2>2. turns'[n].chain = 0 /\ turns'[n].flight = None
        /\ turns'[n].phase = "foreground" /\ turns'[n].bubble # "have"
    BY <1>10 DEF Kept, Steady
  <2>3. telegram'[n].bubbles = <<>>
    BY <1>11, NothingTyped
  <2>4. n \in Len(turns)..MaxTurns
    BY <1>1, <1>2 DEF Typed, TypeOK
  <2> QED BY <1>7, <1>8, <1>11, <2>1, <2>2, <2>3, <2>4 DEF TurnsMove, SameBubbles
<1>13. CallsMove /\ \A c \in Calls : CallKept(c)
  BY <1>1, SameCallsMove
<1>14. AnswersKept
  <2>1. telegram'[n].answers = 0 /\ telegram'[n].fallbacks = 0
    BY <1>11, NothingTyped
  <2> QED BY <1>7, <1>8, <1>9, <1>11, <1>13, <2>1 DEF AnswersKept, CallKept, Kept
<1>15. RestTyped
  <2>1. Silenced(gone) \in [Chats -> 0..n]
    BY <1>2, SilencedTyped
  <2>2. typing' \in [Chats -> 0..Len(turns')]
    <3>1. n \in 0..n /\ Len(turns') = n
      BY <1>7, <1>8
    <3> QED BY <1>1, <2>1, <3>1
  <2> QED BY <1>1, <2>2, CostsTyped DEF RestTyped, Typed, TypeOK
<1>16. Ids' \ Ids = {n} /\ n \in Ids' /\ telegram'[n].from = from
  BY <1>7, <1>8, <1>11, NothingTyped
<1> QED BY <1>1, <1>11, <1>12, <1>13, <1>14, <1>15, <1>16

LEMMA KeyTyped ==
    ASSUME Typed, NEW key \in Keys, Len(turns) + 1 <= MaxTurns PROVE key \in 1..MaxTurns
<1>1. Len(turns) \in Nat /\ Ids = 1..Len(turns)
  BY Facts
<1> QED BY <1>1 DEF Keys

LEMMA PromptBinds ==
    ASSUME IInv, NEW chat \in Chats, NEW key \in Keys, BindPrompt(chat, key), Costs PROVE IInv'
<1>. DEFINE t == NewTurn(chat, key, FALSE, 0, None, TRUE)
<1>1. Typed /\ RoutesSpent /\ Sound(routes)
  BY SoundRoutes DEF IInv
<1>2. PICK out : routes' = Prune(routes) /\ Bind(t, turns, out, None)
  BY DEF BindPrompt
<1>3. Len(turns) + 1 <= MaxTurns
  BY <1>2 DEF Bind
<1>4. /\ t \in Turns /\ t.chain = 0 /\ t.flight = None /\ t.phase = "foreground"
      /\ t.bubble = "none"
  <2>1. key \in 1..MaxTurns
    BY <1>1, <1>3, KeyTyped
  <2>2. FALSE \in BOOLEAN /\ TRUE \in BOOLEAN /\ 0 \in 0..MaxDepth /\ None \in Statuses \cup {None}
    OBVIOUS
  <2> QED BY <2>1, <2>2 DEF NewTurn, Turns, Open, AgentStates, Phases
<1>. HIDE DEF t
<1>5. turns \in Seq(Turns) /\ \A o \in Ids : Kept(turns[o], turns[o])
  BY <1>1, Facts, KeptSame DEF Typed, TypeOK
<1>6. /\ TurnsMove /\ CallsMove /\ AnswersKept /\ RestTyped /\ UNCHANGED used
      /\ \A o \in Ids : telegram'[o].from = telegram[o].from
      /\ \E n \in Ids' : Ids' \ Ids = {n} /\ telegram'[n].from = None
  BY <1>1, <1>2, <1>4, <1>5, BindMoves
<1>7. Sound(routes') /\ Routed(routes') \subseteq Routed(routes)
  BY <1>1, <1>2, PruneKeeps
<1>8. RoutesMove
  BY <1>1, <1>6, <1>7 DEF RoutesMove, RoutesSpent, Typed, TypeOK
<1> QED BY <1>6, <1>8, MovesKeep

LEMMA CompletionBinds ==
    ASSUME IInv, NEW key \in Keys, NEW k \in Tasks \cup {None}, NEW a \in Agents \cup {None},
           NEW status \in Statuses, BindCompletion(key, k, a, status), Costs
    PROVE  IInv'
<1>. DEFINE kept == Prune(routes)
            task == Named(kept, k, a)
            r == RouteOf(kept, task)
            t == NewTurn(r.chat, key, TRUE, r.depth, status, status = "failed")
            told == Told(turns[r.owner], task, r, a, status)
            owned == [turns EXCEPT ![r.owner] = IF @.live THEN Told(@, task, r, a, status) ELSE @]
<1>1. Typed /\ RoutesSpent /\ Sound(routes)
  BY SoundRoutes DEF IInv
<1>2. PICK out : /\ task # None /\ routes' = Forget(kept, {task})
                 /\ Bind(t, owned, out, task)
  BY DEF BindCompletion
<1>3. Len(turns) + 1 <= MaxTurns
  BY <1>2 DEF Bind
<1>4. Sound(kept) /\ Routed(kept) \subseteq Routed(routes) /\ task \in Routed(kept)
  BY <1>1, <1>2, PruneKeeps, NamedRouted
<1>5. r \in Routes /\ task \in Tasks /\ Routed(routes) \subseteq Tasks
  BY <1>1, <1>4, StoreFacts DEF Sound
<1>. HIDE DEF task, kept
<1>6. /\ t \in Turns /\ t.chain = 0 /\ t.flight = None /\ t.phase = "foreground"
      /\ t.bubble = "none"
  <2>1. r.chat \in Chats /\ r.depth \in 0..MaxDepth
    BY <1>5 DEF Routes
  <2>2. key \in 1..MaxTurns
    BY <1>1, <1>3, KeyTyped
  <2>3. TRUE \in BOOLEAN /\ (status = "failed") \in BOOLEAN /\ status \in Statuses \cup {None}
    OBVIOUS
  <2> QED BY <2>1, <2>2, <2>3 DEF NewTurn, Turns, Open, AgentStates, Phases
<1>. HIDE DEF t
<1>7. ASSUME r.owner \in Ids PROVE Kept(turns[r.owner], told)
  <2>. DEFINE b == IF a \in r.aliases THEN a ELSE None
              v == TaskEnds(turns[r.owner], task)
  <2>1. turns[r.owner] \in Turns /\ b \in Agents \cup {None}
    BY <1>1, <1>5, <1>7, Facts DEF Routes
  <2>2. Kept(turns[r.owner], v) /\ v \in Turns
    BY <2>1, TaskEndsKept, KeptAdvances
  <2>3. told = AgentEnds(v, b, status)
    BY DEF Told
  <2>. HIDE DEF v, b
  <2> QED BY <2>1, <2>2, <2>3, AgentEndsKept, KeptTransitive
<1>8. /\ owned \in Seq(Turns) /\ Len(owned) = Len(turns)
      /\ \A o \in Ids : Kept(turns[o], owned[o])
  <2>1. turns \in Seq(Turns) /\ Ids = 1..Len(turns) /\ DOMAIN turns = Ids
        /\ \A o \in Ids : turns[o] \in Turns /\ Kept(turns[o], turns[o])
    BY <1>1, Facts, KeptSame DEF Typed, TypeOK, Ids
  <2>2. CASE r.owner \in Ids
    <3>. DEFINE u == IF turns[r.owner].live THEN told ELSE turns[r.owner]
    <3>1. owned = [turns EXCEPT ![r.owner] = u]
      BY <2>1, <2>2
    <3>2. Kept(turns[r.owner], u) /\ u \in Turns
      BY <1>7, <2>1, <2>2, KeptAdvances
    <3>. HIDE DEF u, owned
    <3>3. /\ owned \in Seq(Turns) /\ Len(owned) = Len(turns)
          /\ \A o \in 1..Len(turns) : owned[o] = IF o = r.owner THEN u ELSE turns[o]
      BY <2>1, <2>2, <3>1, <3>2, ExceptSeq
    <3> QED BY <2>1, <3>2, <3>3
  <2>3. CASE r.owner \notin Ids
    <3>1. owned = turns
      BY <2>1, <2>3
    <3> QED BY <2>1, <3>1
  <2> QED BY <2>2, <2>3
<1>. HIDE DEF owned
<1>9. /\ TurnsMove /\ CallsMove /\ AnswersKept /\ RestTyped /\ UNCHANGED used
      /\ \A o \in Ids : telegram'[o].from = telegram[o].from
      /\ \E n \in Ids' : Ids' \ Ids = {n} /\ telegram'[n].from = task
  BY <1>1, <1>2, <1>5, <1>6, <1>8, BindMoves
<1>10. Sound(routes') /\ Routed(routes') = Routed(kept) \ {task}
  BY <1>2, <1>4, ForgetKeeps
<1>11. RoutesMove
  BY <1>1, <1>4, <1>9, <1>10 DEF RoutesMove, RoutesSpent, Typed, TypeOK
<1> QED BY <1>9, <1>11, MovesKeep

-----------------------------------------------------------------------------
(* Telegram answers a progress call.                                         *)

\* The chat's record of a turn, but for its bubbles.
SameTexts(r, q) ==
    /\ q.answers = r.answers /\ q.fallbacks = r.fallbacks /\ q.notices = r.notices
    /\ q.from = r.from

\* No answer and no notice is sent.
NoNews ==
    \A p \in Ids : /\ telegram'[p].answers = telegram[p].answers
                  /\ telegram'[p].notices = telegram[p].notices

LEMMA AdvancedFacts ==
    ASSUME Typed, NEW o \in Ids, NEW u \in Turns, u.chain <= turns[o].chain, NEW c \in Calls
    PROVE  LET w == Advanced(o, turns[o].chain - u.chain)[c] IN
           /\ w \in CallStates /\ w.pc = call[c].pc /\ w.turn = call[c].turn
           /\ Blames(call[c]) => Blames(w)
           /\ w = IF call[c].turn = o /\ call[c].pc \in {"drain", "background"}
                  THEN Closer(call[c], turns[o], u) ELSE call[c]
<1>. DEFINE w == Advanced(o, turns[o].chain - u.chain)[c]
            n == turns[o].chain - u.chain
<1>1. turns[o] \in Turns /\ call[c] \in CallStates
  BY Facts DEF Typed, TypeOK
<1>2. n \in Nat
  BY <1>1 DEF Turns
<1>3. w = IF call[c].turn = o /\ call[c].pc \in {"drain", "background"}
          THEN Closer(call[c], turns[o], u) ELSE call[c]
  BY DEF Advanced, Closer
<1>. HIDE DEF w, n
<1>4. Closer(call[c], turns[o], u) = [call[c] EXCEPT !.wait = IF @ > n THEN @ - n ELSE 0]
  BY DEF Closer, n
<1>5. (IF call[c].wait > n THEN call[c].wait - n ELSE 0) \in Nat
  BY <1>1, <1>2 DEF CallStates
<1>6. /\ Closer(call[c], turns[o], u) \in CallStates
      /\ Closer(call[c], turns[o], u).pc = call[c].pc
      /\ Closer(call[c], turns[o], u).turn = call[c].turn
      /\ Blames(call[c]) => Blames(Closer(call[c], turns[o], u))
  BY <1>1, <1>4, <1>5 DEF CallStates, Blames
<1> QED BY <1>1, <1>3, <1>6 DEF w

LEMMA AnswerKeeps ==
    ASSUME IInv, NEW o \in Ids, NEW u, NEW q \in Received, NEW outcome,
           Answer(o, outcome, u, q), AnswerFits(turns[o], telegram[o], u, q),
           SameTexts(telegram[o], q)
    PROVE  IInv' /\ NoNews
<1>1. Typed /\ RoutesSpent /\ BubbleInv
  BY DEF IInv
<1>2. /\ turns' = [turns EXCEPT ![o] = u] /\ telegram' = [telegram EXCEPT ![o] = q]
      /\ call' = Advanced(o, turns[o].chain - u.chain)
      /\ UNCHANGED <<routes, typing, incidents, used>> /\ (Costs \/ UNCHANGED events)
  BY DEF Answer
<1>3. /\ turns \in Seq(Turns) /\ telegram \in Seq(Received) /\ o \in 1..Len(turns)
      /\ Len(telegram) = Len(turns) /\ Ids = 1..Len(turns)
  BY <1>1, Facts DEF Typed, TypeOK
<1>4. u \in Turns /\ u.attempted = turns[o].attempted /\ u.chain <= turns[o].chain
      /\ Chained(u) /\ Fits(u, q)
  BY DEF AnswerFits
<1>5. /\ turns' \in Seq(Turns) /\ Len(turns') = Len(turns) /\ Ids' = Ids
      /\ \A p \in Ids : turns'[p] = IF p = o THEN u ELSE turns[p]
  BY <1>2, <1>3, <1>4, ExceptSeq DEF Ids
<1>6. /\ telegram' \in Seq(Received) /\ Len(telegram') = Len(telegram)
      /\ \A p \in Ids : telegram'[p] = IF p = o THEN q ELSE telegram[p]
  BY <1>2, <1>3, ExceptSeq
<1>7. ASSUME NEW c \in Calls
      PROVE  /\ call'[c] \in CallStates /\ call'[c].pc = call[c].pc /\ call'[c].turn = call[c].turn
             /\ Blames(call[c]) => Blames(call'[c])
             /\ call'[c] = IF call[c].turn = o /\ call[c].pc \in {"drain", "background"}
                           THEN Closer(call[c], turns[o], u) ELSE call[c]
  BY <1>1, <1>2, <1>4, AdvancedFacts
<1>8. call' \in [Calls -> CallStates]
  <2>1. call' = [c \in Calls |-> call'[c]]
    BY <1>2 DEF Advanced
  <2> QED BY <1>7, <2>1
<1>9. Typed'
  <2>1. TypeOK'
    BY <1>1, <1>2, <1>5, <1>6, <1>8, CostsTyped DEF Typed, TypeOK
  <2>2. (\A c \in Calls : call[c].pc # "idle" => call[c].turn \in Ids /\ Blames(call[c]))'
    <3>1. ASSUME NEW c \in Calls, call'[c].pc # "idle" PROVE call'[c].turn \in Ids' /\ Blames(call'[c])
      BY <1>1, <1>5, <1>7, <3>1 DEF Typed
    <3> QED BY <3>1 DEF Blames
  <2> QED BY <1>1, <1>2, <2>1, <2>2 DEF Typed
<1>10. (\A p \in Ids : AnswersOnce(p))'
  <2>1. AnswersKept
    BY <1>4, <1>5, <1>6, <1>7 DEF AnswersKept, SameTexts
  <2> QED BY <1>1, <1>9, <2>1, AnswersMove DEF IInv
<1>11. RoutesSpent'
  <2>1. RoutesMove
    BY <1>1, <1>2, <1>5, <1>6, SameRoutes DEF SameTexts
  <2> QED BY <1>1, <2>1, RoutesKept
<1>12. BubbleInv'
  <2>1. \A p \in Ids' : Chained(turns'[p]) /\ Fits(turns'[p], telegram'[p])
    BY <1>1, <1>4, <1>5, <1>6 DEF BubbleInv
  <2>2. ASSUME NEW c \in Calls, call'[c].pc = "drain"
        PROVE  Drains(call'[c], turns'[call'[c].turn], telegram'[call'[c].turn])
    <3>1. call[c].pc = "drain" /\ call[c].turn \in Ids /\ call'[c].turn = call[c].turn
      BY <1>1, <1>7, <2>2 DEF Typed
    <3>2. Drains(call[c], turns[call[c].turn], telegram[call[c].turn]) /\ call[c] \in CallStates
      BY <1>1, <3>1 DEF BubbleInv, Typed, TypeOK
    <3>3. CASE call[c].turn = o
      <4>1. call'[c] = Closer(call[c], turns[o], u)
        BY <1>7, <3>1, <3>3
      <4>2. Drains(call'[c], u, q)
        BY <3>2, <3>3, <4>1 DEF AnswerFits
      <4> QED BY <1>5, <1>6, <3>1, <3>3, <4>2
    <3>4. CASE call[c].turn # o
      BY <1>5, <1>6, <1>7, <3>1, <3>2, <3>4
    <3> QED BY <3>3, <3>4
  <2> QED BY <2>1, <2>2 DEF BubbleInv
<1>13. NoNews
  BY <1>6 DEF NoNews, SameTexts
<1> QED BY <1>9, <1>10, <1>11, <1>12, <1>13 DEF IInv

LEMMA EditAnswered ==
    ASSUME IInv, NEW o \in Ids, NEW outcome \in EditOutcomes, AnswerEdit(o, outcome)
    PROVE  IInv' /\ NoNews
<1>. DEFINE t == turns[o]
            r == telegram[o]
            i == t.flight.message
            f == t.flight.text
            shown == [r EXCEPT !.bubbles[i].text = f]
            q == IF outcome = "edited" THEN [shown EXCEPT !.lost = FALSE]
                 ELSE IF outcome = "gone" THEN [r EXCEPT !.bubbles[i].gone = TRUE]
                 ELSE IF outcome = "transient" THEN [r EXCEPT !.lost = TRUE]
                 ELSE r
<1>1. /\ t \in Turns /\ r \in Received /\ Chained(t) /\ Fits(t, r)
      /\ t.flight # None /\ t.flight.op = "edit"
  BY Facts DEF IInv, BubbleInv, AnswerEdit
<1>2. PICK ok \in Configured : Answer(o, outcome, Edited(t, outcome, ok), q)
  BY DEF AnswerEdit
<1>3. t.flight \in Flights /\ f \in Texts /\ i \in DOMAIN r.bubbles
  BY <1>1 DEF Turns, Flights, Fits, FlightFits
<1>4. r.bubbles \in Seq([phase : Phases, text : Texts, gone : BOOLEAN])
      /\ DOMAIN r.bubbles = 1..Len(r.bubbles)
  BY <1>1, LenProperties DEF Received
<1>5. r.bubbles[i] \in [phase : Phases, text : Texts, gone : BOOLEAN]
  BY <1>3, <1>4, ElementOfSeq
<1>6. /\ [r.bubbles EXCEPT ![i].text = f] \in Seq([phase : Phases, text : Texts, gone : BOOLEAN])
      /\ [r.bubbles EXCEPT ![i].gone = TRUE] \in Seq([phase : Phases, text : Texts, gone : BOOLEAN])
  <2>. DEFINE x == [r.bubbles[i] EXCEPT !.text = f]
              y == [r.bubbles[i] EXCEPT !.gone = TRUE]
  <2>1. /\ x \in [phase : Phases, text : Texts, gone : BOOLEAN]
        /\ y \in [phase : Phases, text : Texts, gone : BOOLEAN]
    BY <1>3, <1>5
  <2>2. /\ [r.bubbles EXCEPT ![i].text = f] = [r.bubbles EXCEPT ![i] = x]
        /\ [r.bubbles EXCEPT ![i].gone = TRUE] = [r.bubbles EXCEPT ![i] = y]
    OBVIOUS
  <2>3. i \in 1..Len(r.bubbles)
    BY <1>3, <1>4
  <2>. HIDE DEF x, y, i
  <2>4. [r.bubbles EXCEPT ![i] = x] \in Seq([phase : Phases, text : Texts, gone : BOOLEAN])
    BY <1>4, <2>1, <2>3, ExceptSeq
  <2>5. [r.bubbles EXCEPT ![i] = y] \in Seq([phase : Phases, text : Texts, gone : BOOLEAN])
    BY <1>4, <2>1, <2>3, ExceptSeq
  <2> QED BY <2>2, <2>4, <2>5
<1>7. q \in Received /\ EditSeen(t, r, outcome, q) /\ SameTexts(r, q)
  <2>1. CASE outcome = "edited"
    <3>1. q = [r EXCEPT !.bubbles = [r.bubbles EXCEPT ![i].text = f], !.lost = FALSE]
      BY <1>1, <2>1 DEF Received
    <3>. HIDE DEF q, f, i
    <3>2. q \in Received
      BY <1>1, <1>6, <3>1 DEF Received
    <3>3. q.bubbles = [r.bubbles EXCEPT ![i].text = f] /\ q.lost = FALSE /\ SameTexts(r, q)
      BY <1>1, <3>1 DEF Received, SameTexts
    <3> QED BY <2>1, <3>2, <3>3 DEF EditSeen, f, i
  <2>2. CASE outcome = "gone"
    <3>1. q = [r EXCEPT !.bubbles = [r.bubbles EXCEPT ![i].gone = TRUE]]
      BY <1>1, <2>2 DEF Received
    <3>. HIDE DEF q, f, i
    <3>2. q \in Received
      BY <1>1, <1>6, <3>1 DEF Received
    <3>3. q.bubbles = [r.bubbles EXCEPT ![i].gone = TRUE] /\ q.lost = r.lost /\ SameTexts(r, q)
      BY <1>1, <3>1 DEF Received, SameTexts
    <3> QED BY <2>2, <3>2, <3>3 DEF EditSeen, f, i
  <2>3. CASE outcome = "transient"
    BY <1>1, <2>3 DEF Received, SameTexts, EditSeen
  <2>4. CASE outcome = "rejected"
    BY <1>1, <2>4 DEF Received, SameTexts, EditSeen
  <2> QED BY <2>1, <2>2, <2>3, <2>4 DEF EditOutcomes
<1>. HIDE DEF q
<1>8. AnswerFits(t, r, Edited(t, outcome, ok), q)
  BY <1>1, <1>7, EditedFits
<1> QED BY <1>2, <1>7, <1>8, AnswerKeeps

LEMMA SendAnswered ==
    ASSUME IInv, NEW o \in Ids, NEW outcome \in SendOutcomes, AnswerSend(o, outcome)
    PROVE  IInv' /\ NoNews
<1>. DEFINE t == turns[o]
            r == telegram[o]
            b == NewBubble(t)
            more == [r EXCEPT !.bubbles = Append(@, b)]
<1>1. /\ t \in Turns /\ r \in Received /\ Chained(t) /\ Fits(t, r)
      /\ t.flight # None /\ t.flight.op = "send"
  BY Facts DEF IInv, BubbleInv, AnswerSend
<1>2. PICK ok \in Configured,
           q \in (IF outcome = "sent" THEN {[more EXCEPT !.lost = FALSE]}
                  ELSE IF outcome = "uncertain" THEN {r, more} ELSE {r}) :
        Answer(o, outcome, Sent(t, outcome, Len(more.bubbles), ok), q)
  BY DEF AnswerSend, NewBubble
<1>3. b \in [phase : Phases, text : Texts, gone : BOOLEAN]
  BY <1>1 DEF Turns, Flights, NewBubble, Texts, Phases
<1>4. r.bubbles \in Seq([phase : Phases, text : Texts, gone : BOOLEAN])
  BY <1>1 DEF Received
<1>5. /\ Append(r.bubbles, b) \in Seq([phase : Phases, text : Texts, gone : BOOLEAN])
      /\ Len(Append(r.bubbles, b)) = Len(r.bubbles) + 1
  BY <1>3, <1>4
<1>. HIDE DEF b
<1>6. /\ more \in Received /\ more.bubbles = Append(r.bubbles, b) /\ more.lost = r.lost
      /\ SameTexts(r, more)
  BY <1>1, <1>5 DEF Received, SameTexts
<1>7. SameTexts(r, r)
  BY DEF SameTexts
<1>. HIDE DEF more
<1>8. q \in Received /\ SendSeen(t, r, outcome, q) /\ SameTexts(r, q)
  <2>1. CASE outcome = "sent"
    <3>1. q = [more EXCEPT !.lost = FALSE]
      BY <1>2, <2>1
    <3>2. q \in Received /\ q.bubbles = Append(r.bubbles, b) /\ q.lost = FALSE /\ SameTexts(r, q)
      BY <1>6, <3>1 DEF Received, SameTexts
    <3> QED BY <2>1, <3>2 DEF SendSeen, b
  <2>2. CASE outcome = "uncertain"
    BY <1>1, <1>2, <1>6, <1>7, <2>2 DEF SendSeen, b
  <2>3. CASE outcome = "rejected"
    BY <1>1, <1>2, <1>7, <2>3 DEF SendSeen
  <2> QED BY <2>1, <2>2, <2>3 DEF SendOutcomes
<1>9. AnswerFits(t, r, Sent(t, outcome, Len(r.bubbles) + 1, ok), q)
  BY <1>1, <1>8, SentFits
<1> QED BY <1>2, <1>5, <1>6, <1>8, <1>9, AnswerKeeps

-----------------------------------------------------------------------------
(* Handlers go on.                                                           *)

LEMMA KeptQueued ==
    ASSUME NEW t \in Turns, NEW u, NEW v, Kept(t, u), Queued(u, v) PROVE Queued(t, v)
<1>1. t.steps \in Nat /\ u.steps \in Nat /\ v.steps \in Nat
  BY DEF Turns, Kept, Steady, Queued
<1> QED BY <1>1 DEF Kept, Steady, Queued

\* What a handler c does to its turn o, which becomes u, to the chat, which
\* now has q of it, and to itself; texts of a turn that left are not started.
Handled(c, o, u, q, w) ==
    /\ turns' = [turns EXCEPT ![o] = u] /\ u \in Turns /\ Advances(turns[o], u)
    /\ telegram' = [telegram EXCEPT ![o] = q] /\ q \in Received
    /\ q.bubbles = telegram[o].bubbles /\ q.lost = telegram[o].lost /\ q.from = telegram[o].from
    /\ q.answers > telegram[o].answers \/ q.notices > telegram[o].notices => o \in Live
    /\ w \in CallStates
    /\ w.pc # "idle" => w.turn = o /\ Blames(w)
    /\ w.pc = "drain" => Opened(c)
    /\ call' = [call EXCEPT ![c] = w] \/ \E out : call' = [Resolved(out) EXCEPT ![c] = w]
    /\ typing' \in [Chats -> 0..Len(turns)] /\ incidents' \subseteq Chats \X Errors
    /\ UNCHANGED <<routes, used>>

\* What of it matters for the answer of the turn.
AnswersStill(c, o, u, q, w) ==
    /\ q.answers + q.fallbacks <= 1
    /\ ~u.attempted => q.answers = 0 /\ q.fallbacks = 0
    /\ w.pc = "answer" => u.attempted /\ q.answers = 1 /\ q.fallbacks = 0
    /\ \A d \in Calls \ {c} : call[d].pc = "answer" /\ call[d].turn = o =>
          w.pc # "answer" /\ u.attempted /\ q.answers = 1 /\ q.fallbacks = 0

\* Every handler's step is of that form.
Handles(c) == \E o \in Ids : \E u, q, w : Handled(c, o, u, q, w) /\ AnswersStill(c, o, u, q, w)

\* What a step may not start once a turn has left.
NoStale ==
    \A o \in Ids : (telegram'[o].answers > telegram[o].answers
                    \/ telegram'[o].notices > telegram[o].notices) => o \in Live

LEMMA HandledKeeps ==
    ASSUME IInv, NEW c \in Calls, Handles(c), Costs \/ UNCHANGED events PROVE IInv' /\ NoStale
<1>1. PICK o \in Ids : \E u, q, w : Handled(c, o, u, q, w) /\ AnswersStill(c, o, u, q, w)
  BY DEF Handles
<1>2. PICK u, q, w : Handled(c, o, u, q, w) /\ AnswersStill(c, o, u, q, w)
  BY <1>1
<1>3. Typed /\ RoutesSpent /\ BubbleInv
  BY DEF IInv
<1>4. /\ turns \in Seq(Turns) /\ telegram \in Seq(Received) /\ o \in 1..Len(turns)
      /\ Len(telegram) = Len(turns) /\ Ids = 1..Len(turns)
      /\ \A p \in Ids : turns[p] \in Turns /\ telegram[p] \in Received
  BY <1>3, Facts DEF Typed, TypeOK
<1>5. /\ telegram' \in Seq(Received) /\ Len(telegram') = Len(telegram)
      /\ \A p \in Ids : telegram'[p] = IF p = o THEN q ELSE telegram[p]
  <2>1. telegram' = [telegram EXCEPT ![o] = q] /\ q \in Received /\ o \in 1..Len(telegram)
    BY <1>2, <1>4 DEF Handled
  <2> QED BY <1>4, <2>1, ExceptSeq
<1>6. \A p \in Ids : SameBubbles(p) /\ telegram'[p].from = telegram[p].from
  BY <1>2, <1>5 DEF SameBubbles, Handled
<1>7. /\ TurnsMove /\ Ids' = Ids /\ turns'[o] = u
      /\ \A p \in Ids \ {o} : turns'[p] = turns[p]
  <2>1. TelegramKept
    BY <1>5, <1>6 DEF TelegramKept
  <2>2. /\ turns' = [turns EXCEPT ![o] = u] /\ u \in Turns /\ Advances(turns[o], u)
    BY <1>2 DEF Handled
  <2> QED BY <1>3, <2>1, <2>2, OneTurnMoves
<1>8. CallsMove /\ call'[c] = w /\ \A d \in Calls \ {c} : CallKept(d)
  <2>1. /\ w \in CallStates
        /\ w.pc # "idle" => w.turn \in Ids /\ Blames(w)
        /\ w.pc = "drain" => w.late \/ Opened(c)
    BY <1>2 DEF Handled
  <2>2. PICK out : call' \in {[call EXCEPT ![c] = w], [Resolved(out) EXCEPT ![c] = w]}
    BY <1>2 DEF Handled
  <2> QED BY <1>3, <2>1, <2>2, OneCallMoves
<1>9. RoutesMove
  <2>1. UNCHANGED <<routes, used>>
    BY <1>2 DEF Handled
  <2> QED BY <1>3, <1>6, <1>7, <2>1, SameRoutes
<1>10. RestTyped
  <2>1. Len(turns') = Len(turns)
    BY <1>2, <1>4 DEF Handled
  <2>2. typing' \in [Chats -> 0..Len(turns)] /\ incidents' \subseteq Chats \X Errors
    BY <1>2 DEF Handled
  <2> QED BY <1>3, <2>1, <2>2, CostsTyped DEF RestTyped
<1>11. Typed'
  BY <1>3, <1>7, <1>8, <1>9, <1>10, TypesKept
<1>12. ASSUME NEW p \in Ids' PROVE AnswersOnce(p)'
  <2>1. p \in Ids /\ AnswersOnce(p)
    BY <1>7 DEF IInv
  <2>2. ASSUME NEW d \in Calls, call'[d].pc = "answer", d # c
        PROVE  call[d].pc = "answer" /\ call'[d].turn = call[d].turn
    BY <1>8, <2>2 DEF CallKept
  <2>3. CASE p = o
    <3>1. turns'[p] = u /\ telegram'[p] = q
      BY <1>5, <1>7, <2>3
    <3>2. ASSUME NEW d \in Calls, call'[d].pc = "answer", call'[d].turn = p
          PROVE  /\ u.attempted /\ q.answers = 1 /\ q.fallbacks = 0
                 /\ d # c => w.pc # "answer" /\ call[d].pc = "answer" /\ call[d].turn = o
      BY <1>2, <1>8, <2>2, <2>3, <3>2 DEF AnswersStill
    <3>3. ASSUME NEW d \in Calls, call'[d].pc = "answer", call'[d].turn = p,
                 NEW e \in Calls, call'[e].pc = "answer", call'[e].turn = p
          PROVE  e = d
      BY <1>8, <2>1, <2>3, <3>2, <3>3 DEF AnswersOnce
    <3> QED BY <1>2, <3>1, <3>2, <3>3 DEF AnswersOnce, AnswersStill
  <2>4. CASE p # o
    <3>1. turns'[p] = turns[p] /\ telegram'[p] = telegram[p]
      BY <1>5, <1>7, <2>1, <2>4
    <3>2. ASSUME NEW d \in Calls, call'[d].pc = "answer", call'[d].turn = p
          PROVE  call[d].pc = "answer" /\ call[d].turn = p
      BY <1>2, <1>8, <2>2, <2>4, <3>2 DEF Handled
    <3> QED BY <2>1, <3>1, <3>2 DEF AnswersOnce
  <2> QED BY <2>3, <2>4
<1>13. NoStale
  <2> SUFFICES ASSUME NEW p \in Ids, telegram'[p].answers > telegram[p].answers
                        \/ telegram'[p].notices > telegram[p].notices
               PROVE  p \in Live
    BY DEF NoStale
  <2>1. CASE p = o
    BY <1>2, <1>5, <2>1 DEF Handled
  <2>2. CASE p # o
    <3>1. telegram[p].answers \in Nat /\ telegram[p].notices \in Nat
      BY <1>4 DEF Received
    <3> QED BY <1>5, <2>2, <3>1
  <2> QED BY <2>1, <2>2
<1> QED BY <1>3, <1>7, <1>8, <1>9, <1>11, <1>12, <1>13, RoutesKept, BubblesMove DEF IInv

\* The usual step: no answer starts or ends, and the bubbles stay as they are.
LEMMA NothingSaid ==
    ASSUME IInv, NEW c \in Calls, NEW o \in Ids, NEW u, NEW q, NEW w,
           u.attempted = turns[o].attempted, w.pc # "answer",
           q.answers = telegram[o].answers, q.fallbacks = telegram[o].fallbacks
    PROVE  AnswersStill(c, o, u, q, w)
  BY DEF IInv, AnswersOnce, AnswersStill

LEMMA SameTurn ==
    ASSUME Typed, NEW o \in Ids
    PROVE  /\ turns = [turns EXCEPT ![o] = turns[o]]
           /\ telegram = [telegram EXCEPT ![o] = telegram[o]]
           /\ turns[o] \in Turns /\ telegram[o] \in Received
           /\ \A q : q = telegram[o] => ~(q.answers > telegram[o].answers)
                                        /\ ~(q.notices > telegram[o].notices)
<1>1. turns[o] \in Turns /\ telegram[o] \in Received
  BY Facts
<1>2. telegram[o].answers \in Nat /\ telegram[o].notices \in Nat
  BY <1>1 DEF Received
<1> QED BY <1>1, <1>2 DEF Typed, TypeOK

\* A handler that leaves, or that only closes or drops its turn.
LEMMA TurnHandled ==
    ASSUME IInv, NEW c \in Calls, NEW o \in Ids, NEW u, Kept(turns[o], u),
           turns' = [turns EXCEPT ![o] = u],
           NEW w \in CallStates, w.pc # "idle" => w.turn = o /\ Blames(w),
           w.pc \notin {"drain", "answer"},
           call' = [call EXCEPT ![c] = w] \/ \E out : call' = [Resolved(out) EXCEPT ![c] = w],
           typing' \in [Chats -> 0..Len(turns)], incidents' \subseteq Chats \X Errors,
           UNCHANGED <<telegram, routes, used>>
    PROVE  Handles(c)
<1>1. Typed
  BY DEF IInv
<1>2. /\ telegram = [telegram EXCEPT ![o] = telegram[o]] /\ telegram[o] \in Received
      /\ turns[o] \in Turns
      /\ ~(telegram[o].answers > telegram[o].answers) /\ ~(telegram[o].notices > telegram[o].notices)
  BY <1>1, SameTurn
<1>3. u \in Turns /\ Advances(turns[o], u) /\ u.attempted = turns[o].attempted
  BY <1>2, KeptAdvances
<1>4. AnswersStill(c, o, u, telegram[o], w)
  BY <1>3, NothingSaid
<1>5. Handled(c, o, u, telegram[o], w)
  BY <1>2, <1>3 DEF Handled
<1> QED BY <1>4, <1>5 DEF Handles

LEMMA Leaves ==
    ASSUME IInv, NEW c \in Calls, NEW o \in Ids, Done(c),
           UNCHANGED <<turns, typing, incidents, telegram, routes, used>>
    PROVE  Handles(c)
<1>1. Typed
  BY DEF IInv
<1>2. turns' = [turns EXCEPT ![o] = turns[o]] /\ Kept(turns[o], turns[o])
  BY <1>1, SameTurn, KeptSame
<1>3. typing' \in [Chats -> 0..Len(turns)] /\ incidents' \subseteq Chats \X Errors
  BY <1>1 DEF Typed, TypeOK
<1> QED BY <1>2, <1>3, IdleTyped, TurnHandled DEF Done

LEMMA Finalizes ==
    ASSUME IInv, NEW c \in Calls, NEW o \in Ids, NEW t, Kept(turns[o], t),
           NEW state \in CallStates, state.turn = o, Blames(state),
           Finalize(c, o, t, state), UNCHANGED <<routes, used>>
    PROVE  Handles(c)
<1>1. Typed /\ turns[o] \in Turns
  BY Facts DEF IInv
<1>2. PICK ok \in Configured :
        LET final == Finalized(t, state.hook, ok) IN
        /\ turns' = [turns EXCEPT ![o] = final]
        /\ call' = [Resolved(IF final.failed THEN {o} ELSE {}) EXCEPT
                       ![c] = [state EXCEPT !.pc = "drain", !.wait = final.chain]]
        /\ typing' = Silenced({o})
        /\ UNCHANGED <<incidents, telegram>>
  BY DEF Finalize
<1>. DEFINE u == Finalized(t, state.hook, ok)
            w == [state EXCEPT !.pc = "drain", !.wait = u.chain]
<1>3. t \in Turns /\ t.attempted = turns[o].attempted /\ t.phase = turns[o].phase
  BY DEF Kept, Steady
<1>4. PICK v : /\ Queued(t, v) /\ Started(v, u)
               /\ v.closed # Open /\ v.phase = t.phase /\ v.attempted = t.attempted
  BY <1>3, FinalizedAdvances DEF CallStates
<1>5. /\ turns' = [turns EXCEPT ![o] = u] /\ typing' = Silenced({o})
      /\ \E out : call' = [Resolved(out) EXCEPT ![c] = w]
      /\ UNCHANGED <<incidents, telegram>>
  BY <1>2
<1>. HIDE DEF u
<1>6. Queued(turns[o], v)
  BY <1>1, <1>4, KeptQueued
<1>7. Advances(turns[o], u) /\ u \in Turns /\ u.attempted = turns[o].attempted /\ u.chain \in Nat
  BY <1>3, <1>4, <1>6 DEF Advances, Started, Turns
<1>8. w \in CallStates /\ w.pc = "drain" /\ w.turn = o /\ w.wait = u.chain /\ Blames(w)
  BY <1>7 DEF CallStates, Blames
<1>. HIDE DEF w
<1>9. Opened(c)
  <2>1. turns'[o] = u
    BY <1>1, <1>5 DEF Ids
  <2>2. call'[c] = w
    <3>1. PICK out : call' = [Resolved(out) EXCEPT ![c] = w]
      BY <1>5
    <3> QED BY <3>1 DEF Resolved
  <2> QED BY <1>3, <1>4, <1>6, <1>8, <2>1, <2>2 DEF Opened
<1>10. /\ telegram = [telegram EXCEPT ![o] = telegram[o]] /\ telegram[o] \in Received
       /\ ~(telegram[o].answers > telegram[o].answers) /\ ~(telegram[o].notices > telegram[o].notices)
  BY <1>1, SameTurn
<1>11. typing' \in [Chats -> 0..Len(turns)] /\ incidents' \subseteq Chats \X Errors
  BY <1>1, <1>5, SilencedTyped DEF Typed, TypeOK
<1>12. AnswersStill(c, o, u, telegram[o], w)
  BY <1>7, <1>8, NothingSaid
<1>13. Handled(c, o, u, telegram[o], w)
  BY <1>5, <1>7, <1>8, <1>9, <1>10, <1>11 DEF Handled
<1> QED BY <1>12, <1>13 DEF Handles

LEMMA Proceeds ==
    ASSUME IInv, NEW c \in Calls, NEW state \in CallStates, state.turn \in Ids, Blames(state),
           Proceed(c, state), UNCHANGED <<routes, used>>
    PROVE  Handles(c)
<1>. DEFINE o == state.turn
            t == [turns[o] EXCEPT !.failed = TRUE]
            untyped == [state EXCEPT !.typed = FALSE]
<1>1. turns[o] \in Turns
  BY Facts DEF IInv
<1>2. Kept(turns[o], turns[o]) /\ Kept(turns[o], t)
  BY <1>1, KeptSame, FieldKept
<1>3. CASE Finalize(c, o, turns[o], state)
  BY <1>2, <1>3, Finalizes
<1>4. CASE state.hook = "StopFailure" /\ Finalize(c, o, t, untyped)
  <2>1. untyped \in CallStates /\ untyped.turn = o /\ Blames(untyped)
    BY <1>4 DEF CallStates, Blames
  <2>. HIDE DEF t, untyped
  <2> QED BY <1>2, <1>4, <2>1, Finalizes
<1>5. CASE Done(c) /\ UNCHANGED <<turns, typing, incidents, telegram>>
  BY <1>5, Leaves
<1> QED BY <1>3, <1>4, <1>5 DEF Proceed

LEMMA FinishHook ==
    ASSUME IInv, NEW o \in Ids, NEW c \in Calls, NEW hook \in Hooks,
           NEW error \in Errors \cup {None}, NEW message \in Messages,
           FinishTurn(c, o, hook, error, message)
    PROVE  Handles(c)
<1>. DEFINE state == [Idle EXCEPT !.turn = o, !.hook = hook, !.error = error,
                                  !.message = message, !.typed = TRUE]
            w == [state EXCEPT !.pc = "grace", !.wait = 1]
<1>1. Typed /\ o \in 0..MaxTurns
  BY Facts DEF IInv, Typed, TypeOK
<1>2. state \in CallStates /\ state.turn = o /\ Blames(state)
  BY <1>1, IdleTyped DEF FinishTurn, CallStates, Blames, Idle, Hooks
<1>3. CASE Proceed(c, state)
  <2>1. UNCHANGED <<routes, used>>
    BY DEF FinishTurn
  <2>. HIDE DEF state
  <2> QED BY <1>2, <1>3, <2>1, Proceeds
<1>4. CASE call' = [call EXCEPT ![c] = w] /\ UNCHANGED <<turns, typing, incidents, telegram>>
  <2>. HIDE DEF state
  <2>1. w \in CallStates /\ w.turn = o /\ w.pc = "grace" /\ Blames(w)
    BY <1>2 DEF CallStates, Blames
  <2>. HIDE DEF w
  <2>2. turns' = [turns EXCEPT ![o] = turns[o]] /\ Kept(turns[o], turns[o])
    BY <1>1, <1>4, SameTurn, KeptSame
  <2>3. typing' \in [Chats -> 0..Len(turns)] /\ incidents' \subseteq Chats \X Errors
        /\ UNCHANGED <<telegram, routes, used>>
    BY <1>1, <1>4 DEF Typed, TypeOK, FinishTurn
  <2> QED BY <1>4, <2>1, <2>2, <2>3, TurnHandled
<1> QED BY <1>3, <1>4 DEF FinishTurn

LEMMA WatchHook ==
    ASSUME IInv, NEW o \in Ids, NEW c \in Calls, NEW error \in Errors, WatchFires(c, o, error)
    PROVE  Handles(c)
<1>. DEFINE state == [Idle EXCEPT !.turn = o, !.hook = "StopFailure", !.error = error]
            t == [turns[o] EXCEPT !.failed = TRUE]
<1>1. turns[o] \in Turns /\ o \in 0..MaxTurns
  BY Facts DEF IInv, Typed, TypeOK
<1>2. state \in CallStates /\ state.turn = o /\ Blames(state)
  BY <1>1, IdleTyped DEF CallStates, Blames, Idle, Hooks
<1>3. Kept(turns[o], t)
  BY <1>1, FieldKept
<1>4. Finalize(c, o, t, state) /\ UNCHANGED <<routes, used>>
  BY DEF WatchFires
<1>. HIDE DEF state, t
<1> QED BY <1>2, <1>3, <1>4, Finalizes

\* A handler that goes on has a turn; what it becomes keeps its turn.
LEMMA CallFacts ==
    ASSUME IInv, NEW c \in Calls, call[c].pc # "idle"
    PROVE  /\ call[c] \in CallStates /\ call[c].turn \in Ids /\ Blames(call[c])
           /\ \A pc \in {"answer", "fallback", "background", "notice"} :
                LET w == [call[c] EXCEPT !.pc = pc] IN
                /\ w \in CallStates /\ w.pc = pc /\ w.turn = call[c].turn /\ Blames(w)
           /\ \A n \in Nat :
                LET w == [call[c] EXCEPT !.pc = "background", !.wait = n] IN
                /\ w \in CallStates /\ w.pc = "background" /\ w.turn = call[c].turn /\ Blames(w)
           /\ LET w == [call[c] EXCEPT !.wait = 0] IN
                /\ w \in CallStates /\ w.pc = call[c].pc /\ w.turn = call[c].turn /\ Blames(w)
<1>1. call[c] \in CallStates /\ call[c].turn \in Ids /\ Blames(call[c])
  BY DEF IInv, Typed, TypeOK
<1> QED BY <1>1 DEF CallStates, Blames

LEMMA SteadyKept ==
    ASSUME NEW t \in Turns, NEW u, NEW v, Steady(t, u), Kept(u, v)
    PROVE  Steady(t, v) /\ Advances(t, v) /\ v \in Turns /\ v.attempted = u.attempted
<1>1. t.steps \in Nat /\ u.steps \in Nat /\ v.steps \in Nat
  BY DEF Turns, Kept, Steady
<1> QED BY <1>1 DEF Kept, Steady, Advances

LEMMA SmallSteps ==
    ASSUME IInv, NEW c \in Calls,
           Graced(c) \/ Disclosed(c) \/ GraceExpires(c) \/ Noticed(c)
    PROVE  Handles(c)
<1>. DEFINE o == call[c].turn
            w == [call[c] EXCEPT !.wait = 0]
<1>1. call[c].pc # "idle" /\ UNCHANGED <<routes, used>>
  BY DEF Graced, Disclosed, GraceExpires, Noticed
<1>2. call[c] \in CallStates /\ o \in Ids /\ Blames(call[c])
      /\ w \in CallStates /\ w.pc = call[c].pc /\ w.turn = o /\ Blames(w)
  BY <1>1, CallFacts
<1>3. Typed
  BY DEF IInv
<1>4. CASE Proceed(c, call[c])
  BY <1>1, <1>2, <1>4, Proceeds
<1>5. CASE Done(c) /\ UNCHANGED <<turns, typing, incidents, telegram>>
  BY <1>1, <1>2, <1>5, Leaves
<1>6. CASE GraceExpires(c)
  <2>1. call' = [call EXCEPT ![c] = w] /\ call[c].pc = "grace"
    BY <1>3, <1>6 DEF GraceExpires, Typed, TypeOK
  <2>2. turns' = [turns EXCEPT ![o] = turns[o]] /\ Kept(turns[o], turns[o])
    BY <1>2, <1>3, <1>6, SameTurn, KeptSame DEF GraceExpires
  <2>3. typing' \in [Chats -> 0..Len(turns)] /\ incidents' \subseteq Chats \X Errors
        /\ UNCHANGED <<telegram, routes, used>>
    BY <1>3, <1>6 DEF Typed, TypeOK, GraceExpires
  <2>. HIDE DEF w
  <2> QED BY <1>2, <2>1, <2>2, <2>3, TurnHandled
<1> QED BY <1>4, <1>5, <1>6 DEF Graced, Disclosed, Noticed

\* The chat gets one text more, or one that was too long is not counted.
LEMMA MoreReceived ==
    ASSUME NEW r \in Received
    PROVE  /\ LET q == [r EXCEPT !.notices = @ + 1] IN
              /\ q \in Received /\ q.bubbles = r.bubbles /\ q.lost = r.lost /\ q.from = r.from
              /\ q.answers = r.answers /\ q.fallbacks = r.fallbacks
           /\ LET q == [r EXCEPT !.fallbacks = @ + 1] IN
              /\ q \in Received /\ q.bubbles = r.bubbles /\ q.lost = r.lost /\ q.from = r.from
              /\ q.answers = r.answers /\ q.fallbacks = r.fallbacks + 1 /\ q.notices = r.notices
           /\ LET q == [r EXCEPT !.answers = @ + 1] IN
              /\ q \in Received /\ q.bubbles = r.bubbles /\ q.lost = r.lost /\ q.from = r.from
              /\ q.answers = r.answers + 1 /\ q.fallbacks = r.fallbacks
           /\ r.answers = 1 => LET q == [r EXCEPT !.answers = @ - 1] IN
              /\ q \in Received /\ q.bubbles = r.bubbles /\ q.lost = r.lost /\ q.from = r.from
              /\ q.answers = 0 /\ q.fallbacks = r.fallbacks /\ q.notices = r.notices
<1>1. \A n \in Nat : /\ [r EXCEPT !.notices = n] \in Received
                     /\ [r EXCEPT !.fallbacks = n] \in Received
                     /\ [r EXCEPT !.answers = n] \in Received
  BY DEF Received
<1>2. r.notices \in Nat /\ r.fallbacks \in Nat /\ r.answers \in Nat
  BY DEF Received
<1>3. /\ [r EXCEPT !.notices = @ + 1] \in Received
      /\ [r EXCEPT !.fallbacks = @ + 1] \in Received
      /\ [r EXCEPT !.answers = @ + 1] \in Received
      /\ r.answers = 1 => [r EXCEPT !.answers = @ - 1] \in Received
  <2>1. /\ r.notices + 1 \in Nat /\ r.fallbacks + 1 \in Nat /\ r.answers + 1 \in Nat
        /\ r.answers = 1 => r.answers - 1 \in Nat
    BY <1>2
  <2>2. [r EXCEPT !.notices = r.notices + 1] \in Received
    BY <1>1, <2>1
  <2>3. [r EXCEPT !.fallbacks = r.fallbacks + 1] \in Received
    BY <1>1, <2>1
  <2>4. [r EXCEPT !.answers = r.answers + 1] \in Received
    BY <1>1, <2>1
  <2>5. r.answers = 1 => [r EXCEPT !.answers = r.answers - 1] \in Received
    BY <1>1, <2>1
  <2> QED BY <2>2, <2>3, <2>4, <2>5
<1>4. r = [bubbles |-> r.bubbles, lost |-> r.lost, answers |-> r.answers,
           fallbacks |-> r.fallbacks, notices |-> r.notices, from |-> r.from]
  BY DEF Received
<1> QED BY <1>2, <1>3, <1>4

LEMMA Fails ==
    ASSUME IInv, NEW c \in Calls, call[c].pc # "idle", NEW error \in Errors,
           call[c].turn \in Live, Fail(c, call[c].turn, error), UNCHANGED <<routes, used>>
    PROVE  Handles(c)
<1>. DEFINE o == call[c].turn
            gone == [Dropped(turns[o]) EXCEPT !.live = FALSE]
            u == [gone EXCEPT !.failed = TRUE]
            w == [call[c] EXCEPT !.pc = "notice"]
            q == [telegram[o] EXCEPT !.notices = @ + 1]
<1>1. Typed /\ o \in Ids /\ turns[o] \in Turns /\ telegram[o] \in Received
  BY Facts, CallFacts DEF IInv
<1>2. Kept(turns[o], gone)
  <2>1. Kept(turns[o], Dropped(turns[o])) /\ Dropped(turns[o]) \in Turns
    BY <1>1, DroppedKept, KeptAdvances
  <2>2. Kept(Dropped(turns[o]), gone)
    BY <2>1, FieldKept
  <2> QED BY <1>1, <2>1, <2>2, KeptTransitive
<1>3. turns' = [turns EXCEPT ![o] = u]
  <2>1. Retire(o) = [turns EXCEPT ![o] = gone]
    BY <1>1 DEF Retire
  <2>. HIDE DEF gone
  <2>2. turns' = [[turns EXCEPT ![o] = gone] EXCEPT ![o].failed = TRUE]
    BY <2>1 DEF Fail
  <2> QED BY <1>1, <2>2 DEF Ids
<1>. HIDE DEF gone
<1>4. Kept(turns[o], u)
  <2>1. gone \in Turns
    BY <1>1, <1>2, KeptAdvances
  <2>2. Kept(gone, u)
    BY <2>1, FieldKept
  <2> QED BY <1>1, <1>2, <2>2, KeptTransitive
<1>. HIDE DEF u
<1>5. incidents' \subseteq Chats \X Errors
  <2>1. turns[o].chat \in Chats
    BY <1>1 DEF Turns
  <2> QED BY <1>1, <2>1 DEF Fail, Typed, TypeOK
<1>6. typing' \in [Chats -> 0..Len(turns)]
  BY <1>1, SilencedTyped DEF Fail
<1>7. CASE call' = [Resolved({o}) EXCEPT ![c] = w] /\ telegram' = [telegram EXCEPT ![o].notices = @ + 1]
  <2>1. w \in CallStates /\ w.pc = "notice" /\ w.turn = o /\ Blames(w)
    BY CallFacts
  <2>2. telegram' = [telegram EXCEPT ![o] = q]
    BY <1>1, <1>7, Facts
  <2>3. q \in Received /\ q.bubbles = telegram[o].bubbles /\ q.lost = telegram[o].lost
        /\ q.from = telegram[o].from /\ q.answers = telegram[o].answers
        /\ q.fallbacks = telegram[o].fallbacks
    BY <1>1, MoreReceived
  <2>. HIDE DEF w, q
  <2>4. AnswersStill(c, o, u, q, w)
    BY <1>1, <1>4, <2>1, <2>3, NothingSaid DEF Kept
  <2>5. Handled(c, o, u, q, w)
    BY <1>1, <1>3, <1>4, <1>5, <1>6, <1>7, <2>1, <2>2, <2>3, KeptAdvances DEF Handled
  <2> QED BY <1>1, <2>4, <2>5 DEF Handles
<1>8. CASE call' = [Resolved({o}) EXCEPT ![c] = Idle] /\ UNCHANGED telegram
  BY <1>1, <1>3, <1>4, <1>5, <1>6, <1>8, IdleTyped, TurnHandled
<1> QED BY <1>7, <1>8 DEF Fail

\* received is what the chat has of the turn, with no text more than before;
\* whatever the turn and the handler become next is fine for its answer.
LEMMA Concludes ==
    ASSUME IInv, NEW c \in Calls, call[c].pc # "idle",
           NEW t, Steady(turns[call[c].turn], t), NEW r \in Received,
           r.bubbles = telegram[call[c].turn].bubbles, r.lost = telegram[call[c].turn].lost,
           r.from = telegram[call[c].turn].from,
           r.answers <= telegram[call[c].turn].answers,
           r.notices <= telegram[call[c].turn].notices,
           \A u, w : u.attempted = t.attempted /\ w.pc # "answer" =>
                        AnswersStill(c, call[c].turn, u, r, w),
           Conclude(c, call[c].turn, t, r), UNCHANGED <<routes, used>>
    PROVE  Handles(c)
<1>. DEFINE o == call[c].turn
            Said(u, w) == /\ turns' = [turns EXCEPT ![o] = u]
                          /\ u \in Turns /\ Advances(turns[o], u) /\ u.attempted = t.attempted
                          /\ call' = [call EXCEPT ![c] = w]
                                \/ \E out : call' = [Resolved(out) EXCEPT ![c] = w]
                          /\ w \in CallStates /\ w.pc \notin {"drain", "answer"}
                          /\ w.pc # "idle" => w.turn = o /\ Blames(w)
<1>1. Typed /\ o \in Ids /\ turns[o] \in Turns /\ telegram[o] \in Received /\ t \in Turns
  BY Facts, CallFacts DEF IInv, Steady
<1>2. ~(r.answers > telegram[o].answers) /\ ~(r.notices > telegram[o].notices)
  BY <1>1 DEF Received
<1>3. telegram' = [telegram EXCEPT ![o] = r] /\ incidents' \subseteq Chats \X Errors
  BY <1>1 DEF Conclude, Typed, TypeOK
<1>4. typing' \in [Chats -> 0..Len(turns)]
  BY <1>1, SilencedTyped DEF Conclude, Typed, TypeOK
<1>5. SUFFICES \E u, w : Said(u, w)
  <2>1. PICK u, w : Said(u, w)
    BY <1>5
  <2>2. AnswersStill(c, o, u, r, w)
    BY <2>1
  <2>3. Handled(c, o, u, r, w)
    BY <1>2, <1>3, <1>4, <2>1 DEF Handled
  <2> QED BY <1>1, <2>2, <2>3 DEF Handles
<1>6. CASE /\ HasActive(t) /\ t.phase = "foreground"
           /\ \E ok \in Configured :
                LET next == InBackground(t, ok) IN
                /\ turns' = [turns EXCEPT ![o] = next]
                /\ call' = [call EXCEPT ![c].pc = "background", ![c].wait = next.chain]
  <2>1. PICK ok \in Configured :
                /\ turns' = [turns EXCEPT ![o] = InBackground(t, ok)]
                /\ call' = [call EXCEPT ![c].pc = "background", ![c].wait = InBackground(t, ok).chain]
    BY <1>6
  <2>. DEFINE u == InBackground(t, ok)
              w == [call[c] EXCEPT !.pc = "background", !.wait = u.chain]
  <2>2. turns[o].phase = "foreground"
    BY <1>6 DEF Steady
  <2>3. u \in Turns /\ Advances(turns[o], u) /\ u.attempted = t.attempted
    BY <1>1, <2>2, InBackgroundAdvances
  <2>4. turns' = [turns EXCEPT ![o] = u]
    BY <2>1
  <2>5. call' = [call EXCEPT ![c] = w]
    <3>1. call \in [Calls -> CallStates] /\ call[c] \in CallStates
      BY <1>1 DEF Typed, TypeOK
    <3>2. \A n : [call EXCEPT ![c].pc = "background", ![c].wait = n]
                = [call EXCEPT ![c] = [call[c] EXCEPT !.pc = "background", !.wait = n]]
      BY <3>1
    <3> QED BY <2>1, <3>2
  <2>. HIDE DEF u
  <2>6. w \in CallStates /\ w.pc = "background" /\ w.turn = o /\ Blames(w)
    BY <2>3, CallFacts DEF Turns
  <2>. HIDE DEF w
  <2>7. Said(u, w)
    BY <2>3, <2>4, <2>5, <2>6
  <2> QED BY <2>7
<1>7. CASE turns' = [turns EXCEPT ![o] = t] /\ Done(c)
  <2>1. Said(t, Idle)
    BY <1>1, <1>7, IdleTyped DEF Done, Advances
  <2> QED BY <2>1
<1>8. CASE /\ turns' = [turns EXCEPT ![o] = [Dropped(t) EXCEPT !.live = FALSE]]
           /\ call' = [Resolved({o}) EXCEPT ![c] = Idle]
  <2>. DEFINE u == [Dropped(t) EXCEPT !.live = FALSE]
  <2>1. Kept(t, Dropped(t)) /\ Dropped(t) \in Turns
    BY <1>1, DroppedKept, KeptAdvances
  <2>2. Kept(Dropped(t), u)
    BY <2>1, FieldKept
  <2>3. Kept(t, u)
    BY <1>1, <2>1, <2>2, KeptTransitive
  <2>4. turns' = [turns EXCEPT ![o] = u]
    BY <1>8
  <2>. HIDE DEF u
  <2>5. u \in Turns /\ Advances(turns[o], u) /\ u.attempted = t.attempted
    BY <1>1, <2>3, SteadyKept
  <2>6. Said(u, Idle)
    BY <1>8, <2>4, <2>5, IdleTyped
  <2> QED BY <2>6
<1> QED BY <1>6, <1>7, <1>8 DEF Conclude

\* What TooLarge and Deliver leave in the turn.
LEMMA ReservedTurn ==
    ASSUME NEW t \in Turns
    PROVE  /\ Steady(t, Reserved(t)) /\ Reserved(t) \in Turns /\ Reserved(t).attempted
           /\ LET u == [Reserved(t) EXCEPT !.retried = TRUE, !.attempted = FALSE] IN
              Advances(t, u) /\ u \in Turns /\ ~u.attempted
<1>. DEFINE x == Reserved(t)
            y == [x EXCEPT !.retried = TRUE]
            u == [x EXCEPT !.retried = TRUE, !.attempted = FALSE]
<1>1. Steady(t, x) /\ x \in Turns
  BY FieldKept DEF Reserved, Steady
<1>2. x.attempted
  BY DEF Reserved, Turns
<1>. HIDE DEF x
<1>3. Kept(x, y)
  BY <1>1, FieldKept
<1>4. Steady(t, y) /\ y \in Turns
  BY <1>1, <1>3, SteadyKept
<1>5. u = [y EXCEPT !.attempted = FALSE]
  BY <1>1 DEF Turns
<1>. HIDE DEF y
<1>6. Steady(y, u)
  BY <1>4, <1>5, FieldKept
<1>7. u \in Turns /\ ~u.attempted
  <2>1. u \in Turns
    BY <1>6 DEF Steady
  <2>2. u.attempted = FALSE
    BY <1>1 DEF Turns
  <2> QED BY <2>1, <2>2
<1>8. Steady(t, u)
  <2>. HIDE DEF u
  <2>1. t.steps \in Nat /\ y.steps \in Nat /\ u.steps \in Nat
    BY <1>4, <1>7 DEF Turns
  <2> QED BY <1>4, <1>6, <1>7, <2>1 DEF Steady
<1> QED BY <1>1, <1>2, <1>7, <1>8 DEF Advances, x

LEMMA TooLong ==
    ASSUME IInv, NEW c \in Calls, call[c].pc # "idle", NEW r \in Received,
           r.bubbles = telegram[call[c].turn].bubbles, r.lost = telegram[call[c].turn].lost,
           r.from = telegram[call[c].turn].from, r.notices = telegram[call[c].turn].notices,
           r.answers = 0, r.fallbacks = 0,
           \A d \in Calls \ {c} : ~(call[d].pc = "answer" /\ call[d].turn = call[c].turn),
           TooLarge(c, call[c].turn, r), UNCHANGED <<routes, used>>
    PROVE  Handles(c)
<1>. DEFINE o == call[c].turn
            t == Reserved(turns[o])
            u == [t EXCEPT !.retried = TRUE, !.attempted = FALSE]
            q == [r EXCEPT !.fallbacks = @ + 1]
            w == [call[c] EXCEPT !.pc = "fallback"]
<1>1. Typed /\ o \in Ids /\ turns[o] \in Turns /\ telegram[o] \in Received
  BY Facts, CallFacts DEF IInv
<1>2. telegram[o].answers \in Nat /\ telegram[o].notices \in Nat
  BY <1>1 DEF Received
<1>3. /\ Steady(turns[o], t) /\ t \in Turns /\ t.attempted
      /\ Advances(turns[o], u) /\ u \in Turns /\ ~u.attempted
  BY <1>1, ReservedTurn
<1>4. incidents \subseteq Chats \X Errors /\ typing \in [Chats -> 0..Len(turns)]
  BY <1>1 DEF Typed, TypeOK
<1>5. r.answers <= telegram[o].answers /\ r.notices <= telegram[o].notices
      /\ ~(r.answers > telegram[o].answers) /\ ~(r.notices > telegram[o].notices)
  BY <1>2
<1>6. Advances(turns[o], t)
  BY <1>3 DEF Advances
<1>7. CASE /\ turns' = [turns EXCEPT ![o] = u]
           /\ typing' = IF t.background THEN typing ELSE [typing EXCEPT ![t.chat] = o]
           /\ telegram' = [telegram EXCEPT ![o] = r]
           /\ Done(c) /\ UNCHANGED incidents
  <2>1. o \in 0..Len(turns)
    BY <1>1, Facts
  <2>. HIDE DEF t, u
  <2>6. t.chat \in Chats
    BY <1>3 DEF Turns
  <2>2. typing' \in [Chats -> 0..Len(turns)]
    BY <1>4, <1>7, <2>1, <2>6
  <2>3. AnswersStill(c, o, u, r, Idle)
    BY <1>3, IdleTyped DEF AnswersStill
  <2>4. Handled(c, o, u, r, Idle)
    BY <1>3, <1>4, <1>7, <1>5, <2>2, IdleTyped DEF Handled, Done
  <2> QED BY <1>1, <2>3, <2>4 DEF Handles
<1>8. CASE /\ turns' = [turns EXCEPT ![o] = t]
           /\ call' = [call EXCEPT ![c].pc = "fallback"]
           /\ telegram' = [telegram EXCEPT ![o] = q]
           /\ UNCHANGED <<typing, incidents>>
  <2>1. w \in CallStates /\ w.pc = "fallback" /\ w.turn = o /\ Blames(w)
    BY CallFacts
  <2>2. /\ q \in Received /\ q.bubbles = r.bubbles /\ q.lost = r.lost /\ q.from = r.from
        /\ q.answers = 0 /\ q.fallbacks = 1 /\ q.notices = r.notices
    <3>1. /\ q \in Received /\ q.bubbles = r.bubbles /\ q.lost = r.lost /\ q.from = r.from
          /\ q.answers = r.answers /\ q.fallbacks = r.fallbacks + 1 /\ q.notices = r.notices
      BY MoreReceived
    <3>. HIDE DEF q
    <3> QED BY <3>1
  <2>3. call' = [call EXCEPT ![c] = w]
    BY <1>8
  <2>. HIDE DEF t, u, q, w
  <2>4. AnswersStill(c, o, t, q, w)
    BY <1>3, <2>1, <2>2 DEF AnswersStill
  <2>5. Handled(c, o, t, q, w)
    BY <1>3, <1>4, <1>8, <1>5, <1>6, <2>1, <2>2, <2>3 DEF Handled
  <2> QED BY <1>1, <2>4, <2>5 DEF Handles
<1>9. CASE Conclude(c, o, t, r)
  <2>. HIDE DEF t, u
  <2>1. \A v, x : v.attempted = t.attempted /\ x.pc # "answer" => AnswersStill(c, o, v, r, x)
    BY <1>3 DEF AnswersStill
  <2> QED BY <1>3, <1>9, <1>5, <2>1, Concludes
<1> QED BY <1>7, <1>8, <1>9 DEF TooLarge

LEMMA Delivers ==
    ASSUME IInv, NEW c \in Calls, call[c].pc # "idle", call[c].turn \in Live,
           Deliver(c, call[c].turn), UNCHANGED <<routes, used>>
    PROVE  Handles(c)
<1>. DEFINE o == call[c].turn
            t == turns[o]
            r == telegram[o]
            u == Reserved(t)
            q == [r EXCEPT !.answers = @ + 1]
            w == [call[c] EXCEPT !.pc = "answer"]
<1>1. Typed /\ o \in Ids /\ t \in Turns /\ r \in Received
  BY Facts, CallFacts DEF IInv
<1>2. r.answers <= telegram[o].answers /\ r.notices <= telegram[o].notices
  BY <1>1 DEF Received
<1>3. t.attempted \in BOOLEAN
  BY <1>1 DEF Turns
<1>4. CASE ~t.attempted
  <2>1. /\ r.answers = 0 /\ r.fallbacks = 0
        /\ \A d \in Calls : ~(call[d].pc = "answer" /\ call[d].turn = o)
    BY <1>1, <1>4 DEF IInv, AnswersOnce
  <2>2. Steady(t, u) /\ u \in Turns /\ u.attempted
    BY <1>1, ReservedTurn
  <2>3. CASE Conclude(c, o, t, r)
    <3>1. Steady(t, t)
      BY <1>1, KeptSame DEF Kept
    <3>2. \A v, x : v.attempted = t.attempted /\ x.pc # "answer" => AnswersStill(c, o, v, r, x)
      BY <1>1, NothingSaid
    <3> QED BY <1>1, <1>2, <2>3, <3>1, <3>2, Concludes
  <2>4. CASE TooLarge(c, o, r)
    BY <1>1, <2>1, <2>4, TooLong
  <2>5. CASE Conclude(c, o, u, r)
    <3>. HIDE DEF u
    <3>1. \A v, x : v.attempted = u.attempted /\ x.pc # "answer" => AnswersStill(c, o, v, r, x)
      BY <2>1, <2>2 DEF AnswersStill
    <3> QED BY <1>1, <1>2, <2>2, <2>5, <3>1, Concludes
  <2>6. CASE /\ turns' = [turns EXCEPT ![o] = u]
             /\ call' = [call EXCEPT ![c].pc = "answer"]
             /\ telegram' = [telegram EXCEPT ![o].answers = @ + 1]
             /\ UNCHANGED <<typing, incidents>>
    <3>1. w \in CallStates /\ w.pc = "answer" /\ w.turn = o /\ Blames(w)
      BY CallFacts
    <3>2. /\ q \in Received /\ q.bubbles = r.bubbles /\ q.lost = r.lost /\ q.from = r.from
          /\ q.answers = 1 /\ q.fallbacks = 0
      <4>1. /\ q \in Received /\ q.bubbles = r.bubbles /\ q.lost = r.lost /\ q.from = r.from
            /\ q.answers = r.answers + 1 /\ q.fallbacks = r.fallbacks
        BY <1>1, MoreReceived
      <4>. HIDE DEF q
      <4> QED BY <2>1, <4>1
    <3>3. call' = [call EXCEPT ![c] = w]
      BY <2>6
    <3>4. telegram' = [telegram EXCEPT ![o] = q]
      BY <1>1, <2>6, Facts
    <3>5. incidents' \subseteq Chats \X Errors /\ typing' \in [Chats -> 0..Len(turns)]
      BY <1>1, <2>6 DEF Typed, TypeOK
    <3>. HIDE DEF u, q, w
    <3>6. AnswersStill(c, o, u, q, w)
      BY <2>1, <2>2, <3>2 DEF AnswersStill
    <3>7. Handled(c, o, u, q, w)
      BY <2>2, <2>6, <3>1, <3>2, <3>3, <3>4, <3>5 DEF Handled, Advances
    <3> QED BY <1>1, <3>6, <3>7 DEF Handles
  <2> QED BY <1>4, <2>3, <2>4, <2>5, <2>6 DEF Deliver
<1>5. CASE t.attempted /\ Done(c) /\ UNCHANGED <<turns, typing, incidents, telegram>>
  BY <1>1, <1>5, Leaves
<1> QED BY <1>3, <1>4, <1>5 DEF Deliver

LEMMA DrainGoes ==
    ASSUME IInv, NEW c \in Calls, Drained(c) PROVE Handles(c)
<1>. DEFINE o == call[c].turn
<1>1. call[c].pc # "idle" /\ UNCHANGED <<routes, used>>
  BY DEF Drained
<1>2. Typed /\ o \in Ids /\ call[c] \in CallStates /\ Blames(call[c]) /\ turns[o] \in Turns
  BY <1>1, CallFacts, Facts DEF IInv
<1>3. CASE Done(c) /\ UNCHANGED <<turns, typing, incidents, telegram>>
  BY <1>1, <1>2, <1>3, Leaves
<1>4. CASE StillBound(o) /\ Fail(c, o, call[c].error) /\ (~call[c].typed \/ call[c].hook = "StopFailure")
  <2>1. call[c].error \in Errors
    BY <1>2, <1>4 DEF Blames
  <2> QED BY <1>1, <1>4, <2>1, Fails DEF StillBound
<1>5. CASE /\ turns' = Retire(o) /\ typing' = Silenced({o})
           /\ call' = [Resolved({o}) EXCEPT ![c] = Idle]
           /\ UNCHANGED <<incidents, telegram>>
  <2>. DEFINE u == [Dropped(turns[o]) EXCEPT !.live = FALSE]
  <2>1. Kept(turns[o], Dropped(turns[o])) /\ Dropped(turns[o]) \in Turns
    BY <1>2, DroppedKept, KeptAdvances
  <2>2. Kept(Dropped(turns[o]), u)
    BY <2>1, FieldKept
  <2>3. Kept(turns[o], u)
    BY <1>2, <2>1, <2>2, KeptTransitive
  <2>4. turns' = [turns EXCEPT ![o] = u]
    BY <1>5 DEF Retire
  <2>. HIDE DEF u
  <2>5. incidents' \subseteq Chats \X Errors /\ typing' \in [Chats -> 0..Len(turns)]
    BY <1>2, <1>5, SilencedTyped DEF Typed, TypeOK
  <2> QED BY <1>1, <1>2, <1>5, <2>3, <2>4, <2>5, IdleTyped, TurnHandled
<1>6. CASE StillBound(o) /\ Deliver(c, o)
  BY <1>1, <1>6, Delivers DEF StillBound
<1> QED BY <1>3, <1>4, <1>5, <1>6 DEF Drained

LEMMA AnswerGoes ==
    ASSUME IInv, NEW c \in Calls,
           FellBack(c) \/ \E outcome \in FinalOutcomes : Answered(c, outcome)
    PROVE  Handles(c)
<1>. DEFINE o == call[c].turn
            r == telegram[o]
            unsent == [r EXCEPT !.answers = @ - 1]
<1>1. call[c].pc # "idle" /\ UNCHANGED <<routes, used>>
  BY DEF FellBack, Answered
<1>2. Typed /\ o \in Ids /\ turns[o] \in Turns /\ r \in Received
  BY <1>1, CallFacts, Facts DEF IInv
<1>3. CASE Conclude(c, o, turns[o], r)
  <2>1. Steady(turns[o], turns[o])
    BY <1>2, KeptSame DEF Kept
  <2>2. r.answers <= telegram[o].answers /\ r.notices <= telegram[o].notices
    BY <1>2 DEF Received
  <2>3. \A v, x : v.attempted = turns[o].attempted /\ x.pc # "answer" => AnswersStill(c, o, v, r, x)
    BY <1>2, NothingSaid
  <2> QED BY <1>1, <1>2, <1>3, <2>1, <2>2, <2>3, Concludes
<1>4. CASE call[c].pc = "answer" /\ TooLarge(c, o, unsent)
  <2>1. /\ r.answers = 1 /\ r.fallbacks = 0
        /\ \A d \in Calls \ {c} : ~(call[d].pc = "answer" /\ call[d].turn = o)
    BY <1>2, <1>4 DEF IInv, AnswersOnce
  <2>2. /\ unsent \in Received /\ unsent.bubbles = r.bubbles /\ unsent.lost = r.lost
        /\ unsent.from = r.from
        /\ unsent.answers = 0 /\ unsent.fallbacks = 0 /\ unsent.notices = r.notices
    BY <1>2, <2>1, MoreReceived
  <2>. HIDE DEF unsent
  <2> QED BY <1>1, <1>4, <2>1, <2>2, TooLong
<1> QED BY <1>3, <1>4 DEF FellBack, Answered

-----------------------------------------------------------------------------
(* The invariant holds, and what follows from it.                            *)

LEMMA InitIInv == ASSUME Init PROVE IInv
<1>1. turns = <<>> /\ telegram = <<>> /\ Ids = {} /\ Len(turns) = 0
  BY DEF Init, Ids
<1>2. turns \in Seq(Turns) /\ telegram \in Seq(Received) /\ Len(telegram) = Len(turns)
  BY <1>1, EmptySeq
<1>3. /\ Sound(routes) /\ Routed(routes) = {} /\ routes \in Stores
      /\ routes.alias = [a \in Agents |-> None]
  <2>1. routes \in Stores /\ routes.alias = [a \in Agents |-> None]
    BY DEF Init, NoRoutes, Stores
  <2>2. Routed(routes) = {}
    BY DEF Init, NoRoutes, Routed
  <2> QED BY <2>1, <2>2 DEF Sound, RoutesAgree
<1>4. \A c \in Calls : call[c] = Idle /\ call[c].pc = "idle"
  BY IdleTyped DEF Init
<1>5. call \in [Calls -> CallStates]
  BY IdleTyped DEF Init
<1>6. typing \in [Chats -> 0..Len(turns)]
  BY <1>1 DEF Init
<1>7. TypeOK
  BY <1>1, <1>2, <1>3, <1>5, <1>6 DEF Init, TypeOK
<1>8. IsFiniteSet(used)
  BY FS_EmptySet DEF Init
<1>9. Typed /\ BubbleInv
  BY <1>1, <1>4, <1>7, <1>8 DEF Typed, BubbleInv
<1>10. RoutesSpent /\ \A o \in Ids : AnswersOnce(o)
  BY <1>1, <1>3 DEF RoutesSpent, Sound
<1> QED BY <1>9, <1>10 DEF IInv

LEMMA NoNewsIsGood == ASSUME IInv, NoNews PROVE NoStale
<1>1. \A o \in Ids : telegram[o].answers \in Nat /\ telegram[o].notices \in Nat
  BY Facts DEF IInv, Received
<1> QED BY <1>1 DEF NoNews, NoStale

LEMMA BindsKeep == ASSUME IInv, Binds, Costs PROVE IInv' /\ NoStale
<1>1. IInv'
  <2>1. CASE BindNothing
    BY <2>1, ExpiresKeep
  <2>2. ASSUME NEW chat \in Chats, NEW key \in Keys, BindPrompt(chat, key) PROVE IInv'
    BY <2>2, PromptBinds
  <2>3. ASSUME NEW key \in Keys, NEW k \in Tasks \cup {None}, NEW a \in Agents \cup {None},
               NEW status \in Statuses, BindCompletion(key, k, a, status)
        PROVE  IInv'
    BY <2>3, CompletionBinds
  <2> QED BY <2>1, <2>2, <2>3 DEF Binds
<1>2. NoNews
  <2>1. /\ telegram \in Seq(Received) /\ Ids = 1..Len(telegram)
    BY Facts DEF IInv, Typed, TypeOK
  <2>2. UNCHANGED telegram \/ \E from : telegram' = Append(telegram, Nothing(from))
    <3>1. CASE BindNothing
      BY <3>1 DEF BindNothing
    <3>2. ASSUME NEW chat \in Chats, NEW key \in Keys, BindPrompt(chat, key)
          PROVE  \E from : telegram' = Append(telegram, Nothing(from))
      BY <3>2 DEF BindPrompt, Bind
    <3>3. ASSUME NEW key \in Keys, NEW k \in Tasks \cup {None}, NEW a \in Agents \cup {None},
                 NEW status \in Statuses, BindCompletion(key, k, a, status)
          PROVE  \E from : telegram' = Append(telegram, Nothing(from))
      BY <3>3 DEF BindCompletion, Bind
    <3> QED BY <3>1, <3>2, <3>3 DEF Binds
  <2>3. \A o \in Ids : telegram'[o] = telegram[o]
    BY <2>1, <2>2
  <2> QED BY <2>3 DEF NoNews
<1> QED BY <1>1, <1>2, NoNewsIsGood

LEMMA HooksKeep ==
    ASSUME IInv, NEW o \in Ids, Hooked(o), Costs PROVE IInv' /\ NoStale
<1>1. CASE \/ RecordTool(o)
           \/ \E a \in Agents : RecordSubagentStart(o, a) \/ RecordSubagentStop(o, a)
  <2>1. NoNews
    BY <1>1 DEF NoNews, RecordTool, RecordSubagentStart, RecordSubagentStop, Change
  <2> QED BY <1>1, <2>1, QuietHooks, NoNewsIsGood
<1>2. ASSUME NEW k \in Tasks, RecordRouted(o, k) PROVE IInv' /\ NoStale
  <2>1. NoNews
    BY <1>2 DEF NoNews, RecordRouted, Change
  <2> QED BY <1>2, <2>1, RoutedHook, NoNewsIsGood
<1>3. ASSUME NEW k \in Tasks, NEW a \in Agents, RecordLaunched(o, k, a) PROVE IInv' /\ NoStale
  <2>1. NoNews
    BY <1>3 DEF NoNews, RecordLaunched, Change
  <2> QED BY <1>3, <2>1, LaunchedHook, NoNewsIsGood
<1>4. CASE \/ \E k \in Tasks : RecordEnded(o, k)
           \/ \E a \in Agents : RecordTaskStop(o, a)
  <2>1. NoNews
    BY <1>4 DEF NoNews, RecordEnded, RecordTaskStop
  <2> QED BY <1>4, <2>1, EndedHooks, NoNewsIsGood
<1>5. ASSUME NEW c \in Calls, Handles(c) PROVE IInv' /\ NoStale
  BY <1>5, HandledKeeps
<1>6. ASSUME NEW c \in Calls, NEW hook \in Hooks, NEW error \in Errors \cup {None},
             NEW message \in Messages, FinishTurn(c, o, hook, error, message)
      PROVE  IInv' /\ NoStale
  BY <1>5, <1>6, FinishHook
<1>7. ASSUME NEW c \in Calls, NEW error \in Errors, WatchFires(c, o, error)
      PROVE  IInv' /\ NoStale
  BY <1>5, <1>7, WatchHook
<1> QED BY <1>1, <1>2, <1>3, <1>4, <1>6, <1>7 DEF Hooked

LEMMA GoesKeep == ASSUME IInv, NEW c \in Calls, Goes(c) PROVE IInv' /\ NoStale
<1>1. UNCHANGED events
  BY DEF Goes, Drained, Graced, Disclosed, GraceExpires, FellBack, Noticed, Answered
<1>2. Handles(c)
  BY SmallSteps, DrainGoes, AnswerGoes DEF Goes
<1> QED BY <1>1, <1>2, HandledKeeps

LEMMA NextKeeps == ASSUME IInv, [Next]_vars PROVE IInv' /\ NoStale
<1>1. CASE Costs /\ Binds
  BY <1>1, BindsKeep
<1>2. ASSUME NEW o \in Ids, Hooked(o), Costs PROVE IInv' /\ NoStale
  BY <1>2, HooksKeep
<1>3. CASE Costs /\ Expires
  <2>1. NoNews
    BY <1>3 DEF NoNews, Expires, RouteExpires, IncidentExpires, HeartbeatEnds, DrainExpires
  <2> QED BY <1>3, <2>1, ExpiresKeep, NoNewsIsGood
<1>4. ASSUME NEW o \in Ids, Debounce(o) PROVE IInv' /\ NoStale
  <2>1. NoNews
    BY <1>4 DEF NoNews, Debounce, Change
  <2> QED BY <1>4, <2>1, DebounceKeeps, NoNewsIsGood
<1>5. ASSUME NEW o \in Ids, Answers(o) PROVE IInv' /\ NoStale
  BY <1>5, EditAnswered, SendAnswered, NoNewsIsGood DEF Answers
<1>6. ASSUME NEW c \in Calls, Goes(c) PROVE IInv' /\ NoStale
  BY <1>6, GoesKeep
<1>7. CASE UNCHANGED vars
  <2>1. UNCHANGED <<turns, routes, call, typing, incidents, telegram, used, events>>
    BY <1>7 DEF vars
  <2>2. Typed /\ RoutesSpent
    BY DEF IInv
  <2>3. TurnsMove /\ Ids' = Ids /\ CallsMove /\ \A c \in Calls : CallKept(c)
    BY <2>1, <2>2, SameTelegram, SameTurnsMove, SameCallsMove
  <2>4. AnswersKept
    BY <2>1, <2>3 DEF AnswersKept
  <2>5. RoutesMove /\ RestTyped
    BY <2>1, <2>2, <2>3, SameRoutes DEF RestTyped, Typed, TypeOK
  <2>6. NoNews
    BY <2>1 DEF NoNews
  <2> QED BY <2>3, <2>4, <2>5, <2>6, MovesKeep, NoNewsIsGood
<1> QED BY <1>1, <1>2, <1>3, <1>4, <1>5, <1>6, <1>7 DEF Next

LEMMA InvariantHolds == Spec => []IInv
<1>1. Init => IInv
  BY InitIInv
<1>2. IInv /\ [Next]_vars => IInv'
  BY NextKeeps
<1> QED BY <1>1, <1>2, PTL DEF Spec

\* A turn answers once, and a background task answers once, for any number of
\* hooks, retries, late answers and notifications (finishTurn's
\* finalDeliveryAttempted, backgroundTaskRoutes and backgroundTaskAliases).
THEOREM TurnsAnswerOnce == Spec => []OneAnswer
<1>1. ASSUME IInv PROVE OneAnswer
  BY <1>1 DEF IInv, AnswersOnce, RoutesSpent, OneAnswer
<1> QED BY <1>1, InvariantHolds, PTL

LEMMA FewAreShown ==
    ASSUME NEW S, AtMostOne(S) PROVE Cardinality(S) <= 1
<1>1. CASE S = {}
  BY <1>1, FS_EmptySet
<1>2. CASE S # {}
  <2>1. PICK x : S = {x}
    BY <1>2 DEF AtMostOne
  <2>2. Cardinality({x}) = 1
    BY FS_Singleton
  <2> QED BY <2>1, <2>2
<1> QED BY <1>1, <1>2

\* The variables keep their types, each phase of a turn has at most one bubble
\* on the screen, and after a last drain that ended in time and was answered
\* the bubble shows the outcome of the turn (flush, finalize and drain).
THEOREM BubblesTellOutcomes == Spec => []BubbleTellsOutcome
<1>1. ASSUME IInv PROVE BubbleTellsOutcome
  <2>1. TypeOK /\ Typed /\ BubbleInv
    BY <1>1 DEF IInv, Typed
  <2>2. ASSUME NEW o \in Ids, NEW phase \in Phases
        PROVE  Cardinality(LiveBubbles(o, phase)) <= 1
    <3>1. LiveBubbles(o, phase) = Shown(telegram[o], phase)
      BY DEF LiveBubbles, Shown
    <3>2. AtMostOne(Shown(telegram[o], phase))
      BY <2>1 DEF BubbleInv, Fits
    <3> QED BY <3>1, <3>2, FewAreShown
  <2>3. ASSUME NEW c \in Calls, call[c].pc = "drain", call[c].wait = 0, ~call[c].late,
               turns[call[c].turn].phase = "foreground", turns[call[c].turn].bubble = "have",
               ~telegram[call[c].turn].lost
        PROVE  telegram[call[c].turn].bubbles[turns[call[c].turn].message].text
                    = Text(turns[call[c].turn])
    <3>1. call[c].turn \in Ids
      BY <2>1, <2>3 DEF Typed
    <3>2. turns[call[c].turn].lastSent = Text(turns[call[c].turn])
      BY <2>1, <2>3 DEF BubbleInv, Drains
    <3>3. telegram[call[c].turn].bubbles[turns[call[c].turn].message].text
                = turns[call[c].turn].lastSent
      BY <2>1, <2>3, <3>1 DEF BubbleInv, Fits
    <3> QED BY <3>2, <3>3
  <2> QED BY <2>1, <2>2, <2>3 DEF BubbleTellsOutcome
<1> QED BY <1>1, InvariantHolds, PTL

\* A turn that was superseded, evicted or failed while a handler of it waited
\* starts neither its answer nor a notice afterwards (finishTurn and
\* deliverRuntimeFailure ask turns.get(key) again after their awaits).
THEOREM NoAnswerIsStale == Spec => NoStaleAnswer
<1>1. ASSUME IInv, [Next]_vars
      PROVE  [\A o \in Ids : (telegram'[o].answers > telegram[o].answers
                        \/ telegram'[o].notices > telegram[o].notices) => o \in Live]_vars
  BY <1>1, NextKeeps DEF NoStale
<1> QED BY <1>1, InvariantHolds, PTL DEF Spec, NoStaleAnswer
=============================================================================
