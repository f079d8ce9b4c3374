--------------------------- MODULE BackgroundRoutes ---------------------------
(***************************************************************************)
(* The in-memory authority by which a finished background task may answer  *)
(* in the chat its tool call came from (progress-disclosure.ts).  A route  *)
(* belongs to one tool call and to the turn that made it; a task id that   *)
(* Claude reports for the call becomes an alias of the route.  The map of  *)
(* routes keeps the order of insertion, which is what made says of each;   *)
(* the alias table is a map of its own.                                    *)
(***************************************************************************)
EXTENDS Naturals, Sequences, FiniteSets

CONSTANTS
    Tasks,      \* tool_use_ids of Skill, Task and Agent calls
    Agents,     \* task ids, which for a forked agent are its agent id
    Chats,
    None,
    MaxTurns,   \* bound: turns ever bound; a turn is known by its number
    MaxRoutes,  \* MAX_BACKGROUND_TASK_ROUTES
    MaxDepth    \* MAX_BACKGROUND_CHAIN_DEPTH

Routes == [owner : 1..MaxTurns, chat : Chats, depth : 1..MaxDepth, made : Nat,
           aliases : SUBSET Agents, due : BOOLEAN]

ASSUME RouteNames == /\ None \notin Tasks \cup Agents \cup Chats \cup Routes
                     /\ MaxTurns \in Nat /\ MaxRoutes \in Nat /\ MaxDepth \in Nat

\* The two maps of the renderer.
Stores == [routes : [Tasks -> Routes \cup {None}], alias : [Agents -> Tasks \cup {None}]]
NoRoutes == [routes |-> [k \in Tasks |-> None], alias |-> [a \in Agents |-> None]]

Routed(s) == {k \in Tasks : s.routes[k] # None}
RouteOf(s, k) == s.routes[k]

\* Removing a route removes the aliases it holds, where they still name it.
Forget(s, ks) ==
    [routes |-> [k \in Tasks |-> IF k \in ks THEN None ELSE s.routes[k]],
     alias  |-> [a \in Agents |->
                    IF s.alias[a] \in ks \cap Routed(s) /\ a \in RouteOf(s, s.alias[a]).aliases
                    THEN None ELSE s.alias[a]]]

\* First the routes whose six hours have passed, then the oldest over the limit.
Due(s) == {k \in Routed(s) : RouteOf(s, k).due}
Younger(s, k) == {j \in Routed(s) : RouteOf(s, j).made > RouteOf(s, k).made}
Prune(s) ==
    LET fresh == Forget(s, Due(s))
    IN  Forget(fresh, {k \in Routed(fresh) : Cardinality(Younger(fresh, k)) >= MaxRoutes})

Remember(s, k, route) == Prune([s EXCEPT !.routes[k] = route])

\* An alias is added to a route that exists and never taken from another one.
NameTask(s, k, a) ==
    IF k \in Routed(s) /\ s.alias[a] \in {None, k}
    THEN [s EXCEPT !.routes[k].aliases = @ \cup {a}, !.alias[a] = k]
    ELSE s

\* The time to live of a route passes; nothing is removed before the next prune.
Expire(s, k) == [s EXCEPT !.routes[k].due = TRUE]

\* The route a terminal notification names: by its tool id k, or else by its
\* task id a; with both, the two must not contradict each other.
Named(s, k, a) ==
    LET direct == k \in Routed(s)
        other  == IF a = None THEN None ELSE s.alias[a]
        clash  == \/ RouteOf(s, k).aliases # {} /\ a \notin RouteOf(s, k).aliases
                  \/ other \notin {None, k}
    IN  IF direct /\ a # None /\ clash THEN None
        ELSE IF direct THEN k ELSE other

\* Every alias names a route that lists it, and every listed alias names it.
RoutesAgree(s) ==
    /\ \A a \in Agents : s.alias[a] # None =>
          s.alias[a] \in Routed(s) /\ a \in RouteOf(s, s.alias[a]).aliases
    /\ \A k \in Routed(s), a \in Agents : a \in RouteOf(s, k).aliases => s.alias[a] = k
=============================================================================
