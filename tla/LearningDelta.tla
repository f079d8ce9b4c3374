--------------------------- MODULE LearningDelta ---------------------------
(***************************************************************************)
(* The learning-delta store (packages/shared/src/learning-delta.ts) and    *)
(* its two users: the Stop hook, which writes a delta for every proposal   *)
(* the applier owns (memory-apply-command.ts), and the UserPromptSubmit    *)
(* hook, which shows a pending delta to the model once and then marks it   *)
(* consumed (learning-delta-command.ts).                                   *)
(*                                                                         *)
(* A session keeps one delta file.  Its turns alternate prompt and Stop;   *)
(* sessions run concurrently and share the store's claim.  What applying a *)
(* proposal does is MemoryApplier's subject: here it succeeds or not.      *)
(***************************************************************************)
EXTENDS Naturals, Sequences, FiniteSets, SequencesExt

CONSTANTS
    Sessions,
    Listed,         \* the proposals in the order the store lists them
    SessionOf,      \* [proposals -> Sessions]
    None,
    Cap,            \* MAX_ENTRIES, delta files in the store
    MaxDeploys, MaxMishaps      \* bounds; mishaps: failing calls, kills, expiries

Proposals == Range(Listed)

ASSUME DeltaBounds == /\ Cap \in Nat \ {0}
                      /\ {MaxDeploys, MaxMishaps} \subseteq Nat
ASSUME DeltaNames == /\ Listed \in Seq(Proposals) /\ IsInjective(Listed)
                     /\ SessionOf \in [Proposals -> Sessions]
                     /\ None \notin Sessions \cup Proposals /\ IsFiniteSet(Sessions)

VARIABLES
    reviewed,   \* [Proposals -> release it was reviewed under, or None]
    owned,      \* proposals the managed-memory ledger names
    release,    \* the running release
    delta,      \* [Sessions -> delta file or None]
    claim,      \* the session whose prompt hook holds the store, or None
    hook,       \* [Sessions -> local state of the session's current hook]
    shown,      \* history: [Proposals -> times shown to the model, 2 = more]
    mishaps     \* failing calls, kills and expiries so far

vars == <<reviewed, owned, release, delta, claim, hook, shown, mishaps>>

Deltas == [receipt : Proposals, release : 0..MaxDeploys, status : {"pending", "consumed"},
           fresh : BOOLEAN]     \* fresh: younger than MAX_AGE_MS
ASSUME DeltaNone == None \notin Deltas
Hooks == [pc : {"ready", "output", "ack", "turn", "loop", "write"},
          todo : SUBSET Proposals, key : Proposals \cup {None}]
Ready == [pc |-> "ready", todo |-> {}, key |-> None]

Init ==
    /\ reviewed = [p \in Proposals |-> None]
    /\ owned = {}
    /\ release = 0
    /\ delta = [s \in Sessions |-> None]
    /\ claim = None
    /\ hook = [s \in Sessions |-> Ready]
    /\ shown = [p \in Proposals |-> 0]
    /\ mishaps = 0

Becomes(s, h) == hook' = [hook EXCEPT ![s] = h]
Goes(s, pc) == Becomes(s, [hook[s] EXCEPT !.pc = pc])
Mishap == mishaps < MaxMishaps /\ mishaps' = mishaps + 1
Works == UNCHANGED mishaps
Present == {s \in Sessions : delta[s] # None}

-----------------------------------------------------------------------------
(* Environment.                                                             *)

Review(p) ==
    /\ reviewed[p] = None
    /\ reviewed' = [reviewed EXCEPT ![p] = release]
    /\ UNCHANGED <<owned, release, delta, claim, hook, shown, mishaps>>

Deploy ==
    /\ release < MaxDeploys
    /\ \A s \in Sessions : hook[s].pc \in {"ready", "turn"}
    /\ release' = release + 1
    /\ UNCHANGED <<reviewed, owned, delta, claim, hook, shown, mishaps>>

\* 24 hours pass after the delta was written.
Expire(s) ==
    /\ delta[s] # None /\ delta[s].fresh
    /\ Mishap
    /\ delta' = [delta EXCEPT ![s].fresh = FALSE]
    /\ UNCHANGED <<reviewed, owned, release, claim, hook, shown>>

\* A hook process is killed; its claim on the store is stale from now on.
Kill(s) ==
    /\ hook[s].pc \notin {"ready", "turn"}
    /\ Mishap
    /\ Becomes(s, [Ready EXCEPT !.pc = IF hook[s].pc \in {"output", "ack"} THEN "turn" ELSE "ready"])
    /\ claim' = IF claim = s THEN None ELSE claim
    /\ UNCHANGED <<reviewed, owned, release, delta, shown>>

-----------------------------------------------------------------------------
(* UserPromptSubmit: prepareLearningDeltaForPrompt and main.                *)

Usable(s) == /\ delta[s] # None /\ delta[s].status = "pending"
             /\ delta[s].release = release /\ delta[s].fresh

\* A direct Telegram prompt: claim the store and keep it while the delta is
\* shown.
PromptClaim(s) ==
    /\ hook[s].pc = "ready" /\ claim = None /\ Usable(s)
    /\ claim' = s
    /\ Becomes(s, [Ready EXCEPT !.pc = "output", !.key = delta[s].receipt])
    /\ UNCHANGED <<reviewed, owned, release, delta, shown, mishaps>>

\* A control or internal prompt, a busy store, or nothing to show.
PromptPlain(s) ==
    /\ hook[s].pc = "ready"
    /\ Goes(s, "turn")
    /\ UNCHANGED <<reviewed, owned, release, delta, claim, shown, mishaps>>

ShownAgain(p) == [shown EXCEPT ![p] = IF @ = 2 THEN 2 ELSE @ + 1]
\* release() after the output, acknowledged or not; the mutant keeps the claim.
ReleasedNever(s) == UNCHANGED claim /\ Becomes(s, [Ready EXCEPT !.pc = "turn"])
Released(s) == claim' = None /\ Becomes(s, [Ready EXCEPT !.pc = "turn"])

\* Write the hook output; a short write leaves the delta pending.  The mutant
\* acknowledges all the same.
OutputUnchecked(s) ==
    /\ hook[s].pc = "output"
    /\ Goes(s, "ack")
    /\ \/ shown' = ShownAgain(hook[s].key) /\ Works
       \/ UNCHANGED shown /\ Mishap
    /\ UNCHANGED <<reviewed, owned, release, delta, claim>>
Output(s) ==
    /\ hook[s].pc = "output"
    /\ \/ Goes(s, "ack") /\ shown' = ShownAgain(hook[s].key) /\ UNCHANGED claim /\ Works
       \/ Released(s) /\ UNCHANGED shown /\ Mishap
    /\ UNCHANGED <<reviewed, owned, release, delta>>

\* acknowledgeLearningDeltaUnlocked, then release.
Acknowledge(s) ==
    LET consumed == [delta EXCEPT ![s].status = "consumed"] IN
    /\ hook[s].pc = "ack"
    /\ \/ /\ delta' = IF delta[s] # None /\ delta[s].status = "pending" /\ delta[s].receipt = hook[s].key
                      THEN consumed ELSE delta
          /\ Works
       \/ delta' = delta /\ Mishap
       \/ delta[s] # None /\ delta' = consumed /\ Mishap
    /\ Released(s)
    /\ UNCHANGED <<reviewed, owned, release, shown>>

-----------------------------------------------------------------------------
(* Stop: the loop of handleMemoryApplyCommand, writeLearningDelta.          *)

\* The reviewed proposals of this session and release; the first of those left
\* is next.
Mine(s) == {p \in Proposals : SessionOf[p] = s /\ reviewed[p] = release}
First(ps) == {Listed[i] : i \in {i \in DOMAIN Listed :
                                  Listed[i] \in ps /\ \A j \in 1..i - 1 : Listed[j] \notin ps}}

Stop(s) ==
    /\ hook[s].pc = "turn"
    /\ Becomes(s, [Ready EXCEPT !.pc = "loop", !.todo = Mine(s)])
    /\ UNCHANGED <<reviewed, owned, release, delta, claim, shown, mishaps>>

StopDone(s) ==
    /\ hook[s].pc = "loop" /\ hook[s].todo = {}
    /\ Becomes(s, Ready)
    /\ UNCHANGED <<reviewed, owned, release, delta, claim, shown, mishaps>>

\* The next proposal: owned already, applied now (the last one then), or not.
NextProposal(s) ==
    /\ hook[s].pc = "loop"
    /\ \E p \in First(hook[s].todo) :
         LET rest == hook[s].todo \ {p}
             write(todo) == Becomes(s, [pc |-> "write", todo |-> todo, key |-> p]) IN
         \/ p \in owned /\ write(rest) /\ UNCHANGED owned
         \/ p \notin owned /\ owned' = owned \cup {p} /\ write({})
         \/ p \notin owned /\ Becomes(s, [hook[s] EXCEPT !.todo = rest]) /\ UNCHANGED owned
    /\ UNCHANGED <<reviewed, release, delta, claim, shown, mishaps>>

NewDelta(p) == [receipt |-> p, release |-> release, status |-> "pending", fresh |-> TRUE]

\* A delta that this very proposal left is kept, also when consumed; another
\* pending one is in the way.  The mutant overwrites it.
Known(s, p) == delta[s] # None /\ delta[s].receipt = p /\ delta[s].release = release
NoConflict(s, p) == FALSE
Conflict(s, p) == delta[s] # None /\ delta[s].status = "pending" /\ ~Known(s, p)

\* The store is full: the oldest consumed delta makes room.
Full(s) == delta[s] = None /\ Cardinality(Present) >= Cap
Evictable == {o \in Present : delta[o].status = "consumed"}

\* writeLearningDelta under the claim; what it throws ends the hook.
WriteDelta(s) ==
    LET p == hook[s].key
        onward == Becomes(s, [Ready EXCEPT !.pc = "loop", !.todo = hook[s].todo])
        ends == Becomes(s, Ready)
        written(d) == [d EXCEPT ![s] = NewDelta(p)] IN
    /\ hook[s].pc = "write"
    /\ \/ claim # None /\ ends /\ UNCHANGED delta /\ Works          \* store busy
       \/ /\ claim = None /\ Known(s, p)
          /\ onward /\ UNCHANGED delta /\ Works
       \/ /\ claim = None /\ ~Known(s, p)
          /\ Conflict(s, p) \/ (Full(s) /\ Evictable = {})
          /\ ends /\ UNCHANGED delta /\ Works
       \/ /\ claim = None /\ ~Known(s, p) /\ ~Conflict(s, p)
          /\ \E evicted \in IF Full(s) THEN {[delta EXCEPT ![o] = None] : o \in Evictable}
                                       ELSE {delta} :
               \/ delta' = written(evicted) /\ onward /\ Works
               \/ delta' \in {delta, evicted, written(evicted)} /\ ends /\ Mishap
    /\ UNCHANGED <<reviewed, owned, release, claim, shown>>

-----------------------------------------------------------------------------
HookStep(s) == \/ Output(s) \/ Acknowledge(s)
               \/ Stop(s) \/ StopDone(s) \/ NextProposal(s) \/ WriteDelta(s)

Next ==
    \/ \E p \in Proposals : Review(p)
    \/ Deploy
    \/ \E s \in Sessions : \/ Expire(s) \/ Kill(s)
                           \/ PromptClaim(s) \/ PromptPlain(s) \/ HookStep(s)

Spec == Init /\ [][Next]_vars

\* Hooks run to their end, the session goes on, and the user again and again
\* sends direct prompts; no other session has the store at all of those.
FairSpec ==
    /\ Spec
    /\ \A s \in Sessions : /\ WF_vars(HookStep(s)) /\ WF_vars(PromptPlain(s))
                           /\ SF_vars(PromptClaim(s))
                           /\ SF_vars(WriteDelta(s) /\ claim = None)

-----------------------------------------------------------------------------
(* Properties.                                                              *)

\* Shape of the store, the claim and the hooks; the store stays within its
\* capacity; only proposals the applier owns get a delta, and one is consumed
\* only when the model has seen it ("acknowledges pending -> consumed only
\* after stdout succeeds", session-control-mcp/README.md:135).
TypeOK ==
    /\ reviewed \in [Proposals -> 0..MaxDeploys \cup {None}]
    /\ owned \subseteq Proposals
    /\ release \in 0..MaxDeploys
    /\ delta \in [Sessions -> Deltas \cup {None}]
    /\ claim \in Sessions \cup {None}
    /\ hook \in [Sessions -> Hooks]
    /\ shown \in [Proposals -> 0..2]
    /\ mishaps \in 0..MaxMishaps
    /\ Cardinality(Present) <= Cap
    /\ \A s \in Sessions : delta[s] # None =>
         /\ delta[s].receipt \in owned
         /\ delta[s].status = "consumed" => shown[delta[s].receipt] > 0

\* A pending delta leaves the store only by being acknowledged in place: no
\* later write, no eviction and no other session's hook loses what the user
\* was not told yet ("learning delta conflict", learning-delta.ts:151).
PendingNeverLost ==
    [][\A s \in Sessions : delta[s] # None /\ delta[s].status = "pending" =>
         delta'[s] # None /\ delta'[s].receipt = delta[s].receipt
                          /\ delta'[s].release = delta[s].release]_vars

\* A delta of the running release does not stay pending for ever: the session
\* sees it, or the release or the 24 hours end first.
PendingIsShown == \A s \in Sessions : Usable(s) ~> ~Usable(s)

\* "One-shot learning delta" (session-control-mcp/README.md:131): without
\* kills and failing calls a delta is shown to the model at most once.
ShownOnce == \A p \in Proposals : shown[p] <= 1

\* "missed writes are re-emitted from managed ownership without touching
\* memory again" (session-control-mcp/README.md:135): what the running release
\* reviewed and applied is eventually shown.
EventuallyShown ==
    \A p \in Proposals :
        p \in owned /\ reviewed[p] = release ~> shown[p] > 0 \/ reviewed[p] # release
=============================================================================
