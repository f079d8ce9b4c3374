--------------------------- MODULE ObserverLedger ---------------------------
(***************************************************************************)
(* The observer of Claude Code's native memory and its ledger:             *)
(* shared/src/native-memory-observer.ts, memory-observer-ledger.ts, the    *)
(* SessionStart hook memory-observer-command.ts and the part of the Stop   *)
(* hook memory-review-command.ts that uses them.                           *)
(*                                                                         *)
(* A hook lists the memory directory and reads its files one by one, while *)
(* others edit them; only then it takes the ledger's lock, compares what   *)
(* it saw with the latest inventory and appends the differences as events. *)
(* The reviewer's hook finally reads the files it quotes a second time.    *)
(* Each step is one system call that others may come between.  The lock    *)
(* file is taken in one step here: it is written and recovered as the      *)
(* claim file of ProposalClaim is.  One memory directory is configured     *)
(* throughout; a file's body stands for its hash and size.                 *)
(***************************************************************************)
EXTENDS Naturals, FiniteSets, FiniteSetsExt, SequencesExt

CONSTANTS
    Names,              \* the Markdown leaves, in the order of their names
    Index,              \* MEMORY.md, one of them
    Bodies,             \* contents of a file
    Observers,          \* hook processes at work at a time
    Absent,             \* no such file
    Corrupt,            \* a ledger that does not parse
    Empty,              \* a lock without its record
    MaxFiles,           \* MAX_NATIVE_MEMORY_FILES
    MaxTopics,          \* maxTopics of readNativeMemoryReviewContext
    MaxEvents,          \* MEMORY_OBSERVER_LEDGER_MAX_EVENTS
    Retention,          \* MEMORY_OBSERVER_LEDGER_RETENTION_MS
    Bytes,              \* length of an event, by its path
    MaxBytes,           \* MAX_LEDGER_BYTES
    MaxHooks, MaxChanges, MaxTroubles               \* bounds of the model

Paths == ToSet(Names)
Topics == Paths \ {Index}

ASSUME ObserverAssumption ==
    /\ Names \in Seq(Paths) /\ IsInjective(Names) /\ Index \in Paths
    /\ {MaxFiles, MaxTopics, MaxEvents, Retention, MaxBytes,
        MaxHooks, MaxChanges, MaxTroubles} \subseteq Nat
    /\ MaxEvents > 0 /\ Bytes \in [Paths -> Nat \ {0}]
    /\ Absent \notin Observers /\ Empty \notin Observers

VARIABLES
    memory,             \* the native memory directory
    changes, hooks,     \* changes of the world and hooks so far
    clock, runtimeRelease,  \* Date.now, and CLAUDE_RUNTIME_RELEASE_SHA of new hooks
    ledger, lock,       \* ledger.json and ledger.lock
    observer,           \* the hooks
    log,                \* every event recorded since the ledger was last rebuilt
    unready,            \* the last SessionStart hook recorded nothing
    troubles            \* kills, failing calls and damage so far

envVars == <<memory, changes, hooks, clock, runtimeRelease>>
storeVars == <<ledger, lock, log>>
observerVars == <<envVars, storeVars, observer, unready, troubles>>

Leaves == [body : Bodies, mtime : 0..MaxChanges]
Events == [seq : Nat, at : 0..MaxChanges, path : Paths,
           before : Bodies \cup {Absent}, after : Bodies \cup {Absent}]
Inventories == [Paths -> Leaves \cup {Absent}]
Nothing == [n \in Paths |-> Absent]
BodyOf(f) == IF f = Absent THEN Absent ELSE f.body
Contents(seen) == [n \in Paths |-> BodyOf(seen[n])]

Ledgers == [release : Nat, files : [Paths -> Bodies \cup {Absent}], next : Nat,
            events : SUBSET Events]
Sorted(m, n) == \E i, j \in DOMAIN Names : i < j /\ Names[i] = m /\ Names[j] = n
Earliest(ns) == CHOOSE n \in ns : \A m \in ns \ {n} : Sorted(n, m)
\* The first k of some names.
FirstOf(ns, k) == {n \in ns : Cardinality({m \in ns : Sorted(m, n)}) < k}

Hooked == [pc : {"idle", "gate", "list", "read", "lock", "write", "release", "oversized",
                 "quote", "quoted"},
           job : {"none", "preflight", "review"}, release : Nat, at : 0..MaxChanges,
           seen : Inventories, todo : SUBSET Paths, old : Ledgers \cup {Absent, Corrupt},
           ok : BOOLEAN, moment : Inventories]
Idle == [pc |-> "idle", job |-> "none", release |-> 0, at |-> 0, seen |-> Nothing,
         todo |-> {}, old |-> Absent, ok |-> FALSE, moment |-> Nothing]

\* One event for every file that appeared, disappeared or has other contents,
\* numbered from first in the order of the names.
Changed(before, seen) == {n \in Paths : before[n] # BodyOf(seen[n])}
Differences(before, seen, first, at) ==
    LET changed == Changed(before, seen)
    IN  {[seq |-> first + Cardinality({m \in changed : Sorted(m, n)}), at |-> at, path |-> n,
          before |-> before[n], after |-> BodyOf(seen[n])] : n \in changed}
\* The last k of some events, and the length of their lines.
LastOf(es, k) == {e \in es : Cardinality({f \in es : f.seq > e.seq}) < k}
Length(es) == MapThenSumSet(LAMBDA e : Bytes[e.path], es)

\* Nothing is recorded yet, or an earlier hook recorded the memory as it is.
PresentPaths == {n \in Paths : memory[n] # Absent}
ObserverInit ==
    /\ memory \in [Paths -> [body : Bodies, mtime : {0}] \cup {Absent}] /\ memory[Index] # Absent
    /\ changes = 0 /\ hooks = 0 /\ clock = 0 /\ runtimeRelease = 1
    /\ lock = Absent
    /\ \/ ledger = Absent /\ log = {}
       \/ LET all == Differences(Nothing, memory, 1, 0)
              kept == LastOf(all, MaxEvents)
          IN  /\ Cardinality(PresentPaths) <= MaxFiles /\ Length(kept) <= MaxBytes
              /\ log = all
              /\ ledger = [release |-> 1, files |-> Contents(memory),
                           next |-> Cardinality(all) + 1, events |-> kept]
    /\ observer = [p \in Observers |-> Idle]
    /\ unready = FALSE /\ troubles = 0

Trouble == troubles < MaxTroubles /\ troubles' = troubles + 1
NoTrouble == UNCHANGED troubles
HookTurns(p, h) == observer' = [observer EXCEPT ![p] = h]
HookGoes(p, pc) == HookTurns(p, [observer[p] EXCEPT !.pc = pc])
\* The hook throws; the SessionStart hook says so and lets Claude start.
HookEnds(p) ==
    /\ HookTurns(p, Idle)
    /\ unready' = (unready \/ observer[p].job = "preflight")
-----------------------------------------------------------------------------
(* The world                                                               *)

Change == changes < MaxChanges /\ changes' = changes + 1
\* Every edit leaves a modification time of its own.
Edit(n) ==
    /\ Change
    /\ \E f \in {Absent} \cup {[body |-> b, mtime |-> changes + 1] : b \in Bodies} :
         /\ f # memory[n] /\ memory' = [memory EXCEPT ![n] = f]
    /\ UNCHANGED <<hooks, clock, runtimeRelease, storeVars, observer, unready, troubles>>
Tick ==
    /\ Change /\ clock' = clock + 1
    /\ UNCHANGED <<memory, hooks, runtimeRelease, storeVars, observer, unready, troubles>>
NewRelease ==
    /\ Change /\ runtimeRelease' = runtimeRelease + 1
    /\ UNCHANGED <<memory, hooks, clock, storeVars, observer, unready, troubles>>
Damage ==
    /\ ledger \notin {Absent, Corrupt} /\ ledger' = Corrupt /\ Trouble
    /\ UNCHANGED <<envVars, lock, observer, log, unready>>

StartHook(p, job) ==
    /\ observer[p] = Idle /\ hooks < MaxHooks /\ hooks' = hooks + 1
    /\ HookTurns(p, [Idle EXCEPT !.pc = IF job = "review" THEN "gate" ELSE "list",
                                 !.job = job, !.release = runtimeRelease, !.at = clock])
    /\ UNCHANGED <<memory, changes, clock, runtimeRelease, storeVars, unready, troubles>>
\* The lock of a dead hook is as good as none to the next, which recovers it;
\* one that was not yet written names no owner, and nobody may remove it.
KillHook(p) ==
    /\ observer[p] # Idle /\ HookEnds(p) /\ Trouble
    /\ lock' \in IF lock = p THEN {Absent}
                 ELSE IF observer[p].pc = "lock" /\ lock = Absent THEN {Absent, Empty} ELSE {lock}
    /\ UNCHANGED <<envVars, ledger, log>>
-----------------------------------------------------------------------------
(* Observation                                                             *)

\* The reviewer wants a ledger of its own release, whenever it was written.
LedgerReady(p) == ledger \notin {Absent, Corrupt} /\ ledger.release = observer[p].release
Gate(p) ==
    /\ observer[p].pc = "gate"
    /\ IF LedgerReady(p) THEN HookGoes(p, "list") /\ UNCHANGED unready ELSE HookEnds(p)
    /\ UNCHANGED <<envVars, storeVars, troubles>>

Reads(p, seen, todo) ==
    HookTurns(p, [observer[p] EXCEPT
                    !.seen = seen, !.todo = todo, !.pc = IF todo = {} THEN "lock" ELSE "read",
                    !.moment = IF todo = {} /\ observer[p].job = "review" THEN memory ELSE @])
List(p) ==
    /\ observer[p].pc = "list"
    /\ IF Cardinality(PresentPaths) <= MaxFiles
       THEN Reads(p, Nothing, PresentPaths) /\ UNCHANGED unready
       ELSE HookEnds(p)
    /\ UNCHANGED <<envVars, storeVars, troubles>>
\* A file that is gone ends the hook (and so does one that changes while it is
\* read, which KillHook stands for).
ReadLeaf(p) ==
    /\ observer[p].pc = "read"
    /\ LET n == Earliest(observer[p].todo) IN
       IF memory[n] # Absent
       THEN /\ Reads(p, [observer[p].seen EXCEPT ![n] = memory[n]], observer[p].todo \ {n})
            /\ UNCHANGED unready
       ELSE HookEnds(p)
    /\ UNCHANGED <<envVars, storeVars, troubles>>
-----------------------------------------------------------------------------
(* The ledger                                                              *)

\* The lock, and under it the ledger that is there.  (Mutant: a lock that does
\* not look.)
AnyLock == TRUE
LockFree == lock = Absent
Lock(p) ==
    /\ observer[p].pc = "lock"
    /\ \/ LockFree /\ lock' = p /\ UNCHANGED unready
          /\ HookTurns(p, [observer[p] EXCEPT !.old = ledger, !.pc = "write"])
       \/ ~LockFree /\ UNCHANGED lock /\ HookEnds(p)
    /\ UNCHANGED <<envVars, ledger, log, troubles>>

\* What the hook builds on: a ledger that does not parse is none.
Old(p) == IF observer[p].old = Corrupt THEN Absent ELSE observer[p].old
OldFiles(p) == IF Old(p) = Absent THEN Nothing ELSE Old(p).files
OldEvents(p) == IF Old(p) = Absent THEN {} ELSE Old(p).events
\* (Mutant: numbering goes on after the events that are still retained.)
FromRetained(p) == Max({0} \cup {e.seq : e \in OldEvents(p)}) + 1
FirstSeq(p) == IF Old(p) = Absent THEN 1 ELSE Old(p).next

Additions(p) == Differences(OldFiles(p), observer[p].seen, FirstSeq(p), observer[p].at)
Recent(es, at) == {e \in es : e.at + Retention >= at}
NewLedger(p) ==
    [release |-> observer[p].release, files |-> Contents(observer[p].seen),
     next |-> FirstSeq(p) + Cardinality(Changed(OldFiles(p), observer[p].seen)),
     events |-> LastOf(Recent(OldEvents(p) \cup Additions(p), observer[p].at), MaxEvents)]

Replaces(p) ==
    /\ ledger' = NewLedger(p)
    /\ log' = (IF Old(p) = Absent THEN {} ELSE log) \cup Additions(p)
\* Only a reviewer that succeeded still needs what it saw.
Written(p, pc, ok) ==
    HookTurns(p, IF ok /\ observer[p].job = "review"
                 THEN [observer[p] EXCEPT !.pc = pc, !.ok = TRUE, !.at = 0, !.old = Absent]
                 ELSE [Idle EXCEPT !.pc = pc, !.ok = ok, !.job = observer[p].job])
\* The rename may take effect and the read-back fail all the same.  A ledger
\* that is too long is not written at all.
Write(p) ==
    /\ observer[p].pc = "write"
    /\ \/ /\ Length(NewLedger(p).events) <= MaxBytes
          /\ \/ Replaces(p) /\ NoTrouble /\ Written(p, "release", TRUE)
             \/ (Replaces(p) \/ UNCHANGED <<ledger, log>>) /\ Trouble /\ Written(p, "release", FALSE)
       \/ /\ Length(NewLedger(p).events) > MaxBytes
          /\ UNCHANGED <<ledger, log>> /\ NoTrouble
          /\ Written(p, "oversized", FALSE)
    /\ UNCHANGED <<envVars, lock, unready>>

\* MEMORY.md first, then the first topics, as far as they were seen.
Quoted(seen) == {Index} \cup FirstOf({n \in Topics : seen[n] # Absent}, MaxTopics)
\* The lock goes in any case; if its removal fails it is stale once the hook
\* has ended.  The reviewer goes on, if it saw an index.
Unlock(p) ==
    /\ observer[p].pc \in {"release", "oversized"}
    /\ lock' = Absent
    /\ \/ /\ NoTrouble
          /\ IF observer[p].ok /\ observer[p].job = "review" /\ observer[p].seen[Index] # Absent
             THEN /\ HookTurns(p, [observer[p] EXCEPT !.pc = "quote",
                                                      !.todo = Quoted(observer[p].seen)])
                  /\ UNCHANGED unready
             ELSE IF observer[p].ok THEN /\ HookTurns(p, Idle)
                                         /\ unready' = (unready /\ observer[p].job # "preflight")
             ELSE HookEnds(p)
       \/ Trouble /\ HookEnds(p)
    /\ UNCHANGED <<envVars, ledger, log>>
-----------------------------------------------------------------------------
(* The files the reviewer is shown                                         *)

\* (Mutant: the contents alone are compared.)
SameBody(p, n) == BodyOf(memory[n]) = BodyOf(observer[p].seen[n])
Same(p, n) == memory[n] = observer[p].seen[n]
NextQuote(todo) == IF Index \in todo THEN Index ELSE Earliest(todo)
Quote(p) ==
    /\ observer[p].pc = "quote"
    /\ LET n == NextQuote(observer[p].todo) IN
       IF Same(p, n)
       THEN /\ HookTurns(p, [observer[p] EXCEPT !.todo = @ \ {n},
                                !.pc = IF observer[p].todo = {n} THEN "quoted" ELSE "quote"])
            /\ UNCHANGED unready
       ELSE HookEnds(p)
    /\ UNCHANGED <<envVars, storeVars, troubles>>
Submit(p) ==
    /\ observer[p].pc = "quoted" /\ HookTurns(p, Idle)
    /\ UNCHANGED <<envVars, storeVars, unready, troubles>>

Step(p) == \/ Gate(p) \/ List(p) \/ ReadLeaf(p) \/ Lock(p)
           \/ Write(p) \/ Unlock(p) \/ Quote(p) \/ Submit(p)
ObserverNext ==
    \/ \E n \in Paths : Edit(n)
    \/ Tick \/ NewRelease \/ Damage
    \/ \E p \in Observers :
         KillHook(p) \/ Step(p) \/ \E job \in {"preflight", "review"} : StartHook(p, job)
ObserverSpec == ObserverInit /\ [][ObserverNext]_observerVars
-----------------------------------------------------------------------------
(* Properties                                                              *)

ObserverTypeOK ==
    /\ memory \in Inventories /\ {changes, clock} \subseteq 0..MaxChanges /\ clock <= changes
    /\ {hooks, troubles, runtimeRelease} \subseteq Nat /\ unready \in BOOLEAN
    /\ lock \in Observers \cup {Absent, Empty}
    /\ ledger \in Ledgers \cup {Absent, Corrupt} /\ log \subseteq Events
    /\ ledger \notin {Absent, Corrupt} =>
         Cardinality(ledger.events) <= MaxEvents /\ Length(ledger.events) <= MaxBytes
    /\ observer \in [Observers -> Hooked]

\* The events of one file lead from nothing, one after the other, to its latest
\* contents.
LinkUp(es, latest) ==
    /\ es = {} => latest = Absent
    /\ \A e \in es :
         /\ (\A f \in es : e.seq <= f.seq) => e.before = Absent
         /\ (\A f \in es : f.seq <= e.seq) => e.after = latest
         /\ \A f \in es :
              /\ e.seq < f.seq
              /\ \A g \in es : g.seq <= e.seq \/ f.seq <= g.seq
              => e.after = f.before
\* A ledger and all that was recorded since it was rebuilt.
Explains(l) ==
    /\ l.next = Cardinality(log) + 1
    /\ \A e, f \in log : e.seq = f.seq => e = f
    /\ \A e \in log : e.seq \in 1..l.next - 1
    /\ l.events \subseteq log
    /\ \A n \in Paths : LinkUp({e \in log : e.path = n}, l.files[n])

\* The events tell how the latest inventory came about ("bounded created /
\* modified / deleted events", session-control-mcp/README.md:106): each number
\* up to the next was given once, also when hooks that saw the memory in
\* another order than they record it, expiry or the cap come between
\* ("monotonic sequence across restart", memory-observer-ledger.test.ts:83); of
\* each file every event starts where the one before it ended, and the last
\* gives its contents.
EventsExplainLatest ==
    ObserverTypeOK /\ (ledger \notin {Absent, Corrupt} => Explains(ledger))

\* The index and the topics the reviewer is shown were in the memory together,
\* with the contents that its watermark names, although they were read one by
\* one ("hash-bound topic excerpts", session-control-mcp/README.md:118).
QuotesAreASnapshot ==
    \A p \in Observers : observer[p].pc = "quoted" =>
        \A n \in Quoted(observer[p].seen) : BodyOf(observer[p].seen[n]) = BodyOf(observer[p].moment[n])

\* "A failed startup preflight leaves no fresh ready ledger, so later
\* review/apply stages must remain disabled" (session-control-mcp/README.md:110).
FailedPreflightDisables ==
    [][\A p \in Observers : observer[p].pc = "gate" /\ observer'[p].pc = "list" => ~unready]_observerVars

\* "30-day retention, and a 2,048-event cap" (session-control-mcp/README.md:107):
\* the cap, not the size limit, is what bounds the events.
CapBoundsEvents == \A p \in Observers : observer[p].pc # "oversized"
=============================================================================
