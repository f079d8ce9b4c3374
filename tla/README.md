# Verification of claude-code-telegram-kit

The kit connects Claude Code to Telegram: MCP servers render a turn's progress
and its final reply, a control server turns chat commands into privileged jobs,
a root broker and helper restart the Claude service, and a "memory harness" lets
an isolated model review finished turns and maintain a few memory files on its
own. This directory holds TLA+ models of the parts whose correctness depends on
order, failure and concurrency, TLC configurations that check them on small
instances, and proofs checked with TLAPS.

Paths below are relative to the repository (`src/` in `PROJECT.json`);
`shared`, `session-control-mcp` and `telegram-renderer-mcp` stand for the
packages of that name.

## 1. Inventory

| Part | State it keeps | Operations | What is hard | What makes it correct | Module |
|---|---|---|---|---|---|
| Managed-memory applier (`shared/src/memory-applier.ts`, `memory-applier-state.ts`, `session-control-mcp/src/memory-apply-command.ts`) | memory files and their index, ownership ledger, one journal per proposal, a global claim | Stop hook: recover journals, apply one proposal, report | kills and failing calls between renames; other programs edit the same files; several hooks | a proposal takes effect entirely or not at all; edits of others survive; recovery converges | `MemoryApplier` |
| Claim on a proposal (`shared/src/memory-review-proposal-store.ts`) | claim file naming pid and start time | acquire, recover a stale claim, release | every system call interleaves; pids and inodes are reused | at most one running holder; a crashed owner's claim is cleared | `ProposalClaim` |
| Learning delta (`shared/src/learning-delta.ts`, `session-control-mcp/src/learning-delta-command.ts`) | one delta file per session, a bounded store | Stop writes, a prompt shows and acknowledges | short writes, kills, eviction, deployments | nothing pending is lost, consumed means shown, pending is shown in the end | `LearningDelta` |
| Memory review (`session-control-mcp/src/memory-review-command.ts`, `memory-review-worker.ts`, `shared/src/memory-review-receipt.ts`, `memory_review_session` of the helper) | receipt, snapshot, proposal, claim per turn | Stop hook creates and schedules; worker reviews; helper retries once | duplicate Stops, uncertain scheduling, failing writes around a model call that costs money | one job per receipt, no needless or uncounted model call, final verdicts backed by proposals | `ReviewPipeline` |
| Control broker (`session-control-mcp/scripts/claude_code_control_broker.py`) | rate file, systemd units | count jobs, read the clock, reserve a slot, start a unit | one process per connection, each reads the clock before it waits for the lock; time-outs of systemd-run | no window, less the tolerated second, holds more stamps than the limit | `ControlBroker` |
| Session helper (`session-control-mcp/scripts/claude_code_session_reset.py`) | service unit, model file, lock, request receipts | reset, resume, switch the model | each step may fail after it took effect; the service may never come up; redelivered requests | one execution per request, the chat is told the truth, the unit is canonical again, the lock is released | `SessionReset` |
| Chat commands (`session-control-mcp/src/command-dispatch.ts`, `control-command.ts`, `control.ts`, `sessions-control.ts`, `session-selection.ts`, `runtime.ts`) | one confirmation code per chat in memory, one list of sessions per chat on disk | list, ask for a code, confirm, schedule through the broker, report | awaits between looking and acting; failing and uncertain sends; restarts, /clear, expiry; the broker may answer too late | a job was asked for and confirmed once by its chat; a code that was shown keeps its force; a number means what the chat was shown | `ControlCommands` |
| Progress and final reply (`telegram-renderer-mcp/src/progress-disclosure.ts`, `progress-state.ts`, `background-progress.ts`, `progress-transport.ts`, `typing-heartbeat.ts`, wired in `server.ts`) | turns with their progress bubble, flush chain and timers; routes of background tasks and their aliases; failure incidents; a heartbeat per chat | bind a turn, record tools and agents, flush, finish a turn, report a failure | timers and awaits interleave with hook events; Telegram may answer late, uncertainly or never; turns are superseded while handlers wait | at most one answer per turn and per background task, one bubble, the closing text stays, superseded turns stay silent, hooks return | `TurnDisclosure` |
| Final delivery and artifacts (`telegram-renderer-mcp/src/unified-delivery.ts`, `artifact-delivery.ts`, `artifact-transcript.ts`, `deliverFinal` in `server.ts`, `shared/src/memory-delivery-evidence.ts`) | the rich-message cooldown, the paths a turn returned, the evidence file | send rich, Markdown or plain; record evidence; attach documents; one notice | every call of Telegram may fail or stay unknown; the second Stop after a too large answer; a bounded, expiring store | one answer per turn and a true verdict, documents after their text and once, rising evidence of delivered answers only | `FinalDelivery`, `AnswerContract` |
| Usage-queue watcher (`session-control-mcp/src/usage-queue-watcher.ts`) | offset in one transcript, what it has seen | poll, answer a queued `/usage` | reading rows half-written | each queued command answered | not modelled |
| Session titles (`session-control-mcp/src/session-title-*.ts`, windows of `session-catalog.ts`) | a leaf per session (claim, attempts, user lock), a lock file | hook, title job, `/rename` | the model takes seconds; kills, failing leaf writes, a CLI that outlives its server; a transcript that is read at both ends only | two calls at most, the user's title stands, the lock comes free | `SessionTitles` |
| Memory observer (`shared/src/memory-observer-ledger.ts`, `native-memory-observer.ts`, `session-control-mcp/src/memory-observer-command.ts`) | ledger: latest inventory, numbered events, watermark | SessionStart hook observes and records; the reviewer's hook does so again and quotes files | files are read one by one while they are edited, and before the lock; expiry, cap and rebuilding | events explain the latest inventory; quotes are a snapshot | `ObserverLedger` |
| Deployment (`scripts/runtime_activate.py`, `deploy_local.py`, `install_root_assets.py`) | release links, activation receipt | check and publish a release under a lock | an operator's script, alone | an active release is complete | not modelled |
| Formatting, parsing and usage queries | none | pure functions, read-only requests | — | — | not modelled |

How the parts meet. A turn ends with Claude Code's Stop event. Its hooks run the
renderer's final delivery, `memory-review-command` (which wants the renderer's
evidence of delivery) and `memory-apply-command` (which applies a proposal an
earlier review left). Reviews and chat commands reach root only through the
broker's socket; the broker starts the helper as a transient systemd unit whose
name is a digest of the request. The helper restarts the service all the others
run under, or runs a review worker as the service user. The applier leaves a
learning delta that the next prompt's hook shows to the model.

## 2. Modules

| Module | Contents |
|---|---|
| `MemoryApplier` | The Stop hook of the applier, one action per journal, file or ledger operation, with kills, failing calls and edits by others. |
| `ManagedMemory` | What the applier promises: a proposal is applied in one atomic step. |
| `MemoryApplierRefinement` | The refinement mapping (memory and owners as a reader may rely on them), `AppliesAtomically`. |
| `ProposalClaim` | The claim file, one action per system call. |
| `LearningDelta` | Delta store, prompt hook, Stop hook. |
| `ControlBroker` | The broker's connections, rate file and units. |
| `SessionReset` | EXTENDS `ControlBroker`: helper, service, unit, model file, request receipts. |
| `ReviewPipeline` | EXTENDS `ControlBroker`: Stop hook, receipt, snapshot, helper retry, worker. |
| `BackgroundRoutes` | The two maps by which a finished background task may answer, as operators: a route is kept with its age, and pruning drops one when enough `Younger` ones exist. |
| `ProgressBubble` | EXTENDS `BackgroundRoutes`: one turn and its bubble, as operators from turn to turn. |
| `TurnDisclosure` | EXTENDS `ProgressBubble`: the renderer process, its hooks, timers, awaits and answers of Telegram. |
| `AnswerContract` | What a delivery of the final answer promises its caller: at most one answer is shown, and the verdict tells. |
| `FinalDelivery` | `deliverFinal` with its fallbacks, evidence and artifacts; `KeepsContract`: it implements `AnswerContract`. |
| `ControlCommands` | The control server's handlers between Telegram, codes, lists, transcripts and broker. |
| `SessionTitles` | Leaf, lock, title job and `/rename` of one session. |
| `ObserverLedger` | Memory, observing hooks and their ledger. |
| `MC*` | Small instances for TLC. |
| `MemoryApplier_proofs`, `MemoryStores_proofs`, `ReviewPipeline_proofs`, `SessionReset_proofs`, `ControlCommands_proofs`, `SessionTitles_proofs`, `FinalDelivery_proofs`, `TurnDisclosure_proofs` | The theorems of the module each extends (section 5); `ReviewPipeline_proofs` holds the broker's too, `MemoryStores_proofs` those of `ProposalClaim`, `LearningDelta` and `ObserverLedger`. |

`PROJECT.json` maps every definition to the lines it translates. Conventions: a
process is a function from its name to a record with `pc`; an action's guard
holds the code's conditions, its alternatives the outcomes of the call. A call
that fails is an alternative guarded by `Mishap` (or `Throws`), which counts
against a bound; a write that fails may or may not have reached the disk, as the
code renames first and syncs and reads back afterwards. Definitions that a comment
calls a mutant are wrong variants used to show that a property
notices them.

**MemoryApplier.** `Stop` starts a hook; `ClaimForRecovery` to `RecoveryDone` are
`recoverMemoryReviewApplier`, `AtNext`/`ClaimForApply` to `Commit` and `Cleanup`
are `applyMemoryReviewProposal`, `Rollback*` is `rollbackJournal`, `Emit` and
`ReportOwned` are the reporting of `memory-apply-command.ts`. A file's image
stands for its bytes and hash. A ledger entry bears a stamp, its `updated_at`; the
journals prepared so far (`clock`) stand for the time, since two entries are never
of one millisecond. The global claim is atomic here; `ProposalClaim`
shows what it takes for the claim file to deliver that.

**ProposalClaim.** `Create`, `WriteRecord`, `SyncDirectory`, `ReadClaim`, `Judge`,
`Recheck`, `Unlink`, `ReleaseCheck`, `ReleaseUnlink` are the calls of
`acquireMemoryReviewProposalClaim` and `release`. Three constants name what the
environment may do: `ReuseInodes` (the file system may give a freed inode number
to the next file), `ConcurrentRecovery` (two recoverers may be between recheck
and unlink), `EmptyClaims` (a kill may leave the file without its record).
`overtaken` is a history variable: a recoverer has unlinked another claim than the
one it had judged, and its owner was running.

**LearningDelta.** `PromptClaim`, `Output`, `Acknowledge` are the prompt hook,
`Stop`, `NextProposal`, `WriteDelta` the loop of the Stop hook with
`writeLearningDelta`. Whether a proposal was applied is a choice.

**ControlBroker.** A connection is counted (`Count`), reads the clock (`TakeTime`),
takes a slot under the lock (`Reserve`) and starts its unit (`Run`); all but the
second may fail, and `Run` may fail although the unit started. `Reserve` prunes and
stamps with the time read before the lock was waited for, as
`claude_code_control_broker.py:148` does, and refuses a stamp more than `Tolerance`
ahead of it (line 170). Time is a bounded counter that never goes back, `stamps`
the rate file.

**SessionReset.** One record per helper. `Read`, `RemoveReceipt`, `Write`,
`Restart`, `Wait`, `Reload`, `Check` are shared by the three operations, as their
helpers are in the code; `Raises` is the `except` chain: forwards to the
recovery, from the recovery to a last restoration of the unit, then to the
notification. External: systemd restarts the service when it dies
(`Restart=always`), and `--continue` goes on with the session that ran last.

**ReviewPipeline.** Hook, broker connection and job share a name. The hook's steps
are `Stop`, `Gather`, `Look` and `Open` (`createMemoryReviewReceipt` around its
`O_EXCL` open), `WriteSnapshot`, `Condemn`, `Submit`; the worker's are `TakeClaim`,
`Examine`, `Attempt`, `CallModel`, `Store`, `Transition`, `RecordFailure`,
`Release`. Digests and bindings are the name of the hook that built the snapshot.
The store is taken to be close enough to its capacity for every creation to
prune.

**TurnDisclosure.** The renderer is one JavaScript loop. A handler runs to its
`await` in one action; the record `call[c]` says what it waits for (`grace`,
`drain`, `answer`, `fallback`, `background`, `notice`), and `Drained`, `Graced`,
`Answered`, ... are what follows each await. Promises that are resolved continue
before the next event: `Quiet` keeps events back until then. A turn's promise
chain is the number of flushes in it (`chain`) and the call of Telegram its head
waits for (`flight`); every other flush of the chain starts when the one before
it ends, with what the turn shows at that moment. `bindTurn` is `BindPrompt`,
`BindCompletion` and `BindNothing`; `finishTurn` is `FinishTurn` and the
continuations, `deliverRuntimeFailure` is `WatchFires` and `Fail`. A text is the
data it is rendered from: a count of foreground events, or the agents' states.
The insertion order of the map of routes, by which pruning drops the oldest, is
`made` in each route: how many tool ids were used when it was made.
External: what the chat has received (`telegram`), and which tool ids are used.
`BindCompletion` and `Ended` follow the code in touching the route's owner
although the hook belongs to another turn.

**FinalDelivery.** `Stop` begins a delivery, also the second one after `too_large`;
`SendRich`, `SendMarkdown`, `SendText` are the three attempts of
`createUnifiedDeliverer`, each of which Telegram accepts, refuses or leaves
unknown; `Persist` is `persistMemoryDeliveryEvidence`, `Attach` one upload,
`Notice` the message about missing documents. `TurnDisclosure` has the caller, in
which a delivery is one await; `AnswerContract` is what the two share: its
`Contract` speaks of what was shown and of the verdict alone, and
`FinalDelivery` implements it for all turns at once.

**ControlCommands.** A handler is the prompt it serves. `Arrive` runs the
dispatcher to its first await; `ShowList`, `ShowCode`, `ShowAnswer`, `CheckHelper`,
`Acknowledge`, `Broker*` and `Report*` are what follows each. A code is the
prompt that asked for it; a list is what `scanResumableSessions` saw. The broker
is what its client sees of it: it starts the job, refuses, or is too late.
Transcripts, the current session (`/clear`) and the service change at any point.

**SessionTitles.** The worker is one process (`worker`), a `/rename` one per user
title. `Examine`, `Claim`, `CallModel`, `PreApply`, `ApplyTitle`, `ReadBack`,
`Complete`/`Fail` are `ensureAutoTitle`, `Rename*` and `Record*` are
`renameUserSession`. The transcript is what can be read of it: the title its last
row gives, and the rows in the first and last 512 KiB (`head`, `tail`), until
`Grow` moves what was the tail out of sight.

**ObserverLedger.** `List` and `ReadLeaf` are `observeNativeMemory`, one file per
step; `Lock` takes `ledger.lock` and reads the ledger, `Write` is `writeLedger`,
`Unlock` the `finally` of `recordMemoryObservation`, `Quote`
`readNativeMemoryReviewContext`. A body stands for its hash; every edit gives a
modification time of its own. `log` holds all events numbered since the ledger was
last rebuilt, of which it retains some. Events are a set: their numbers, given in
the order of the paths, are their places in the file.

## 3. Runs

| Run | Checks | Bounds |
|---|---|---|
| `MemoryApplier_recovery` | One session, a create and a patch. `AppliesAtomically`: every behaviour is one of `ManagedMemory`. `NoOrphanedWrite`, `OnlyJournalledWrites`: a journal disappears only over a whole committed or an undone transaction, and bytes change only between its images. `OwnershipJustified`: the ledger names only what was committed or can be undone, the chat is told only of what was committed. `RecoveryConverges`. | one edit by others, one failing call, one kill |
| `MemoryApplier_concurrent` | Two hooks that may try the same creates, edits inside a CAS window. `TransactionsAreSerial`; `LinkedOnce`: the index has no more links to a topic than reviewed proposals to create it account for. | one edit, one kill |
| `ProposalClaim_serial` | `HolderOnDisk`, `RecoversCrashedOwner` with serial recovery and fresh inodes. | three processes, two with one pid; one kill, one failing call |
| `LearningDelta_store` | `PendingNeverLost`, `PendingIsShown`; `TypeOK`, which says too that consumed means shown and that the store keeps its bound. | two sessions, three proposals, room for one delta, one deployment, one mishap |
| `SessionReset_recovery` | `ExecutedOnce`, `ToldTheTruth`, `SteadyWhenIdle`, `LockIsReleased`. | two requests of four kinds, possibly the same; one mishap; any number of time-outs; the broker's clock stands still (section 5 has its limit) |
| `ReviewPipeline_verdicts` | `SingleFlight`, `CallsAreCounted`, `ProposalReused`, `ReviewedIsBacked`, `VerdictIsFinal`, `Decided`. | three hooks, two turns, one slot in two of three ticks, one mishap |
| `TurnDisclosure_final` | `OneAnswer`: a turn, and a background task, answers at most once. `BubbleTellsOutcome`: no second bubble after an uncertain or lost one, and the last drain leaves the outcome on the screen. `NoStaleAnswer`: no answer or notice for a turn that was dropped while its handler waited. `FinishReturns`: every hook returns. | one chat, three turns, two handlers at once, two tool calls, one agent, one route, chain depth one, five events (hooks, expiries and failing calls together) |
| `SessionTitles_naming` | `AtMostTwoCalls`; `VisibleTitleStands`: an automatic title never replaces one the user was told of that can be seen or is recorded; `TypeOK`, which says too that the worker holds lock and claim from its last look to its verdict; `LockIsReleased`. | one session, one `/rename`, two mishaps |
| `ControlCommands_codes` | `EachJobWasConfirmed`, `LatestCodeWorks`, `ListedTarget`. | three prompts of a chat and a group, three sessions, two handlers at once, one mishap, one change of the world (2.1 million states) |
| `FinalDelivery_answers` | `KeepsContract` (the refinement), `FilesFollowText`, `EvidenceOfDelivery`. | two turns, two sessions, two documents, room for two records, two earlier ones, two mishaps |
| `ObserverLedger_history` | `EventsExplainLatest`: numbers are given once and without gaps, the events of a file link up and lead to the inventory. `QuotesAreASnapshot`. | index and one topic, two contents, room for two events or three bytes, three hooks, two at once, two changes (edits, ticks, deployments), one mishap |
| `ProposalClaim_race` | shows a disagreement of code and documents (section 4) | as small as shows it |

Why these bounds are enough. The hazards listed in `PROJECT.json` need at most
two actors on one resource and one thing that goes wrong; a third process (claim,
review) is there so that a newcomer meets two others. Every mutant (one per
property) is found within them. One limit is chosen, not natural: with *two*
failing calls in one run `AppliesAtomically` does not hold, because a rollback
that itself fails leaves a journal for the next hook (the model has that, with
`MaxFaults = 1` per run). `ReviewPipeline_verdicts` was also
checked with two mishaps (2.7 million states, no error), which only takes too long
for every day. `ObserverLedger_history` was also checked with two
hooks and three changes, and `TurnDisclosure_final` with six
events instead of five for its safety properties (no error); its limits on
turns, routes and depth are one or two where the code has 16 to 128, so that
eviction, pruning and the refusal of a deeper chain happen. `Next` never disables a process that could still
act, so a run checks for deadlock unless the system really comes to rest
(`CHECK_DEADLOCK FALSE`: bounded processes that have all ended).

Fairness. `MemoryApplier`: a started hook goes on and turns keep ending
(`WF` of `Stop` and `HookStep`); no other reviewer has the claim at every moment a
recovery wants it (`SF` of `RecoverJournal`). `ProposalClaim`: running processes
take their steps (`WF`). `LearningDelta`: hooks end, prompts keep coming (`WF`),
and the store is not busy at every one of them (`SF` of `PromptClaim` and
`WriteDelta`). `SessionReset`: the kernel runs the helper (`WF` of `HelperStep`)
and nothing more; in particular the service need not ever come up.
`TurnDisclosure`: calls of Telegram are answered or time out (500 ms in
`progress-transport.ts`), and handlers that can go on do (`WF` of `Responds`);
that a drain gives up after two seconds is *not* assumed, so hooks return
without it. `SessionTitles`: worker and `/rename` go on, and the isolated runner stops a
model or CLI at its deadline (`WF`). `ControlCommands`, `FinalDelivery` and
`ObserverLedger` state no liveness: their processes are handlers that end by
themselves or with their server. `ReviewPipeline` has no liveness property: its worker is killed by the helper's
time-out, and `Decided` says what matters as an invariant.

## 4. Where code and documents disagree

`ProposalClaim_race`, the one run that is expected to fail: recovery compares the
inode and then unlinks by path, so two recoverers can end up both holding the
claim that "singleflights the reviewer model call"
(`session-control-mcp/README.md:124`).

Companion configurations are kept beside the runs, each checking one property
that TLC finds violated:

- `MemoryApplier_overlap.cfg` (`ProposalsDoNotRace`): after an I/O error left P1's
  journal behind, the same hook goes on with P2, whose index write makes P1's
  journal unrestorable; `docs/memory-applier.md:15` says proposals cannot race the
  shared index.
- `LearningDelta_repeated.cfg` (`ShownOnce`): two owned proposals of a session
  replace each other's consumed delta and are shown again at every turn; the
  README calls the delta "one-shot" (`session-control-mcp/README.md:131`).
- `SessionReset_stale_current.cfg` (`RestoresPrevious`): the recovery restores the
  session the *request* named, which need not be the one that was active
  (`claude_code_session_reset.py:1268`).
- `TurnDisclosure_typing.cfg` (`TypingIsOwned`): `deliverFinal` of a superseded turn
  answers that the text is too long; the retry restarts the typing heartbeat for
  the dropped turn, in place of the newer turn's, and nothing cancels it before
  the ten-minute cutoff (`docs/design-invariants.md:45`).
- `SessionTitles_grown.cfg` (`UserTitleStands`): a `/rename` whose leaf could not be
  written is confirmed; once its row has left the first and last 512 KiB of the
  transcript, the next job gives the session an automatic title
  (`docs/operations.md:183`).
- `ControlCommands_late.cfg` (`FailureMeansNothing`): the broker starts a confirmed
  job after its client's five seconds; the chat reads "No fresh session was
  started." (`control.ts:6`).
- `ObserverLedger_capacity.cfg` (`CapBoundsEvents`): an event takes about 300 bytes
  and the ledger 256 KiB at most (`memory-observer-ledger.ts:34`), so from some 800
  events on every recording fails until old ones expire; the cap of 2,048
  (`session-control-mcp/README.md:108`) is never reached. The instance has the same
  proportion: room for two events, but not for two long ones.
- `ObserverLedger_preflight.cfg` (`FailedPreflightDisables`): a failed SessionStart
  hook leaves an older ledger of the same release in place, and the reviewer's
  gate compares the release only, although "later review/apply stages must
  remain disabled" (`session-control-mcp/README.md:110`).
- `MemoryApplier_commit_fault.cfg`: the committed-journal write may throw after its
  rename; the rollback that follows leaves a committed journal over restored
  files until the next recovery drops it, also when that rollback was refused
  half-way ("No partial write is inferred to be committed", `docs/memory-applier.md:33`).
- `ProposalClaim_race.cfg` with `ReuseInodes` instead of `ConcurrentRecovery`: the
  recheck by inode number is fooled when the number is reused. And
  `ProposalClaim_serial.cfg` with `EmptyClaims`, which violates
  `RecoversCrashedOwner`: a claim file without its record is never recovered
  (both `session-control-mcp/README.md:124`).
- `LearningDelta_stale.cfg`: a pending delta of an earlier release blocks the
  session's later ones ("missed writes are re-emitted from managed ownership",
  `session-control-mcp/README.md:135`).
- `ControlBroker_limits.cfg` (`RateLimited`, four connections): the time of a request
  is read before the wait for the lock of the rate file (`time.time()` at
  `claude_code_control_broker.py:148`, `flock` at 159). Twelve slots are taken at 0;
  A reads 59.9 and waits, B reads 60.1, prunes the twelve and takes a slot, and then
  A, which sees one stamp and tolerates that it is ahead, takes one at 59.9. Thirteen
  stamps are in the minute up to 59.9, although "the broker permits at most 12
  mutations per minute" (`session-control-mcp/README.md:156`). For the same reason a
  stamp may be older than the moment its slot was taken, and leaves the window that
  much too early. `RateBounded` holds there, and is proved (section 5).
- `ControlBroker_limits.cfg` with the invariant `JobsBounded`: the pending-job limit is
  counted before the job starts, so concurrent connections exceed it ("four
  concurrent helper jobs", `session-control-mcp/README.md:156`).
- `SessionTitles_naming.cfg` with the invariant `OneCall`: after a timeout or another
  failure it holds to be retryable, a later job calls the model a second time. So says
  `session-control-mcp/README.md:64` ("at most two isolated `haiku` calls"), which
  `AtMostTwoCalls` checks; but `docs/design-invariants.md:71` promises "at most one
  Haiku-class call per exact session UUID", and `docs/operations.md:182` that the unit
  "makes one isolated Haiku call".
- `ReviewPipeline_verdicts.cfg` with `MaxReceipts = 1` and the invariant
  `WithinCapacity`: likewise for the receipt store ("Fails closed ... at capacity",
  `shared/src/memory-review-receipt.ts:283`).

Remarks met while modelling, not backed by a run: `docs/design-invariants.md:84`
says requests are idempotent by chat and message, the broker's request id also
hashes the current session. A second helper that finds the lock busy ends without
telling the chat, and so does a reset that meets an unusual unit. An error while
cleaning up after a successful reset rolls the reset back. Reviews share the rate
budget of user commands. A review worker that is killed has no successor: only a
worker that exits with 75 is run again, so its receipt stays queued. In the
applier, two hooks of one session may overlap: the second one reads an entry in the
ledger before its journal is committed and reports it as learned, although a
pending delta stands for "newly applied ownership"
(`session-control-mcp/README.md:135`), and the rollback may still take the entry
back. A second proposal to create a topic whose file others have deleted adds a
second link to it: nothing looks for the first one. In the
renderer, a failure the watcher reports while an answer is being delivered adds a
notice to the answer; a background bubble may be begun for a turn dropped during
`deliverFinal`; and after a drain that gave up, "the drain continues in the
background" (`progress-disclosure.ts:30-34`) only until the turn is dropped, which
is usually at once.

## 5. Proofs

For all values of the constants, checked by TLAPS:

| Theorem | Says | By |
|---|---|---|
| `MemoryApplier_proofs!TypeCorrect`, `Serialised` | `[]TypeOK`, `[]TransactionsAreSerial` | The invariant is their conjunction: that a hook in a transaction holds the claim is only inductive together with what it knows of its journal. One lemma per action. |
| `MemoryApplier_proofs!WritesAreJournalled` | without edits inside a CAS window, `OnlyJournalledWrites` | the same invariant: the file still has the bytes the CAS saw |
| `MemoryApplier_proofs!OwnershipIsJustified` | if the commit record cannot fail after its rename, `[]OwnershipJustified` | `OInv`. `JournalSound` and the stamps say what is in the two ledger images of a journal and that its entry is younger than any other there. A failed rollback may leave a journal whose entry the ledger no longer has, and a later journal may keep that entry in its own before image: `Settled` keeps the set of journals whose entry no restorable image holds, so that dropping one of them orphans nothing. `HookSound` says how far the ledger is at each step of the hook, and which proposals it may report. |
| `MemoryApplier_proofs!TopicsAreLinkedOnce` | `[]LinkedOnce`, with or without edits inside a CAS window | `LinkInv`: the bound holds in the index, in both images of every journal and, with room for one link more, in what the reviewer of an unwritten create saw. Counting needs lemmas on finite sets (`LinksAppend`). |
| `MemoryStores_proofs!ClaimTypeCorrect`, `HolderKeepsClaim` | `[]ClaimTypeOK`, `[]KeptUnlessOvertaken` and `[]ExclusiveUnlessOvertaken`: a running holder's claim stays on disk, and there is one holder, unless a recoverer has unlinked another claim than the one it judged. For any number of processes, recoverers at once, kills, failing calls, reused pids and inode numbers, and empty claims: what `ProposalClaim_race` shows is the only way to break the lock. | `ClaimInv`: `Owned` (the claim a process made is on the path until it removes it), `Made` and `Remembered` (the owner of a claim once ran), hence `Condemned` (past the verdict the owner is gone for good, whoever has its pid), so that a recoverer that finds the claim it judged takes nothing from a running process. That recovery one at a time and fresh inode numbers keep `overtaken` false is only model-checked (`HolderOnDisk`). |
| `MemoryStores_proofs!DeltaInvariant`, `ConsumedWasShown`, `PendingIsKept` | `[]TypeOK`, which says too that only owned proposals have deltas, that a consumed delta was shown and that the store keeps its bound; and `PendingNeverLost`; for any number of sessions, proposals, kills, failing calls, deployments and evictions | `DeltaInv`: `TypeOK` with `HookSound`. A prompt hook that shows a delta holds the store, and the delta is still on disk when it is acknowledged; what it acknowledges it has shown. Without that, consumed means shown is not inductive, since showing and acknowledging are two steps with kills and evictions between. `RoomIsMade` counts the store when a Stop hook evicts and writes. |
| `MemoryStores_proofs!ObserverInvariant`, `LedgerExplainsMemory`, `ShownTogether` | `[]EventsExplainLatest` and `[]QuotesAreASnapshot`, for any memory, any number of hooks, edits, releases, kills and failures, any cap and retention | `ObserverInv`. `Accounted` says of the ledger on disk, and of the one a hook has read under the lock and will replace, that all events recorded since the last rebuild explain it; `LedgerLocked` lets no other hook record in between; damage only makes the next hook start over. An event that starts where the others ended links up with them (`LinksOn`), numbers within one observation differ (`RanksDiffer`), and the cap holds because numbers do (`LastOfBounded`). For the reviewer, `ObserverSound`: a file that still is as it was read, modification time included, was so at the moment the last one had been read, since no edit repeats a modification time. |
| `ReviewPipeline_proofs!BrokerTypes`, `BrokerRateBounded` | `[]BrokerTypeOK` and `[]RateBounded`: no 59 seconds hold more than 12 stamps, for every burst, window, tolerance and number of connections, however long each waits for the lock | `StampsKept`: a slot leaves the file only for one stamped a window later, and no stamp is ahead of the clock. So a slot missing from the file shares no shortened window with a new one: the stamp it left for would be too far ahead of the time read. |
| `ReviewPipeline_proofs!ReviewTypes`, `ReviewSingleFlight`, `ReviewCallsAreCounted`, `ReviewProposalReused`, `ReviewBacked`, `ReviewDecides`, `ReviewVerdictIsFinal` | every property of `ReviewPipeline_verdicts`, for any number of hooks, turns, attempts and mishaps | `IInv` says of each request on its own that from its receipt on it owns its turn (`Owns`), that hook, connection and job follow one another (`InOrder`), what its worker has established at each step (`Worker`) and, as long as nothing but the model failed, achieved (`Undisturbed`). `Others`: a step that moves only files its request owns, or nobody owns, keeps what holds of other requests. TLC has checked `IInv` on the instance of the run. |
| `SessionReset_proofs!HelperInvariant`, `SteadyBetweenJobs`, `OnceOnly`, `OutcomesAreTrue` | `[]SteadyWhenIdle`, `[]ExecutedOnce`, `ToldTheTruth`, for any number of requests, failing calls, kills, crashes and expiries | `ResetInv`, whose core is `Phases`: what is on disk, loaded and running at each step of the one helper under the lock, on its way forward or back. Neither the outcome nor the steady state is inductive without it, since both rest on a write some steps earlier that a crash of the service in between must not undo (`ServiceKnown`: it boots what is loaded). `SteadyKept` says who may have left the unit otherwise: the helper under the lock, or one that was killed or asked for help. `ReceiptsKept` binds everything executed to a receipt of its id. |
| `ControlCommands_proofs!CommandInvariant`, `OneCodePerJob`, `ShownCodeWorks`, `NumbersMeanWhatWasShown` | every property of `ControlCommands_codes`, for any number of prompts, chats, handlers and sessions | `CommandInv`. `ConfirmedOnce` speaks of a prompt from the moment its code is consumed, long before it has a job, and says that no two such prompts have the same code; it needs `CodesKept` (a code in force is unspent, was asked for in its chat, and is the last one issued there unless that one can no longer be of use). `ListsShown` (the numbers in force are those of a list the chat was shown) gives `TargetsListed` its witness. `Listed` is stated by the order it must follow, so that no induction over the list is needed. |
| `SessionTitles_proofs!TitleInvariant`, `TypeCorrect`, `TwoCallsAtMost`, `UserTitleKept` | `[]TypeOK`, `[]AtMostTwoCalls`, `VisibleTitleStands` | `TitleInv`: `CallsPaid` (the leaf's attempts are never behind the calls, and one ahead while a claimed call is due, so the bound on attempts is one on calls), `LockHeld` with `ClaimIsHeld` (what the worker saw under the lock is so still), `TitlesKept` (only a `/rename` whose server died can change the title meanwhile, and nobody was told of that one) |
| `FinalDelivery_proofs!DeliveryInvariant`, `DocumentsFollowText`, `EvidenceIsTrue` | `[]FilesFollowText`, `[]EvidenceOfDelivery`, for any number of turns, documents and records | `DeliveryInv`: `AnswerCounted` (how many answers the chat shows at each step: the verdict alone does not tell, as it is given after the documents), `FilesOrdered` (documents shown and documents left make up the turn's), `EvidenceTrue` |
| `FinalDelivery_proofs!DeliveryKeepsContract` | `KeepsContract`: `FinalDelivery` implements `AnswerContract` for every turn | the initial states agree; a step of a turn is one of its contract or a stutter, by `AnswerCounted`, and leaves the other turns alone |
| `TurnDisclosure_proofs!TurnsAnswerOnce`, `BubblesTellOutcomes`, `NoAnswerIsStale` | `[]OneAnswer`, `[]BubbleTellsOutcome`, `NoStaleAnswer`, for any number of turns, handlers, tasks, agents and events | `IInv`. `AnswersOnce`: a turn that nobody has tried to answer has sent nothing, and a handler that waits for the answer's outcome is the only one of its turn. `RoutesSpent`: only a task in use has a route, and one that has bound a turn has none left and binds no other. `BubbleInv`: each turn's phase, the flush in flight, the message id and the text last sent agree with the one bubble that may be on the screen (`Fits`), and whatever a waiting handler has yet to see flushed, the flushes before it in the chain do flush (`Drains`): the outcome on the screen after the last drain rests on flushes enqueued several events earlier. Every step is one of a few forms (turns move, calls move, a handler ends), and each form has a lemma. |

The invariants named here were first checked by TLC on the instances of the
runs. The theorems are about `Spec`; where a run takes `FairSpec`, which adds
fairness to `Spec`, they hold of it all the more.

Assumptions on constants are the named `ASSUME`s of the modules, which TLC
evaluates in the runs. Besides bounds they say that `None` is none of the values
it stands beside (`BrokerRequests`, `CommandBounds`, `HelperNone`,
`ObserverAssumption`, where it is `Absent`; `DistinctAssumption`, which also keeps other programs' lines of the index apart from
links), that finitely many proposals create topics (`FiniteAssumption`), that the
ledger found at the start names earlier proposals (`InitialAssumption`), that a
resume names a session and a switch a model (`HelperNames`: the broker rejects
others), that there are finitely many sessions (`CommandBounds`, `DeltaNames`), and that `None` is
no route, error or call in flight (`RouteNames`, `DisclosureNames`) and no delta
(`DeltaNone`, and `ClaimNone` for the claim file).
Two theorems have hypotheses of their own: `WritesAreJournalled` (no edit inside a
CAS window) and `OwnershipIsJustified` (no commit record that fails after its rename, the case of
`MemoryApplier_commit_fault.cfg`).

Only model-checked: `NoOrphanedWrite` and the refinement of `ManagedMemory` of the
applier (`AppliesAtomically`, section 6), and all liveness properties, which like `ENABLED`
are beyond the prover. The library's
induction theorems take an operator and cannot be instantiated; where the models
fold over a sequence or pick a maximum, `FinalDelivery_proofs` proves what it
needs by the least number that would refute it (`LeastNumber`, `IndexInduction`).

`ClaimTypeOK` of `ProposalClaim` and `TypeOK` of `ReviewPipeline`, `FinalDelivery`
and `ControlCommands` are no longer run: the first two are proved, the others are a
part of the invariants above.

## 6. Plan

Every part with a protocol of its own is modelled. What is left is to prove more,
namely the applier's `NoOrphanedWrite`, which is true of one hook at a time whose
files nobody edits back to what an entry wrote, so that it needs hypotheses of that
kind; and the applier's refinement of `ManagedMemory`.

## 7. Not modelled

- The usage-queue watcher (`usage-queue-watcher.ts`): one process tails one file;
  its state is an offset, and what it does hangs on the text of the rows, which a
  model would have to assume.
- Deployment: an operator's scripts that check a release and publish it under an
  exclusive lock. What they change shows as the `Deploy` steps of the modules.
- The secure state store as such: its write (rename, sync, read back) is the write
  of every module; its path and permission checks are out of scope.
- Formatting, parsing, menus, usage queries: no state.
- Within modelled parts: a file that a session start damages beyond JSON, the
  resolving of settings, the lock file of the observer (`ProposalClaim` shows the
  races of that form), reading the transcript for a failure, the delta functions
  without a caller. A title leaf that a kill leaves half-written blocks naming for
  good, as the model shows; no document promises otherwise.
