------------------------- MODULE SessionTitles_proofs -------------------------
(***************************************************************************)
(* The naming of a session, for every number of /rename commands, tasks,   *)
(* kills and failing calls: its lock, its two calls of the model, and the  *)
(* user's title that stands.                                               *)
(***************************************************************************)
EXTENDS SessionTitles, FiniteSetTheorems, TLAPS

\* The type invariant in two: the transcript, and the processes with what they
\* share.
TranscriptOK ==
    /\ {title, head, tail} \subseteq Titles \cup {None}
    /\ ai \in {"none", "head", "tail", "past"} /\ big \in BOOLEAN
    /\ talk \in {"none", "asked", "answered"}
    /\ running \subseteq Tasks /\ overflow \in BOOLEAN
    /\ Cardinality(running) <= MaxTracked
ProcessesOK ==
    /\ leaf \in Leaves /\ lock \in Users \cup {Worker, None} /\ hook \in BOOLEAN
    /\ worker \in WorkerSteps
    /\ rename \in [Users -> {"idle", "lock", "cli", "read_back", "record", "gone"}]
    /\ orphans \subseteq Users
    /\ told \in [Users -> {None, "renamed", "failed"}]
    /\ calls \in Nat /\ mishaps \in 0..MaxMishaps

\* The flock excludes: whoever is past it holds it.
Locking == {"cli", "read_back", "record"}
LockHeld ==
    /\ worker \notin {"idle", "lock"} => lock = Worker
    /\ \A u \in Users : rename[u] \in Locking => lock = u

\* The leaf pays for the calls in advance: its attempts are never behind the
\* calls, and are one ahead until the claimed call is made.  A leaf locked by
\* the user no longer counts, but no claim follows it either.
CallsPaid ==
    /\ worker = "claim" => MayAttempt
    /\ worker = "call" => calls < leaf.attempts
    /\ leaf.status # "user_locked" => calls <= leaf.attempts
    /\ calls <= 2

\* Only a /rename whose server died can write a title under the worker's nose,
\* and nobody is told of that title any more.
NobodyTold(u) == rename[u] = "gone" /\ told[u] = None
TitlesKept ==
    /\ \A u \in Users : told[u] # None => rename[u] = "gone"
    /\ \A u \in orphans : NobodyTold(u)
    /\ worker = "rename" /\ Custom # None => title \in Users /\ NobodyTold(title)

TitleInv ==
    /\ TranscriptOK /\ ProcessesOK /\ ClaimIsHeld
    /\ LockHeld /\ CallsPaid /\ TitlesKept

\* What a valid leaf says of itself, and what its constructors build.
LEMMA LeafFacts ==
    /\ \A l \in Leaves :
         /\ l.attempts \in 0..2
         /\ l.status = "claimed" => l = Claimed(l.attempts) /\ l.attempts \in 1..2
    /\ NoLeaf \in Leaves /\ NoLeaf.status = "absent" /\ NoLeaf.attempts = 0
    /\ Corrupt \in Leaves /\ Corrupt.status = "corrupt" /\ Corrupt.attempts = 0
    /\ \A n \in 1..2 : /\ Claimed(n) \in Leaves
                       /\ Claimed(n).status = "claimed" /\ Claimed(n).attempts = n
    /\ \A n \in 1..2, r \in {"no", "waiting", "due"} :
         /\ Failed(n, r).status = "failed" /\ Failed(n, r).attempts = n
         /\ r = "no" \/ n = 1 => Failed(n, r) \in Leaves
    /\ \A n \in 1..2, t \in Titles :
         /\ Applied(n, t) \in Leaves
         /\ Applied(n, t).status = "auto_applied" /\ Applied(n, t).attempts = n
    /\ \A t \in Titles \cup {"ai"} :
         /\ Locked(t) \in Leaves
         /\ Locked(t).status = "user_locked" /\ Locked(t).attempts = 1
<1>1. \A l \in Leaves :
         /\ l.attempts \in 0..2
         /\ l.status = "claimed" => l = Claimed(l.attempts) /\ l.attempts \in 1..2
  BY DEF Leaves, NoLeaf, Corrupt, Blank, Claimed, Failed, Applied, Locked
<1>2. /\ NoLeaf \in Leaves /\ NoLeaf.status = "absent" /\ NoLeaf.attempts = 0
      /\ Corrupt \in Leaves /\ Corrupt.status = "corrupt" /\ Corrupt.attempts = 0
  BY DEF Leaves, NoLeaf, Corrupt, Blank
<1>3. \A n \in 1..2 : /\ Claimed(n) \in Leaves
                     /\ Claimed(n).status = "claimed" /\ Claimed(n).attempts = n
  BY DEF Leaves, Claimed
<1>4. \A n \in 1..2, r \in {"no", "waiting", "due"} :
         /\ Failed(n, r).status = "failed" /\ Failed(n, r).attempts = n
         /\ r = "no" \/ n = 1 => Failed(n, r) \in Leaves
  BY DEF Leaves, Failed
<1>5. \A n \in 1..2, t \in Titles :
         /\ Applied(n, t) \in Leaves
         /\ Applied(n, t).status = "auto_applied" /\ Applied(n, t).attempts = n
  BY DEF Leaves, Applied
<1>6. \A t \in Titles \cup {"ai"} :
         /\ Locked(t) \in Leaves
         /\ Locked(t).status = "user_locked" /\ Locked(t).attempts = 1
  BY DEF Leaves, Locked
<1> QED
  BY <1>1, <1>2, <1>3, <1>4, <1>5, <1>6

LEMMA TitleInit == Init => TitleInv
<1> SUFFICES ASSUME Init PROVE TitleInv
  OBVIOUS
<1>1. Cardinality({}) = 0
  BY FS_EmptySet
<1>2. TranscriptOK
  <2>1. big \in BOOLEAN /\ overflow \in BOOLEAN
    BY ZenonT(20) DEF Init
  <2>2. Cardinality(running) <= MaxTracked /\ running \subseteq Tasks
    BY <1>1, TitleBounds DEF Init
  <2> QED
    BY <2>2 DEF Init, TranscriptOK
<1>3. ProcessesOK
  <2>1. hook \in BOOLEAN
    BY ZenonT(20) DEF Init
  <2>2. leaf \in Leaves
    BY LeafFacts DEF Init
  <2> QED
    BY <2>1, <2>2, TitleBounds DEF Init, ProcessesOK, WorkerSteps
<1>4. ClaimIsHeld
  BY DEF Init, ClaimIsHeld, Applying
<1>5. LockHeld /\ CallsPaid /\ TitlesKept
  BY LeafFacts DEF Init, LockHeld, Locking, CallsPaid, TitlesKept
<1> QED
  BY <1>2, <1>3, <1>4, <1>5 DEF TitleInv

----------------------------------------------------------------------------
(* The steps of the transcript *)

\* Whatever is appended, the windows show titles of the session.
LEMMA TranscriptStep ==
    ASSUME TranscriptOK,
           UNCHANGED transcriptVars \/ \E t \in Titles : Renames(t)
    PROVE  TranscriptOK'
  BY DEF TranscriptOK, transcriptVars, Renames

LEMMA SessionStep ==
    ASSUME TitleInv, SessionGoesOn
    PROVE  TitleInv'
<1> USE DEF TitleInv
<1>2. TranscriptOK'
  <2>1. CASE Grow \/ AiTitled \/ Talks
    BY <2>1 DEF TranscriptOK, Grow, AiTitled, Talks
  <2>2. CASE \E k \in Tasks : TaskForks(k) \/ TaskEnds(k)
    <3> PICK k \in Tasks : TaskForks(k) \/ TaskEnds(k)
      BY <2>2
    <3>1. IsFiniteSet(running)
      BY TitleBounds, FS_Subset DEF TranscriptOK
    <3>2. running' \subseteq Tasks /\ overflow' \in BOOLEAN
      BY DEF TranscriptOK, TaskForks, TaskEnds
    <3>3. Cardinality(running') <= MaxTracked
      BY <3>1, TitleBounds, FS_AddElement, FS_RemoveElement, FS_CardinalityType
         DEF TranscriptOK, TaskForks, TaskEnds
    <3> QED
      BY <3>3 DEF TranscriptOK, TaskForks, TaskEnds
  <2> QED
    BY <2>1, <2>2 DEF SessionGoesOn
<1>3. ProcessesOK' /\ ClaimIsHeld' /\ LockHeld' /\ CallsPaid'
  BY DEF SessionGoesOn, ProcessesOK, ClaimIsHeld, LockHeld, CallsPaid, MayAttempt,
         commandVars
<1>4. TitlesKept'
  <2>1. title' = title /\ UNCHANGED <<worker, rename, orphans, told>>
    BY DEF SessionGoesOn, commandVars, Grow, AiTitled, Talks, TaskForks, TaskEnds
  <2>2. Custom' # None => Custom # None
    BY DEF SessionGoesOn, Grow, AiTitled, Talks, TaskForks, TaskEnds, Custom
  <2> QED
    BY <2>1, <2>2 DEF TitlesKept, NobodyTold
<1> QED
  BY <1>2, <1>3, <1>4

LEMMA HookFiresStep ==
    ASSUME TitleInv, HookFires
    PROVE  TitleInv'
<1> USE DEF TitleInv
<1>1. /\ leaf \in Leaves /\ leaf.attempts \in 0..2
      /\ leaf.status = "claimed" => leaf = Claimed(leaf.attempts) /\ leaf.attempts \in 1..2
  BY LeafFacts DEF ProcessesOK
<1>2. TranscriptOK'
  BY TranscriptStep DEF HookFires
<1>3. ProcessesOK'
  BY DEF HookFires, ProcessesOK, commandVars
<1>4. ClaimIsHeld'
  BY DEF HookFires, ClaimIsHeld
<1>5. LockHeld'
  BY DEF HookFires, LockHeld, commandVars
<1>6. CallsPaid'
  BY DEF HookFires, CallsPaid, MayAttempt
<1>7. TitlesKept'
  BY DEF HookFires, TitlesKept, NobodyTold, Custom, transcriptVars, commandVars
<1> QED
  BY <1>2, <1>3, <1>4, <1>5, <1>6, <1>7

LEMMA JobStartsStep ==
    ASSUME TitleInv, JobStarts
    PROVE  TitleInv'
<1> USE DEF TitleInv
<1>1. /\ leaf \in Leaves /\ leaf.attempts \in 0..2
      /\ leaf.status = "claimed" => leaf = Claimed(leaf.attempts) /\ leaf.attempts \in 1..2
  BY LeafFacts DEF ProcessesOK
<1>2. TranscriptOK'
  BY TranscriptStep DEF JobStarts
<1>3. ProcessesOK'
  BY DEF JobStarts, ProcessesOK, WorkerSteps, commandVars
<1>4. ClaimIsHeld'
  BY DEF JobStarts, ClaimIsHeld, Applying
<1>5. LockHeld'
  BY DEF JobStarts, LockHeld, commandVars
<1>6. CallsPaid'
  BY DEF JobStarts, CallsPaid, MayAttempt
<1>7. TitlesKept'
  BY DEF JobStarts, TitlesKept, NobodyTold, Custom, transcriptVars, commandVars
<1> QED
  BY <1>2, <1>3, <1>4, <1>5, <1>6, <1>7

LEMMA RetryComesDueStep ==
    ASSUME TitleInv, RetryComesDue
    PROVE  TitleInv'
<1> USE DEF TitleInv
<1>1. /\ leaf \in Leaves /\ leaf.attempts \in 0..2
      /\ leaf.status = "claimed" => leaf = Claimed(leaf.attempts) /\ leaf.attempts \in 1..2
  BY LeafFacts DEF ProcessesOK
<1>2. TranscriptOK'
  BY TranscriptStep DEF RetryComesDue
<1>3. ProcessesOK'
  BY LeafFacts DEF RetryComesDue, ProcessesOK, commandVars
<1>4. ClaimIsHeld'
  BY LeafFacts DEF RetryComesDue, ClaimIsHeld
<1>5. LockHeld'
  BY DEF RetryComesDue, LockHeld, commandVars
<1>6. CallsPaid'
  BY LeafFacts DEF RetryComesDue, MayAttempt, CallsPaid
<1>7. TitlesKept'
  BY DEF RetryComesDue, TitlesKept, NobodyTold, Custom, transcriptVars, commandVars
<1> QED
  BY <1>2, <1>3, <1>4, <1>5, <1>6, <1>7

LEMMA WorkerLocksStep ==
    ASSUME TitleInv, WorkerLocks
    PROVE  TitleInv'
<1> USE DEF TitleInv
<1>1. /\ leaf \in Leaves /\ leaf.attempts \in 0..2
      /\ leaf.status = "claimed" => leaf = Claimed(leaf.attempts) /\ leaf.attempts \in 1..2
  BY LeafFacts DEF ProcessesOK
<1>2. TranscriptOK'
  BY TranscriptStep DEF WorkerLocks
<1>3. ProcessesOK'
  BY DEF WorkerLocks, Enter, ProcessesOK, WorkerSteps, commandVars
<1>4. ClaimIsHeld'
  BY DEF WorkerLocks, ClaimIsHeld, Applying
<1>5. LockHeld'
  BY TitleNames DEF WorkerLocks, Enter, LockHeld, commandVars
<1>6. CallsPaid'
  BY DEF WorkerLocks, CallsPaid
<1>7. TitlesKept'
  BY DEF WorkerLocks, TitlesKept, NobodyTold, commandVars
<1> QED
  BY <1>2, <1>3, <1>4, <1>5, <1>6, <1>7

LEMMA ExamineStep ==
    ASSUME TitleInv, Examine
    PROVE  TitleInv'
<1> USE DEF TitleInv
<1>1. /\ leaf \in Leaves /\ leaf.attempts \in 0..2
      /\ leaf.status = "claimed" => leaf = Claimed(leaf.attempts) /\ leaf.attempts \in 1..2
  BY LeafFacts DEF ProcessesOK
<1>a. HasTitle => Locked(Existing) \in Leaves /\ Locked(Existing).status = "user_locked"
  <2>1. HasTitle => Existing \in Titles \cup {"ai"}
    BY DEF TranscriptOK, Existing, Custom
  <2> QED
    BY <2>1, LeafFacts
<1>2. TranscriptOK'
  BY TranscriptStep DEF Examine
<1>3. ProcessesOK'
  BY <1>a, TitleBounds
     DEF Examine, Replaces, ReplaceFails, Works, Mishap, WorkerLeaves, Release, ProcessesOK,
         WorkerSteps, commandVars
<1>4. ClaimIsHeld'
  BY DEF Examine, WorkerLeaves, ClaimIsHeld, Applying
<1>5. LockHeld'
  BY TitleNames DEF Examine, WorkerLeaves, LockHeld, commandVars
<1>6. CallsPaid'
  BY <1>a DEF Examine, Replaces, ReplaceFails, WorkerLeaves, MayAttempt, CallsPaid
<1>7. TitlesKept'
  BY DEF Examine, WorkerLeaves, TitlesKept, NobodyTold, commandVars
<1> QED
  BY <1>2, <1>3, <1>4, <1>5, <1>6, <1>7

LEMMA ClaimStep ==
    ASSUME TitleInv, Claim
    PROVE  TitleInv'
<1> USE DEF TitleInv
<1>1. /\ leaf \in Leaves /\ leaf.attempts \in 0..2
      /\ leaf.status = "claimed" => leaf = Claimed(leaf.attempts) /\ leaf.attempts \in 1..2
  BY LeafFacts DEF ProcessesOK
<1>2. TranscriptOK'
  BY TranscriptStep DEF Claim
<1>3. ProcessesOK'
  BY LeafFacts, TitleBounds
     DEF Claim, Replaces, ReplaceFails, Works, Mishap, WorkerLeaves, Release, Retried,
         ProcessesOK, WorkerSteps, commandVars
<1>4. ClaimIsHeld'
  BY LeafFacts DEF Claim, Replaces, WorkerLeaves, Retried, ClaimIsHeld, Applying, LockHeld
<1>5. LockHeld'
  BY TitleNames DEF Claim, WorkerLeaves, LockHeld, commandVars
<1>6. CallsPaid'
  BY LeafFacts
     DEF Claim, Replaces, ReplaceFails, WorkerLeaves, MayAttempt, Retried, ProcessesOK,
         CallsPaid
<1>7. TitlesKept'
  BY DEF Claim, WorkerLeaves, TitlesKept, NobodyTold, commandVars
<1> QED
  BY <1>2, <1>3, <1>4, <1>5, <1>6, <1>7

LEMMA CallModelStep ==
    ASSUME TitleInv, CallModel
    PROVE  TitleInv'
<1> USE DEF TitleInv
<1>1. /\ leaf \in Leaves /\ leaf.attempts \in 0..2
      /\ leaf.status = "claimed" => leaf = Claimed(leaf.attempts) /\ leaf.attempts \in 1..2
  BY LeafFacts DEF ProcessesOK
<1>2. TranscriptOK'
  BY TranscriptStep DEF CallModel
<1>3. ProcessesOK'
  BY DEF CallModel, ProcessesOK, WorkerSteps, commandVars
<1>4. ClaimIsHeld'
  BY DEF CallModel, ClaimIsHeld, Applying
<1>5. LockHeld'
  BY DEF CallModel, LockHeld, commandVars
<1>6. CallsPaid'
  BY LeafFacts DEF CallModel, ProcessesOK, CallsPaid
<1>7. TitlesKept'
  BY DEF CallModel, TitlesKept, NobodyTold, commandVars
<1> QED
  BY <1>2, <1>3, <1>4, <1>5, <1>6, <1>7

LEMMA ModelAnswersStep ==
    ASSUME TitleInv, ModelAnswers
    PROVE  TitleInv'
<1> USE DEF TitleInv
<1>1. /\ leaf \in Leaves /\ leaf.attempts \in 0..2
      /\ leaf.status = "claimed" => leaf = Claimed(leaf.attempts) /\ leaf.attempts \in 1..2
  BY LeafFacts DEF ProcessesOK
<1>2. TranscriptOK'
  BY TranscriptStep DEF ModelAnswers
<1>3. ProcessesOK'
  BY DEF ModelAnswers, Fails, ProcessesOK, WorkerSteps, commandVars
<1>4. ClaimIsHeld'
  BY DEF ModelAnswers, ClaimIsHeld, Applying
<1>5. LockHeld'
  BY DEF ModelAnswers, LockHeld, commandVars
<1>6. CallsPaid'
  BY DEF ModelAnswers, Fails, CallsPaid
<1>7. TitlesKept'
  BY DEF ModelAnswers, Fails, TitlesKept, NobodyTold, commandVars
<1> QED
  BY <1>2, <1>3, <1>4, <1>5, <1>6, <1>7

LEMMA ModelTimesOutStep ==
    ASSUME TitleInv, ModelTimesOut
    PROVE  TitleInv'
<1> USE DEF TitleInv
<1>1. /\ leaf \in Leaves /\ leaf.attempts \in 0..2
      /\ leaf.status = "claimed" => leaf = Claimed(leaf.attempts) /\ leaf.attempts \in 1..2
  BY LeafFacts DEF ProcessesOK
<1>2. TranscriptOK'
  BY TranscriptStep DEF ModelTimesOut
<1>3. ProcessesOK'
  BY DEF ModelTimesOut, Stopped, Fails, ProcessesOK, WorkerSteps, commandVars
<1>4. ClaimIsHeld'
  BY DEF ModelTimesOut, ClaimIsHeld, Applying
<1>5. LockHeld'
  BY DEF ModelTimesOut, LockHeld, commandVars
<1>6. CallsPaid'
  BY DEF ModelTimesOut, Stopped, Fails, CallsPaid
<1>7. TitlesKept'
  BY DEF ModelTimesOut, Stopped, Fails, TitlesKept, NobodyTold, commandVars
<1> QED
  BY <1>2, <1>3, <1>4, <1>5, <1>6, <1>7

LEMMA PreApplyStep ==
    ASSUME TitleInv, PreApply
    PROVE  TitleInv'
<1> USE DEF TitleInv
<1>1. /\ leaf \in Leaves /\ leaf.attempts \in 0..2
      /\ leaf.status = "claimed" => leaf = Claimed(leaf.attempts) /\ leaf.attempts \in 1..2
  BY LeafFacts DEF ProcessesOK
<1>a. Custom # None => Locked(Custom) \in Leaves /\ Locked(Custom).status = "user_locked"
  <2>1. Custom # None => Custom \in Titles
    BY DEF TranscriptOK, Custom
  <2> QED
    BY <2>1, LeafFacts
<1>2. TranscriptOK'
  BY TranscriptStep DEF PreApply
<1>3. ProcessesOK'
  BY <1>a, TitleBounds
     DEF PreApply, Replaces, ReplaceFails, Works, Mishap, WorkerLeaves, Release, Fails,
         ProcessesOK, WorkerSteps, commandVars
<1>4. ClaimIsHeld'
  BY DEF PreApply, WorkerLeaves, Fails, ClaimIsHeld, Applying
<1>5. LockHeld'
  BY TitleNames DEF PreApply, WorkerLeaves, LockHeld, commandVars
<1>6. CallsPaid'
  BY <1>a DEF PreApply, Replaces, ReplaceFails, WorkerLeaves, Fails, CallsPaid
<1>7. TitlesKept'
  BY DEF PreApply, WorkerLeaves, Fails, HasTitle, TitlesKept, NobodyTold, Custom,
         transcriptVars, commandVars
<1> QED
  BY <1>2, <1>3, <1>4, <1>5, <1>6, <1>7

LEMMA ApplyTitleStep ==
    ASSUME TitleInv, ApplyTitle
    PROVE  TitleInv'
<1> USE DEF TitleInv
<1>1. /\ leaf \in Leaves /\ leaf.attempts \in 0..2
      /\ leaf.status = "claimed" => leaf = Claimed(leaf.attempts) /\ leaf.attempts \in 1..2
  BY LeafFacts DEF ProcessesOK
<1>2. TranscriptOK'
  BY TranscriptStep DEF ApplyTitle, Titles
<1>3. ProcessesOK'
  BY TitleBounds DEF ApplyTitle, Works, Mishap, Fails, ProcessesOK, WorkerSteps, commandVars
<1>4. ClaimIsHeld'
  BY DEF ApplyTitle, ClaimIsHeld, Applying
<1>5. LockHeld'
  BY DEF ApplyTitle, LockHeld, commandVars
<1>6. CallsPaid'
  BY DEF ApplyTitle, Fails, CallsPaid
<1>7. TitlesKept'
  BY DEF ApplyTitle, Fails, TitlesKept, NobodyTold, commandVars
<1> QED
  BY <1>2, <1>3, <1>4, <1>5, <1>6, <1>7

LEMMA ReadBackStep ==
    ASSUME TitleInv, ReadBack
    PROVE  TitleInv'
<1> USE DEF TitleInv
<1>1. /\ leaf \in Leaves /\ leaf.attempts \in 0..2
      /\ leaf.status = "claimed" => leaf = Claimed(leaf.attempts) /\ leaf.attempts \in 1..2
  BY LeafFacts DEF ProcessesOK
<1>2. TranscriptOK'
  BY TranscriptStep DEF ReadBack
<1>3. ProcessesOK'
  BY TitleBounds DEF ReadBack, Works, Mishap, Fails, ProcessesOK, WorkerSteps, commandVars
<1>4. ClaimIsHeld'
  BY DEF ReadBack, ClaimIsHeld, Applying
<1>5. LockHeld'
  BY DEF ReadBack, LockHeld, commandVars
<1>6. CallsPaid'
  BY DEF ReadBack, Fails, CallsPaid
<1>7. TitlesKept'
  BY DEF ReadBack, Fails, TitlesKept, NobodyTold, commandVars
<1> QED
  BY <1>2, <1>3, <1>4, <1>5, <1>6, <1>7

LEMMA CompleteStep ==
    ASSUME TitleInv, Complete
    PROVE  TitleInv'
<1> USE DEF TitleInv
<1>1. /\ leaf \in Leaves /\ leaf.attempts \in 0..2
      /\ leaf.status = "claimed" => leaf = Claimed(leaf.attempts) /\ leaf.attempts \in 1..2
  BY LeafFacts DEF ProcessesOK
<1>a. /\ Applied(leaf.attempts, Proposed) \in Leaves
      /\ Applied(leaf.attempts, Proposed).status = "auto_applied"
      /\ Applied(leaf.attempts, Proposed).attempts = leaf.attempts
  <2>1. leaf.attempts \in 1..2
    BY <1>1 DEF Complete, ClaimIsHeld, Applying
  <2>2. Proposed \in Titles
    BY DEF Titles
  <2> QED
    BY <2>1, <2>2, LeafFacts
<1>2. TranscriptOK'
  BY TranscriptStep DEF Complete
<1>3. ProcessesOK'
  BY <1>a, TitleBounds
     DEF Complete, Replaces, ReplaceFails, Works, Mishap, WorkerLeaves, Release, Fails,
         ProcessesOK, WorkerSteps, commandVars
<1>4. ClaimIsHeld'
  BY DEF Complete, WorkerLeaves, Fails, ClaimIsHeld, Applying
<1>5. LockHeld'
  BY TitleNames DEF Complete, WorkerLeaves, LockHeld, commandVars
<1>6. CallsPaid'
  BY <1>a
     DEF Complete, Replaces, ReplaceFails, WorkerLeaves, Fails, ClaimIsHeld, Applying,
         CallsPaid
<1>7. TitlesKept'
  BY DEF Complete, WorkerLeaves, Fails, TitlesKept, NobodyTold, commandVars
<1> QED
  BY <1>2, <1>3, <1>4, <1>5, <1>6, <1>7

LEMMA FailStep ==
    ASSUME TitleInv, Fail
    PROVE  TitleInv'
<1> USE DEF TitleInv
<1>1. /\ leaf \in Leaves /\ leaf.attempts \in 0..2
      /\ leaf.status = "claimed" => leaf = Claimed(leaf.attempts) /\ leaf.attempts \in 1..2
  BY LeafFacts DEF ProcessesOK
<1>2. TranscriptOK'
  BY TranscriptStep DEF Fail
<1>3. ProcessesOK'
  BY LeafFacts, TitleBounds
     DEF Fail, Replaces, ReplaceFails, Works, Mishap, WorkerLeaves, Release, RetryLeft,
         ProcessesOK, WorkerSteps, commandVars
<1>4. ClaimIsHeld'
  BY DEF Fail, WorkerLeaves, ClaimIsHeld, Applying
<1>5. LockHeld'
  BY TitleNames DEF Fail, WorkerLeaves, LockHeld, commandVars
<1>6. CallsPaid'
  BY LeafFacts
     DEF Fail, Replaces, ReplaceFails, WorkerLeaves, RetryLeft, ProcessesOK, CallsPaid
<1>7. TitlesKept'
  BY DEF Fail, WorkerLeaves, TitlesKept, NobodyTold, commandVars
<1> QED
  BY <1>2, <1>3, <1>4, <1>5, <1>6, <1>7

LEMMA KillWorkerStep ==
    ASSUME TitleInv, KillWorker
    PROVE  TitleInv'
<1> USE DEF TitleInv
<1>1. /\ leaf \in Leaves /\ leaf.attempts \in 0..2
      /\ leaf.status = "claimed" => leaf = Claimed(leaf.attempts) /\ leaf.attempts \in 1..2
  BY LeafFacts DEF ProcessesOK
<1>2. TranscriptOK'
  BY TranscriptStep DEF KillWorker
<1>3. ProcessesOK'
  BY LeafFacts, TitleBounds
     DEF KillWorker, Mishap, WorkerLeaves, Release, ProcessesOK, WorkerSteps, commandVars
<1>4. ClaimIsHeld'
  BY DEF KillWorker, WorkerLeaves, ClaimIsHeld, Applying
<1>5. LockHeld'
  BY TitleNames DEF KillWorker, WorkerLeaves, Release, LockHeld, commandVars
<1>6. CallsPaid'
  BY LeafFacts DEF KillWorker, WorkerLeaves, CallsPaid
<1>7. TitlesKept'
  BY DEF KillWorker, WorkerLeaves, TitlesKept, NobodyTold, commandVars
<1> QED
  BY <1>2, <1>3, <1>4, <1>5, <1>6, <1>7

LEMMA RenameArrivesStep ==
    ASSUME TitleInv, NEW u \in Users, RenameArrives(u)
    PROVE  TitleInv'
<1> USE DEF TitleInv
<1>1. /\ leaf \in Leaves /\ leaf.attempts \in 0..2
      /\ leaf.status = "claimed" => leaf = Claimed(leaf.attempts) /\ leaf.attempts \in 1..2
  BY LeafFacts DEF ProcessesOK
<1>2. TranscriptOK'
  BY TranscriptStep DEF RenameArrives
<1>3. ProcessesOK'
  BY DEF RenameArrives, Becomes, ProcessesOK
<1>4. ClaimIsHeld'
  BY DEF RenameArrives, ClaimIsHeld
<1>5. LockHeld'
  BY DEF RenameArrives, Becomes, LockHeld, Locking
<1>6. CallsPaid'
  BY DEF RenameArrives, CallsPaid, MayAttempt
<1>7. TitlesKept'
  BY DEF RenameArrives, Becomes, TitlesKept, NobodyTold, Custom, transcriptVars
<1> QED
  BY <1>2, <1>3, <1>4, <1>5, <1>6, <1>7

LEMMA RenameLocksStep ==
    ASSUME TitleInv, NEW u \in Users, RenameLocks(u)
    PROVE  TitleInv'
<1> USE DEF TitleInv
<1>1. /\ leaf \in Leaves /\ leaf.attempts \in 0..2
      /\ leaf.status = "claimed" => leaf = Claimed(leaf.attempts) /\ leaf.attempts \in 1..2
  BY LeafFacts DEF ProcessesOK
<1>2. TranscriptOK'
  BY TranscriptStep DEF RenameLocks
<1>3. ProcessesOK'
  BY DEF RenameLocks, Becomes, Returns, Release, Enter, ProcessesOK
<1>4. ClaimIsHeld'
  BY TitleNames DEF RenameLocks, Returns, Release, Enter, ClaimIsHeld
<1>5. LockHeld'
  BY TitleNames
     DEF RenameLocks, Becomes, Returns, Release, Enter, ProcessesOK, LockHeld, Locking
<1>6. CallsPaid'
  BY DEF RenameLocks, CallsPaid, MayAttempt
<1>7. TitlesKept'
  BY DEF RenameLocks, Becomes, Returns, ProcessesOK, TitlesKept, NobodyTold, Custom,
         transcriptVars
<1> QED
  BY <1>2, <1>3, <1>4, <1>5, <1>6, <1>7

LEMMA ApplyUserTitleStep ==
    ASSUME TitleInv, NEW u \in Users, ApplyUserTitle(u)
    PROVE  TitleInv'
<1> USE DEF TitleInv
<1>1. /\ leaf \in Leaves /\ leaf.attempts \in 0..2
      /\ leaf.status = "claimed" => leaf = Claimed(leaf.attempts) /\ leaf.attempts \in 1..2
  BY LeafFacts DEF ProcessesOK
<1>2. TranscriptOK'
  BY TranscriptStep DEF ApplyUserTitle, Titles
<1>3. ProcessesOK'
  BY TitleBounds DEF ApplyUserTitle, Works, Mishap, Becomes, Returns, Release, ProcessesOK
<1>4. ClaimIsHeld'
  BY TitleNames DEF ApplyUserTitle, ClaimIsHeld, LockHeld, Locking
<1>5. LockHeld'
  BY TitleNames DEF ApplyUserTitle, Becomes, Returns, ProcessesOK, LockHeld, Locking
<1>6. CallsPaid'
  BY DEF ApplyUserTitle, CallsPaid, MayAttempt
<1>7. TitlesKept'
  BY TitleNames
     DEF ApplyUserTitle, Becomes, Returns, ProcessesOK, LockHeld, Locking, TitlesKept,
         NobodyTold
<1> QED
  BY <1>2, <1>3, <1>4, <1>5, <1>6, <1>7

LEMMA ReadUserTitleBackStep ==
    ASSUME TitleInv, NEW u \in Users, ReadUserTitleBack(u)
    PROVE  TitleInv'
<1> USE DEF TitleInv
<1>1. /\ leaf \in Leaves /\ leaf.attempts \in 0..2
      /\ leaf.status = "claimed" => leaf = Claimed(leaf.attempts) /\ leaf.attempts \in 1..2
  BY LeafFacts DEF ProcessesOK
<1>2. TranscriptOK'
  BY TranscriptStep DEF ReadUserTitleBack
<1>3. ProcessesOK'
  BY TitleBounds
     DEF ReadUserTitleBack, Works, Mishap, Becomes, Returns, Release, ProcessesOK
<1>4. ClaimIsHeld'
  BY TitleNames DEF ReadUserTitleBack, ClaimIsHeld, LockHeld, Locking
<1>5. LockHeld'
  BY TitleNames DEF ReadUserTitleBack, Becomes, Returns, ProcessesOK, LockHeld, Locking
<1>6. CallsPaid'
  BY DEF ReadUserTitleBack, CallsPaid, MayAttempt
<1>7. TitlesKept'
  BY DEF ReadUserTitleBack, Becomes, Returns, ProcessesOK, TitlesKept, NobodyTold, Custom,
         transcriptVars
<1> QED
  BY <1>2, <1>3, <1>4, <1>5, <1>6, <1>7

LEMMA RecordUserTitleStep ==
    ASSUME TitleInv, NEW u \in Users, RecordUserTitle(u)
    PROVE  TitleInv'
<1> USE DEF TitleInv
<1>1. /\ leaf \in Leaves /\ leaf.attempts \in 0..2
      /\ leaf.status = "claimed" => leaf = Claimed(leaf.attempts) /\ leaf.attempts \in 1..2
  BY LeafFacts DEF ProcessesOK
<1>a. Locked(u) \in Leaves /\ Locked(u).status = "user_locked"
  BY LeafFacts DEF Titles
<1>2. TranscriptOK'
  BY TranscriptStep DEF RecordUserTitle
<1>3. ProcessesOK'
  BY <1>a, TitleBounds
     DEF RecordUserTitle, Replaces, ReplaceFails, Works, Mishap, Becomes, Returns, Release,
         ProcessesOK
<1>4. ClaimIsHeld'
  BY TitleNames DEF RecordUserTitle, ClaimIsHeld, LockHeld, Locking
<1>5. LockHeld'
  BY TitleNames DEF RecordUserTitle, Becomes, Returns, ProcessesOK, LockHeld, Locking
<1>6. CallsPaid'
  BY <1>a, TitleNames
     DEF RecordUserTitle, Replaces, ReplaceFails, LockHeld, Locking, CallsPaid
<1>7. TitlesKept'
  BY DEF RecordUserTitle, Becomes, Returns, ProcessesOK, TitlesKept, NobodyTold, Custom,
         transcriptVars
<1> QED
  BY <1>2, <1>3, <1>4, <1>5, <1>6, <1>7

LEMMA ServerDiesStep ==
    ASSUME TitleInv, ServerDies
    PROVE  TitleInv'
<1> USE DEF TitleInv
<1>1. /\ leaf \in Leaves /\ leaf.attempts \in 0..2
      /\ leaf.status = "claimed" => leaf = Claimed(leaf.attempts) /\ leaf.attempts \in 1..2
  BY LeafFacts DEF ProcessesOK
<1>2. TranscriptOK'
  BY TranscriptStep DEF ServerDies
<1>3. ProcessesOK'
  BY TitleBounds DEF ServerDies, Mishap, ProcessesOK
<1>4. ClaimIsHeld'
  BY TitleNames DEF ServerDies, ClaimIsHeld
<1>5. LockHeld'
  BY TitleNames DEF ServerDies, LockHeld, Locking
<1>6. CallsPaid'
  BY DEF ServerDies, CallsPaid, MayAttempt
<1>7. TitlesKept'
  BY DEF ServerDies, ProcessesOK, TitlesKept, NobodyTold, Custom, transcriptVars
<1> QED
  BY <1>2, <1>3, <1>4, <1>5, <1>6, <1>7

LEMMA OrphanEndsStep ==
    ASSUME TitleInv, NEW t \in orphans, OrphanEnds(t)
    PROVE  TitleInv'
<1> USE DEF TitleInv
<1>1. /\ leaf \in Leaves /\ leaf.attempts \in 0..2
      /\ leaf.status = "claimed" => leaf = Claimed(leaf.attempts) /\ leaf.attempts \in 1..2
  BY LeafFacts DEF ProcessesOK
<1>2. TranscriptOK'
  BY TranscriptStep DEF OrphanEnds, ProcessesOK, Titles
<1>3. ProcessesOK'
  BY DEF OrphanEnds, ProcessesOK
<1>4. ClaimIsHeld'
  BY DEF OrphanEnds, ClaimIsHeld
<1>5. LockHeld'
  BY DEF OrphanEnds, LockHeld
<1>6. CallsPaid'
  BY DEF OrphanEnds, CallsPaid, MayAttempt
<1>7. TitlesKept'
  BY DEF OrphanEnds, Renames, ProcessesOK, TitlesKept, NobodyTold, Custom, transcriptVars
<1> QED
  BY <1>2, <1>3, <1>4, <1>5, <1>6, <1>7

----------------------------------------------------------------------------
(* The theorems *)

LEMMA TitleNext ==
    ASSUME TitleInv, [Next]_vars
    PROVE  TitleInv'
<1>1. CASE SessionGoesOn
  BY <1>1, SessionStep
<1>2. CASE HookFires
  BY <1>2, HookFiresStep
<1>3. CASE JobStarts
  BY <1>3, JobStartsStep
<1>4. CASE RetryComesDue
  BY <1>4, RetryComesDueStep
<1>5. CASE WorkerStep
  BY <1>5, WorkerLocksStep, ExamineStep, ClaimStep, CallModelStep, ModelTimesOutStep,
     PreApplyStep, ApplyTitleStep, ReadBackStep, CompleteStep, FailStep DEF WorkerStep
<1>6. CASE ModelAnswers
  BY <1>6, ModelAnswersStep
<1>7. CASE KillWorker
  BY <1>7, KillWorkerStep
<1>8. CASE \E u \in Users : RenameArrives(u) \/ RenameStep(u)
  BY <1>8, RenameArrivesStep, RenameLocksStep, ApplyUserTitleStep, ReadUserTitleBackStep,
     RecordUserTitleStep DEF RenameStep
<1>9. CASE ServerDies
  BY <1>9, ServerDiesStep
<1>10. CASE \E t \in orphans : OrphanEnds(t)
  BY <1>10, OrphanEndsStep
<1>11. CASE UNCHANGED vars
  BY <1>11
     DEF vars, transcriptVars, commandVars, TitleInv, TranscriptOK, ProcessesOK,
         ClaimIsHeld, LockHeld, CallsPaid, MayAttempt, TitlesKept, NobodyTold, Custom
<1> QED
  BY <1>1, <1>2, <1>3, <1>4, <1>5, <1>6, <1>7, <1>8, <1>9, <1>10, <1>11 DEF Next

THEOREM TitleInvariant == Spec => []TitleInv
<1>1. Init => TitleInv
  BY TitleInit
<1>2. TitleInv /\ [Next]_vars => TitleInv'
  BY TitleNext
<1> QED
  BY <1>1, <1>2, PTL DEF Spec

\* The variables keep their types, and from its claim to its verdict the worker
\* holds the session's lock (flock of session-title-service.ts) and a claimed
\* leaf.
THEOREM TypeCorrect == Spec => []TypeOK
<1>1. TitleInv => TypeOK
  BY DEF TitleInv, TranscriptOK, ProcessesOK, TypeOK
<1> QED
  BY <1>1, TitleInvariant, PTL

\* However often hooks fire, jobs are killed and leaves fail to be written, a
\* session costs at most two calls of the model.
THEOREM TwoCallsAtMost == Spec => []AtMostTwoCalls
<1>1. TitleInv => AtMostTwoCalls
  BY DEF TitleInv, CallsPaid, AtMostTwoCalls
<1> QED
  BY <1>1, TitleInvariant, PTL

\* An automatic title replaces a title the user was told of only when neither
\* the leaf nor the windows of the transcript show it.
THEOREM UserTitleKept == Spec => VisibleTitleStands
<1> DEFINE Stands == \A u \in Users : title = u /\ told[u] # None /\ title' = Proposed
                       => leaf.status # "user_locked" /\ Custom = None
<1>1. ASSUME TitleInv, [Next]_vars PROVE Stands
  <2> SUFFICES ASSUME NEW u \in Users, title = u, told[u] # None, title' = Proposed
               PROVE  leaf.status # "user_locked" /\ Custom = None
    OBVIOUS
  <2>1. u # Proposed
    BY TitleNames
  <2>2. ASSUME NEW t \in Users PROVE ~Renames(t)
    BY TitleNames DEF Renames
  <2>3. ApplyTitle
    BY <1>1, <2>1, <2>2
       DEF Next, vars, TitleInv, ProcessesOK, transcriptVars, SessionGoesOn, Grow, AiTitled,
           Talks, TaskForks, TaskEnds, HookFires, JobStarts, RetryComesDue, WorkerStep,
           WorkerLocks, Examine, Claim, CallModel, ModelAnswers, ModelTimesOut, PreApply,
           ReadBack, Complete, Fail, KillWorker, RenameStep, RenameArrives, RenameLocks,
           ApplyUserTitle, ReadUserTitleBack, RecordUserTitle, ServerDies, OrphanEnds
  <2> QED
    BY <1>1, <2>3 DEF TitleInv, ApplyTitle, ClaimIsHeld, Applying, TitlesKept, NobodyTold
<1>2. [Next]_vars /\ TitleInv => [Stands]_vars
  BY <1>1
<1> QED
  BY <1>2, TitleInvariant, PTL DEF Spec, VisibleTitleStands
=============================================================================
