------------------------ MODULE MemoryStores_proofs ------------------------
(***************************************************************************)
(* Proofs about the small stores of managed memory: the claim file on a    *)
(* proposal (ProposalClaim), the learning-delta store (LearningDelta) and  *)
(* the observer's ledger (ObserverLedger).                                 *)
(*                                                                         *)
(* The claim.  Exclusion is not a theorem: TLC refutes it where recoverers  *)
(* run at once or a freed inode number comes back, and the code rules out  *)
(* neither.  What is one, for any number of processes, kills and failing   *)
(* calls and for any file system, says what alone can break it: a          *)
(* recoverer that unlinks another claim than the one it judged.            *)
(*                                                                         *)
(* The deltas.  LearningDelta takes its claim as one variable.  Whatever   *)
(* is killed or fails, in any number of sessions: no pending delta is      *)
(* lost, a consumed one was shown, and the store keeps to its capacity.    *)
(*                                                                         *)
(* The ledger.  For any memory, any number of hooks and whatever is edited *)
(* or killed meanwhile: the events explain the inventory, and what the     *)
(* reviewer is shown was in the memory at one moment.                      *)
(***************************************************************************)
EXTENDS LearningDelta, ProposalClaim, ObserverLedger, FiniteSetTheorems,
        WellFoundedInduction, TLAPS

\* A process inside its attempt to clear a stale claim.
Recovering(p) == proc[p].pc \in {"judge", "recheck", "unlink"}

\* The claim a process made is on the path until it removes it.
Owned ==
    /\ \A p \in Procs : proc[p].pc = "write" =>
           file # NoFile /\ file = [ino |-> proc[p].mine, by |-> p, written |-> FALSE]
    /\ \A p \in Procs : proc[p].pc \in {"sync", "held", "release"} =>
           file # NoFile /\ file = [ino |-> proc[p].mine, by |-> p, written |-> TRUE]

\* The owner of a claim, on the path or remembered by a recoverer, once ran;
\* past the recoverer's verdict it is gone, and gone for good.
Made == file # NoFile => proc[file.by].pc # "unborn"
Remembered ==
    \A p \in Procs : Recovering(p) =>
        proc[p].seen \in Files /\ proc[proc[p].seen.by].pc # "unborn"
Condemned == \A p \in Procs : proc[p].pc \in {"recheck", "unlink"} => proc[proc[p].seen.by].pc = "dead"

ClaimInv == ClaimTypeOK /\ (overtaken \/ Owned) /\ Remembered /\ Condemned /\ Made

\* What a step that only moves p to another step number changes.
LEMMA GoesFrame ==
    ASSUME ClaimTypeOK, NEW p \in Procs, NEW to \in Steps, GoesTo(p, to)
    PROVE  /\ proc' \in [Procs -> LocalStates]
           /\ \A q \in Procs : q # p => proc'[q] = proc[q]
           /\ proc'[p].pc = to /\ proc'[p].seen = proc[p].seen /\ proc'[p].mine = proc[p].mine
<1>1. proc \in [Procs -> LocalStates] /\ proc[p] \in LocalStates
  BY DEF ClaimTypeOK
<1>2. [proc[p] EXCEPT !.pc = to] \in LocalStates
  BY <1>1 DEF LocalStates
<1> QED BY <1>1, <1>2 DEF GoesTo, TurnsTo, LocalStates

\* A process set to a fresh local state.
LEMMA FreshFrame ==
    ASSUME ClaimTypeOK, NEW p \in Procs, NEW to \in Steps, TurnsTo(p, At(to))
    PROVE  /\ proc' \in [Procs -> LocalStates]
           /\ \A q \in Procs : q # p => proc'[q] = proc[q]
           /\ proc'[p].pc = to
  BY DEF ClaimTypeOK, TurnsTo, At, LocalStates

LEMMA EndsFrame ==
    ASSUME ClaimTypeOK, NEW p \in Procs, Ends(p)
    PROVE  /\ proc' \in [Procs -> LocalStates]
           /\ \A q \in Procs : q # p => proc'[q] = proc[q]
           /\ proc'[p].pc = "idle"
  BY FreshFrame DEF Ends, Steps

\* Every step keeps the shapes of the claim file and of the local states.
LEMMA TypeStep == ClaimTypeOK /\ [ClaimNext]_claimVars => ClaimTypeOK'
<1> SUFFICES ASSUME ClaimTypeOK, [ClaimNext]_claimVars PROVE ClaimTypeOK'
  OBVIOUS
<1>0. \A s \in {"idle", "open", "read", "write", "sync", "held", "release", "recheck", "unlink",
               "dead"} : s \in Steps
  BY DEF Steps
<1>b. ASSUME Throws PROVE budget' \in [kill : Nat, fault : Nat]
  BY <1>b, ClaimBounds DEF ClaimTypeOK, Throws
<1>1. CASE UNCHANGED claimVars
  BY <1>1 DEF claimVars, ClaimTypeOK
<1>2. ASSUME NEW p \in Procs, Start(p) PROVE ClaimTypeOK'
  BY <1>2, EndsFrame DEF Start, ClaimTypeOK
<1>3. ASSUME NEW p \in Procs, Exit(p) PROVE ClaimTypeOK'
  BY <1>3, <1>0, FreshFrame DEF Exit, ClaimTypeOK
<1>4. ASSUME NEW p \in Procs, KillProcess(p) PROVE ClaimTypeOK'
  <2>1. budget' \in [kill : Nat, fault : Nat]
    BY <1>4 DEF KillProcess, ClaimTypeOK
  <2> QED BY <1>4, <1>0, <2>1, FreshFrame DEF KillProcess, ClaimTypeOK
<1>5. ASSUME NEW p \in Procs, Acquire(p) \/ Exists(p) PROVE ClaimTypeOK'
  BY <1>5, <1>0, GoesFrame DEF Acquire, Exists, ClaimTypeOK
<1>6. ASSUME NEW p \in Procs, Create(p) PROVE ClaimTypeOK'
  <2>1. PICK i \in Inodes : /\ file' = Claim(p, i) /\ used' = used \cup {i}
                            /\ TurnsTo(p, [proc[p] EXCEPT !.pc = "write", !.mine = i])
    BY <1>6 DEF Create
  <2>2. proc[p] \in LocalStates
    BY DEF ClaimTypeOK
  <2>3. [proc[p] EXCEPT !.pc = "write", !.mine = i] \in LocalStates
    BY <2>2, <1>0 DEF LocalStates
  <2>4. proc' \in [Procs -> LocalStates]
    BY <2>1, <2>3 DEF TurnsTo, ClaimTypeOK
  <2>5. file' \in Files
    BY <2>1 DEF Claim, Files
  <2> QED BY <1>6, <2>1, <2>4, <2>5 DEF Create, ClaimTypeOK
<1>7. ASSUME NEW p \in Procs, WriteRecord(p) PROVE ClaimTypeOK'
  <2>1. file' \in Files \cup {NoFile}
    <3>1. file # NoFile => [file EXCEPT !.written = TRUE] \in Files
      BY DEF ClaimTypeOK, Files
    <3> QED BY <1>7, <3>1 DEF WriteRecord, OnPath, ClaimTypeOK
  <2> QED BY <1>7, <1>0, <1>b, <2>1, GoesFrame, EndsFrame DEF WriteRecord, ClaimTypeOK
<1>8. ASSUME NEW p \in Procs, SyncDirectory(p) PROVE ClaimTypeOK'
  BY <1>8, <1>0, <1>b, GoesFrame, EndsFrame DEF SyncDirectory, ClaimTypeOK
<1>9. ASSUME NEW p \in Procs, ReadClaim(p) PROVE ClaimTypeOK'
  <2>1. CASE file # NoFile /\ file.written
    <3>1. proc[p] \in LocalStates /\ file \in Files
      BY <2>1 DEF ClaimTypeOK
    <3>2. [proc[p] EXCEPT !.pc = "judge", !.seen = file] \in LocalStates
      BY <3>1 DEF LocalStates, Steps
    <3> QED BY <1>9, <2>1, <3>2 DEF ReadClaim, TurnsTo, ClaimTypeOK
  <2>2. CASE ~(file # NoFile /\ file.written)
    BY <1>9, <2>2, EndsFrame DEF ReadClaim, ClaimTypeOK
  <2> QED BY <2>1, <2>2
<1>10. ASSUME NEW p \in Procs, Judge(p) \/ Recheck(p) PROVE ClaimTypeOK'
  BY <1>10, <1>0, GoesFrame, EndsFrame DEF Judge, Recheck, ClaimTypeOK
<1>11. ASSUME NEW p \in Procs, Unlink(p) PROVE ClaimTypeOK'
  <2>1. [At("open") EXCEPT !.retried = TRUE] \in LocalStates
    BY DEF At, LocalStates, Steps
  <2> QED BY <1>11, <2>1, EndsFrame DEF Unlink, TurnsTo, ClaimTypeOK
<1>12. ASSUME NEW p \in Procs, ReleaseCheck(p) \/ ReleaseUnlink(p) PROVE ClaimTypeOK'
  BY <1>12, <1>0, GoesFrame, EndsFrame DEF ReleaseCheck, ReleaseUnlink, ClaimTypeOK
<1> QED
  BY <1>1, <1>2, <1>3, <1>4, <1>5, <1>6, <1>7, <1>8, <1>9, <1>10, <1>11, <1>12 DEF ClaimNext, ClaimStep

LEMMA InitTypes == ClaimInit => ClaimTypeOK
<1> SUFFICES ASSUME ClaimInit PROVE ClaimTypeOK
  OBVIOUS
<1>1. overtaken \in BOOLEAN
  BY DEF ClaimInit
<1>2. /\ file \in Files \cup {NoFile} /\ used \subseteq Inodes
      /\ proc \in [Procs -> LocalStates] /\ budget \in [kill : Nat, fault : Nat]
  BY DEF ClaimInit, LocalStates, Steps, At
<1> QED
  BY <1>1, <1>2 DEF ClaimTypeOK

\* Type correctness of the claim protocol, whatever the file system does.
THEOREM ClaimTypeCorrect == ClaimSpec => []ClaimTypeOK
<1> QED BY InitTypes, TypeStep, PTL DEF ClaimSpec

\* The empty state satisfies the invariant.
LEMMA InitClaimInv == ClaimInit => ClaimInv
  BY InitTypes DEF ClaimInit, ClaimInv, Owned, Remembered, Condemned, Made, Recovering, At

\* A step of p that leaves the file alone and gives p no new claim and no new
\* memory of one preserves the invariant.
LEMMA QuietStep ==
    ASSUME ClaimInv, ClaimTypeOK', NEW p \in Procs, UNCHANGED <<file, overtaken>>,
           \A q \in Procs : q # p => proc'[q] = proc[q],
           proc'[p].pc \in {"idle", "open", "read", "dead"},
           proc[p].pc = "dead" => proc'[p].pc = "dead"
    PROVE  ClaimInv'
  BY DEF ClaimInv, ClaimTypeOK, Owned, Remembered, Condemned, Made, Recovering, Files

\* So does a step of p, not yet past its verdict and with nothing on the path
\* but its own, that only moves on.
LEMMA MoveStep ==
    ASSUME ClaimInv, ClaimTypeOK', NEW p \in Procs, UNCHANGED <<file, overtaken>>,
           \A q \in Procs : q # p => proc'[q] = proc[q],
           proc'[p].mine = proc[p].mine, proc'[p].seen = proc[p].seen,
           \/ proc[p].pc \in {"sync", "held"} /\ proc'[p].pc \in {"held", "release"}
           \/ /\ proc[p].pc = "judge" /\ proc'[p].pc = "recheck"
              /\ proc[proc[p].seen.by].pc = "dead"
           \/ proc[p].pc = "recheck" /\ proc'[p].pc = "unlink"
    PROVE  ClaimInv'
<1>1. Owned => Owned'
  BY DEF Owned
<1>2. Remembered' /\ Condemned' /\ Made'
  BY DEF ClaimInv, ClaimTypeOK, Remembered, Condemned, Made, Recovering, Files
<1> QED
  BY <1>1, <1>2 DEF ClaimInv

\* A step of p that removes the claim from the path and ends there: the claim
\* was p's own, nobody's that runs, or the removal is recorded.
LEMMA RemovalStep ==
    ASSUME ClaimInv, ClaimTypeOK', NEW p \in Procs, file' = NoFile,
           \A q \in Procs : q # p => proc'[q] = proc[q],
           proc[p].pc \notin {"unborn", "dead"}, proc'[p].pc \in {"idle", "open"},
           overtaken => overtaken',
           \/ overtaken'
           \/ proc[p].pc \in {"write", "release"}
           \/ proc[p].pc = "unlink" /\ (file # NoFile => ~Alive(file.by))
    PROVE  ClaimInv'
<1>1. overtaken' \/ Owned'
  <2> SUFFICES ASSUME ~overtaken' PROVE Owned'
    OBVIOUS
  <2>1. Owned
    BY DEF ClaimInv
  <2>2. \A q \in Procs : q # p => proc[q].pc \notin {"write", "sync", "held", "release"}
    BY <2>1 DEF Owned, Alive
  <2> QED
    BY <2>2 DEF Owned
<1>2. Remembered' /\ Condemned' /\ Made'
  BY DEF ClaimInv, ClaimTypeOK, Remembered, Condemned, Made, Recovering, Files
<1> QED
  BY <1>1, <1>2 DEF ClaimInv

\* Every step preserves the invariant.
LEMMA NextClaimInv == ClaimInv /\ [ClaimNext]_claimVars => ClaimInv'
<1> SUFFICES ASSUME ClaimInv, [ClaimNext]_claimVars PROVE ClaimInv'
  OBVIOUS
<1>0. ClaimTypeOK /\ ClaimTypeOK'
  BY TypeStep DEF ClaimInv
<1>s. \A s \in {"idle", "open", "read", "write", "sync", "held", "release", "recheck", "unlink",
               "dead"} : s \in Steps
  BY DEF Steps
<1>1. CASE UNCHANGED claimVars
  BY <1>0, <1>1 DEF claimVars, ClaimInv, ClaimTypeOK, Owned, Remembered, Condemned, Made, Recovering
<1>2. ASSUME NEW p \in Procs, Start(p) PROVE ClaimInv'
  BY <1>0, <1>2, EndsFrame, QuietStep DEF Start
<1>3. ASSUME NEW p \in Procs, Exit(p) \/ KillProcess(p) PROVE ClaimInv'
  BY <1>0, <1>s, <1>3, FreshFrame, QuietStep DEF Exit, KillProcess
<1>4. ASSUME NEW p \in Procs, Acquire(p) \/ Exists(p) PROVE ClaimInv'
  BY <1>0, <1>s, <1>4, GoesFrame, QuietStep DEF Acquire, Exists
<1>5. ASSUME NEW p \in Procs, Create(p) PROVE ClaimInv'
  <2>1. PICK i \in Inodes : /\ file' = Claim(p, i)
                            /\ TurnsTo(p, [proc[p] EXCEPT !.pc = "write", !.mine = i])
    BY <1>5 DEF Create
  <2>2. /\ proc[p].pc = "open" /\ file = NoFile /\ UNCHANGED overtaken
        /\ proc'[p].pc = "write" /\ proc'[p].mine = i
        /\ \A q \in Procs : q # p => proc'[q] = proc[q]
    BY <1>5, <2>1 DEF Create, TurnsTo, ClaimTypeOK, ClaimInv, LocalStates
  <2>3. file' = [ino |-> i, by |-> p, written |-> FALSE] /\ file' # NoFile
    <3>1. [ino |-> i, by |-> p, written |-> FALSE] \in Files
      BY DEF Files
    <3> QED BY <2>1, <3>1, ClaimNone DEF Claim
  <2> HIDE <1>5
  <2>4. Owned => Owned'
    BY <2>2, <2>3 DEF Owned
  <2>5. Remembered' /\ Condemned' /\ Made'
    BY <2>2, <2>3 DEF ClaimInv, Remembered, Condemned, Made, Recovering, ClaimTypeOK, Files
  <2> QED BY <1>0, <2>2, <2>4, <2>5 DEF ClaimInv
<1>6. ASSUME NEW p \in Procs, WriteRecord(p) PROVE ClaimInv'
  <2>1. CASE Ends(p) /\ UNCHANGED file
    BY <1>0, <1>6, <2>1, EndsFrame, QuietStep DEF WriteRecord
  <2>2. CASE Ends(p) /\ file' = NoFile
    BY <1>0, <1>6, <2>2, EndsFrame, RemovalStep DEF WriteRecord
  <2>3. CASE GoesTo(p, "sync") /\ file' = IF OnPath(p) THEN [file EXCEPT !.written = TRUE] ELSE file
    <3>1. /\ proc[p].pc = "write" /\ UNCHANGED overtaken
          /\ proc'[p].pc = "sync" /\ proc'[p].mine = proc[p].mine
          /\ \A q \in Procs : q # p => proc'[q] = proc[q]
      BY <1>0, <1>s, <1>6, <2>3, GoesFrame DEF WriteRecord
    <3>2. ASSUME Owned PROVE Owned'
      <4>1. file = [ino |-> proc[p].mine, by |-> p, written |-> FALSE] /\ file # NoFile
        BY <3>1, <3>2 DEF Owned
      <4>2. file' = [ino |-> proc[p].mine, by |-> p, written |-> TRUE]
        BY <2>3, <4>1 DEF OnPath
      <4>3. file' # NoFile
        <5>1. file \in Files /\ proc[p].mine = file.ino
          BY <1>0, <4>1 DEF ClaimTypeOK
        <5>2. [ino |-> proc[p].mine, by |-> p, written |-> TRUE] \in Files
          BY <5>1 DEF Files
        <5> QED BY <4>2, <5>2, ClaimNone
      <4>4. \A q \in Procs : proc[q].pc \in {"write", "sync", "held", "release"} => q = p
        BY <3>2, <4>1 DEF Owned
      <4> QED BY <3>1, <4>2, <4>3, <4>4 DEF Owned
    <3>3. Made'
      <4>1. CASE file = NoFile
        BY <2>3, <4>1 DEF OnPath, Made
      <4>2. CASE file # NoFile
        <5>1. file \in Files /\ file'.by = file.by
          BY <1>0, <2>3, <4>2 DEF ClaimTypeOK, Files
        <5> QED BY <3>1, <4>2, <5>1 DEF ClaimInv, Made, Files
      <4> QED BY <4>1, <4>2
    <3>4. Remembered' /\ Condemned'
      BY <3>1 DEF ClaimInv, Remembered, Condemned, Recovering, ClaimTypeOK, Files
    <3> QED BY <1>0, <3>1, <3>2, <3>3, <3>4 DEF ClaimInv
  <2> QED BY <1>6, <2>1, <2>2, <2>3 DEF WriteRecord
<1>7. ASSUME NEW p \in Procs, SyncDirectory(p) PROVE ClaimInv'
  BY <1>0, <1>s, <1>7, EndsFrame, GoesFrame, QuietStep, MoveStep DEF SyncDirectory
<1>8. ASSUME NEW p \in Procs, ReadClaim(p) PROVE ClaimInv'
  <2>1. CASE Ends(p)
    BY <1>0, <1>8, <2>1, EndsFrame, QuietStep DEF ReadClaim
  <2>2. CASE /\ file # NoFile /\ file.written
             /\ TurnsTo(p, [proc[p] EXCEPT !.pc = "judge", !.seen = file])
    <3>1. /\ proc[p].pc = "read" /\ UNCHANGED <<file, overtaken>>
          /\ proc'[p].pc = "judge" /\ proc'[p].seen = file
          /\ \A q \in Procs : q # p => proc'[q] = proc[q]
      BY <1>0, <1>8, <2>2 DEF ReadClaim, TurnsTo, ClaimTypeOK, LocalStates
    <3>2. file \in Files /\ proc[file.by].pc # "unborn"
      BY <1>0, <2>2 DEF ClaimInv, Made, ClaimTypeOK
    <3>3. Owned => Owned'
      BY <3>1 DEF Owned
    <3>4. Remembered' /\ Condemned' /\ Made'
      BY <3>1, <3>2 DEF ClaimInv, Remembered, Condemned, Made, Recovering, ClaimTypeOK, Files
    <3> QED BY <1>0, <3>1, <3>3, <3>4 DEF ClaimInv
  <2> QED BY <1>8, <2>1, <2>2 DEF ReadClaim
<1>9. ASSUME NEW p \in Procs, Judge(p) PROVE ClaimInv'
  <2>1. CASE Ends(p)
    BY <1>0, <1>9, <2>1, EndsFrame, QuietStep DEF Judge
  <2>2. CASE ~OwnerRuns(proc[p].seen.by) /\ GoesTo(p, "recheck")
    <3>1. proc[p].pc = "judge" /\ proc[proc[p].seen.by].pc = "dead"
      BY <1>9, <2>2 DEF Judge, ClaimInv, Remembered, Recovering, OwnerRuns, Alive
    <3> QED BY <1>0, <1>s, <1>9, <2>2, <3>1, GoesFrame, MoveStep DEF Judge
  <2> QED BY <1>9, <2>1, <2>2 DEF Judge
<1>10. ASSUME NEW p \in Procs, Recheck(p) \/ ReleaseCheck(p) PROVE ClaimInv'
  BY <1>0, <1>s, <1>10, EndsFrame, GoesFrame, QuietStep, MoveStep DEF Recheck, ReleaseCheck
<1>11. ASSUME NEW p \in Procs, Unlink(p) PROVE ClaimInv'
  <2>1. proc'[p].pc \in {"idle", "open"} /\ \A q \in Procs : q # p => proc'[q] = proc[q]
    BY <1>0, <1>11, EndsFrame DEF Unlink, TurnsTo, At, ClaimTypeOK
  <2>2. proc[p].pc = "unlink" /\ ~Alive(proc[p].seen.by)
    BY <1>11 DEF Unlink, ClaimInv, Condemned, Alive
  <2>3. overtaken' \/ (file # NoFile => ~Alive(file.by))
    BY <1>11, <2>2 DEF Unlink
  <2> QED BY <1>0, <1>11, <2>1, <2>2, <2>3, RemovalStep DEF Unlink
<1>12. ASSUME NEW p \in Procs, ReleaseUnlink(p) PROVE ClaimInv'
  BY <1>0, <1>12, EndsFrame, RemovalStep DEF ReleaseUnlink
<1> QED
  BY <1>1, <1>2, <1>3, <1>4, <1>5, <1>6, <1>7, <1>8, <1>9, <1>10, <1>11, <1>12 DEF ClaimNext, ClaimStep

\* Two running processes hold the claim, or one has lost its file, only after
\* a recoverer unlinked another claim than the one it judged: no kill, no
\* failing call, no reused pid or inode number and no number of recoverers
\* does it otherwise.
THEOREM HolderKeepsClaim == ClaimSpec => [](KeptUnlessOvertaken /\ ExclusiveUnlessOvertaken)
<1>1. ClaimInv => KeptUnlessOvertaken /\ ExclusiveUnlessOvertaken
  BY DEF ClaimInv, Owned, HolderOnDisk, AtMostOneHolder, Holding, KeptUnlessOvertaken,
         ExclusiveUnlessOvertaken
<1> QED BY <1>1, InitClaimInv, NextClaimInv, PTL DEF ClaimSpec

-----------------------------------------------------------------------------
(* The learning-delta store.                                                *)

\* A prompt hook that shows a delta has the store and the delta is still
\* there; it acknowledges what was shown; a Stop hook writes what is owned.
HookSound(s) ==
    /\ hook[s].pc \in {"output", "ack"} =>
         claim = s /\ delta[s] # None /\ delta[s].receipt = hook[s].key
    /\ hook[s].pc = "ack" => shown[hook[s].key] > 0
    /\ hook[s].pc = "write" => hook[s].key \in owned

\* That consumed means shown is not inductive without it.
DeltaInv == TypeOK /\ \A s \in Sessions : HookSound(s)

Stored(d) == {s \in Sessions : d[s] # None}

LEMMA HookTypes ==
    ASSUME TypeOK, NEW s \in Sessions, NEW h \in Hooks, Becomes(s, h)
    PROVE  /\ hook' \in [Sessions -> Hooks] /\ hook'[s] = h
           /\ \A o \in Sessions \ {s} : hook'[o] = hook[o]
  BY DEF TypeOK, Becomes

\* What a step of s may change that the hooks of other sessions rely on.
LEMMA OthersSound ==
    ASSUME DeltaInv, NEW s \in Sessions, NEW o \in Sessions \ {s}, hook'[o] = hook[o],
           owned \subseteq owned', \A p \in Proposals : shown[p] > 0 => shown'[p] > 0,
           (claim' = claim /\ delta'[o] = delta[o]) \/ claim \in {None, s}
    PROVE  HookSound(o)'
<1>1. o # None /\ HookSound(o) /\ hook[o] \in Hooks
  BY DeltaNames DEF DeltaInv, TypeOK
<1>2. hook[o].key \in Proposals \cup {None}
  BY <1>1 DEF Hooks
<1>3. hook[o].pc \in {"output", "ack"} => hook[o].key \in Proposals
  <2>1. delta[o] # None => delta[o].receipt \in Proposals
    BY DEF DeltaInv, TypeOK, Deltas
  <2> QED BY <1>1, <2>1 DEF HookSound
<1> QED BY <1>1, <1>3 DEF HookSound

\* A step of s that leaves the files alone.
LEMMA HookStepKeeps ==
    ASSUME DeltaInv, NEW s \in Sessions, NEW h \in Hooks, Becomes(s, h),
           UNCHANGED <<reviewed, release, delta>>,
           owned \subseteq owned', owned' \subseteq Proposals,
           claim' \in Sessions \cup {None}, mishaps' \in 0..MaxMishaps,
           shown' \in [Proposals -> 0..2], \A p \in Proposals : shown[p] > 0 => shown'[p] > 0,
           claim' = claim \/ claim \in {None, s},
           hook'[s] = h => HookSound(s)'
    PROVE  DeltaInv'
<1>1. hook' \in [Sessions -> Hooks] /\ hook'[s] = h /\ \A o \in Sessions \ {s} : hook'[o] = hook[o]
  BY HookTypes DEF DeltaInv
<1>2. \A o \in Sessions \ {s} : HookSound(o)'
  BY <1>1, OthersSound
<1>3. Present' = Present
  BY DEF Present
<1>4. \A o \in Sessions : delta[o] # None => delta[o].receipt \in Proposals
  BY DEF DeltaInv, TypeOK, Deltas
<1>5. TypeOK'
  BY <1>1, <1>3, <1>4 DEF DeltaInv, TypeOK
<1> QED BY <1>1, <1>2, <1>5 DEF DeltaInv

\* The hook of a session at rest, in its turn or in its loop.
LEMMA ReadyTyped ==
    ASSUME NEW todo \in SUBSET Proposals
    PROVE  /\ Ready \in Hooks /\ Ready.pc = "ready"
           /\ \A pc \in {"ready", "turn", "loop"} :
                /\ [Ready EXCEPT !.pc = pc] \in Hooks /\ [Ready EXCEPT !.pc = pc].pc = pc
                /\ [Ready EXCEPT !.pc = pc, !.todo = todo] \in Hooks
                /\ [Ready EXCEPT !.pc = pc, !.todo = todo].pc = pc
  BY DEF Ready, Hooks

\* Nothing is asked of a hook there.
LEMMA RestSound ==
    ASSUME NEW s, NEW h, h.pc \in {"ready", "turn", "loop"} PROVE hook'[s] = h => HookSound(s)'
  BY DEF HookSound

LEMMA MishapTyped == TypeOK /\ (Mishap \/ Works) => mishaps' \in 0..MaxMishaps
  BY DeltaBounds DEF TypeOK, Mishap, Works

-----------------------------------------------------------------------------
(* The steps that write no delta.                                           *)

\* The prompt hook begins, shows its delta and ends.
LEMMA PromptStep ==
    ASSUME DeltaInv, NEW s \in Sessions, PromptClaim(s) \/ PromptPlain(s) \/ Output(s)
    PROVE  DeltaInv'
<1>1. hook[s] \in Hooks /\ HookSound(s) /\ s # None /\ TypeOK
  BY DeltaNames DEF DeltaInv, TypeOK
<1>2. [Ready EXCEPT !.pc = "turn"] \in Hooks /\ [Ready EXCEPT !.pc = "turn"].pc = "turn"
  BY ReadyTyped
<1>3. mishaps' \in 0..MaxMishaps
  BY <1>1, MishapTyped DEF PromptClaim, PromptPlain, Output, Works
<1>4. shown \in [Proposals -> 0..2] /\ owned \subseteq Proposals /\ claim \in Sessions \cup {None}
  BY <1>1 DEF TypeOK
<1>5. CASE PromptClaim(s)
  <2> DEFINE h == [Ready EXCEPT !.pc = "output", !.key = delta[s].receipt]
  <2>1. delta[s] # None /\ delta[s] \in Deltas
    BY <1>1, <1>5 DEF PromptClaim, Usable, TypeOK
  <2>2. h \in Hooks /\ h.pc = "output" /\ h.key = delta[s].receipt
    BY <2>1 DEF Deltas, Ready, Hooks
  <2>3. /\ claim = None /\ claim' = s /\ Becomes(s, h)
        /\ UNCHANGED <<reviewed, owned, release, delta, shown>>
    BY <1>5 DEF PromptClaim
  <2>4. hook'[s] = h => HookSound(s)'
    BY <2>1, <2>2, <2>3 DEF HookSound
  <2> QED BY <1>3, <1>4, <2>2, <2>3, <2>4, HookStepKeeps
<1>6. CASE PromptPlain(s)
  <2> DEFINE h == [hook[s] EXCEPT !.pc = "turn"]
  <2>1. h \in Hooks /\ h.pc = "turn" /\ Becomes(s, h)
    BY <1>1, <1>6 DEF PromptPlain, Goes, Hooks
  <2>2. hook'[s] = h => HookSound(s)'
    BY <2>1 DEF HookSound
  <2> QED BY <1>3, <1>4, <1>6, <2>1, <2>2, HookStepKeeps DEF PromptPlain
<1>7. CASE Output(s)
  <2>1. claim = s /\ hook[s].pc = "output" /\ UNCHANGED <<reviewed, owned, release, delta>>
    BY <1>1, <1>7 DEF Output, HookSound
  <2>2. CASE Goes(s, "ack") /\ shown' = ShownAgain(hook[s].key) /\ UNCHANGED claim
    <3> DEFINE h == [hook[s] EXCEPT !.pc = "ack"]
    <3>1. h \in Hooks /\ h.pc = "ack" /\ h.key = hook[s].key /\ Becomes(s, h)
      BY <1>1, <2>2 DEF Goes, Hooks
    <3>2. hook[s].key \in Proposals
      <4>1. delta[s] # None /\ delta[s].receipt = hook[s].key /\ delta[s] \in Deltas
        BY <1>1, <2>1 DEF HookSound, TypeOK
      <4> QED BY <4>1 DEF Deltas
    <3>3. /\ shown' \in [Proposals -> 0..2] /\ shown'[hook[s].key] > 0
          /\ \A p \in Proposals : shown[p] > 0 => shown'[p] > 0
      BY <1>4, <2>2, <3>2 DEF ShownAgain
    <3>4. hook'[s] = h => HookSound(s)'
      BY <1>1, <2>1, <2>2, <3>1, <3>3 DEF HookSound
    <3> QED BY <1>3, <1>4, <2>1, <2>2, <3>1, <3>3, <3>4, HookStepKeeps
  <2>3. CASE Released(s) /\ UNCHANGED shown
    <3>1. hook'[s] = [Ready EXCEPT !.pc = "turn"] => HookSound(s)'
      BY <1>2 DEF HookSound
    <3> QED BY <1>2, <1>3, <1>4, <2>1, <2>3, <3>1, HookStepKeeps DEF Released
  <2> QED BY <1>7, <2>2, <2>3 DEF Output
<1> QED BY <1>5, <1>6, <1>7

\* The Stop hook goes through its proposals.
LEMMA StopStep ==
    ASSUME DeltaInv, NEW s \in Sessions, Stop(s) \/ StopDone(s) \/ NextProposal(s)
    PROVE  DeltaInv'
<1>1. hook[s] \in Hooks /\ TypeOK /\ Ready \in Hooks
  BY ReadyTyped DEF DeltaInv, TypeOK
<1>2. shown \in [Proposals -> 0..2] /\ owned \subseteq Proposals /\ claim \in Sessions \cup {None}
      /\ mishaps \in 0..MaxMishaps
  BY <1>1 DEF TypeOK
<1>3. UNCHANGED <<reviewed, release, delta, claim, shown, mishaps>>
  BY DEF Stop, StopDone, NextProposal
<1>4. SUFFICES ASSUME NEW h \in Hooks, Becomes(s, h), owned \subseteq owned', owned' \subseteq Proposals,
                      h.pc = "write" => h.key \in owned', h.pc \in {"ready", "loop", "write"}
               PROVE  DeltaInv'
  <2>1. CASE Stop(s)
    <3>1. Mine(s) \in SUBSET Proposals
      BY DEF Mine
    <3>2. /\ [Ready EXCEPT !.pc = "loop", !.todo = Mine(s)] \in Hooks
          /\ [Ready EXCEPT !.pc = "loop", !.todo = Mine(s)].pc = "loop"
      BY <3>1, ReadyTyped
    <3> QED BY <1>2, <1>4, <2>1, <3>2 DEF Stop
  <2>2. CASE StopDone(s)
    BY <1>1, <1>2, <1>4, <2>2, ReadyTyped DEF StopDone
  <2>3. CASE NextProposal(s)
    <3>1. First(hook[s].todo) \subseteq hook[s].todo /\ hook[s].todo \subseteq Proposals
      BY <1>1 DEF First, Hooks
    <3>2. PICK p \in First(hook[s].todo) :
            \/ p \in owned /\ UNCHANGED owned
               /\ Becomes(s, [pc |-> "write", todo |-> hook[s].todo \ {p}, key |-> p])
            \/ owned' = owned \cup {p} /\ Becomes(s, [pc |-> "write", todo |-> {}, key |-> p])
            \/ UNCHANGED owned /\ Becomes(s, [hook[s] EXCEPT !.todo = hook[s].todo \ {p}])
      BY <2>3 DEF NextProposal
    <3>3. /\ p \in Proposals
          /\ \A todo \in {hook[s].todo \ {p}, {}} : [pc |-> "write", todo |-> todo, key |-> p] \in Hooks
          /\ [hook[s] EXCEPT !.todo = hook[s].todo \ {p}] \in Hooks
          /\ [hook[s] EXCEPT !.todo = hook[s].todo \ {p}].pc = "loop"
      BY <1>1, <2>3, <3>1 DEF Hooks, NextProposal
    <3> QED BY <1>2, <1>4, <3>2, <3>3
  <2> QED BY <2>1, <2>2, <2>3
<1>5. hook'[s] = h => HookSound(s)'
  BY <1>4 DEF HookSound
<1> QED BY <1>2, <1>3, <1>4, <1>5, HookStepKeeps

\* A hook is killed.
LEMMA KillStep == ASSUME DeltaInv, NEW s \in Sessions, Kill(s) PROVE DeltaInv'
<1>1. PICK pc \in {"ready", "turn"} : Becomes(s, [Ready EXCEPT !.pc = pc])
  BY DEF Kill
<1>2. TypeOK /\ [Ready EXCEPT !.pc = pc] \in Hooks /\ [Ready EXCEPT !.pc = pc].pc = pc
  BY ReadyTyped DEF DeltaInv
<1>3. hook'[s] = [Ready EXCEPT !.pc = pc] => HookSound(s)'
  BY <1>2 DEF HookSound
<1>4. shown \in [Proposals -> 0..2] /\ owned \subseteq Proposals /\ claim \in Sessions \cup {None}
      /\ mishaps' \in 0..MaxMishaps
  BY <1>2, MishapTyped DEF TypeOK, Kill
<1> QED BY <1>1, <1>2, <1>3, <1>4, HookStepKeeps DEF Kill

-----------------------------------------------------------------------------
(* The steps that write one.                                                *)

\* A step of s that leaves the store with the deltas d.
LEMMA StoreStepKeeps ==
    ASSUME DeltaInv, NEW s \in Sessions, NEW h \in Hooks, Becomes(s, h), h.pc \in {"ready", "turn", "loop"},
           delta' \in [Sessions -> Deltas \cup {None}], Cardinality(Stored(delta')) <= Cap,
           \A o \in Sessions : delta'[o] # None =>
               /\ delta'[o].receipt \in owned
               /\ delta'[o].status = "consumed" => shown[delta'[o].receipt] > 0,
           UNCHANGED <<reviewed, owned, release, shown>>,
           claim \in {None, s}, claim' \in {None, s}, mishaps' \in 0..MaxMishaps
    PROVE  DeltaInv'
<1>1. hook' \in [Sessions -> Hooks] /\ hook'[s] = h /\ \A o \in Sessions \ {s} : hook'[o] = hook[o]
  BY HookTypes DEF DeltaInv
<1>2. HookSound(s)' /\ \A o \in Sessions \ {s} : HookSound(o)'
  BY <1>1, OthersSound, RestSound
<1>3. Present' = Stored(delta')
  BY DEF Present, Stored
<1>4. TypeOK'
  BY <1>1, <1>3 DEF DeltaInv, TypeOK
<1> QED BY <1>2, <1>4 DEF DeltaInv

\* The acknowledgement consumes the delta that was shown.
LEMMA AcknowledgeStep == ASSUME DeltaInv, NEW s \in Sessions, Acknowledge(s) PROVE DeltaInv'
<1> DEFINE consumed == [delta EXCEPT ![s].status = "consumed"]
<1>1. /\ claim = s /\ delta[s] # None /\ delta[s].receipt = hook[s].key /\ shown[hook[s].key] > 0
      /\ TypeOK
  BY DEF DeltaInv, HookSound, Acknowledge
<1>2. delta \in [Sessions -> Deltas \cup {None}] /\ delta[s] \in Deltas
  BY <1>1 DEF TypeOK
<1>3. [delta[s] EXCEPT !.status = "consumed"] \in Deltas
  BY <1>2 DEF Deltas
<1>4. /\ consumed \in [Sessions -> Deltas \cup {None}] /\ consumed[s] = [delta[s] EXCEPT !.status = "consumed"]
      /\ consumed[s].receipt = delta[s].receipt /\ consumed[s] # None
      /\ \A o \in Sessions \ {s} : consumed[o] = delta[o]
  BY <1>2, <1>3, DeltaNone DEF Deltas
<1>5. Stored(consumed) = Present /\ Stored(delta) = Present
  BY <1>1, <1>4 DEF Stored, Present
<1>6. \A d \in {delta, consumed} : \A o \in Sessions : d[o] # None =>
        /\ d[o].receipt \in owned
        /\ d[o].status = "consumed" => shown[d[o].receipt] > 0
  BY <1>1, <1>4 DEF TypeOK
<1>7. delta' \in {delta, consumed} /\ mishaps' \in 0..MaxMishaps
  BY <1>1, MishapTyped DEF Acknowledge
<1>8. Cardinality(Present) <= Cap
  BY <1>1 DEF TypeOK
<1>9. [Ready EXCEPT !.pc = "turn"] \in Hooks /\ [Ready EXCEPT !.pc = "turn"].pc = "turn"
  BY ReadyTyped
<1> QED
  BY <1>1, <1>2, <1>4, <1>5, <1>6, <1>7, <1>8, <1>9, StoreStepKeeps DEF Acknowledge, Released

\* A full store makes room before it takes another delta.
LEMMA RoomIsMade ==
    ASSUME TypeOK, NEW s \in Sessions, NEW d \in Deltas,
           NEW evicted \in IF Full(s) THEN {[delta EXCEPT ![o] = None] : o \in Evictable} ELSE {delta},
           NEW written, written = [evicted EXCEPT ![s] = d]
    PROVE  /\ evicted \in [Sessions -> Deltas \cup {None}]
           /\ \A o \in Sessions : evicted[o] \in {delta[o], None}
           /\ Cardinality(Stored(evicted)) <= Cap
           /\ Cardinality(Stored(written)) <= Cap
<1>1. /\ delta \in [Sessions -> Deltas \cup {None}] /\ Cardinality(Present) <= Cap /\ Cap \in Nat
      /\ Present = Stored(delta)
  BY DeltaBounds DEF TypeOK, Present, Stored
<1>2. IsFiniteSet(Present) /\ Cardinality(Present) \in Nat
  BY DeltaNames, FS_Subset, FS_CardinalityType DEF Present
<1>3. CASE Full(s)
  <2>1. PICK o \in Evictable : evicted = [delta EXCEPT ![o] = None]
    BY <1>3
  <2>2. o \in Present /\ o \in Sessions /\ s \notin Present
    BY <1>3, <2>1 DEF Evictable, Present, Full
  <2>3. evicted \in [Sessions -> Deltas \cup {None}] /\ \A q \in Sessions : evicted[q] \in {delta[q], None}
    BY <1>1, <2>1
  <2>4. Stored(evicted) = Present \ {o}
    BY <1>1, <2>1, <2>2 DEF Stored
  <2>5. Stored(written) = (Present \ {o}) \cup {s}
    BY <1>1, <2>1, <2>2, <2>3, <2>4, DeltaNone DEF Stored
  <2>6. IsFiniteSet(Present \ {o}) /\ Cardinality(Present \ {o}) = Cardinality(Present) - 1
    BY <1>2, <2>2, FS_RemoveElement
  <2>7. Cardinality((Present \ {o}) \cup {s}) = Cardinality(Present)
    <3>1. s \notin Present \ {o}
      BY <2>2
    <3>2. Cardinality((Present \ {o}) \cup {s}) = Cardinality(Present \ {o}) + 1
      BY <2>6, <3>1, FS_AddElement
    <3> QED BY <1>2, <2>6, <3>2
  <2>8. Cardinality(Stored(evicted)) <= Cap /\ Cardinality(Stored(written)) <= Cap
    <3>1. Cardinality(Present) - 1 <= Cap
      BY <1>1, <1>2
    <3> QED BY <1>1, <2>4, <2>5, <2>6, <2>7, <3>1
  <2> QED BY <2>3, <2>8
<1>4. CASE ~Full(s)
  <2>1. evicted = delta
    BY <1>4
  <2>2. Stored(written) = Present \cup {s}
    BY <1>1, <2>1, DeltaNone DEF Stored
  <2>3. CASE s \in Present
    <3>1. Present \cup {s} = Present
      BY <2>3
    <3> QED BY <1>1, <2>1, <2>2, <3>1
  <2>4. CASE s \notin Present
    <3>1. ~(Cardinality(Present) >= Cap)
      BY <1>4, <2>4 DEF Full, Present
    <3>2. Cardinality(Present \cup {s}) = Cardinality(Present) + 1
      BY <1>2, <2>4, FS_AddElement
    <3>3. Cardinality(Present) + 1 <= Cap
      BY <1>1, <1>2, <3>1
    <3> QED BY <1>1, <2>1, <2>2, <3>2, <3>3
  <2> QED BY <2>3, <2>4
<1> QED BY <1>3, <1>4

\* The Stop hook writes the delta of its proposal, or finds a reason not to.
LEMMA WriteDeltaStep == ASSUME DeltaInv, NEW s \in Sessions, WriteDelta(s) PROVE DeltaInv'
<1>1. /\ TypeOK /\ hook[s] \in Hooks /\ hook[s].key \in owned /\ hook[s].key \in Proposals
  BY DEF DeltaInv, HookSound, WriteDelta, TypeOK
<1> DEFINE d == NewDelta(hook[s].key)
<1>2. d \in Deltas /\ d.receipt = hook[s].key /\ d.status = "pending" /\ d # None
  <2>1. release \in 0..MaxDeploys
    BY <1>1 DEF TypeOK
  <2>2. d = [receipt |-> hook[s].key, release |-> release, status |-> "pending", fresh |-> TRUE]
    BY DEF NewDelta
  <2>3. d \in Deltas
    BY <1>1, <2>1, <2>2 DEF Deltas
  <2>4. d # None
    BY <2>3, DeltaNone
  <2> QED BY <2>2, <2>3, <2>4
<1>3. /\ Ready \in Hooks /\ Ready.pc = "ready"
      /\ [Ready EXCEPT !.pc = "loop", !.todo = hook[s].todo] \in Hooks
      /\ [Ready EXCEPT !.pc = "loop", !.todo = hook[s].todo].pc = "loop"
  BY <1>1, ReadyTyped DEF Hooks
<1>4. PICK h \in {Ready, [Ready EXCEPT !.pc = "loop", !.todo = hook[s].todo]} : Becomes(s, h)
  BY DEF WriteDelta
<1>5. mishaps' \in 0..MaxMishaps /\ UNCHANGED <<reviewed, owned, release, claim, shown>>
  BY <1>1, MishapTyped DEF WriteDelta
<1>6. CASE delta' = delta
  <2>1. shown \in [Proposals -> 0..2] /\ owned \subseteq Proposals /\ claim \in Sessions \cup {None}
    BY <1>1 DEF TypeOK
  <2>2. hook'[s] = h => HookSound(s)'
    BY <1>3, <1>4 DEF HookSound
  <2> QED BY <1>3, <1>4, <1>5, <1>6, <2>1, <2>2, HookStepKeeps
<1>7. CASE delta' # delta
  <2>1. claim = None
    BY <1>7 DEF WriteDelta
  <2>2. PICK evicted \in IF Full(s) THEN {[delta EXCEPT ![o] = None] : o \in Evictable} ELSE {delta} :
          delta' \in {evicted, [evicted EXCEPT ![s] = d]}
    BY <1>7 DEF WriteDelta
  <2> DEFINE written == [evicted EXCEPT ![s] = d]
  <2>3. /\ evicted \in [Sessions -> Deltas \cup {None}]
        /\ \A o \in Sessions : evicted[o] \in {delta[o], None}
        /\ Cardinality(Stored(evicted)) <= Cap /\ Cardinality(Stored(written)) <= Cap
    BY <1>1, <1>2, RoomIsMade
  <2>4. delta' \in [Sessions -> Deltas \cup {None}] /\ Cardinality(Stored(delta')) <= Cap
    BY <1>2, <2>2, <2>3
  <2>5. \A o \in Sessions : delta'[o] \in {delta[o], None, d}
    BY <2>2, <2>3
  <2>6. \A o \in Sessions : delta'[o] # None =>
          /\ delta'[o].receipt \in owned
          /\ delta'[o].status = "consumed" => shown[delta'[o].receipt] > 0
    BY <1>1, <1>2, <2>5 DEF TypeOK
  <2> QED BY <1>3, <1>4, <1>5, <2>1, <2>4, <2>6, StoreStepKeeps
<1> QED BY <1>6, <1>7

-----------------------------------------------------------------------------
(* The steps of the world.                                                  *)

LEMMA WorldStep ==
    ASSUME DeltaInv,
           (\E p \in Proposals : Review(p)) \/ Deploy \/ (\E s \in Sessions : Expire(s))
    PROVE  DeltaInv'
<1>1. CASE \E p \in Proposals : Review(p)
  <2>1. PICK p \in Proposals : Review(p)
    BY <1>1
  <2>2. reviewed' \in [Proposals -> 0..MaxDeploys \cup {None}]
    BY <2>1 DEF Review, DeltaInv, TypeOK
  <2> QED BY <2>1, <2>2 DEF Review, DeltaInv, TypeOK, HookSound, Present
<1>2. CASE Deploy
  <2>1. release' \in 0..MaxDeploys
    BY <1>2, DeltaBounds DEF Deploy, DeltaInv, TypeOK
  <2> QED BY <1>2, <2>1 DEF Deploy, DeltaInv, TypeOK, HookSound, Present
<1>3. ASSUME NEW s \in Sessions, Expire(s) PROVE DeltaInv'
  <2>1. delta \in [Sessions -> Deltas \cup {None}] /\ delta[s] # None /\ delta[s] \in Deltas
    BY <1>3 DEF Expire, DeltaInv, TypeOK
  <2>2. delta'[s] = [delta[s] EXCEPT !.fresh = FALSE] /\ \A o \in Sessions \ {s} : delta'[o] = delta[o]
    BY <1>3, <2>1 DEF Expire
  <2>3. /\ delta'[s] \in Deltas /\ delta'[s] # None
        /\ delta'[s].receipt = delta[s].receipt /\ delta'[s].status = delta[s].status
    BY <2>1, <2>2, DeltaNone DEF Deltas
  <2>4. delta' \in [Sessions -> Deltas \cup {None}]
    BY <1>3, <2>1, <2>3 DEF Expire
  <2>5. Present' = Present
    BY <2>1, <2>2, <2>3 DEF Present
  <2>6. mishaps' \in 0..MaxMishaps
    BY <1>3, MishapTyped DEF Expire, DeltaInv
  <2>7. UNCHANGED <<reviewed, owned, release, claim, hook, shown>>
    BY <1>3 DEF Expire
  <2>8. TypeOK'
    <3>1. \A o \in Sessions : delta'[o] # None =>
            /\ delta[o] # None
            /\ delta'[o].receipt = delta[o].receipt /\ delta'[o].status = delta[o].status
      BY <2>1, <2>2, <2>3
    <3>2. \A o \in Sessions : delta'[o] # None =>
            /\ delta'[o].receipt \in owned
            /\ delta'[o].status = "consumed" => shown[delta'[o].receipt] > 0
      BY <3>1 DEF DeltaInv, TypeOK
    <3> QED BY <2>4, <2>5, <2>6, <2>7, <3>2 DEF DeltaInv, TypeOK
  <2>9. \A o \in Sessions : HookSound(o)'
    BY <2>1, <2>2, <2>3, <2>7 DEF DeltaInv, HookSound
  <2> QED BY <2>8, <2>9 DEF DeltaInv
<1> QED BY <1>1, <1>2, <1>3

LEMMA DeltaInit == Init => DeltaInv
<1> SUFFICES ASSUME Init PROVE DeltaInv
  OBVIOUS
<1>1. Present = {} /\ Cardinality({}) = 0
  BY FS_EmptySet DEF Init, Present
<1>2. Ready \in Hooks /\ Ready.pc = "ready"
  BY DEF Ready, Hooks
<1>3. TypeOK
  BY <1>1, <1>2, DeltaBounds DEF Init, TypeOK
<1> QED BY <1>2, <1>3 DEF Init, DeltaInv, HookSound

\* Every step keeps the store sound.
LEMMA DeltaStep == DeltaInv /\ [Next]_vars => DeltaInv'
<1> SUFFICES ASSUME DeltaInv, [Next]_vars PROVE DeltaInv'
  OBVIOUS
<1>1. CASE UNCHANGED vars
  BY <1>1 DEF vars, DeltaInv, TypeOK, HookSound, Present
<1>2. CASE Next
  BY <1>2, PromptStep, StopStep, KillStep, AcknowledgeStep, WriteDeltaStep, WorldStep DEF Next, HookStep
<1> QED BY <1>1, <1>2

\* What the store and the hooks rely on, in every reachable state.
THEOREM DeltaInvariant == Spec => []DeltaInv
  BY DeltaInit, DeltaStep, PTL DEF Spec

\* The store keeps to its capacity, only what the applier owns has a delta,
\* and a delta is consumed only when the model has seen it, whatever is killed
\* or fails in any number of sessions.
THEOREM ConsumedWasShown == Spec => []TypeOK
<1>1. DeltaInv => TypeOK
  BY DEF DeltaInv
<1> QED BY <1>1, DeltaInvariant, PTL

\* A pending delta leaves the store only by being acknowledged.
THEOREM PendingIsKept == Spec => PendingNeverLost
<1>1. ASSUME DeltaInv, [Next]_vars, NEW s \in Sessions, delta[s] # None, delta[s].status = "pending"
      PROVE  delta'[s] # None /\ delta'[s].receipt = delta[s].receipt
                              /\ delta'[s].release = delta[s].release
  <2>1. delta \in [Sessions -> Deltas \cup {None}] /\ delta[s] \in Deltas
    BY <1>1 DEF DeltaInv, TypeOK
  <2>2. CASE delta'[s] = delta[s]
    BY <1>1, <2>2
  <2>3. ASSUME NEW o \in Sessions, Expire(o) \/ Acknowledge(o), delta'[s] # delta[s]
        PROVE  \/ delta'[s] = [delta[s] EXCEPT !.fresh = FALSE]
               \/ delta'[s] = [delta[s] EXCEPT !.status = "consumed"]
    BY <2>1, <2>3 DEF Expire, Acknowledge
  <2>4. ASSUME NEW o \in Sessions, WriteDelta(o) PROVE delta'[s] = delta[s]
    <3>1. CASE delta' = delta
      BY <3>1
    <3>2. CASE delta' # delta
      <4>1. ~Known(o, hook[o].key) /\ ~Conflict(o, hook[o].key)
        BY <2>4, <3>2 DEF WriteDelta
      <4>2. o # s
        BY <1>1, <4>1 DEF Conflict
      <4>3. PICK evicted \in IF Full(o) THEN {[delta EXCEPT ![q] = None] : q \in Evictable} ELSE {delta} :
              delta' \in {evicted, [evicted EXCEPT ![o] = NewDelta(hook[o].key)]}
        BY <2>4, <3>2 DEF WriteDelta
      <4>4. s \notin Evictable
        BY <1>1 DEF Evictable
      <4>5. evicted[s] = delta[s] /\ DOMAIN evicted = Sessions
        BY <2>1, <4>3, <4>4
      <4> QED BY <4>2, <4>3, <4>5
    <3> QED BY <3>1, <3>2
  <2>5. \/ delta'[s] = delta[s]
        \/ delta'[s] = [delta[s] EXCEPT !.fresh = FALSE]
        \/ delta'[s] = [delta[s] EXCEPT !.status = "consumed"]
    <3>1. CASE UNCHANGED delta
      BY <3>1
    <3>2. CASE ~UNCHANGED delta
      <4>1. PICK o \in Sessions : Expire(o) \/ Acknowledge(o) \/ WriteDelta(o)
        BY <1>1, <3>2 DEF Next, vars, HookStep, Review, Deploy, Kill, PromptClaim, PromptPlain, Output,
                          Stop, StopDone, NextProposal
      <4> QED BY <2>3, <2>4, <4>1
    <3> QED BY <3>1, <3>2
  <2> QED BY <2>1, <2>5, DeltaNone DEF Deltas
<1>2. DeltaInv /\ [Next]_vars =>
        [\A s \in Sessions : delta[s] # None /\ delta[s].status = "pending" =>
           delta'[s] # None /\ delta'[s].receipt = delta[s].receipt
                            /\ delta'[s].release = delta[s].release]_vars
  BY <1>1
<1> QED BY <1>2, DeltaInvariant, PTL DEF PendingNeverLost, Spec

----------------------------------------------------------------------------
(* The observer's ledger                                                   *)

\* Whoever is between taking the lock and removing it has it.
LedgerLocked ==
    \A p \in Observers : observer[p].pc \in {"write", "release", "oversized"} => lock = p

\* The ledger on disk, and the one a hook is about to replace, account for the
\* events recorded so far.
Accounted ==
    /\ IsFiniteSet(log)
    /\ ledger \notin {Absent, Corrupt} => Explains(ledger)
    /\ \A p \in Observers : observer[p].pc = "write" /\ Old(p) # Absent => Explains(Old(p))

LedgerInv == ObserverTypeOK /\ LedgerLocked /\ Accounted

\* A hook knows no modification time ahead of the changes made so far; a file
\* that still is as a reviewer read it was so at the moment it had read all;
\* and every file it has quoted was.
ObserverSound(h) ==
    /\ \A n \in Paths : h.seen[n] # Absent => h.seen[n].mtime <= changes
    /\ h.job = "review" /\ h.pc \notin {"gate", "list", "read"} =>
         \A n \in Paths :
           h.seen[n] # Absent /\ memory[n] = h.seen[n] => h.moment[n] = h.seen[n]
    /\ h.pc \in {"quote", "quoted"} =>
         /\ h.job = "review" /\ h.seen[Index] # Absent
         /\ \A n \in Quoted(h.seen) \ h.todo : h.moment[n] = h.seen[n]
         /\ h.pc = "quoted" => h.todo = {}
QuoteInv ==
    /\ \A n \in Paths : memory[n] # Absent => memory[n].mtime <= changes
    /\ \A p \in Observers : ObserverSound(observer[p])

ObserverInv == LedgerInv /\ QuoteInv

----------------------------------------------------------------------------
(* Names and events                                                        *)

LEMMA PathsFinite == IsFiniteSet(Paths)
<1>1. /\ Len(Names) \in Nat /\ DOMAIN Names = 1..Len(Names)
      /\ Names \in [1..Len(Names) -> Paths]
  BY ObserverAssumption
<1>2. \A n \in Paths : \E i \in 1..Len(Names) : Names[i] = n
  BY <1>1 DEF Paths, ToSet
<1>3. Names \in Surjection(1..Len(Names), Paths)
  BY <1>1, <1>2 DEF Surjection
<1>4. IsFiniteSet(1..Len(Names))
  BY <1>1, FS_Interval
<1> QED
  BY <1>3, <1>4, FS_Surjection

\* The names are in a strict order.
LEMMA SortedOrder ==
    ASSUME NEW m \in Paths, NEW n \in Paths
    PROVE  /\ m # n => Sorted(m, n) \/ Sorted(n, m)
           /\ ~Sorted(m, m)
           /\ Sorted(m, n) => \A k \in Paths : Sorted(k, m) => Sorted(k, n)
<1>1. DOMAIN Names \subseteq Int /\ \A i, j \in DOMAIN Names : Names[i] = Names[j] => i = j
  BY ObserverAssumption DEF IsInjective
<1>2. PICK i, j \in DOMAIN Names : Names[i] = m /\ Names[j] = n
  BY DEF Paths, ToSet
<1>3. ~Sorted(m, m)
  BY <1>1 DEF Sorted
<1>4. m # n => Sorted(m, n) \/ Sorted(n, m)
  BY <1>1, <1>2 DEF Sorted
<1>5. ASSUME Sorted(m, n), NEW k \in Paths, Sorted(k, m) PROVE Sorted(k, n)
  <2>1. PICK a, b \in DOMAIN Names : a < b /\ Names[a] = m /\ Names[b] = n
    BY <1>5 DEF Sorted
  <2>2. PICK c, d \in DOMAIN Names : c < d /\ Names[c] = k /\ Names[d] = m
    BY <1>5 DEF Sorted
  <2>3. d = a
    BY <1>1, <2>1, <2>2
  <2>4. c < b
    BY <1>1, <2>1, <2>2, <2>3
  <2> QED
    BY <2>1, <2>2, <2>4 DEF Sorted
<1> QED
  BY <1>3, <1>4, <1>5

\* The place of a name among others.
Rank(n, C) == Cardinality({m \in C : Sorted(m, n)})
LEMMA RanksDiffer ==
    ASSUME NEW C \in SUBSET Paths
    PROVE  /\ IsFiniteSet(C) /\ Cardinality(C) \in Nat
           /\ \A n \in C : Rank(n, C) \in 0..Cardinality(C) - 1
           /\ \A m, n \in C : m # n => Rank(m, C) # Rank(n, C)
<1> DEFINE S(n) == {m \in C : Sorted(m, n)}
<1>1. IsFiniteSet(C) /\ Cardinality(C) \in Nat
  BY PathsFinite, FS_Subset, FS_CardinalityType
<1>2. ASSUME NEW n \in C PROVE S(n) \subseteq C /\ IsFiniteSet(S(n)) /\ Cardinality(S(n)) \in Nat
  BY <1>1, FS_Subset, FS_CardinalityType
<1>3. ASSUME NEW n \in C PROVE Cardinality(S(n)) < Cardinality(C)
  <2>1. S(n) # C
    <3>1. n \notin S(n)
      BY SortedOrder
    <3> QED
      BY <3>1
  <2>2. Cardinality(S(n)) <= Cardinality(C) /\ Cardinality(S(n)) # Cardinality(C)
    <3> HIDE DEF S
    <3> QED
      BY <1>1, <1>2, <2>1, FS_Subset
  <2> QED
    BY <1>1, <1>2, <2>2
<1>4. ASSUME NEW m \in C, NEW n \in C, Sorted(m, n) PROVE Cardinality(S(m)) < Cardinality(S(n))
  <2>1. S(m) \subseteq S(n) /\ S(m) # S(n)
    <3>1. m \in S(n) /\ m \notin S(m)
      BY <1>4, SortedOrder
    <3>2. \A k \in S(m) : k \in S(n)
      BY <1>4, SortedOrder
    <3> QED
      BY <3>1, <3>2
  <2>2. Cardinality(S(m)) <= Cardinality(S(n)) /\ Cardinality(S(m)) # Cardinality(S(n))
    <3> HIDE DEF S
    <3> QED
      BY <1>2, <2>1, FS_Subset
  <2> QED
    BY <1>2, <2>2
<1>5. ASSUME NEW m \in C, NEW n \in C, m # n PROVE Cardinality(S(m)) # Cardinality(S(n))
  <2>1. Sorted(m, n) \/ Sorted(n, m)
    BY <1>5, SortedOrder
  <2>2. Cardinality(S(m)) < Cardinality(S(n)) \/ Cardinality(S(n)) < Cardinality(S(m))
    BY <1>4, <2>1
  <2>3. Cardinality(S(m)) \in Nat /\ Cardinality(S(n)) \in Nat
    BY <1>2
  <2> HIDE DEF S
  <2> QED
    BY <2>2, <2>3
<1>6. ASSUME NEW n \in C PROVE Cardinality(S(n)) \in 0..Cardinality(C) - 1
  <2>1. Cardinality(S(n)) \in Nat /\ Cardinality(S(n)) < Cardinality(C)
    BY <1>2, <1>3
  <2> HIDE DEF S
  <2> QED
    BY <1>1, <2>1
<1> QED
  BY <1>1, <1>5, <1>6 DEF Rank

\* One event for every change, each with a number of its own.
EventFor(n, before, seen, first, at) ==
    [seq |-> first + Rank(n, Changed(before, seen)), at |-> at, path |-> n,
     before |-> before[n], after |-> BodyOf(seen[n])]
LEMMA DifferencesAre ==
    ASSUME NEW before, NEW seen, NEW first, NEW at
    PROVE  Differences(before, seen, first, at)
             = {EventFor(n, before, seen, first, at) : n \in Changed(before, seen)}
  BY DEF Differences, EventFor, Rank

LEMMA BodyTyped ==
    ASSUME NEW seen \in Inventories, NEW n \in Paths
    PROVE  BodyOf(seen[n]) \in Bodies \cup {Absent}
  BY DEF Inventories, BodyOf, Leaves

LEMMA DifferencesSound ==
    ASSUME NEW before \in [Paths -> Bodies \cup {Absent}], NEW seen \in Inventories,
           NEW first \in Nat, NEW at \in 0..MaxChanges
    PROVE  LET D == Differences(before, seen, first, at)
               k == Cardinality(Changed(before, seen))
           IN  /\ k \in Nat /\ IsFiniteSet(D) /\ Cardinality(D) = k /\ D \subseteq Events
               /\ \A e \in D : /\ e.seq \in first..first + k - 1
                               /\ e.path \in Changed(before, seen)
                               /\ e.before = before[e.path] /\ e.after = BodyOf(seen[e.path])
               /\ \A e, f \in D : e.seq = f.seq \/ e.path = f.path => e = f
               /\ \A n \in Changed(before, seen) : \E e \in D : e.path = n
<1> DEFINE C == Changed(before, seen)
           D == Differences(before, seen, first, at)
           f == [n \in C |-> EventFor(n, before, seen, first, at)]
<1>1. C \in SUBSET Paths
  BY DEF Changed
<1>2. /\ IsFiniteSet(C) /\ Cardinality(C) \in Nat
      /\ \A n \in C : Rank(n, C) \in 0..Cardinality(C) - 1
      /\ \A m, n \in C : m # n => Rank(m, C) # Rank(n, C)
  <2> HIDE DEF C
  <2> QED
    BY <1>1, RanksDiffer
<1>3. ASSUME NEW n \in C
      PROVE  /\ f[n].seq = first + Rank(n, C) /\ f[n].path = n
             /\ f[n].before = before[n] /\ f[n].after = BodyOf(seen[n])
             /\ f[n].seq \in first..first + Cardinality(C) - 1
             /\ f[n] \in Events
  <2>1. /\ f[n].seq = first + Rank(n, C) /\ f[n].path = n /\ f[n].at = at
        /\ f[n].before = before[n] /\ f[n].after = BodyOf(seen[n])
        /\ f[n] = [seq |-> first + Rank(n, C), at |-> at, path |-> n,
                   before |-> before[n], after |-> BodyOf(seen[n])]
    BY DEF EventFor
  <2>2. n \in Paths /\ before[n] \in Bodies \cup {Absent}
    BY <1>1
  <2>3. BodyOf(seen[n]) \in Bodies \cup {Absent}
    BY <2>2, BodyTyped
  <2>4. first + Rank(n, C) \in Nat /\ first + Rank(n, C) \in first..first + Cardinality(C) - 1
    <3> HIDE DEF C
    <3> QED
      BY <1>2
  <2> HIDE DEF f, C
  <2> QED
    BY <2>1, <2>2, <2>3, <2>4 DEF Events
<1>4. D = {f[n] : n \in C}
  BY DifferencesAre
<1> HIDE DEF C, D
<1>5. f \in Surjection(C, D) /\ f \in Injection(C, D)
  <2>1. f \in [C -> D] /\ \A d \in D : \E n \in C : f[n] = d
    BY <1>4
  <2>2. \A m, n \in C : f[m] = f[n] => m = n
    <3> HIDE DEF f
    <3> QED
      BY <1>3
  <2> HIDE DEF f
  <2> QED
    BY <2>1, <2>2 DEF Surjection, Injection, IsInjective
<1> HIDE DEF f
<1>6. IsFiniteSet(D) /\ Cardinality(D) = Cardinality(C)
  BY <1>2, <1>5, FS_Surjection
<1>7. \A e, g \in D : e.seq = g.seq \/ e.path = g.path => e = g
  <2> SUFFICES ASSUME NEW m \in C, NEW n \in C, f[m].seq = f[n].seq \/ f[m].path = f[n].path
               PROVE  f[m] = f[n]
    BY <1>4
  <2>1. first + Rank(m, C) = first + Rank(n, C) => Rank(m, C) = Rank(n, C)
    BY <1>2
  <2>2. m = n
    BY <1>2, <1>3, <2>1
  <2> QED
    BY <2>2
<1>8. \A e \in D : /\ e.seq \in first..first + Cardinality(C) - 1 /\ e.path \in C
                   /\ e.before = before[e.path] /\ e.after = BodyOf(seen[e.path]) /\ e \in Events
  BY <1>3, <1>4
<1>9. \A n \in C : \E e \in D : e.path = n
  BY <1>3, <1>4
<1> QED
  BY <1>2, <1>6, <1>7, <1>8, <1>9 DEF C, D

\* What the cap leaves is no more than the cap: nothing but the others comes
\* after the first of it.
LEMMA LastOfBounded ==
    ASSUME NEW es, IsFiniteSet(es), \A e \in es : e.seq \in Nat,
           \A e, f \in es : e.seq = f.seq => e = f, NEW k \in Nat
    PROVE  /\ LastOf(es, k) \subseteq es /\ IsFiniteSet(LastOf(es, k))
           /\ Cardinality(LastOf(es, k)) <= k
<1> DEFINE L == LastOf(es, k)
           after(e) == {f \in es : f.seq > e.seq}
<1>1. L \subseteq es /\ \A e \in L : Cardinality(after(e)) < k
  BY DEF LastOf
<1> HIDE DEF L
<1>2. IsFiniteSet(L)
  BY <1>1, FS_Subset
<1>3. CASE L = {}
  BY <1>2, <1>3, FS_EmptySet DEF L
<1>4. CASE L # {}
  <2> DEFINE T == {e.seq : e \in L}
  <2>1. PICK m \in T : \A i \in T : m <= i
    <3>1. T \in SUBSET Nat /\ T # {}
      BY <1>1, <1>4
    <3> HIDE DEF T
    <3>2. PICK m \in T : \A i \in T : <<i, m>> \notin OpToRel(<, Nat)
      BY <3>1, WFMin, NatLessThanWellFounded
    <3>3. ASSUME NEW i \in T PROVE ~(i < m)
      BY <3>1, <3>2 DEF OpToRel
    <3>4. \A i \in T : m <= i
      BY <3>1, <3>3
    <3> QED
      BY <3>4
  <2>2. PICK e \in L : e.seq = m
    OBVIOUS
  <2>3. L \ {e} \subseteq after(e)
    <3> SUFFICES ASSUME NEW f \in L, f # e PROVE f \in es /\ f.seq > e.seq
      OBVIOUS
    <3>1. e.seq <= f.seq /\ e.seq # f.seq /\ f \in es /\ e.seq \in Nat /\ f.seq \in Nat
      BY <1>1, <2>1, <2>2
    <3> QED
      BY <3>1
  <2>4. /\ IsFiniteSet(after(e)) /\ Cardinality(after(e)) \in Nat
        /\ Cardinality(after(e)) < k
    <3>1. after(e) \subseteq es
      OBVIOUS
    <3> QED
      BY <1>1, <3>1, FS_Subset, FS_CardinalityType
  <2> HIDE DEF after
  <2>5. Cardinality(L \ {e}) <= Cardinality(after(e))
    BY <2>3, <2>4, FS_Subset
  <2>6. Cardinality(L \ {e}) = Cardinality(L) - 1 /\ Cardinality(L) \in Nat
    BY <1>2, FS_RemoveElement, FS_CardinalityType
  <2>7. Cardinality(L) <= k
    <3>1. Cardinality(L \ {e}) < k
      BY <2>4, <2>5, <2>6
    <3> QED
      BY <2>6, <3>1
  <2> QED
    BY <1>1, <1>2, <2>7 DEF L
<1> QED
  BY <1>3, <1>4

\* An event that starts where the others ended links up with them.
LEMMA LinksOn ==
    ASSUME NEW es, \A x \in es : x.seq \in Nat, NEW latest, LinkUp(es, latest),
           NEW e, e.seq \in Nat, \A x \in es : x.seq < e.seq, e.before = latest
    PROVE  LinkUp(es \cup {e}, e.after)
<1> DEFINE all == es \cup {e}
<1>1. ASSUME NEW x \in all, \A f \in all : x.seq <= f.seq PROVE x.before = Absent
  <2>1. CASE x \in es
    BY <1>1, <2>1 DEF LinkUp
  <2>2. CASE x = e
    <3>1. \A f \in es : FALSE
      <4> SUFFICES ASSUME NEW f \in es PROVE FALSE
        OBVIOUS
      <4>1. f.seq < e.seq /\ e.seq <= f.seq /\ f.seq \in Nat
        BY <1>1, <2>2
      <4> QED
        BY <4>1
    <3> QED
      BY <2>2, <3>1 DEF LinkUp
  <2> QED
    BY <2>1, <2>2
<1>2. ASSUME NEW x \in all, \A f \in all : f.seq <= x.seq PROVE x.after = e.after
  <2>1. CASE x \in es
    <3>1. x.seq < e.seq /\ e.seq <= x.seq /\ x.seq \in Nat
      BY <1>2, <2>1
    <3> QED
      BY <3>1
  <2> QED
    BY <2>1
<1>3. ASSUME NEW x \in all, NEW f \in all, x.seq < f.seq,
             \A g \in all : g.seq <= x.seq \/ f.seq <= g.seq
      PROVE  x.after = f.before
  <2>1. CASE x \in es /\ f \in es
    BY <1>3, <2>1 DEF LinkUp
  <2>2. CASE x \in es /\ f = e
    <3>1. \A g \in es : g.seq <= x.seq
      <4> SUFFICES ASSUME NEW g \in es PROVE g.seq <= x.seq
        OBVIOUS
      <4>1. g.seq < e.seq /\ g.seq \in Nat /\ (g.seq <= x.seq \/ e.seq <= g.seq)
        BY <1>3, <2>2
      <4> QED
        BY <4>1
    <3> QED
      BY <2>2, <3>1 DEF LinkUp
  <2>3. CASE x = e
    <3>1. CASE f \in es
      <4>1. f.seq < e.seq /\ e.seq < f.seq /\ f.seq \in Nat
        BY <1>3, <2>3, <3>1
      <4> QED
        BY <4>1
    <3>2. CASE f = e
      BY <1>3, <2>3, <3>2
    <3> QED
      BY <3>1, <3>2
  <2> QED
    BY <2>1, <2>2, <2>3
<1> QED
  BY <1>1, <1>2, <1>3 DEF LinkUp

----------------------------------------------------------------------------
(* The ledger                                                              *)

\* The events a hook builds on, as far as they are accounted for.
Base(p) == IF Old(p) = Absent THEN {} ELSE log
LEMMA BaseSound ==
    ASSUME LedgerInv, NEW p \in Observers, observer[p].pc = "write"
    PROVE  LET G == Base(p)
           IN  /\ IsFiniteSet(G) /\ G \subseteq Events /\ OldEvents(p) \subseteq G
               /\ OldFiles(p) \in [Paths -> Bodies \cup {Absent}]
               /\ FirstSeq(p) \in Nat /\ FirstSeq(p) = Cardinality(G) + 1
               /\ \A e, f \in G : e.seq = f.seq => e = f
               /\ \A e \in G : e.seq \in 1..FirstSeq(p) - 1
               /\ \A n \in Paths : LinkUp({e \in G : e.path = n}, OldFiles(p)[n])
<1>1. observer[p].old \in Ledgers \cup {Absent, Corrupt}
  BY DEF LedgerInv, ObserverTypeOK, Hooked
<1>2. CASE Old(p) = Absent
  <2>1. Base(p) = {} /\ OldEvents(p) = {} /\ OldFiles(p) = Nothing /\ FirstSeq(p) = 1
    BY <1>2 DEF Base, OldEvents, OldFiles, FirstSeq
  <2>2. IsFiniteSet({}) /\ Cardinality({}) = 0
    BY FS_EmptySet
  <2>3. \A n \in Paths : LinkUp({e \in {} : e.path = n}, Nothing[n])
    BY DEF LinkUp, Nothing
  <2>4. Nothing \in [Paths -> Bodies \cup {Absent}]
    BY DEF Nothing
  <2> QED
    BY <2>1, <2>2, <2>3, <2>4
<1>3. CASE Old(p) # Absent
  <2>1. Old(p) \in Ledgers /\ Explains(Old(p))
    BY <1>1, <1>3 DEF Old, LedgerInv, Accounted
  <2>2. /\ Base(p) = log /\ OldEvents(p) = Old(p).events /\ OldFiles(p) = Old(p).files
        /\ FirstSeq(p) = Old(p).next
    BY <1>3 DEF Base, OldEvents, OldFiles, FirstSeq
  <2>3. IsFiniteSet(log) /\ log \subseteq Events
    BY DEF LedgerInv, ObserverTypeOK, Accounted
  <2> QED
    BY <2>1, <2>2, <2>3 DEF Explains, Ledgers
<1> QED
  BY <1>2, <1>3

LEMMA LedgerReplaced ==
    ASSUME LedgerInv, NEW p \in Observers, observer[p].pc = "write", Replaces(p)
    PROVE  /\ IsFiniteSet(log') /\ log' \subseteq Events
           /\ ledger' \in Ledgers /\ ledger' = NewLedger(p)
           /\ Cardinality(ledger'.events) <= MaxEvents
           /\ Explains(ledger)'
<1> DEFINE G == Base(p)
           D == Additions(p)
           old == OldFiles(p)
           seen == observer[p].seen
           first == FirstSeq(p)
           C == Changed(old, seen)
           kept == Recent(OldEvents(p) \cup D, observer[p].at)
           new == NewLedger(p)
<1>1. /\ IsFiniteSet(G) /\ G \subseteq Events /\ OldEvents(p) \subseteq G
      /\ old \in [Paths -> Bodies \cup {Absent}]
      /\ first \in Nat /\ first = Cardinality(G) + 1
      /\ \A e, f \in G : e.seq = f.seq => e = f
      /\ \A e \in G : e.seq \in 1..first - 1
      /\ \A n \in Paths : LinkUp({e \in G : e.path = n}, old[n])
  BY BaseSound
<1>2. /\ seen \in Inventories /\ observer[p].at \in 0..MaxChanges /\ observer[p].release \in Nat
      /\ observer[p] \in Hooked
  BY DEF LedgerInv, ObserverTypeOK, Hooked
<1>3. D = Differences(old, seen, first, observer[p].at)
  BY DEF Additions
<1>4. /\ Cardinality(C) \in Nat /\ IsFiniteSet(D) /\ Cardinality(D) = Cardinality(C)
      /\ D \subseteq Events
      /\ \A e \in D : /\ e.seq \in first..first + Cardinality(C) - 1
                      /\ e.path \in C
                      /\ e.before = old[e.path] /\ e.after = BodyOf(seen[e.path])
      /\ \A e, f \in D : e.seq = f.seq \/ e.path = f.path => e = f
      /\ \A n \in C : \E e \in D : e.path = n
  <2> HIDE DEF D, seen, old, first
  <2> QED
    BY <1>1, <1>2, <1>3, DifferencesSound
<1>5. /\ log' = G \cup D /\ ledger' = new
      /\ new.release = observer[p].release /\ new.files = Contents(seen)
      /\ new.next = first + Cardinality(C) /\ new.events = LastOf(kept, MaxEvents)
      /\ new = [release |-> observer[p].release, files |-> Contents(seen),
                next |-> first + Cardinality(C), events |-> LastOf(kept, MaxEvents)]
  BY DEF Replaces, Base, NewLedger
<1>6. kept \subseteq G \cup D
  BY <1>1 DEF Recent
<1>11. first \in Nat /\ first >= 1
  BY <1>1, FS_CardinalityType
<1>12. ASSUME NEW n \in Paths
       PROVE  /\ Contents(seen)[n] = BodyOf(seen[n]) /\ BodyOf(seen[n]) \in Bodies \cup {Absent}
              /\ n \notin C => BodyOf(seen[n]) = old[n]
  BY <1>2, BodyTyped DEF Contents, Changed
<1>13. Contents(seen) \in [Paths -> Bodies \cup {Absent}]
  BY <1>12 DEF Contents
<1> HIDE DEF G, D, old, seen, first, C, kept, new
<1>7. \A e \in G, f \in D : e.seq < f.seq /\ e.seq \in Nat /\ f.seq \in Nat /\ f.seq >= 1
  <2> TAKE e \in G, f \in D
  <2>1. e.seq \in 1..first - 1 /\ f.seq \in first..first + Cardinality(C) - 1
    BY <1>1, <1>4
  <2>2. first >= 1 /\ Cardinality(C) \in Nat
    BY <1>4, <1>11
  <2> QED
    BY <1>11, <2>1, <2>2
<1>8. IsFiniteSet(G \cup D) /\ Cardinality(G \cup D) + 1 = first + Cardinality(C)
  <2>1. G \cap D = {}
    <3> SUFFICES ASSUME NEW e \in G, e \in D PROVE FALSE
      OBVIOUS
    <3> QED
      BY <1>7
  <2>2. Cardinality(G) \in Nat /\ Cardinality(D) \in Nat
    BY <1>1, <1>4, FS_CardinalityType
  <2>3. Cardinality(G \cap D) = 0
    BY <2>1, FS_EmptySet
  <2>4. IsFiniteSet(G \cup D) /\ Cardinality(G \cup D) = Cardinality(G) + Cardinality(D) - 0
    BY <1>1, <1>4, <2>3, FS_Union
  <2>5. Cardinality(D) = Cardinality(C) /\ first = Cardinality(G) + 1
    BY <1>1, <1>4
  <2> QED
    BY <2>2, <2>4, <2>5
<1>9. G \cup D \subseteq Events /\ \A e \in G \cup D : e.seq \in Nat
  BY <1>1, <1>4 DEF Events
<1>10. \A e, f \in G \cup D : e.seq = f.seq => e = f
  <2> SUFFICES ASSUME NEW e \in G \cup D, NEW f \in G \cup D, e.seq = f.seq PROVE e = f
    OBVIOUS
  <2>1. CASE e \in G /\ f \in D
    <3>1. e.seq < f.seq /\ f.seq \in Nat
      BY <1>7, <2>1
    <3> QED
      BY <3>1
  <2>4. CASE e \in D /\ f \in G
    <3>1. f.seq < e.seq /\ f.seq \in Nat
      BY <1>7, <2>4
    <3> QED
      BY <3>1
  <2>2. CASE e \in G /\ f \in G
    BY <1>1, <2>2
  <2>3. CASE e \in D /\ f \in D
    BY <1>4, <2>3
  <2> QED
    BY <2>1, <2>2, <2>3, <2>4
<1>14. /\ LastOf(kept, MaxEvents) \subseteq kept
       /\ Cardinality(LastOf(kept, MaxEvents)) <= MaxEvents
  <2>1. IsFiniteSet(kept)
    BY <1>6, <1>8, FS_Subset
  <2>2. MaxEvents \in Nat
    BY ObserverAssumption
  <2>3. (\A e \in kept : e.seq \in Nat) /\ (\A e, f \in kept : e.seq = f.seq => e = f)
    BY <1>6, <1>9, <1>10
  <2> QED
    BY <2>1, <2>2, <2>3, LastOfBounded
<1>15. \A e \in G \cup D : e.seq \in 1..(first + Cardinality(C)) - 1
  <2> TAKE e \in G \cup D
  <2>1. e.seq \in 1..first - 1 \/ e.seq \in first..first + Cardinality(C) - 1
    BY <1>1, <1>4
  <2>2. first >= 1 /\ Cardinality(C) \in Nat
    BY <1>4, <1>11
  <2> QED
    BY <1>11, <2>1, <2>2
<1>16. ASSUME NEW n \in Paths
       PROVE  LinkUp({e \in G \cup D : e.path = n}, BodyOf(seen[n]))
  <2> DEFINE es == {e \in G : e.path = n}
  <2>1. LinkUp(es, old[n])
    BY <1>1
  <2>2. CASE n \notin C
    <3>1. {e \in G \cup D : e.path = n} = es
      BY <1>4, <2>2
    <3> QED
      BY <1>12, <2>1, <2>2, <3>1
  <2>3. CASE n \in C
    <3>1. PICK d \in D : d.path = n
      BY <1>4, <2>3
    <3>2. {e \in G \cup D : e.path = n} = es \cup {d}
      BY <1>4, <3>1
    <3>3. d.before = old[n] /\ d.after = BodyOf(seen[n])
      BY <1>4, <3>1
    <3>4. d.seq \in Nat /\ \A x \in es : x.seq \in Nat /\ x.seq < d.seq
      BY <1>7, <1>9
    <3> HIDE DEF es
    <3> QED
      BY <2>1, <3>2, <3>3, <3>4, LinksOn
  <2> QED
    BY <2>2, <2>3
<1>17. ledger' \in Ledgers
  <2>1. LastOf(kept, MaxEvents) \in SUBSET Events
    BY <1>6, <1>9, <1>14
  <2>2. first + Cardinality(C) \in Nat
    BY <1>4, <1>11
  <2> QED
    BY <1>2, <1>5, <1>13, <2>1, <2>2 DEF Ledgers
<1>18. Explains(ledger)'
  <2>1. /\ ledger'.next = Cardinality(log') + 1
        /\ \A e, f \in log' : e.seq = f.seq => e = f
        /\ \A e \in log' : e.seq \in 1..ledger'.next - 1
        /\ ledger'.events \subseteq log'
    BY <1>5, <1>6, <1>8, <1>10, <1>14, <1>15
  <2>2. \A n \in Paths : LinkUp({e \in log' : e.path = n}, ledger'.files[n])
    BY <1>5, <1>12, <1>16
  <2> QED
    BY <2>1, <2>2 DEF Explains, LinkUp
<1> QED
  BY <1>5, <1>8, <1>9, <1>14, <1>17, <1>18 DEF new

----------------------------------------------------------------------------
(* Steps of the hooks                                                      *)

WorldTyped ==
    /\ memory \in Inventories /\ {changes, clock} \subseteq 0..MaxChanges /\ clock <= changes
    /\ {hooks, troubles, runtimeRelease} \subseteq Nat /\ unready \in BOOLEAN
WithLock == {"write", "release", "oversized"}
\* Hook p turns to h, which is as it should be.
HookMoves(p, h) == h \in Hooked /\ ObserverSound(h) /\ HookTurns(p, h)

LEMMA ConstantsTyped ==
    /\ {MaxChanges, MaxEvents, MaxHooks, MaxTroubles} \subseteq Nat /\ Index \in Paths
    /\ Absent \notin Observers /\ Empty \notin Observers
  BY ObserverAssumption

LEMMA IdleSound == Idle \in Hooked /\ ObserverSound(Idle) /\ Idle.pc = "idle"
<1>1. Nothing \in Inventories /\ \A n \in Paths : Nothing[n] = Absent
  BY DEF Nothing, Inventories
<1>2. 0 \in 0..MaxChanges
  BY ConstantsTyped
<1>3. Idle \in Hooked
  BY <1>1, <1>2 DEF Idle, Hooked
<1>4. ObserverSound(Idle)
  BY <1>1 DEF Idle, ObserverSound
<1> QED
  BY <1>3, <1>4 DEF Idle

LEMMA EndsMoves ==
    ASSUME ObserverInv, NEW p \in Observers, HookEnds(p)
    PROVE  HookMoves(p, Idle) /\ unready' \in BOOLEAN
<1>1. (unready \/ observer[p].job = "preflight") \in BOOLEAN
  OBVIOUS
<1> QED
  BY <1>1, IdleSound DEF HookEnds, HookMoves

LEMMA TroubleTyped ==
    ASSUME ObserverInv, Trouble \/ NoTrouble
    PROVE  troubles' \in Nat
<1>1. troubles \in Nat
  BY DEF ObserverInv, LedgerInv, ObserverTypeOK
<1> QED
  BY <1>1 DEF Trouble, NoTrouble

\* What is known of a hook and the world before a step.
LEMMA ObserverKnown ==
    ASSUME ObserverInv
    PROVE  /\ WorldTyped /\ observer \in [Observers -> Hooked]
           /\ lock \in Observers \cup {Absent, Empty}
           /\ \A n \in Paths : memory[n] # Absent => memory[n].mtime <= changes
           /\ \A p \in Observers :
                /\ ObserverSound(observer[p]) /\ observer[p] \in Hooked
                /\ observer[p].pc \in WithLock => lock = p
  BY DEF ObserverInv, LedgerInv, ObserverTypeOK, WorldTyped, QuoteInv, LedgerLocked, WithLock

LEMMA StartMoves ==
    ASSUME ObserverInv, NEW p \in Observers, NEW job \in {"preflight", "review"},
           StartHook(p, job)
    PROVE  \E h : HookMoves(p, h) /\ h.pc \notin WithLock
<1> DEFINE h == [Idle EXCEPT !.pc = IF job = "review" THEN "gate" ELSE "list",
                             !.job = job, !.release = runtimeRelease, !.at = clock]
<1>1. Idle \in Hooked /\ \A n \in Paths : Idle.seen[n] = Absent
  BY IdleSound DEF Idle, Nothing
<1>2. runtimeRelease \in Nat /\ clock \in 0..MaxChanges
  BY ObserverKnown DEF WorldTyped
<1>3. /\ h \in Hooked /\ h.pc \in {"gate", "list"} /\ h.seen = Idle.seen
      /\ h.job = "review" => h.pc = "gate"
  BY <1>1, <1>2 DEF Hooked
<1> HIDE DEF h
<1>4. ObserverSound(h)
  BY <1>1, <1>3 DEF ObserverSound
<1> QED
  BY <1>3, <1>4 DEF StartHook, HookMoves, h, WithLock

LEMMA GateMoves ==
    ASSUME ObserverInv, NEW p \in Observers, Gate(p)
    PROVE  /\ \E h : HookMoves(p, h) /\ h.pc \notin WithLock
           /\ unready' \in BOOLEAN
<1>1. CASE LedgerReady(p)
  <2> DEFINE h == [observer[p] EXCEPT !.pc = "list"]
  <2>1. h \in Hooked /\ h.pc = "list" /\ h.seen = observer[p].seen /\ HookTurns(p, h)
    BY <1>1, ObserverKnown DEF Gate, HookGoes, Hooked
  <2> HIDE DEF h
  <2>2. ObserverSound(h)
    BY <2>1, ObserverKnown DEF ObserverSound
  <2>3. unready' \in BOOLEAN
    BY <1>1, ObserverKnown DEF Gate, WorldTyped
  <2> QED
    BY <2>1, <2>2, <2>3 DEF HookMoves, WithLock
<1>2. CASE ~LedgerReady(p)
  BY <1>2, EndsMoves, IdleSound DEF Gate, WithLock
<1> QED
  BY <1>1, <1>2

LEMMA ReadsMoves ==
    ASSUME ObserverInv, NEW p \in Observers, observer[p].pc \in {"list", "read"},
           NEW seen \in Inventories, NEW todo \in SUBSET Paths, Reads(p, seen, todo),
           \A n \in Paths : seen[n] # Absent => seen[n].mtime <= changes
    PROVE  \E h : HookMoves(p, h) /\ h.pc \notin WithLock
<1> DEFINE h == [observer[p] EXCEPT
                   !.seen = seen, !.todo = todo, !.pc = IF todo = {} THEN "lock" ELSE "read",
                   !.moment = IF todo = {} /\ observer[p].job = "review" THEN memory ELSE @]
<1>1. observer[p] \in Hooked /\ memory \in Inventories
  BY ObserverKnown DEF WorldTyped
<1>2. /\ h \in Hooked /\ h.pc = (IF todo = {} THEN "lock" ELSE "read") /\ h.seen = seen
      /\ h.job = observer[p].job
      /\ h.pc = "lock" /\ h.job = "review" => h.moment = memory
  BY <1>1 DEF Hooked
<1>3. HookTurns(p, h)
  BY DEF Reads
<1> HIDE DEF h
<1>4. ObserverSound(h)
  BY <1>2 DEF ObserverSound
<1> QED
  BY <1>2, <1>3, <1>4 DEF HookMoves, WithLock

LEMMA ListMoves ==
    ASSUME ObserverInv, NEW p \in Observers, List(p)
    PROVE  /\ \E h : HookMoves(p, h) /\ h.pc \notin WithLock
           /\ unready' \in BOOLEAN
<1>1. CASE Cardinality(PresentPaths) <= MaxFiles
  <2>1. Nothing \in Inventories /\ \A n \in Paths : Nothing[n] = Absent
    BY DEF Nothing, Inventories
  <2>2. PresentPaths \in SUBSET Paths
    BY DEF PresentPaths
  <2>3. Reads(p, Nothing, PresentPaths) /\ unready' = unready /\ observer[p].pc = "list"
    BY <1>1 DEF List
  <2> QED
    BY <2>1, <2>2, <2>3, ReadsMoves, ObserverKnown DEF WorldTyped
<1>2. CASE ~(Cardinality(PresentPaths) <= MaxFiles)
  BY <1>2, EndsMoves, IdleSound DEF List, WithLock
<1> QED
  BY <1>1, <1>2

LEMMA ReadLeafMoves ==
    ASSUME ObserverInv, NEW p \in Observers, ReadLeaf(p)
    PROVE  /\ \E h : HookMoves(p, h) /\ h.pc \notin WithLock
           /\ unready' \in BOOLEAN
<1> DEFINE n == Earliest(observer[p].todo)
           seen == [observer[p].seen EXCEPT ![n] = memory[n]]
           todo == observer[p].todo \ {n}
<1>1. CASE memory[n] # Absent
  <2>1. observer[p].pc = "read" /\ Reads(p, seen, todo) /\ unready' = unready
    BY <1>1 DEF ReadLeaf
  <2>2. observer[p].seen \in Inventories /\ observer[p].todo \in SUBSET Paths /\ memory \in Inventories
    BY ObserverKnown DEF WorldTyped, Hooked
  <2>3. \A m \in Paths : observer[p].seen[m] # Absent => observer[p].seen[m].mtime <= changes
    BY ObserverKnown DEF ObserverSound
  <2> HIDE DEF n
  <2>4. /\ seen \in Inventories /\ todo \in SUBSET Paths
        /\ \A m \in Paths : seen[m] = IF m = n THEN memory[m] ELSE observer[p].seen[m]
    BY <2>2 DEF Inventories
  <2>5. \A m \in Paths : seen[m] # Absent => seen[m].mtime <= changes
    BY <2>3, <2>4, ObserverKnown
  <2>6. unready' \in BOOLEAN
    BY <2>1, ObserverKnown DEF WorldTyped
  <2> HIDE DEF seen, todo
  <2> QED
    BY <2>1, <2>4, <2>5, <2>6, ReadsMoves
<1>2. CASE ~(memory[n] # Absent)
  BY <1>2, EndsMoves, IdleSound DEF ReadLeaf, WithLock
<1> QED
  BY <1>1, <1>2

\* A hook that takes the lock has what is there; one that does not, ends.
LEMMA LockMoves ==
    ASSUME ObserverInv, NEW p \in Observers, Lock(p)
    PROVE  /\ unready' \in BOOLEAN
           /\ \/ /\ LockFree /\ lock' = p
                 /\ \E h : HookMoves(p, h) /\ h.pc = "write" /\ h.old = ledger
              \/ lock' = lock /\ HookMoves(p, Idle)
<1>1. CASE LockFree /\ lock' = p /\ UNCHANGED unready
           /\ HookTurns(p, [observer[p] EXCEPT !.old = ledger, !.pc = "write"])
  <2> DEFINE h == [observer[p] EXCEPT !.old = ledger, !.pc = "write"]
  <2>1. /\ observer[p] \in Hooked /\ ledger \in Ledgers \cup {Absent, Corrupt}
        /\ observer[p].pc = "lock" /\ ObserverSound(observer[p])
    BY ObserverKnown DEF Lock, ObserverInv, LedgerInv, ObserverTypeOK
  <2>2. /\ h \in Hooked /\ h.pc = "write" /\ h.old = ledger /\ h.job = observer[p].job
        /\ h.seen = observer[p].seen /\ h.moment = observer[p].moment
    BY <2>1 DEF Hooked
  <2>3. HookTurns(p, h) /\ unready' \in BOOLEAN
    BY <1>1, ObserverKnown DEF WorldTyped
  <2> HIDE DEF h
  <2>4. ObserverSound(h)
    BY <2>1, <2>2 DEF ObserverSound
  <2> QED
    BY <1>1, <2>2, <2>3, <2>4 DEF HookMoves
<1>2. CASE ~LockFree /\ UNCHANGED lock /\ HookEnds(p)
  BY <1>2, EndsMoves
<1> QED
  BY <1>1, <1>2 DEF Lock

LEMMA WrittenMoves ==
    ASSUME ObserverInv, NEW p \in Observers, observer[p].pc = "write",
           NEW pc \in {"release", "oversized"}, NEW ok \in BOOLEAN, Written(p, pc, ok)
    PROVE  \E h : HookMoves(p, h) /\ h.pc = pc
<1>1. observer[p] \in Hooked /\ ObserverSound(observer[p])
  BY ObserverKnown
<1>2. CASE ok /\ observer[p].job = "review"
  <2> DEFINE h == [observer[p] EXCEPT !.pc = pc, !.ok = TRUE, !.at = 0, !.old = Absent]
  <2>1. 0 \in 0..MaxChanges
    BY ConstantsTyped
  <2>2. /\ h \in Hooked /\ h.pc = pc /\ h.job = observer[p].job
        /\ h.seen = observer[p].seen /\ h.moment = observer[p].moment
    BY <1>1, <2>1 DEF Hooked
  <2>3. HookTurns(p, h)
    BY <1>2 DEF Written
  <2> HIDE DEF h
  <2>4. ObserverSound(h)
    BY <1>1, <2>2 DEF ObserverSound
  <2> QED
    BY <2>2, <2>3, <2>4 DEF HookMoves
<1>3. CASE ~(ok /\ observer[p].job = "review")
  <2> DEFINE h == [Idle EXCEPT !.pc = pc, !.ok = ok, !.job = observer[p].job]
  <2>1. Idle \in Hooked /\ \A n \in Paths : Idle.seen[n] = Absent
    BY IdleSound DEF Idle, Nothing
  <2>2. h \in Hooked /\ h.pc = pc /\ h.seen = Idle.seen
    BY <1>1, <2>1 DEF Hooked
  <2>3. HookTurns(p, h)
    BY <1>3 DEF Written
  <2> HIDE DEF h
  <2>4. ObserverSound(h)
    BY <2>1, <2>2 DEF ObserverSound
  <2> QED
    BY <2>2, <2>3, <2>4 DEF HookMoves
<1> QED
  BY <1>2, <1>3

LEMMA UnlockMoves ==
    ASSUME ObserverInv, NEW p \in Observers, Unlock(p)
    PROVE  /\ unready' \in BOOLEAN /\ troubles' \in Nat
           /\ \E h : HookMoves(p, h) /\ h.pc \notin WithLock
<1>1. troubles' \in Nat
  BY TroubleTyped DEF Unlock
<1>2. observer[p] \in Hooked /\ ObserverSound(observer[p]) /\ unready \in BOOLEAN
  BY ObserverKnown DEF WorldTyped
<1>3. CASE /\ observer[p].ok /\ observer[p].job = "review" /\ observer[p].seen[Index] # Absent
           /\ HookTurns(p, [observer[p] EXCEPT !.pc = "quote", !.todo = Quoted(observer[p].seen)])
           /\ UNCHANGED unready
  <2> DEFINE h == [observer[p] EXCEPT !.pc = "quote", !.todo = Quoted(observer[p].seen)]
  <2>1. Quoted(observer[p].seen) \in SUBSET Paths
    BY ConstantsTyped DEF Quoted, FirstOf, Topics
  <2>2. /\ h \in Hooked /\ h.pc = "quote" /\ h.job = "review" /\ h.todo = Quoted(h.seen)
        /\ h.seen = observer[p].seen /\ h.moment = observer[p].moment
    BY <1>2, <1>3, <2>1 DEF Hooked
  <2>3. HookTurns(p, h) /\ observer[p].pc \in {"release", "oversized"}
    BY <1>3 DEF Unlock
  <2> HIDE DEF h
  <2>4. ObserverSound(h)
    BY <1>2, <1>3, <2>2, <2>3 DEF ObserverSound
  <2> QED
    BY <1>1, <1>2, <1>3, <2>2, <2>3, <2>4 DEF HookMoves, WithLock
<1>4. CASE HookTurns(p, Idle) /\ unready' = (unready /\ observer[p].job # "preflight")
  <2>1. unready' \in BOOLEAN
    BY <1>4
  <2> QED
    BY <1>1, <1>4, <2>1, IdleSound DEF HookMoves, WithLock
<1>5. CASE HookEnds(p)
  BY <1>1, <1>5, EndsMoves, IdleSound DEF WithLock
<1> QED
  BY <1>3, <1>4, <1>5 DEF Unlock

LEMMA QuoteMoves ==
    ASSUME ObserverInv, NEW p \in Observers, Quote(p)
    PROVE  /\ unready' \in BOOLEAN
           /\ \E h : HookMoves(p, h) /\ h.pc \notin WithLock
<1> DEFINE n == NextQuote(observer[p].todo)
           h == [observer[p] EXCEPT !.todo = @ \ {n},
                   !.pc = IF observer[p].todo = {n} THEN "quoted" ELSE "quote"]
<1>1. CASE Same(p, n)
  <2>1. observer[p] \in Hooked /\ ObserverSound(observer[p]) /\ unready \in BOOLEAN
    BY ObserverKnown DEF WorldTyped
  <2>2. /\ observer[p].pc = "quote" /\ memory[n] = observer[p].seen[n] /\ HookTurns(p, h)
        /\ unready' = unready
    BY <1>1 DEF Quote, Same
  <2> HIDE DEF n
  <2>3. /\ h \in Hooked /\ h.pc \in {"quote", "quoted"} /\ h.job = observer[p].job
        /\ h.todo = observer[p].todo \ {n} /\ (h.pc = "quoted" => h.todo = {})
        /\ h.seen = observer[p].seen /\ h.moment = observer[p].moment
    BY <2>1 DEF Hooked
  <2> HIDE DEF h
  <2>4. ASSUME NEW m \in Quoted(h.seen) \ h.todo PROVE h.moment[m] = h.seen[m]
    <3>1. CASE m = n
      <4>1. m \in Paths /\ h.seen[m] # Absent
        BY <2>1, <2>2, <2>3, ConstantsTyped DEF Quoted, FirstOf, Topics, ObserverSound
      <4> QED
        BY <2>1, <2>2, <2>3, <3>1, <4>1 DEF ObserverSound
    <3>2. CASE m # n
      BY <2>1, <2>2, <2>3, <3>2 DEF ObserverSound
    <3> QED
      BY <3>1, <3>2
  <2>5. ObserverSound(h)
    BY <2>1, <2>2, <2>3, <2>4 DEF ObserverSound
  <2> QED
    BY <2>1, <2>2, <2>3, <2>5 DEF HookMoves, WithLock
<1>2. CASE ~Same(p, n)
  BY <1>2, EndsMoves, IdleSound DEF Quote, WithLock
<1> QED
  BY <1>1, <1>2

----------------------------------------------------------------------------
(* Every step keeps the invariant                                          *)

\* A hook's step that leaves ledger and files alone.
LEMMA HookKeeps ==
    ASSUME ObserverInv, NEW p \in Observers, NEW h, HookMoves(p, h),
           WorldTyped', UNCHANGED <<memory, changes>>,
           lock' \in Observers \cup {Absent, Empty},
           \A q \in Observers \ {p} : observer[q].pc \in WithLock => lock' = q,
           h.pc \in WithLock => lock' = p
    PROVE  /\ WorldTyped' /\ lock' \in Observers \cup {Absent, Empty}
           /\ observer' \in [Observers -> Hooked] /\ observer'[p] = h
           /\ \A q \in Observers \ {p} : observer'[q] = observer[q]
           /\ LedgerLocked' /\ QuoteInv'
<1>1. /\ observer' \in [Observers -> Hooked] /\ observer'[p] = h
      /\ \A q \in Observers \ {p} : observer'[q] = observer[q]
  BY ObserverKnown DEF HookMoves, HookTurns
<1>2. LedgerLocked'
  BY <1>1 DEF LedgerLocked, WithLock
<1>3. \A q \in Observers : ObserverSound(observer'[q])
  BY <1>1, ObserverKnown DEF HookMoves
<1>4. \A q \in Observers : ObserverSound(observer[q])'
  BY <1>3 DEF ObserverSound
<1>5. QuoteInv'
  BY <1>4, ObserverKnown DEF QuoteInv
<1> QED
  BY <1>1, <1>2, <1>5

LEMMA SameLedgerKeeps ==
    ASSUME ObserverInv, NEW p \in Observers, NEW h, HookMoves(p, h),
           WorldTyped', UNCHANGED <<memory, changes, ledger, log>>,
           lock' \in Observers \cup {Absent, Empty},
           \A q \in Observers \ {p} : observer[q].pc \in WithLock => lock' = q,
           h.pc \in WithLock => lock' = p,
           h.pc = "write" => h.old = ledger
    PROVE  ObserverInv'
<1>1. /\ observer' \in [Observers -> Hooked] /\ observer'[p] = h
      /\ \A q \in Observers \ {p} : observer'[q] = observer[q]
      /\ LedgerLocked' /\ QuoteInv'
  BY HookKeeps
<1>2. ObserverTypeOK'
  BY <1>1 DEF ObserverInv, LedgerInv, ObserverTypeOK, WorldTyped
<1>3. ASSUME NEW q \in Observers, observer'[q].pc = "write", Old(q)' # Absent
      PROVE  Explains(Old(q))'
  <2>1. CASE q = p
    <3>1. Old(q)' = ledger /\ ledger \notin {Absent, Corrupt}
      BY <1>1, <1>3, <2>1 DEF Old
    <3>2. Explains(ledger)
      BY <3>1 DEF ObserverInv, LedgerInv, Accounted
    <3> QED
      BY <3>1, <3>2 DEF Explains
  <2>2. CASE q # p
    <3>1. Old(q)' = Old(q) /\ observer[q].pc = "write"
      BY <1>1, <1>3, <2>2 DEF Old
    <3>2. Explains(Old(q))
      BY <1>3, <3>1 DEF ObserverInv, LedgerInv, Accounted
    <3> QED
      BY <3>1, <3>2 DEF Explains
  <2> QED
    BY <2>1, <2>2
<1>4. Accounted'
  <2>1. IsFiniteSet(log') /\ (ledger' \notin {Absent, Corrupt} => Explains(ledger)')
    BY DEF ObserverInv, LedgerInv, Accounted, Explains
  <2> QED
    BY <1>3, <2>1 DEF Accounted
<1> QED
  BY <1>1, <1>2, <1>4 DEF ObserverInv, LedgerInv

LEMMA PlainHookKeeps ==
    ASSUME ObserverInv, NEW p \in Observers,
           \/ \E job \in {"preflight", "review"} : StartHook(p, job)
           \/ Gate(p) \/ List(p) \/ ReadLeaf(p) \/ Quote(p) \/ Submit(p)
    PROVE  ObserverInv'
<1>1. /\ \E h : HookMoves(p, h) /\ h.pc \notin WithLock
      /\ unready' \in BOOLEAN
  <2>1. ASSUME NEW job \in {"preflight", "review"}, StartHook(p, job)
        PROVE  /\ \E h : HookMoves(p, h) /\ h.pc \notin WithLock
               /\ unready' \in BOOLEAN
    <3>1. unready' = unready
      BY <2>1 DEF StartHook
    <3> QED
      BY <2>1, <3>1, StartMoves, ObserverKnown DEF WorldTyped
  <2>2. CASE Submit(p)
    <3>1. HookTurns(p, Idle) /\ unready' = unready
      BY <2>2 DEF Submit
    <3> QED
      BY <3>1, IdleSound, ObserverKnown DEF WorldTyped, HookMoves, WithLock
  <2> QED
    BY <2>1, <2>2, GateMoves, ListMoves, ReadLeafMoves, QuoteMoves
<1>2. /\ UNCHANGED <<memory, changes, clock, runtimeRelease, ledger, log, lock, troubles>>
      /\ hooks' = hooks \/ hooks' = hooks + 1
  BY DEF StartHook, Gate, List, ReadLeaf, Quote, Submit, envVars, storeVars
<1>3. PICK h : HookMoves(p, h) /\ h.pc \notin WithLock
  BY <1>1
<1>4. WorldTyped'
  BY <1>1, <1>2, ObserverKnown DEF WorldTyped
<1>5. \A q \in Observers \ {p} : observer[q].pc \in WithLock => lock' = q
  BY <1>2, ObserverKnown
<1>6. lock' \in Observers \cup {Absent, Empty}
  BY <1>2, ObserverKnown
<1> QED
  BY <1>2, <1>3, <1>4, <1>5, <1>6, SameLedgerKeeps DEF WithLock

LEMMA KillKeeps ==
    ASSUME ObserverInv, NEW p \in Observers, KillHook(p)
    PROVE  ObserverInv'
<1>1. HookMoves(p, Idle) /\ unready' \in BOOLEAN /\ troubles' \in Nat /\ Idle.pc = "idle"
  BY EndsMoves, TroubleTyped, IdleSound DEF KillHook
<1>2. UNCHANGED <<memory, changes, hooks, clock, runtimeRelease, ledger, log>>
  BY DEF KillHook, envVars
<1>3. WorldTyped'
  BY <1>1, <1>2, ObserverKnown DEF WorldTyped
<1>4. lock' \in {lock, Absent, Empty} /\ (lock \notin {p, Absent} => lock' = lock)
  BY DEF KillHook
<1>5. \A q \in Observers \ {p} : observer[q].pc \in WithLock => lock' = q
  BY <1>4, ObserverKnown, ConstantsTyped
<1>6. lock' \in Observers \cup {Absent, Empty}
  BY <1>4, ObserverKnown
<1> QED
  BY <1>1, <1>2, <1>3, <1>5, <1>6, SameLedgerKeeps DEF WithLock

LEMMA LockKeeps ==
    ASSUME ObserverInv, NEW p \in Observers, Lock(p)
    PROVE  ObserverInv'
<1>1. /\ UNCHANGED <<memory, changes, hooks, clock, runtimeRelease, ledger, log, troubles>>
      /\ unready' \in BOOLEAN
  BY LockMoves DEF Lock, envVars
<1>2. WorldTyped'
  BY <1>1, ObserverKnown DEF WorldTyped
<1>3. CASE LockFree /\ lock' = p /\ \E h : HookMoves(p, h) /\ h.pc = "write" /\ h.old = ledger
  <2>1. \A q \in Observers \ {p} : observer[q].pc \in WithLock => lock' = q
    BY <1>3, ObserverKnown, ConstantsTyped DEF LockFree
  <2> QED
    BY <1>1, <1>2, <1>3, <2>1, SameLedgerKeeps
<1>4. CASE lock' = lock /\ HookMoves(p, Idle)
  <2>1. \A q \in Observers \ {p} : observer[q].pc \in WithLock => lock' = q
    BY <1>4, ObserverKnown
  <2>2. lock' \in Observers \cup {Absent, Empty}
    BY <1>4, ObserverKnown
  <2> QED
    BY <1>1, <1>2, <1>4, <2>1, <2>2, SameLedgerKeeps, IdleSound DEF WithLock
<1> QED
  BY <1>3, <1>4, LockMoves

LEMMA UnlockKeeps ==
    ASSUME ObserverInv, NEW p \in Observers, Unlock(p)
    PROVE  ObserverInv'
<1>1. PICK h : HookMoves(p, h) /\ h.pc \notin WithLock
  BY UnlockMoves
<1>2. /\ UNCHANGED <<memory, changes, hooks, clock, runtimeRelease, ledger, log>>
      /\ lock' = Absent /\ observer[p].pc \in WithLock
      /\ unready' \in BOOLEAN /\ troubles' \in Nat
  BY UnlockMoves DEF Unlock, envVars, WithLock
<1>3. WorldTyped'
  BY <1>2, ObserverKnown DEF WorldTyped
<1>4. \A q \in Observers \ {p} : observer[q].pc \in WithLock => lock' = q
  BY <1>2, ObserverKnown
<1> QED
  BY <1>1, <1>2, <1>3, <1>4, SameLedgerKeeps DEF WithLock

LEMMA WriteKeeps ==
    ASSUME ObserverInv, NEW p \in Observers, Write(p)
    PROVE  ObserverInv'
<1>1. PICK h : HookMoves(p, h) /\ h.pc \in {"release", "oversized"}
  BY WrittenMoves DEF Write
<1>2. /\ UNCHANGED <<memory, changes, hooks, clock, runtimeRelease, lock, unready>>
      /\ observer[p].pc = "write" /\ lock = p /\ troubles' \in Nat
  BY ObserverKnown, TroubleTyped DEF Write, envVars, WithLock
<1>3. WorldTyped'
  BY <1>2, ObserverKnown DEF WorldTyped
<1>4. \A q \in Observers \ {p} : observer[q].pc \in WithLock => lock' = q
  BY <1>2, ObserverKnown
<1>5. lock' \in Observers \cup {Absent, Empty}
  BY <1>2
<1>6. CASE UNCHANGED <<ledger, log>>
  BY <1>1, <1>2, <1>3, <1>4, <1>5, <1>6, SameLedgerKeeps
<1>7. CASE Replaces(p) /\ Length(NewLedger(p).events) <= MaxBytes
  <2>1. /\ IsFiniteSet(log') /\ log' \subseteq Events
        /\ ledger' \in Ledgers /\ ledger' = NewLedger(p)
        /\ Cardinality(ledger'.events) <= MaxEvents
        /\ Explains(ledger)'
    BY <1>2, <1>7, LedgerReplaced DEF ObserverInv
  <2>2. /\ observer' \in [Observers -> Hooked] /\ observer'[p] = h
        /\ \A q \in Observers \ {p} : observer'[q] = observer[q]
        /\ LedgerLocked' /\ QuoteInv'
    BY <1>1, <1>2, <1>3, <1>4, <1>5, HookKeeps
  <2>3. Length(ledger'.events) <= MaxBytes
    BY <1>7, <2>1
  <2>4. ObserverTypeOK'
    BY <1>3, <1>5, <2>1, <2>2, <2>3 DEF ObserverTypeOK, WorldTyped
  <2>5. \A q \in Observers : observer'[q].pc # "write"
    BY <1>1, <1>2, <2>2, ObserverKnown DEF WithLock
  <2>6. Accounted'
    BY <2>1, <2>5 DEF Accounted
  <2> QED
    BY <2>2, <2>4, <2>6 DEF ObserverInv, LedgerInv
<1> QED
  BY <1>6, <1>7 DEF Write

\* A step of the world leaves hooks, lock and events alone.
LEMMA WorldKeeps ==
    ASSUME ObserverInv, UNCHANGED <<observer, lock, log>>, WorldTyped',
           ledger' \in {ledger, Corrupt}, QuoteInv'
    PROVE  ObserverInv'
<1>1. ObserverTypeOK'
  <2>1. CASE ledger' = Corrupt
    BY <2>1 DEF ObserverInv, LedgerInv, ObserverTypeOK, WorldTyped
  <2>2. CASE ledger' = ledger
    BY <2>2 DEF ObserverInv, LedgerInv, ObserverTypeOK, WorldTyped
  <2> QED
    BY <2>1, <2>2
<1>2. LedgerLocked'
  BY DEF ObserverInv, LedgerInv, LedgerLocked
<1>3. Accounted'
  <2>1. IsFiniteSet(log')
    BY DEF ObserverInv, LedgerInv, Accounted
  <2>2. ledger' \notin {Absent, Corrupt} => Explains(ledger)'
    BY DEF ObserverInv, LedgerInv, Accounted, Explains
  <2>3. ASSUME NEW p \in Observers, observer'[p].pc = "write", Old(p)' # Absent
        PROVE  Explains(Old(p))'
    <3>1. Old(p)' = Old(p) /\ observer[p].pc = "write"
      BY <2>3 DEF Old
    <3>2. Explains(Old(p))
      BY <2>3, <3>1 DEF ObserverInv, LedgerInv, Accounted
    <3> QED
      BY <3>1, <3>2 DEF Explains
  <2> QED
    BY <2>1, <2>2, <2>3 DEF Accounted
<1> QED
  BY <1>1, <1>2, <1>3 DEF ObserverInv, LedgerInv

LEMMA EditKeeps ==
    ASSUME ObserverInv, NEW n \in Paths, Edit(n)
    PROVE  ObserverInv'
<1>1. /\ changes \in 0..MaxChanges /\ clock \in 0..MaxChanges /\ clock <= changes
      /\ memory \in Inventories /\ MaxChanges \in Nat
  BY ObserverKnown, ConstantsTyped DEF WorldTyped
<1>2. changes' = changes + 1 /\ changes' \in 0..MaxChanges
  BY <1>1 DEF Edit, Change
<1>3. PICK f \in {Absent} \cup {[body |-> b, mtime |-> changes + 1] : b \in Bodies} :
         memory' = [memory EXCEPT ![n] = f]
  BY DEF Edit
<1>4. f # Absent => f \in Leaves /\ f.mtime = changes + 1
  BY <1>2 DEF Leaves
<1>5. /\ memory' \in Inventories
      /\ \A m \in Paths : memory'[m] = IF m = n THEN f ELSE memory[m]
  BY <1>1, <1>3, <1>4 DEF Inventories
<1>6. UNCHANGED <<hooks, clock, runtimeRelease, ledger, lock, log, observer, unready, troubles>>
  BY DEF Edit, storeVars
<1>7. WorldTyped'
  BY <1>1, <1>2, <1>5, <1>6, ObserverKnown DEF WorldTyped
<1>8. ASSUME NEW p \in Observers PROVE ObserverSound(observer[p])'
  <2> DEFINE h == observer[p]
  <2>1. ObserverSound(h) /\ h \in Hooked
    BY ObserverKnown
  <2>2. \A m \in Paths : h.seen[m] # Absent => h.seen[m].mtime \in Nat
    BY <2>1, <1>1 DEF Hooked, Inventories, Leaves
  <2>3. \A m \in Paths : h.seen[m] # Absent => h.seen[m].mtime <= changes /\ h.seen[m].mtime <= changes'
    BY <1>1, <1>2, <2>1, <2>2 DEF ObserverSound
  <2>4. ASSUME NEW m \in Paths, h.seen[m] # Absent, memory'[m] = h.seen[m] PROVE memory[m] = h.seen[m]
    <3>1. CASE m = n
      <4>1. h.seen[m] = f /\ f.mtime = changes + 1
        BY <1>4, <1>5, <2>4, <3>1
      <4>2. changes + 1 <= changes
        BY <2>3, <2>4, <4>1
      <4> QED
        BY <1>1, <4>2
    <3>2. CASE m # n
      BY <1>5, <2>4, <3>2
    <3> QED
      BY <3>1, <3>2
  <2>5. ObserverSound(h) /\ observer'[p] = h
    BY <1>6, <2>1
  <2> HIDE DEF h
  <2> QED
    BY <2>3, <2>4, <2>5 DEF ObserverSound
<1>9. ASSUME NEW m \in Paths, memory'[m] # Absent PROVE memory'[m].mtime <= changes'
  <2>1. CASE m = n
    BY <1>1, <1>2, <1>4, <1>5, <1>9, <2>1
  <2>2. CASE m # n
    <3>1. memory[m] # Absent /\ memory'[m] = memory[m] /\ memory[m].mtime <= changes
      BY <1>5, <1>9, <2>2, ObserverKnown
    <3>2. memory[m].mtime \in Nat
      BY <1>1, <3>1 DEF Inventories, Leaves
    <3> QED
      BY <1>1, <1>2, <3>1, <3>2
  <2> QED
    BY <2>1, <2>2
<1>10. QuoteInv'
  BY <1>8, <1>9 DEF QuoteInv
<1> QED
  BY <1>6, <1>7, <1>10, WorldKeeps

\* Time passes, a release is deployed, the ledger is damaged.
LEMMA EventKeeps ==
    ASSUME ObserverInv, Tick \/ NewRelease \/ Damage
    PROVE  ObserverInv'
<1>1. /\ changes \in 0..MaxChanges /\ clock \in 0..MaxChanges /\ clock <= changes
      /\ memory \in Inventories /\ MaxChanges \in Nat
      /\ {hooks, troubles, runtimeRelease} \subseteq Nat /\ unready \in BOOLEAN
  BY ObserverKnown, ConstantsTyped DEF WorldTyped
<1>2. /\ UNCHANGED <<memory, hooks, lock, log, observer, unready>>
      /\ ledger' \in {ledger, Corrupt}
      /\ changes' \in {changes, changes + 1} /\ changes' \in 0..MaxChanges
      /\ (clock' = clock \/ (clock' = clock + 1 /\ changes' = changes + 1))
      /\ runtimeRelease' \in Nat
  BY <1>1 DEF Tick, NewRelease, Damage, Change, envVars, storeVars
<1>3. troubles' \in Nat
  BY <1>1 DEF Tick, NewRelease, Damage, Trouble
<1>4. WorldTyped'
  BY <1>1, <1>2, <1>3 DEF WorldTyped
<1>5. \A f \in Leaves : f.mtime <= changes => f.mtime <= changes'
  BY <1>1, <1>2 DEF Leaves
<1>6. ASSUME NEW p \in Observers PROVE ObserverSound(observer[p])'
  <2>1. ObserverSound(observer[p]) /\ observer[p].seen \in Inventories
    BY ObserverKnown DEF Hooked
  <2>2. \A n \in Paths : observer[p].seen[n] # Absent => observer[p].seen[n].mtime <= changes'
    BY <1>5, <2>1 DEF ObserverSound, Inventories
  <2> QED
    BY <1>2, <2>1, <2>2 DEF ObserverSound
<1>7. \A n \in Paths : memory[n] # Absent => memory[n].mtime <= changes'
  BY <1>1, <1>5, ObserverKnown DEF Inventories
<1>8. QuoteInv'
  BY <1>2, <1>6, <1>7 DEF QuoteInv
<1> QED
  BY <1>2, <1>4, <1>8, WorldKeeps

LEMMA ObserverStarts == ObserverInit => ObserverInv
<1> SUFFICES ASSUME ObserverInit PROVE ObserverInv
  OBVIOUS
<1>1. 0 \in 0..MaxChanges /\ MaxEvents \in Nat
  BY ConstantsTyped
<1>2. /\ memory \in Inventories
      /\ \A n \in Paths : memory[n] # Absent => memory[n].mtime = 0
  <2>1. memory \in [Paths -> [body : Bodies, mtime : {0}] \cup {Absent}]
    BY DEF ObserverInit
  <2> QED
    BY <1>1, <2>1 DEF Inventories, Leaves
<1>3. /\ \A p \in Observers : observer[p] = Idle
      /\ observer \in [Observers -> Hooked]
      /\ changes = 0 /\ hooks = 0 /\ clock = 0 /\ runtimeRelease = 1 /\ lock = Absent
      /\ unready = FALSE /\ troubles = 0
  BY IdleSound DEF ObserverInit
<1>4. LedgerLocked /\ QuoteInv
  BY <1>2, <1>3, IdleSound DEF LedgerLocked, QuoteInv
<1>5. /\ ledger \in Ledgers \cup {Absent, Corrupt} /\ log \subseteq Events /\ IsFiniteSet(log)
      /\ ledger \notin {Absent, Corrupt} =>
           Cardinality(ledger.events) <= MaxEvents /\ Length(ledger.events) <= MaxBytes
      /\ ledger \notin {Absent, Corrupt} => Explains(ledger)
  <2>1. CASE ledger = Absent /\ log = {}
    BY <2>1, FS_EmptySet
  <2>2. CASE ~(ledger = Absent /\ log = {})
    <3> DEFINE D == Differences(Nothing, memory, 1, 0)
               kept == LastOf(D, MaxEvents)
    <3>1. /\ Length(kept) <= MaxBytes /\ log = D
          /\ ledger = [release |-> 1, files |-> Contents(memory),
                       next |-> Cardinality(D) + 1, events |-> kept]
      BY <2>2 DEF ObserverInit
    <3>2. /\ Nothing \in [Paths -> Bodies \cup {Absent}] /\ \A n \in Paths : Nothing[n] = Absent
      BY DEF Nothing
    <3>3. /\ Cardinality(D) \in Nat /\ IsFiniteSet(D) /\ D \subseteq Events
          /\ \A e \in D : /\ e.seq \in 1..(Cardinality(D) + 1) - 1
                          /\ e.path \in Changed(Nothing, memory)
                          /\ e.before = Nothing[e.path] /\ e.after = BodyOf(memory[e.path])
          /\ \A e, f \in D : e.seq = f.seq \/ e.path = f.path => e = f
          /\ \A n \in Changed(Nothing, memory) : \E e \in D : e.path = n
      <4> DEFINE k == Cardinality(Changed(Nothing, memory))
      <4>1. /\ k \in Nat /\ IsFiniteSet(D) /\ Cardinality(D) = k /\ D \subseteq Events
            /\ \A e \in D : /\ e.seq \in 1..1 + k - 1
                            /\ e.path \in Changed(Nothing, memory)
                            /\ e.before = Nothing[e.path] /\ e.after = BodyOf(memory[e.path])
            /\ \A e, f \in D : e.seq = f.seq \/ e.path = f.path => e = f
            /\ \A n \in Changed(Nothing, memory) : \E e \in D : e.path = n
        <5> HIDE DEF D
        <5>1. 1 \in Nat /\ D = Differences(Nothing, memory, 1, 0)
          BY DEF D
        <5> QED
          BY <1>1, <1>2, <3>2, <5>1, DifferencesSound
      <4>2. 1..1 + k - 1 = 1..(k + 1) - 1
        BY <4>1
      <4> HIDE DEF k, D
      <4> QED
        BY <4>1, <4>2
    <3> HIDE DEF D
    <3>4. \A e \in D : e.seq \in Nat
      BY <3>3
    <3>5. kept \subseteq D /\ Cardinality(kept) <= MaxEvents
      BY <1>1, <3>3, <3>4, LastOfBounded
    <3>6. ASSUME NEW n \in Paths PROVE LinkUp({e \in D : e.path = n}, BodyOf(memory[n]))
      <4>1. CASE n \notin Changed(Nothing, memory)
        <5>1. {e \in D : e.path = n} = {} /\ BodyOf(memory[n]) = Absent
          BY <3>2, <3>3, <4>1 DEF Changed
        <5> QED
          BY <5>1 DEF LinkUp
      <4>2. CASE n \in Changed(Nothing, memory)
        <5>1. PICK d \in D : d.path = n
          BY <3>3, <4>2
        <5>2. /\ {e \in D : e.path = n} = {} \cup {d}
              /\ d.before = Absent /\ d.after = BodyOf(memory[n]) /\ d.seq \in Nat
          BY <3>2, <3>3, <3>4, <5>1
        <5>3. LinkUp({}, Absent)
          BY DEF LinkUp
        <5> QED
          BY <5>2, <5>3, LinksOn
      <4> QED
        BY <4>1, <4>2
    <3>7. /\ Contents(memory) \in [Paths -> Bodies \cup {Absent}]
          /\ \A n \in Paths : Contents(memory)[n] = BodyOf(memory[n])
      BY <1>2, BodyTyped DEF Contents
    <3> HIDE DEF kept
    <3>8. Explains(ledger)
      <4>1. /\ ledger.next = Cardinality(log) + 1
            /\ \A e, f \in log : e.seq = f.seq => e = f
            /\ \A e \in log : e.seq \in 1..ledger.next - 1
            /\ ledger.events \subseteq log
        BY <3>1, <3>3, <3>5
      <4>2. \A n \in Paths : LinkUp({e \in log : e.path = n}, ledger.files[n])
        BY <3>1, <3>6, <3>7
      <4> QED
        BY <4>1, <4>2 DEF Explains
    <3>9. ledger \in Ledgers
      BY <3>1, <3>3, <3>5, <3>7 DEF Ledgers
    <3> QED
      BY <3>1, <3>3, <3>5, <3>8, <3>9
  <2> QED
    BY <2>1, <2>2 DEF ObserverInit
<1>6. \A p \in Observers : observer[p].pc # "write"
  BY <1>3, IdleSound
<1>7. ObserverTypeOK
  <2>1. /\ {changes, clock} \subseteq 0..MaxChanges /\ clock <= changes
        /\ {hooks, troubles, runtimeRelease} \subseteq Nat
    <3>1. 0 <= 0 /\ {0, 1} \subseteq Nat
      OBVIOUS
    <3> QED
      BY <1>1, <1>3, <3>1, Zenon
  <2>2. unready \in BOOLEAN /\ lock \in Observers \cup {Absent, Empty}
    BY <1>3
  <2> QED
    BY <1>2, <1>3, <1>5, <2>1, <2>2 DEF ObserverTypeOK
<1> QED
  BY <1>4, <1>5, <1>6, <1>7 DEF ObserverInv, LedgerInv, Accounted

LEMMA ObserverStep == ObserverInv /\ [ObserverNext]_observerVars => ObserverInv'
<1> SUFFICES ASSUME ObserverInv, [ObserverNext]_observerVars PROVE ObserverInv'
  OBVIOUS
<1>1. CASE UNCHANGED observerVars
  <2>1. UNCHANGED <<memory, changes, hooks, clock, runtimeRelease, ledger, lock, log, observer,
                    unready, troubles>>
    BY <1>1 DEF observerVars, envVars, storeVars
  <2>2. WorldTyped'
    BY <2>1, ObserverKnown DEF WorldTyped
  <2>3. QuoteInv'
    BY <2>1 DEF ObserverInv, QuoteInv, ObserverSound
  <2> QED
    BY <2>1, <2>2, <2>3, WorldKeeps
<1>2. ASSUME NEW n \in Paths, Edit(n) PROVE ObserverInv'
  BY <1>2, EditKeeps
<1>3. CASE Tick \/ NewRelease \/ Damage
  BY <1>3, EventKeeps
<1>4. ASSUME NEW p \in Observers, KillHook(p) PROVE ObserverInv'
  BY <1>4, KillKeeps
<1>5. ASSUME NEW p \in Observers, Step(p) PROVE ObserverInv'
  BY <1>5, PlainHookKeeps, LockKeeps, WriteKeeps, UnlockKeeps DEF Step
<1>6. ASSUME NEW p \in Observers, NEW job \in {"preflight", "review"}, StartHook(p, job)
      PROVE  ObserverInv'
  BY <1>6, PlainHookKeeps
<1> QED
  BY <1>1, <1>2, <1>3, <1>4, <1>5, <1>6 DEF ObserverNext

\* The locking of the ledger, the account its events give and what a reviewer
\* knows of the files it has read hold throughout.
THEOREM ObserverInvariant == ObserverSpec => []ObserverInv
<1> QED
  BY ObserverStarts, ObserverStep, PTL DEF ObserverSpec

\* The recorded events explain the recorded inventory: each number was given
\* once, and the events of a file lead to its contents.
THEOREM LedgerExplainsMemory == ObserverSpec => []EventsExplainLatest
<1>1. ObserverInv => EventsExplainLatest
  BY DEF ObserverInv, LedgerInv, Accounted, EventsExplainLatest
<1> QED
  BY <1>1, ObserverInvariant, PTL

\* What the reviewer is shown was in the memory at one moment.
THEOREM ShownTogether == ObserverSpec => []QuotesAreASnapshot
<1>1. ObserverInv => QuotesAreASnapshot
  <2> SUFFICES ASSUME ObserverInv, NEW p \in Observers, observer[p].pc = "quoted",
                      NEW n \in Quoted(observer[p].seen)
               PROVE  BodyOf(observer[p].seen[n]) = BodyOf(observer[p].moment[n])
    BY DEF QuotesAreASnapshot
  <2>1. observer[p].moment[n] = observer[p].seen[n]
    BY DEF ObserverInv, QuoteInv, ObserverSound
  <2> QED
    BY <2>1
<1> QED
  BY <1>1, ObserverInvariant, PTL
=============================================================================
