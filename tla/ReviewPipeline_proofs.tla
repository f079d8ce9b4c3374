----------------------- MODULE ReviewPipeline_proofs ------------------------
(***************************************************************************)
(* Proofs about the broker and ReviewPipeline, for any number of hooks,    *)
(* turns, receipts, attempts, kills, failures.  IInv, the invariant, says  *)
(* what holds of every request on its own; lemma Others shows that a step  *)
(* of one request, which moves only files of a turn it owns or files that  *)
(* nobody owns, leaves every other request alone.                          *)
(***************************************************************************)
EXTENDS ReviewPipeline, FiniteSetTheorems, TLAPS

-----------------------------------------------------------------------------
(* The broker, for every burst, window, tolerance and number of connections: *)
(* its types, and how many stamps a window may hold.                         *)

\* A slot leaves the rate file only for one stamped a window later, stamps
\* are never ahead of the clock, and a connection that waits for the lock has
\* read the clock and has no slot yet.  RateBounded alone is not inductive:
\* it says nothing of a file that lost a stamp too early.
StampsKept ==
    /\ clock \in Nat /\ {read, granted} \subseteq [Requests -> Nat \cup {None}]
    /\ broker \in [Requests -> BrokerSteps]
    /\ \A r \in Requests : broker[r] = "timed" => read[r] # None /\ read[r] <= clock
    /\ \A r \in Requests : broker[r] \in {"idle", "counted", "timed"} => granted[r] = None
    /\ \A r \in stamps : r \in Requests /\ granted[r] # None
    /\ \A r \in Requests : granted[r] # None =>
          /\ granted[r] <= clock
          /\ r \in stamps \/ \E q \in stamps : granted[r] + Window <= granted[q]

RateInv == StampsKept /\ RateBounded

LEMMA RateInit == BrokerInit => RateInv
<1> SUFFICES ASSUME BrokerInit PROVE RateInv
  OBVIOUS
<1>1. StampsKept
  BY BrokerRequests DEF BrokerInit, StampsKept, BrokerSteps
<1>2. \A t : TakenUntil(t, Tolerance) = {}
  BY BrokerRequests DEF BrokerInit, TakenUntil
<1>3. Cardinality({}) = 0
  BY FS_EmptySet
<1>4. RateBounded
  BY <1>2, <1>3, BrokerBounds DEF RateBounded
<1> QED
  BY <1>1, <1>4 DEF RateInv

\* The slots of a window are finitely many, and fewer of them are no problem.
LEMMA WindowFinite ==
    ASSUME NEW t, NEW S, S \subseteq TakenUntil(t, Tolerance)
    PROVE  /\ IsFiniteSet(S) /\ Cardinality(S) \in Nat
           /\ Cardinality(TakenUntil(t, Tolerance)) \in Nat
           /\ Cardinality(S) <= Cardinality(TakenUntil(t, Tolerance))
<1>1. IsFiniteSet(TakenUntil(t, Tolerance))
  BY FS_Subset, BrokerRequests DEF TakenUntil
<1> QED
  BY <1>1, FS_Subset, FS_CardinalityType

\* No step but Tick and Reserve concerns the stamps; the other steps of a
\* connection only lead it to the lock.
LEMMA TickKeepsRate ==
    ASSUME RateInv, Tick
    PROVE  RateInv'
<1> USE BrokerBounds, BrokerRequests
<1>1. StampsKept'
  BY DEF RateInv, StampsKept, Tick
<1>2. SUFFICES ASSUME NEW t \in (0..clock)'
               PROVE  Cardinality(TakenUntil(t, Tolerance)') <= Burst
  BY <1>1 DEF RateInv, RateBounded
<1>3. CASE t \in 0..clock
  BY <1>3 DEF RateInv, RateBounded, TakenUntil, Tick
<1>4. CASE t = clock + 1
  <2>1. TakenUntil(t, Tolerance)' \subseteq TakenUntil(clock, Tolerance)
    BY <1>4 DEF RateInv, StampsKept, TakenUntil, Tick
  <2>2. Cardinality(TakenUntil(clock, Tolerance)) <= Burst
    BY DEF RateInv, RateBounded, StampsKept
  <2> QED
    BY <2>1, <2>2, WindowFinite
<1> QED
  BY <1>2, <1>3, <1>4 DEF RateInv, StampsKept, Tick

LEMMA TakeTimeKeepsRate ==
    ASSUME RateInv, NEW r \in Requests, TakeTime(r)
    PROVE  RateInv'
<1>1. StampsKept'
  BY BrokerRequests DEF RateInv, StampsKept, TakeTime, Replies, BrokerSteps
<1>2. RateBounded'
  BY DEF RateInv, RateBounded, TakenUntil, TakeTime
<1> QED
  BY <1>1, <1>2 DEF RateInv

\* A slot that shares a shortened window with the new one is still in the
\* file and recent: had it left, a stamp a window later would be there, too
\* far ahead of the time read for the request to be let through.
LEMMA ReserveKeepsRate ==
    ASSUME RateInv, NEW r \in Requests, Reserve(r)
    PROVE  RateInv'
<1> USE BrokerBounds, BrokerRequests
<1>1. CASE UNCHANGED <<granted, stamps>>
  <2>1. StampsKept'
    BY <1>1 DEF RateInv, StampsKept, Reserve, Replies, BrokerSteps
  <2> QED
    BY <1>1, <2>1 DEF RateInv, RateBounded, TakenUntil, Reserve
<1>2. CASE /\ \A q \in stamps : granted[q] <= read[r] + Tolerance
           /\ Cardinality(Recent(r)) < Burst
           /\ granted' = [granted EXCEPT ![r] = read[r]]
           /\ stamps' = Recent(r) \cup {r}
           /\ Replies(r, "reserved")
  <2>1. /\ broker[r] = "timed" /\ read[r] \in Nat /\ read[r] <= clock /\ granted[r] = None
        /\ UNCHANGED <<clock, read>> /\ Tolerance \in Nat /\ Window \in Nat
    BY DEF RateInv, StampsKept, Reserve
  <2>2. /\ granted'[r] = read[r]
        /\ \A q \in Requests : q # r => granted'[q] = granted[q]
    BY <1>2 DEF RateInv, StampsKept
  <2>3. \A q \in Requests : granted[q] # None =>
            /\ granted[q] \in Nat /\ q # r
            /\ q \in Recent(r) \/ granted[q] + Window <= read[r] \/ \E s \in Recent(r) : granted[q] + Window <= granted[s]
    <3> SUFFICES ASSUME NEW q \in Requests, granted[q] # None,
                        q \notin Recent(r), ~(granted[q] + Window <= read[r])
                 PROVE  \E s \in Recent(r) : granted[q] + Window <= granted[s]
      BY <2>1 DEF RateInv, StampsKept
    <3>1. granted[q] \in Nat /\ q \notin stamps
      BY <2>1 DEF RateInv, StampsKept, Recent
    <3>2. PICK s \in stamps : granted[q] + Window <= granted[s]
      BY <3>1 DEF RateInv, StampsKept
    <3>3. granted[s] \in Nat
      BY DEF RateInv, StampsKept
    <3>4. granted[s] + Window > read[r]
      BY <2>1, <3>1, <3>2, <3>3
    <3> QED
      BY <3>2, <3>4 DEF Recent
  <2>4. StampsKept'
    <3>1. /\ (clock \in Nat /\ {read, granted} \subseteq [Requests -> Nat \cup {None}])'
          /\ (broker \in [Requests -> BrokerSteps])'
      BY <1>2, <2>1 DEF RateInv, StampsKept, Replies, BrokerSteps
    <3>2. \A q \in Requests : /\ broker'[q] = "timed" => read'[q] # None /\ read'[q] <= clock'
                              /\ broker'[q] \in {"idle", "counted", "timed"} => granted'[q] = None
      BY <1>2, <2>1, <2>2 DEF RateInv, StampsKept, Replies
    <3>3. \A q \in stamps' : q \in Requests /\ granted'[q] # None
      BY <1>2, <2>1, <2>2 DEF RateInv, StampsKept, Recent
    <3>4. ASSUME NEW q \in Requests, granted'[q] # None
          PROVE  /\ granted'[q] <= clock'
                 /\ q \in stamps' \/ \E s \in stamps' : granted'[q] + Window <= granted'[s]
      <4>1. CASE q = r
        BY <4>1, <1>2, <2>1, <2>2
      <4>2. CASE q # r
        <5>1. granted'[q] = granted[q] /\ granted[q] # None
          BY <4>2, <2>2, <3>4
        <5>2. granted'[q] <= clock'
          BY <5>1, <2>1 DEF RateInv, StampsKept
        <5>3. \A s \in Recent(r) : s \in stamps' /\ granted'[s] = granted[s]
          BY <1>2, <2>1, <2>2 DEF RateInv, StampsKept, Recent
        <5>4. r \in stamps'
          BY <1>2
        <5> QED
          BY <5>1, <5>2, <5>3, <5>4, <2>2, <2>3
      <4> QED
        BY <4>1, <4>2
    <3> QED
      BY <3>1, <3>2, <3>3, <3>4 DEF StampsKept
  <2>5. SUFFICES ASSUME NEW t \in 0..clock
                 PROVE  Cardinality(TakenUntil(t, Tolerance)') <= Burst
    BY <2>1, <2>4 DEF RateInv, RateBounded
  <2>6. CASE r \notin TakenUntil(t, Tolerance)'
    <3>1. TakenUntil(t, Tolerance)' \subseteq TakenUntil(t, Tolerance)
      BY <2>2, <2>6 DEF TakenUntil
    <3>2. Cardinality(TakenUntil(t, Tolerance)) <= Burst
      BY DEF RateInv, RateBounded
    <3> QED
      BY <3>1, <3>2, WindowFinite
  <2>7. CASE r \in TakenUntil(t, Tolerance)'
    <3>1. read[r] <= t
      BY <2>2, <2>7 DEF TakenUntil
    <3>2. ASSUME NEW q \in TakenUntil(t, Tolerance)', q # r PROVE q \in Recent(r)
      <4>1. /\ q \in Requests /\ granted[q] # None /\ t + Tolerance < granted[q] + Window
        BY <2>2, <3>2 DEF TakenUntil
      <4>2. granted[q] \in Nat /\ t \in Nat
        BY <4>1, <2>3, <2>5, <2>1
      <4>3. ~(granted[q] + Window <= read[r])
        BY <4>1, <4>2, <3>1, <2>1
      <4>4. ASSUME NEW s \in Recent(r), granted[q] + Window <= granted[s] PROVE FALSE
        <5>1. granted[s] \in Nat /\ granted[s] <= read[r] + Tolerance
          BY <1>2 DEF RateInv, StampsKept, Recent
        <5> QED
          BY <5>1, <4>4, <4>1, <4>2, <3>1, <2>1
      <4> QED
        BY <4>1, <4>3, <4>4, <2>3
    <3>3. TakenUntil(t, Tolerance)' \subseteq Recent(r) \cup {r}
      BY <3>2
    <3>4. IsFiniteSet(Recent(r)) /\ Cardinality(Recent(r)) \in Nat
      BY FS_Subset, FS_CardinalityType DEF RateInv, StampsKept, Recent
    <3>5. /\ IsFiniteSet(Recent(r) \cup {r})
          /\ Cardinality(Recent(r) \cup {r}) <= Cardinality(Recent(r)) + 1
      <4>1. /\ IsFiniteSet(Recent(r) \cup {r})
            /\ Cardinality(Recent(r) \cup {r}) =
                  IF r \in Recent(r) THEN Cardinality(Recent(r)) ELSE Cardinality(Recent(r)) + 1
        BY <3>4, FS_AddElement
      <4> QED
        BY <3>4, <4>1
    <3>6. /\ Cardinality(TakenUntil(t, Tolerance)') <= Cardinality(Recent(r) \cup {r})
          /\ Cardinality(TakenUntil(t, Tolerance)') \in Nat /\ Cardinality(Recent(r) \cup {r}) \in Nat
      BY <3>3, <3>5, FS_Subset, FS_CardinalityType
    <3> QED
      BY <3>4, <3>5, <3>6, <1>2
  <2> QED
    BY <2>6, <2>7
<1> QED
  BY <1>1, <1>2 DEF Reserve

LEMMA StepKeepsRate ==
    ASSUME RateInv, [BrokerNext]_brokerVars
    PROVE  RateInv'
<1>1. CASE Tick
  BY <1>1, TickKeepsRate
<1>2. ASSUME NEW r \in Requests, Reserve(r) PROVE RateInv'
  BY <1>2, ReserveKeepsRate
<1>3. ASSUME NEW r \in Requests, TakeTime(r) PROVE RateInv'
  BY <1>3, TakeTimeKeepsRate
<1>4. ASSUME UNCHANGED <<clock, read, granted, stamps>>, StampsKept' PROVE RateInv'
  BY <1>4 DEF RateInv, RateBounded, TakenUntil
<1>5. ASSUME NEW r \in Requests, NEW c \in Contents, Count(r, c) PROVE RateInv'
  <2>1. StampsKept'
    BY <1>5 DEF RateInv, StampsKept, Count, Replies, BrokerSteps
  <2> QED
    BY <1>4, <1>5, <2>1 DEF Count
<1>6. ASSUME NEW r \in Requests, Run(r) \/ JobEnds(r) PROVE RateInv'
  <2>1. StampsKept'
    BY <1>6 DEF RateInv, StampsKept, Run, JobEnds, Replies, BrokerSteps
  <2> QED
    BY <1>4, <1>6, <2>1 DEF Run, JobEnds
<1>7. CASE UNCHANGED brokerVars
  <2>1. StampsKept'
    BY <1>7 DEF RateInv, StampsKept, brokerVars
  <2> QED
    BY <1>4, <1>7, <2>1 DEF brokerVars
<1> QED
  BY <1>1, <1>2, <1>3, <1>5, <1>6, <1>7 DEF BrokerNext

\* However many connections are handled at once, and however long each of
\* them waits for the lock: no window shorter than RATE_WINDOW_SECONDS by the
\* tolerated second holds more than Burst stamps.
THEOREM BrokerRateBounded == BrokerSpec => []RateBounded
<1>1. RateInv => RateBounded
  BY DEF RateInv
<1> QED
  BY RateInit, StepKeepsRate, <1>1, PTL DEF BrokerSpec

LEMMA BrokerTypesInit == BrokerInit => BrokerTypeOK
  BY DEF BrokerInit, BrokerTypeOK, BrokerSteps

LEMMA BrokerTypesStep ==
    ASSUME BrokerTypeOK, [BrokerNext]_brokerVars
    PROVE  BrokerTypeOK'
<1> USE BrokerBounds, BrokerRequests DEF BrokerTypeOK
<1>1. CASE UNCHANGED brokerVars
  BY <1>1 DEF brokerVars
<1>2. CASE Tick
  BY <1>2 DEF Tick
<1>3. ASSUME NEW r \in Requests, NEW c \in Contents, Count(r, c) PROVE BrokerTypeOK'
  BY <1>3 DEF Count, Replies, BrokerSteps
<1>4. ASSUME NEW r \in Requests, TakeTime(r) PROVE BrokerTypeOK'
  BY <1>4 DEF TakeTime, Replies, BrokerSteps
<1>7. ASSUME NEW r \in Requests, Reserve(r) PROVE BrokerTypeOK'
  BY <1>7 DEF Reserve, Replies, BrokerSteps, Recent
<1>5. ASSUME NEW r \in Requests, Run(r) PROVE BrokerTypeOK'
  BY <1>5 DEF Run, Replies, BrokerSteps
<1>6. ASSUME NEW r \in Requests, JobEnds(r) PROVE BrokerTypeOK'
  BY <1>6 DEF JobEnds
<1> QED
  BY <1>1, <1>2, <1>3, <1>4, <1>5, <1>6, <1>7 DEF BrokerNext

\* Shape of the rate file, the connections and the units.
THEOREM BrokerTypes == BrokerSpec => []BrokerTypeOK
<1>1. BrokerTypeOK /\ [BrokerNext]_brokerVars => BrokerTypeOK'
  BY BrokerTypesStep
<1> QED
  BY <1>1, BrokerTypesInit, PTL DEF BrokerSpec

-----------------------------------------------------------------------------
(* The review pipeline.                                                      *)

Jobs == [pc : JobSteps, run : 0..2, input : Requests \cup {None}, permanent : BOOLEAN, exit : Exits]
Typed ==
    /\ hook \in [Requests -> [pc : HookSteps, turn : Turns \cup {None}]]
    /\ receipt \in [Turns -> Receipts \cup Torns \cup {None}]
    /\ snapshot \in [Turns -> Requests \cup {None}]
    /\ proposal \in [Turns -> Requests \cup {Torn, None}]
    /\ claim \in [Turns -> Requests \cup {None}]
    /\ job \in [Requests -> Jobs]
    /\ calls \in [Requests -> 0..MaxAttempts]
    /\ mishaps \in 0..MaxMishaps
    /\ broker \in [Requests -> BrokerSteps]
    /\ active \subseteq Requests

\* From its receipt on, until its job is over, a review owns its turn.
Engaged(r) ==
    \/ hook[r].pc \in {"snapshot", "condemn", "submit"}
    \/ broker[r] \in {"counted", "timed", "reserved"}
    \/ r \in active
Settled(r) == mishaps = 0 /\ job[r].pc = "over"
Made(r) == receipt[Turn(r)] # None /\ receipt[Turn(r)].by = r
Owns(r) == Turn(r) \in Turns /\ Made(r) /\ ~receipt[Turn(r)].expired

\* Hook, connection and job come one after the other.
InOrder(r) ==
    /\ hook[r].pc # "idle" => Turn(r) \in Turns
    /\ hook[r].pc # "done" => broker[r] = "idle"
    /\ broker[r] \in {"idle", "counted", "timed", "reserved"} => job[r].pc = "none"
    /\ job[r].pc = "none" => calls[r] = 0
    /\ r \in active <=> job[r].pc \notin {"none", "over"}

\* What a worker has established when it is at a step.
Worker(r) ==
    /\ job[r].pc \in Claimed => claim[Turn(r)] = r
    /\ job[r].pc \in {"attempt", "call", "store", "transition"} => job[r].input = r
    /\ job[r].pc \in {"attempt", "call", "store"} => proposal[Turn(r)] = None
    /\ job[r].pc = "transition" => proposal[Turn(r)] = r
    /\ (Turn(r) \in Turns /\ Made(r)) => calls[r] <= receipt[Turn(r)].attempts
    /\ job[r].pc = "call" => calls[r] < receipt[Turn(r)].attempts

\* What a worker has achieved when nothing but the model has failed.
Undisturbed(r) ==
    LET t == Turn(r) IN
    /\ (hook[r].pc = "submit" \/ broker[r] \in {"counted", "timed", "reserved"} \/ r \in active) => snapshot[t] # None
    /\ r \in active => job[r].run \in {1, 2}
    /\ (r \in active /\ job[r].run = 2) => receipt[t].failed \/ receipt[t].status # "queued"
    /\ (job[r].pc = "release" /\ job[r].exit = "retry") => receipt[t].failed
    /\ (job[r].pc = "release" /\ (job[r].exit # "retry" \/ job[r].run = 2)) => receipt[t].status # "queued"
    /\ job[r].pc = "over" => receipt[t].status # "queued"

Holds(r) ==
    /\ Engaged(r) \/ Settled(r) => Owns(r)
    /\ InOrder(r)
    /\ Worker(r)
    /\ mishaps = 0 => Undisturbed(r)

\* A claim file names a job of its own turn.
ClaimsPlaced == \A t \in Turns : claim[t] # None => Turn(claim[t]) = t /\ hook[claim[t]].pc = "done"

IInv == Typed /\ ClaimsPlaced /\ ReviewedIsBacked /\ \A r \in Requests : Holds(r)

\* What a step of q may do to others and to shared files.
Only(q) ==
    /\ \A r \in Requests \ {q} : /\ hook'[r] = hook[r] /\ broker'[r] = broker[r]
                                 /\ job'[r] = job[r] /\ calls'[r] = calls[r]
                                 /\ r \in active' <=> r \in active
    /\ mishaps' = 0 => mishaps = 0
MovesReceipts(q) ==
    \A t \in Turns :
       \/ receipt'[t] = receipt[t]
       \/ receipt[t] # None /\ receipt[t].expired /\ receipt'[t] = None
       \/ receipt[t] = None /\ receipt'[t] # None /\ receipt'[t].by \in {q, Torn}
       \/ receipt[t] # None /\ receipt[t].by = q /\ receipt'[t] # None /\ receipt'[t].by = q
MovesFiles(q) ==
    /\ MovesReceipts(q)
    /\ \A t \in Turns :
          /\ snapshot'[t] = snapshot[t] \/ snapshot'[t] # None
          /\ (Engaged(q) /\ t = Turn(q)) \/ (proposal'[t] = proposal[t] /\ claim'[t] = claim[t])

USE BrokerBounds, BrokerRequests, ReviewBounds, ReviewNames, FileNames

\* A request that owns its turn keeps its receipt when another one moves.
LEMMA OwnerKeeps ==
    ASSUME IInv, NEW q \in Requests, NEW r \in Requests \ {q}, Only(q), MovesFiles(q), Owns(r)
    PROVE  Owns(r)' /\ receipt'[Turn(r)] = receipt[Turn(r)]
BY DEF IInv, Typed, Owns, Made, Only, MovesFiles, MovesReceipts, Turn, Receipts, Torns

\* A step of q leaves what holds of another request alone.
LEMMA Others ==
    ASSUME IInv, NEW q \in Requests, NEW r \in Requests \ {q}, Only(q), MovesFiles(q)
    PROVE  Holds(r)'
<1>1. Engaged(r)' <=> Engaged(r)
  BY DEF Only, Engaged
<1>2. Settled(r)' => Settled(r)
  BY DEF Only, Settled
<1>3. Turn(r)' = Turn(r)
  BY DEF Only, Turn
<1>4. Holds(r)
  BY DEF IInv
<1>5. InOrder(r)'
  BY <1>3, <1>4 DEF Only, InOrder, Holds
<1>6. CASE Owns(r)
  <2>1. Owns(r)' /\ receipt'[Turn(r)] = receipt[Turn(r)]
    BY <1>6, OwnerKeeps
  <2>2. Worker(r)'
    <3>1. CASE job[r].pc \in Claimed
      <4>1. r \in active
        BY <3>1, <1>4 DEF Holds, InOrder, Claimed
      <4>2. proposal'[Turn(r)] = proposal[Turn(r)] /\ claim'[Turn(r)] = claim[Turn(r)]
        <5>1. Owns(r) /\ (Engaged(q) => Owns(q))
          BY <1>6 DEF IInv, Holds
        <5> QED
          BY <5>1 DEF MovesFiles, Owns, Made
      <4> QED
        BY <4>2, <2>1, <1>3, <1>4 DEF Holds, Worker, Only, Made
    <3>2. CASE job[r].pc \notin Claimed
      BY <3>2, <2>1, <1>3, <1>4 DEF Holds, Worker, Only, Made, Claimed
    <3> QED
      BY <3>1, <3>2
  <2>3. mishaps' = 0 => Undisturbed(r)'
    BY <2>1, <1>3, <1>4, <1>6 DEF Holds, Undisturbed, Only, MovesFiles, Owns
  <2> QED
    BY <1>5, <2>1, <2>2, <2>3 DEF Holds
<1>7. CASE ~Owns(r)
  <2>1. ~Engaged(r) /\ ~Settled(r)
    BY <1>7, <1>4 DEF Holds
  <2>2. job[r].pc \in {"none", "over"}
    BY <2>1, <1>4 DEF Holds, InOrder, Engaged
  <2>3. Worker(r)'
    BY <2>2, <1>3, <1>4 DEF IInv, Typed, Holds, Worker, Only, Made, Claimed, MovesFiles, MovesReceipts
  <2>4. mishaps' = 0 => Undisturbed(r)'
    BY <2>1, <2>2, <1>3 DEF Undisturbed, Only, Engaged, Settled
  <2> QED
    BY <1>1, <1>2, <2>1, <1>5, <2>3, <2>4 DEF Holds
<1> QED
  BY <1>6, <1>7

\* A step of q preserves IInv if it preserves what concerns q and the files.
LEMMA Keep ==
    ASSUME IInv, NEW q \in Requests, Only(q), MovesFiles(q), Typed', ClaimsPlaced',
           ReviewedIsBacked', Holds(q)'
    PROVE  IInv'
BY Others DEF IInv

\* What IInv says of a turn that q owns.
LEMMA OwnerFacts ==
    ASSUME IInv, NEW q \in Requests, Engaged(q)
    PROVE  /\ Turn(q) \in Turns
           /\ receipt[Turn(q)] \in Receipts /\ receipt[Turn(q)] # None
           /\ receipt[Turn(q)].by = q /\ ~receipt[Turn(q)].expired
BY DEF IInv, Holds, Owns, Made, Typed, Receipts, Torns

\* The fields of a receipt.
LEMMA ReceiptFacts ==
    ASSUME NEW f \in Receipts \cup Torns
    PROVE  /\ f # None /\ f.attempts \in Nat
           /\ f.by \in Requests \/ f.status = "torn"
<1>1. CASE f \in Receipts
  BY <1>1 DEF Receipts
<1>2. CASE f \in Torns
  <2>1. f.status = "torn" /\ f.attempts = 0
    BY <1>2 DEF Torns
  <2> QED
    BY <1>2, <2>1
<1> QED
  BY <1>1, <1>2

-----------------------------------------------------------------------------
(* The hook.                                                                *)

\* A hook that has not ended has no connection, no job and no model call.
LEMMA HookRuns ==
    ASSUME IInv, NEW q \in Requests, hook[q].pc # "done"
    PROVE  /\ broker[q] = "idle" /\ job[q].pc = "none" /\ calls[q] = 0 /\ q \notin active
           /\ hook[q].pc # "idle" => Turn(q) \in Turns
BY DEF IInv, Holds, InOrder

\* What HookGoes assigns.
LEMMA HookMoves ==
    ASSUME IInv, NEW q \in Requests, NEW pc \in HookSteps, HookGoes(q, pc)
    PROVE  /\ hook' \in [Requests -> [pc : HookSteps, turn : Turns \cup {None}]]
           /\ hook'[q].pc = pc
           /\ \A r \in Requests \ {q} : hook'[r] = hook[r]
           /\ \A r \in Requests : Turn(r)' = Turn(r)
BY DEF IInv, Typed, HookGoes, Turn

\* What a hook has to preserve for itself.
LEMMA HookHolds ==
    ASSUME IInv, NEW q \in Requests, hook[q].pc # "done",
           UNCHANGED <<broker, job, calls, active>>, Typed',
           Turn(q)' \in Turns, hook'[q].pc # "idle",
           hook'[q].pc \in {"snapshot", "condemn", "submit"} => Owns(q)',
           hook'[q].pc = "submit" => snapshot'[Turn(q)'] # None
    PROVE  Holds(q)'
<1>1. /\ broker'[q] = "idle" /\ job'[q].pc = "none" /\ calls'[q] = 0 /\ q \notin active'
  BY HookRuns
<1>2. Engaged(q)' \/ Settled(q)' => Owns(q)'
  BY <1>1 DEF Engaged, Settled
<1>3. InOrder(q)'
  BY <1>1 DEF InOrder
<1>4. Worker(q)'
  <2>1. Made(q)' => 0 <= receipt'[Turn(q)'].attempts
    <3> SUFFICES ASSUME receipt'[Turn(q)'] # None PROVE 0 <= receipt'[Turn(q)'].attempts
      BY DEF Made
    <3>1. receipt'[Turn(q)'] \in Receipts \cup Torns
      BY DEF Typed
    <3> QED
      BY <3>1, ReceiptFacts
  <2> QED
    BY <1>1, <2>1 DEF Worker, Claimed
<1>5. Undisturbed(q)'
  BY <1>1 DEF Undisturbed
<1> QED
  BY <1>2, <1>3, <1>4, <1>5 DEF Holds

\* A step of a hook that leaves the claims, proposals and jobs alone.
LEMMA HookKeeps ==
    ASSUME IInv, NEW q \in Requests, NEW pc \in HookSteps \ {"idle"},
           hook[q].pc \notin {"idle", "done"}, HookGoes(q, pc),
           UNCHANGED <<broker, job, calls, active, proposal, claim>>,
           MovesReceipts(q), receipt' \in [Turns -> Receipts \cup Torns \cup {None}],
           \A t \in Turns : receipt'[t] # None /\ receipt'[t].status = "reviewed" => receipt'[t] = receipt[t],
           snapshot' \in [Turns -> Requests \cup {None}],
           \A t \in Turns : snapshot'[t] = snapshot[t] \/ snapshot'[t] # None,
           mishaps' \in 0..MaxMishaps, mishaps' = 0 => mishaps = 0,
           pc \in {"snapshot", "condemn", "submit"} =>
              receipt'[Turn(q)] # None /\ receipt'[Turn(q)].by = q /\ ~receipt'[Turn(q)].expired,
           pc = "submit" => snapshot'[Turn(q)] # None
    PROVE  IInv'
<1>1. Typed'
  BY HookMoves DEF IInv, Typed
<1>2. Only(q)
  BY HookMoves DEF Only
<1>3. MovesFiles(q)
  BY DEF MovesFiles
<1>4. ClaimsPlaced'
  <2> SUFFICES ASSUME NEW t \in Turns, claim[t] # None
               PROVE  Turn(claim[t])' = t /\ hook'[claim[t]].pc = "done"
    BY DEF ClaimsPlaced
  <2>1. claim[t] \in Requests /\ Turn(claim[t]) = t /\ hook[claim[t]].pc = "done"
    BY DEF IInv, Typed, ClaimsPlaced
  <2> QED
    BY <2>1, HookMoves
<1>5. ReviewedIsBacked'
  BY DEF IInv, ReviewedIsBacked, Stands
<1>6. Holds(q)'
  <2>1. Turn(q)' = Turn(q) /\ Turn(q) \in Turns /\ hook'[q].pc = pc
    BY HookMoves, HookRuns
  <2>2. pc \in {"snapshot", "condemn", "submit"} => Owns(q)'
    BY <2>1 DEF Owns, Made
  <2> QED
    BY <1>1, <2>1, <2>2, HookHolds
<1> QED
  BY <1>1, <1>2, <1>3, <1>4, <1>5, <1>6, Keep

\* Action Stop preserves the invariant.
LEMMA StopStep == ASSUME IInv, NEW q \in Requests, NEW t \in Turns, Stop(q, t) PROVE IInv'
<1>1. /\ hook[q].pc = "idle" /\ hook'[q].turn = t /\ hook'[q].pc \in {"gather", "done"}
      /\ \A r \in Requests \ {q} : hook'[r] = hook[r]
      /\ hook' \in [Requests -> [pc : HookSteps, turn : Turns \cup {None}]]
      /\ UNCHANGED <<broker, active, receipt, snapshot, proposal, claim, job, calls, mishaps>>
  BY DEF IInv, Typed, Stop, HookSteps, brokerVars, files
<1>2. Typed'
  BY <1>1 DEF IInv, Typed
<1>3. Only(q) /\ MovesFiles(q)
  BY <1>1 DEF Only, MovesFiles, MovesReceipts
<1>4. ClaimsPlaced'
  <2> SUFFICES ASSUME NEW u \in Turns, claim[u] # None
               PROVE  Turn(claim[u])' = u /\ hook'[claim[u]].pc = "done"
    BY <1>1 DEF ClaimsPlaced
  <2>1. claim[u] \in Requests /\ Turn(claim[u]) = u /\ hook[claim[u]].pc = "done"
    BY DEF IInv, Typed, ClaimsPlaced
  <2> QED
    BY <2>1, <1>1 DEF Turn
<1>5. ReviewedIsBacked'
  BY <1>1 DEF IInv, ReviewedIsBacked, Stands
<1>6. Holds(q)'
  BY <1>1, <1>2, HookHolds DEF Turn
<1> QED
  BY <1>2, <1>3, <1>4, <1>5, <1>6, Keep

\* Action Gather preserves the invariant.
LEMMA GatherStep == ASSUME IInv, NEW q \in Requests, Gather(q) PROVE IInv'
<1>1. PICK pc \in {"look", "done"} : HookGoes(q, pc)
  BY DEF Gather
<1>2. hook[q].pc = "gather" /\ UNCHANGED <<broker, active, receipt, snapshot, proposal, claim, job, calls, mishaps>>
  BY DEF Gather, brokerVars, files
<1> QED
  BY <1>1, <1>2, HookKeeps DEF IInv, Typed, HookSteps, MovesReceipts

\* Action Look preserves the invariant: only expired receipts go.
LEMMA LookStep == ASSUME IInv, NEW q \in Requests, Look(q) PROVE IInv'
<1>1. PICK pc \in {"open", "done"} : HookGoes(q, pc)
  BY DEF Look
<1>2. hook[q].pc = "look" /\ UNCHANGED <<broker, active, snapshot, proposal, claim, job, calls, mishaps>>
  BY DEF Look, brokerVars
<1>3. receipt \in [Turns -> Receipts \cup Torns \cup {None}]
  BY DEF IInv, Typed
<1>4. receipt' \in [Turns -> Receipts \cup Torns \cup {None}]
  BY <1>3 DEF Look
<1>5. \A t \in Turns : receipt'[t] = receipt[t] \/ (receipt[t] # None /\ receipt[t].expired /\ receipt'[t] = None)
  BY <1>3 DEF Look, Live, Stands
<1>6. MovesReceipts(q)
  BY <1>5 DEF MovesReceipts
<1> QED
  BY <1>1, <1>2, <1>4, <1>5, <1>6, HookKeeps DEF IInv, Typed, HookSteps

\* The receipt of a killed hook.
LEMMA TornTyped == TornReceipt \in Torns /\ TornReceipt.by = Torn /\ TornReceipt.status = "torn"
<1>1. [by |-> Torn, status |-> "torn", attempts |-> 0, failed |-> FALSE, expired |-> FALSE] \in Torns
  BY DEF Torns
<1> QED
  BY <1>1 DEF TornReceipt, Torns

\* Action Open preserves the invariant: O_EXCL makes q the owner.
LEMMA OpenStep == ASSUME IInv, NEW q \in Requests, Open(q) PROVE IInv'
<1> DEFINE t == Turn(q)
<1>1. hook[q].pc = "open" /\ UNCHANGED <<broker, active, snapshot, proposal, claim, job, calls>>
  BY DEF Open, brokerVars
<1>2. t \in Turns
  BY <1>1, HookRuns
<1>3. mishaps' \in 0..MaxMishaps /\ (mishaps' = 0 => mishaps = 0)
  BY DEF IInv, Typed, Open, Mishap, Works
<1>4. receipt \in [Turns -> Receipts \cup Torns \cup {None}]
  BY DEF IInv, Typed
<1>5. /\ NewReceipt(q) \in Receipts /\ NewReceipt(q).by = q /\ NewReceipt(q).status = "queued"
      /\ ~NewReceipt(q).expired /\ NewReceipt(q) # None
  <2>1. 0 \in 0..MaxAttempts
    BY DEF Receipts
  <2>2. NewReceipt(q) \in Receipts
    BY <2>1 DEF NewReceipt, Receipts
  <2> QED
    BY <2>2 DEF NewReceipt
<1>6. TornReceipt # None
  BY TornTyped
<1>7. CASE UNCHANGED receipt /\ HookGoes(q, "done")
  BY <1>1, <1>3, <1>4, <1>7, HookKeeps DEF IInv, Typed, HookSteps, MovesReceipts
<1>8. CASE receipt[t] = None /\ receipt' = [receipt EXCEPT ![t] = NewReceipt(q)] /\ HookGoes(q, "snapshot")
  <2>1. receipt' \in [Turns -> Receipts \cup Torns \cup {None}] /\ receipt'[t] = NewReceipt(q)
        /\ \A u \in Turns \ {t} : receipt'[u] = receipt[u]
    BY <1>2, <1>4, <1>5, <1>8
  <2>2. MovesReceipts(q)
    BY <1>5, <1>8, <2>1 DEF MovesReceipts
  <2> QED
    BY <1>1, <1>3, <1>5, <1>8, <2>1, <2>2, HookKeeps DEF IInv, Typed, HookSteps
<1>9. ASSUME receipt[t] = None, HookGoes(q, "done"), NEW f \in {None, TornReceipt, NewReceipt(q)},
             receipt' = [receipt EXCEPT ![t] = f]
      PROVE  IInv'
  <2>1. receipt' \in [Turns -> Receipts \cup Torns \cup {None}] /\ receipt'[t] = f
        /\ \A u \in Turns \ {t} : receipt'[u] = receipt[u]
    BY <1>2, <1>4, <1>5, <1>9, TornTyped
  <2>2. MovesReceipts(q)
    BY <1>5, <1>6, <1>9, <2>1, TornTyped DEF MovesReceipts
  <2>3. \A u \in Turns : receipt'[u] # None /\ receipt'[u].status = "reviewed" => receipt'[u] = receipt[u]
    BY <1>5, <2>1, TornTyped
  <2> QED
    BY <1>1, <1>3, <1>9, <2>1, <2>2, <2>3, HookKeeps DEF IInv, Typed, HookSteps
<1> QED
  BY <1>7, <1>8, <1>9 DEF Open, Exists

\* Action WriteSnapshot preserves the invariant.
LEMMA WriteSnapshotStep == ASSUME IInv, NEW q \in Requests, WriteSnapshot(q) PROVE IInv'
<1>1. /\ hook[q].pc = "snapshot"
      /\ UNCHANGED <<broker, active, receipt, proposal, claim, job, calls>>
  BY DEF WriteSnapshot, brokerVars
<1>2. PICK pc \in {"submit", "condemn"} :
        HookGoes(q, pc) /\ (pc = "submit" => snapshot' = [snapshot EXCEPT ![Turn(q)] = q])
  BY DEF WriteSnapshot
<1>3. snapshot' \in {snapshot, [snapshot EXCEPT ![Turn(q)] = q]}
  BY DEF WriteSnapshot
<1>4. mishaps' \in 0..MaxMishaps /\ (mishaps' = 0 => mishaps = 0)
  BY DEF IInv, Typed, WriteSnapshot, Mishap, Works
<1>5. Engaged(q)
  BY <1>1 DEF Engaged
<1>6. /\ Turn(q) \in Turns
      /\ receipt[Turn(q)] # None /\ receipt[Turn(q)].by = q /\ ~receipt[Turn(q)].expired
  BY <1>5, OwnerFacts
<1>7. snapshot' \in [Turns -> Requests \cup {None}] /\ \A t \in Turns : snapshot'[t] = snapshot[t] \/ snapshot'[t] # None
  BY <1>3, <1>6 DEF IInv, Typed
<1>8. pc = "submit" => snapshot'[Turn(q)] # None
  BY <1>2, <1>6 DEF IInv, Typed
<1>9. MovesReceipts(q) /\ receipt' \in [Turns -> Receipts \cup Torns \cup {None}]
  BY <1>1 DEF IInv, Typed, MovesReceipts
<1> QED
  BY <1>1, <1>2, <1>4, <1>6, <1>7, <1>8, <1>9, HookKeeps DEF HookSteps

\* Action Condemn preserves the invariant.
LEMMA CondemnStep == ASSUME IInv, NEW q \in Requests, Condemn(q) PROVE IInv'
<1>1. /\ hook[q].pc = "condemn" /\ HookGoes(q, "done")
      /\ UNCHANGED <<broker, active, snapshot, proposal, claim, job, calls>>
  BY DEF Condemn, brokerVars
<1>2. receipt' \in {receipt, [receipt EXCEPT ![Turn(q)].status = "failed"]}
  BY DEF Condemn
<1>3. mishaps' \in 0..MaxMishaps /\ (mishaps' = 0 => mishaps = 0)
  BY DEF IInv, Typed, Condemn, Mishap, Works
<1>4. Engaged(q)
  BY <1>1 DEF Engaged
<1>5. /\ Turn(q) \in Turns /\ receipt[Turn(q)] \in Receipts /\ receipt[Turn(q)] # None
      /\ receipt[Turn(q)].by = q
  BY <1>4, OwnerFacts
<1>6. /\ receipt' \in [Turns -> Receipts \cup Torns \cup {None}]
      /\ \A t \in Turns : \/ receipt'[t] = receipt[t]
                          \/ t = Turn(q) /\ receipt'[t] \in Receipts /\ receipt'[t].by = q /\ receipt'[t].status = "failed"
  <2>1. receipt \in [Turns -> Receipts \cup Torns \cup {None}]
    BY DEF IInv, Typed
  <2>2. CASE UNCHANGED receipt
    BY <2>1, <2>2
  <2>3. CASE receipt' = [receipt EXCEPT ![Turn(q)].status = "failed"]
    <3> DEFINE f == [receipt[Turn(q)] EXCEPT !.status = "failed"]
    <3>1. f \in Receipts /\ f.by = q /\ f.status = "failed"
      BY <1>5 DEF Receipts
    <3>2. receipt' = [receipt EXCEPT ![Turn(q)] = f]
      BY <2>3
    <3> HIDE DEF f
    <3> QED
      BY <2>1, <3>1, <3>2, <1>5
  <2> QED
    BY <1>2, <2>2, <2>3
<1>7. MovesReceipts(q)
  BY <1>5, <1>6 DEF MovesReceipts
<1> QED
  BY <1>1, <1>3, <1>6, <1>7, HookKeeps DEF IInv, Typed, HookSteps

\* Action HookDies preserves the invariant.
LEMMA HookDiesStep == ASSUME IInv, NEW q \in Requests, HookDies(q) PROVE IInv'
<1>1. /\ hook[q].pc \notin {"idle", "done"} /\ HookGoes(q, "done")
      /\ UNCHANGED <<broker, active, receipt, snapshot, proposal, claim, job, calls>>
  BY DEF HookDies, brokerVars, files
<1>2. mishaps' \in 0..MaxMishaps /\ (mishaps' = 0 => mishaps = 0)
  BY DEF IInv, Typed, HookDies, Mishap
<1> QED
  BY <1>1, <1>2, HookKeeps DEF IInv, Typed, HookSteps, MovesReceipts

-----------------------------------------------------------------------------
(* The broker.                                                              *)

\* The fields of a job.
LEMMA JobFields ==
    ASSUME IInv, NEW q \in Requests
    PROVE  /\ job \in [Requests -> Jobs] /\ job[q] \in Jobs
           /\ job[q].pc \in JobSteps /\ job[q].run \in 0..2 /\ job[q].input \in Requests \cup {None}
           /\ job[q].permanent \in BOOLEAN /\ job[q].exit \in Exits
<1>1. job \in [Requests -> Jobs]
  BY DEF IInv, Typed
<1> QED
  BY <1>1 DEF Jobs

\* What JobGoes assigns.
LEMMA GoesAssigns ==
    ASSUME IInv, NEW q \in Requests, NEW pc \in JobSteps,
           JobGoes(q, pc)
    PROVE  /\ job' \in [Requests -> Jobs]
           /\ job'[q].pc = pc /\ job'[q].run = job[q].run /\ job'[q].input = job[q].input
           /\ job'[q].permanent = job[q].permanent /\ job'[q].exit = job[q].exit
           /\ \A r \in Requests \ {q} : job'[r] = job[r]
BY JobFields DEF Jobs, JobGoes

\* What JobFails assigns.
LEMMA FailsAssigns ==
    ASSUME IInv, NEW q \in Requests, NEW permanent \in BOOLEAN,
           JobFails(q, permanent)
    PROVE  /\ job' \in [Requests -> Jobs]
           /\ job'[q].pc = "failing" /\ job'[q].run = job[q].run /\ job'[q].input = job[q].input
           /\ job'[q].permanent = permanent /\ job'[q].exit = job[q].exit
           /\ \A r \in Requests \ {q} : job'[r] = job[r]
BY JobFields DEF Jobs, JobFails, JobSteps

\* What Leaves assigns.
LEMMA LeavesAssigns ==
    ASSUME IInv, NEW q \in Requests, NEW exit \in Exits,
           Leaves(q, exit)
    PROVE  /\ job' \in [Requests -> Jobs]
           /\ job'[q].pc = "release" /\ job'[q].run = job[q].run /\ job'[q].input = job[q].input
           /\ job'[q].permanent = job[q].permanent /\ job'[q].exit = exit
           /\ \A r \in Requests \ {q} : job'[r] = job[r]
BY JobFields DEF Jobs, Leaves, JobSteps

\* What the start of a job assigns.
LEMMA StartAssigns ==
    ASSUME IInv, NEW q \in Requests, 
           job' = [job EXCEPT ![q].pc = "spawn", ![q].run = 1]
    PROVE  /\ job' \in [Requests -> Jobs]
           /\ job'[q].pc = "spawn" /\ job'[q].run = 1 /\ job'[q].input = job[q].input
           /\ job'[q].permanent = job[q].permanent /\ job'[q].exit = job[q].exit
           /\ \A r \in Requests \ {q} : job'[r] = job[r]
BY JobFields DEF Jobs, JobSteps

\* What the start of a worker assigns.
LEMMA InputAssigns ==
    ASSUME IInv, NEW q \in Requests, NEW input \in Requests \cup {None},
           job' = [job EXCEPT ![q].pc = "claim", ![q].input = input]
    PROVE  /\ job' \in [Requests -> Jobs]
           /\ job'[q].pc = "claim" /\ job'[q].run = job[q].run /\ job'[q].input = input
           /\ job'[q].permanent = job[q].permanent /\ job'[q].exit = job[q].exit
           /\ \A r \in Requests \ {q} : job'[r] = job[r]
BY JobFields DEF Jobs, JobSteps

\* IInv speaks of these variables alone.
LEMMA StutterStep ==
    ASSUME IInv, UNCHANGED <<hook, files, job, calls, mishaps, broker, active>>
    PROVE  IInv'
<1>1. Typed' /\ ClaimsPlaced' /\ ReviewedIsBacked'
  BY DEF IInv, Typed, ClaimsPlaced, ReviewedIsBacked, Stands, Turn, files
<1>2. ASSUME NEW r \in Requests PROVE Holds(r)'
  BY DEF IInv, Holds, Engaged, Settled, Owns, Made, InOrder, Worker, Undisturbed, Turn, files
<1> QED
  BY <1>1, <1>2 DEF IInv

\* A step of the connection of q that leaves the files alone.
LEMMA ConnectionKeeps ==
    ASSUME IInv, NEW q \in Requests, NEW step \in BrokerSteps \ {"idle"}, Engaged(q),
           broker' = [broker EXCEPT ![q] = step],
           job[q].pc = "none", hook'[q].pc = "done",
           hook' \in [Requests -> [pc : HookSteps, turn : Turns \cup {None}]],
           \A r \in Requests : Turn(r)' = Turn(r) /\ (r # q => hook'[r] = hook[r]),
           UNCHANGED <<files, calls, mishaps>>,
           snapshot[Turn(q)] # None \/ mishaps # 0,
           \/ UNCHANGED <<job, active>>
           \/ /\ step \in {"scheduled", "rejected"} /\ active' = active \cup {q}
              /\ job' = [job EXCEPT ![q].pc = "spawn", ![q].run = 1]
    PROVE  IInv'
<1>0. /\ job' \in [Requests -> Jobs] /\ \A r \in Requests \ {q} : job'[r] = job[r]
      /\ \/ UNCHANGED <<job, active>>
         \/ /\ step \in {"scheduled", "rejected"} /\ active' = active \cup {q}
            /\ job'[q].pc = "spawn" /\ job'[q].run = 1
  <2>1. CASE UNCHANGED <<job, active>>
    BY <2>1, JobFields
  <2>2. CASE /\ step \in {"scheduled", "rejected"} /\ active' = active \cup {q}
             /\ job' = [job EXCEPT ![q].pc = "spawn", ![q].run = 1]
    <3>2. job' \in [Requests -> Jobs] /\ job'[q].pc = "spawn" /\ job'[q].run = 1
          /\ \A r \in Requests \ {q} : job'[r] = job[r]
      BY <2>2, StartAssigns
    <3> QED
      BY <2>2, <3>2
  <2> QED
    BY <2>1, <2>2
<1>1. Typed'
  <2>1. broker' \in [Requests -> BrokerSteps] /\ active' \subseteq Requests
    BY DEF IInv, Typed
  <2> QED
    BY <1>0, <2>1 DEF IInv, Typed, files
<1>2. Only(q) /\ MovesFiles(q)
  BY <1>0 DEF IInv, Typed, Only, MovesFiles, MovesReceipts, files
<1>3. ClaimsPlaced' /\ ReviewedIsBacked'
  BY DEF IInv, Typed, ClaimsPlaced, ReviewedIsBacked, Stands, files
<1>4. /\ Turn(q)' = Turn(q) /\ Turn(q) \in Turns
      /\ receipt[Turn(q)] # None /\ receipt[Turn(q)].by = q /\ ~receipt[Turn(q)].expired
  BY OwnerFacts
<1>5. Owns(q)'
  BY <1>4 DEF Owns, Made, files
<1>6. Holds(q)
  BY DEF IInv
<1>7. /\ broker'[q] = step
      /\ \/ job'[q] = job[q] /\ (q \in active' <=> q \in active)
         \/ step \in {"scheduled", "rejected"} /\ job'[q].pc = "spawn" /\ job'[q].run = 1 /\ q \in active'
  BY <1>0 DEF IInv, Typed
<1>8. InOrder(q)' /\ Worker(q)'
  BY <1>4, <1>6, <1>7 DEF Holds, InOrder, Worker, Made, Claimed, files
<1>9. mishaps' = 0 => Undisturbed(q)'
  BY <1>4, <1>6, <1>7 DEF Holds, InOrder, Undisturbed, files
<1> QED
  BY <1>1, <1>2, <1>3, <1>5, <1>8, <1>9, Keep DEF Holds

\* Action Submit preserves the invariant: the turn passes to the connection.
LEMMA SubmitStep == ASSUME IInv, NEW q \in Requests, Submit(q) PROVE IInv'
<1>1. hook[q].pc = "submit" /\ HookGoes(q, "done") /\ UNCHANGED <<files, job, calls, mishaps>>
  BY DEF Submit
<1>2. PICK step \in {"counted", "rejected"} : broker' = [broker EXCEPT ![q] = step]
  BY DEF Submit, Count, Replies
<1>3. UNCHANGED active
  BY DEF Submit, Count
<1>4. Engaged(q) /\ job[q].pc = "none"
  BY <1>1, HookRuns DEF Engaged
<1>5. snapshot[Turn(q)] # None \/ mishaps # 0
  BY <1>1 DEF IInv, Holds, Undisturbed
<1> QED
  BY <1>1, <1>2, <1>3, <1>4, <1>5, HookMoves, ConnectionKeeps DEF HookSteps, BrokerSteps

\* What holds of a connection at work.
LEMMA ConnectionRuns ==
    ASSUME IInv, NEW q \in Requests, broker[q] \in {"counted", "timed", "reserved"}
    PROVE  /\ Engaged(q) /\ job[q].pc = "none" /\ hook[q].pc = "done"
           /\ snapshot[Turn(q)] # None \/ mishaps # 0
BY DEF IInv, Holds, InOrder, Engaged, Undisturbed

\* Actions TakeTime and Reserve preserve the invariant.
LEMMA ReserveStep ==
    ASSUME IInv, NEW q \in Requests, TakeTime(q) \/ Reserve(q), UNCHANGED reviewVars
    PROVE  IInv'
<1>1. broker[q] \in {"counted", "timed"} /\ UNCHANGED <<active, hook, files, job, calls, mishaps>>
  BY DEF TakeTime, Reserve, reviewVars
<1>2. PICK step \in {"timed", "reserved", "rejected"} : broker' = [broker EXCEPT ![q] = step]
  BY DEF TakeTime, Reserve, Replies
<1>3. /\ hook' \in [Requests -> [pc : HookSteps, turn : Turns \cup {None}]]
      /\ \A r \in Requests : Turn(r)' = Turn(r) /\ hook'[r] = hook[r]
  BY <1>1 DEF IInv, Typed, Turn
<1> QED
  BY <1>1, <1>2, <1>3, ConnectionRuns, ConnectionKeeps DEF BrokerSteps

\* Action RunJob preserves the invariant: the turn passes to the job.
LEMMA RunJobStep == ASSUME IInv, NEW q \in Requests, RunJob(q) PROVE IInv'
<1>1. broker[q] = "reserved" /\ UNCHANGED <<hook, files, calls, mishaps>>
  BY DEF RunJob, Run
<1>2. PICK step \in {"scheduled", "rejected"} : broker' = [broker EXCEPT ![q] = step]
  BY DEF RunJob, Run, Replies
<1>3. /\ hook' \in [Requests -> [pc : HookSteps, turn : Turns \cup {None}]]
      /\ \A r \in Requests : Turn(r)' = Turn(r) /\ hook'[r] = hook[r]
  BY <1>1 DEF IInv, Typed, Turn
<1>4. q \notin active
  BY <1>1 DEF IInv, Holds, InOrder
<1>5. \/ UNCHANGED <<job, active>>
      \/ active' = active \cup {q} /\ job' = [job EXCEPT ![q].pc = "spawn", ![q].run = 1]
  BY <1>4 DEF RunJob, Run
<1> QED
  BY <1>1, <1>2, <1>3, <1>5, ConnectionRuns, ConnectionKeeps DEF BrokerSteps

-----------------------------------------------------------------------------
(* The job.                                                                 *)

\* Mishaps are counted.
LEMMA MishapsCounted ==
    ASSUME IInv, Mishap \/ Works
    PROVE  mishaps' \in 0..MaxMishaps /\ (mishaps' = 0 => mishaps = 0 /\ Works)
BY DEF IInv, Typed, Mishap, Works

\* What holds of a job under way.
LEMMA JobRuns ==
    ASSUME IInv, NEW q \in Requests, job[q].pc \notin {"none", "over"}
    PROVE  /\ q \in active /\ Engaged(q) /\ hook[q].pc = "done"
           /\ broker[q] \notin {"idle", "counted", "timed", "reserved"}
           /\ Worker(q) /\ (mishaps = 0 => Undisturbed(q))
           /\ calls \in [Requests -> 0..MaxAttempts]
BY DEF IInv, Typed, Holds, InOrder, Engaged

\* One review at a time: nobody else is at work on the turn of a job.
LEMMA NobodyElse ==
    ASSUME IInv, NEW q \in Requests, job[q].pc \notin {"none", "over"}
    PROVE  ~Busy(Turn(q), q)
<1> SUFFICES ASSUME NEW r \in Requests \ {q}, claim[Turn(q)] = r, job[r].pc \in Claimed
             PROVE  FALSE
  BY DEF Busy
<1>1. Turn(q) \in Turns /\ receipt[Turn(q)].by = q
  BY JobRuns, OwnerFacts
<1>2. Turn(r) = Turn(q)
  BY <1>1 DEF IInv, ClaimsPlaced
<1>3. receipt[Turn(r)].by = r
  BY JobRuns, OwnerFacts DEF Claimed
<1> QED
  BY <1>1, <1>2, <1>3

\* What a job has to preserve for itself.
LEMMA JobHolds ==
    ASSUME IInv, NEW q \in Requests, job[q].pc \notin {"none", "over"},
           UNCHANGED <<hook, broker>>, Owns(q)', job'[q].pc # "none",
           q \in active' <=> job'[q].pc # "over",
           Worker(q)', mishaps' = 0 => Undisturbed(q)'
    PROVE  Holds(q)'
<1>1. InOrder(q)'
  BY JobRuns, OwnerFacts DEF InOrder, Turn
<1> QED
  BY <1>1 DEF Holds

\* A step of a job moves the files of its own turn only.
LEMMA JobKeeps ==
    ASSUME IInv, NEW q \in Requests, job[q].pc \notin {"none", "over"},
           UNCHANGED <<hook, broker, snapshot>>,
           job' \in [Requests -> Jobs], \A r \in Requests \ {q} : job'[r] = job[r],
           calls' \in [Requests -> 0..MaxAttempts], \A r \in Requests \ {q} : calls'[r] = calls[r],
           active' \in {active, active \ {q}}, job'[q].pc # "none", q \in active' <=> job'[q].pc # "over",
           mishaps' \in 0..MaxMishaps, mishaps' = 0 => mishaps = 0,
           receipt' \in [Turns -> Receipts \cup Torns \cup {None}],
           proposal' \in [Turns -> Requests \cup {Torn, None}],
           claim' \in [Turns -> Requests \cup {None}],
           \A t \in Turns \ {Turn(q)} : receipt'[t] = receipt[t] /\ proposal'[t] = proposal[t] /\ claim'[t] = claim[t],
           receipt'[Turn(q)] # None, receipt'[Turn(q)].by = q, ~receipt'[Turn(q)].expired,
           receipt'[Turn(q)].status = "reviewed" => proposal'[Turn(q)] = q,
           claim'[Turn(q)] \in {claim[Turn(q)], q, None},
           Worker(q)', mishaps' = 0 => Undisturbed(q)'
    PROVE  IInv'
<1>1. /\ Turn(q)' = Turn(q) /\ Turn(q) \in Turns /\ hook[q].pc = "done" /\ Engaged(q)
      /\ receipt[Turn(q)] # None /\ receipt[Turn(q)].by = q
  BY JobRuns, OwnerFacts DEF Turn
<1>2. Typed'
  BY DEF IInv, Typed
<1>3. Only(q)
  BY DEF Only
<1>4. MovesFiles(q)
  <2>1. MovesReceipts(q)
    <3> SUFFICES ASSUME NEW t \in Turns, receipt'[t] # receipt[t]
                 PROVE  receipt[t] # None /\ receipt[t].by = q /\ receipt'[t] # None /\ receipt'[t].by = q
      BY DEF MovesReceipts
    <3> QED
      BY <1>1
  <2>2. \A t \in Turns : t # Turn(q) => proposal'[t] = proposal[t] /\ claim'[t] = claim[t]
    OBVIOUS
  <2>3. \A t \in Turns : snapshot'[t] = snapshot[t]
    OBVIOUS
  <2>4. \A t \in Turns : (Engaged(q) /\ t = Turn(q)) \/ (proposal'[t] = proposal[t] /\ claim'[t] = claim[t])
    BY <1>1, <2>2
  <2> QED
    BY <2>1, <2>3, <2>4 DEF MovesFiles
<1>5. ClaimsPlaced'
  BY <1>1 DEF IInv, Typed, ClaimsPlaced, Turn
<1>6. ReviewedIsBacked'
  <2> SUFFICES ASSUME NEW t \in Turns, receipt'[t] # None, receipt'[t].status = "reviewed"
               PROVE  proposal'[t] = receipt'[t].by
    BY DEF ReviewedIsBacked, Stands
  <2> QED
    BY DEF IInv, ReviewedIsBacked, Stands
<1>7. Holds(q)'
  BY <1>1, JobHolds DEF Owns, Made
<1> QED
  BY <1>2, <1>3, <1>4, <1>5, <1>6, <1>7, Keep

\* A step of a job that changes no file but claims.
LEMMA JobKeepsFiles ==
    ASSUME IInv, NEW q \in Requests, job[q].pc \notin {"none", "over"},
           UNCHANGED <<hook, broker, receipt, snapshot, proposal>>,
           job' \in [Requests -> Jobs], \A r \in Requests \ {q} : job'[r] = job[r],
           calls' \in [Requests -> 0..MaxAttempts], \A r \in Requests \ {q} : calls'[r] = calls[r],
           active' \in {active, active \ {q}}, job'[q].pc # "none", q \in active' <=> job'[q].pc # "over",
           mishaps' \in 0..MaxMishaps, mishaps' = 0 => mishaps = 0,
           claim' \in {claim, [claim EXCEPT ![Turn(q)] = q], [claim EXCEPT ![Turn(q)] = None]},
           Worker(q)', mishaps' = 0 => Undisturbed(q)'
    PROVE  IInv'
<1>1. /\ Turn(q) \in Turns /\ receipt[Turn(q)] # None /\ receipt[Turn(q)].by = q /\ ~receipt[Turn(q)].expired
  BY JobRuns, OwnerFacts
<1>2. receipt[Turn(q)].status = "reviewed" => proposal[Turn(q)] = q
  BY <1>1 DEF IInv, ReviewedIsBacked, Stands
<1>3. /\ claim' \in [Turns -> Requests \cup {None}]
      /\ claim'[Turn(q)] \in {claim[Turn(q)], q, None}
      /\ \A t \in Turns \ {Turn(q)} : claim'[t] = claim[t]
  BY <1>1 DEF IInv, Typed
<1>4. receipt \in [Turns -> Receipts \cup Torns \cup {None}] /\ proposal \in [Turns -> Requests \cup {Torn, None}]
  BY DEF IInv, Typed
<1> QED
  BY <1>1, <1>2, <1>3, <1>4, JobKeeps

\* Action Spawn preserves the invariant.
LEMMA SpawnStep == ASSUME IInv, NEW q \in Requests, Spawn(q) PROVE IInv'
<1>1. job[q].pc = "spawn" /\ UNCHANGED <<hook, receipt, snapshot, proposal, claim, calls, broker>>
  BY DEF Spawn, files, brokerVars, Over, JobEnds
<1>2. q \in active /\ Worker(q) /\ (mishaps = 0 => Undisturbed(q))
  BY <1>1, JobRuns
<1>3. mishaps' \in 0..MaxMishaps /\ (mishaps' = 0 => mishaps = 0) /\ calls \in [Requests -> 0..MaxAttempts]
  <2>1. Mishap \/ Works
    BY DEF Spawn
  <2> QED
    BY <1>1, <2>1, JobRuns, MishapsCounted
<1>4. Turn(q)' = Turn(q) /\ Turn(q) \in Turns /\ receipt[Turn(q)] # None
  BY <1>1, JobRuns, OwnerFacts DEF Turn
<1>5. CASE job' = [job EXCEPT ![q].pc = "claim", ![q].input = snapshot[Turn(q)]] /\ UNCHANGED brokerVars
  <2>1. snapshot[Turn(q)] \in Requests \cup {None}
    BY <1>4 DEF IInv, Typed
  <2>2. /\ job' \in [Requests -> Jobs] /\ \A r \in Requests \ {q} : job'[r] = job[r]
        /\ job'[q].pc = "claim" /\ job'[q].run = job[q].run
    BY <1>5, <2>1, InputAssigns
  <2>3. Worker(q)'
    BY <1>1, <1>2, <1>4, <2>2 DEF Worker, Made, Claimed
  <2>4. mishaps' = 0 => Undisturbed(q)'
    BY <1>1, <1>2, <1>3, <1>4, <2>2 DEF Undisturbed
  <2> QED
    BY <1>1, <1>2, <1>3, <1>5, <2>2, <2>3, <2>4, JobKeepsFiles DEF brokerVars
<1>6. CASE Over(q) /\ (mishaps' = 0 => snapshot[Turn(q)] = None \/ ~Queued(Turn(q)))
  <2>1. /\ job' \in [Requests -> Jobs] /\ \A r \in Requests \ {q} : job'[r] = job[r]
        /\ job'[q].pc = "over" /\ active' = active \ {q}
    BY <1>6, GoesAssigns DEF Over, JobEnds, JobSteps
  <2>2. Worker(q)'
    BY <1>1, <1>2, <1>4, <2>1 DEF Worker, Made, Claimed
  <2>3. mishaps' = 0 => Undisturbed(q)'
    BY <1>1, <1>2, <1>3, <1>4, <1>6, <2>1 DEF Undisturbed, Queued, Stands
  <2> QED
    BY <1>1, <1>2, <1>3, <2>1, <2>2, <2>3, JobKeepsFiles
<1>7. Mishap => mishaps' # 0
  BY DEF IInv, Typed, Mishap
<1> QED
  BY <1>5, <1>6, <1>7 DEF Spawn

\* Action TakeClaim preserves the invariant.
LEMMA TakeClaimStep == ASSUME IInv, NEW q \in Requests, TakeClaim(q) PROVE IInv'
<1>1. job[q].pc = "claim" /\ UNCHANGED <<hook, receipt, snapshot, proposal, calls, broker, active>>
  BY DEF TakeClaim, brokerVars
<1>2. q \in active /\ Worker(q) /\ (mishaps = 0 => Undisturbed(q)) /\ ~Busy(Turn(q), q)
  BY <1>1, JobRuns, NobodyElse
<1>3. mishaps' \in 0..MaxMishaps /\ (mishaps' = 0 => mishaps = 0) /\ calls \in [Requests -> 0..MaxAttempts]
  <2>1. Mishap \/ Works
    BY DEF TakeClaim
  <2> QED
    BY <1>1, <2>1, JobRuns, MishapsCounted
<1>4. Turn(q)' = Turn(q) /\ Turn(q) \in Turns /\ receipt[Turn(q)] # None
  BY <1>1, JobRuns, OwnerFacts DEF Turn
<1>5. CASE JobGoes(q, "examine") /\ claim' = Taken(Turn(q), q)
  <2>1. /\ job' \in [Requests -> Jobs] /\ \A r \in Requests \ {q} : job'[r] = job[r]
        /\ job'[q].pc = "examine" /\ job'[q].run = job[q].run
    BY <1>5, GoesAssigns DEF JobSteps
  <2>2. claim' = [claim EXCEPT ![Turn(q)] = q] /\ claim'[Turn(q)] = q
    BY <1>4, <1>5 DEF Taken, IInv, Typed
  <2>3. Worker(q)'
    BY <1>1, <1>2, <1>4, <2>1, <2>2 DEF Worker, Made
  <2>4. mishaps' = 0 => Undisturbed(q)'
    BY <1>1, <1>2, <1>3, <1>4, <2>1 DEF Undisturbed
  <2> QED
    BY <1>1, <1>2, <1>3, <2>1, <2>2, <2>3, <2>4, JobKeepsFiles
<1>6. CASE JobFails(q, FALSE) /\ UNCHANGED claim
  <2>1. /\ job' \in [Requests -> Jobs] /\ \A r \in Requests \ {q} : job'[r] = job[r]
        /\ job'[q].pc = "failing" /\ job'[q].run = job[q].run
    BY <1>6, FailsAssigns
  <2>2. Worker(q)'
    BY <1>1, <1>2, <1>4, <2>1 DEF Worker, Made, Claimed
  <2>3. mishaps' = 0 => Undisturbed(q)'
    BY <1>1, <1>2, <1>3, <1>4, <2>1 DEF Undisturbed
  <2> QED
    BY <1>1, <1>2, <1>3, <1>6, <2>1, <2>2, <2>3, JobKeepsFiles
<1> QED
  BY <1>2, <1>5, <1>6 DEF TakeClaim

\* Action Examine preserves the invariant: a call is made without a proposal.
LEMMA ExamineStep == ASSUME IInv, NEW q \in Requests, Examine(q) PROVE IInv'
<1>1. job[q].pc = "examine" /\ UNCHANGED <<hook, receipt, snapshot, proposal, claim, calls, broker, active>>
  BY DEF Examine, brokerVars, files
<1>2. /\ q \in active /\ Worker(q) /\ (mishaps = 0 => Undisturbed(q))
      /\ Turn(q) \in Turns /\ receipt[Turn(q)].by = q /\ receipt[Turn(q)] # None
  BY <1>1, JobRuns, OwnerFacts
<1>3. mishaps' \in 0..MaxMishaps /\ (mishaps' = 0 => mishaps = 0) /\ calls \in [Requests -> 0..MaxAttempts]
  <2>1. Mishap \/ Works
    BY DEF Examine
  <2> QED
    BY <1>1, <2>1, JobRuns, MishapsCounted
<1>4. Turn(q)' = Turn(q)
  BY <1>1 DEF Turn
<1>5. PICK pc \in {"attempt", "transition", "failing"} :
        /\ job' \in [Requests -> Jobs] /\ \A r \in Requests \ {q} : job'[r] = job[r]
        /\ job'[q].pc = pc /\ job'[q].run = job[q].run /\ job'[q].input = job[q].input
        /\ pc # "failing" => job[q].input = q
        /\ pc = "attempt" => proposal[Turn(q)] = None
        /\ pc = "transition" => proposal[Turn(q)] = q
  <2>1. CASE \E permanent \in BOOLEAN : JobFails(q, permanent)
    BY <2>1, FailsAssigns
  <2>2. CASE JobGoes(q, "transition") /\ receipt[Turn(q)].by = job[q].input /\ Bound(Turn(q), q)
    BY <1>2, <2>2, GoesAssigns DEF JobSteps, Bound
  <2>3. CASE JobGoes(q, "attempt") /\ receipt[Turn(q)].by = job[q].input /\ ~Stored(Turn(q))
    BY <1>2, <2>3, GoesAssigns DEF JobSteps, Stored
  <2> QED
    BY <2>1, <2>2, <2>3 DEF Examine
<1>6. Worker(q)'
  BY <1>1, <1>2, <1>4, <1>5 DEF Worker, Made, Claimed
<1>7. mishaps' = 0 => Undisturbed(q)'
  BY <1>1, <1>2, <1>3, <1>4, <1>5 DEF Undisturbed
<1> QED
  BY <1>1, <1>2, <1>3, <1>5, <1>6, <1>7, JobKeepsFiles

\* Action CallModel preserves the invariant: an attempt was counted for it.
LEMMA CallModelStep == ASSUME IInv, NEW q \in Requests, CallModel(q) PROVE IInv'
<1>1. /\ job[q].pc = "call" /\ calls' = [calls EXCEPT ![q] = @ + 1]
      /\ UNCHANGED <<hook, receipt, snapshot, proposal, claim, mishaps, broker, active>>
  BY DEF CallModel, brokerVars, files
<1>2. /\ q \in active /\ Worker(q) /\ (mishaps = 0 => Undisturbed(q))
      /\ Turn(q) \in Turns /\ receipt[Turn(q)] \in Receipts
  BY <1>1, JobRuns, OwnerFacts
<1>3. receipt[Turn(q)].attempts \in 0..MaxAttempts
  BY <1>2 DEF Receipts
<1>4. calls \in [Requests -> 0..MaxAttempts] /\ mishaps \in 0..MaxMishaps /\ calls[q] < receipt[Turn(q)].attempts
  BY <1>1, <1>2 DEF IInv, Typed, Worker
<1>5. /\ calls' \in [Requests -> 0..MaxAttempts] /\ calls'[q] <= receipt[Turn(q)].attempts
      /\ \A r \in Requests \ {q} : calls'[r] = calls[r]
  BY <1>1, <1>3, <1>4
<1>6. Turn(q)' = Turn(q)
  BY <1>1 DEF Turn
<1>7. PICK pc \in {"store", "failing"} :
        /\ job' \in [Requests -> Jobs] /\ \A r \in Requests \ {q} : job'[r] = job[r]
        /\ job'[q].pc = pc /\ job'[q].run = job[q].run /\ job'[q].input = job[q].input
  BY GoesAssigns, FailsAssigns DEF CallModel, JobSteps
<1>8. Worker(q)'
  BY <1>1, <1>2, <1>5, <1>6, <1>7 DEF Worker, Made, Claimed
<1>9. mishaps' = 0 => Undisturbed(q)'
  BY <1>1, <1>2, <1>6, <1>7 DEF Undisturbed
<1> QED
  BY <1>1, <1>2, <1>4, <1>5, <1>7, <1>8, <1>9, JobKeepsFiles

\* The receipt of q's turn becomes f.
LEMMA ReceiptBecomes ==
    ASSUME IInv, NEW q \in Requests, job[q].pc \notin {"none", "over"},
           NEW f \in Receipts, f.by = q, ~f.expired,
           receipt' = [receipt EXCEPT ![Turn(q)] = f]
    PROVE  /\ receipt' \in [Turns -> Receipts \cup Torns \cup {None}]
           /\ \A t \in Turns \ {Turn(q)} : receipt'[t] = receipt[t]
           /\ receipt'[Turn(q)] = f /\ receipt'[Turn(q)] # None
BY JobRuns, OwnerFacts, ReceiptFacts DEF IInv, Typed

\* A step of a job that changes its receipt alone.
LEMMA JobKeepsReceipt ==
    ASSUME IInv, NEW q \in Requests, job[q].pc \notin {"none", "over"}, Mishap \/ Works,
           UNCHANGED <<hook, broker, active, snapshot, proposal, claim, calls>>,
           job' \in [Requests -> Jobs], \A r \in Requests \ {q} : job'[r] = job[r],
           job'[q].pc \notin {"none", "over"},
           NEW f \in Receipts, f.by = q, ~f.expired, receipt' = [receipt EXCEPT ![Turn(q)] = f],
           f.status = "reviewed" => proposal[Turn(q)] = q,
           Worker(q)', mishaps' = 0 => Undisturbed(q)'
    PROVE  IInv'
<1>1. mishaps' \in 0..MaxMishaps /\ (mishaps' = 0 => mishaps = 0)
  BY MishapsCounted
<1>2. q \in active /\ calls \in [Requests -> 0..MaxAttempts]
  BY JobRuns
<1>3. proposal \in [Turns -> Requests \cup {Torn, None}] /\ claim \in [Turns -> Requests \cup {None}]
  BY DEF IInv, Typed
<1>4. /\ receipt' \in [Turns -> Receipts \cup Torns \cup {None}]
      /\ \A t \in Turns \ {Turn(q)} : receipt'[t] = receipt[t]
      /\ receipt'[Turn(q)] = f /\ receipt'[Turn(q)] # None
  BY ReceiptBecomes
<1> QED
  BY <1>1, <1>2, <1>3, <1>4, JobKeeps

\* Leaving the receipt alone is one way to change it.
LEMMA ReceiptStays ==
    ASSUME IInv, NEW q \in Requests, job[q].pc \notin {"none", "over"}, UNCHANGED receipt
    PROVE  receipt' = [receipt EXCEPT ![Turn(q)] = receipt[Turn(q)]]
BY DEF IInv, Typed

\* Action Attempt preserves the invariant: the attempt is counted first.
LEMMA AttemptStep == ASSUME IInv, NEW q \in Requests, Attempt(q) PROVE IInv'
<1> DEFINE old == receipt[Turn(q)]
           counted == Counted(old)
<1>1. job[q].pc = "attempt" /\ UNCHANGED <<hook, snapshot, proposal, claim, calls, broker, active>>
  BY DEF Attempt, brokerVars
<1>2. /\ q \in active /\ Worker(q) /\ (mishaps = 0 => Undisturbed(q))
      /\ Turn(q) \in Turns /\ old \in Receipts /\ old # None /\ old.by = q /\ ~old.expired
  BY <1>1, JobRuns, OwnerFacts
<1>3. Mishap \/ Works
  BY DEF Attempt
<1>4. Turn(q)' = Turn(q) /\ old.attempts \in 0..MaxAttempts /\ calls[q] \in Nat
  BY <1>1, <1>2 DEF Turn, Receipts, IInv, Typed
<1>5. old.status = "reviewed" => proposal[Turn(q)] = q
  BY <1>2 DEF IInv, ReviewedIsBacked, Stands
<1>6. ASSUME Queued(Turn(q)), old.attempts < MaxAttempts
      PROVE  /\ counted \in Receipts /\ counted.by = q /\ ~counted.expired
             /\ counted.status = "queued" /\ counted.attempts = old.attempts + 1 /\ counted.failed = old.failed
             /\ [receipt EXCEPT ![Turn(q)] = Counted(@)] = [receipt EXCEPT ![Turn(q)] = counted]
  <2>1. old.status = "queued" /\ old.attempts + 1 \in 0..MaxAttempts /\ old.failed \in BOOLEAN
    BY <1>2, <1>4, <1>6 DEF Queued, Stands, Receipts
  <2>2. counted \in Receipts
    BY <1>2, <2>1 DEF Counted, Receipts
  <2>3. /\ counted.by = old.by /\ counted.status = old.status /\ counted.attempts = old.attempts + 1
        /\ counted.failed = old.failed /\ counted.expired = old.expired
    BY <1>2, <2>1 DEF Counted, Receipts
  <2>4. [receipt EXCEPT ![Turn(q)] = Counted(@)] = [receipt EXCEPT ![Turn(q)] = counted]
    BY <1>2 DEF IInv, Typed
  <2> QED
    BY <1>2, <2>1, <2>2, <2>3, <2>4
<1>7. CASE UNCHANGED receipt /\ (JobFails(q, TRUE) \/ (Leaves(q, "failed") /\ Mishap))
  <2>1. /\ job' \in [Requests -> Jobs] /\ \A r \in Requests \ {q} : job'[r] = job[r]
        /\ job'[q].pc \in {"failing", "release"} /\ job'[q].run = job[q].run
        /\ job'[q].pc = "release" => Mishap
    BY <1>7, FailsAssigns, LeavesAssigns DEF Exits
  <2>2. Worker(q)'
    BY <1>1, <1>2, <1>4, <1>7, <2>1 DEF Worker, Made, Claimed
  <2>3. mishaps' = 0 => Undisturbed(q)'
    BY <1>1, <1>2, <1>3, <1>4, <1>7, <2>1, MishapsCounted DEF Undisturbed, IInv, Typed, Mishap
  <2> QED
    BY <1>1, <1>2, <1>3, <1>5, <1>7, <2>1, <2>2, <2>3, ReceiptStays, JobKeepsReceipt
<1>8. ASSUME Queued(Turn(q)), old.attempts < MaxAttempts, receipt' = [receipt EXCEPT ![Turn(q)] = Counted(@)],
             JobGoes(q, "call") \/ (Leaves(q, "failed") /\ Mishap)
      PROVE  IInv'
  <2>1. /\ job' \in [Requests -> Jobs] /\ \A r \in Requests \ {q} : job'[r] = job[r]
        /\ job'[q].pc \in {"call", "release"} /\ job'[q].run = job[q].run /\ job'[q].input = job[q].input
        /\ job'[q].pc = "release" => Mishap
    BY <1>8, GoesAssigns, LeavesAssigns DEF Exits, JobSteps
  <2>2. /\ counted \in Receipts /\ counted.by = q /\ ~counted.expired /\ counted.status = "queued"
        /\ counted.attempts = old.attempts + 1 /\ counted.failed = old.failed
        /\ receipt' = [receipt EXCEPT ![Turn(q)] = counted]
    BY <1>6, <1>8
  <2>3. receipt'[Turn(q)] = counted
    BY <1>2, <2>2 DEF IInv, Typed
  <2> HIDE DEF counted
  <2>4. Worker(q)'
    BY <1>1, <1>2, <1>4, <2>1, <2>2, <2>3 DEF Worker, Made, Claimed
  <2>5. mishaps' = 0 => Undisturbed(q)'
    BY <1>1, <1>2, <1>3, <1>4, <1>8, <2>1, <2>2, <2>3, MishapsCounted DEF Undisturbed, IInv, Typed, Mishap, Queued, Stands
  <2> QED
    BY <1>1, <1>3, <2>1, <2>2, <2>4, <2>5, JobKeepsReceipt
<1> QED
  BY <1>7, <1>8 DEF Attempt

\* Action Store preserves the invariant: only the owner stores a proposal.
LEMMA StoreStep == ASSUME IInv, NEW q \in Requests, Store(q) PROVE IInv'
<1>1. job[q].pc = "store" /\ UNCHANGED <<hook, receipt, snapshot, claim, calls, broker, active>>
  BY DEF Store, brokerVars
<1>2. /\ q \in active /\ Worker(q) /\ (mishaps = 0 => Undisturbed(q)) /\ calls \in [Requests -> 0..MaxAttempts]
      /\ Turn(q) \in Turns /\ receipt[Turn(q)] # None /\ receipt[Turn(q)].by = q /\ ~receipt[Turn(q)].expired
  BY <1>1, JobRuns, OwnerFacts
<1>3. mishaps' \in 0..MaxMishaps /\ (mishaps' = 0 => mishaps = 0)
  <2>1. Mishap \/ Works
    BY DEF Store
  <2> QED
    BY <2>1, MishapsCounted
<1>4. /\ receipt \in [Turns -> Receipts \cup Torns \cup {None}] /\ claim \in [Turns -> Requests \cup {None}]
      /\ proposal \in [Turns -> Requests \cup {Torn, None}]
  BY DEF IInv, Typed
<1>5. proposal[Turn(q)] = None /\ job[q].input = q /\ Turn(q)' = Turn(q)
  BY <1>1, <1>2 DEF Worker, Turn
<1>6. receipt[Turn(q)].status # "reviewed"
  BY <1>2, <1>5 DEF IInv, ReviewedIsBacked, Stands
<1>7. /\ proposal' \in {proposal, [proposal EXCEPT ![Turn(q)] = q]}
      /\ \/ proposal' = [proposal EXCEPT ![Turn(q)] = q] /\ JobGoes(q, "transition")
         \/ \E permanent \in BOOLEAN : JobFails(q, permanent)
  BY <1>5 DEF Store
<1>8. /\ proposal' \in [Turns -> Requests \cup {Torn, None}]
      /\ \A t \in Turns \ {Turn(q)} : proposal'[t] = proposal[t]
  BY <1>2, <1>4, <1>7
<1>9. /\ job' \in [Requests -> Jobs] /\ \A r \in Requests \ {q} : job'[r] = job[r]
      /\ job'[q].pc \in {"transition", "failing"} /\ job'[q].run = job[q].run /\ job'[q].input = job[q].input
      /\ job'[q].pc = "transition" => proposal'[Turn(q)] = q
  <2>1. CASE proposal' = [proposal EXCEPT ![Turn(q)] = q] /\ JobGoes(q, "transition")
    BY <1>2, <1>4, <2>1, GoesAssigns DEF JobSteps
  <2>2. CASE \E permanent \in BOOLEAN : JobFails(q, permanent)
    BY <2>2, FailsAssigns
  <2> QED
    BY <1>7, <2>1, <2>2
<1>10. Worker(q)'
  BY <1>1, <1>2, <1>5, <1>9 DEF Worker, Made, Claimed
<1>11. mishaps' = 0 => Undisturbed(q)'
  BY <1>1, <1>2, <1>3, <1>5, <1>9 DEF Undisturbed
<1> QED
  BY <1>1, <1>2, <1>3, <1>4, <1>6, <1>8, <1>9, <1>10, <1>11, JobKeeps

\* Action Transition preserves the invariant: a proposal backs the verdict.
LEMMA TransitionStep == ASSUME IInv, NEW q \in Requests, Transition(q) PROVE IInv'
<1> DEFINE old == receipt[Turn(q)]
           new == [old EXCEPT !.status = "reviewed"]
<1>1. job[q].pc = "transition" /\ UNCHANGED <<hook, snapshot, proposal, claim, calls, broker, active>>
  BY DEF Transition, brokerVars
<1>2. /\ q \in active /\ Worker(q) /\ (mishaps = 0 => Undisturbed(q))
      /\ Turn(q) \in Turns /\ old \in Receipts /\ old # None /\ old.by = q /\ ~old.expired
  BY <1>1, JobRuns, OwnerFacts
<1>3. Mishap \/ Works
  BY DEF Transition
<1>4. Turn(q)' = Turn(q) /\ proposal[Turn(q)] = q
  BY <1>1, <1>2 DEF Turn, Worker
<1>5. /\ new \in Receipts /\ new.by = q /\ ~new.expired /\ new.status = "reviewed"
      /\ new.attempts = old.attempts /\ new.failed = old.failed
  BY <1>2 DEF Receipts
<1>6. UNCHANGED receipt => receipt' = [receipt EXCEPT ![Turn(q)] = old]
  BY <1>1, ReceiptStays
<1>7. [receipt EXCEPT ![Turn(q)].status = "reviewed"] = [receipt EXCEPT ![Turn(q)] = new]
  OBVIOUS
<1> HIDE DEF new
<1>8. PICK f \in {old, new} :
        /\ receipt' = [receipt EXCEPT ![Turn(q)] = f]
        /\ \/ Leaves(q, "ok") /\ f.status = "reviewed"
           \/ JobFails(q, FALSE)
  <2>1. CASE receipt' = [receipt EXCEPT ![Turn(q)] = new] /\ (Leaves(q, "ok") \/ JobFails(q, FALSE))
    BY <1>5, <2>1
  <2>2. CASE UNCHANGED receipt /\ Leaves(q, "ok") /\ old.status = "reviewed"
    BY <1>6, <2>2
  <2>3. CASE UNCHANGED receipt /\ JobFails(q, FALSE)
    BY <1>6, <2>3
  <2> QED
    BY <1>7, <2>1, <2>2, <2>3 DEF Transition, Stands
<1>9. /\ f \in Receipts /\ f.by = q /\ ~f.expired /\ f.attempts = old.attempts /\ f.failed = old.failed
      /\ f.status \in {old.status, "reviewed"}
  BY <1>2, <1>5
<1>10. receipt'[Turn(q)] = f
  BY <1>1, <1>8, <1>9, ReceiptBecomes
<1>11. /\ job' \in [Requests -> Jobs] /\ \A r \in Requests \ {q} : job'[r] = job[r]
       /\ job'[q].run = job[q].run
       /\ \/ job'[q].pc = "failing"
          \/ job'[q].pc = "release" /\ job'[q].exit = "ok" /\ f.status = "reviewed"
  <2>1. CASE Leaves(q, "ok") /\ f.status = "reviewed"
    <3>1. "ok" \in Exits
      BY DEF Exits
    <3> QED
      BY <2>1, <3>1, LeavesAssigns
  <2>2. CASE JobFails(q, FALSE)
    BY <2>2, FailsAssigns
  <2> QED
    BY <1>8, <2>1, <2>2
<1>12. Worker(q)'
  BY <1>1, <1>2, <1>4, <1>9, <1>10, <1>11 DEF Worker, Made, Claimed
<1>13. mishaps' = 0 => Undisturbed(q)'
  BY <1>1, <1>2, <1>3, <1>4, <1>9, <1>10, <1>11, MishapsCounted DEF Undisturbed
<1> QED
  BY <1>1, <1>3, <1>4, <1>8, <1>9, <1>11, <1>12, <1>13, JobKeepsReceipt

\* Action RecordFailure preserves the invariant: the second failure decides.
LEMMA RecordFailureStep == ASSUME IInv, NEW q \in Requests, RecordFailure(q) PROVE IInv'
<1> DEFINE old == receipt[Turn(q)]
           last == GivesUp(Turn(q), job[q].permanent)
           new == [old EXCEPT !.failed = TRUE, !.status = IF last THEN "failed" ELSE "queued"]
<1>1. job[q].pc = "failing" /\ UNCHANGED <<hook, snapshot, proposal, claim, calls, broker, active>>
  BY DEF RecordFailure, brokerVars
<1>2. /\ q \in active /\ Worker(q) /\ (mishaps = 0 => Undisturbed(q))
      /\ Turn(q) \in Turns /\ old \in Receipts /\ old # None /\ old.by = q /\ ~old.expired
  BY <1>1, JobRuns, OwnerFacts
<1>3. Mishap \/ Works
  BY DEF RecordFailure
<1>4. Turn(q)' = Turn(q)
  BY <1>1 DEF Turn
<1>5. /\ new \in Receipts /\ new.by = q /\ ~new.expired /\ new.failed /\ new.attempts = old.attempts
      /\ new.status = IF last THEN "failed" ELSE "queued"
  BY <1>2 DEF Receipts
<1>6. UNCHANGED receipt => receipt' = [receipt EXCEPT ![Turn(q)] = old]
  BY <1>1, ReceiptStays
<1>7. [receipt EXCEPT ![Turn(q)].failed = TRUE, ![Turn(q)].status = IF last THEN "failed" ELSE "queued"]
        = [receipt EXCEPT ![Turn(q)] = new]
  BY <1>2 DEF IInv, Typed
<1>8. old.failed => last
  BY DEF GivesUp
<1> HIDE DEF new, last
<1>9. PICK f \in {old, new}, exit \in {"failed", "retry"} :
        /\ receipt' = [receipt EXCEPT ![Turn(q)] = f] /\ Leaves(q, exit)
        /\ \/ f = new /\ old.status = "queued" /\ exit = IF last THEN "failed" ELSE "retry"
           \/ f = old /\ old.status # "queued" /\ exit = "failed"
           \/ Mishap /\ exit = "failed"
  <2>1. CASE /\ Queued(Turn(q)) /\ receipt' = [receipt EXCEPT ![Turn(q)] = new]
             /\ Leaves(q, IF last THEN "failed" ELSE "retry")
    BY <2>1 DEF Queued, Stands
  <2>2. CASE ~Queued(Turn(q)) /\ UNCHANGED receipt /\ Leaves(q, "failed")
    BY <1>2, <1>6, <2>2 DEF Queued, Stands
  <2>3. CASE Leaves(q, "failed") /\ Mishap /\ (UNCHANGED receipt \/ receipt' = [receipt EXCEPT ![Turn(q)] = new])
    BY <1>6, <2>3
  <2> QED
    BY <1>7, <2>1, <2>2, <2>3 DEF RecordFailure, last
<1>10. /\ f \in Receipts /\ f.by = q /\ ~f.expired /\ f.attempts = old.attempts
       /\ old.failed => f.failed
       /\ f.status = "reviewed" => old.status = "reviewed"
  BY <1>2, <1>5, <1>9
<1>11. f.status = "reviewed" => proposal[Turn(q)] = q
  BY <1>2, <1>10 DEF IInv, ReviewedIsBacked, Stands
<1>12. receipt'[Turn(q)] = f
  BY <1>1, <1>9, <1>10, ReceiptBecomes
<1>13. /\ job' \in [Requests -> Jobs] /\ \A r \in Requests \ {q} : job'[r] = job[r]
       /\ job'[q].pc = "release" /\ job'[q].run = job[q].run /\ job'[q].exit = exit
  BY <1>9, LeavesAssigns DEF Exits
<1>14. Worker(q)'
  BY <1>1, <1>2, <1>4, <1>10, <1>12, <1>13 DEF Worker, Made, Claimed
<1>15. mishaps' = 0 => Undisturbed(q)'
  <2> SUFFICES ASSUME mishaps' = 0 PROVE Undisturbed(q)'
    OBVIOUS
  <2>1. mishaps = 0 /\ Works /\ ~Mishap
    BY <1>3, MishapsCounted DEF IInv, Typed, Mishap
  <2>2. Undisturbed(q)
    BY <1>2, <2>1
  <2>3. exit = "retry" => f.failed
    BY <1>5, <1>9, <2>1
  <2>4. exit # "retry" \/ job[q].run = 2 => f.status # "queued"
    BY <1>2, <1>5, <1>8, <1>9, <2>1, <2>2 DEF Undisturbed
  <2>5. job[q].run = 2 => f.failed \/ f.status # "queued"
    BY <2>4
  <2> QED
    BY <1>1, <1>2, <1>4, <1>12, <1>13, <2>2, <2>3, <2>4, <2>5 DEF Undisturbed
<1> QED
  BY <1>1, <1>3, <1>9, <1>10, <1>11, <1>13, <1>14, <1>15, JobKeepsReceipt

\* Action Release preserves the invariant: a second run follows a failure.
LEMMA ReleaseStep == ASSUME IInv, NEW q \in Requests, Release(q) PROVE IInv'
<1> DEFINE again == [NoJob EXCEPT !.pc = "spawn", !.run = 2]
<1>1. job[q].pc = "release" /\ UNCHANGED <<hook, receipt, snapshot, proposal, calls, broker>>
  BY DEF Release, brokerVars, Over, JobEnds
<1>2. /\ q \in active /\ Worker(q) /\ (mishaps = 0 => Undisturbed(q)) /\ calls \in [Requests -> 0..MaxAttempts]
      /\ Turn(q) \in Turns /\ receipt[Turn(q)] # None
  BY <1>1, JobRuns, OwnerFacts
<1>3. Mishap \/ Works
  BY DEF Release
<1>4. mishaps' \in 0..MaxMishaps /\ (mishaps' = 0 => mishaps = 0 /\ Works /\ ~Mishap)
  BY <1>3, MishapsCounted DEF IInv, Typed, Mishap
<1>5. Turn(q)' = Turn(q)
  BY <1>1 DEF Turn
<1>6. claim' \in {claim, [claim EXCEPT ![Turn(q)] = q], [claim EXCEPT ![Turn(q)] = None]}
  BY DEF Release
<1>7. \/ Again(q) /\ job' = [job EXCEPT ![q] = again] /\ UNCHANGED active
      \/ (~Again(q) \/ Mishap) /\ Over(q)
  BY DEF Release, brokerVars
<1>8. CASE Again(q) /\ job' = [job EXCEPT ![q] = again] /\ UNCHANGED active
  <2>1. again \in Jobs /\ again.pc = "spawn" /\ again.run = 2
    <3>1. NoJob \in Jobs
      BY DEF NoJob, Jobs, JobSteps, Exits
    <3>2. "spawn" \in JobSteps /\ 2 \in 0..2
      BY DEF JobSteps
    <3> QED
      BY <3>1, <3>2 DEF Jobs
  <2> HIDE DEF again
  <2>2. /\ job' \in [Requests -> Jobs] /\ \A r \in Requests \ {q} : job'[r] = job[r]
        /\ job'[q].pc = "spawn" /\ job'[q].run = 2
    BY <1>8, <2>1, JobFields
  <2>3. Worker(q)'
    BY <1>1, <1>2, <1>5, <2>2 DEF Worker, Made, Claimed
  <2>4. mishaps' = 0 => Undisturbed(q)'
    BY <1>1, <1>2, <1>4, <1>5, <1>8, <2>2 DEF Undisturbed, Again
  <2> QED
    BY <1>1, <1>2, <1>4, <1>6, <1>8, <2>2, <2>3, <2>4, JobKeepsFiles
<1>9. CASE (~Again(q) \/ Mishap) /\ Over(q)
  <2>1. /\ job' \in [Requests -> Jobs] /\ \A r \in Requests \ {q} : job'[r] = job[r]
        /\ job'[q].pc = "over" /\ active' = active \ {q}
    BY <1>9, GoesAssigns DEF Over, JobEnds, JobSteps
  <2>2. Worker(q)'
    BY <1>1, <1>2, <1>5, <2>1 DEF Worker, Made, Claimed
  <2>3. mishaps' = 0 => Undisturbed(q)'
    BY <1>1, <1>2, <1>4, <1>5, <1>9, <2>1 DEF Undisturbed, Again
  <2> QED
    BY <1>1, <1>2, <1>4, <1>6, <2>1, <2>2, <2>3, JobKeepsFiles
<1> QED
  BY <1>7, <1>8, <1>9

\* Action JobDies preserves the invariant: a torn proposal backs nothing.
LEMMA JobDiesStep == ASSUME IInv, NEW q \in Requests, JobDies(q) PROVE IInv'
<1>1. /\ q \in active /\ active' = active \ {q} /\ JobGoes(q, "over") /\ Mishap
      /\ UNCHANGED <<hook, receipt, snapshot, claim, calls, broker>>
  BY DEF JobDies, Over, JobEnds
<1>2. job[q].pc \notin {"none", "over"}
  BY <1>1 DEF IInv, Holds, InOrder
<1>3. /\ Worker(q) /\ calls \in [Requests -> 0..MaxAttempts] /\ Turn(q) \in Turns
      /\ receipt[Turn(q)] # None /\ receipt[Turn(q)].by = q /\ ~receipt[Turn(q)].expired
  BY <1>2, JobRuns, OwnerFacts
<1>4. mishaps' \in 0..MaxMishaps /\ mishaps' # 0
  BY <1>1 DEF IInv, Typed, Mishap
<1>5. /\ receipt \in [Turns -> Receipts \cup Torns \cup {None}] /\ claim \in [Turns -> Requests \cup {None}]
      /\ proposal \in [Turns -> Requests \cup {Torn, None}]
  BY DEF IInv, Typed
<1>6. proposal' = proposal \/ (proposal[Turn(q)] = None /\ proposal' = [proposal EXCEPT ![Turn(q)] = Torn])
  BY DEF JobDies
<1>7. proposal' \in [Turns -> Requests \cup {Torn, None}] /\ \A t \in Turns \ {Turn(q)} : proposal'[t] = proposal[t]
  BY <1>3, <1>5, <1>6
<1>8. receipt[Turn(q)].status = "reviewed" => proposal'[Turn(q)] = q
  BY <1>3, <1>6 DEF IInv, ReviewedIsBacked, Stands
<1>9. /\ job' \in [Requests -> Jobs] /\ \A r \in Requests \ {q} : job'[r] = job[r]
      /\ job'[q].pc = "over"
  BY <1>1, GoesAssigns DEF JobSteps
<1>10. Turn(q)' = Turn(q)
  BY <1>1 DEF Turn
<1>11. Worker(q)'
  BY <1>1, <1>3, <1>9, <1>10 DEF Worker, Made, Claimed
<1> QED
  BY <1>1, <1>2, <1>3, <1>4, <1>5, <1>7, <1>8, <1>9, <1>11, JobKeeps

\* Action Expire preserves the invariant: nobody owns what expires.
LEMMA ExpireStep == ASSUME IInv, NEW t \in Turns, Expire(t) PROVE IInv'
<1> DEFINE new == [receipt[t] EXCEPT !.expired = TRUE]
<1>1. /\ Live(t) /\ Mishap
      /\ \A r \in Requests : Turn(r) = t => ~Engaged(r)
      /\ UNCHANGED <<hook, snapshot, proposal, claim, job, calls, broker, active>>
  BY DEF Expire, brokerVars, Engaged
<1>2. receipt \in [Turns -> Receipts \cup Torns \cup {None}]
  BY DEF IInv, Typed
<1>3. receipt[t] \in Receipts
  BY <1>1, <1>2 DEF Live, Stands, Torns
<1>4. /\ new \in Receipts /\ new # None /\ new.by = receipt[t].by /\ new.status = receipt[t].status
      /\ new.attempts = receipt[t].attempts
  <2>1. new \in Receipts
    BY <1>3 DEF Receipts
  <2> QED
    BY <1>3, <2>1 DEF Receipts
<1>5. receipt' = [receipt EXCEPT ![t] = new]
  BY <1>2 DEF Expire
<1> HIDE DEF new
<1>6. /\ receipt' \in [Turns -> Receipts \cup Torns \cup {None}] /\ receipt'[t] = new
      /\ \A u \in Turns \ {t} : receipt'[u] = receipt[u]
  BY <1>2, <1>4, <1>5
<1>7. mishaps' \in 0..MaxMishaps /\ mishaps' # 0
  BY <1>1 DEF IInv, Typed, Mishap
<1>8. Typed'
  BY <1>1, <1>6, <1>7 DEF IInv, Typed
<1>9. ClaimsPlaced' /\ ReviewedIsBacked'
  BY <1>1, <1>3, <1>4, <1>6 DEF IInv, ClaimsPlaced, ReviewedIsBacked, Stands, Turn
<1>10. ASSUME NEW r \in Requests PROVE Holds(r)'
  <2>1. Holds(r) /\ Turn(r)' = Turn(r)
    BY <1>1 DEF IInv, Turn
  <2>2. (Engaged(r) => Owns(r)) /\ (Engaged(r)' <=> Engaged(r)) /\ ~Settled(r)'
    BY <1>1, <1>7, <2>1 DEF Holds, Engaged, Settled
  <2>3. Engaged(r) => Owns(r)'
    BY <1>1, <1>6, <2>1, <2>2 DEF Owns, Made
  <2>4. InOrder(r)'
    BY <1>1, <2>1 DEF Holds, InOrder
  <2>5. job[r].pc \in Claimed => Engaged(r)
    BY <2>1 DEF Holds, InOrder, Engaged, Claimed
  <2>6. CASE Turn(r) = t
    <3>1. job[r].pc \notin Claimed
      BY <1>1, <2>5, <2>6
    <3>2. Worker(r)'
      BY <1>1, <1>3, <1>4, <1>6, <2>1, <2>6, <3>1 DEF Holds, Worker, Made, Claimed
    <3> QED
      BY <1>7, <2>2, <2>3, <2>4, <3>2 DEF Holds
  <2>7. CASE Turn(r) # t
    <3>1. Worker(r)'
      BY <1>1, <1>6, <2>1, <2>5, <2>7, <2>2 DEF Holds, Worker, Made, Claimed, Owns
    <3> QED
      BY <1>7, <2>2, <2>3, <2>4, <3>1 DEF Holds
  <2> QED
    BY <2>6, <2>7
<1> QED
  BY <1>8, <1>9, <1>10 DEF IInv

-----------------------------------------------------------------------------
(* The theorems.                                                            *)

LEMMA InitHolds == Init => IInv
<1> SUFFICES ASSUME Init PROVE IInv
  OBVIOUS
<1>1. NoJob \in Jobs /\ NoJob.pc = "none"
  BY DEF NoJob, Jobs, JobSteps, Exits
<1>2. Typed
  BY <1>1 DEF Init, BrokerInit, Typed, HookSteps, BrokerSteps
<1>3. ClaimsPlaced /\ ReviewedIsBacked
  BY DEF Init, ClaimsPlaced, ReviewedIsBacked, Stands
<1>4. ASSUME NEW r \in Requests PROVE Holds(r)
  <2>1. /\ hook[r].pc = "idle" /\ hook[r].turn = None /\ broker[r] = "idle" /\ job[r].pc = "none"
        /\ calls[r] = 0 /\ r \notin active /\ Turn(r) \notin Turns
    BY <1>1 DEF Init, BrokerInit, Turn, Turns
  <2> QED
    BY <2>1 DEF Holds, Engaged, Settled, InOrder, Worker, Undisturbed, Claimed
<1> QED
  BY <1>2, <1>3, <1>4 DEF IInv

LEMMA StepHolds == IInv /\ [Next]_vars => IInv'
<1> SUFFICES ASSUME IInv, [Next]_vars PROVE IInv'
  OBVIOUS
<1>1. CASE UNCHANGED vars
  BY <1>1, StutterStep DEF vars, reviewVars, brokerVars
<1>2. CASE Tick /\ UNCHANGED reviewVars
  BY <1>2, StutterStep DEF Tick, reviewVars
<1>3. ASSUME NEW q \in Requests,
             \/ \E t \in Turns : Stop(q, t)
             \/ Gather(q) \/ Look(q) \/ Open(q) \/ WriteSnapshot(q) \/ Condemn(q) \/ Submit(q) \/ HookDies(q)
      PROVE  IInv'
  BY <1>3, StopStep, GatherStep, LookStep, OpenStep, WriteSnapshotStep, CondemnStep, SubmitStep, HookDiesStep
<1>4. ASSUME NEW q \in Requests, ((TakeTime(q) \/ Reserve(q)) /\ UNCHANGED reviewVars) \/ RunJob(q)
      PROVE  IInv'
  BY <1>4, ReserveStep, RunJobStep
<1>5. ASSUME NEW q \in Requests, Spawn(q) \/ WorkerStep(q) \/ Release(q) \/ JobDies(q) PROVE IInv'
  BY <1>5, SpawnStep, TakeClaimStep, ExamineStep, AttemptStep, CallModelStep, StoreStep, TransitionStep,
     RecordFailureStep, ReleaseStep, JobDiesStep DEF WorkerStep
<1>6. ASSUME NEW t \in Turns, Expire(t) PROVE IInv'
  BY <1>6, ExpireStep
<1> QED
  BY <1>1, <1>2, <1>3, <1>4, <1>5, <1>6 DEF Next

LEMMA Invariance == Spec => []IInv
BY InitHolds, StepHolds, PTL DEF Spec

\* Seen from the broker, the pipeline is one of its clients, so that the
\* broker's types need no proof of their own here.
LEMMA ReviewUsesBroker == Spec => BrokerSpec
<1>1. Init => BrokerInit
  BY DEF Init
<1>2. IInv /\ [Next]_vars => [BrokerNext]_brokerVars
  <2> SUFFICES ASSUME IInv, [Next]_vars, ~UNCHANGED brokerVars PROVE BrokerNext
    OBVIOUS
  <2>1. CASE Tick
    BY <2>1 DEF BrokerNext
  <2>2. ASSUME NEW q \in Requests, Submit(q) PROVE BrokerNext
    <3> DEFINE c == [action |-> "memory-review", message |-> Turn(q), named |-> SessionOf[Turn(q)], target |-> None]
    <3>1. Turn(q) \in Messages
      BY <2>2, HookRuns DEF Submit, Turns
    <3>2. c \in Contents
      BY <3>1 DEF Contents, Actions
    <3>3. Count(q, c)
      BY <2>2 DEF Submit
    <3> QED
      BY <3>2, <3>3 DEF BrokerNext
  <2>3. ASSUME NEW q \in Requests, TakeTime(q) \/ Reserve(q) \/ Run(q) \/ JobEnds(q) PROVE BrokerNext
    BY <2>3 DEF BrokerNext
  <2>4. ASSUME NEW q \in Requests,
               \/ \E t \in Turns : Stop(q, t)
               \/ Gather(q) \/ Look(q) \/ Open(q) \/ WriteSnapshot(q) \/ Condemn(q) \/ HookDies(q) \/ WorkerStep(q)
        PROVE  FALSE
    BY <2>4 DEF Stop, Gather, Look, Open, WriteSnapshot, Condemn, HookDies, WorkerStep, TakeClaim, Examine,
                Attempt, CallModel, Store, Transition, RecordFailure
  <2>5. ASSUME NEW q \in Requests, Spawn(q) \/ Release(q) \/ JobDies(q) \/ RunJob(q) PROVE Run(q) \/ JobEnds(q)
    BY <2>5 DEF Spawn, Release, JobDies, RunJob, Over
  <2>6. ASSUME NEW t \in Turns, Expire(t) PROVE FALSE
    BY <2>6 DEF Expire
  <2>7. UNCHANGED vars => FALSE
    BY DEF vars
  <2> QED
    BY <2>1, <2>2, <2>3, <2>4, <2>5, <2>6, <2>7 DEF Next
<1> QED
  BY <1>1, <1>2, Invariance, PTL DEF Spec, BrokerSpec

\* Shape of the files, hooks and jobs.
THEOREM ReviewTypes == Spec => []TypeOK
<1>1. IInv /\ BrokerTypeOK => TypeOK
  BY DEF IInv, Typed, TypeOK, Holds, InOrder, Worker, Jobs
<1> QED
  BY <1>1, Invariance, ReviewUsesBroker, BrokerTypes, PTL

\* Singleflight: whoever goes on with a turn made its one receipt.
THEOREM ReviewSingleFlight == Spec => []SingleFlight
<1>1. IInv => SingleFlight
  BY DEF IInv, Holds, Engaged, Owns, Made, SingleFlight
<1> QED
  BY <1>1, Invariance, PTL

\* Every model call was first written down.
THEOREM ReviewCallsAreCounted == Spec => []CallsAreCounted
<1>1. IInv => CallsAreCounted
  <2> SUFFICES ASSUME IInv, NEW r \in Requests, calls[r] > 0, receipt[Turn(r)] # None, receipt[Turn(r)].by = r
               PROVE  calls[r] <= receipt[Turn(r)].attempts
    BY DEF CallsAreCounted
  <2>1. Turn(r) \in Turns
    BY DEF IInv, Holds, InOrder
  <2> QED
    BY <2>1 DEF IInv, Holds, Worker, Made
<1> QED
  BY <1>1, Invariance, PTL

\* A reviewed receipt is backed by the proposal of its own snapshot.
THEOREM ReviewBacked == Spec => []ReviewedIsBacked
<1>1. IInv => ReviewedIsBacked
  BY DEF IInv
<1> QED
  BY <1>1, Invariance, PTL

\* With nothing failing but the model, a job that is over has decided.
THEOREM ReviewDecides == Spec => []Decided
<1>1. IInv => Decided
  BY DEF IInv, Holds, Undisturbed, Decided, Queued, Stands
<1> QED
  BY <1>1, Invariance, PTL

\* The model is never asked while a proposal is stored.
THEOREM ReviewProposalReused == Spec => ProposalReused
<1>1. IInv /\ [Next]_vars => [\A r \in Requests : calls'[r] # calls[r] => proposal[Turn(r)] = None]_vars
  <2> SUFFICES ASSUME IInv, Next, NEW r \in Requests, calls'[r] # calls[r] PROVE proposal[Turn(r)] = None
    BY DEF vars
  <2>1. PICK q \in Requests : CallModel(q)
    BY DEF Next, reviewVars, Tick, Stop, Gather, Look, Open, WriteSnapshot, Condemn, Submit, HookDies, RunJob, Spawn,
           WorkerStep, TakeClaim, Examine, Attempt, Store, Transition, RecordFailure, Release, JobDies, Expire
  <2>2. q = r
    BY <2>1 DEF CallModel, IInv, Typed
  <2> QED
    BY <2>1, <2>2 DEF CallModel, IInv, Holds, Worker
<1> QED
  BY <1>1, Invariance, PTL DEF Spec, ProposalReused

\* A verdict stays until the receipt is pruned.
THEOREM ReviewVerdictIsFinal == Spec => VerdictIsFinal
<1> DEFINE Final(t) == Stands(t, "reviewed") \/ Stands(t, "failed") =>
                          receipt'[t] = None \/ receipt'[t].status = receipt[t].status
<1>1. ASSUME IInv, Next, NEW t \in Turns, Stands(t, "reviewed") \/ Stands(t, "failed")
      PROVE  receipt'[t] = None \/ receipt'[t].status = receipt[t].status
  <2>1. /\ receipt \in [Turns -> Receipts \cup Torns \cup {None}] /\ receipt[t] # None /\ ~Queued(t)
        /\ \A q \in Requests : job[q].pc \notin {"none", "over"} => Turn(q) \in Turns
    BY <1>1, JobRuns, OwnerFacts DEF IInv, Typed, Stands, Queued
  <2>2. CASE UNCHANGED receipt
    BY <2>2
  <2>3. ASSUME NEW q \in Requests, Look(q) PROVE receipt'[t] \in {None, receipt[t]}
    BY <2>1, <2>3 DEF Look
  <2>4. ASSUME NEW q \in Requests, Open(q) PROVE receipt'[t] = receipt[t]
    BY <2>1, <2>4 DEF Open, Exists
  <2>5. ASSUME NEW q \in Requests, Condemn(q) \/ Attempt(q) \/ Transition(q) \/ RecordFailure(q)
        PROVE  receipt'[t] = receipt[t]
    BY <2>1, <2>5 DEF Condemn, Attempt, Transition, RecordFailure
  <2>6. ASSUME NEW u \in Turns, Expire(u) PROVE receipt'[t].status = receipt[t].status
    <3>1. receipt[t] \in Receipts
      BY <1>1, <2>1 DEF Stands, Torns
    <3> QED
      BY <2>1, <2>6, <3>1 DEF Expire, Receipts
  <2>7. ASSUME NEW q \in Requests,
               \/ \E u \in Turns : Stop(q, u)
               \/ Gather(q) \/ WriteSnapshot(q) \/ Submit(q) \/ HookDies(q) \/ RunJob(q) \/ Spawn(q)
               \/ TakeClaim(q) \/ Examine(q) \/ CallModel(q) \/ Store(q) \/ Release(q) \/ JobDies(q)
        PROVE  UNCHANGED receipt
    BY <2>7 DEF Stop, Gather, WriteSnapshot, Submit, HookDies, RunJob, Spawn, TakeClaim, Examine, CallModel,
                Store, Release, JobDies, files
  <2> QED
    BY <1>1, <2>2, <2>3, <2>4, <2>5, <2>6, <2>7 DEF Next, WorkerStep, reviewVars, files
<1>2. IInv /\ [Next]_vars => [\A t \in Turns : Final(t)]_vars
  BY <1>1
<1> QED
  BY <1>2, Invariance, PTL DEF Spec, VerdictIsFinal
=============================================================================
