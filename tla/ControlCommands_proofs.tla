----------------------- MODULE ControlCommands_proofs -----------------------
(***************************************************************************)
(* The dispatcher's confirmations, for every number of prompts, chats and  *)
(* sessions, of handlers at work at a time, and every length of run.       *)
(***************************************************************************)
EXTENDS ControlCommands, FiniteSetTheorems, TLAPS

Handlers == [pc : Steps, chat : Chats \cup {None}, cmd : Commands \cup {NoCommand},
             session : Sessions \cup {None}, entries : Seq(Sessions),
             target : Sessions \cup {None}]
Lists == [chat : Chats \cup {None}, session : Sessions \cup {None}, entries : Seq(Sessions)]
Snapshots == [session : Sessions \cup {None}, entries : Seq(Sessions), fresh : BOOLEAN]
Told == {"code", "ack", "nothing_started"}
CommandTypes ==
    /\ current \in Sessions /\ usable \subseteq Sessions /\ order \in SetToSeqs(Sessions)
    /\ snapshot \in [Chats -> Snapshots]
    /\ challenge \in [Chats -> Prompts \cup {None}] /\ latest \in [Chats -> Prompts \cup {None}]
    /\ expired \subseteq Prompts /\ spent \subseteq Prompts /\ atBroker \subseteq Prompts
    /\ handler \in [Prompts -> Handlers]
    /\ jobs \subseteq [prompt : Prompts, target : Sessions \cup {None}]
    /\ shown \subseteq Lists
    /\ told \in [Prompts -> SUBSET Told]

\* A prompt that asked for a code: nothing changes what it asked for.
Asked(q) ==
    /\ handler[q].cmd.kind \in {"reset", "resume"} /\ handler[q].chat \in Chats
    /\ handler[q].pc \in {"send", "done", "revoked", "lost"}
HasJob(p) == p \in atBroker \/ \E j \in jobs : j.prompt = p
\* A job has been asked of the broker; or it may come to that.
Requested(p) == HasJob(p) \/ handler[p].pc \in {"schedule", "unscheduled"}
AtWork(p) == \/ Requested(p) \/ handler[p].pc \in {"ready", "ack"}
             \/ handler[p].pc = "send" /\ handler[p].cmd.kind = "model"
Code(p) == handler[p].cmd.code

HandlersBounded ==
    /\ IsFiniteSet(Open) /\ Cardinality(Open) <= MaxOpen
    /\ \A p \in Prompts : Len(handler[p].entries) <= MaxListed
\* The code of a chat is the last one issued there, while it can be of use.
CodesKept ==
    /\ spent \cap expired = {}
    /\ \A c \in Chats :
         /\ challenge[c] # None =>
              /\ challenge[c] \notin spent
              /\ Asked(challenge[c]) /\ handler[challenge[c]].chat = c /\ c \notin Groups
         /\ latest[c] # None => Asked(latest[c])
         /\ LET q == latest[c] IN
            q # None /\ handler[q].pc # "revoked" /\ q \notin spent \cup expired => challenge[c] = q
    /\ \A q \in spent : Asked(q)
\* Who is at work was confirmed, and by a code of its own.
Confirmed(p) ==
    /\ handler[p].chat \notin Groups
    /\ handler[p].cmd.kind \in {"model", "confirm_reset", "confirm_resume"}
    /\ handler[p].cmd.kind # "model" =>
         /\ Code(p) \in spent /\ Asked(Code(p))
         /\ handler[Code(p)].chat = handler[p].chat
         /\ handler[Code(p)].session = handler[p].session
         /\ Action(handler[Code(p)].cmd.kind) = Action(handler[p].cmd.kind)
         /\ Requested(p) => "ack" \in told[p]
ConfirmedOnce ==
    /\ \A p \in Prompts : AtWork(p) => Confirmed(p)
    /\ \A p \in Prompts : HasJob(p) =>
         handler[p].pc \in {"schedule", "unscheduled", "failed", "done", "lost"}
    /\ \A p, q \in Prompts :
         AtWork(p) /\ AtWork(q) /\ Code(p) # None /\ Code(p) = Code(q) => p = q
    /\ \A j \in jobs : j.target = handler[j.prompt].target
\* The numbers in force are those of a list the chat was shown.
ListsShown ==
    \A c \in Chats : snapshot[c].fresh =>
        /\ snapshot[c].entries # <<>>
        /\ [chat |-> c, session |-> snapshot[c].session, entries |-> snapshot[c].entries] \in shown
TargetListed(p) ==
    /\ Code(p) \in Prompts /\ Asked(Code(p))
    /\ handler[p].target # handler[p].session
    /\ \E l \in shown :
         LET index == handler[Code(p)].cmd.index
         IN /\ l.chat = handler[p].chat /\ handler[p].target # l.session
            /\ index <= Len(l.entries) /\ l.entries[index] = handler[p].target
TargetsListed == \A p \in Prompts : handler[p].target # None => TargetListed(p)
CommandInv ==
    /\ CommandTypes /\ HandlersBounded /\ CodesKept /\ ConfirmedOnce /\ ListsShown
    /\ TargetsListed
----------------------------------------------------------------------------
(* One handler moves *)

\* Handler p is at pc: it knows what it knew, or nothing any more.
Moves(p, pc) ==
    /\ handler' \in [Prompts -> Handlers]
    /\ \A q \in Prompts \ {p} : handler'[q] = handler[q]
    /\ handler'[p].pc = pc
    /\ \/ /\ handler'[p].chat = handler[p].chat /\ handler'[p].cmd = handler[p].cmd
          /\ handler'[p].session = handler[p].session
          /\ handler'[p].entries = handler[p].entries
          /\ handler'[p].target = handler[p].target
       \/ /\ ~HasJob(p) /\ pc \in {"done", "failed"}
          /\ handler'[p].entries = <<>> /\ handler'[p].target = None

LEMMA IdleTyped == \A pc \in Steps : [Idle EXCEPT !.pc = pc] \in Handlers
<1>1. <<>> \in Seq(Sessions)
  OBVIOUS
<1> QED
  BY <1>1 DEF Idle, Handlers, Steps, Closed

LEMMA GoesMoves ==
    ASSUME CommandTypes, NEW p \in Prompts, NEW pc \in Steps, Goes(p, pc)
    PROVE  /\ Moves(p, pc)
           /\ handler'[p].chat = handler[p].chat /\ handler'[p].cmd = handler[p].cmd
           /\ handler'[p].session = handler[p].session
<1> DEFINE h == [handler[p] EXCEPT !.pc = pc]
<1>1. /\ h \in Handlers /\ h.pc = pc /\ h.chat = handler[p].chat /\ h.cmd = handler[p].cmd
      /\ h.session = handler[p].session /\ h.entries = handler[p].entries
      /\ h.target = handler[p].target
  <2>1. handler[p] \in Handlers
    BY DEF CommandTypes
  <2> QED
    BY <2>1 DEF Handlers
<1>2. handler' = [handler EXCEPT ![p] = h]
  BY DEF Goes, Becomes
<1> HIDE DEF h
<1> QED
  BY <1>1, <1>2 DEF CommandTypes, Moves

LEMMA BlankMoves ==
    ASSUME CommandTypes, NEW p \in Prompts, NEW pc \in {"done", "failed"}, ~HasJob(p),
           Becomes(p, [Idle EXCEPT !.pc = pc])
    PROVE  Moves(p, pc)
<1> DEFINE h == [Idle EXCEPT !.pc = pc]
<1>1. pc \in Steps
  BY DEF Steps, Closed
<1>2. h \in Handlers /\ h.pc = pc /\ h.entries = <<>> /\ h.target = None
  BY <1>1, IdleTyped DEF Idle
<1>3. handler' = [handler EXCEPT ![p] = h]
  BY DEF Becomes
<1> HIDE DEF h
<1> QED
  BY <1>2, <1>3 DEF CommandTypes, Moves

LEMMA EndsMoves ==
    ASSUME CommandTypes, NEW p \in Prompts, Ends(p)
    PROVE  Moves(p, "done")
<1>1. "done" \in Steps
  BY DEF Steps, Closed
<1>2. CASE HasJob(p)
  BY <1>1, <1>2, GoesMoves DEF Ends, HasJob
<1>3. CASE ~HasJob(p)
  BY <1>3, BlankMoves DEF Ends, HasJob
<1> QED
  BY <1>2, <1>3

LEMMA FailsMoves ==
    ASSUME CommandTypes, NEW p \in Prompts, ~HasJob(p), Fails(p)
    PROVE  Moves(p, "failed")
  BY BlankMoves DEF Fails

----------------------------------------------------------------------------
(* What no step undoes *)

AskedStays(q) ==
    Asked(q) => /\ Asked(q)' /\ handler'[q].chat = handler[q].chat
                /\ handler'[q].session = handler[q].session /\ handler'[q].cmd = handler[q].cmd
Onward ==
    /\ \A q \in Prompts : AskedStays(q) /\ told[q] \subseteq told'[q]
    /\ spent \subseteq spent' /\ shown \subseteq shown'

\* Codes keep their force while their prompts and the stores stand still.
LEMMA CodesStay ==
    ASSUME CommandTypes, CodesKept, UNCHANGED <<challenge, latest, expired, spent>>,
           \A q \in Prompts : Asked(q) => handler'[q] = handler[q]
    PROVE  CodesKept'
<1>1. ASSUME NEW q \in Prompts, Asked(q) PROVE Asked(q)'
  BY <1>1 DEF Asked
<1>2. \A c \in Chats : challenge[c] \in Prompts \cup {None} /\ latest[c] \in Prompts \cup {None}
  BY DEF CommandTypes
<1>3. ASSUME NEW c \in Chats, challenge[c] # None
      PROVE  /\ challenge[c] \notin spent /\ Asked(challenge[c])'
             /\ handler'[challenge[c]].chat = c /\ c \notin Groups
  BY <1>1, <1>2, <1>3, CommandBounds DEF CodesKept
<1>4. ASSUME NEW c \in Chats, latest[c] # None
      PROVE  /\ Asked(latest[c])'
             /\ handler'[latest[c]] = handler[latest[c]]
  BY <1>1, <1>2, <1>4 DEF CodesKept
<1>5. \A q \in spent : Asked(q)'
  BY <1>1 DEF CodesKept, CommandTypes
<1> QED
  BY <1>3, <1>4, <1>5 DEF CodesKept

\* Nobody new is at work, and who asks the broker was acknowledged.
LEMMA WorkersStay ==
    ASSUME CommandTypes, ConfirmedOnce, Onward,
           \A q \in Prompts : AtWork(q)' =>
             /\ AtWork(q) /\ handler'[q].chat = handler[q].chat
             /\ handler'[q].cmd = handler[q].cmd /\ handler'[q].session = handler[q].session,
           \A q \in Prompts : Requested(q)' =>
             Requested(q) \/ handler[q].cmd.kind = "model" \/ "ack" \in told'[q],
           \A q \in Prompts : HasJob(q)' =>
             handler'[q].pc \in {"schedule", "unscheduled", "failed", "done", "lost"},
           \A j \in jobs' : j.target = handler'[j.prompt].target
    PROVE  ConfirmedOnce'
<1>1. ASSUME NEW q \in Prompts, AtWork(q)' PROVE Confirmed(q)'
  <2>1. AtWork(q) /\ Confirmed(q)
    BY <1>1 DEF ConfirmedOnce
  <2>2. /\ handler'[q].chat = handler[q].chat /\ handler'[q].cmd = handler[q].cmd
        /\ handler'[q].session = handler[q].session
    BY <1>1
  <2>3. CASE handler[q].cmd.kind = "model"
    BY <2>1, <2>2, <2>3 DEF Confirmed
  <2>4. CASE handler[q].cmd.kind # "model"
    <3>1. PICK k \in Prompts : k = Code(q) /\ k \in spent /\ Asked(k)
      BY <2>1, <2>4 DEF Confirmed, CommandTypes
    <3>2. /\ k \in spent' /\ Asked(k)' /\ handler'[k].chat = handler[k].chat
          /\ handler'[k].session = handler[k].session /\ handler'[k].cmd = handler[k].cmd
      BY <3>1 DEF Onward, AskedStays
    <3>3. Code(q)' = k
      BY <2>2, <3>1 DEF Code
    <3>4. Requested(q)' => "ack" \in told'[q]
      BY <2>1, <2>4 DEF Confirmed, Onward
    <3>5. /\ handler[q].chat \notin Groups
          /\ handler[q].cmd.kind \in {"model", "confirm_reset", "confirm_resume"}
          /\ handler[k].chat = handler[q].chat /\ handler[k].session = handler[q].session
          /\ Action(handler[k].cmd.kind) = Action(handler[q].cmd.kind)
      BY <2>1, <2>4, <3>1 DEF Confirmed
    <3> QED
      BY <2>2, <3>2, <3>3, <3>4, <3>5 DEF Confirmed
  <2> QED
    BY <2>3, <2>4
<1>2. ASSUME NEW p \in Prompts, NEW q \in Prompts, AtWork(p)', AtWork(q)',
             Code(p)' # None, Code(p)' = Code(q)'
      PROVE  p = q
  BY <1>2 DEF ConfirmedOnce, Code
<1> QED
  BY <1>1, <1>2 DEF ConfirmedOnce

LEMMA TargetsStay ==
    ASSUME CommandTypes, TargetsListed, Onward, NEW p \in Prompts,
           handler'[p].target # None,
           handler'[p].target = handler[p].target, handler'[p].chat = handler[p].chat,
           handler'[p].session = handler[p].session, handler'[p].cmd = handler[p].cmd
    PROVE  TargetListed(p)'
<1>1. PICK k \in Prompts : k = Code(p) /\ Asked(k)
  BY DEF TargetsListed, TargetListed
<1>2. Code(p)' = k /\ handler[p].target # handler[p].session
  BY <1>1 DEF TargetsListed, TargetListed, Code
<1>3. Asked(k)' /\ handler'[k].cmd = handler[k].cmd
  BY <1>1 DEF Onward, AskedStays
<1>4. PICK l \in shown :
         LET index == handler[k].cmd.index
         IN /\ l.chat = handler[p].chat /\ handler[p].target # l.session
            /\ index <= Len(l.entries) /\ l.entries[index] = handler[p].target
  BY <1>1 DEF TargetsListed, TargetListed
<1>5. l \in shown'
  BY DEF Onward
<1> QED
  BY <1>1, <1>2, <1>3, <1>4, <1>5 DEF TargetListed

----------------------------------------------------------------------------
(* The steps of a handler that has its code, or needs none *)

\* The steps after Arrive, but for the code that is shown or revoked and the
\* number that is resolved.
PlainStep(p) ==
    \/ ShowList(p) \/ ShowAnswer(p) \/ Acknowledge(p) \/ Scheduled(p)
    \/ BrokerTimesOut(p) \/ ReportUnscheduled(p) \/ ReportFailure(p)

LEMMA StepsKnown ==
    "failed" \in Steps /\ "ready" \in Steps /\ "schedule" \in Steps /\ "done" \in Steps
    /\ "unscheduled" \in Steps /\ "ack" \in Steps /\ "revoked" \in Steps
  BY DEF Steps, Closed

\* Where a plain step leads.
Leads(p, pc) ==
    \/ pc \in {"failed", "done", "unscheduled"}
    \/ pc = "ready" /\ handler[p].pc = "send" /\ handler[p].cmd.kind = "model"
    \/ pc = "schedule" /\ handler[p].pc = "ack" /\ "ack" \in told'[p]
LEMMA PlainMoves ==
    ASSUME CommandTypes, ConfirmedOnce, NEW p \in Prompts, PlainStep(p)
    PROVE  \E pc \in Steps : Moves(p, pc) /\ Leads(p, pc)
              /\ (pc = "unscheduled" => handler[p].pc = "schedule")
<1>1. handler[p].pc \in {"send", "ready", "ack"} => ~HasJob(p)
  BY DEF ConfirmedOnce
<1>2. CASE ShowList(p)
  BY <1>1, <1>2, EndsMoves, FailsMoves, StepsKnown DEF ShowList, ListUnseen, Leads
<1>3. CASE ShowAnswer(p)
  BY <1>1, <1>3, EndsMoves, FailsMoves, GoesMoves, StepsKnown DEF ShowAnswer, Leads
<1>4. CASE Acknowledge(p)
  <2>1. CASE Fails(p)
    BY <1>1, <1>4, <2>1, FailsMoves, StepsKnown DEF Acknowledge, Leads
  <2>2. CASE Sent(p, "ack") /\ Goes(p, "schedule")
    <3>1. Moves(p, "schedule") /\ "ack" \in told'[p]
      BY <2>2, GoesMoves, StepsKnown DEF Sent, Delivered, CommandTypes
    <3> QED
      BY <1>4, <3>1, StepsKnown DEF Acknowledge, Leads
  <2> QED
    BY <1>4, <2>1, <2>2 DEF Acknowledge
<1>5. CASE Scheduled(p) \/ BrokerTimesOut(p)
  BY <1>5, GoesMoves, StepsKnown DEF Scheduled, BrokerTimesOut, Unscheduled, Leads
<1>6. CASE ReportUnscheduled(p) \/ ReportFailure(p)
  BY <1>6, EndsMoves, StepsKnown DEF ReportUnscheduled, ReportFailure, Leads
<1> QED
  BY <1>2, <1>3, <1>4, <1>5, <1>6 DEF PlainStep

LEMMA DeliveredTyped ==
    ASSUME CommandTypes, NEW p \in Prompts, NEW what \in Told, Delivered(p, what)
    PROVE  /\ told' \in [Prompts -> SUBSET Told] /\ what \in told'[p]
           /\ \A q \in Prompts : told[q] \subseteq told'[q]
<1>1. told[p] \cup {what} \in SUBSET Told
  BY DEF CommandTypes
<1> QED
  BY <1>1 DEF CommandTypes, Delivered

LEMMA ShowListTyped ==
    ASSUME CommandTypes, NEW p \in Prompts, ShowList(p)
    PROVE  shown' \subseteq Lists /\ shown \subseteq shown' /\ snapshot' \in [Chats -> Snapshots]
<1> DEFINE h == handler[p]
           a == Activated(h)
<1>1. /\ h.chat \in Chats \cup {None} /\ h.session \in Sessions \cup {None}
      /\ h.entries \in Seq(Sessions)
  BY DEF CommandTypes, Handlers
<1>2. [chat |-> h.chat, session |-> h.session, entries |-> h.entries] \in Lists
  BY <1>1 DEF Lists
<1>3. h.chat \in Chats => a \in Snapshots
  BY <1>1 DEF Activated, CommandTypes, Snapshots
<1>4. snapshot' \in {snapshot, [snapshot EXCEPT ![h.chat] = a]}
  BY DEF ShowList, ListUnseen
<1>5. \/ shown' = shown
      \/ shown' = shown \cup {[chat |-> h.chat, session |-> h.session, entries |-> h.entries]}
  BY DEF ShowList, ListUnseen
<1> HIDE DEF h, a
<1>6. snapshot' \in [Chats -> Snapshots]
  BY <1>3, <1>4 DEF CommandTypes
<1> QED
  BY <1>2, <1>5, <1>6 DEF CommandTypes

LEMMA PlainOnward ==
    ASSUME CommandInv, NEW p \in Prompts, PlainStep(p)
    PROVE  /\ Onward /\ CommandTypes' /\ ~Asked(p)
           /\ UNCHANGED <<challenge, latest, expired, spent, jobs>>
           /\ atBroker' \in {atBroker, atBroker \cup {p}}
           /\ p \in atBroker' \ atBroker => handler'[p].pc = "schedule"
<1>1. CommandTypes /\ ConfirmedOnce
  BY DEF CommandInv
<1>2. PICK pc \in Steps : Moves(p, pc)
  BY <1>1, PlainMoves
<1>3. /\ UNCHANGED <<current, usable, order, challenge, latest, expired, spent, jobs>>
      /\ atBroker' \in {atBroker, atBroker \cup {p}}
      /\ atBroker' # atBroker => Acknowledge(p)
  BY DEF PlainStep, ShowList, ShowAnswer, Acknowledge, Scheduled, BrokerTimesOut,
         ReportUnscheduled, ReportFailure, sessionVars, storeVars, brokerVars, histVars
<1>4. ~Asked(p)
  BY DEF Asked, PlainStep, ShowList, ShowAnswer, Acknowledge, Scheduled, BrokerTimesOut,
         ReportUnscheduled, ReportFailure
<1>5. /\ told' \in [Prompts -> SUBSET Told]
      /\ \A q \in Prompts : told[q] \subseteq told'[q]
  <2>1. CASE UNCHANGED told
    BY <1>1, <2>1 DEF CommandTypes
  <2>2. CASE Delivered(p, "ack") \/ Delivered(p, "nothing_started")
    BY <1>1, <2>2, DeliveredTyped DEF Told
  <2> QED
    BY <2>1, <2>2 DEF PlainStep, ShowList, ShowAnswer, Acknowledge, Scheduled,
         BrokerTimesOut, ReportUnscheduled, ReportFailure, Sent, SendThrows, histVars
<1>6. /\ shown \subseteq shown'
      /\ shown' \subseteq Lists
  <2>1. CASE UNCHANGED shown
    BY <1>1, <2>1 DEF CommandTypes
  <2>2. CASE ShowList(p)
    BY <1>1, <2>2, ShowListTyped
  <2> QED
    BY <2>1, <2>2 DEF PlainStep, ShowAnswer, Acknowledge, Scheduled,
              BrokerTimesOut, ReportUnscheduled, ReportFailure, histVars
<1>7. snapshot' \in [Chats -> Snapshots]
  <2>1. CASE UNCHANGED snapshot
    BY <1>1, <2>1 DEF CommandTypes
  <2>2. CASE ShowList(p)
    BY <1>1, <2>2, ShowListTyped
  <2> QED
    BY <2>1, <2>2 DEF PlainStep, ShowAnswer, Acknowledge, Scheduled,
              BrokerTimesOut, ReportUnscheduled, ReportFailure, storeVars
<1>8. CommandTypes'
  BY <1>1, <1>2, <1>3, <1>5, <1>6, <1>7 DEF CommandTypes, Moves
<1>9. Onward
  <2>1. ASSUME NEW q \in Prompts PROVE AskedStays(q)
    BY <1>2, <1>4 DEF AskedStays, Asked, Moves
  <2> QED
    BY <1>3, <1>5, <1>6, <2>1 DEF Onward
<1>10. p \in atBroker' \ atBroker => handler'[p].pc = "schedule"
  BY <1>1, <1>3 DEF Acknowledge, Goes, Becomes, CommandTypes, Handlers, SendThrows, Sent
<1> QED
  BY <1>3, <1>4, <1>8, <1>9, <1>10
LEMMA BoundStays ==
    ASSUME HandlersBounded,
           \A q \in Prompts : /\ handler'[q].pc \notin Closed => handler[q].pc \notin Closed
                             /\ Len(handler'[q].entries) <= MaxListed
    PROVE  HandlersBounded'
<1>1. Open' \subseteq Open
  BY DEF Open
<1>2. IsFiniteSet(Open') /\ Cardinality(Open') <= Cardinality(Open)
  BY <1>1, FS_Subset DEF HandlersBounded
<1>3. Cardinality(Open') \in Nat /\ Cardinality(Open) \in Nat
  BY <1>2, FS_CardinalityType DEF HandlersBounded
<1> QED
  BY <1>2, <1>3, CommandBounds DEF HandlersBounded

\* What a move leaves of the invariant when it makes nobody a worker.
LEMMA MoveKeeps ==
    ASSUME CommandInv, Onward, NEW p \in Prompts, NEW pc \in Steps, Moves(p, pc),
           handler[p].pc \notin Closed, AtWork(p)' => AtWork(p), UNCHANGED jobs,
           atBroker' = atBroker \/ (atBroker' = atBroker \cup {p} /\ pc = "schedule"),
           Requested(p)' => \/ Requested(p) \/ handler[p].cmd.kind = "model"
                            \/ "ack" \in told'[p],
           HasJob(p) => pc \in {"schedule", "unscheduled", "failed", "done", "lost"}
    PROVE  HandlersBounded' /\ ConfirmedOnce' /\ TargetsListed'
<1>1. CommandTypes /\ HandlersBounded /\ ConfirmedOnce /\ TargetsListed
  BY DEF CommandInv
<1>2. HandlersBounded'
  <2>1. Len(<<>>) <= MaxListed
    BY CommandBounds
  <2>2. \A q \in Prompts : /\ handler'[q].pc \notin Closed => handler[q].pc \notin Closed
                          /\ Len(handler'[q].entries) <= MaxListed
    BY <1>1, <2>1 DEF HandlersBounded, Moves
  <2> QED
    BY <1>1, <2>2, BoundStays
<1>3. \A q \in Prompts : HasJob(q)' => HasJob(q) \/ (q = p /\ pc = "schedule")
  BY DEF HasJob
<1>4. \A q \in Prompts \ {p} : handler'[q] = handler[q]
  BY DEF Moves
<1>5. ConfirmedOnce'
  <2>1. ASSUME NEW q \in Prompts, AtWork(q)'
        PROVE  /\ AtWork(q) /\ handler'[q].chat = handler[q].chat
               /\ handler'[q].cmd = handler[q].cmd /\ handler'[q].session = handler[q].session
    <3>1. CASE q = p
      <4>1. HasJob(p) \/ pc \notin {"done", "failed"}
        BY <1>3, <2>1, <3>1 DEF AtWork, Requested, Moves
      <4> QED
        BY <2>1, <3>1, <4>1 DEF Moves
    <3>2. CASE q # p
      BY <1>3, <1>4, <2>1, <3>2 DEF AtWork, Requested
    <3> QED
      BY <3>1, <3>2
  <2>2. ASSUME NEW q \in Prompts, Requested(q)'
        PROVE  Requested(q) \/ handler[q].cmd.kind = "model" \/ "ack" \in told'[q]
    BY <1>3, <1>4, <2>2 DEF Requested
  <2>3. ASSUME NEW q \in Prompts, HasJob(q)'
        PROVE  handler'[q].pc \in {"schedule", "unscheduled", "failed", "done", "lost"}
    BY <1>1, <1>3, <1>4, <2>3 DEF ConfirmedOnce, Moves
  <2>4. ASSUME NEW j \in jobs' PROVE j.target = handler'[j.prompt].target
    <3>1. j \in jobs /\ j.prompt \in Prompts /\ HasJob(j.prompt)
      BY <1>1, <2>4 DEF CommandTypes, HasJob
    <3>2. j.target = handler[j.prompt].target
      BY <1>1, <3>1 DEF ConfirmedOnce
    <3> QED
      BY <1>4, <3>1, <3>2 DEF Moves
  <2> QED
    BY <1>1, <2>1, <2>2, <2>3, <2>4, WorkersStay
<1>6. TargetsListed'
  <2>1. ASSUME NEW q \in Prompts, handler'[q].target # None
        PROVE  /\ handler'[q].target = handler[q].target /\ handler'[q].chat = handler[q].chat
               /\ handler'[q].session = handler[q].session /\ handler'[q].cmd = handler[q].cmd
    BY <1>4, <2>1 DEF Moves
  <2> QED
    BY <1>1, <2>1, TargetsStay DEF TargetsListed
<1> QED
  BY <1>2, <1>5, <1>6

LEMMA PlainKeeps ==
    ASSUME CommandInv, NEW p \in Prompts, PlainStep(p)
    PROVE  CommandInv'
<1>1. CommandTypes /\ CodesKept /\ ConfirmedOnce /\ ListsShown
  BY DEF CommandInv
<1>2. PICK pc \in Steps : Moves(p, pc) /\ Leads(p, pc)
                       /\ (pc = "unscheduled" => handler[p].pc = "schedule")
  BY <1>1, PlainMoves
<1>3. Onward /\ CommandTypes'
  BY PlainOnward
<1>4. CodesKept'
  <2>1. \A q \in Prompts : Asked(q) => handler'[q] = handler[q]
    BY <1>2, PlainOnward DEF Moves
  <2> QED
    BY <1>1, <2>1, PlainOnward, CodesStay
<1>5. handler[p].pc \notin Closed
  BY DEF PlainStep, ShowList, ShowAnswer, Acknowledge, Scheduled, BrokerTimesOut,
         ReportUnscheduled, ReportFailure, Closed
<1>6. atBroker' = atBroker \/ (atBroker' = atBroker \cup {p} /\ pc = "schedule")
  <2>1. p \in atBroker => atBroker \cup {p} = atBroker
    OBVIOUS
  <2>2. p \in atBroker' \ atBroker => pc = "schedule"
    BY <1>2, PlainOnward DEF Moves
  <2> QED
    BY <2>1, <2>2, PlainOnward
<1>7. HasJob(p)' => HasJob(p) \/ pc = "schedule"
  BY <1>6, PlainOnward DEF HasJob
<1>8. AtWork(p)' => AtWork(p)
  BY <1>2, <1>7 DEF AtWork, Requested, Leads, Moves
<1>9. Requested(p)' => Requested(p) \/ handler[p].cmd.kind = "model" \/ "ack" \in told'[p]
  BY <1>2, <1>7 DEF Requested, Leads, Moves
<1>10. HasJob(p) => pc \in {"schedule", "unscheduled", "failed", "done", "lost"}
  BY <1>1, <1>2 DEF ConfirmedOnce, Leads
<1>11. HandlersBounded' /\ ConfirmedOnce' /\ TargetsListed'
  BY <1>2, <1>3, <1>5, <1>6, <1>8, <1>9, <1>10, PlainOnward, MoveKeeps
<1>12. ListsShown'
  <2>1. CASE UNCHANGED snapshot
    BY <1>1, <1>3, <2>1 DEF ListsShown, Onward
  <2>2. CASE ShowList(p)
    <3> DEFINE h == handler[p]
    <3>1. CASE UNCHANGED snapshot
      BY <1>1, <1>3, <3>1 DEF ListsShown, Onward
    <3>2. CASE /\ snapshot' = [snapshot EXCEPT ![h.chat] = Activated(h)]
               /\ shown' = shown \cup {[chat |-> h.chat, session |-> h.session,
                                       entries |-> h.entries]}
      <4>1. CASE h.entries = <<>>
        BY <1>1, <1>3, <3>2, <4>1 DEF ListsShown, Onward, Activated, CommandTypes
      <4>2. CASE h.entries # <<>>
        BY <1>1, <1>3, <3>2, <4>2 DEF ListsShown, Onward, Activated, CommandTypes
      <4> QED
        BY <4>1, <4>2
    <3> QED
      BY <2>2, <3>1, <3>2 DEF ShowList, ListUnseen
  <2> QED
    BY <2>1, <2>2 DEF PlainStep, ShowAnswer, Acknowledge, Scheduled, BrokerTimesOut,
                      ReportUnscheduled, ReportFailure, storeVars
<1> QED
  BY <1>3, <1>4, <1>11, <1>12 DEF CommandInv
----------------------------------------------------------------------------
(* A confirmed command resolves its number *)

\* What every check leaves alone.
LEMMA CheckOnward ==
    ASSUME CommandInv, NEW p \in Prompts, CheckHelper(p), handler' \in [Prompts -> Handlers],
           \A q \in Prompts \ {p} : handler'[q] = handler[q]
    PROVE  /\ Onward /\ CommandTypes' /\ CodesKept' /\ ListsShown'
           /\ UNCHANGED jobs /\ ~HasJob(p)
<1>1. CommandTypes /\ CodesKept /\ ListsShown /\ ConfirmedOnce
  BY DEF CommandInv
<1>2. /\ UNCHANGED <<current, usable, order, challenge, latest, expired, spent, jobs, snapshot,
                    shown, told>>
      /\ atBroker' \subseteq Prompts
  BY <1>1 DEF CheckHelper, sessionVars, storeVars, histVars, CommandTypes
<1>3. CommandTypes'
  BY <1>1, <1>2 DEF CommandTypes
<1>4. ~HasJob(p)
  BY <1>1 DEF CheckHelper, ConfirmedOnce
<1>5. \A q \in Prompts : Asked(q) => handler'[q] = handler[q]
  BY DEF CheckHelper, Asked
<1>6. Onward
  BY <1>2, <1>5 DEF Onward, AskedStays, Asked
<1>7. CodesKept'
  BY <1>1, <1>2, <1>5, CodesStay
<1>8. ListsShown'
  BY <1>1, <1>2 DEF ListsShown
<1> QED
  BY <1>2, <1>3, <1>4, <1>6, <1>7, <1>8

\* The number counts in a list the chat was shown.
LEMMA SelectedListed ==
    ASSUME CommandInv, NEW p \in Prompts, handler[p].pc = "ready",
           handler[p].cmd.kind = "confirm_resume", Resumable(handler[p], Selected(handler[p]))
    PROVE  LET t == Selected(handler[p]) k == Code(p) IN
           /\ t \in Sessions /\ k \in Prompts /\ Asked(k) /\ t # handler[p].session
           /\ \E l \in shown : /\ l.chat = handler[p].chat /\ t # l.session
                               /\ handler[k].cmd.index <= Len(l.entries)
                               /\ l.entries[handler[k].cmd.index] = t
<1> DEFINE t == Selected(handler[p])
           h == handler[p]
<1>1. CommandTypes /\ ConfirmedOnce /\ CodesKept /\ ListsShown
  BY DEF CommandInv
<1>2. Confirmed(p)
  BY <1>1 DEF ConfirmedOnce, AtWork
<1>3. Code(p) \in Prompts /\ Asked(Code(p)) /\ h.chat = handler[Code(p)].chat
  BY <1>1, <1>2 DEF Confirmed, CommandTypes
<1>4. t # None /\ t \notin {h.session, snapshot[h.chat].session} /\ t \in Sessions
  BY <1>1 DEF Resumable, CommandTypes
<1>5. /\ snapshot[h.chat].fresh /\ handler[Code(p)].cmd.index <= Len(snapshot[h.chat].entries)
      /\ t = snapshot[h.chat].entries[handler[Code(p)].cmd.index]
  BY <1>4 DEF Selected, Code
<1>6. h.chat \in Chats
  BY <1>3 DEF Asked
<1>7. [chat |-> h.chat, session |-> snapshot[h.chat].session,
       entries |-> snapshot[h.chat].entries] \in shown
  BY <1>1, <1>5, <1>6 DEF ListsShown
<1> HIDE DEF t, h
<1>8. \E l \in shown : /\ l.chat = h.chat /\ t # l.session
                      /\ handler[Code(p)].cmd.index <= Len(l.entries)
                      /\ l.entries[handler[Code(p)].cmd.index] = t
  BY <1>4, <1>5, <1>7
<1> QED
  BY <1>3, <1>4, <1>8 DEF t, h

LEMMA CheckResolves ==
    ASSUME CommandInv, NEW p \in Prompts, CheckHelper(p),
           handler[p].cmd.kind = "confirm_resume", Resumable(handler[p], Selected(handler[p])),
           Becomes(p, [handler[p] EXCEPT !.pc = "ack", !.target = Selected(handler[p])])
    PROVE  CommandInv'
<1>1. PICK t \in Sessions : t = Selected(handler[p])
  BY SelectedListed DEF CheckHelper
<1> DEFINE h == [handler[p] EXCEPT !.pc = "ack", !.target = t]
<1>2. CommandTypes /\ HandlersBounded /\ ConfirmedOnce /\ TargetsListed /\ CodesKept
  BY DEF CommandInv
<1>3. /\ h \in Handlers /\ h.pc = "ack" /\ h.chat = handler[p].chat /\ h.cmd = handler[p].cmd
      /\ h.session = handler[p].session /\ h.entries = handler[p].entries /\ h.target = t
  <2>1. handler[p] \in Handlers
    BY <1>2 DEF CommandTypes
  <2> QED
    BY <2>1, StepsKnown DEF Handlers
<1>4. handler' = [handler EXCEPT ![p] = h]
  BY <1>1 DEF Becomes
<1> HIDE DEF h
<1>5. /\ handler' \in [Prompts -> Handlers] /\ handler'[p] = h
      /\ \A q \in Prompts \ {p} : handler'[q] = handler[q]
  BY <1>2, <1>3, <1>4 DEF CommandTypes
<1>6. Onward /\ CommandTypes' /\ CodesKept' /\ ListsShown' /\ UNCHANGED jobs /\ ~HasJob(p)
  BY <1>5, CheckOnward
<1>7. handler[p].pc = "ready" /\ UNCHANGED atBroker /\ UNCHANGED shown
  BY <1>3, <1>5 DEF CheckHelper, histVars
<1>8. HandlersBounded'
  BY <1>2, <1>3, <1>5, <1>7, BoundStays DEF Closed, HandlersBounded
<1>9. ConfirmedOnce'
  <2>1. \A q \in Prompts : HasJob(q)' => HasJob(q) /\ q # p
    BY <1>6, <1>7 DEF HasJob
  <2>2. ASSUME NEW q \in Prompts, AtWork(q)'
        PROVE  /\ AtWork(q) /\ handler'[q].chat = handler[q].chat
               /\ handler'[q].cmd = handler[q].cmd /\ handler'[q].session = handler[q].session
    BY <1>3, <1>5, <1>7, <2>1, <2>2 DEF AtWork, Requested
  <2>3. ASSUME NEW q \in Prompts, Requested(q)' PROVE Requested(q)
    BY <1>3, <1>5, <2>1, <2>3 DEF Requested
  <2>4. ASSUME NEW q \in Prompts, HasJob(q)'
        PROVE  handler'[q].pc \in {"schedule", "unscheduled", "failed", "done", "lost"}
    BY <1>2, <1>5, <2>1, <2>4 DEF ConfirmedOnce
  <2>5. ASSUME NEW j \in jobs' PROVE j.target = handler'[j.prompt].target
    <3>1. j \in jobs /\ j.prompt \in Prompts /\ HasJob(j.prompt)
      BY <1>2, <1>6, <2>5 DEF CommandTypes, HasJob
    <3> QED
      BY <1>2, <1>5, <1>6, <3>1 DEF ConfirmedOnce
  <2> QED
    BY <1>2, <1>6, <2>2, <2>3, <2>4, <2>5, WorkersStay
<1>10. TargetsListed'
  <2>1. ASSUME NEW q \in Prompts \ {p}, handler'[q].target # None PROVE TargetListed(q)'
    BY <1>2, <1>5, <1>6, <2>1, TargetsStay
  <2>2. TargetListed(p)'
    <3>1. PICK k \in Prompts : k = Code(p) /\ Asked(k)
      BY <1>7, SelectedListed
    <3>2. Code(p)' = k /\ Asked(k)' /\ handler'[k].cmd = handler[k].cmd
      BY <1>3, <1>5, <1>6, <3>1 DEF Code, Onward, AskedStays
    <3>3. /\ t # handler[p].session
          /\ \E l \in shown : /\ l.chat = handler[p].chat /\ t # l.session
                              /\ handler[k].cmd.index <= Len(l.entries)
                              /\ l.entries[handler[k].cmd.index] = t
      BY <1>1, <1>7, <3>1, SelectedListed
    <3> QED
      BY <1>3, <1>5, <1>7, <3>2, <3>3 DEF TargetListed
  <2> QED
    BY <2>1, <2>2 DEF TargetsListed
<1> QED
  BY <1>6, <1>8, <1>9, <1>10 DEF CommandInv

LEMMA CheckKeeps ==
    ASSUME CommandInv, NEW p \in Prompts, CheckHelper(p)
    PROVE  CommandInv'
<1>1. CommandTypes /\ ConfirmedOnce /\ handler[p].pc = "ready" /\ ~HasJob(p)
  BY DEF CommandInv, CheckHelper, ConfirmedOnce
<1>2. ASSUME NEW pc \in {"failed", "schedule", "ack"}, Moves(p, pc),
             pc = "schedule" => handler[p].cmd.kind = "model"
      PROVE  CommandInv'
  <2>1. Onward /\ CommandTypes' /\ CodesKept' /\ ListsShown' /\ UNCHANGED jobs
    BY <1>2, CheckOnward DEF Moves
  <2>2. atBroker' = atBroker \/ (atBroker' = atBroker \cup {p} /\ pc = "schedule")
    BY <1>2 DEF CheckHelper, Moves
  <2>3. AtWork(p)
    BY <1>1 DEF AtWork
  <2>4. HasJob(p)' => pc = "schedule"
    BY <1>1, <2>1, <2>2 DEF HasJob
  <2>5. Requested(p)' => handler[p].cmd.kind = "model"
    BY <1>2, <2>4 DEF Requested, Moves
  <2>6. handler[p].pc \notin Closed /\ pc \in Steps
    BY <1>1, StepsKnown DEF Closed
  <2>7. HandlersBounded' /\ ConfirmedOnce' /\ TargetsListed'
    BY <1>1, <1>2, <2>1, <2>2, <2>3, <2>5, <2>6, MoveKeeps
  <2> QED
    BY <2>1, <2>7 DEF CommandInv
<1>3. CASE Fails(p)
  BY <1>1, <1>2, <1>3, FailsMoves
<1>4. CASE Goes(p, "schedule") /\ handler[p].cmd.kind = "model"
  BY <1>1, <1>2, <1>4, GoesMoves, StepsKnown
<1>5. CASE Goes(p, "ack")
  BY <1>1, <1>2, <1>5, GoesMoves, StepsKnown
<1>6. CASE /\ handler[p].cmd.kind = "confirm_resume"
           /\ Resumable(handler[p], Selected(handler[p]))
           /\ Becomes(p, [handler[p] EXCEPT !.pc = "ack", !.target = Selected(handler[p])])
  BY <1>6, CheckResolves
<1> QED
  BY <1>3, <1>4, <1>5, <1>6 DEF CheckHelper, Goes
----------------------------------------------------------------------------
(* A code is shown, or revoked *)

LEMMA ShowCodeKeeps ==
    ASSUME CommandInv, NEW p \in Prompts, ShowCode(p)
    PROVE  CommandInv'
<1>1. /\ CommandTypes /\ CodesKept /\ ConfirmedOnce /\ ListsShown /\ handler[p].pc = "send"
      /\ ~HasJob(p)
  BY DEF CommandInv, ShowCode, ConfirmedOnce
<1>2. UNCHANGED <<current, usable, order, snapshot, expired, atBroker, jobs, shown, latest, spent>>
  BY DEF ShowCode, sessionVars, brokerVars
<1>3. PICK pc \in {"done", "revoked"} :
         /\ Goes(p, pc) /\ (Delivered(p, "code") \/ UNCHANGED told)
         /\ \/ UNCHANGED challenge /\ pc = "done"
            \/ Revoke(p) /\ pc = "revoked"
  BY DEF ShowCode, Sent, SendThrows
<1>4. /\ Moves(p, pc) /\ handler'[p].chat = handler[p].chat /\ handler'[p].cmd = handler[p].cmd
      /\ handler'[p].session = handler[p].session
  BY <1>1, <1>3, GoesMoves, StepsKnown
<1>5. told' \in [Prompts -> SUBSET Told] /\ \A q \in Prompts : told[q] \subseteq told'[q]
  BY <1>1, <1>3, DeliveredTyped DEF Told, CommandTypes
<1>6. /\ challenge' \in [Chats -> Prompts \cup {None}]
      /\ \A c \in Chats : challenge'[c] \in {challenge[c], None}
      /\ \A c \in Chats : challenge'[c] = challenge[c] \/ challenge[c] \in expired
                          \/ (challenge[c] = p /\ pc = "revoked")
  BY <1>1, <1>3 DEF Revoke, Forgets, Consumes, CommandTypes
<1>7. \A q \in Prompts : AskedStays(q)
  BY <1>1, <1>3, <1>4 DEF AskedStays, Asked, Moves
<1>8. Onward
  BY <1>2, <1>5, <1>7 DEF Onward
<1>9. CommandTypes'
  BY <1>1, <1>2, <1>4, <1>5, <1>6 DEF CommandTypes, Moves
<1>10. CodesKept'
  <2>1. ASSUME NEW c \in Chats, challenge'[c] # None
        PROVE  /\ challenge'[c] \notin spent /\ Asked(challenge[c])' /\ challenge'[c] = challenge[c]
               /\ handler'[challenge[c]].chat = c /\ c \notin Groups
    BY <1>1, <1>6, <1>7, <2>1 DEF CodesKept, AskedStays, CommandTypes
  <2>2. ASSUME NEW c \in Chats, latest[c] # None PROVE Asked(latest[c])'
    BY <1>1, <1>2, <1>7, <2>2 DEF CodesKept, AskedStays, CommandTypes
  <2>3. ASSUME NEW c \in Chats, latest[c] # None, handler'[latest[c]].pc # "revoked",
               latest[c] \notin spent \cup expired
        PROVE  challenge'[c] = latest[c]
    <3>1. latest[c] \in Prompts
      BY <1>1, <2>3 DEF CommandTypes
    <3>2. handler[latest[c]].pc # "revoked" /\ (latest[c] = p => pc # "revoked")
      BY <1>1, <1>4, <2>3, <3>1 DEF Moves
    <3>3. challenge[c] = latest[c]
      BY <1>1, <2>3, <3>2 DEF CodesKept
    <3> QED
      BY <1>6, <2>3, <3>2, <3>3
  <2>4. \A q \in spent : Asked(q)'
    BY <1>1, <1>7 DEF CodesKept, AskedStays, CommandTypes
  <2>5. spent \cap expired = {}
    BY <1>1 DEF CodesKept
  <2> QED
    BY <1>2, <2>1, <2>2, <2>3, <2>4, <2>5 DEF CodesKept
<1>11. HandlersBounded' /\ ConfirmedOnce' /\ TargetsListed'
  <2>1. ~HasJob(p)'
    BY <1>1, <1>2 DEF HasJob
  <2>2. ~AtWork(p)'
    BY <1>4, <2>1 DEF AtWork, Requested, Moves
  <2>3. handler[p].pc \notin Closed /\ pc \in Steps
    BY <1>1, StepsKnown DEF Closed
  <2> QED
    BY <1>1, <1>2, <1>4, <1>8, <2>2, <2>3, MoveKeeps DEF AtWork
<1>12. ListsShown'
  BY <1>1, <1>2 DEF ListsShown
<1> QED
  BY <1>9, <1>10, <1>11, <1>12 DEF CommandInv
----------------------------------------------------------------------------
(* Steps of nobody's handler *)

\* The handlers and what they were told stand still.
LEMMA RestStays ==
    ASSUME CommandInv, UNCHANGED <<handler, shown, spent, told>>,
           \A q \in Prompts : HasJob(q)' => HasJob(q),
           \A j \in jobs' : j.target = handler[j.prompt].target
    PROVE  HandlersBounded' /\ ConfirmedOnce' /\ TargetsListed'
<1>1. CommandTypes /\ HandlersBounded /\ ConfirmedOnce /\ TargetsListed
  BY DEF CommandInv
<1>2. Onward
  BY DEF Onward, AskedStays, Asked
<1>3. HandlersBounded'
  BY <1>1, BoundStays DEF HandlersBounded
<1>4. \A q \in Prompts : Requested(q)' => Requested(q)
  BY DEF Requested
<1>5. \A q \in Prompts : AtWork(q)' => AtWork(q)
  BY <1>4 DEF AtWork
<1>6. \A q \in Prompts : HasJob(q)' =>
         handler'[q].pc \in {"schedule", "unscheduled", "failed", "done", "lost"}
  BY <1>1 DEF ConfirmedOnce
<1>7. ConfirmedOnce'
  BY <1>1, <1>2, <1>4, <1>5, <1>6, WorkersStay
<1>8. TargetsListed'
  BY <1>1, <1>2, TargetsStay DEF TargetsListed
<1> QED
  BY <1>3, <1>7, <1>8

LEMMA BrokerKeeps ==
    ASSUME CommandInv, NEW p \in Prompts, BrokerStarts(p) \/ BrokerRefuses(p)
    PROVE  CommandInv'
<1> DEFINE job == [prompt |-> p, target |-> handler[p].target]
<1>1. CommandTypes /\ CodesKept /\ ConfirmedOnce /\ ListsShown
  BY DEF CommandInv
<1>2. UNCHANGED <<current, usable, order, snapshot, challenge, expired, handler, shown, latest,
                  spent, told>>
  BY DEF BrokerStarts, BrokerRefuses, sessionVars, storeVars, histVars
<1>3. p \in atBroker /\ atBroker' = atBroker \ {p} /\ jobs' \in {jobs, jobs \cup {job}}
  BY DEF BrokerStarts, BrokerRefuses
<1>4. job \in [prompt : Prompts, target : Sessions \cup {None}]
  BY <1>1 DEF CommandTypes, Handlers
<1>5. \A q \in Prompts : HasJob(q)' => HasJob(q)
  BY <1>3 DEF HasJob
<1>6. \A j \in jobs' : j.target = handler[j.prompt].target
  BY <1>1, <1>3 DEF ConfirmedOnce
<1>7. jobs' \subseteq [prompt : Prompts, target : Sessions \cup {None}]
  BY <1>1, <1>3, <1>4 DEF CommandTypes
<1> HIDE DEF job
<1>8. CommandTypes'
  BY <1>1, <1>2, <1>3, <1>7 DEF CommandTypes
<1>9. CodesKept'
  BY <1>1, <1>2, CodesStay
<1>10. ListsShown'
  BY <1>1, <1>2 DEF ListsShown
<1>11. HandlersBounded' /\ ConfirmedOnce' /\ TargetsListed'
  BY <1>2, <1>5, <1>6, RestStays
<1> QED
  BY <1>8, <1>9, <1>10, <1>11 DEF CommandInv

LEMMA ExpiryKeeps ==
    ASSUME CommandInv, NEW c \in Chats, ChallengeExpires(c) \/ ListExpires(c)
    PROVE  CommandInv'
<1>1. CommandTypes /\ CodesKept /\ ConfirmedOnce /\ ListsShown
  BY DEF CommandInv
<1>2. UNCHANGED <<current, usable, order, challenge, handler, atBroker, jobs, shown, latest,
                  spent, told>>
  BY DEF ChallengeExpires, ListExpires, sessionVars, brokerVars, histVars
<1>3. HandlersBounded' /\ ConfirmedOnce' /\ TargetsListed'
  BY <1>1, <1>2, RestStays DEF HasJob, ConfirmedOnce
<1>4. CASE ChallengeExpires(c)
  <2>1. /\ challenge[c] \in Prompts \ spent /\ expired' = expired \cup {challenge[c]}
        /\ UNCHANGED snapshot
    BY <1>1, <1>4 DEF ChallengeExpires, CommandTypes, CodesKept
  <2>2. CommandTypes'
    BY <1>1, <1>2, <2>1 DEF CommandTypes
  <2>3. \A q \in Prompts : Asked(q)' = Asked(q)
    BY <1>2 DEF Asked
  <2>4. CodesKept'
    BY <1>1, <1>2, <2>1, <2>3 DEF CodesKept, CommandTypes
  <2>5. ListsShown'
    BY <1>1, <1>2, <2>1 DEF ListsShown
  <2> QED
    BY <1>3, <2>2, <2>4, <2>5 DEF CommandInv
<1>5. CASE ListExpires(c)
  <2> DEFINE l == [snapshot[c] EXCEPT !.fresh = FALSE]
  <2>1. l \in Snapshots /\ l.fresh = FALSE
    <3>1. snapshot[c] \in Snapshots
      BY <1>1 DEF CommandTypes
    <3> QED
      BY <3>1 DEF Snapshots
  <2>2. snapshot' = [snapshot EXCEPT ![c] = l] /\ UNCHANGED expired
    BY <1>5 DEF ListExpires
  <2> HIDE DEF l
  <2>3. CommandTypes'
    BY <1>1, <1>2, <2>1, <2>2 DEF CommandTypes
  <2>4. CodesKept'
    BY <1>1, <1>2, <2>2, CodesStay
  <2>5. ListsShown'
    BY <1>1, <1>2, <2>1, <2>2 DEF ListsShown, CommandTypes
  <2> QED
    BY <1>3, <2>3, <2>4, <2>5 DEF CommandInv
<1> QED
  BY <1>4, <1>5

LEMMA SessionsKeep ==
    ASSUME CommandInv,
           \/ \E s \in Sessions : SessionActive(s) \/ SessionSwitches(s)
           \/ \E gone \in SUBSET Sessions : TranscriptsGo(gone)
    PROVE  CommandInv'
<1>1. CommandTypes /\ CodesKept /\ ConfirmedOnce /\ ListsShown
  BY DEF CommandInv
<1>2. UNCHANGED <<snapshot, challenge, expired, handler, atBroker, jobs, shown, latest, spent, told>>
  BY DEF SessionActive, SessionSwitches, TranscriptsGo, storeVars, brokerVars, histVars
<1>3. current' \in Sessions /\ usable' \subseteq Sessions /\ order' \in SetToSeqs(Sessions)
  BY <1>1 DEF SessionActive, SessionSwitches, TranscriptsGo, CommandTypes
<1>4. CommandTypes'
  BY <1>1, <1>2, <1>3 DEF CommandTypes
<1>5. CodesKept' /\ ListsShown'
  BY <1>1, <1>2, CodesStay DEF ListsShown
<1>6. HandlersBounded' /\ ConfirmedOnce' /\ TargetsListed'
  BY <1>1, <1>2, RestStays DEF HasJob, ConfirmedOnce
<1> QED
  BY <1>4, <1>5, <1>6 DEF CommandInv

LEMMA RestartKeeps ==
    ASSUME CommandInv, NEW s \in Sessions, ServiceRestarts(s)
    PROVE  CommandInv'
<1>1. /\ CommandTypes /\ HandlersBounded /\ CodesKept /\ ConfirmedOnce /\ ListsShown
      /\ TargetsListed
  BY DEF CommandInv
<1>2. /\ UNCHANGED <<usable, order, snapshot, expired, atBroker, jobs, shown, spent, told>>
      /\ current' = s /\ challenge' = [c \in Chats |-> None] /\ latest' = [c \in Chats |-> None]
  BY DEF ServiceRestarts, brokerVars
<1>3. ASSUME NEW q \in Prompts
      PROVE  /\ handler'[q] \in Handlers
             /\ handler'[q].chat = handler[q].chat /\ handler'[q].cmd = handler[q].cmd
             /\ handler'[q].session = handler[q].session
             /\ handler'[q].entries = handler[q].entries /\ handler'[q].target = handler[q].target
             /\ handler'[q].pc = IF handler[q].pc \in Closed THEN handler[q].pc ELSE "lost"
  <2>1. handler[q] \in Handlers /\ "lost" \in Steps
    BY <1>1 DEF CommandTypes, Steps, Closed
  <2>2. handler'[q] = IF handler[q].pc \in Closed THEN handler[q]
                      ELSE [handler[q] EXCEPT !.pc = "lost"]
    BY DEF ServiceRestarts, Open
  <2> QED
    BY <2>1, <2>2 DEF Handlers
<1>4. handler' \in [Prompts -> Handlers]
  BY <1>3 DEF ServiceRestarts
<1>5. CommandTypes'
  BY <1>1, <1>2, <1>4 DEF CommandTypes
<1>6. \A q \in Prompts : AskedStays(q)
  BY <1>3 DEF AskedStays, Asked, Closed
<1>7. Onward
  BY <1>2, <1>6 DEF Onward
<1>8. HandlersBounded'
  BY <1>1, <1>3, BoundStays DEF HandlersBounded, Closed
<1>9. CodesKept'
  BY <1>1, <1>2, <1>6 DEF CodesKept, AskedStays, CommandTypes
<1>10. ConfirmedOnce'
  <2>1. \A q \in Prompts : HasJob(q)' => HasJob(q)
    BY <1>2 DEF HasJob
  <2>2. \A q \in Prompts : handler'[q].pc \in Closed
    BY <1>3 DEF Closed
  <2>3. \A q \in Prompts : Requested(q)' => HasJob(q)
    BY <2>1, <2>2 DEF Requested, Closed
  <2>4. \A q \in Prompts : AtWork(q)' => HasJob(q)
    BY <2>2, <2>3 DEF AtWork, Closed
  <2>5. \A q \in Prompts : HasJob(q)' =>
           handler'[q].pc \in {"schedule", "unscheduled", "failed", "done", "lost"}
    BY <1>1, <1>3, <2>1 DEF ConfirmedOnce
  <2>6. \A j \in jobs' : j.target = handler'[j.prompt].target
    BY <1>1, <1>2, <1>3 DEF ConfirmedOnce, CommandTypes
  <2> QED
    BY <1>1, <1>3, <1>7, <2>3, <2>4, <2>5, <2>6, WorkersStay DEF AtWork, Requested
<1>11. TargetsListed'
  BY <1>1, <1>3, <1>7, TargetsStay DEF TargetsListed
<1>12. ListsShown'
  BY <1>1, <1>2 DEF ListsShown
<1> QED
  BY <1>5, <1>8, <1>9, <1>10, <1>11, <1>12 DEF CommandInv
----------------------------------------------------------------------------
(* A prompt arrives *)

\* Nobody else is concerned, and only a confirmed prompt may get to work.
LEMMA Newcomer ==
    ASSUME CommandInv, NEW p \in Prompts, handler[p].pc = "idle", Cardinality(Open) < MaxOpen,
           NEW r \in Handlers, Becomes(p, r), r.pc \in {"send", "ready", "failed"},
           r.target = None, Len(r.entries) <= MaxListed,
           UNCHANGED <<atBroker, jobs, shown, told, snapshot>>, spent \subseteq spent',
           r.pc = "ready" \/ (r.pc = "send" /\ r.cmd.kind = "model") =>
             Confirmed(p)' /\ (r.cmd.code = None \/ (r.cmd.kind # "model" /\ r.cmd.code \notin spent))
    PROVE  /\ Onward /\ HandlersBounded' /\ ConfirmedOnce' /\ ListsShown' /\ TargetsListed'
           /\ handler' \in [Prompts -> Handlers] /\ handler'[p] = r
           /\ \A q \in Prompts \ {p} : handler'[q] = handler[q]
<1>1. CommandTypes /\ HandlersBounded /\ CodesKept /\ ConfirmedOnce /\ ListsShown /\ TargetsListed
  BY DEF CommandInv
<1>2. /\ handler' \in [Prompts -> Handlers] /\ handler'[p] = r
      /\ \A q \in Prompts \ {p} : handler'[q] = handler[q]
  BY <1>1 DEF CommandTypes, Becomes
<1>3. ~HasJob(p) /\ ~Asked(p) /\ \A q \in Prompts : HasJob(q)' => HasJob(q)
  BY <1>1 DEF ConfirmedOnce, HasJob, Asked
<1>4. \A q \in Prompts : AskedStays(q)
  BY <1>2, <1>3 DEF AskedStays, Asked
<1>5. Onward
  BY <1>4 DEF Onward
<1>6. HandlersBounded'
  <2>1. Open' \subseteq Open \cup {p}
    BY <1>2 DEF Open
  <2>2. IsFiniteSet(Open) /\ p \notin Open
    BY <1>1 DEF HandlersBounded, Open, Closed
  <2>3. IsFiniteSet(Open \cup {p}) /\ Cardinality(Open \cup {p}) = Cardinality(Open) + 1
    BY <2>2, FS_AddElement
  <2>4. IsFiniteSet(Open') /\ Cardinality(Open') <= Cardinality(Open \cup {p})
    BY <2>1, <2>3, FS_Subset
  <2>5. Cardinality(Open') \in Nat /\ Cardinality(Open) \in Nat
    BY <2>2, <2>4, FS_CardinalityType
  <2>6. Cardinality(Open') <= MaxOpen
    BY <2>3, <2>4, <2>5, CommandBounds
  <2> QED
    BY <1>1, <1>2, <2>4, <2>6 DEF HandlersBounded
<1>7. ConfirmedOnce'
  <2>1. ASSUME NEW q \in Prompts \ {p}, AtWork(q)' PROVE AtWork(q) /\ Code(q)' = Code(q)
    BY <1>2, <1>3, <2>1 DEF AtWork, Requested, Code
  <2>2. ASSUME NEW q \in Prompts \ {p}, AtWork(q)' PROVE Confirmed(q)'
    <3>1. AtWork(q) /\ Confirmed(q)
      BY <1>1, <2>1, <2>2 DEF ConfirmedOnce
    <3>2. Requested(q)' => Requested(q)
      BY <1>2, <1>3 DEF Requested
    <3>3. CASE handler[q].cmd.kind = "model"
      BY <1>2, <3>1, <3>3 DEF Confirmed
    <3>4. CASE handler[q].cmd.kind # "model"
      <4>1. PICK k \in Prompts : k = Code(q) /\ k \in spent /\ Asked(k)
        BY <1>1, <3>1, <3>4 DEF Confirmed, CommandTypes
      <4>2. /\ Code(q)' = k /\ k \in spent' /\ Asked(k)' /\ handler'[k] = handler[k]
            /\ handler'[q] = handler[q]
        BY <1>2, <1>3, <1>4, <4>1 DEF AskedStays, Code
      <4> QED
        BY <3>1, <3>2, <4>1, <4>2 DEF Confirmed
    <3> QED
      BY <3>3, <3>4
  <2>3. AtWork(p)' => r.pc = "ready" \/ (r.pc = "send" /\ r.cmd.kind = "model")
    BY <1>2, <1>3 DEF AtWork, Requested
  <2>4. Code(p)' = r.cmd.code
    BY <1>2 DEF Code
  <2>5. ASSUME NEW q \in Prompts \ {p}, AtWork(q), AtWork(p)', r.cmd.code # None PROVE Code(q) # r.cmd.code
    <3>1. r.cmd.code \notin spent
      BY <2>3, <2>5
    <3>2. Confirmed(q)
      BY <1>1, <2>5 DEF ConfirmedOnce
    <3>3. CASE handler[q].cmd.kind = "model"
      <4>1. handler[q].cmd \in Commands
        BY <1>1, <3>3 DEF CommandTypes, Handlers, NoCommand
      <4>2. Code(q) = None
        BY <3>3, <4>1 DEF Commands, Code
      <4> QED
        BY <2>5, <4>2
    <3>4. CASE handler[q].cmd.kind # "model"
      BY <3>1, <3>2, <3>4 DEF Confirmed
    <3> QED
      BY <3>3, <3>4
  <2>6. ASSUME NEW q \in Prompts, NEW u \in Prompts, AtWork(q)', AtWork(u)',
               Code(q)' # None, Code(q)' = Code(u)'
        PROVE  q = u
    <3>1. CASE q # p /\ u # p
      BY <1>1, <2>1, <2>6, <3>1 DEF ConfirmedOnce
    <3>2. CASE q = p /\ u # p
      BY <2>1, <2>4, <2>5, <2>6, <3>2
    <3>3. CASE q # p /\ u = p
      BY <2>1, <2>4, <2>5, <2>6, <3>3
    <3> QED
      BY <3>1, <3>2, <3>3
  <2>7. ASSUME NEW q \in Prompts, HasJob(q)'
        PROVE  handler'[q].pc \in {"schedule", "unscheduled", "failed", "done", "lost"}
    BY <1>1, <1>2, <1>3, <2>7 DEF ConfirmedOnce
  <2>8. ASSUME NEW j \in jobs' PROVE j.target = handler'[j.prompt].target
    <3>1. j \in jobs /\ j.prompt \in Prompts /\ HasJob(j.prompt)
      BY <1>1, <2>8 DEF CommandTypes, HasJob
    <3> QED
      BY <1>1, <1>2, <1>3, <3>1 DEF ConfirmedOnce
  <2>9. \A q \in Prompts : AtWork(q)' => Confirmed(q)'
    BY <2>2, <2>3
  <2> QED
    BY <2>6, <2>7, <2>8, <2>9 DEF ConfirmedOnce
<1>8. TargetsListed'
  BY <1>1, <1>2, <1>5, TargetsStay DEF TargetsListed
<1>9. ListsShown'
  BY <1>1 DEF ListsShown
<1> QED
  BY <1>2, <1>5, <1>6, <1>7, <1>8, <1>9

LEMMA ListedTyped ==
    ASSUME CommandTypes, NEW s, NEW list \in Listed(s)
    PROVE  list \in Seq(Sessions) /\ Len(list) <= MaxListed
<1> DEFINE others == usable \ {s}
           n == IF Cardinality(others) < MaxListed THEN Cardinality(others) ELSE MaxListed
<1>1. IsFiniteSet(others)
  BY FS_Subset, CommandBounds DEF CommandTypes
<1>2. Cardinality(others) \in Nat
  BY <1>1, FS_CardinalityType
<1>3. n \in Nat /\ n <= MaxListed
  BY <1>2, CommandBounds
<1>4. list \in [1..n -> others]
  BY DEF Listed
<1> HIDE DEF n
<1> QED
  BY <1>3, <1>4 DEF CommandTypes

LEMMA ArriveConfirmed ==
    ASSUME CommandInv, NEW p \in Prompts, Arrive(p), NEW c \in Chats, NEW cmd \in Commands,
           LET h == [Idle EXCEPT !.chat = c, !.cmd = cmd, !.session = current]
           IN /\ h.cmd.kind \in {"confirm_reset", "confirm_resume"} /\ Matches(h)
              /\ Consumes(h.chat) /\ spent' = spent \cup {h.cmd.code} /\ UNCHANGED latest
              /\ Becomes(p, [h EXCEPT !.pc = "ready"])
    PROVE  CommandInv'
<1> DEFINE h == [Idle EXCEPT !.chat = c, !.cmd = cmd, !.session = current]
           r == [h EXCEPT !.pc = "ready"]
<1>1. CommandTypes /\ HandlersBounded /\ CodesKept /\ ConfirmedOnce
  BY DEF CommandInv
<1>2. /\ r \in Handlers /\ r.pc = "ready" /\ r.chat = c /\ r.cmd = cmd /\ r.session = current
      /\ r.entries = <<>> /\ r.target = None /\ h.chat = c /\ h.cmd = cmd /\ h.session = current
  <2>1. <<>> \in Seq(Sessions) /\ current \in Sessions
    BY <1>1 DEF CommandTypes
  <2> QED
    BY <2>1, StepsKnown DEF Idle, Handlers
<1> HIDE DEF h, r
<1>3. /\ Matches(h) /\ Consumes(c) /\ spent' = spent \cup {cmd.code} /\ UNCHANGED latest
      /\ Becomes(p, r) /\ cmd.kind \in {"confirm_reset", "confirm_resume"}
  BY <1>2 DEF h, r
<1>4. /\ UNCHANGED <<current, order, usable, snapshot, expired, atBroker, jobs, shown, told>>
      /\ handler[p].pc = "idle" /\ Cardinality(Open) < MaxOpen
  BY DEF Arrive, sessionVars, brokerVars
<1>5. PICK k \in Prompts : /\ k = challenge[c] /\ k = cmd.code /\ k \notin expired /\ k \notin spent
                          /\ Action(handler[k].cmd.kind) = Action(cmd.kind)
                          /\ handler[k].session = current /\ handler[k].chat = c
                          /\ Asked(k) /\ c \notin Groups
  BY <1>1, <1>2, <1>3 DEF Matches, CommandTypes, CodesKept
<1>6. k # p /\ ~HasJob(p)
  BY <1>1, <1>4, <1>5 DEF Asked, ConfirmedOnce
<1>7. /\ handler' \in [Prompts -> Handlers] /\ handler'[p] = r
      /\ \A q \in Prompts \ {p} : handler'[q] = handler[q]
  BY <1>1, <1>2, <1>3 DEF CommandTypes, Becomes
<1>8. Confirmed(p)'
  <2>1. Code(p)' = k /\ Asked(k)' /\ handler'[k] = handler[k]
    BY <1>2, <1>5, <1>6, <1>7 DEF Code, Asked
  <2>2. ~Requested(p)'
    BY <1>2, <1>4, <1>6, <1>7 DEF Requested, HasJob
  <2> QED
    BY <1>2, <1>3, <1>5, <1>7, <2>1, <2>2 DEF Confirmed
<1>9. Len(<<>>) <= MaxListed /\ cmd.kind # "model"
  BY <1>3, CommandBounds
<1>10. Onward /\ HandlersBounded' /\ ConfirmedOnce' /\ ListsShown' /\ TargetsListed'
  BY <1>2, <1>3, <1>4, <1>5, <1>8, <1>9, Newcomer
<1>11. challenge' \in [Chats -> Prompts \cup {None}] /\ challenge' = [challenge EXCEPT ![c] = None]
  BY <1>1, <1>3 DEF Consumes, CommandTypes
<1>12. CommandTypes'
  BY <1>1, <1>3, <1>4, <1>5, <1>7, <1>11 DEF CommandTypes
<1>13. \A q \in Prompts : AskedStays(q)
  BY <1>10 DEF Onward
<1>14. CodesKept'
  <2>1. ASSUME NEW d \in Chats, challenge'[d] # None
        PROVE  /\ challenge'[d] \notin spent' /\ Asked(challenge[d])' /\ challenge'[d] = challenge[d]
               /\ handler'[challenge[d]].chat = d /\ d \notin Groups
    <3>1. d # c /\ challenge'[d] = challenge[d]
      BY <1>1, <1>11, <2>1 DEF CommandTypes
    <3>2. challenge[d] \in Prompts /\ Asked(challenge[d]) /\ handler[challenge[d]].chat = d
          /\ challenge[d] \notin spent /\ d \notin Groups
      BY <1>1, <2>1, <3>1 DEF CodesKept, CommandTypes
    <3>3. challenge[d] # k
      BY <1>5, <3>1, <3>2
    <3> QED
      BY <1>3, <1>5, <1>13, <3>1, <3>2, <3>3 DEF AskedStays
  <2>2. ASSUME NEW d \in Chats, latest[d] # None PROVE Asked(latest[d])'
    BY <1>1, <1>3, <1>13, <2>2 DEF CodesKept, AskedStays, CommandTypes
  <2>3. ASSUME NEW d \in Chats, latest[d] # None, handler'[latest[d]].pc # "revoked",
               latest[d] \notin spent' \cup expired
        PROVE  challenge'[d] = latest[d]
    <3>1. latest[d] \in Prompts /\ Asked(latest[d]) /\ latest[d] # p
      BY <1>1, <1>4, <2>3 DEF CommandTypes, CodesKept, Asked
    <3>2. challenge[d] = latest[d]
      BY <1>1, <1>3, <1>7, <2>3, <3>1 DEF CodesKept
    <3>3. latest[d] # k
      BY <1>3, <1>5, <2>3
    <3> QED
      BY <1>1, <1>5, <1>11, <3>2, <3>3 DEF CommandTypes
  <2>4. \A q \in spent' : Asked(q)'
    BY <1>1, <1>3, <1>5, <1>13 DEF CodesKept, AskedStays, CommandTypes
  <2>5. spent' \cap expired = {}
    BY <1>1, <1>3, <1>5 DEF CodesKept
  <2> QED
    BY <1>3, <1>4, <2>1, <2>2, <2>3, <2>4, <2>5 DEF CodesKept
<1> QED
  BY <1>10, <1>12, <1>14 DEF CommandInv

\* What it fails to confirm does not take the chat's code away, unless it is
\* too old to be of use.
LEMMA ArriveRefused ==
    ASSUME CommandInv, NEW p \in Prompts, Arrive(p), NEW c \in Chats, Fails(p),
           Forgets(c) \/ UNCHANGED challenge, UNCHANGED <<latest, spent>>
    PROVE  CommandInv'
<1> DEFINE r == [Idle EXCEPT !.pc = "failed"]
<1>1. CommandTypes /\ HandlersBounded /\ CodesKept /\ ConfirmedOnce
  BY DEF CommandInv
<1>2. r \in Handlers /\ r.pc = "failed" /\ r.entries = <<>> /\ r.target = None
  BY IdleTyped, StepsKnown DEF Idle
<1>3. Becomes(p, r)
  BY DEF Fails
<1> HIDE DEF r
<1>4. /\ UNCHANGED <<current, order, usable, snapshot, expired, atBroker, jobs, shown, told>>
      /\ handler[p].pc = "idle" /\ Cardinality(Open) < MaxOpen
  BY DEF Arrive, sessionVars, brokerVars
<1>5. Len(<<>>) <= MaxListed
  BY CommandBounds
<1>6. /\ Onward /\ HandlersBounded' /\ ConfirmedOnce' /\ ListsShown' /\ TargetsListed'
      /\ handler' \in [Prompts -> Handlers] /\ handler'[p] = r
      /\ \A q \in Prompts \ {p} : handler'[q] = handler[q]
  BY <1>2, <1>3, <1>4, <1>5, Newcomer
<1>7. /\ challenge' \in [Chats -> Prompts \cup {None}]
      /\ \A d \in Chats : challenge'[d] \in {challenge[d], None}
      /\ \A d \in Chats : challenge'[d] = challenge[d] \/ challenge[d] \in expired
  BY <1>1 DEF Forgets, Consumes, CommandTypes
<1>8. CommandTypes'
  BY <1>1, <1>4, <1>6, <1>7 DEF CommandTypes
<1>9. \A q \in Prompts : AskedStays(q)
  BY <1>6 DEF Onward
<1>10. CodesKept'
  <2>1. ASSUME NEW d \in Chats, challenge'[d] # None
        PROVE  /\ challenge'[d] \notin spent /\ Asked(challenge[d])' /\ challenge'[d] = challenge[d]
               /\ handler'[challenge[d]].chat = d /\ d \notin Groups
    BY <1>1, <1>7, <1>9, <2>1 DEF CodesKept, AskedStays, CommandTypes
  <2>2. ASSUME NEW d \in Chats, latest[d] # None PROVE Asked(latest[d])'
    BY <1>1, <1>9, <2>2 DEF CodesKept, AskedStays, CommandTypes
  <2>3. ASSUME NEW d \in Chats, latest[d] # None, handler'[latest[d]].pc # "revoked",
               latest[d] \notin spent \cup expired
        PROVE  challenge'[d] = latest[d]
    <3>1. latest[d] \in Prompts /\ Asked(latest[d]) /\ latest[d] # p
      BY <1>1, <1>4, <2>3 DEF CommandTypes, CodesKept, Asked
    <3>2. challenge[d] = latest[d]
      BY <1>1, <1>6, <2>3, <3>1 DEF CodesKept
    <3> QED
      BY <1>7, <2>3, <3>2
  <2>4. \A q \in spent : Asked(q)'
    BY <1>1, <1>9 DEF CodesKept, AskedStays, CommandTypes
  <2> QED
    BY <1>1, <1>4, <2>1, <2>2, <2>3, <2>4 DEF CodesKept
<1> QED
  BY <1>6, <1>8, <1>10 DEF CommandInv

LEMMA ArriveIssued ==
    ASSUME CommandInv, NEW p \in Prompts, Arrive(p), NEW c \in Chats \ Groups, NEW cmd \in Commands,
           LET h == [Idle EXCEPT !.chat = c, !.cmd = cmd, !.session = current]
           IN Issue(p, h)
    PROVE  CommandInv'
<1> DEFINE h == [Idle EXCEPT !.chat = c, !.cmd = cmd, !.session = current]
           r == [h EXCEPT !.pc = "send"]
<1>1. CommandTypes /\ HandlersBounded /\ CodesKept /\ ConfirmedOnce
  BY DEF CommandInv
<1>2. /\ r \in Handlers /\ r.pc = "send" /\ r.chat = c /\ r.cmd = cmd
      /\ r.entries = <<>> /\ r.target = None /\ h.chat = c /\ h.cmd = cmd
  <2>1. <<>> \in Seq(Sessions) /\ "send" \in Steps /\ current \in Sessions
    BY <1>1 DEF Steps, CommandTypes
  <2> QED
    BY <2>1 DEF Idle, Handlers
<1> HIDE DEF h, r
<1>3. /\ cmd.kind \in {"reset", "resume"} /\ challenge' = [challenge EXCEPT ![c] = p]
      /\ latest' = [latest EXCEPT ![c] = p] /\ Becomes(p, r) /\ UNCHANGED spent
  BY <1>2 DEF h, r, Issue
<1>4. /\ UNCHANGED <<current, order, usable, snapshot, expired, atBroker, jobs, shown, told>>
      /\ handler[p].pc = "idle" /\ Cardinality(Open) < MaxOpen
  BY DEF Arrive, sessionVars, brokerVars
<1>5. Len(<<>>) <= MaxListed
  BY CommandBounds
<1>6. /\ Onward /\ HandlersBounded' /\ ConfirmedOnce' /\ ListsShown' /\ TargetsListed'
      /\ handler' \in [Prompts -> Handlers] /\ handler'[p] = r
      /\ \A q \in Prompts \ {p} : handler'[q] = handler[q]
  BY <1>2, <1>3, <1>4, <1>5, Newcomer
<1>7. CommandTypes'
  BY <1>1, <1>3, <1>4, <1>6 DEF CommandTypes
<1>8. \A q \in Prompts : AskedStays(q)
  BY <1>6 DEF Onward
<1>9. Asked(p)' /\ p \notin spent /\ handler'[p].chat = c
  BY <1>1, <1>2, <1>3, <1>4, <1>6 DEF Asked, CodesKept
<1>10. CodesKept'
  <2>1. ASSUME NEW d \in Chats, challenge'[d] # None
        PROVE  /\ challenge'[d] \notin spent /\ Asked(challenge[d])'
               /\ handler'[challenge'[d]].chat = d /\ d \notin Groups
    <3>1. CASE d = c
      BY <1>1, <1>3, <1>9, <3>1 DEF CommandTypes
    <3>2. CASE d # c
      BY <1>1, <1>3, <1>8, <2>1, <3>2 DEF CodesKept, AskedStays, CommandTypes
    <3> QED
      BY <3>1, <3>2
  <2>2. ASSUME NEW d \in Chats, latest'[d] # None PROVE Asked(latest[d])'
    <3>1. CASE d = c
      BY <1>1, <1>3, <1>9, <3>1 DEF CommandTypes
    <3>2. CASE d # c
      BY <1>1, <1>3, <1>8, <2>2, <3>2 DEF CodesKept, AskedStays, CommandTypes
    <3> QED
      BY <3>1, <3>2
  <2>3. ASSUME NEW d \in Chats, latest'[d] # None, handler'[latest'[d]].pc # "revoked",
               latest'[d] \notin spent \cup expired
        PROVE  challenge'[d] = latest'[d]
    <3>1. CASE d = c
      BY <1>1, <1>3, <3>1 DEF CommandTypes
    <3>2. CASE d # c
      <4>1. latest'[d] = latest[d] /\ challenge'[d] = challenge[d]
        BY <1>1, <1>3, <3>2 DEF CommandTypes
      <4>2. latest[d] \in Prompts /\ Asked(latest[d]) /\ latest[d] # p
        BY <1>1, <1>4, <2>3, <4>1 DEF CommandTypes, CodesKept, Asked
      <4> QED
        BY <1>1, <1>6, <2>3, <4>1, <4>2 DEF CodesKept
    <3> QED
      BY <3>1, <3>2
  <2>4. \A q \in spent : Asked(q)'
    BY <1>1, <1>8 DEF CodesKept, AskedStays, CommandTypes
  <2> QED
    BY <1>1, <1>3, <1>4, <2>1, <2>2, <2>3, <2>4 DEF CodesKept
<1> QED
  BY <1>6, <1>7, <1>10 DEF CommandInv

LEMMA ArriveAnswered ==
    ASSUME CommandInv, NEW p \in Prompts, Arrive(p), NEW c \in Chats, NEW cmd \in Commands,
           Allowed(c, cmd),
           LET h == [Idle EXCEPT !.chat = c, !.cmd = cmd, !.session = current]
           IN Answer(p, h)
    PROVE  CommandInv'
<1> DEFINE h == [Idle EXCEPT !.chat = c, !.cmd = cmd, !.session = current]
<1>1. CommandTypes /\ HandlersBounded /\ CodesKept /\ ConfirmedOnce
  BY DEF CommandInv
<1>2. h.cmd = cmd /\ "send" \in Steps /\ <<>> \in Seq(Sessions) /\ Len(<<>>) <= MaxListed
  <2>1. <<>> \in Seq(Sessions) /\ "send" \in Steps
    BY DEF Steps
  <2> QED
    BY <2>1, CommandBounds DEF Idle
<1>3. PICK list \in Seq(Sessions) :
         Len(list) <= MaxListed /\ Becomes(p, [h EXCEPT !.pc = "send", !.entries = list])
  BY <1>1, <1>2, ListedTyped DEF Answer
<1> DEFINE r == [h EXCEPT !.pc = "send", !.entries = list]
<1>4. /\ r \in Handlers /\ r.pc = "send" /\ r.chat = c /\ r.cmd = cmd
      /\ r.entries = list /\ r.target = None
  <2>1. current \in Sessions
    BY <1>1 DEF CommandTypes
  <2> QED
    BY <1>2, <2>1 DEF Idle, Handlers
<1>5. Becomes(p, r)
  BY <1>3
<1>6. UNCHANGED <<challenge, latest, spent>> /\ cmd.kind \in {"list", "model", "rename", "query"}
  BY <1>2 DEF Answer
<1> HIDE DEF h, r
<1>7. /\ UNCHANGED <<current, order, usable, snapshot, expired, atBroker, jobs, shown, told>>
      /\ handler[p].pc = "idle" /\ Cardinality(Open) < MaxOpen
  BY DEF Arrive, sessionVars, brokerVars
<1>8. ~HasJob(p)
  BY <1>1, <1>7 DEF ConfirmedOnce
<1>9. cmd.kind = "model" => cmd.code = None /\ Confirmed(p)'
  <2>1. cmd.kind = "model" => cmd.code = None /\ c \notin Groups
    BY DEF Commands, Allowed, ReadOnly
  <2>2. handler'[p] = r
    BY <1>1, <1>5 DEF Becomes, CommandTypes
  <2> QED
    BY <1>4, <2>1, <2>2 DEF Confirmed
<1>10. /\ Onward /\ HandlersBounded' /\ ConfirmedOnce' /\ ListsShown' /\ TargetsListed'
       /\ handler' \in [Prompts -> Handlers] /\ handler'[p] = r
       /\ \A q \in Prompts \ {p} : handler'[q] = handler[q]
  BY <1>3, <1>4, <1>5, <1>6, <1>7, <1>9, Newcomer
<1>11. CommandTypes'
  BY <1>1, <1>6, <1>7, <1>10 DEF CommandTypes
<1>12. CodesKept'
  BY <1>1, <1>6, <1>7, <1>10, CodesStay DEF Asked
<1> QED
  BY <1>10, <1>11, <1>12 DEF CommandInv

LEMMA ArriveKeeps ==
    ASSUME CommandInv, NEW p \in Prompts, Arrive(p)
    PROVE  CommandInv'
<1>1. PICK c \in Chats, cmd \in Commands :
         LET h == [Idle EXCEPT !.chat = c, !.cmd = cmd, !.session = current]
         IN IF Allowed(c, cmd)
            THEN Confirm(p, h) \/ Issue(p, h) \/ Answer(p, h)
            ELSE /\ Fails(p)
                 /\ UNCHANGED <<challenge, latest, spent>>
  BY DEF Arrive
<1> DEFINE h == [Idle EXCEPT !.chat = c, !.cmd = cmd, !.session = current]
<1>2. h.chat = c /\ h.cmd = cmd
  BY DEF Idle
<1>3. CASE ~Allowed(c, cmd)
  BY <1>1, <1>3, ArriveRefused
<1>4. CASE Allowed(c, cmd) /\ Confirm(p, h)
  <2>1. CASE Matches(h)
    BY <1>4, <2>1, ArriveConfirmed DEF Confirm
  <2>2. CASE ~Matches(h)
    BY <1>2, <1>4, <2>2, ArriveRefused DEF Confirm
  <2> QED
    BY <2>1, <2>2
<1>5. CASE Allowed(c, cmd) /\ Issue(p, h)
  <2>1. c \notin Groups
    BY <1>2, <1>5 DEF Issue, Allowed, ReadOnly
  <2> QED
    BY <1>5, <2>1, ArriveIssued
<1>6. CASE Allowed(c, cmd) /\ Answer(p, h)
  BY <1>6, ArriveAnswered
<1> QED
  BY <1>1, <1>3, <1>4, <1>5, <1>6
----------------------------------------------------------------------------
(* The invariant, and what it is for *)

LEMMA CommandInit == Init => CommandInv
<1> SUFFICES ASSUME Init PROVE CommandInv
  OBVIOUS
<1>1. Idle \in Handlers /\ Idle.pc = "idle" /\ Idle.target = None /\ Idle.entries = <<>>
  <2>1. <<>> \in Seq(Sessions)
    OBVIOUS
  <2> QED
    BY <2>1 DEF Idle, Handlers, Steps, Closed
<1>2. NoList \in Snapshots /\ NoList.fresh = FALSE
  <2>1. <<>> \in Seq(Sessions)
    OBVIOUS
  <2> QED
    BY <2>1 DEF NoList, Snapshots
<1>3. \A p \in Prompts : handler[p] = Idle /\ ~HasJob(p) /\ ~AtWork(p)
  BY <1>1 DEF Init, HasJob, AtWork, Requested
<1>4. CommandTypes
  BY <1>1, <1>2 DEF Init, CommandTypes
<1>5. HandlersBounded
  <2>1. Open = {} /\ Len(<<>>) <= MaxListed
    BY <1>1, <1>3, CommandBounds DEF Open, Closed
  <2>2. IsFiniteSet(Open) /\ Cardinality(Open) = 0
    BY <2>1, FS_EmptySet
  <2> QED
    BY <1>1, <1>3, <2>1, <2>2, CommandBounds DEF HandlersBounded
<1>6. CodesKept /\ ConfirmedOnce /\ ListsShown /\ TargetsListed
  BY <1>1, <1>2, <1>3 DEF Init, CodesKept, ConfirmedOnce, ListsShown, TargetsListed
<1> QED
  BY <1>4, <1>5, <1>6 DEF CommandInv

LEMMA CommandStep == CommandInv /\ [Next]_vars => CommandInv'
<1> SUFFICES ASSUME CommandInv, [Next]_vars PROVE CommandInv'
  OBVIOUS
<1>1. ASSUME NEW p \in Prompts, Arrive(p) PROVE CommandInv'
  BY <1>1, ArriveKeeps
<1>2. ASSUME NEW p \in Prompts, Step(p) PROVE CommandInv'
  BY <1>2, PlainKeeps, ShowCodeKeeps, CheckKeeps DEF Step, PlainStep
<1>3. ASSUME NEW p \in Prompts, BrokerStarts(p) \/ BrokerRefuses(p) PROVE CommandInv'
  BY <1>3, BrokerKeeps
<1>4. ASSUME NEW c \in Chats, ChallengeExpires(c) \/ ListExpires(c) PROVE CommandInv'
  BY <1>4, ExpiryKeeps
<1>5. ASSUME NEW s \in Sessions, SessionActive(s) \/ SessionSwitches(s) PROVE CommandInv'
  BY <1>5, SessionsKeep
<1>6. ASSUME NEW s \in Sessions, ServiceRestarts(s) PROVE CommandInv'
  BY <1>6, RestartKeeps
<1>7. ASSUME NEW gone \in SUBSET Sessions, TranscriptsGo(gone) PROVE CommandInv'
  BY <1>7, SessionsKeep
<1>8. CASE UNCHANGED vars
  <2>1. UNCHANGED <<current, order, usable, snapshot, challenge, expired, handler, atBroker, jobs,
                    shown, latest, spent, told>>
    BY <1>8 DEF vars, sessionVars, storeVars, brokerVars, histVars
  <2>2. CommandTypes' /\ CodesKept' /\ ListsShown'
    BY <2>1, CodesStay DEF CommandInv, CommandTypes, ListsShown
  <2>3. HandlersBounded' /\ ConfirmedOnce' /\ TargetsListed'
    BY <2>1, RestStays DEF HasJob, CommandInv, ConfirmedOnce
  <2> QED
    BY <2>2, <2>3 DEF CommandInv
<1> QED
  BY <1>1, <1>2, <1>3, <1>4, <1>5, <1>6, <1>7, <1>8 DEF Next

\* The inductive invariant: codes, handlers, the broker's jobs and the numbered
\* lists agree, whatever runs, fails, expires or restarts between two steps.
THEOREM CommandInvariant == Spec => []CommandInv
<1>1. Init => CommandInv
  BY CommandInit
<1>2. CommandInv /\ [Next]_vars => CommandInv'
  BY CommandStep
<1> QED
  BY <1>1, <1>2, PTL DEF Spec

\* Each reset and resume job of the broker stands for a code of its own, asked
\* for in the same private chat, action and session, confirmed in time, and
\* acknowledged first (handleConfirmedControlCommand, ConfirmationChallengeStore).
THEOREM OneCodePerJob == Spec => []EachJobWasConfirmed
<1>1. CommandInv => EachJobWasConfirmed
  <2> SUFFICES ASSUME CommandInv PROVE EachJobWasConfirmed
    OBVIOUS
  <2>1. CommandTypes /\ CodesKept /\ ConfirmedOnce
    BY DEF CommandInv
  <2>2. ASSUME NEW j \in jobs
        PROVE  /\ j.prompt \in Prompts /\ AtWork(j.prompt) /\ Confirmed(j.prompt)
               /\ Requested(j.prompt)
    BY <2>1 DEF CommandTypes, HasJob, Requested, AtWork, ConfirmedOnce
  <2>3. ASSUME NEW j \in jobs, NEW k \in jobs, handler[j.prompt].cmd.kind # "model",
               handler[k.prompt].cmd.code = handler[j.prompt].cmd.code
        PROVE  k = j
    <3>1. Code(j.prompt) # None
      BY <2>1, <2>2, <2>3, CommandBounds DEF Confirmed, CommandTypes
    <3>2. k.prompt = j.prompt
      BY <2>1, <2>2, <2>3, <3>1 DEF ConfirmedOnce, Code
    <3>3. k.target = j.target
      BY <2>1, <3>2 DEF ConfirmedOnce
    <3> QED
      BY <2>1, <3>2, <3>3 DEF CommandTypes
  <2> QED
    BY <2>1, <2>2, <2>3 DEF EachJobWasConfirmed, CodesKept, Confirmed, Code, Command
<1> QED
  BY <1>1, CommandInvariant, PTL

\* The variables keep their types, and a code that the chat is known to have
\* received can be confirmed until it expires (ConfirmationChallengeStore.revoke
\* and consume take away no other's).
THEOREM ShownCodeWorks == Spec => []LatestCodeWorks
<1>1. CommandInv => LatestCodeWorks
  <2> SUFFICES ASSUME CommandInv PROVE LatestCodeWorks
    OBVIOUS
  <2>1. CommandTypes /\ HandlersBounded /\ CodesKept /\ ListsShown
    BY DEF CommandInv
  <2>2. TypeOK
    BY <2>1 DEF TypeOK, CommandTypes, HandlersBounded, CodesKept, ListsShown, Handlers
  <2> QED
    BY <2>1, <2>2 DEF LatestCodeWorks, CodesKept
<1> QED
  BY <1>1, CommandInvariant, PTL

\* A resumed session had the number that was confirmed in a list that reached
\* the chat (resumeSessionTrusted, readSelectionSnapshot).
THEOREM NumbersMeanWhatWasShown == Spec => []ListedTarget
<1>1. CommandInv => ListedTarget
  <2> SUFFICES ASSUME CommandInv, NEW j \in jobs, j.target # None
               PROVE  LET h == handler[j.prompt] IN
                      /\ j.target # h.session
                      /\ \E l \in shown : /\ l.chat = h.chat /\ j.target # l.session
                                          /\ Command(h.cmd.code).index <= Len(l.entries)
                                          /\ l.entries[Command(h.cmd.code).index] = j.target
    BY DEF ListedTarget
  <2>1. j.prompt \in Prompts /\ handler[j.prompt].target = j.target
    BY DEF CommandInv, CommandTypes, ConfirmedOnce
  <2>2. TargetListed(j.prompt)
    BY <2>1 DEF CommandInv, TargetsListed
  <2> QED
    BY <2>1, <2>2 DEF TargetListed, Code, Command
<1> QED
  BY <1>1, CommandInvariant, PTL
=============================================================================
