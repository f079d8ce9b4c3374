--------------------------- MODULE ControlCommands ---------------------------
(***************************************************************************)
(* The control server's dispatcher (session-control-mcp/src):              *)
(* command-dispatch.ts with the confirmation codes of control-command.ts,  *)
(* the numbered lists of sessions-control.ts and session-selection.ts, and *)
(* the client of the root broker in runtime.ts.                            *)
(*                                                                         *)
(* A prompt of the Channel is handled by the dispatcher up to its next     *)
(* await; meanwhile others may run, as the hook gives up after 30 seconds  *)
(* and the handler does not.  Telegram, the broker, and whatever restarts  *)
(* the service (SessionReset) are external.                                *)
(***************************************************************************)
EXTENDS Naturals, Sequences, FiniteSets, SequencesExt

CONSTANTS
    Prompts,        \* messages to the bot
    Chats,          \* allowlisted chats
    Groups,         \* those of Chats that are groups
    Sessions,
    None,
    MaxListed,      \* MAX_LISTED_SESSIONS
    MaxOpen,        \* bound: handlers at work at a time
    MaxMishaps,     \* bound: failing calls
    MaxChanges      \* bound: what sessions and the service do by themselves

ASSUME CommandBounds == /\ MaxListed \in Nat \ {0} /\ MaxOpen \in Nat /\ MaxMishaps \in Nat
                        /\ MaxChanges \in Nat /\ IsFiniteSet(Sessions)
                        /\ Groups \subseteq Chats /\ None \notin Prompts \cup Sessions

VARIABLES
    current,    \* the session the service runs
    order,      \* the sessions with a transcript, latest activity first
    usable,     \* those whose transcript can be resumed
    snapshot,   \* [Chats -> the numbered list on disk, or NoList]
    challenge,  \* [Chats -> the code that may be confirmed, or None: the prompt
                \*  that asked for it]
    expired,    \* codes that are more than 60 seconds old
    handler,    \* [Prompts -> local state]
    atBroker,   \* prompts whose request the broker has yet to decide
    jobs,       \* jobs the broker has started
    shown,      \* history: lists known to have reached a chat
    latest,     \* history: [Chats -> the last code issued by this process]
    spent,      \* history: codes that were confirmed
    told,       \* history: [Prompts -> what of interest the chat was told of it]
    mishaps, changes

sessionVars == <<current, order, usable, changes>>
storeVars == <<snapshot, challenge, expired>>
histVars == <<shown, latest, spent, told>>
brokerVars == <<atBroker, jobs>>
vars == <<sessionVars, storeVars, handler, brokerVars, histVars, mishaps>>

Indices == 1..MaxListed
\* parseControlCommand: exact commands only.  A confirmation carries a code,
\* and a code is as good as the prompt it was issued for.
Commands ==
    [kind : {"list", "reset", "model", "rename", "query"}, index : {0}, code : {None}]
    \cup [kind : {"resume"}, index : Indices, code : {None}]
    \cup [kind : {"confirm_reset", "confirm_resume"}, index : {0}, code : Prompts]
ReadOnly == {"list", "query"}

Closed == {"idle", "done", "revoked", "lost"}
Steps == Closed \cup {"send", "ready", "ack", "schedule", "unscheduled", "failed"}
NoCommand == [kind |-> "none", index |-> 0, code |-> None]
Idle == [pc |-> "idle", chat |-> None, cmd |-> NoCommand, session |-> None,
         entries |-> <<>>, target |-> None]
NoList == [session |-> None, entries |-> <<>>, fresh |-> FALSE]

Init ==
    /\ current \in Sessions
    /\ order \in SetToSeqs(Sessions) /\ usable = Sessions
    /\ snapshot = [c \in Chats |-> NoList]
    /\ challenge = [c \in Chats |-> None] /\ expired = {}
    /\ handler = [p \in Prompts |-> Idle]
    /\ atBroker = {} /\ jobs = {} /\ shown = {} /\ spent = {}
    /\ latest = [c \in Chats |-> None]
    /\ told = [p \in Prompts |-> {}]
    /\ mishaps = 0 /\ changes = 0

Becomes(p, h) == handler' = [handler EXCEPT ![p] = h]
Goes(p, pc) == Becomes(p, [handler[p] EXCEPT !.pc = pc])
Open == {p \in Prompts : handler[p].pc \notin Closed}
Mishap == mishaps < MaxMishaps /\ mishaps' = mishaps + 1
Works == UNCHANGED mishaps
Change == changes < MaxChanges /\ changes' = changes + 1

\* sendTelegramMessage: it returns the message's id, or throws, knowing
\* nothing of whether the message arrived.
Delivered(p, what) == told' = [told EXCEPT ![p] = @ \cup {what}]
Sent(p, what) == Delivered(p, what) /\ Works
SendThrows(p, what) == (Delivered(p, what) \/ UNCHANGED told) /\ Mishap
\* A handler ends; what it asked for is kept if it can still matter.
Ends(p) ==
    IF p \in atBroker \/ (\E j \in jobs : j.prompt = p) THEN Goes(p, "done")
    ELSE Becomes(p, [Idle EXCEPT !.pc = "done"])
\* It reports a failure, and needs nothing else of the command for that.
Fails(p) == Becomes(p, [Idle EXCEPT !.pc = "failed"])
----------------------------------------------------------------------------
(* A prompt arrives: everything up to the first await *)

\* scanResumableSessions: latest activity first, without the session that asks:
\* whatever is before an entry in that order is before it in the list.
Before(o, t, u) == \E i, j \in DOMAIN o : i < j /\ o[i] = t /\ o[j] = u
Listed(s) ==
    LET others == usable \ {s}
        n == IF Cardinality(others) < MaxListed THEN Cardinality(others) ELSE MaxListed
    IN {l \in [1..n -> others] :
          /\ IsInjective(l)
          /\ \A i \in 1..n, t \in others :
               Before(order, t, l[i]) => \E j \in 1..i - 1 : l[j] = t}

\* ConfirmationChallengeStore.consume.  A code past its time is deleted; one
\* that does not match stays.
Action(kind) == IF kind \in {"reset", "confirm_reset"} THEN "reset" ELSE "resume"
Matches(h) ==
    LET q == challenge[h.chat]
    IN /\ q # None /\ q \notin expired /\ h.cmd.code = q
       /\ Action(handler[q].cmd.kind) = Action(h.cmd.kind)
       /\ handler[q].session = h.session
\* (Mutant of Consumes: a code is good for more than one confirmation.)
ConsumesNothing(c) == UNCHANGED challenge
Consumes(c) == challenge' = [challenge EXCEPT ![c] = None]
Forgets(c) == IF challenge[c] \in expired THEN Consumes(c) ELSE UNCHANGED challenge
Confirm(p, h) ==
    /\ h.cmd.kind \in {"confirm_reset", "confirm_resume"}
    /\ IF Matches(h)
       THEN /\ Consumes(h.chat) /\ spent' = spent \cup {h.cmd.code}
            /\ Becomes(p, [h EXCEPT !.pc = "ready"])
       ELSE /\ Forgets(h.chat) /\ UNCHANGED spent
            /\ Fails(p)
    /\ UNCHANGED latest

\* A code replaces the chat's former one, shown or not.
Issue(p, h) ==
    /\ h.cmd.kind \in {"reset", "resume"}
    /\ challenge' = [challenge EXCEPT ![h.chat] = p]
    /\ latest' = [latest EXCEPT ![h.chat] = p]
    /\ Becomes(p, [h EXCEPT !.pc = "send"])
    /\ UNCHANGED spent
Answer(p, h) ==
    /\ h.cmd.kind \in {"list", "model", "rename", "query"}
    /\ \E list \in (IF h.cmd.kind = "list" THEN Listed(h.session) ELSE {<<>>}) :
         Becomes(p, [h EXCEPT !.pc = "send", !.entries = list])
    /\ UNCHANGED <<challenge, latest, spent>>

\* The chat is one of the allowlist, and only reads are for groups.
Allowed(c, cmd) == cmd.kind \in ReadOnly \/ c \notin Groups
\* A code can be typed by whoever saw it, in any chat and at any time.
Known(cmd) == cmd.code = None \/ "code" \in told[cmd.code]
Arrive(p) ==
    /\ handler[p].pc = "idle" /\ Cardinality(Open) < MaxOpen
    /\ \E c \in Chats, cmd \in {x \in Commands : Known(x)} :
         LET h == [Idle EXCEPT !.chat = c, !.cmd = cmd, !.session = current]
         IN IF Allowed(c, cmd)
            THEN Confirm(p, h) \/ Issue(p, h) \/ Answer(p, h)
            ELSE /\ Fails(p)
                 /\ UNCHANGED <<challenge, latest, spent>>
    /\ UNCHANGED <<sessionVars, snapshot, expired, brokerVars, shown, told, mishaps>>
----------------------------------------------------------------------------
(* The first answer *)

\* The list that is in force once h's is known to be there; an empty one
\* leaves the older one.
Activated(h) ==
    IF h.entries = <<>> THEN snapshot[h.chat]
    ELSE [session |-> h.session, entries |-> h.entries, fresh |-> TRUE]
\* listSessionsTrusted: the numbers mean something only once the list is sent.
\* The throw after a failing write is that of a failing send.  (Mutant: the
\* mapping is written first.)
ListUnseenButActive(p) ==
    /\ Fails(p) /\ Mishap /\ UNCHANGED shown
    /\ snapshot' = [snapshot EXCEPT ![handler[p].chat] = Activated(handler[p])]
ListUnseen(p) == Fails(p) /\ Mishap /\ UNCHANGED <<shown, snapshot>>
ShowList(p) ==
    LET h == handler[p]
    IN /\ h.pc = "send" /\ h.cmd.kind = "list"
       /\ \/ /\ shown' = shown \cup {[chat |-> h.chat, session |-> h.session, entries |-> h.entries]}
             /\ \/ snapshot' = [snapshot EXCEPT ![h.chat] = Activated(h)] /\ Ends(p) /\ Works
                \/ h.entries # <<>> /\ UNCHANGED snapshot /\ Fails(p) /\ Mishap
          \/ ListUnseen(p)
       /\ UNCHANGED <<sessionVars, challenge, expired, brokerVars, latest, spent, told>>

\* A code the chat is not known to have received is revoked, by its own value.
\* (Mutant of Revoke: whatever code the chat has goes.)
RevokeAnything(p) == Consumes(handler[p].chat)
Revoke(p) ==
    IF challenge[handler[p].chat] = p THEN Consumes(handler[p].chat)
    ELSE Forgets(handler[p].chat)
ShowCode(p) ==
    /\ handler[p].pc = "send" /\ handler[p].cmd.kind \in {"reset", "resume"}
    /\ \/ Sent(p, "code") /\ Goes(p, "done") /\ UNCHANGED challenge
       \/ SendThrows(p, "code") /\ Goes(p, "revoked") /\ Revoke(p)
    /\ UNCHANGED <<sessionVars, snapshot, expired, brokerVars, shown, latest, spent>>

\* /model announces the switch before it asks for it; /rename renames first
\* (SessionTitles), and its failure, or that of the message, is "failed".
ShowAnswer(p) ==
    /\ handler[p].pc = "send" /\ handler[p].cmd.kind \in {"model", "rename", "query"}
    /\ \/ (IF handler[p].cmd.kind = "model" THEN Goes(p, "ready") ELSE Ends(p)) /\ Works
       \/ Fails(p) /\ Mishap
    /\ UNCHANGED <<sessionVars, storeVars, brokerVars, histVars>>
----------------------------------------------------------------------------
(* A confirmed command, or a switch of model *)

\* readSelectionSnapshot and resolveSelection: the number the code was issued
\* for, in the list that is in force now.
Selected(h) ==
    LET list == snapshot[h.chat]
        index == handler[h.cmd.code].cmd.index
    IN IF list.fresh /\ index <= Len(list.entries) THEN list.entries[index] ELSE None
\* resumeSessionTrusted's refusals, and assertUsableSessionTranscript.
Resumable(h, t) == t # None /\ t \notin {h.session, snapshot[h.chat].session} /\ t \in usable

\* helperReady, and the whole of the checks up to the acknowledgement's send.
CheckHelper(p) ==
    LET h == handler[p]
    IN /\ h.pc = "ready"
       /\ \/ Fails(p) /\ Mishap
          \/ h.cmd.kind = "model" /\ Becomes(p, [h EXCEPT !.pc = "schedule"]) /\ Works
          \/ h.cmd.kind = "confirm_reset" /\ Goes(p, "ack") /\ Works
          \/ /\ h.cmd.kind = "confirm_resume" /\ Works
             /\ IF Resumable(h, Selected(h))
                THEN Becomes(p, [h EXCEPT !.pc = "ack", !.target = Selected(h)])
                ELSE Fails(p)
       /\ atBroker' = IF handler'[p].pc = "schedule" THEN atBroker \cup {p} ELSE atBroker
       /\ UNCHANGED <<sessionVars, storeVars, jobs, histVars>>

\* "ACK delivery failed": then nothing is scheduled.
Acknowledge(p) ==
    /\ handler[p].pc = "ack"
    /\ \/ Sent(p, "ack") /\ Goes(p, "schedule") /\ atBroker' = atBroker \cup {p}
       \/ SendThrows(p, "ack") /\ Fails(p) /\ UNCHANGED atBroker
    /\ UNCHANGED <<sessionVars, storeVars, jobs, shown, latest, spent>>

\* callControlBroker.  The broker decides whether or not its client still waits.
BrokerStarts(p) ==
    /\ p \in atBroker
    /\ jobs' = jobs \cup {[prompt |-> p, target |-> handler[p].target]}
    /\ atBroker' = atBroker \ {p}
    /\ UNCHANGED <<sessionVars, storeVars, handler, histVars, mishaps>>
BrokerRefuses(p) ==
    /\ p \in atBroker /\ Mishap
    /\ atBroker' = atBroker \ {p}
    /\ UNCHANGED <<sessionVars, storeVars, handler, jobs, histVars>>

Unscheduled(p) == Goes(p, IF handler[p].cmd.kind = "model" THEN "failed" ELSE "unscheduled")
Scheduled(p) ==
    /\ handler[p].pc = "schedule" /\ p \notin atBroker
    /\ IF \E j \in jobs : j.prompt = p THEN Goes(p, "done") ELSE Unscheduled(p)
    /\ UNCHANGED <<sessionVars, storeVars, brokerVars, histVars, mishaps>>
\* The client's five seconds are over.
BrokerTimesOut(p) ==
    /\ handler[p].pc = "schedule"
    /\ Unscheduled(p)
    /\ UNCHANGED <<sessionVars, storeVars, brokerVars, histVars, mishaps>>

\* "No fresh session was started", or "No session switch was started"; the
\* dispatcher adds nothing to it (alreadyNotified).  Neither this notice's
\* outcome matters, nor that of bestEffortFailure.
ReportUnscheduled(p) ==
    /\ handler[p].pc = "unscheduled"
    /\ Sent(p, "nothing_started") \/ SendThrows(p, "nothing_started")
    /\ Ends(p)
    /\ UNCHANGED <<sessionVars, storeVars, brokerVars, shown, latest, spent>>
ReportFailure(p) ==
    /\ handler[p].pc = "failed"
    /\ Ends(p)
    /\ UNCHANGED <<sessionVars, storeVars, brokerVars, histVars, mishaps>>
----------------------------------------------------------------------------
(* Everything else *)

ChallengeExpires(c) ==
    /\ challenge[c] # None /\ challenge[c] \notin expired
    /\ expired' = expired \cup {challenge[c]}
    /\ UNCHANGED <<sessionVars, snapshot, challenge, handler, brokerVars, histVars, mishaps>>
ListExpires(c) ==
    /\ snapshot[c].fresh
    /\ snapshot' = [snapshot EXCEPT ![c].fresh = FALSE]
    /\ UNCHANGED <<sessionVars, challenge, expired, handler, brokerVars, histVars, mishaps>>

\* Sessions of this directory are worked in, and their transcripts go.
SessionActive(s) ==
    /\ Change /\ order[1] # s
    /\ order' \in {o \in SetToSeqs(Sessions) :
                   o[1] = s /\ \A t, u \in Sessions \ {s} : Before(order, t, u) => Before(o, t, u)}
    /\ UNCHANGED <<current, usable, storeVars, handler, brokerVars, histVars, mishaps>>
TranscriptsGo(gone) ==
    /\ gone \subseteq usable /\ gone # {} /\ usable' = usable \ gone /\ Change
    /\ UNCHANGED <<current, order, storeVars, handler, brokerVars, histVars, mishaps>>
\* /clear: another session in the same process, and so with the same server.
SessionSwitches(s) ==
    /\ s # current /\ current' = s /\ Change
    /\ UNCHANGED <<order, usable, storeVars, handler, brokerVars, histVars, mishaps>>
\* The service restarts, for a job or by itself: the codes are gone, the lists
\* are on disk.
ServiceRestarts(s) ==
    /\ current' = s
    /\ challenge' = [c \in Chats |-> None] /\ latest' = [c \in Chats |-> None]
    /\ handler' = [p \in Prompts |->
         IF p \in Open THEN [handler[p] EXCEPT !.pc = "lost"] ELSE handler[p]]
    /\ Change
    /\ UNCHANGED <<order, usable, snapshot, expired, brokerVars, shown, spent, told, mishaps>>

Step(p) == \/ ShowList(p) \/ ShowCode(p) \/ ShowAnswer(p) \/ CheckHelper(p)
           \/ Acknowledge(p) \/ Scheduled(p) \/ BrokerTimesOut(p)
           \/ ReportUnscheduled(p) \/ ReportFailure(p)
Next == \/ \E p \in Prompts : Arrive(p) \/ Step(p) \/ BrokerStarts(p) \/ BrokerRefuses(p)
        \/ \E c \in Chats : ChallengeExpires(c) \/ ListExpires(c)
        \/ \E s \in Sessions : SessionActive(s) \/ SessionSwitches(s) \/ ServiceRestarts(s)
        \/ \E gone \in SUBSET Sessions : TranscriptsGo(gone)

Spec == Init /\ [][Next]_vars
----------------------------------------------------------------------------
(* Properties *)

\* The variables keep their types, and a chat's code is one of its own prompts.
TypeOK ==
    /\ current \in Sessions /\ usable \subseteq Sessions /\ order \in SetToSeqs(Sessions)
    /\ \A p \in Prompts :
         /\ handler[p].pc \in Steps /\ handler[p].chat \in Chats \cup {None}
         /\ handler[p].cmd \in Commands \cup {NoCommand}
         /\ handler[p].target \in Sessions \cup {None}
         /\ Len(handler[p].entries) <= MaxListed
    /\ \A c \in Chats : /\ challenge[c] # None => handler[challenge[c]].chat = c
                        /\ snapshot[c].fresh => snapshot[c].entries # <<>>
    /\ expired \cup spent \cup atBroker \subseteq Prompts
    /\ Cardinality(Open) <= MaxOpen

Command(p) == handler[p].cmd
\* CHANGELOG.md:66, "confirmation challenges are action/session bound and
\* single-use": whatever runs, restarts or expires between them, each reset and
\* resume job stands for a code of its own, asked for in the same private chat,
\* for the same action and session, confirmed in time, and acknowledged first.
EachJobWasConfirmed ==
    /\ spent \cap expired = {}
    /\ \A j \in jobs : LET h == handler[j.prompt] q == h.cmd.code IN
         /\ h.chat \notin Groups
         /\ h.cmd.kind # "model" =>
              /\ q \in spent /\ "ack" \in told[j.prompt]
              /\ handler[q].chat = h.chat /\ handler[q].session = h.session
              /\ Action(Command(q).kind) = Action(h.cmd.kind)
              /\ \A k \in jobs : Command(k.prompt).code = q => k = j

\* The variables keep their types.  A code that the chat is known to have
\* received, the last one this process issued there, can be confirmed until it
\* expires: a handler that revokes an unseen code, a second one or a mistyped
\* confirmation does not take it away.
LatestCodeWorks ==
    /\ TypeOK
    /\ \A c \in Chats : LET q == latest[c] IN
        q # None /\ handler[q].pc = "done" /\ q \notin spent \cup expired => challenge[c] = q

\* sessions-control.ts:119, "Activate the mapping only after the list is
\* visible": a resumed session had that number in a list that reached the chat,
\* and is neither the one that is left nor the one the list was made in.
ListedTarget ==
    \A j \in jobs : j.target # None =>
        LET h == handler[j.prompt] IN
        /\ j.target # h.session
        /\ \E l \in shown : /\ l.chat = h.chat /\ j.target # l.session
                            /\ Command(h.cmd.code).index <= Len(l.entries)
                            /\ l.entries[Command(h.cmd.code).index] = j.target

\* control.ts:6, "No fresh session was started.", and sessions-control.ts:17,
\* "No session switch was started.": what the chat reads is so.  It is not,
\* when the broker starts the job and the answer misses the client's timer.
FailureMeansNothing == \A j \in jobs : "nothing_started" \notin told[j.prompt]
=============================================================================
