---------------------------- MODULE FinalDelivery ----------------------------
(***************************************************************************)
(* The final answer of a turn (telegram-renderer-mcp/src): deliverFinal of *)
(* server.ts with unified-delivery.ts, artifact-transcript.ts and          *)
(* artifact-delivery.ts, and the delivery evidence it leaves for the       *)
(* memory review (shared/src/memory-delivery-evidence.ts).  Telegram is    *)
(* external: a send succeeds, is refused for good, or has no known outcome.*)
(***************************************************************************)
EXTENDS Naturals, Sequences, FiniteSets, SequencesExt, FiniteSetsExt

CONSTANTS
    Turns, Sessions, Paths,
    Earlier,        \* stands for the turns of an earlier process
    MaxEarlier,     \* bound: evidence of earlier turns in the beginning
    MaxArtifacts,   \* MAX_ARTIFACTS, MAX_ARTIFACTS_PER_TURN
    MaxRecords,     \* MAX_ENTRIES of the evidence
    MaxUses,        \* bound: Artifact calls of a turn
    MaxAttempts,    \* bound: Stop hooks of a turn
    MaxMishaps      \* bound: failing calls, files that change, deaths

ASSUME DeliveryBounds ==
    /\ MaxArtifacts \in Nat /\ MaxRecords \in Nat \ {0} /\ MaxUses \in Nat
    /\ MaxAttempts \in Nat /\ MaxMishaps \in Nat
    /\ MaxEarlier \in 0..MaxRecords /\ Earlier \notin Turns

VARIABLES
    turn,       \* [Turns -> local state of deliverFinal]
    collected,  \* [Turns -> the turn's artifacts, fixed by its first Stop]
    richOff,    \* [BOOLEAN -> is the rich method off?], for the background too
    evidence,   \* the records on disk, oldest first
    answers,    \* [Turns -> how many answers the chat shows]
    files,      \* [Turns -> the documents the chat shows, in order]
    notices,    \* [Turns -> how many notices of missing artifacts it shows]
    mishaps

chatVars == <<answers, files, notices>>
vars == <<turn, collected, richOff, evidence, chatVars, mishaps>>

Verdicts == {"none", "delivered", "too_large", "uncertain", "rejected"}
Pcs == {"idle", "rich", "markdown", "text", "evidence", "artifacts", "notice", "lost"}
Uses == [path : Paths, ok : BOOLEAN]

\* Records of a session rise: the ordinals before them have expired.
EarlierRecords == [turn : {Earlier}, session : Sessions, ordinal : 1..MaxRecords, old : {FALSE}]
OrdinalsRise(e) ==
    \A i, j \in DOMAIN e : i < j /\ e[i].session = e[j].session => e[i].ordinal < e[j].ordinal

Init ==
    /\ turn \in [Turns -> [pc : {"idle"}, session : Sessions, background : BOOLEAN,
                           left : {<<>>}, attempts : {0}, verdict : {"none"}]]
    /\ collected = [t \in Turns |-> <<>>]
    /\ richOff = [b \in BOOLEAN |-> FALSE]
    /\ evidence \in {e \in BoundedSeq(EarlierRecords, MaxEarlier) : OrdinalsRise(e)}
    /\ answers = [t \in Turns |-> 0] /\ notices = [t \in Turns |-> 0]
    /\ files = [t \in Turns |-> <<>>]
    /\ mishaps = 0

Goes(t, pc) == turn' = [turn EXCEPT ![t].pc = pc]
Returns(t, v) ==
    turn' = [turn EXCEPT ![t].pc = "idle", ![t].verdict = v, ![t].left = <<>>,
                         ![t].attempts = IF v = "too_large" THEN @ ELSE 0]
Mishap == mishaps < MaxMishaps /\ mishaps' = mishaps + 1
Works == UNCHANGED mishaps
AnswerShown(t) == answers' = [answers EXCEPT ![t] = @ + 1]
----------------------------------------------------------------------------
(* The turn's work, and its Stop hook *)

\* parseArtifactRows: each path once, as first returned; the first four.
Found(us) ==
    LET add(found, u) == IF u.ok /\ Len(found) < MaxArtifacts /\ ~Contains(found, u.path)
                         THEN Append(found, u.path) ELSE found
    IN FoldLeft(add, <<>>, us)
\* What the two cases above make of a turn's calls, said without their order.
FoundReference(us) ==
    LET path(i) == us[i].path
        new(i) == us[i].ok /\ \A j \in 1..i - 1 : us[j].ok => path(j) # path(i)
        first == {i \in DOMAIN us : new(i)}
    IN [n \in 1..Min({MaxArtifacts, Cardinality(first)}) |->
          path(CHOOSE i \in first : Cardinality({j \in first : j <= i}) = n)]

\* collect: what follows the start of the turn in its transcript, the end of it
\* if that is too long, nothing if the file is not what it was.  What a turn
\* does after its first Stop is not looked at.
Collections == {Found(us) : us \in BoundedSeq(Uses, MaxUses)}
Collects(t) ==
    IF turn[t].attempts > 0 \/ turn[t].background THEN UNCHANGED collected
    ELSE \E c \in Collections : collected' = [collected EXCEPT ![t] = c]

\* The first Stop, or one with a shorter answer after "too_large".  Turns of a
\* session end one after the other.  An answer may have a rich form.
Stop(t) ==
    /\ turn[t].pc = "idle" /\ turn[t].verdict \in {"none", "too_large"}
    /\ turn[t].attempts < MaxAttempts
    /\ \A u \in Turns : turn[u].session = turn[t].session => turn[u].pc \in {"idle", "lost"}
    /\ Collects(t)
    /\ \E rich \in BOOLEAN :
         turn' = [turn EXCEPT ![t].attempts = @ + 1,
             ![t].pc = IF rich /\ ~richOff[turn[t].background] THEN "rich" ELSE "markdown"]
    /\ UNCHANGED <<richOff, evidence, chatVars, mishaps>>
----------------------------------------------------------------------------
(* createUnifiedDeliverer: rich, then MarkdownV2, then plain text *)

Accepted(t) == AnswerShown(t) /\ Goes(t, "evidence") /\ Works
Refused(t, pc) == Goes(t, pc) /\ UNCHANGED answers
\* No known outcome: the answer may be there, and nothing more is sent.
\* (Mutant: the next method is tried.)
FallsBack(t) ==
    /\ AnswerShown(t) \/ UNCHANGED answers
    /\ Goes(t, "text") /\ Mishap
Unknown(t) ==
    /\ AnswerShown(t) \/ UNCHANGED answers
    /\ Returns(t, "uncertain") /\ Mishap

\* A rendering that does not fit one message is not sent.
TooLarge(t) == Returns(t, "too_large") /\ UNCHANGED answers /\ Works

\* 404 turns the rich method off for half an hour, 400 is about this answer.
SendRich(t) ==
    /\ turn[t].pc = "rich"
    /\ \/ (Accepted(t) \/ Unknown(t)) /\ UNCHANGED richOff
       \/ /\ Refused(t, "markdown") /\ Works
          /\ \E off \in BOOLEAN : richOff' = [richOff EXCEPT ![turn[t].background] = @ \/ off]
    /\ UNCHANGED <<collected, evidence, files, notices>>
SendMarkdown(t) ==
    /\ turn[t].pc = "markdown"
    /\ \/ Accepted(t) \/ Unknown(t) \/ (Refused(t, "text") /\ Works)
       \/ TooLarge(t)
    /\ UNCHANGED <<collected, richOff, evidence, files, notices>>
SendText(t) ==
    /\ turn[t].pc = "text"
    /\ \/ Accepted(t) \/ Unknown(t) \/ TooLarge(t)
       \/ Returns(t, "rejected") /\ UNCHANGED answers /\ Works
    /\ UNCHANGED <<collected, richOff, evidence, files, notices>>
----------------------------------------------------------------------------
(* persistMemoryDeliveryEvidence, for an answer in the foreground *)

Retained(e) ==
    LET keep(kept, r) == IF r.old THEN kept ELSE Append(kept, r)
    IN FoldLeft(keep, <<>>, e)
Of(e, s) == {i \in DOMAIN e : e[i].session = s}
\* A turn's place in its session is one more than the last that is retained.
\* (Mutant: than how many are.)
Counted(e, s) == Cardinality(Of(e, s)) + 1
Ordinal(e, s) == Max({0} \cup {e[i].ordinal : i \in Of(e, s)}) + 1
Evicted(e) == IF Len(e) >= MaxRecords THEN Tail(e) ELSE e
Record(t) ==
    LET s == turn[t].session
    IN [turn |-> t, session |-> s, ordinal |-> Ordinal(Retained(evidence), s), old |-> FALSE]

Foreground(t) == ~turn[t].background
\* Its failures are swallowed: another process holds the store, or one of the
\* removals or the write fails; a write that throws may have happened.
Persist(t) ==
    /\ turn[t].pc = "evidence"
    /\ LET kept == Retained(evidence)
           done == Append(Evicted(kept), Record(t))
       IN IF Foreground(t)
          THEN \/ evidence' = done /\ Works
               \/ evidence' \in {evidence, kept, Evicted(kept), done} /\ Mishap
          ELSE UNCHANGED evidence /\ Works
    /\ IF Foreground(t) /\ collected[t] # <<>>
       THEN turn' = [turn EXCEPT ![t].pc = "artifacts", ![t].left = collected[t]]
       ELSE Returns(t, "delivered")
    /\ UNCHANGED <<collected, richOff, chatVars>>
----------------------------------------------------------------------------
(* createArtifactDeliverer: one document at a time *)

FileShown(t) == files' = [files EXCEPT ![t] = Append(@, Head(turn[t].left))]
Uploaded(t) ==
    /\ FileShown(t) /\ Works
    /\ IF Len(turn[t].left) = 1 THEN Returns(t, "delivered")
       ELSE turn' = [turn EXCEPT ![t].left = Tail(@)]
\* The file is not the turn's own any more, too large or too much, or Telegram
\* refuses it: the others are not tried.
NotAttached(t) == Goes(t, "notice") /\ UNCHANGED files /\ Mishap
\* (Mutant: an unknown upload is tried again.)
TriedAgain(t) == (FileShown(t) \/ UNCHANGED files) /\ UNCHANGED turn /\ Mishap
UploadUnknown(t) == (FileShown(t) \/ UNCHANGED files) /\ Returns(t, "delivered") /\ Mishap
Attach(t) ==
    /\ turn[t].pc = "artifacts"
    /\ Uploaded(t) \/ NotAttached(t) \/ UploadUnknown(t)
    /\ UNCHANGED <<collected, richOff, evidence, answers, notices>>

\* "One or more artifacts could not be attached", whatever becomes of it.
Notice(t) ==
    /\ turn[t].pc = "notice" /\ Returns(t, "delivered")
    /\ \/ notices' = [notices EXCEPT ![t] = @ + 1] /\ Works
       \/ UNCHANGED notices /\ Mishap
    /\ UNCHANGED <<collected, richOff, evidence, answers, files>>
----------------------------------------------------------------------------
(* Time, and the end of the renderer *)

RichComesBack(b) ==
    /\ richOff[b] /\ richOff' = [richOff EXCEPT ![b] = FALSE]
    /\ UNCHANGED <<turn, collected, evidence, chatVars, mishaps>>
\* Seven days after the oldest record.
RecordAges ==
    /\ \E i \in DOMAIN evidence :
         /\ ~evidence[i].old /\ \A j \in 1..i - 1 : evidence[j].old
         /\ evidence' = [evidence EXCEPT ![i].old = TRUE]
    /\ UNCHANGED <<turn, collected, richOff, chatVars, mishaps>>
\* Its turns are forgotten with it; so is whatever a turn has not shown yet.
RendererDies ==
    /\ turn' = [t \in Turns |-> IF turn[t].verdict \in {"none", "too_large"} /\ turn[t].attempts > 0
                                THEN [turn[t] EXCEPT !.pc = "lost"] ELSE turn[t]]
    /\ turn' # turn
    /\ richOff' = [b \in BOOLEAN |-> FALSE]
    /\ Mishap
    /\ UNCHANGED <<collected, evidence, chatVars>>

Step(t) == \/ SendRich(t) \/ SendMarkdown(t) \/ SendText(t)
           \/ Persist(t) \/ Attach(t) \/ Notice(t)
Next == \/ \E t \in Turns : Stop(t) \/ Step(t)
        \/ \E b \in BOOLEAN : RichComesBack(b)
        \/ RecordAges \/ RendererDies
Spec == Init /\ [][Next]_vars
----------------------------------------------------------------------------
(* Properties *)

\* The variables keep their types and the evidence its bound.
TypeOK ==
    /\ \A t \in Turns : /\ turn[t].pc \in Pcs /\ turn[t].verdict \in Verdicts
                        /\ Len(collected[t]) <= MaxArtifacts
    /\ Len(evidence) <= MaxRecords
    /\ \A i \in DOMAIN evidence : evidence[i].ordinal \in Nat \ {0}

\* deliverFinal keeps its promise to progress-disclosure.ts:785-815: over all
\* fallbacks and Stops the chat shows at most one answer of a turn, and the
\* verdict says what the chat shows.
Promise == INSTANCE AnswerContract WITH verdict <- [t \in Turns |-> turn[t].verdict]
KeepsContract == Promise!Contract

\* design-invariants.md:21-22: the documents of a turn come after its text, each
\* once and in order ("Confirmed artifact uploads
\* are never replayed"), and one notice at most, for a document that is missing.
FilesFollowText ==
    \A t \in Turns :
        /\ files[t] # <<>> \/ notices[t] # 0 => answers[t] = 1 /\ Foreground(t)
        /\ IsPrefix(files[t], collected[t]) /\ IsInjective(files[t])
        /\ notices[t] <= 1 /\ (notices[t] = 1 => files[t] # collected[t])

\* The variables keep their types.  The memory review acts on delivered
\* foreground answers only, and counts them by their ordinals: whatever
\* expires, is evicted or fails, the records of a session rise, so that no two
\* turns take the same place.
EvidenceOfDelivery ==
    /\ TypeOK
    /\ \A r \in ToSet(evidence) : r.turn # Earlier =>
         /\ answers[r.turn] = 1 /\ Foreground(r.turn)
         /\ turn[r.turn].verdict \notin {"uncertain", "rejected"}
    /\ OrdinalsRise(evidence)
=============================================================================
