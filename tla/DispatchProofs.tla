--------------------------- MODULE DispatchProofs ---------------------------
(***************************************************************************)
(* Proofs about the two endpoints that insert messages, for any number of  *)
(* requests, any of them recordings, and any source_refs.                  *)
(*                                                                         *)
(* What the table says of a message depends on where its request is: the   *)
(* invariant DispatchInv ties the row, the mail and the last error of each *)
(* message to the stage of its handler, at every point where the process   *)
(* may end.  Between messages there is one tie, the source_ref.            *)
(***************************************************************************)
EXTENDS Dispatch, TLAPS

QueuedRow == [AbsentRow EXCEPT !.status = "queued"]

\* The stages before an INSERT, and those that end without one.
Rowless == {"new", "rejected", "recording", "replaying", "replayed"}

RecordStages == {"recording", "replaying", "replayed", "recorded"}

\* The row at each stage: none, the inserted one, or a sent one.
RowOfStage(m) ==
  /\ request[m] \in Rowless => msgs[m] = AbsentRow
  /\ request[m] \in Deciding => msgs[m] = QueuedRow
  /\ request[m] \in {"reporting", "recorded"} => msgs[m].status = "sent"

\* Whether the mail is out, at the stages where the request knows.
MailOfStage(m) ==
  /\ request[m] \in Rowless \cup {"dispatching", "sending", "fatal"} => m \notin accepted
  /\ request[m] \in {"accepted", "reporting"} => m \in accepted

\* What a row says is true of the mail, whatever became of the request.
RowTellsTruth(m) ==
  /\ msgs[m].status \in {"absent", "queued", "sent", "failed"}
  /\ msgs[m].status = "sent" => m \in accepted \cup Recording
  /\ lastError[m] # "none" => msgs[m].status = "failed"
  /\ lastError[m] \in {"fatal", "no_credentials"} => m \notin accepted
  /\ request[m] = "reply202" =>
       \/ msgs[m].status = "failed"
       \/ msgs[m].status = "sent" /\ m \in accepted

\* A recording has no stage of an email, and its row is a sent one.
RecordingKeptApart(m) ==
  /\ request[m] \in RecordStages => m \in Recording
  /\ m \in Recording => msgs[m].status \in {"absent", "sent"}

MessageInv(m) ==
  /\ RowOfStage(m)
  /\ MailOfStage(m)
  /\ RowTellsTruth(m)
  /\ RecordingKeptApart(m)

\* A request that is sent to the other row of its source_ref finds one.
ReplayHasRow ==
  \A m \in Msg : request[m] \in {"replaying", "replayed"} => RowsOfRef(m) \ {m} # {}

DispatchInv ==
  /\ DispatchTypeOK
  /\ \A m \in Msg : MessageInv(m)
  /\ BilledOncePerRef
  /\ ReplayHasRow

-----------------------------------------------------------------------------
\* A row that is inserted, decided or sent is a row.
LEMMA RowsTyped ==
  /\ AbsentRow \in Row
  /\ QueuedRow \in Row
  /\ [AbsentRow EXCEPT !.status = "sent"] \in Row
  /\ [QueuedRow EXCEPT !.status = "failed"] \in Row
  /\ \A l \in LedgerStatus :
       [QueuedRow EXCEPT !.status = "sent", !.external = TRUE, !.ledger = l] \in Row
  /\ AbsentRow.status = "absent" /\ QueuedRow.status = "queued"
  /\ QueuedRow.ledger = "not_applicable"
BY DEF AbsentRow, QueuedRow, Row, Status, LedgerStatus

\* No two of the stages that the actions test for are one.
LEMMA StagesApart ==
  /\ Rowless \cap Deciding = {}
  /\ Rowless \cap {"reporting", "recorded", "reply202", "reply500", "crashed"} = {}
  /\ Deciding \cap {"reporting", "recorded", "reply202", "reply500", "crashed"} = {}
  /\ RecordStages \cap Deciding = {}
BY DEF Rowless, Deciding, SendError, RecordStages

\* A handler touches nothing but its own message: the one request, row, error
\* and mail.
OwnStep(m) ==
  /\ request' = [request EXCEPT ![m] = request'[m]]
  /\ msgs' = [msgs EXCEPT ![m] = msgs'[m]]
  /\ lastError' = [lastError EXCEPT ![m] = lastError'[m]]
  /\ accepted' \in {accepted, accepted \cup {m}}

\* The ways a step may change the row of its message.
RowStep(m) ==
  \/ msgs' = msgs
  \/ msgs[m].status # "absent" /\ msgs'[m].status # "absent"
  \/ ~RefTaken(m) /\ msgs'[m].status # "absent"

\* What holds of the other messages still holds of them; and the source_refs stay
\* apart, because a row is inserted only where no row has its ref.
LEMMA OwnStepInv ==
  ASSUME DispatchInv, NEW m \in Msg,
         OwnStep(m), RowStep(m),
         request'[m] \in {"new"} \cup InFlight \cup Ended,
         msgs'[m] \in Row,
         lastError'[m] \in SendError \cup {"none", "no_credentials"},
         MessageInv(m)',
         request'[m] \in {"replaying", "replayed"} =>
           request[m] \in {"replaying", "replayed"} \/ RefTaken(m)
  PROVE  DispatchInv'
<1> USE DEF DispatchInv
<1>1. /\ DOMAIN request = Msg /\ DOMAIN msgs = Msg /\ DOMAIN lastError = Msg
  BY DEF DispatchTypeOK, RowsTypeOK
<1>2. /\ \A n \in Msg \ {m} : /\ request'[n] = request[n]
                              /\ msgs'[n] = msgs[n]
                              /\ lastError'[n] = lastError[n]
                              /\ n \in accepted' <=> n \in accepted
  BY <1>1 DEF OwnStep
<1>3. DispatchTypeOK'
  BY DEF DispatchTypeOK, RowsTypeOK, OwnStep
<1>4. ASSUME NEW n \in Msg PROVE MessageInv(n)'
  <2>1. CASE n = m
    BY <2>1
  <2>2. CASE n # m
    BY <1>2, <2>2 DEF MessageInv, RowOfStage, MailOfStage, RowTellsTruth, RecordingKeptApart
  <2> QED
    BY <2>1, <2>2
<1>5. \A n \in Msg : msgs[n].status # "absent" => msgs'[n].status # "absent"
  BY <1>2 DEF RowStep
<1>6. BilledOncePerRef'
  <2>1. CASE \A n \in Msg : msgs[n].status # "absent" <=> msgs'[n].status # "absent"
    BY <2>1 DEF BilledOncePerRef
  <2>2. CASE ~RefTaken(m)
    BY <1>2, <2>2 DEF BilledOncePerRef, RefTaken, RowsOfRef
  <2> QED
    BY <1>2, <2>1, <2>2 DEF RowStep
<1>7. ReplayHasRow'
  <2> SUFFICES ASSUME NEW n \in Msg, request'[n] \in {"replaying", "replayed"}
               PROVE  (RowsOfRef(n) \ {n} # {})'
    BY DEF ReplayHasRow
  <2>1. RowsOfRef(n) \subseteq RowsOfRef(n)'
    BY <1>5 DEF RowsOfRef
  <2>2. CASE request[n] \in {"replaying", "replayed"}
    BY <2>1, <2>2 DEF ReplayHasRow
  <2>3. CASE request[n] \notin {"replaying", "replayed"}
    <3>1. n = m /\ RefTaken(m)
      BY <1>2, <2>3
    <3>2. msgs'[m] = AbsentRow
      BY <1>4, <3>1 DEF MessageInv, RowOfStage, Rowless
    <3>3. m \notin RowsOfRef(m)'
      BY <3>2, RowsTyped DEF RowsOfRef
    <3> QED
      BY <2>1, <3>1, <3>3 DEF RefTaken
  <2> QED
    BY <2>2, <2>3
<1> QED
  BY <1>3, <1>4, <1>6, <1>7

\* Where a request goes, and that no other does.
LEMMA GoesFacts ==
  ASSUME DispatchInv, NEW m \in Msg, NEW from, NEW to, Goes(m, from, to)
  PROVE  /\ request[m] = from
         /\ request'[m] = to
         /\ request' = [request EXCEPT ![m] = request'[m]]
BY DEF Goes, DispatchInv, DispatchTypeOK

\* A step that moves the request alone.
LEMMA StageOnly ==
  ASSUME DispatchInv, UNCHANGED <<msgs, lastError, accepted>>, NEW m \in Msg
  PROVE  /\ msgs' = [msgs EXCEPT ![m] = msgs'[m]] /\ msgs'[m] \in Row
         /\ lastError' = [lastError EXCEPT ![m] = lastError'[m]]
         /\ lastError'[m] \in SendError \cup {"none", "no_credentials"}
         /\ accepted' \in {accepted, accepted \cup {m}}
BY DEF DispatchInv, DispatchTypeOK, RowsTypeOK

\* The commit of an outcome finds the row queued, so that no trigger is in its
\* way: the row is as the handler asked for.
LEMMA CommitFacts ==
  ASSUME DispatchInv, NEW m \in Msg, request[m] \in Deciding,
         NEW row \in Row, row.status \in {"sent", "failed"},
         NEW from, NEW to, UpdateAndReply(m, from, row, to)
  PROVE  /\ msgs[m] = QueuedRow
         /\ TriggersAllow(msgs[m], row)
         /\ request[m] = from /\ request'[m] = to
         /\ request' = [request EXCEPT ![m] = request'[m]]
         /\ msgs' = [msgs EXCEPT ![m] = msgs'[m]]
         /\ msgs'[m] = row
<1>1. msgs[m] = QueuedRow /\ msgs \in [Msg -> Row]
  BY DEF DispatchInv, DispatchTypeOK, RowsTypeOK, MessageInv, RowOfStage
<1>2. TriggersAllow(msgs[m], row)
  BY <1>1 DEF TriggersAllow, LifecycleAllows, MutationAllows, QueuedRow, AbsentRow
<1>3. Goes(m, from, to) /\ msgs' = [msgs EXCEPT ![m] = row]
  BY <1>2 DEF UpdateAndReply
<1> QED
  BY <1>1, <1>2, <1>3, GoesFacts

-----------------------------------------------------------------------------
(* The invariant, one lemma per kind of step.                              *)

\* No request, no row, no mail.
LEMMA DispatchInitInv == DispatchInit => DispatchInv
<1> SUFFICES ASSUME DispatchInit PROVE DispatchInv
  OBVIOUS
<1> USE DEF DispatchInit
<1>1. DispatchTypeOK
  BY RowsTyped DEF DispatchTypeOK, RowsTypeOK
<1>2. ASSUME NEW m \in Msg PROVE MessageInv(m)
  BY RowsTyped, StagesApart
  DEF MessageInv, RowOfStage, MailOfStage, RowTellsTruth, RecordingKeptApart,
      Rowless, Deciding, SendError, RecordStages
<1>3. BilledOncePerRef /\ ReplayHasRow
  BY RowsTyped DEF BilledOncePerRef, ReplayHasRow
<1> QED
  BY <1>1, <1>2, <1>3 DEF DispatchInv

\* The steps that move the request and nothing else.
LEMMA StageInv ==
  ASSUME DispatchInv, NEW m \in Msg,
         \/ Reject(m) \/ BrokenCredential(m) \/ BuildProvider(m)
         \/ ReportRaises(m) \/ RecordLookUp(m) \/ RecordReplay(m)
  PROVE  DispatchInv'
<1> DEFINE Move(from, to) ==
      \/ from = "new" /\ to = "rejected"
      \/ from = "dispatching" /\ to \in {"reply500", "sending"}
      \/ from = "reporting" /\ to = "reply500"
      \/ from = "new" /\ m \in Recording /\ to = "recording"
      \/ from = "new" /\ m \in Recording /\ to = "replayed" /\ RefTaken(m)
      \/ from = "replaying" /\ to = "replayed"
<1>1. PICK from \in {"new"} \cup InFlight, to \in InFlight \cup Ended :
        Goes(m, from, to) /\ Move(from, to)
  BY DEF Reject, BrokenCredential, BuildProvider, ReportRaises, RecordLookUp,
         RecordReplay, InFlight, Deciding, Ended
<1>2. UNCHANGED <<msgs, lastError, accepted>>
  BY DEF Reject, BrokenCredential, BuildProvider, ReportRaises, RecordLookUp, RecordReplay
<1>3. /\ request[m] = from /\ request'[m] = to
      /\ request' = [request EXCEPT ![m] = request'[m]]
  BY <1>1, GoesFacts
<1>4. OwnStep(m) /\ RowStep(m)
  BY <1>2, <1>3, StageOnly DEF OwnStep, RowStep
<1>5. MessageInv(m)'
  <2>1. MessageInv(m)
    BY DEF DispatchInv
  <2> QED
    BY <1>1, <1>2, <1>3, <2>1
    DEF MessageInv, RowOfStage, MailOfStage, RowTellsTruth, RecordingKeptApart,
        Rowless, Deciding, SendError, RecordStages
<1>6. to \in {"replaying", "replayed"} => from = "replaying" \/ RefTaken(m)
  BY <1>1
<1> QED
  BY <1>2, <1>3, <1>4, <1>5, <1>6, StageOnly, OwnStepInv

\* The INSERT of an email or of a recording makes a row where its source_ref had
\* none, or sends the recording to the row that is there.
LEMMA InsertInv ==
  ASSUME DispatchInv, NEW m \in Msg, InsertQueued(m) \/ RecordInsert(m)
  PROVE  DispatchInv'
<1>1. MessageInv(m) /\ msgs \in [Msg -> Row]
  BY DEF DispatchInv, DispatchTypeOK, RowsTypeOK
<1>2. UNCHANGED <<lastError, accepted>>
  BY DEF InsertQueued, RecordInsert
<1>3. CASE InsertQueued(m)
  <2>1. /\ m \notin Recording /\ ~RefTaken(m)
        /\ request[m] = "new" /\ request'[m] = "dispatching"
        /\ request' = [request EXCEPT ![m] = request'[m]]
    BY <1>3, GoesFacts DEF InsertQueued
  <2>2. msgs' = [msgs EXCEPT ![m] = msgs'[m]] /\ msgs'[m] = QueuedRow
    BY <1>1, <1>3 DEF InsertQueued, QueuedRow
  <2>3. OwnStep(m) /\ RowStep(m)
    BY <1>2, <2>1, <2>2, StageOnly, RowsTyped DEF OwnStep, RowStep, DispatchInv, DispatchTypeOK
  <2>4. MessageInv(m)'
    BY <1>1, <1>2, <2>1, <2>2, RowsTyped
    DEF MessageInv, RowOfStage, MailOfStage, RowTellsTruth, RecordingKeptApart,
        Rowless, Deciding, SendError, RecordStages
  <2> QED
    BY <1>2, <2>1, <2>2, <2>3, <2>4, RowsTyped, OwnStepInv
    DEF InFlight, Deciding, DispatchInv, DispatchTypeOK
<1>4. CASE RecordInsert(m) /\ RefTaken(m)
  <2>1. /\ request[m] = "recording" /\ request'[m] = "replaying"
        /\ request' = [request EXCEPT ![m] = request'[m]]
        /\ msgs' = msgs
    BY <1>4, GoesFacts DEF RecordInsert
  <2>2. OwnStep(m) /\ RowStep(m)
    BY <1>2, <2>1, StageOnly DEF OwnStep, RowStep
  <2>3. MessageInv(m)'
    BY <1>1, <1>2, <2>1
    DEF MessageInv, RowOfStage, MailOfStage, RowTellsTruth, RecordingKeptApart,
        Rowless, Deciding, SendError, RecordStages
  <2> QED
    BY <1>2, <1>4, <2>1, <2>2, <2>3, StageOnly, OwnStepInv DEF InFlight
<1>5. CASE RecordInsert(m) /\ ~RefTaken(m)
  <2>1. /\ request[m] = "recording" /\ request'[m] = "recorded"
        /\ request' = [request EXCEPT ![m] = request'[m]]
    BY <1>5, GoesFacts DEF RecordInsert
  <2>2. /\ msgs' = [msgs EXCEPT ![m] = msgs'[m]]
        /\ msgs'[m] = [AbsentRow EXCEPT !.status = "sent"]
    BY <1>1, <1>5 DEF RecordInsert
  <2>3. msgs'[m].status = "sent" /\ msgs'[m] \in Row
    BY <2>2, RowsTyped DEF AbsentRow
  <2>4. OwnStep(m) /\ RowStep(m)
    BY <1>2, <1>5, <2>1, <2>2, <2>3 DEF OwnStep, RowStep, DispatchInv, DispatchTypeOK
  <2>5. lastError[m] = "none"
    BY <1>1, <2>1, RowsTyped DEF MessageInv, RowOfStage, RowTellsTruth, Rowless
  <2>6. MessageInv(m)'
    BY <1>1, <1>2, <2>1, <2>3, <2>5
    DEF MessageInv, RowOfStage, MailOfStage, RowTellsTruth, RecordingKeptApart,
        Rowless, Deciding, SendError, RecordStages
  <2> QED
    BY <1>2, <2>1, <2>3, <2>4, <2>5, <2>6, OwnStepInv DEF Ended
<1> QED
  BY <1>3, <1>4, <1>5

\* The provider's answer, or the lack of one, moves the mail and the request; the
\* row waits for the commit.
LEMMA ProviderInv ==
  ASSUME DispatchInv, NEW m \in Msg,
         ProviderAccepts(m) \/ \E answer \in Answer : ProviderFails(m, answer)
  PROVE  DispatchInv'
<1>1. MessageInv(m) /\ msgs \in [Msg -> Row]
  BY DEF DispatchInv, DispatchTypeOK, RowsTypeOK
<1>2. /\ UNCHANGED <<msgs, lastError>>
      /\ accepted' \in {accepted, accepted \cup {m}}
  BY DEF ProviderAccepts, ProviderFails
<1>3. PICK to \in {"accepted"} \cup SendError :
        /\ Goes(m, "sending", to)
        /\ to = "accepted" => m \in accepted'
        /\ to = "fatal" => accepted' = accepted
  <2>1. ASSUME NEW answer \in Answer, ProviderFails(m, answer)
        PROVE  /\ Raises(answer) \in SendError
               /\ Raises(answer) = "fatal" => accepted' = accepted
    BY <2>1 DEF ProviderFails, Answer, Raises, MayTake, SendError
  <2>2. CASE ProviderAccepts(m)
    BY <2>2 DEF ProviderAccepts
  <2>3. CASE \E answer \in Answer : ProviderFails(m, answer)
    <3>1. PICK answer \in Answer : ProviderFails(m, answer)
      BY <2>3
    <3>2. PICK to \in SendError : to = Raises(answer)
      BY <2>1, <3>1
    <3>3. Goes(m, "sending", to) /\ (to = "fatal" => accepted' = accepted)
      BY <2>1, <3>1, <3>2 DEF ProviderFails
    <3>4. to # "accepted"
      BY <3>2 DEF SendError
    <3> QED
      BY <3>3, <3>4
  <2> QED
    BY <2>2, <2>3
<1>4. /\ request[m] = "sending" /\ request'[m] = to
      /\ request' = [request EXCEPT ![m] = request'[m]]
  BY <1>3, GoesFacts
<1>5. msgs[m] = QueuedRow /\ m \notin accepted
  BY <1>1, <1>4 DEF MessageInv, RowOfStage, MailOfStage, Deciding
<1>6. OwnStep(m) /\ RowStep(m)
  BY <1>2, <1>4 DEF OwnStep, RowStep, DispatchInv, DispatchTypeOK, RowsTypeOK
<1>7. lastError[m] = "none"
  BY <1>1, <1>5, RowsTyped DEF MessageInv, RowTellsTruth
<1>8. MessageInv(m)'
  <2>1. to \in Deciding /\ to \notin Rowless \cup {"dispatching", "sending"}
        /\ to \notin RecordStages /\ to \notin {"reporting", "recorded", "reply202"}
    BY <1>3 DEF Deciding, SendError, Rowless, RecordStages
  <2> QED
    BY <1>1, <1>2, <1>3, <1>4, <1>5, <1>7, <2>1, RowsTyped
    DEF MessageInv, RowOfStage, MailOfStage, RowTellsTruth, RecordingKeptApart
<1> QED
  <2>1. to \in InFlight /\ to \notin {"replaying", "replayed"}
    BY <1>3 DEF InFlight, Deciding, SendError
  <2> QED
    BY <1>1, <1>2, <1>4, <1>6, <1>7, <1>8, <2>1, OwnStepInv

\* The commit of the outcome: failed with its error, or sent for a mail that is
\* out.
LEMMA OutcomeInv ==
  ASSUME DispatchInv, NEW m \in Msg,
         NoCredentials(m) \/ CommitSent(m) \/ \E error \in SendError : CommitFailed(m, error)
  PROVE  DispatchInv'
<1>1. MessageInv(m) /\ msgs \in [Msg -> Row]
  BY DEF DispatchInv, DispatchTypeOK, RowsTypeOK
<1>2. accepted' = accepted
  BY DEF NoCredentials, CommitSent, CommitFailed
<1>3. CASE CommitSent(m)
  <2>1. PICK reporting \in {FALSE} \cup {(m \in Reporting)} :
          UpdateAndReply(m, "accepted", SentRow(m, reporting),
                         IF reporting THEN "reporting" ELSE "reply202")
    BY <1>3, Zenon DEF CommitSent
  <2>2. request[m] = "accepted"
    BY <2>1 DEF UpdateAndReply, Goes
  <2>3. msgs[m] = QueuedRow /\ m \in accepted /\ request[m] \in Deciding
    BY <1>1, <2>2 DEF MessageInv, RowOfStage, MailOfStage, Deciding
  <2>4. SentRow(m, reporting) \in Row /\ SentRow(m, reporting).status = "sent"
    BY <2>3, RowsTyped DEF SentRow, LedgerStatus, QueuedRow, AbsentRow
  <2>5. PICK row \in Row, to \in {"reporting", "reply202"} :
          row.status = "sent" /\ UpdateAndReply(m, "accepted", row, to)
    BY <2>1, <2>4
  <2>6. /\ request'[m] = to
        /\ request' = [request EXCEPT ![m] = request'[m]]
        /\ msgs' = [msgs EXCEPT ![m] = msgs'[m]]
        /\ msgs'[m] = row
    BY <2>3, <2>5, CommitFacts
  <2>7. lastError' = lastError /\ lastError[m] = "none"
    BY <1>1, <1>3, <2>3, RowsTyped DEF CommitSent, MessageInv, RowTellsTruth
  <2>8. OwnStep(m) /\ RowStep(m)
    BY <1>2, <2>3, <2>5, <2>6, <2>7, RowsTyped
    DEF OwnStep, RowStep, DispatchInv, DispatchTypeOK
  <2>9. MessageInv(m)'
    BY <1>1, <1>2, <2>3, <2>5, <2>6, <2>7, RowsTyped
    DEF MessageInv, RowOfStage, MailOfStage, RowTellsTruth, RecordingKeptApart,
        Rowless, Deciding, SendError, RecordStages
  <2> QED
    BY <2>5, <2>6, <2>7, <2>8, <2>9, OwnStepInv DEF InFlight, Ended
<1>4. ASSUME NEW from \in Deciding, NEW error \in SendError \cup {"no_credentials"},
             UpdateFailed(m, from, error),
             error \in {"fatal", "no_credentials"} => m \notin accepted
      PROVE  DispatchInv'
  <2> DEFINE row == [msgs[m] EXCEPT !.status = "failed"]
  <2>1. UpdateAndReply(m, from, row, "reply202") /\ request[m] = from
    BY <1>4 DEF UpdateFailed, UpdateAndReply, Goes
  <2>2. msgs[m] = QueuedRow
    BY <1>1, <1>4, <2>1 DEF MessageInv, RowOfStage
  <2>3. row \in Row /\ row.status = "failed"
    BY <2>2, RowsTyped DEF QueuedRow, AbsentRow
  <2>4. /\ TriggersAllow(msgs[m], row)
        /\ request'[m] = "reply202"
        /\ request' = [request EXCEPT ![m] = request'[m]]
        /\ msgs' = [msgs EXCEPT ![m] = msgs'[m]]
        /\ msgs'[m] = row
    <3> HIDE DEF row
    <3> QED
      BY <1>4, <2>1, <2>3, CommitFacts
  <2>5. lastError' = [lastError EXCEPT ![m] = error]
    BY <1>4, <2>4 DEF UpdateFailed
  <2>6. lastError'[m] = error /\ lastError' = [lastError EXCEPT ![m] = lastError'[m]]
    BY <2>5 DEF DispatchInv, DispatchTypeOK
  <2>7. OwnStep(m) /\ RowStep(m)
    BY <1>2, <2>2, <2>3, <2>4, <2>6, RowsTyped DEF OwnStep, RowStep
  <2>8. m \notin Recording
    BY <1>1, <2>2, RowsTyped DEF MessageInv, RecordingKeptApart
  <2>9. MessageInv(m)'
    <3>1. msgs'[m].status = "failed" /\ request'[m] = "reply202"
      BY <2>3, <2>4
    <3> QED
      BY <1>2, <1>4, <2>6, <2>8, <3>1
      DEF MessageInv, RowOfStage, MailOfStage, RowTellsTruth, RecordingKeptApart,
          Rowless, Deciding, SendError, RecordStages
  <2>10. request'[m] \in Ended /\ msgs'[m] \in Row
         /\ request'[m] \notin {"replaying", "replayed"}
    BY <2>3, <2>4 DEF Ended
  <2> QED
    BY <1>4, <2>6, <2>7, <2>9, <2>10, OwnStepInv
<1>5. CASE NoCredentials(m)
  <2>1. UpdateFailed(m, "dispatching", "no_credentials") /\ request[m] = "dispatching"
    BY <1>5 DEF NoCredentials, UpdateFailed, UpdateAndReply, Goes
  <2> QED
    BY <1>1, <1>4, <2>1 DEF MessageInv, MailOfStage, Deciding
<1>6. CASE \E error \in SendError : CommitFailed(m, error)
  <2>1. PICK error \in SendError : UpdateFailed(m, error, error) /\ request[m] = error
    BY <1>6 DEF CommitFailed, UpdateFailed, UpdateAndReply, Goes
  <2> QED
    BY <1>1, <1>4, <2>1 DEF MessageInv, MailOfStage, Deciding, SendError
<1> QED
  BY <1>3, <1>5, <1>6

\* The end of the process leaves the committed row as it is; a POST under way may
\* still arrive, for a row that is queued.
LEMMA CrashInv ==
  ASSUME DispatchInv, NEW m \in Msg, Crash(m)
  PROVE  DispatchInv'
<1>1. MessageInv(m)
  BY DEF DispatchInv
<1>2. /\ request' = [request EXCEPT ![m] = "crashed"]
      /\ UNCHANGED <<msgs, lastError>>
      /\ accepted' \in {accepted, accepted \cup {m}}
      /\ request[m] # "sending" => accepted' = accepted
  BY DEF Crash
<1>3. request'[m] = "crashed" /\ request' = [request EXCEPT ![m] = request'[m]]
  BY <1>2 DEF DispatchInv, DispatchTypeOK
<1>4. /\ msgs' = [msgs EXCEPT ![m] = msgs'[m]] /\ msgs'[m] \in Row
      /\ lastError' = [lastError EXCEPT ![m] = lastError'[m]]
      /\ lastError'[m] \in SendError \cup {"none", "no_credentials"}
  BY <1>2 DEF DispatchInv, DispatchTypeOK, RowsTypeOK
<1>5. OwnStep(m) /\ RowStep(m)
  BY <1>2, <1>3, <1>4 DEF OwnStep, RowStep
<1>6. request[m] = "sending" => lastError[m] = "none"
  BY <1>1, RowsTyped DEF MessageInv, RowOfStage, RowTellsTruth, Deciding
<1>7. MessageInv(m)'
  BY <1>1, <1>2, <1>3, <1>6
  DEF MessageInv, RowOfStage, MailOfStage, RowTellsTruth, RecordingKeptApart,
      Rowless, Deciding, SendError, RecordStages
<1> QED
  BY <1>3, <1>4, <1>5, <1>7, OwnStepInv DEF Ended

\* The invariant is inductive: every step of any handler keeps it, and so does
\* the end of the process at any point of one.
LEMMA DispatchNextInv == DispatchInv /\ [DispatchNext]_dispatchVars => DispatchInv'
<1> SUFFICES ASSUME DispatchInv, [DispatchNext]_dispatchVars PROVE DispatchInv'
  OBVIOUS
<1>1. ASSUME NEW m \in Msg, HandleRequest(m) PROVE DispatchInv'
  BY <1>1, StageInv, InsertInv, ProviderInv, OutcomeInv DEF HandleRequest
<1>2. ASSUME NEW m \in Msg, Crash(m) PROVE DispatchInv'
  BY <1>2, CrashInv
<1>3. CASE UNCHANGED dispatchVars
  BY <1>3 DEF dispatchVars, DispatchInv, DispatchTypeOK, RowsTypeOK, MessageInv,
              RowOfStage, MailOfStage, RowTellsTruth, RecordingKeptApart,
              BilledOncePerRef, ReplayHasRow, RowsOfRef
<1> QED
  BY <1>1, <1>2, <1>3 DEF DispatchNext

-----------------------------------------------------------------------------
(* What the invariant implies: the safety properties of the endpoints.     *)

\* A request answered 202 has its outcome in the row.
LEMMA InvReplies == DispatchInv => Reply202MeansDecided
BY DEF DispatchInv, MessageInv, RowTellsTruth, Reply202MeansDecided

\* A row that is counted is of a mail taken or a message recorded.
LEMMA InvUsage == DispatchInv => UsageIsAccepted
BY DEF DispatchInv, MessageInv, RowTellsTruth, UsageIsAccepted, Usage, Billable

\* The other row of a source_ref is a recording's, which is sent, or an email's.
LEMMA InvReplayed == DispatchInv => ReplayIsCounted
<1> SUFFICES ASSUME DispatchInv, NEW m \in Msg, request[m] = "replayed"
             PROVE  \E n \in RowsOfRef(m) \ {m} : n \in Usage \/ n \notin Recording
  BY DEF ReplayIsCounted
<1>1. PICK n \in RowsOfRef(m) \ {m} : TRUE
  BY DEF DispatchInv, ReplayHasRow
<1>2. n \in Msg /\ msgs[n].status # "absent" /\ MessageInv(n)
  BY <1>1 DEF RowsOfRef, DispatchInv
<1>3. n \in Recording => msgs[n].status = "sent"
  BY <1>2 DEF MessageInv, RecordingKeptApart
<1> QED
  BY <1>1, <1>2, <1>3 DEF Usage, Billable

\* The row of a request that decides is the queued one.
LEMMA InvOwnsRow == DispatchInv => DecidingOwnsRow
BY DEF DispatchInv, MessageInv, RowOfStage, DecidingOwnsRow, QueuedRow

\* An error that says the mail is not out is right.
LEMMA InvFatal == DispatchInv => FatalWasNotSent
BY DEF DispatchInv, MessageInv, RowTellsTruth, FatalWasNotSent

-----------------------------------------------------------------------------
(* The theorems.                                                           *)

\* In every reachable state, whichever requests were cut short, each message's
\* row, mail and error are as the stage of its request says.
THEOREM DispatchInvariance == DispatchSpec => []DispatchInv
BY DispatchInitInv, DispatchNextInv, PTL DEF DispatchSpec

\* Every variable of the endpoints keeps its type, whatever the requests.
THEOREM DispatchTypeCorrect == DispatchSpec => []DispatchTypeOK
<1>1. DispatchInv => DispatchTypeOK
  BY DEF DispatchInv
<1> QED
  BY <1>1, DispatchInvariance, PTL

\* A request answered 202 has its outcome in the row.
THEOREM Reply202Holds == DispatchSpec => []Reply202MeansDecided
BY InvReplies, DispatchInvariance, PTL

\* What is billed was taken by the provider or recorded by its caller.
THEOREM UsageIsAcceptedHolds == DispatchSpec => []UsageIsAccepted
BY InvUsage, DispatchInvariance, PTL

\* However many requests carry one source_ref, one row has it.
THEOREM BilledOncePerRefHolds == DispatchSpec => []BilledOncePerRef
<1>1. DispatchInv => BilledOncePerRef
  BY DEF DispatchInv
<1> QED
  BY <1>1, DispatchInvariance, PTL

\* A recording that was told it is a replay is in the usage under another row, or
\* shares its source_ref with an email.
THEOREM ReplayIsCountedHolds == DispatchSpec => []ReplayIsCounted
BY InvReplayed, DispatchInvariance, PTL

\* While a request decides, its row is the one it inserted, so that no trigger
\* can refuse the outcome.
THEOREM DecidingOwnsRowHolds == DispatchSpec => []DecidingOwnsRow
BY InvOwnsRow, DispatchInvariance, PTL

\* A mail whose row failed as fatal or without credentials never went out.
THEOREM FatalWasNotSentHolds == DispatchSpec => []FatalWasNotSent
BY InvFatal, DispatchInvariance, PTL

-----------------------------------------------------------------------------
(* The endpoints implement MailPromise: what the abstract state sees.      *)

\* The fate of a message, as the refinement mapping names it.
Fate == [m \in Msg |-> IF msgs[m].status = "absent" THEN "unknown" ELSE msgs[m].status]

\* A step that sees no status change and takes no mail is no abstract step; one
\* that changes the status of its own message is an abstract change of fate.
LEMMA FateFacts ==
  ASSUME DispatchInv, NEW m \in Msg, msgs' = [msgs EXCEPT ![m] = msgs'[m]]
  PROVE  /\ msgs'[m].status = msgs[m].status => Fate' = Fate
         /\ msgs[m].status = "absent" <=> Fate[m] = "unknown"
         /\ msgs[m].status # "absent" => Fate[m] = msgs[m].status
         /\ msgs'[m].status # "absent" => Fate' = [Fate EXCEPT ![m] = msgs'[m].status]
<1>1. msgs \in [Msg -> Row]
  BY DEF DispatchInv, DispatchTypeOK, RowsTypeOK
<1>2. \A n \in Msg \ {m} : msgs'[n] = msgs[n]
  BY <1>1
<1>3. msgs[m].status \in Status /\ "unknown" \notin Status
  BY <1>1 DEF Row, Status
<1> QED
  BY <1>2, <1>3 DEF Fate

\* A mail is taken for a row that is queued.
LEMMA TakenWhileQueued ==
  ASSUME DispatchInv, NEW m \in Msg, msgs[m] = QueuedRow, msgs' = msgs,
         accepted' \in {accepted, accepted \cup {m}}
  PROVE  Mailing!Take(m) \/ UNCHANGED Mailing!promiseVars
<1>1. Fate' = Fate /\ Fate[m] = "queued"
  BY RowsTyped DEF Fate
<1> QED
  BY <1>1 DEF Mailing!Take, Mailing!promiseVars, Fate

\* The commit of an outcome is an abstract decision.
LEMMA CommitDecides ==
  ASSUME DispatchInv, NEW m \in Msg, msgs[m].status = "queued",
         msgs' = [msgs EXCEPT ![m] = msgs'[m]],
         \/ msgs'[m].status = "failed"
         \/ msgs'[m].status = "sent" /\ m \in accepted,
         accepted' = accepted
  PROVE  Mailing!Decide(m)
<1>1. Fate[m] = "queued" /\ Fate' = [Fate EXCEPT ![m] = msgs'[m].status]
  BY FateFacts
<1> QED
  BY <1>1 DEF Mailing!Decide, Mailing!Becomes, Fate

\* Every step of a handler is a step the abstract service may make, or none.
LEMMA HandlerKeepsPromise ==
  ASSUME DispatchInv, NEW m \in Msg, HandleRequest(m)
  PROVE  Mailing!Next \/ UNCHANGED Mailing!promiseVars
<1> USE DEF Mailing!Next
<1>1. MessageInv(m) /\ msgs \in [Msg -> Row]
  BY DEF DispatchInv, DispatchTypeOK, RowsTypeOK
<1>2. CASE UNCHANGED <<msgs, accepted>>
  BY <1>2 DEF Mailing!promiseVars
<1>3. CASE InsertQueued(m)
  <2>1. /\ msgs' = [msgs EXCEPT ![m] = QueuedRow] /\ accepted' = accepted
        /\ request[m] = "new"
    BY <1>3 DEF InsertQueued, QueuedRow, Goes
  <2>2. msgs'[m] = QueuedRow /\ msgs[m] = AbsentRow
        /\ msgs' = [msgs EXCEPT ![m] = msgs'[m]]
    BY <1>1, <2>1 DEF MessageInv, RowOfStage, Rowless
  <2>3. Fate[m] = "unknown" /\ Fate' = [Fate EXCEPT ![m] = "queued"]
    BY <2>2, FateFacts, RowsTyped
  <2>4. Mailing!Accept(m)
    BY <2>1, <2>3 DEF Mailing!Accept, Mailing!Becomes, Fate
  <2> QED
    BY <2>4
<1>4. CASE RecordInsert(m) /\ ~RefTaken(m)
  <2>1. /\ msgs' = [msgs EXCEPT ![m] = [AbsentRow EXCEPT !.status = "sent"]]
        /\ accepted' = accepted /\ request[m] = "recording"
    BY <1>4 DEF RecordInsert, Goes
  <2>2. msgs'[m].status = "sent" /\ msgs[m] = AbsentRow
        /\ msgs' = [msgs EXCEPT ![m] = msgs'[m]]
    BY <1>1, <2>1 DEF MessageInv, RowOfStage, Rowless, AbsentRow
  <2>3. Fate[m] = "unknown" /\ Fate' = [Fate EXCEPT ![m] = "sent"]
    BY <2>2, FateFacts, RowsTyped
  <2>4. Mailing!Record(m)
    BY <2>1, <2>3 DEF Mailing!Record, Mailing!Becomes, Fate
  <2> QED
    BY <2>4
<1>5. CASE ProviderAccepts(m) \/ \E answer \in Answer : ProviderFails(m, answer)
  <2>1. /\ request[m] = "sending" /\ msgs' = msgs
        /\ accepted' \in {accepted, accepted \cup {m}}
    BY <1>5 DEF ProviderAccepts, ProviderFails, Goes
  <2>2. msgs[m] = QueuedRow
    BY <1>1, <2>1 DEF MessageInv, RowOfStage, Deciding
  <2> QED
    BY <2>1, <2>2, TakenWhileQueued
<1>6. CASE CommitSent(m)
  <2>1. PICK reporting \in {FALSE} \cup {(m \in Reporting)} :
          UpdateAndReply(m, "accepted", SentRow(m, reporting),
                         IF reporting THEN "reporting" ELSE "reply202")
    BY <1>6, Zenon DEF CommitSent
  <2>2. PICK row, to : /\ row = SentRow(m, reporting)
                       /\ UpdateAndReply(m, "accepted", row, to)
    BY <2>1
  <2>3. request[m] = "accepted" /\ accepted' = accepted
    BY <1>6, <2>2 DEF UpdateAndReply, Goes, CommitSent
  <2>4. msgs[m] = QueuedRow /\ m \in accepted
    BY <1>1, <2>3 DEF MessageInv, RowOfStage, MailOfStage, Deciding
  <2>5. row.status = "sent"
    BY <2>2, <2>4 DEF SentRow, QueuedRow, AbsentRow
  <2>6. CASE msgs' = [msgs EXCEPT ![m] = row]
    <3>1. msgs'[m].status = "sent" /\ msgs' = [msgs EXCEPT ![m] = msgs'[m]]
      BY <1>1, <2>5, <2>6
    <3> QED
      BY <2>3, <2>4, <3>1, RowsTyped, CommitDecides
  <2> QED
    BY <1>2, <2>2, <2>3, <2>6 DEF UpdateAndReply
<1>7. ASSUME NEW from \in Deciding, NEW error, UpdateFailed(m, from, error),
             accepted' = accepted
      PROVE  Mailing!Next \/ UNCHANGED Mailing!promiseVars
  <2>1. request[m] = from
    BY <1>7 DEF UpdateFailed, UpdateAndReply, Goes
  <2>2. msgs[m] = QueuedRow
    BY <1>1, <1>7, <2>1 DEF MessageInv, RowOfStage
  <2>3. CASE msgs' = [msgs EXCEPT ![m] = [msgs[m] EXCEPT !.status = "failed"]]
    <3>1. msgs'[m].status = "failed" /\ msgs' = [msgs EXCEPT ![m] = msgs'[m]]
      BY <1>1, <2>2, <2>3 DEF QueuedRow, AbsentRow
    <3> QED
      BY <1>7, <2>2, <3>1, RowsTyped, CommitDecides
  <2> QED
    BY <1>2, <1>7, <2>3 DEF UpdateFailed, UpdateAndReply
<1>8. CASE NoCredentials(m)
  BY <1>7, <1>8 DEF NoCredentials, Deciding
<1>9. CASE \E error \in SendError : CommitFailed(m, error)
  BY <1>7, <1>9 DEF CommitFailed, Deciding
<1> QED
  BY <1>2, <1>3, <1>4, <1>5, <1>6, <1>8, <1>9
  DEF HandleRequest, Reject, BrokenCredential, BuildProvider, ReportRaises,
      RecordLookUp, RecordInsert, RecordReplay

\* One step of the endpoints, the end of a process included, is a step or a
\* stutter of the promise.
LEMMA DispatchStepKeepsPromise ==
  DispatchInv /\ [DispatchNext]_dispatchVars => [Mailing!Next]_(Mailing!promiseVars)
<1> SUFFICES ASSUME DispatchInv, [DispatchNext]_dispatchVars
             PROVE  Mailing!Next \/ UNCHANGED Mailing!promiseVars
  OBVIOUS
<1>1. ASSUME NEW m \in Msg, HandleRequest(m)
      PROVE  Mailing!Next \/ UNCHANGED Mailing!promiseVars
  BY <1>1, HandlerKeepsPromise
<1>2. ASSUME NEW m \in Msg, Crash(m)
      PROVE  Mailing!Next \/ UNCHANGED Mailing!promiseVars
  <2>1. CASE request[m] = "sending"
    <3>1. msgs[m] = QueuedRow
      BY <2>1 DEF DispatchInv, MessageInv, RowOfStage, Deciding
    <3> QED
      BY <1>2, <3>1, TakenWhileQueued DEF Crash, Mailing!Next
  <2>2. CASE request[m] # "sending"
    BY <1>2, <2>2 DEF Crash, Mailing!promiseVars
  <2> QED
    BY <2>1, <2>2
<1>3. CASE UNCHANGED dispatchVars
  BY <1>3 DEF dispatchVars, Mailing!promiseVars
<1> QED
  BY <1>1, <1>2, <1>3 DEF DispatchNext

\* Whatever the requests, the answers of the provider and the crashes, the service
\* keeps MailPromise.
THEOREM DispatchKeepsMailPromise == DispatchSpec => KeepsMailPromise
<1>1. DispatchInit => Mailing!Init
  BY RowsTyped DEF DispatchInit, Mailing!Init
<1> QED
  BY <1>1, DispatchStepKeepsPromise, DispatchInvariance, PTL
  DEF DispatchSpec, KeepsMailPromise, Mailing!Spec
=============================================================================
