---------------------------- MODULE CentroProofs ----------------------------
(***************************************************************************)
(* Proofs about the whole Centro de Mensajes: dispatch requests, webhook   *)
(* handlers and retry workers over one table, for any numbers of them.     *)
(*                                                                         *)
(* The modules Dispatch, LedgerRetry and Webhooks each describe the rest   *)
(* of the system by a few lines of what it may write.  Here the parts meet *)
(* and the proof is that they keep to those lines: each part's invariant   *)
(* is what the others need to be the environment it was promised.  So the  *)
(* three are proved together, as one induction.                            *)
(***************************************************************************)
EXTENDS CentroMensajes, LedgerRetryProofs, DispatchProofs, WebhooksProofs

\* The row of a request that has not committed an outcome is its own.
StageOwnsRow(m) ==
  /\ request[m] \in Rowless => msgs[m] = AbsentRow
  /\ request[m] \in Deciding => msgs[m] = QueuedRow

\* What a row says is true of the mail, before and after the webhooks and the
\* workers have written to it.
RowStaysTrue(m) ==
  /\ msgs[m].status \in Billable => m \in accepted \cup Recording
  /\ msgs[m].ledger # "not_applicable" => m \in accepted
  /\ lastError[m] # "none" => msgs[m].status = "failed"
  /\ lastError[m] \in {"fatal", "no_credentials"} => m \notin accepted
  /\ request[m] = "reply202" =>
       \/ msgs[m].status = "failed"
       \/ msgs[m].status \in Terminal \cup {"sent"} /\ m \in accepted

\* A recording has no stage of an email; its row is sent and has no provider id,
\* so no webhook finds it.
RecordingIsLeftAlone(m) ==
  /\ request[m] \in RecordStages => m \in Recording
  /\ m \in Recording => msgs[m].status \in {"absent", "sent"} /\ ~msgs[m].external

CentroMessage(m) ==
  /\ StageOwnsRow(m)
  /\ MailOfStage(m)
  /\ RowStaysTrue(m)
  /\ RecordingIsLeftAlone(m)

\* A worker's uncommitted rows leave the provider's id as it is.
WrittenKeepsId ==
  \A w \in Worker : \A m \in DOMAIN written[w] :
    written[w][m].external = msgs[m].external

CentroInv ==
  /\ DispatchTypeOK
  /\ LedgerInv
  /\ WebhookInv
  /\ \A m \in Msg : CentroMessage(m)
  /\ BilledOncePerRef
  /\ ReplayHasRow
  /\ WrittenKeepsId
  /\ ChargedIsAccepted
  /\ ClaimIsReported

-----------------------------------------------------------------------------
(* The requests: what a step of one does to its own message.               *)

\* What a request may do to the table: insert its row where its source_ref has
\* none, and commit the outcome of the row it has inserted.
ServeRow(m) ==
  \/ msgs' = msgs
  \/ /\ msgs[m] = AbsentRow /\ ~RefTaken(m)
     /\ \E s \in {"queued", "sent"} :
          msgs' = [msgs EXCEPT ![m] = [AbsentRow EXCEPT !.status = s]]
  \/ /\ msgs[m] = QueuedRow
     /\ msgs' = [msgs EXCEPT ![m] = [QueuedRow EXCEPT !.status = "failed"]]
  \/ /\ msgs[m] = QueuedRow
     /\ \E l \in {"not_applicable", "pending"} :
          msgs' = [msgs EXCEPT ![m] = [QueuedRow EXCEPT !.status = "sent",
                                         !.external = TRUE, !.ledger = l]]

\* The whole of a request's step.
ServeStep(m) ==
  /\ OwnStep(m)
  /\ ServeRow(m)
  /\ request'[m] \in {"new"} \cup InFlight \cup Ended
  /\ lastError'[m] \in SendError \cup {"none", "no_credentials"}
  /\ CentroMessage(m)'
  /\ request'[m] \in {"replaying", "replayed"} =>
       request[m] \in {"replaying", "replayed"} \/ RefTaken(m)

\* Where a request goes, and that no other does.
LEMMA ServeGoes ==
  ASSUME DispatchTypeOK, NEW m \in Msg, NEW from, NEW to, Goes(m, from, to)
  PROVE  /\ request[m] = from
         /\ request'[m] = to
         /\ request' = [request EXCEPT ![m] = request'[m]]
BY DEF Goes, DispatchTypeOK

\* A step that leaves the columns of the message as they are.
LEMMA ServeLeaves ==
  ASSUME DispatchTypeOK, NEW m \in Msg
  PROVE  /\ msgs' = msgs => msgs' = [msgs EXCEPT ![m] = msgs'[m]]
         /\ lastError' = lastError =>
              /\ lastError' = [lastError EXCEPT ![m] = lastError'[m]]
              /\ lastError'[m] \in SendError \cup {"none", "no_credentials"}
BY DEF DispatchTypeOK, RowsTypeOK

\* The steps that move the request and nothing else.
LEMMA ServeStage ==
  ASSUME CentroInv, NEW m \in Msg,
         \/ Reject(m) \/ BrokenCredential(m) \/ BuildProvider(m)
         \/ ReportRaises(m) \/ RecordLookUp(m) \/ RecordReplay(m)
  PROVE  ServeStep(m)
<1> DEFINE Move(from, to) ==
      \/ from = "new" /\ to = "rejected"
      \/ from = "dispatching" /\ to \in {"reply500", "sending"}
      \/ from = "reporting" /\ to = "reply500"
      \/ from = "new" /\ m \in Recording /\ to = "recording"
      \/ from = "new" /\ m \in Recording /\ to = "replayed" /\ RefTaken(m)
      \/ from = "replaying" /\ to = "replayed"
<1>1. PICK from \in {"new"} \cup InFlight, to \in InFlight \cup Ended :
        Goes(m, from, to) /\ Move(from, to)
  BY DEF Reject, BrokenCredential, BuildProvider, ReportRaises, RecordLookUp,
         RecordReplay, InFlight, Deciding, Ended
<1>2. UNCHANGED <<msgs, lastError, accepted>>
  BY DEF Reject, BrokenCredential, BuildProvider, ReportRaises, RecordLookUp, RecordReplay
<1>3. DispatchTypeOK /\ CentroMessage(m)
  BY DEF CentroInv
<1>4. /\ request[m] = from /\ request'[m] = to
      /\ request' = [request EXCEPT ![m] = request'[m]]
  BY <1>1, <1>3, ServeGoes
<1>5. OwnStep(m) /\ ServeRow(m)
  BY <1>2, <1>3, <1>4, ServeLeaves DEF OwnStep, ServeRow
<1>6. CentroMessage(m)'
  BY <1>1, <1>2, <1>3, <1>4
  DEF CentroMessage, StageOwnsRow, MailOfStage, RowStaysTrue, RecordingIsLeftAlone,
      Rowless, Deciding, SendError, RecordStages
<1> QED
  BY <1>1, <1>2, <1>3, <1>4, <1>5, <1>6, ServeLeaves DEF ServeStep

\* An INSERT finds no row of its message, which is told by the request's stage.
LEMMA ServeInsert ==
  ASSUME CentroInv, NEW m \in Msg, InsertQueued(m) \/ RecordInsert(m)
  PROVE  ServeStep(m)
<1>1. DispatchTypeOK /\ CentroMessage(m) /\ msgs \in [Msg -> Row]
  BY DEF CentroInv, DispatchTypeOK, RowsTypeOK
<1>2. UNCHANGED <<lastError, accepted>>
  BY DEF InsertQueued, RecordInsert
<1>3. request[m] \in {"new", "recording"}
  BY <1>1, ServeGoes DEF InsertQueued, RecordInsert
<1>4. msgs[m] = AbsentRow /\ lastError[m] = "none" /\ m \notin accepted
  BY <1>1, <1>3, RowsTyped
  DEF CentroMessage, StageOwnsRow, MailOfStage, RowStaysTrue, Rowless
<1>5. CASE InsertQueued(m)
  <2>1. /\ m \notin Recording /\ ~RefTaken(m)
        /\ request'[m] = "dispatching"
        /\ request' = [request EXCEPT ![m] = request'[m]]
    BY <1>1, <1>5, ServeGoes DEF InsertQueued
  <2>2. /\ msgs' = [msgs EXCEPT ![m] = [AbsentRow EXCEPT !.status = "queued"]]
        /\ msgs'[m] = QueuedRow
    BY <1>1, <1>5 DEF InsertQueued, QueuedRow
  <2>3. OwnStep(m) /\ ServeRow(m)
    BY <1>1, <1>2, <1>4, <2>1, <2>2, ServeLeaves DEF OwnStep, ServeRow
  <2>4. CentroMessage(m)'
    BY <1>2, <1>4, <2>1, <2>2, RowsTyped
    DEF CentroMessage, StageOwnsRow, MailOfStage, RowStaysTrue, RecordingIsLeftAlone,
        Rowless, Deciding, SendError, RecordStages, Billable
  <2> QED
    BY <1>1, <1>2, <2>1, <2>3, <2>4, ServeLeaves DEF ServeStep, InFlight, Deciding
<1>6. CASE RecordInsert(m) /\ RefTaken(m)
  <2>1. /\ request[m] = "recording" /\ request'[m] = "replaying"
        /\ request' = [request EXCEPT ![m] = request'[m]]
        /\ msgs' = msgs
    BY <1>1, <1>6, ServeGoes DEF RecordInsert
  <2>2. OwnStep(m) /\ ServeRow(m)
    BY <1>1, <1>2, <2>1, ServeLeaves DEF OwnStep, ServeRow
  <2>3. CentroMessage(m)'
    BY <1>1, <1>2, <2>1
    DEF CentroMessage, StageOwnsRow, MailOfStage, RowStaysTrue, RecordingIsLeftAlone,
        Rowless, Deciding, SendError, RecordStages
  <2> QED
    BY <1>1, <1>2, <1>6, <2>1, <2>2, <2>3, ServeLeaves DEF ServeStep, InFlight
<1>7. CASE RecordInsert(m) /\ ~RefTaken(m)
  <2>1. /\ request[m] = "recording" /\ request'[m] = "recorded"
        /\ request' = [request EXCEPT ![m] = request'[m]]
    BY <1>1, <1>7, ServeGoes DEF RecordInsert
  <2>2. /\ msgs' = [msgs EXCEPT ![m] = [AbsentRow EXCEPT !.status = "sent"]]
        /\ msgs'[m] = [AbsentRow EXCEPT !.status = "sent"]
    BY <1>1, <1>7 DEF RecordInsert
  <2>3. msgs'[m].status = "sent" /\ ~msgs'[m].external /\ msgs'[m].ledger = "not_applicable"
    BY <2>2 DEF AbsentRow
  <2>4. OwnStep(m) /\ ServeRow(m)
    BY <1>1, <1>2, <1>4, <1>7, <2>1, <2>2, ServeLeaves DEF OwnStep, ServeRow
  <2>5. m \in Recording
    BY <1>1, <2>1 DEF CentroMessage, RecordingIsLeftAlone, RecordStages
  <2>6. CentroMessage(m)'
    BY <1>2, <1>4, <2>1, <2>3, <2>5
    DEF CentroMessage, StageOwnsRow, MailOfStage, RowStaysTrue, RecordingIsLeftAlone,
        Rowless, Deciding, SendError, RecordStages
  <2> QED
    BY <1>1, <1>2, <2>1, <2>4, <2>6, ServeLeaves DEF ServeStep, Ended
<1> QED
  BY <1>5, <1>6, <1>7

\* The provider's answer, the lack of one, and the end of the process leave the
\* table as it is.
LEMMA ServeProvider ==
  ASSUME CentroInv, NEW m \in Msg,
         \/ ProviderAccepts(m)
         \/ \E answer \in Answer : ProviderFails(m, answer)
         \/ Crash(m)
  PROVE  ServeStep(m)
<1>1. DispatchTypeOK /\ CentroMessage(m)
  BY DEF CentroInv
<1>2. /\ UNCHANGED <<msgs, lastError>>
      /\ accepted' \in {accepted, accepted \cup {m}}
  BY DEF ProviderAccepts, ProviderFails, Crash
<1>3. CASE Crash(m)
  <2>1. /\ request' = [request EXCEPT ![m] = request'[m]] /\ request'[m] = "crashed"
        /\ request[m] # "sending" => accepted' = accepted
    BY <1>1, <1>3 DEF Crash, DispatchTypeOK
  <2>2. OwnStep(m) /\ ServeRow(m)
    BY <1>1, <1>2, <2>1, ServeLeaves DEF OwnStep, ServeRow
  <2>3. request[m] = "sending" => lastError[m] = "none"
    BY <1>1, RowsTyped DEF CentroMessage, StageOwnsRow, RowStaysTrue, Deciding
  <2>4. CentroMessage(m)'
    BY <1>1, <1>2, <2>1, <2>3
    DEF CentroMessage, StageOwnsRow, MailOfStage, RowStaysTrue, RecordingIsLeftAlone,
        Rowless, Deciding, SendError, RecordStages
  <2> QED
    BY <1>1, <1>2, <2>1, <2>2, <2>4, ServeLeaves DEF ServeStep, Ended
<1>4. CASE ProviderAccepts(m) \/ \E answer \in Answer : ProviderFails(m, answer)
  <2>1. PICK to \in {"accepted"} \cup SendError :
          /\ Goes(m, "sending", to)
          /\ to = "accepted" => m \in accepted'
          /\ to = "fatal" => accepted' = accepted
    <3>1. ASSUME NEW answer \in Answer, ProviderFails(m, answer)
          PROVE  /\ Raises(answer) \in SendError
                 /\ Raises(answer) = "fatal" => accepted' = accepted
      BY <3>1 DEF ProviderFails, Answer, Raises, MayTake, SendError
    <3>2. CASE ProviderAccepts(m)
      BY <3>2 DEF ProviderAccepts
    <3>3. ASSUME NEW answer \in Answer, ProviderFails(m, answer)
          PROVE  \E to \in {"accepted"} \cup SendError :
                   /\ Goes(m, "sending", to)
                   /\ to = "accepted" => m \in accepted'
                   /\ to = "fatal" => accepted' = accepted
      BY <3>1, <3>3 DEF ProviderFails, SendError
    <3> QED
      BY <1>4, <3>2, <3>3
  <2>2. /\ request[m] = "sending" /\ request'[m] = to
        /\ request' = [request EXCEPT ![m] = request'[m]]
    BY <1>1, <2>1, ServeGoes
  <2>3. OwnStep(m) /\ ServeRow(m)
    BY <1>1, <1>2, <2>2, ServeLeaves DEF OwnStep, ServeRow
  <2>4. msgs[m] = QueuedRow /\ lastError[m] = "none" /\ m \notin accepted
    BY <1>1, <2>2, RowsTyped
    DEF CentroMessage, StageOwnsRow, MailOfStage, RowStaysTrue, Deciding
  <2>5. CentroMessage(m)'
    BY <1>1, <1>2, <2>1, <2>2, <2>4, RowsTyped
    DEF CentroMessage, StageOwnsRow, MailOfStage, RowStaysTrue, RecordingIsLeftAlone,
        Rowless, Deciding, SendError, RecordStages
  <2> QED
    BY <1>1, <1>2, <2>1, <2>2, <2>3, <2>5, ServeLeaves
    DEF ServeStep, InFlight, Deciding, SendError
<1> QED
  BY <1>3, <1>4

\* The commit of an outcome finds the row queued, so that no trigger is in its way:
\* no webhook and no worker can have written to it.
LEMMA ServeCommits ==
  ASSUME CentroInv, NEW m \in Msg, NEW from \in Deciding,
         NEW row \in Row, row.status \in {"sent", "failed"},
         NEW to, UpdateAndReply(m, from, row, to)
  PROVE  /\ msgs[m] = QueuedRow
         /\ TriggersAllow(msgs[m], row)
         /\ request[m] = from /\ request'[m] = to
         /\ request' = [request EXCEPT ![m] = request'[m]]
         /\ msgs' = [msgs EXCEPT ![m] = row]
         /\ msgs'[m] = row
<1>1. DispatchTypeOK /\ CentroMessage(m) /\ msgs \in [Msg -> Row]
  BY DEF CentroInv, DispatchTypeOK, RowsTypeOK
<1>2. request[m] = from
  BY <1>1, ServeGoes DEF UpdateAndReply
<1>3. msgs[m] = QueuedRow
  BY <1>1, <1>2 DEF CentroMessage, StageOwnsRow
<1>4. TriggersAllow(msgs[m], row)
  BY <1>3 DEF TriggersAllow, LifecycleAllows, MutationAllows, QueuedRow, AbsentRow
<1>5. Goes(m, from, to) /\ msgs' = [msgs EXCEPT ![m] = row]
  BY <1>4 DEF UpdateAndReply
<1> QED
  BY <1>1, <1>3, <1>4, <1>5, ServeGoes

\* The commit of the outcome: failed with its error, or sent, and then perhaps
\* owed, for a mail that is out.
LEMMA ServeOutcome ==
  ASSUME CentroInv, NEW m \in Msg,
         NoCredentials(m) \/ CommitSent(m) \/ \E error \in SendError : CommitFailed(m, error)
  PROVE  ServeStep(m)
<1>1. DispatchTypeOK /\ CentroMessage(m) /\ msgs \in [Msg -> Row]
  BY DEF CentroInv, DispatchTypeOK, RowsTypeOK
<1>2. accepted' = accepted
  BY DEF NoCredentials, CommitSent, CommitFailed
<1>3. CASE CommitSent(m)
  <2>1. PICK reporting \in {FALSE} \cup {(m \in Reporting)} :
          UpdateAndReply(m, "accepted", SentRow(m, reporting),
                         IF reporting THEN "reporting" ELSE "reply202")
    BY <1>3, Zenon DEF CommitSent
  <2>2. request[m] = "accepted"
    BY <2>1 DEF UpdateAndReply, Goes
  <2>3. msgs[m] = QueuedRow /\ m \in accepted /\ request[m] \in Deciding
    BY <1>1, <2>2 DEF CentroMessage, StageOwnsRow, MailOfStage, Deciding
  <2>4. PICK l \in {"not_applicable", "pending"} :
          SentRow(m, reporting) = [QueuedRow EXCEPT !.status = "sent", !.external = TRUE,
                                                    !.ledger = l]
    <3>1. CASE reporting
      <4>1. SentRow(m, reporting) = [QueuedRow EXCEPT !.status = "sent", !.external = TRUE,
                                                      !.ledger = "pending"]
        BY <2>3, <3>1 DEF SentRow
      <4> QED
        BY <4>1
    <3>2. CASE ~reporting
      <4>1. SentRow(m, reporting) = [QueuedRow EXCEPT !.status = "sent", !.external = TRUE,
                                                      !.ledger = "not_applicable"]
        BY <2>3, <3>2, RowsTyped DEF SentRow
      <4> QED
        BY <4>1
    <3> QED
      BY <3>1, <3>2
  <2>5. SentRow(m, reporting) \in Row /\ SentRow(m, reporting).status = "sent"
    <3>1. SentRow(m, reporting) \in Row
      BY <2>4, RowsTyped DEF LedgerStatus
    <3>2. SentRow(m, reporting).status = "sent"
      BY <2>4 DEF QueuedRow, AbsentRow
    <3> QED
      BY <3>1, <3>2
  <2>6. PICK row \in Row, to \in {"reporting", "reply202"} :
          /\ row = SentRow(m, reporting)
          /\ row.status = "sent" /\ UpdateAndReply(m, "accepted", row, to)
    BY <2>1, <2>5
  <2>7. /\ request'[m] = to
        /\ request' = [request EXCEPT ![m] = request'[m]]
        /\ msgs' = [msgs EXCEPT ![m] = row]
        /\ msgs'[m] = row
    BY <2>2, <2>3, <2>6, ServeCommits
  <2>8. lastError' = lastError /\ lastError[m] = "none"
    BY <1>1, <1>3, <2>3, RowsTyped DEF CommitSent, CentroMessage, RowStaysTrue
  <2>9. m \notin Recording
    BY <1>1, <2>3, RowsTyped DEF CentroMessage, RecordingIsLeftAlone
  <2>10. OwnStep(m) /\ ServeRow(m)
    <3>1. msgs' = [msgs EXCEPT ![m] = msgs'[m]]
      BY <2>7
    <3>2. OwnStep(m)
      BY <1>1, <1>2, <2>7, <2>8, <3>1, ServeLeaves DEF OwnStep
    <3>3. msgs' = [msgs EXCEPT ![m] = [QueuedRow EXCEPT !.status = "sent",
                                         !.external = TRUE, !.ledger = l]]
      BY <2>4, <2>6, <2>7
    <3> QED
      BY <2>3, <3>2, <3>3 DEF ServeRow
  <2>11. CentroMessage(m)'
    BY <1>2, <2>3, <2>6, <2>7, <2>8, <2>9
    DEF CentroMessage, StageOwnsRow, MailOfStage, RowStaysTrue, RecordingIsLeftAlone,
        Rowless, Deciding, SendError, RecordStages
  <2> QED
    BY <1>1, <2>6, <2>7, <2>8, <2>10, <2>11, ServeLeaves DEF ServeStep, InFlight, Ended
<1>4. ASSUME NEW from \in Deciding, NEW error \in SendError \cup {"no_credentials"},
             UpdateFailed(m, from, error),
             error \in {"fatal", "no_credentials"} => m \notin accepted
      PROVE  ServeStep(m)
  <2> DEFINE row == [msgs[m] EXCEPT !.status = "failed"]
  <2>1. UpdateAndReply(m, from, row, "reply202") /\ request[m] = from
    BY <1>4 DEF UpdateFailed, UpdateAndReply, Goes
  <2>2. msgs[m] = QueuedRow
    BY <1>1, <1>4, <2>1 DEF CentroMessage, StageOwnsRow
  <2>3. row \in Row /\ row.status = "failed" /\ row.ledger = "not_applicable"
    BY <2>2, RowsTyped DEF QueuedRow, AbsentRow
  <2>4. /\ TriggersAllow(msgs[m], row)
        /\ request'[m] = "reply202"
        /\ request' = [request EXCEPT ![m] = request'[m]]
        /\ msgs' = [msgs EXCEPT ![m] = row]
        /\ msgs'[m] = row
    <3> HIDE DEF row
    <3> QED
      BY <1>4, <2>1, <2>3, ServeCommits
  <2>5. lastError' = [lastError EXCEPT ![m] = error]
    BY <1>4, <2>4 DEF UpdateFailed
  <2>6. lastError'[m] = error /\ lastError' = [lastError EXCEPT ![m] = lastError'[m]]
    BY <1>1, <2>5 DEF DispatchTypeOK
  <2>7. OwnStep(m) /\ ServeRow(m)
    <3>1. msgs' = [msgs EXCEPT ![m] = msgs'[m]]
      BY <2>4
    <3>2. OwnStep(m)
      BY <1>2, <2>4, <2>6, <3>1 DEF OwnStep
    <3>3. msgs' = [msgs EXCEPT ![m] = [QueuedRow EXCEPT !.status = "failed"]]
      BY <2>2, <2>4
    <3> QED
      BY <2>2, <3>2, <3>3 DEF ServeRow
  <2>8. m \notin Recording
    BY <1>1, <2>2, RowsTyped DEF CentroMessage, RecordingIsLeftAlone
  <2>9. CentroMessage(m)'
    <3>1. /\ msgs'[m].status = "failed" /\ msgs'[m].ledger = "not_applicable"
          /\ request'[m] = "reply202"
      BY <2>3, <2>4
    <3> QED
      BY <1>2, <1>4, <2>6, <2>8, <3>1
      DEF CentroMessage, StageOwnsRow, MailOfStage, RowStaysTrue, RecordingIsLeftAlone,
          Rowless, Deciding, SendError, RecordStages, Billable
  <2>10. request'[m] \in Ended /\ request'[m] \notin {"replaying", "replayed"}
    BY <2>4 DEF Ended
  <2> QED
    BY <1>4, <2>6, <2>7, <2>9, <2>10 DEF ServeStep
<1>5. CASE NoCredentials(m)
  <2>1. UpdateFailed(m, "dispatching", "no_credentials") /\ request[m] = "dispatching"
    BY <1>5 DEF NoCredentials, UpdateFailed, UpdateAndReply, Goes
  <2> QED
    BY <1>1, <1>4, <2>1 DEF CentroMessage, MailOfStage, Deciding
<1>6. CASE \E error \in SendError : CommitFailed(m, error)
  <2>1. PICK error \in SendError : UpdateFailed(m, error, error) /\ request[m] = error
    BY <1>6 DEF CommitFailed, UpdateFailed, UpdateAndReply, Goes
  <2> QED
    BY <1>1, <1>4, <2>1 DEF CentroMessage, MailOfStage, Deciding, SendError
<1> QED
  BY <1>3, <1>5, <1>6

\* Whatever a request does, it does to its own message, and rightly.
LEMMA ServeFacts ==
  ASSUME CentroInv, NEW m \in Msg, Serve(m)
  PROVE  ServeStep(m) /\ UNCHANGED <<workerVars, hookVars>>
BY ServeStage, ServeInsert, ServeProvider, ServeOutcome DEF Serve, HandleRequest

-----------------------------------------------------------------------------
(* Each part is, to the others, the environment they were promised.        *)

\* What a request writes is what the retry worker expects of the rest of the
\* system, and never a row that a worker has locked.
LEMMA ServeIsOthersWrite ==
  ASSUME CentroInv, NEW m \in Msg, ServeRow(m), UNCHANGED workerVars
  PROVE  OthersWrite(m) \/ UNCHANGED ledgerVars
<1>1. msgs \in [Msg -> Row] /\ LedgerInv
  BY DEF CentroInv, DispatchTypeOK, RowsTypeOK
<1>2. CASE msgs' = msgs
  BY <1>2 DEF ledgerVars
<1>3. CASE msgs[m] \in {AbsentRow, QueuedRow}
  <2>1. m \notin Locked
    BY <1>1, <1>3, RowsTyped DEF LedgerInv, HeldRowsDue, Billable, Locked
  <2>2. CASE \E s \in {"queued", "sent"} :
               /\ msgs[m] = AbsentRow
               /\ msgs' = [msgs EXCEPT ![m] = [AbsentRow EXCEPT !.status = s]]
    <3>1. PICK s \in {"queued", "sent"} :
            /\ msgs[m] = AbsentRow
            /\ msgs' = [msgs EXCEPT ![m] = [AbsentRow EXCEPT !.status = s]]
      BY <2>2
    <3>2. msgs' = [msgs EXCEPT ![m].status = s] /\ msgs[m].status = "absent"
      BY <3>1, RowsTyped
    <3> QED
      BY <1>1, <2>1, <3>2 DEF OthersWrite
  <2>3. CASE /\ msgs[m] = QueuedRow
             /\ msgs' = [msgs EXCEPT ![m] = [QueuedRow EXCEPT !.status = "failed"]]
    <3>1. msgs' = [msgs EXCEPT ![m].status = "failed"] /\ msgs[m].status = "queued"
      BY <2>3, RowsTyped
    <3> QED
      BY <2>1, <3>1 DEF OthersWrite
  <2>4. CASE \E l \in {"not_applicable", "pending"} :
               /\ msgs[m] = QueuedRow
               /\ msgs' = [msgs EXCEPT ![m] = [QueuedRow EXCEPT !.status = "sent",
                                                 !.external = TRUE, !.ledger = l]]
    <3>1. PICK l \in {"not_applicable", "pending"} :
            /\ msgs[m] = QueuedRow
            /\ msgs' = [msgs EXCEPT ![m] = [QueuedRow EXCEPT !.status = "sent",
                                              !.external = TRUE, !.ledger = l]]
      BY <2>4
    <3>2. msgs' = [msgs EXCEPT ![m].status = "sent", ![m].external = TRUE, ![m].ledger = l]
      BY <1>1, <3>1
    <3>3. msgs[m].status = "queued"
      BY <3>1, RowsTyped
    <3> QED
      BY <2>1, <3>2, <3>3 DEF OthersWrite
  <2> QED
    BY <1>2, <2>2, <2>3, <2>4 DEF ServeRow
<1> QED
  BY <1>2, <1>3 DEF ServeRow

\* The second session of a webhook is, to the retry worker, an end of a sent
\* message, or nothing; it waits for the worker's lock.
LEMMA PersistFacts ==
  ASSUME CentroInv, NEW h \in Handler, handler[h] # Free, RowFree(HeldMsg(h)), Persist(h)
  PROVE  \/ UNCHANGED msgs
         \/ /\ HeldMsg(h) \in Msg /\ HeldMsg(h) \notin Locked
            /\ msgs[HeldMsg(h)].status = "sent" /\ msgs[HeldMsg(h)].external
            /\ \E s \in Terminal : msgs' = [msgs EXCEPT ![HeldMsg(h)].status = s]
<1> DEFINE m == HeldMsg(h)
           old == msgs[m]
<1>1. WebhookTypeOK /\ IdComesWithSending /\ SeenHolds(h) /\ msgs \in [Msg -> Row]
  BY DEF CentroInv, WebhookInv, WebhookTypeOK, RowsTypeOK
<1>2. m \in Msg /\ old.external /\ m \notin Locked
  BY <1>1, HandlerHolds DEF HeldMsg, SeenHolds, RowFree
<1>3. old.status \in {"sent"} \cup Terminal
  BY <1>1, <1>2, ExternalIsReported DEF Reported
<1>4. msgs' = [msgs EXCEPT ![m] = HeldRow(h)] \/ msgs' = msgs
  BY DEF Persist, HeldMsg, HeldType, HeldRow
<1>5. CASE HeldRow(h) = old
  BY <1>1, <1>4, <1>5
<1>6. CASE HeldRow(h) # old
  <2>1. /\ HeldRow(h) = [old EXCEPT !.status = EventToStatus(HeldType(h))]
        /\ old.status = "sent" /\ HasStatus(HeldType(h))
    BY <1>3, <1>6 DEF HeldRow, RowAfter, Terminal
  <2>2. EventToStatus(HeldType(h)) \in Terminal
    BY <2>1 DEF EventToStatus, HasStatus, Terminal
  <2>3. PICK s \in Terminal : HeldRow(h) = [old EXCEPT !.status = s]
    BY <2>1, <2>2
  <2>4. msgs' = [msgs EXCEPT ![m].status = s] \/ msgs' = msgs
    BY <1>4, <2>3
  <2> QED
    BY <1>2, <2>1, <2>4
<1> QED
  BY <1>5, <1>6

\* The webhook side either leaves the table alone, or ends a sent message whose row
\* no worker has locked.
LEMMA NotifyFacts ==
  ASSUME CentroInv, Notify
  PROVE  /\ UNCHANGED <<request, lastError, accepted, workerVars>>
         /\ \/ UNCHANGED msgs
            \/ \E m \in Msg \ Locked, s \in Terminal :
                 /\ msgs[m].status = "sent" /\ msgs[m].external
                 /\ msgs' = [msgs EXCEPT ![m].status = s]
<1>1. CASE UNCHANGED msgs
  BY <1>1 DEF Notify
<1>2. ASSUME NEW h \in Handler, handler[h] # Free, RowFree(handler[h].event[1]), Persist(h)
      PROVE  \/ UNCHANGED msgs
             \/ \E m \in Msg \ Locked, s \in Terminal :
                  /\ msgs[m].status = "sent" /\ msgs[m].external
                  /\ msgs' = [msgs EXCEPT ![m].status = s]
  <2>1. RowFree(HeldMsg(h))
    BY <1>2 DEF HeldMsg
  <2> QED
    BY <1>2, <2>1, PersistFacts
<1> QED
  BY <1>1, <1>2 DEF Notify

\* Every step of the system is a step of the retry worker's world.
LEMMA CentroStepsLedger ==
  ASSUME CentroInv, [Next]_vars
  PROVE  [LedgerNext]_ledgerVars
<1>1. ASSUME NEW m \in Msg, Serve(m) PROVE [LedgerNext]_ledgerVars
  <2>1. ServeRow(m) /\ UNCHANGED workerVars
    BY <1>1, ServeFacts DEF ServeStep
  <2> QED
    BY <2>1, ServeIsOthersWrite DEF LedgerNext
<1>2. CASE Settle
  BY <1>2 DEF Settle, LedgerNext
<1>3. CASE Notify
  <2>1. CASE UNCHANGED <<msgs, workerVars>>
    BY <2>1 DEF ledgerVars
  <2>2. ASSUME NEW m \in Msg \ Locked, NEW s \in Terminal,
               msgs[m].status = "sent", msgs[m].external,
               msgs' = [msgs EXCEPT ![m].status = s], UNCHANGED workerVars
        PROVE  LedgerNext
    BY <2>2 DEF LedgerNext, OthersWrite
  <2> QED
    BY <1>3, <2>1, <2>2, NotifyFacts
<1>4. CASE UNCHANGED vars
  BY <1>4 DEF vars, dispatchVars, ledgerVars
<1> QED
  BY <1>1, <1>2, <1>3, <1>4 DEF Next

-----------------------------------------------------------------------------
(* What webhooks and workers do to a request's row after it was decided.    *)

\* A row no request has to decide changes only so far that all it said of the mail
\* stays true.
LaterStep(m) ==
  \/ msgs'[m] = msgs[m]
  \/ /\ msgs[m].status \in Billable /\ msgs'[m].status = msgs[m].status
     /\ msgs'[m].external = msgs[m].external
     /\ msgs[m].ledger # "not_applicable"
  \/ /\ msgs[m].status = "sent" /\ msgs[m].external
     /\ msgs'[m].status \in Terminal /\ msgs'[m].external
     /\ msgs'[m].ledger = msgs[m].ledger

\* A commit of the worker writes rows that were owed, in the ledger columns.
LEMMA SettleFacts ==
  ASSUME CentroInv, Settle
  PROVE  /\ UNCHANGED <<request, lastError, accepted, hookVars>>
         /\ \A m \in Msg : /\ LaterStep(m)
                           /\ msgs'[m].status = msgs[m].status
                           /\ msgs'[m].external = msgs[m].external
         /\ WrittenKeepsId'
         /\ \A e \in book' \ book : /\ msgs[e.msg].status \in Billable
                                    /\ msgs[e.msg].ledger # "not_applicable"
                                    /\ e.msg \in Msg
<1>1. LedgerInv /\ WrittenKeepsId
  BY DEF CentroInv
<1>2. UNCHANGED <<request, lastError, accepted, hookVars>>
  BY DEF Settle
<1>3. ASSUME NEW w \in Worker, NEW m \in Msg, Attempt(w, m)
      PROVE  /\ UNCHANGED msgs
             /\ WrittenKeepsId'
             /\ \A e \in book' \ book : e.msg = m
             /\ msgs[m].status \in Billable /\ msgs[m].ledger # "not_applicable"
  <2>1. m \in Held(w) /\ UNCHANGED msgs
    BY <1>1, <1>3 DEF Attempt, LedgerInv, BatchesHeld
  <2>2. msgs[m].status \in Billable /\ msgs[m].ledger # "not_applicable"
    BY <1>1, <2>1 DEF LedgerInv, HeldRowsDue, Owed
  <2>3. \A e \in book' \ book : e.msg = m
    BY <1>3 DEF Attempt, BookAfter
  <2>4. \A answer \in Answers(m) :
          AttemptedRow(m, picked[w][m], answer).external = msgs[m].external
    BY <1>1 DEF AttemptedRow, LedgerInv, LedgerTypeOK, RowsTypeOK, Row
  <2>5. ASSUME NEW v \in Worker, NEW n \in DOMAIN written'[v]
        PROVE  \/ n \in DOMAIN written[v] /\ written'[v][n] = written[v][n]
               \/ n = m /\ \E answer \in Answers(m) :
                             written'[v][n] = AttemptedRow(m, picked[w][m], answer)
    BY <1>1, <1>3, <2>5 DEF Attempt, LedgerInv, LedgerTypeOK
  <2>6. WrittenKeepsId'
    BY <1>1, <2>1, <2>4, <2>5 DEF WrittenKeepsId
  <2> QED
    BY <2>1, <2>2, <2>3, <2>6
<1>4. ASSUME NEW w \in Worker, Commit(w)
      PROVE  /\ book' = book
             /\ WrittenKeepsId'
             /\ \A m \in Msg : /\ LaterStep(m)
                               /\ msgs'[m].status = msgs[m].status
                               /\ msgs'[m].external = msgs[m].external
  <2>1. /\ msgs' = [m \in Msg |-> IF m \in DOMAIN written[w] THEN written[w][m] ELSE msgs[m]]
        /\ Release(w) /\ book' = book
    BY <1>4 DEF Commit
  <2>2. ASSUME NEW m \in Msg
        PROVE  /\ LaterStep(m)
               /\ msgs'[m].status = msgs[m].status
               /\ msgs'[m].external = msgs[m].external
    <3>1. CASE m \notin DOMAIN written[w]
      BY <2>1, <3>1 DEF LaterStep
    <3>2. CASE m \in DOMAIN written[w]
      <4>1. m \in Held(w) /\ msgs'[m] = written[w][m]
        BY <1>1, <2>1, <3>2 DEF LedgerInv, BatchesHeld
      <4>2. msgs[m].status \in Billable /\ msgs[m].ledger # "not_applicable"
        BY <1>1, <4>1 DEF LedgerInv, HeldRowsDue, Owed
      <4>3. msgs'[m].status = msgs[m].status /\ msgs'[m].external = msgs[m].external
        BY <1>1, <3>2, <4>1 DEF LedgerInv, WrittenSound, WrittenKeepsId
      <4> QED
        BY <4>2, <4>3 DEF LaterStep
    <3> QED
      BY <3>1, <3>2
  <2>3. WrittenKeepsId'
    <3> SUFFICES ASSUME NEW v \in Worker, NEW n \in DOMAIN written'[v]
                 PROVE  written'[v][n].external = msgs'[n].external
      BY DEF WrittenKeepsId
    <3>1. v # w /\ written'[v] = written[v]
      BY <1>1, <2>1, ReleaseFacts DEF LedgerInv
    <3>2. n \in Msg
      BY <1>1, <3>1 DEF LedgerInv, LedgerTypeOK, IsRowMap
    <3> QED
      BY <1>1, <2>2, <3>1, <3>2 DEF WrittenKeepsId
  <2> QED
    BY <2>1, <2>2, <2>3
<1>5. ASSUME NEW w \in Worker, Abort(w)
      PROVE  UNCHANGED <<msgs, book>> /\ WrittenKeepsId'
  BY <1>1, <1>5, ReleaseFacts DEF Abort, LedgerInv, WrittenKeepsId
<1>6. ASSUME UNCHANGED <<msgs, book, written>>
      PROVE  WrittenKeepsId'
  BY <1>1, <1>6 DEF WrittenKeepsId
<1>7. UNCHANGED msgs =>
        \A m \in Msg : /\ LaterStep(m)
                       /\ msgs'[m].status = msgs[m].status
                       /\ msgs'[m].external = msgs[m].external
  BY DEF LaterStep
<1>8. ASSUME NEW w \in Worker, Pick(w)
      PROVE  UNCHANGED <<msgs, book, written>>
  BY <1>8 DEF Pick
<1>9. ASSUME Elapse
      PROVE  UNCHANGED <<msgs, book, written>>
  BY <1>9 DEF Elapse
<1> QED
  BY <1>2, <1>3, <1>4, <1>5, <1>6, <1>7, <1>8, <1>9 DEF Settle, Work

\* The same of the webhooks.
LEMMA NotifyLater ==
  ASSUME CentroInv, Notify
  PROVE  \A m \in Msg : LaterStep(m)
<1>1. msgs \in [Msg -> Row]
  BY DEF CentroInv, DispatchTypeOK, RowsTypeOK
<1>2. CASE UNCHANGED msgs
  BY <1>2 DEF LaterStep
<1>3. ASSUME NEW n \in Msg \ Locked, NEW s \in Terminal,
             msgs[n].status = "sent", msgs[n].external,
             msgs' = [msgs EXCEPT ![n].status = s]
      PROVE  \A m \in Msg : LaterStep(m)
  <2>1. /\ msgs'[n].status = s /\ msgs'[n].external = msgs[n].external
        /\ msgs'[n].ledger = msgs[n].ledger
        /\ \A m \in Msg \ {n} : msgs'[m] = msgs[m]
    BY <1>1, <1>3 DEF Row
  <2> QED
    BY <1>3, <2>1 DEF LaterStep
<1> QED
  BY <1>2, <1>3, NotifyFacts

\* What the requests know of their rows and mails survives it.
LEMMA LaterKeepsMessages ==
  ASSUME CentroInv, \A m \in Msg : LaterStep(m),
         UNCHANGED <<request, lastError, accepted>>
  PROVE  /\ \A m \in Msg : CentroMessage(m)'
         /\ BilledOncePerRef'
         /\ ReplayHasRow'
<1>1. \A m \in Msg : msgs'[m].status = "absent" <=> msgs[m].status = "absent"
  BY DEF LaterStep, Terminal
<1>2. ASSUME NEW m \in Msg PROVE CentroMessage(m)'
  <2>1. CentroMessage(m) /\ LaterStep(m)
    BY DEF CentroInv
  <2>2. CASE msgs'[m] = msgs[m]
    BY <2>1, <2>2
    DEF CentroMessage, StageOwnsRow, MailOfStage, RowStaysTrue, RecordingIsLeftAlone
  <2>3. CASE msgs'[m] # msgs[m]
    <3>1. /\ msgs[m] # AbsentRow /\ msgs[m] # QueuedRow
          /\ msgs[m].status \in Billable /\ msgs'[m].status \in Billable \cup {"failed"}
          /\ msgs'[m].status # msgs[m].status => msgs[m].external
          /\ msgs'[m].external = msgs[m].external
          /\ msgs'[m].ledger # "not_applicable" => msgs[m].ledger # "not_applicable"
      BY <2>1, <2>3, RowsTyped DEF LaterStep, Billable, Terminal
    <3>2. msgs[m].status # "failed" /\ lastError[m] = "none"
      BY <2>1, <3>1 DEF CentroMessage, RowStaysTrue, Billable
    <3>3. StageOwnsRow(m)' /\ MailOfStage(m)'
      BY <2>1, <3>1 DEF CentroMessage, StageOwnsRow, MailOfStage
    <3>4. RowStaysTrue(m)'
      BY <2>1, <3>1, <3>2 DEF CentroMessage, RowStaysTrue, Billable, Terminal
    <3>5. RecordingIsLeftAlone(m)'
      BY <2>1, <3>1 DEF CentroMessage, RecordingIsLeftAlone
    <3> QED
      BY <3>3, <3>4, <3>5 DEF CentroMessage
  <2> QED
    BY <2>2, <2>3
<1>3. BilledOncePerRef'
  BY <1>1 DEF CentroInv, BilledOncePerRef
<1>4. \A m \in Msg : RowsOfRef(m)' = RowsOfRef(m)
  BY <1>1 DEF RowsOfRef
<1>5. ReplayHasRow'
  BY <1>4 DEF CentroInv, ReplayHasRow
<1> QED
  BY <1>2, <1>3, <1>5

-----------------------------------------------------------------------------
(* The invariant of the whole system.                                      *)

\* The empty table, with nothing under way anywhere.
LEMMA CentroInitInv == Init => CentroInv
<1> SUFFICES ASSUME Init PROVE CentroInv
  OBVIOUS
<1>1. DispatchInv /\ LedgerInv /\ WebhookInv
  BY DispatchInitInv, InitInv, WebhookInitInv DEF Init
<1>2. /\ \A m \in Msg : msgs[m] = AbsentRow /\ request[m] = "new" /\ lastError[m] = "none"
      /\ written = [w \in Worker |-> NoRows] /\ book = {}
  BY DEF Init, DispatchInit, LedgerInit
<1>3. ASSUME NEW m \in Msg PROVE CentroMessage(m)
  <2>1. MessageInv(m)
    BY <1>1 DEF DispatchInv
  <2>2. msgs[m].status = "absent" /\ ~msgs[m].external /\ msgs[m].ledger = "not_applicable"
    BY <1>2 DEF AbsentRow
  <2> QED
    BY <1>2, <2>1, <2>2
    DEF CentroMessage, StageOwnsRow, MailOfStage, RowStaysTrue, RecordingIsLeftAlone,
        MessageInv, RowOfStage, RecordingKeptApart, Billable
<1>4. WrittenKeepsId /\ ChargedIsAccepted /\ ClaimIsReported
  BY <1>2 DEF WrittenKeepsId, NoRows, ChargedIsAccepted, ClaimIsReported, Claimed, AbsentRow
<1> QED
  BY <1>1, <1>3, <1>4 DEF CentroInv, DispatchInv

\* A request's step: its own message is right by its facts, the others' rows, refs,
\* locks and events are untouched.
LEMMA ServeInv ==
  ASSUME CentroInv, NEW m \in Msg, Serve(m)
  PROVE  CentroInv'
<1> USE DEF CentroInv
<1>1. ServeStep(m) /\ UNCHANGED <<workerVars, hookVars>>
  BY ServeFacts
<1>2. OwnStep(m) /\ ServeRow(m) /\ CentroMessage(m)'
  BY <1>1 DEF ServeStep
<1>3. DOMAIN request = Msg /\ DOMAIN msgs = Msg /\ DOMAIN lastError = Msg
  BY DEF DispatchTypeOK, RowsTypeOK
<1>4. /\ \A n \in Msg \ {m} : /\ request'[n] = request[n]
                              /\ msgs'[n] = msgs[n]
                              /\ lastError'[n] = lastError[n]
                              /\ n \in accepted' <=> n \in accepted
      /\ accepted \subseteq accepted'
  BY <1>2, <1>3 DEF OwnStep
<1>5. msgs' \in [Msg -> Row]
  <2>1. msgs' = msgs \/ msgs'[m] \in Row
    BY <1>2, <1>3, RowsTyped DEF ServeRow, LedgerStatus, QueuedRow
  <2> QED
    BY <1>2, <2>1 DEF OwnStep, DispatchTypeOK, RowsTypeOK
<1>6. DispatchTypeOK'
  BY <1>1, <1>2, <1>5 DEF DispatchTypeOK, RowsTypeOK, OwnStep, ServeStep
<1>7. LedgerInv'
  BY CentroStepsLedger, NextInv DEF Next
<1>8. msgs'[m] = msgs[m] \/ msgs[m] \in {AbsentRow, QueuedRow}
  BY <1>2 DEF ServeRow
<1>9. WebhookInv'
  <2>1. ASSUME NEW n \in Msg PROVE OutsideStep(n)
    <3>1. CASE msgs'[n] = msgs[n]
      BY <3>1 DEF OutsideStep
    <3>2. CASE msgs'[n] # msgs[n]
      <4>1. n = m /\ msgs[m].status \in {"absent", "queued"}
        BY <1>4, <1>8, <3>2, RowsTyped
      <4>2. /\ msgs'[m].status \in {"queued", "sent", "failed"}
            /\ msgs'[m].external => msgs'[m].status = "sent"
        <5>1. ServeRow(m) /\ msgs' # msgs
          BY <1>2, <3>2
        <5>2. CASE \E s \in {"queued", "sent"} :
                     msgs' = [msgs EXCEPT ![m] = [AbsentRow EXCEPT !.status = s]]
          BY <1>3, <5>2 DEF AbsentRow
        <5>3. CASE msgs' = [msgs EXCEPT ![m] = [QueuedRow EXCEPT !.status = "failed"]]
          BY <1>3, <5>3 DEF QueuedRow, AbsentRow
        <5>4. CASE \E l \in {"not_applicable", "pending"} :
                     msgs' = [msgs EXCEPT ![m] = [QueuedRow EXCEPT !.status = "sent",
                                                    !.external = TRUE, !.ledger = l]]
          BY <1>3, <5>4 DEF QueuedRow, AbsentRow
        <5> QED
          BY <5>1, <5>2, <5>3, <5>4 DEF ServeRow
      <4> QED
        BY <4>1, <4>2 DEF OutsideStep
    <3> QED
      BY <3>1, <3>2
  <2> QED
    BY <1>1, <1>5, <2>1, OutsideInv
<1>10. ASSUME NEW n \in Msg PROVE CentroMessage(n)'
  <2>1. CASE n = m
    BY <1>2, <2>1
  <2>2. CASE n # m
    BY <1>4, <2>2
    DEF CentroMessage, StageOwnsRow, MailOfStage, RowStaysTrue, RecordingIsLeftAlone
  <2> QED
    BY <2>1, <2>2
<1>11. /\ \A n \in Msg : msgs[n].status # "absent" => msgs'[n].status # "absent"
       /\ msgs[m].status = "absent" /\ msgs'[m].status # "absent" => ~RefTaken(m)
  <2>1. msgs[m].status # "absent" => msgs'[m].status # "absent"
    <3>1. CASE \E s \in {"queued", "sent"} :
                 msgs' = [msgs EXCEPT ![m] = [AbsentRow EXCEPT !.status = s]]
      BY <1>3, <3>1 DEF AbsentRow
    <3>2. CASE msgs' = [msgs EXCEPT ![m] = [QueuedRow EXCEPT !.status = "failed"]]
      BY <1>3, <3>2 DEF QueuedRow, AbsentRow
    <3>3. CASE \E l \in {"not_applicable", "pending"} :
                 msgs' = [msgs EXCEPT ![m] = [QueuedRow EXCEPT !.status = "sent",
                                                !.external = TRUE, !.ledger = l]]
      BY <1>3, <3>3 DEF QueuedRow, AbsentRow
    <3>4. CASE msgs' = msgs
      BY <3>4
    <3> QED
      BY <1>2, <3>1, <3>2, <3>3, <3>4 DEF ServeRow
  <2>2. msgs[m].status = "absent" /\ msgs'[m].status # "absent" => ~RefTaken(m)
    BY <1>2, RowsTyped DEF ServeRow
  <2> QED
    BY <1>4, <2>1, <2>2
<1>12. BilledOncePerRef'
  <2>1. CASE \A n \in Msg : msgs[n].status # "absent" <=> msgs'[n].status # "absent"
    BY <2>1 DEF BilledOncePerRef
  <2>2. CASE ~RefTaken(m)
    BY <1>4, <2>2 DEF BilledOncePerRef, RefTaken, RowsOfRef
  <2> QED
    BY <1>4, <1>11, <2>1, <2>2
<1>13. ReplayHasRow'
  <2> SUFFICES ASSUME NEW n \in Msg, request'[n] \in {"replaying", "replayed"}
               PROVE  (RowsOfRef(n) \ {n} # {})'
    BY DEF ReplayHasRow
  <2>1. RowsOfRef(n) \subseteq RowsOfRef(n)'
    BY <1>11 DEF RowsOfRef
  <2>2. CASE request[n] \in {"replaying", "replayed"}
    BY <2>1, <2>2 DEF ReplayHasRow
  <2>3. CASE request[n] \notin {"replaying", "replayed"}
    <3>1. n = m /\ RefTaken(m)
      BY <1>1, <1>4, <2>3 DEF ServeStep
    <3>2. msgs'[m] = AbsentRow
      BY <1>2, <3>1 DEF CentroMessage, StageOwnsRow, Rowless
    <3>3. m \notin RowsOfRef(m)'
      BY <3>2, RowsTyped DEF RowsOfRef
    <3> QED
      BY <2>1, <3>1, <3>3 DEF RefTaken
  <2> QED
    BY <2>2, <2>3
<1>14. UNCHANGED <<written, book, events>>
  BY <1>1 DEF workerVars, hookVars
<1>15. WrittenKeepsId'
  <2>1. ASSUME NEW w \in Worker, NEW n \in DOMAIN written[w]
        PROVE  n \in Msg /\ msgs'[n] = msgs[n]
    <3>1. n \in Msg /\ msgs[n].status \in Billable
      BY DEF LedgerInv, LedgerTypeOK, IsRowMap, BatchesHeld, HeldRowsDue
    <3>2. msgs[n] # AbsentRow /\ msgs[n] # QueuedRow
      BY <3>1, RowsTyped DEF Billable
    <3> QED
      BY <1>4, <1>8, <3>1, <3>2
  <2> QED
    BY <1>14, <2>1 DEF WrittenKeepsId
<1>16. ChargedIsAccepted'
  BY <1>4, <1>14 DEF ChargedIsAccepted
<1>17. ClaimIsReported'
  <2> SUFFICES ASSUME NEW n \in Msg, Claimed(n)' PROVE Explained(n)'
    BY DEF ClaimIsReported
  <2>1. CASE msgs'[n] = msgs[n]
    <3>1. Claimed(n)
      BY <1>14, <2>1 DEF Claimed
    <3> QED
      BY <1>14, <2>1, <3>1 DEF ClaimIsReported, Explained
  <2>2. CASE msgs'[n] # msgs[n]
    <3>1. n = m /\ msgs[m] \in {AbsentRow, QueuedRow}
      BY <1>4, <1>8, <2>2
    <3>2. msgs[m].ledger = "not_applicable" /\ msgs[m].status \notin Billable
      BY <3>1 DEF AbsentRow, QueuedRow, Billable
    <3>3. CASE \E e \in book : e.msg = m
      BY <1>14, <3>1, <3>2, <3>3 DEF ClaimIsReported, Claimed, Explained
    <3>4. CASE msgs'[m].ledger # "not_applicable"
      <4>1. msgs'[m].status = "sent"
        <5>1. ASSUME NEW s \in {"queued", "sent"},
                     msgs' = [msgs EXCEPT ![m] = [AbsentRow EXCEPT !.status = s]]
              PROVE  FALSE
          BY <1>3, <3>4, <5>1 DEF AbsentRow
        <5>2. CASE msgs' = [msgs EXCEPT ![m] = [QueuedRow EXCEPT !.status = "failed"]]
          BY <1>3, <3>4, <5>2 DEF QueuedRow, AbsentRow
        <5>3. CASE \E l \in {"not_applicable", "pending"} :
                     msgs' = [msgs EXCEPT ![m] = [QueuedRow EXCEPT !.status = "sent",
                                                    !.external = TRUE, !.ledger = l]]
          BY <1>3, <5>3 DEF QueuedRow, AbsentRow
        <5>4. msgs' # msgs
          BY <2>2
        <5> QED
          BY <1>2, <5>1, <5>2, <5>3, <5>4 DEF ServeRow
      <4> QED
        BY <3>1, <4>1 DEF Explained, Billable
    <3> QED
      BY <1>14, <3>1, <3>3, <3>4 DEF Claimed
  <2> QED
    BY <2>1, <2>2
<1> QED
  BY <1>6, <1>7, <1>9, <1>10, <1>12, <1>13, <1>15, <1>16, <1>17

\* A step of a worker or of its clock.
LEMMA SettleInv ==
  ASSUME CentroInv, Settle
  PROVE  CentroInv'
<1> USE DEF CentroInv
<1>1. LedgerInv'
  BY CentroStepsLedger, NextInv DEF Next
<1>2. UNCHANGED <<request, lastError, accepted, hookVars>> /\ UNCHANGED events
  BY SettleFacts DEF hookVars
<1>3. DispatchTypeOK'
  BY <1>1, <1>2 DEF DispatchTypeOK, LedgerInv, LedgerTypeOK
<1>4. WebhookInv'
  BY <1>1, <1>2, SettleFacts, OutsideInv DEF OutsideStep, LedgerInv, LedgerTypeOK, RowsTypeOK
<1>5. (\A m \in Msg : CentroMessage(m)') /\ BilledOncePerRef' /\ ReplayHasRow'
  BY <1>2, SettleFacts, LaterKeepsMessages
<1>6. ASSUME NEW e \in book'
      PROVE  e.msg \in Msg /\ e.msg \in accepted /\ Claimed(e.msg)
  <2>1. CASE e \in book
    BY <2>1 DEF ChargedIsAccepted, Claimed, LedgerInv, LedgerTypeOK, Entry
  <2>2. CASE e \notin book
    BY <2>2, SettleFacts DEF CentroMessage, RowStaysTrue, Claimed
  <2> QED
    BY <2>1, <2>2
<1>7. ChargedIsAccepted'
  BY <1>2, <1>6 DEF ChargedIsAccepted
<1>8. ClaimIsReported'
  <2> SUFFICES ASSUME NEW m \in Msg, Claimed(m)' PROVE Explained(m)'
    BY DEF ClaimIsReported
  <2>1. Claimed(m)
    <3>1. msgs'[m].ledger # "not_applicable" => msgs[m].ledger # "not_applicable"
      BY SettleFacts DEF LaterStep
    <3> QED
      BY <1>6, <3>1 DEF Claimed
  <2> QED
    BY <1>2, <2>1, SettleFacts DEF ClaimIsReported, Explained
<1> QED
  BY <1>1, <1>3, <1>4, <1>5, <1>7, <1>8, SettleFacts

\* A step of the provider or of a webhook handler.
LEMMA NotifyInv ==
  ASSUME CentroInv, Notify
  PROVE  CentroInv'
<1> USE DEF CentroInv
<1>1. LedgerInv'
  BY CentroStepsLedger, NextInv DEF Next
<1>2. UNCHANGED <<request, lastError, accepted, workerVars>> /\ UNCHANGED <<written, book>>
  BY NotifyFacts DEF workerVars
<1>3. DispatchTypeOK'
  BY <1>1, <1>2 DEF DispatchTypeOK, LedgerInv, LedgerTypeOK
<1>4. WebhookInv'
  <2>1. (\E h \in Handler : Persist(h)) \/ (Report /\ UNCHANGED msgs)
    BY DEF Notify, Report
  <2> QED
    BY <2>1, PersistInv, ReportInv
<1>5. events \subseteq events'
  BY DEF Notify, Emit, Drop, LookUp, Refuse, Rotate, Persist, RecordEvent
<1>6. (\A m \in Msg : CentroMessage(m)') /\ BilledOncePerRef' /\ ReplayHasRow'
  BY <1>2, NotifyLater, LaterKeepsMessages
<1>7. WrittenKeepsId'
  <2>1. \A w \in Worker : \A m \in DOMAIN written[w] : m \in Msg /\ m \in Locked
    BY DEF LedgerInv, LedgerTypeOK, IsRowMap, BatchesHeld, Locked
  <2>2. \A m \in Msg : m \in Locked => msgs'[m] = msgs[m]
    BY NotifyFacts DEF DispatchTypeOK, RowsTypeOK
  <2> QED
    BY <1>2, <2>1, <2>2 DEF WrittenKeepsId
<1>8. ChargedIsAccepted'
  BY <1>2 DEF ChargedIsAccepted
<1>9. ClaimIsReported'
  <2> SUFFICES ASSUME NEW m \in Msg, Claimed(m)' PROVE Explained(m)'
    BY DEF ClaimIsReported
  <2>1. Explained(m)
    <3>1. msgs'[m].ledger # "not_applicable" => msgs[m].ledger # "not_applicable"
      BY NotifyLater DEF LaterStep
    <3> QED
      BY <1>2, <3>1 DEF ClaimIsReported, Claimed
  <2>2. CASE <<m, "failed">> \in events
    BY <1>5, <2>2 DEF Explained
  <2>3. CASE msgs[m].status \in Billable
    <3>1. \/ msgs'[m].status \in Billable
          \/ msgs'[m].status = "failed" /\ msgs'[m].external
      BY <2>3, NotifyLater DEF LaterStep, Terminal, Billable
    <3> QED
      BY <1>4, <3>1 DEF WebhookInv, StatusHasEvent, Terminal, Explained
  <2> QED
    BY <2>1, <2>2, <2>3 DEF Explained
<1> QED
  BY <1>1, <1>3, <1>4, <1>6, <1>7, <1>8, <1>9

\* The invariant is inductive: each kind of step keeps all parts of it.
LEMMA CentroNextInv == CentroInv /\ [Next]_vars => CentroInv'
<1> SUFFICES ASSUME CentroInv, [Next]_vars PROVE CentroInv'
  OBVIOUS
<1>1. ASSUME NEW m \in Msg, Serve(m) PROVE CentroInv'
  BY <1>1, ServeInv
<1>2. CASE UNCHANGED vars
  <2> USE DEF CentroInv
  <2>1. /\ UNCHANGED <<msgs, request, lastError, accepted>>
        /\ UNCHANGED <<picked, todo, written, last, began, cooling, book>>
        /\ UNCHANGED hookVars /\ UNCHANGED <<events, handler, credential>>
    BY <1>2 DEF vars, dispatchVars, workerVars, hookVars
  <2>2. DispatchTypeOK'
    BY <2>1 DEF DispatchTypeOK, RowsTypeOK
  <2>3. LedgerInv'
    BY CentroStepsLedger, NextInv
  <2>4. WebhookInv'
    BY <2>1, WebhookNextInv DEF webhookVars
  <2>5. (\A m \in Msg : CentroMessage(m)') /\ BilledOncePerRef' /\ ReplayHasRow'
    BY <2>1, LaterKeepsMessages DEF LaterStep
  <2>6. WrittenKeepsId' /\ ChargedIsAccepted' /\ ClaimIsReported'
    <3>1. WrittenKeepsId' /\ ChargedIsAccepted'
      BY <2>1 DEF WrittenKeepsId, ChargedIsAccepted
    <3>2. ClaimIsReported'
      BY <2>1 DEF ClaimIsReported, Claimed, Explained
    <3> QED
      BY <3>1, <3>2
  <2> QED
    BY <2>2, <2>3, <2>4, <2>5, <2>6
<1> QED
  BY <1>1, <1>2, SettleInv, NotifyInv DEF Next

-----------------------------------------------------------------------------
(* The system implements Webhooks: what is left of the table when the      *)
(* ledger columns are hidden.                                              *)

Hidden(row) == [row EXCEPT !.ledger = "not_applicable", !.attempts = 0,
                           !.request = NoRef, !.entry = NoRef]

\* The table as the webhook side sees it, as the refinement mapping names it.
HookRows == [m \in Msg |-> [msgs[m] EXCEPT !.ledger = "not_applicable", !.attempts = 0,
                                           !.request = NoRef, !.entry = NoRef]]

\* Hiding keeps the status and the id, commutes with writing them, and leaves a
\* row without ledger columns as it is.
LEMMA HiddenFacts ==
  ASSUME NEW row \in Row
  PROVE  /\ Hidden(row).status = row.status
         /\ Hidden(row).external = row.external
         /\ Hidden(row).request = NoRef
         /\ Hidden(row) \in Row
         /\ \A s : Hidden([row EXCEPT !.status = s]) = [Hidden(row) EXCEPT !.status = s]
BY DEF Hidden, Row, LedgerStatus

\* One write to the table is one to its view, or none if it is of ledger columns.
LEMMA HookRowsFacts ==
  ASSUME msgs \in [Msg -> Row], msgs' \in [Msg -> Row]
  PROVE  /\ \A m \in Msg : HookRows[m] = Hidden(msgs[m]) /\ HookRows'[m] = Hidden(msgs'[m])
         /\ HookRows \in [Msg -> Row] /\ HookRows' \in [Msg -> Row]
         /\ \A m \in Msg : HookRows[m].status = msgs[m].status
                           /\ HookRows[m].external = msgs[m].external
         /\ (\A m \in Msg : Hidden(msgs'[m]) = Hidden(msgs[m])) => HookRows' = HookRows
<1>1. \A m \in Msg : HookRows[m] = Hidden(msgs[m]) /\ HookRows'[m] = Hidden(msgs'[m])
  BY DEF HookRows, Hidden
<1>2. \A m \in Msg : msgs[m] \in Row /\ msgs'[m] \in Row
  OBVIOUS
<1>3. /\ HookRows = [m \in Msg |-> Hidden(msgs[m])]
      /\ HookRows' = [m \in Msg |-> Hidden(msgs'[m])]
  BY DEF HookRows, Hidden
<1> QED
  BY <1>1, <1>2, <1>3, HiddenFacts

\* What does not read the table is the same in both.
LEMMA SameInView ==
  /\ HookView!Free = Free
  /\ \A e, s : HookView!Found(e, s) = Found(e, s)
  /\ HookView!RawEvent = RawEvent
  /\ HookView!Others = Others
  /\ \A raw : HookView!ParseEvent(raw) = ParseEvent(raw)
  /\ \A type : HookView!HasStatus(type) = HasStatus(type)
  /\ \A type : HookView!EventToStatus(type) = EventToStatus(type)
  /\ \A state, others : HookView!Candidates(state, others) = Candidates(state, others)
  /\ \A candidates : HookView!Verdict(candidates) = Verdict(candidates)
<1>1. HookView!Free = Free /\ \A e, s : HookView!Found(e, s) = Found(e, s)
  BY DEF HookView!Free, Free, HookView!Found, Found
<1>2. HookView!RawEvent = RawEvent /\ HookView!Others = Others
  BY DEF HookView!RawEvent, RawEvent, HookView!Others, Others,
         HookView!CredentialState, CredentialState
<1>3. \A raw : HookView!ParseEvent(raw) = ParseEvent(raw)
  BY DEF HookView!ParseEvent, ParseEvent, HookView!SameName, SameName
<1>4. \A type : /\ HookView!HasStatus(type) = HasStatus(type)
                /\ HookView!EventToStatus(type) = EventToStatus(type)
  BY DEF HookView!HasStatus, HasStatus, HookView!EventToStatus, EventToStatus
<1>5. \A state, others : HookView!Candidates(state, others) = Candidates(state, others)
  BY DEF HookView!Candidates, Candidates, HookView!Candidate, Candidate
<1>6. \A candidates : HookView!Verdict(candidates) = Verdict(candidates)
  BY DEF HookView!Verdict, Verdict
<1> QED
  BY <1>1, <1>2, <1>3, <1>4, <1>5, <1>6

\* What a request writes is what the webhooks expect of the rest of the system.
LEMMA ServeIsDispatches ==
  ASSUME CentroInv, NEW m \in Msg, ServeRow(m), msgs' \in [Msg -> Row], UNCHANGED hookVars
  PROVE  HookView!Dispatches(m) \/ HookRows' = HookRows
<1>1. msgs \in [Msg -> Row]
  BY DEF CentroInv, DispatchTypeOK, RowsTypeOK
<1>2. ASSUME NEW row \in Row, msgs' = [msgs EXCEPT ![m] = row]
      PROVE  HookRows' = [HookRows EXCEPT ![m] = Hidden(row)]
  BY <1>1, <1>2, HookRowsFacts
<1>3. HookRows[m] = Hidden(msgs[m]) /\ HookRows[m].status = msgs[m].status
  BY <1>1, HookRowsFacts
<1>4. CASE msgs' = msgs
  BY <1>4 DEF HookRows
<1>5. CASE \E s \in {"queued", "sent"} :
             /\ msgs[m] = AbsentRow
             /\ msgs' = [msgs EXCEPT ![m] = [AbsentRow EXCEPT !.status = s]]
  <2>1. PICK s \in {"queued", "sent"} :
          /\ msgs[m] = AbsentRow
          /\ msgs' = [msgs EXCEPT ![m] = [AbsentRow EXCEPT !.status = s]]
    BY <1>5
  <2>2. [AbsentRow EXCEPT !.status = s] \in Row
    BY <2>1, RowsTyped DEF QueuedRow
  <2>3. HookRows' = [HookRows EXCEPT ![m].status = s]
    <3>1. PICK row : /\ row = Hidden([AbsentRow EXCEPT !.status = s])
                     /\ HookRows' = [HookRows EXCEPT ![m] = row]
      BY <1>2, <2>1, <2>2
    <3>2. row = [HookRows[m] EXCEPT !.status = s]
      BY <1>3, <2>1, <3>1 DEF Hidden, AbsentRow
    <3> QED
      BY <3>1, <3>2
  <2> QED
    BY <1>3, <2>1, <2>3, RowsTyped DEF HookView!Dispatches, HookView!hookVars, hookVars, HookRows
<1>6. CASE /\ msgs[m] = QueuedRow
           /\ msgs' = [msgs EXCEPT ![m] = [QueuedRow EXCEPT !.status = "failed"]]
  <2>1. HookRows' = [HookRows EXCEPT ![m].status = "failed"]
    <3>1. PICK row : /\ row = Hidden([QueuedRow EXCEPT !.status = "failed"])
                     /\ HookRows' = [HookRows EXCEPT ![m] = row]
      BY <1>2, <1>6, RowsTyped
    <3>2. row = [HookRows[m] EXCEPT !.status = "failed"]
      BY <1>3, <1>6, <3>1 DEF Hidden, QueuedRow, AbsentRow
    <3> QED
      BY <3>1, <3>2
  <2> QED
    BY <1>3, <1>6, <2>1, RowsTyped DEF HookView!Dispatches, HookView!hookVars, hookVars, HookRows
<1>7. CASE /\ msgs[m] = QueuedRow
           /\ \E l \in {"not_applicable", "pending"} :
                msgs' = [msgs EXCEPT ![m] = [QueuedRow EXCEPT !.status = "sent",
                                               !.external = TRUE, !.ledger = l]]
  <2>1. PICK l \in {"not_applicable", "pending"} :
          msgs' = [msgs EXCEPT ![m] = [QueuedRow EXCEPT !.status = "sent",
                                         !.external = TRUE, !.ledger = l]]
    BY <1>7
  <2>2. [QueuedRow EXCEPT !.status = "sent", !.external = TRUE, !.ledger = l] \in Row
    BY RowsTyped DEF LedgerStatus
  <2>3. Hidden([QueuedRow EXCEPT !.status = "sent", !.external = TRUE, !.ledger = l])
          = [Hidden(QueuedRow) EXCEPT !.status = "sent", !.external = TRUE]
    BY DEF Hidden, QueuedRow, AbsentRow
  <2>4. HookRows' = [HookRows EXCEPT ![m].status = "sent", ![m].external = TRUE]
    <3>1. HookRows' = [HookRows EXCEPT ![m] = [Hidden(QueuedRow) EXCEPT !.status = "sent",
                                                                       !.external = TRUE]]
      BY <1>2, <2>1, <2>2, <2>3
    <3>2. HookRows \in [Msg -> Row]
      BY <1>1, HookRowsFacts
    <3> HIDE DEF HookRows
    <3> QED
      BY <1>3, <1>7, <3>1, <3>2
  <2> QED
    BY <1>3, <1>7, <2>4, RowsTyped DEF HookView!Dispatches, HookView!hookVars, hookVars, HookRows
<1> QED
  BY <1>4, <1>5, <1>6, <1>7 DEF ServeRow

\* The webhook side does to the view what it does to the table.
LEMMA ReportInView ==
  ASSUME CentroInv, Report, UNCHANGED msgs
  PROVE  HookView!Report /\ HookRows' = HookRows
<1>1. msgs \in [Msg -> Row] /\ HookRows' = HookRows
  BY DEF CentroInv, DispatchTypeOK, RowsTypeOK, HookRows
<1>2. \A e \in RawEvent : /\ e[1] \in Msg
                          /\ HookRows[e[1]].status = msgs[e[1]].status
                          /\ HookRows[e[1]].external = msgs[e[1]].external
  BY <1>1, HookRowsFacts DEF RawEvent
<1>3. ASSUME NEW e \in RawEvent, Emit(e) PROVE HookView!Emit(e)
  BY <1>2, <1>3 DEF Emit, HookView!Emit, HookRows
<1>4. ASSUME NEW e \in RawEvent, Drop(e) PROVE HookView!Drop(e)
  BY <1>2, <1>4 DEF Drop, HookView!Drop, HookRows
<1>5. ASSUME NEW e \in RawEvent, NEW h \in Handler, LookUp(h, e) PROVE HookView!LookUp(h, e)
  BY <1>2, <1>5, SameInView DEF LookUp, HookView!LookUp, HookRows
<1>6. ASSUME NEW h \in Handler, Refuse(h) PROVE HookView!Refuse(h)
  BY <1>6, SameInView DEF Refuse, HookView!Refuse
<1>7. ASSUME NEW state \in OwnStates, Rotate(state) PROVE HookView!Rotate(state)
  BY <1>7 DEF Rotate, HookView!Rotate
<1> QED
  BY <1>1, <1>3, <1>4, <1>5, <1>6, <1>7, SameInView DEF Report, HookView!Report

\* So does the second session: the ledger columns have no part in what the UPDATE
\* writes, nor in whether a trigger refuses it.
LEMMA PersistInView ==
  ASSUME CentroInv, NEW h \in Handler, Persist(h)
  PROVE  HookView!Persist(h)
<1> DEFINE e    == handler[h].event
           m    == HeldMsg(h)
           old  == msgs[m]
           new  == HeldRow(h)
           seen == HookView!RowAfter(m, HeldType(h), handler[h].seen)
<1>1. WebhookTypeOK /\ IdComesWithSending /\ SeenHolds(h) /\ msgs \in [Msg -> Row]
  BY DEF CentroInv, WebhookInv, WebhookTypeOK, RowsTypeOK
<1>2. handler[h] # Free /\ m \in Msg /\ old \in Row
  BY <1>1, HandlerHolds DEF Persist, HeldMsg
<1>3. new \in Row /\ TriggersAllow(old, new)
  BY <1>1, <1>2, RowAfterFacts
<1>4. HookRows[m] = Hidden(old) /\ HookRows[m].status = old.status
      /\ HookRows[m].external = old.external /\ HookRows[m].request = NoRef
  <2>1. HookRows[m] = Hidden(old)
    BY <1>2 DEF HookRows, Hidden
  <2> QED
    BY <1>2, <2>1, HiddenFacts
<1>5. seen = Hidden(new)
  <2> DEFINE type == HeldType(h)
  <2>1. seen = IF /\ HasStatus(type) /\ handler[h].seen \in {"queued", "sent"}
                  /\ HookRows[m].status \in {"queued", "sent"}
               THEN [HookRows[m] EXCEPT !.status = EventToStatus(type)]
               ELSE HookRows[m]
    BY DEF HookView!RowAfter, HookRows, HookView!HasStatus, HasStatus,
           HookView!EventToStatus, EventToStatus
  <2>2. new = IF /\ HasStatus(type) /\ handler[h].seen \in {"queued", "sent"}
                 /\ old.status \in {"queued", "sent"}
              THEN [old EXCEPT !.status = EventToStatus(type)]
              ELSE old
    BY DEF HeldRow, RowAfter
  <2>3. Hidden([old EXCEPT !.status = EventToStatus(type)])
          = [HookRows[m] EXCEPT !.status = EventToStatus(type)]
    BY <1>2, <1>4, HiddenFacts
  <2> QED
    BY <1>4, <2>1, <2>2, <2>3
<1>6. HookView!TriggersAllow(HookRows[m], seen)
  <2>1. /\ seen.status = new.status /\ seen.external = new.external /\ seen.request = NoRef
    BY <1>3, <1>5, HiddenFacts
  <2> QED
    BY <1>3, <1>4, <2>1
    DEF HookView!TriggersAllow, HookView!LifecycleAllows, HookView!MutationAllows,
        TriggersAllow, LifecycleAllows, MutationAllows, HookView!Terminal, Terminal,
        HookView!NoRef, NoRef
<1>7. \/ /\ InsertRuns
         /\ RecordEvent(m, HeldType(h))
         /\ msgs' = [msgs EXCEPT ![m] = new]
         /\ acked' = acked \cup {e}
      \/ /\ ~InsertRuns
         /\ UNCHANGED <<msgs, events, eventsCount, acked>>
  BY <1>3 DEF Persist, HeldMsg, HeldType, HeldRow
<1>8. handler' = [handler EXCEPT ![h] = Free] /\ UNCHANGED <<emitted, dropped, credential>>
  BY DEF Persist
<1>9. CASE ~InsertRuns
  <2>1. UNCHANGED <<msgs, events, eventsCount, acked>> /\ HookRows' = HookRows
    BY <1>7, <1>9 DEF HookRows
  <2>2. HookView!Free = Free
    BY SameInView
  <2> QED
    BY <1>2, <1>8, <1>9, <2>1, <2>2, SMTT(30) DEF HookView!Persist, HookRows
<1>10. CASE InsertRuns
  <2>1. /\ RecordEvent(m, HeldType(h)) /\ acked' = acked \cup {e}
        /\ msgs' = [msgs EXCEPT ![m] = new]
    BY <1>7, <1>10
  <2>2. HookView!RecordEvent(m, HeldType(h))
    BY <2>1 DEF RecordEvent, HookView!RecordEvent
  <2>3. HookRows' = [HookRows EXCEPT ![m] = seen]
    <3>1. msgs' \in [Msg -> Row]
      BY <1>1, <1>2, <1>3, <2>1
    <3>2. /\ HookRows' = [n \in Msg |-> Hidden(msgs'[n])]
          /\ HookRows = [n \in Msg |-> Hidden(msgs[n])]
      BY DEF HookRows, Hidden
    <3>3. HookRows' = [HookRows EXCEPT ![m] = Hidden(new)]
      BY <1>1, <1>2, <2>1, <3>2
    <3> QED
      BY <1>5, <3>3
  <2> QED
    BY <1>2, <1>6, <1>8, <1>10, <2>1, <2>2, <2>3, SameInView
    DEF HookView!Persist, HookRows, HeldMsg, HeldType
<1> QED
  BY <1>9, <1>10, InsertAssumption

\* A commit of the worker is no step of the view.
LEMMA SettleInView ==
  ASSUME CentroInv, Settle
  PROVE  HookRows' = HookRows
<1>1. msgs \in [Msg -> Row] /\ LedgerInv
  BY DEF CentroInv, DispatchTypeOK, RowsTypeOK
<1>2. msgs' \in [Msg -> Row]
  BY CentroStepsLedger, NextInv, <1>1 DEF Next, LedgerInv, LedgerTypeOK, RowsTypeOK
<1>3. ASSUME NEW m \in Msg PROVE Hidden(msgs'[m]) = Hidden(msgs[m])
  <2>1. msgs[m] \in Row /\ msgs'[m] \in Row
    BY <1>1, <1>2
  <2>2. msgs'[m].status = msgs[m].status /\ msgs'[m].external = msgs[m].external
    BY SettleFacts
  <2> QED
    BY <2>1, <2>2 DEF Hidden, Row
<1> QED
  BY <1>1, <1>2, <1>3, HookRowsFacts

\* Every step of the system is a step of Webhooks over the view, or none.
LEMMA CentroStepsWebhooks ==
  ASSUME CentroInv, CentroInv', [Next]_vars
  PROVE  [HookView!WebhookNext]_(HookView!webhookVars)
<1> SUFFICES HookView!WebhookNext \/ (HookRows' = HookRows /\ UNCHANGED hookVars)
  BY DEF HookView!webhookVars, HookView!hookVars, hookVars, HookRows
<1>1. ASSUME NEW m \in Msg, Serve(m)
      PROVE  HookView!WebhookNext \/ (HookRows' = HookRows /\ UNCHANGED hookVars)
  <2>1. ServeRow(m) /\ UNCHANGED hookVars /\ msgs' \in [Msg -> Row]
    BY <1>1, ServeFacts DEF ServeStep, CentroInv, DispatchTypeOK, RowsTypeOK
  <2> QED
    BY <2>1, ServeIsDispatches DEF HookView!WebhookNext
<1>2. CASE Settle
  <2>1. UNCHANGED hookVars
    BY <1>2, SettleFacts
  <2>2. HookRows' = HookRows
    BY <1>2, SettleInView, ZenonT(60)
  <2> QED
    BY <2>1, <2>2
<1>3. CASE Notify
  <2>1. (\E h \in Handler : Persist(h)) \/ (Report /\ UNCHANGED msgs)
    BY <1>3 DEF Notify, Report
  <2>2. ASSUME Report, UNCHANGED msgs PROVE HookView!WebhookNext
    BY <2>2, ReportInView DEF HookView!WebhookNext, HookRows
  <2> QED
    BY <2>1, <2>2, PersistInView DEF HookView!WebhookNext
<1>4. CASE UNCHANGED vars
  BY <1>4 DEF vars, dispatchVars, HookRows
<1> QED
  BY <1>1, <1>2, <1>3, <1>4 DEF Next

-----------------------------------------------------------------------------
(* The theorems.                                                           *)

\* In every reachable state of the whole system, each part finds the rows, locks
\* and events as it left them or as it was told they may become.
THEOREM CentroInvariance == Spec => []CentroInv
BY CentroInitInv, CentroNextInv, PTL DEF Spec

\* The requests and the webhooks are to the retry worker what its module takes the
\* rest of the system for: all that is shown of the worker there holds here.
THEOREM CentroImplementsLedger == Spec => LedgerSpec
<1>1. Init => LedgerInit
  BY DEF Init
<1> QED
  BY <1>1, CentroStepsLedger, CentroInvariance, PTL DEF Spec, LedgerSpec

\* The requests and the workers are to the webhooks what their module takes the
\* rest of the system for, once the ledger columns are hidden.
THEOREM CentroImplementsWebhooks == Spec => KeepsWebhookSpec
<1>1. Init => HookView!WebhookInit
  <2> SUFFICES ASSUME Init PROVE HookView!WebhookInit
    OBVIOUS
  <2>1. HookRows = [m \in Msg |-> AbsentRow]
    <3>1. \A m \in Msg : msgs[m] = AbsentRow
      BY DEF Init, DispatchInit
    <3>2. Hidden(AbsentRow) = AbsentRow
      <4>1. /\ AbsentRow.ledger = "not_applicable" /\ AbsentRow.attempts = 0
            /\ AbsentRow.request = NoRef /\ AbsentRow.entry = NoRef
        BY DEF AbsentRow
      <4> QED
        BY <4>1, RowsTyped DEF Hidden, Row
    <3>3. HookRows = [m \in Msg |-> Hidden(msgs[m])]
      BY DEF HookRows, Hidden
    <3> QED
      BY <3>1, <3>2, <3>3
  <2>2. HookView!AbsentRow = AbsentRow /\ HooksInit
    BY DEF HookView!AbsentRow, AbsentRow, HookView!NoRef, NoRef, Init, WebhookInit
  <2>3. HookView!HooksInit
    BY <2>2, SameInView DEF HookView!HooksInit, HooksInit
  <2> QED
    BY <2>1, <2>2, <2>3 DEF HookView!WebhookInit, HookRows
<1>2. CentroInv /\ CentroInv' /\ [Next]_vars =>
        [HookView!WebhookNext]_(HookView!webhookVars)
  BY CentroStepsWebhooks
<1> QED
  BY <1>1, <1>2, CentroInvariance, PTL DEF Spec, KeepsWebhookSpec, HookView!WebhookSpec

\* No webhook and no worker takes the row of a request that is deciding.
THEOREM CentroDecidingOwnsRow == Spec => []DecidingOwnsRow
<1>1. CentroInv => DecidingOwnsRow
  BY DEF CentroInv, CentroMessage, StageOwnsRow, DecidingOwnsRow, QueuedRow
<1> QED
  BY <1>1, CentroInvariance, PTL

\* Only what the provider took is charged.
THEOREM ChargedIsAcceptedHolds == Spec => []ChargedIsAccepted
<1>1. CentroInv => ChargedIsAccepted
  BY DEF CentroInv
<1> QED
  BY <1>1, CentroInvariance, PTL

\* What is owed or charged and not billed has a stored event that says why.
THEOREM ClaimIsReportedHolds == Spec => []ClaimIsReported
<1>1. CentroInv => ClaimIsReported
  BY DEF CentroInv
<1> QED
  BY <1>1, CentroInvariance, PTL

\* A recording's row is left alone by webhooks and workers, so that a replay still
\* finds it in the usage.
LEMMA CentroReplayed == CentroInv => ReplayIsCounted
<1> SUFFICES ASSUME CentroInv, NEW m \in Msg, request[m] = "replayed"
             PROVE  \E n \in RowsOfRef(m) \ {m} : n \in Usage \/ n \notin Recording
  BY DEF ReplayIsCounted
<1>1. PICK n \in RowsOfRef(m) \ {m} : TRUE
  BY DEF CentroInv, ReplayHasRow
<1>2. n \in Msg /\ msgs[n].status # "absent" /\ CentroMessage(n)
  BY <1>1 DEF RowsOfRef, CentroInv
<1>3. n \in Recording => msgs[n].status = "sent"
  BY <1>2 DEF CentroMessage, RecordingIsLeftAlone
<1> QED
  BY <1>1, <1>2, <1>3 DEF Usage, Billable

\* What is shown of the requests alone stays true with webhooks and workers writing
\* to their rows: what a 202 says, what the usage counts, and which failed mails
\* never went out.
THEOREM CentroKeepsDispatch ==
  Spec => [](/\ Reply202MeansDecided /\ UsageIsAccepted /\ BilledOncePerRef
             /\ ReplayIsCounted /\ FatalWasNotSent)
<1>1. CentroInv => /\ Reply202MeansDecided /\ UsageIsAccepted /\ BilledOncePerRef
                   /\ FatalWasNotSent
  BY DEF CentroInv, CentroMessage, RowStaysTrue, Reply202MeansDecided, UsageIsAccepted,
         Usage, FatalWasNotSent
<1> QED
  BY <1>1, CentroReplayed, CentroInvariance, PTL

\* And so does what is shown of the webhooks alone.
THEOREM CentroKeepsWebhooks ==
  Spec => [](StatusHasEvent /\ EventIsApplied /\ PersistIsLegal /\ OwnSecretDecides)
<1>1. CentroInv => StatusHasEvent /\ EventIsApplied /\ PersistIsLegal /\ OwnSecretDecides
  BY InvPersistIsLegal, OwnSecretLemma DEF CentroInv, WebhookInv, WebhookTypeOK
<1> QED
  BY <1>1, CentroInvariance, PTL

\* Over the whole system a message is charged once at most, its charge is known to
\* finanzas-core when its row says so, and the promise of the charges is kept.
THEOREM CentroKeepsLedger ==
  Spec => [](ChargedOnce /\ RecordedHasEntry /\ OwedHasTriesLeft /\ BatchIsFresh)
          /\ KeepsPromise
BY CentroImplementsLedger, ChargedOnceHolds, RecordedHasEntryHolds, OwedHasTriesLeftHolds,
   BatchIsFreshHolds, LedgerKeepsPromise, PTL
=============================================================================
