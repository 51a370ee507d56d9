------------------------------ MODULE Dispatch ------------------------------
(***************************************************************************)
(* The two endpoints that insert messages.                                 *)
(*                                                                         *)
(* POST /v1/messages/email: send_email inserts the row and commits, then   *)
(* _dispatch_email resolves a credential, calls the mail provider, commits *)
(* the outcome and, when REPORT_TO_FINANZAS is on, goes on to the ledger   *)
(* report.  Every step between two awaits that commits or calls out is an  *)
(* action; the requests run concurrently, and any of them may be cut short *)
(* by the end of its process.                                              *)
(*                                                                         *)
(* POST /v1/messages/record: record_message inserts a row for a message    *)
(* that was sent elsewhere, once per source_ref.  The unique index behind  *)
(* it looks into `meta`, which a caller of the other endpoint fills in     *)
(* freely, so an email request may carry a source_ref too.                 *)
(*                                                                         *)
(* One request creates one message (its uuid4), so a request is named by   *)
(* its message.  The mail provider is external: `accepted` holds the mails *)
(* it took for delivery.                                                   *)
(***************************************************************************)
EXTENDS Messages

CONSTANTS
  Reporting,   \* the requests settings.report_to_finanzas may be on for
  Recording,   \* the requests of POST /v1/messages/record; the others are emails
  CallerRef    \* request -> the source_ref its caller gave, or NoCallerRef

NoCallerRef == "none"

\* A setting of the process, which a deployment may change between requests.
ASSUME ReportAssumption == Reporting \subseteq Msg

ASSUME RecordAssumption == Recording \subseteq Msg /\ DOMAIN CallerRef = Msg

VARIABLES
  request,    \* where the handler of each message is, or how it ended
  lastError,  \* the column last_error: the prefix it was written with
  accepted    \* the mails the provider has accepted

dispatchVars == <<msgs, request, lastError, accepted>>

\* The except clauses around the provider call.
SendError == {"fatal", "transient", "error", "unexpected"}

\* While the row is queued and the request decides its fate.
Deciding == {"dispatching", "sending", "accepted"} \cup SendError
InFlight == Deciding \cup {"reporting", "recording", "replaying"}
Ended    == {"rejected", "reply202", "reply500", "crashed", "recorded", "replayed"}

DispatchTypeOK ==
  /\ RowsTypeOK
  /\ request \in [Msg -> {"new"} \cup InFlight \cup Ended]
  /\ lastError \in [Msg -> SendError \cup {"none", "no_credentials"}]
  /\ accepted \subseteq Msg

DispatchInit ==
  /\ msgs = [m \in Msg |-> AbsentRow]
  /\ request = [m \in Msg |-> "new"]
  /\ lastError = [m \in Msg |-> "none"]
  /\ accepted = {}

Goes(m, from, to) ==
  /\ request[m] = from
  /\ request' = [request EXCEPT ![m] = to]

\* UPDATE messages ... WHERE id = m; COMMIT.  A trigger that raises leaves the
\* row as it was and answers 500.
UpdateAndReply(m, from, row, to) ==
  IF TriggersAllow(msgs[m], row)
  THEN Goes(m, from, to) /\ msgs' = [msgs EXCEPT ![m] = row]
  ELSE Goes(m, from, "reply500") /\ UNCHANGED msgs

\* The same with status failed and an error; nothing more is done for the row.
UpdateFailed(m, from, error) ==
  LET row == [msgs[m] EXCEPT !.status = "failed"]
  IN /\ UpdateAndReply(m, from, row, "reply202")
     /\ lastError' = IF TriggersAllow(msgs[m], row)
                     THEN [lastError EXCEPT ![m] = error] ELSE lastError

-----------------------------------------------------------------------------
\* The committed rows with the source_ref of m; none if it has none.
RowsOfRef(m) ==
  {n \in Msg : /\ CallerRef[m] # NoCallerRef
               /\ CallerRef[n] = CallerRef[m]
               /\ msgs[n].status # "absent"}

\* Slip for the mutation checks: a request in flight counts as its row.
RefTakenInFlight(m) ==
  \E n \in Msg \ {m} : /\ CallerRef[m] # NoCallerRef
                       /\ CallerRef[n] = CallerRef[m]
                       /\ request[n] # "new"

\* uq_messages_tenant_sourceref: an INSERT of m meets a row, waiting first for
\* a transaction that is about to insert one.
RefTaken(m) == RowsOfRef(m) # {}

\* 401, 404, 422 before the INSERT, or an INSERT the database refuses (500):
\* nothing is stored.
Reject(m) ==
  /\ Goes(m, "new", "rejected")
  /\ UNCHANGED <<msgs, lastError, accepted>>

\* The row is committed as queued before anything is sent.
InsertQueued(m) ==
  /\ m \notin Recording
  /\ ~RefTaken(m)
  /\ Goes(m, "new", "dispatching")
  /\ msgs' = [msgs EXCEPT ![m] = [AbsentRow EXCEPT !.status = "queued"]]
  /\ UNCHANGED <<lastError, accepted>>

\* Slip: a ledger status the CHECK constraint does not list.
SentRowUnlisted(m, reporting) ==
  [msgs[m] EXCEPT !.status = "sent", !.external = TRUE, !.ledger = "due"]

SentRow(m, reporting) ==
  [msgs[m] EXCEPT !.status = "sent", !.external = TRUE,
                  !.ledger = IF reporting THEN "pending" ELSE @]

\* Slip: the branch replies without its UPDATE.
NoCredentialsSilent(m) ==
  /\ Goes(m, "dispatching", "reply202")
  /\ UNCHANGED <<msgs, lastError, accepted>>

\* The tenant has no default active credential: failed, and a 202.
NoCredentials(m) ==
  /\ UpdateFailed(m, "dispatching", "no_credentials")
  /\ UNCHANGED accepted

\* decrypt_value or build_provider raises outside every try block.
BrokenCredential(m) ==
  /\ Goes(m, "dispatching", "reply500")
  /\ UNCHANGED <<msgs, lastError, accepted>>

\* Slip: the row is marked sent before the provider has been asked.
BuildProviderEager(m) ==
  /\ Goes(m, "dispatching", "sending")
  /\ msgs' = [msgs EXCEPT ![m] = SentRow(m, m \in Reporting)]
  /\ UNCHANGED <<lastError, accepted>>

BuildProvider(m) ==
  /\ Goes(m, "dispatching", "sending")
  /\ UNCHANGED <<msgs, lastError, accepted>>

\* The provider takes the mail and its answer carries the mail's id.
ProviderAccepts(m) ==
  /\ Goes(m, "sending", "accepted")
  /\ accepted' = accepted \cup {m}
  /\ UNCHANGED <<msgs, lastError>>

\* What ends the call to the provider without a result.
Answer == {"no_answer", "server_error", "denied", "invalid", "other_status",
           "no_id", "not_json", "unsupported"}

\* Slip: a 5xx is taken for a refusal.
RaisesFatal5xx(answer) ==
  CASE answer \in {"denied", "invalid", "server_error"} -> "fatal"
    [] answer = "no_answer"                             -> "transient"
    [] answer \in {"other_status", "no_id"}             -> "error"
    [] answer \in {"not_json", "unsupported"}           -> "unexpected"

\* The exception it becomes, by the clause that catches it.  A body that is not
\* JSON and a provider that is a stub raise an exception of no provider type.
Raises(answer) ==
  CASE answer \in {"denied", "invalid"}         -> "fatal"
    [] answer \in {"no_answer", "server_error"} -> "transient"
    [] answer \in {"other_status", "no_id"}     -> "error"
    [] answer \in {"not_json", "unsupported"}   -> "unexpected"

\* Did the provider take the mail?  After a 2xx it did; when the answer is lost
\* or is a 5xx nobody knows; any other status and an error before the call: no.
MayTake(answer) ==
  CASE answer \in {"no_id", "not_json"}         -> {TRUE}
    [] answer \in {"no_answer", "server_error"} -> BOOLEAN
    [] OTHER                                    -> {FALSE}

\* Slip: an error of the provider falls through to the success path.
ProviderFailsUnseen(m, answer) ==
  /\ Goes(m, "sending", "accepted")
  /\ \E took \in MayTake(answer) :
       accepted' = IF took THEN accepted \cup {m} ELSE accepted
  /\ UNCHANGED <<msgs, lastError>>

\* The provider call raises.
ProviderFails(m, answer) ==
  /\ Goes(m, "sending", Raises(answer))
  /\ \E took \in MayTake(answer) :
       accepted' = IF took THEN accepted \cup {m} ELSE accepted
  /\ UNCHANGED <<msgs, lastError>>

\* Slip: no clause for the exceptions that are no ProviderError.
CommitFailedTyped(m, error) ==
  /\ error # "unexpected"
  /\ UpdateFailed(m, error, error)
  /\ UNCHANGED accepted

\* Each except clause stores failed with its own prefix, and the request is
\* answered 202.
CommitFailed(m, error) ==
  /\ UpdateFailed(m, error, error)
  /\ UNCHANGED accepted

CommitSent(m) ==
  /\ \E reporting \in {FALSE} \cup {(m \in Reporting)} :
       UpdateAndReply(m, "accepted", SentRow(m, reporting),
                      IF reporting THEN "reporting" ELSE "reply202")
  /\ UNCHANGED <<lastError, accepted>>

\* The arguments of _record_ledger_entry name `amount`, a local of send_email
\* that _dispatch_email does not have: NameError, and the ledger is not called.
ReportRaises(m) ==
  /\ Goes(m, "reporting", "reply500")
  /\ UNCHANGED <<msgs, lastError, accepted>>

\* record_message: with a source_ref, a SELECT whether it is there already.
RecordLookUp(m) ==
  /\ m \in Recording
  /\ Goes(m, "new", IF RefTaken(m) THEN "replayed" ELSE "recording")
  /\ UNCHANGED <<msgs, lastError, accepted>>

\* Slip: an INSERT without ON CONFLICT DO NOTHING and its index.
RecordInsertBlind(m) ==
  /\ Goes(m, "recording", "recorded")
  /\ msgs' = [msgs EXCEPT ![m] = [AbsentRow EXCEPT !.status = "sent"]]
  /\ UNCHANGED <<lastError, accepted>>

\* INSERT ... ON CONFLICT DO NOTHING, and its commit: a row that is sent.
RecordInsert(m) ==
  /\ IF RefTaken(m)
     THEN Goes(m, "recording", "replaying") /\ UNCHANGED msgs
     ELSE /\ Goes(m, "recording", "recorded")
          /\ msgs' = [msgs EXCEPT ![m] = [AbsentRow EXCEPT !.status = "sent"]]
  /\ UNCHANGED <<lastError, accepted>>

\* The second SELECT names the row that was there first.
RecordReplay(m) ==
  /\ Goes(m, "replaying", "replayed")
  /\ UNCHANGED <<msgs, lastError, accepted>>

\* The process ends, or the commit in progress fails.  A POST under way may
\* still reach the provider.
Crash(m) ==
  /\ request[m] \in InFlight
  /\ request' = [request EXCEPT ![m] = "crashed"]
  /\ accepted' \in {accepted} \cup
                   (IF request[m] = "sending" THEN {accepted \cup {m}} ELSE {})
  /\ UNCHANGED <<msgs, lastError>>

HandleRequest(m) ==
  \/ Reject(m)          \/ InsertQueued(m)
  \/ NoCredentials(m)   \/ BrokenCredential(m) \/ BuildProvider(m)
  \/ ProviderAccepts(m) \/ \E answer \in Answer : ProviderFails(m, answer)
  \/ CommitSent(m)      \/ \E error \in SendError : CommitFailed(m, error)
  \/ ReportRaises(m)
  \/ RecordLookUp(m)    \/ RecordInsert(m)     \/ RecordReplay(m)

DispatchNext ==
  \E m \in Msg : HandleRequest(m) \/ Crash(m)

DispatchSpec == DispatchInit /\ [][DispatchNext]_dispatchVars

\* A request that has arrived goes on until it is answered: the event loop
\* schedules it, and the calls to the provider have a timeout.
DispatchFairness ==
  \A m \in Msg : WF_dispatchVars(request[m] # "new" /\ HandleRequest(m))

DispatchFairSpec == DispatchSpec /\ DispatchFairness

-----------------------------------------------------------------------------
\* A 202 is a promise that the outcome is stored: the row is no longer queued,
\* and it is failed unless the provider took the mail.
Reply202MeansDecided ==
  \A m \in Msg : request[m] = "reply202" =>
    \/ msgs[m].status = "failed"
    \/ msgs[m].status \in Terminal \cup {"sent"} /\ m \in accepted

\* The rows reports/usage counts, and whose amounts it adds up.
Usage == {m \in Msg : msgs[m].status \in Billable}

\* What reports/usage bills is, row by row, a mail the provider took or a message
\* its caller recorded, whatever failed, crashed or was refused on the way.
UsageIsAccepted == Usage \subseteq accepted \cup Recording

\* Migration 004: two requests with one source_ref, side by side or again after
\* a timeout, make one row, so that its message is billed once.
BilledOncePerRef ==
  \A m, n \in Msg :
    /\ msgs[m].status # "absent" /\ msgs[n].status # "absent"
    /\ CallerRef[m] = CallerRef[n] /\ CallerRef[m] # NoCallerRef
    => m = n

\* A caller of record_message told that its message is recorded already has it
\* in the usage, under the row of another request with its source_ref; except
\* that the row may be an email of that source_ref, which may have failed.
ReplayIsCounted ==
  \A m \in Msg : request[m] = "replayed" =>
    \E n \in RowsOfRef(m) \ {m} : n \in Usage \/ n \notin Recording

\* Until the request commits its outcome nobody else can have moved the row or
\* given it a provider id, so neither trigger can abort the final UPDATE and
\* leave a mail that went out without its `sent` row.
DecidingOwnsRow ==
  \A m \in Msg : request[m] \in Deciding =>
    msgs[m] = [AbsentRow EXCEPT !.status = "queued"]

\* last_error tells an operator which failed mails never went out: after fatal
\* or no_credentials the mail can be sent again without arriving twice.
FatalWasNotSent ==
  \A m \in Msg : lastError[m] \in {"fatal", "no_credentials"} => m \notin accepted

\* The two endpoints keep what MailPromise says, whatever the order of the commits
\* and the provider's answers, and wherever a request is cut short: a mail goes
\* out only for a row still queued, and is called sent only if it went out.
Mailing == INSTANCE MailPromise WITH
  Mail  <- Msg,
  fate  <- [m \in Msg |-> IF msgs[m].status = "absent" THEN "unknown" ELSE msgs[m].status],
  taken <- accepted

KeepsMailPromise == Mailing!Spec

\* A queued row gets its outcome unless the process died or the request ended
\* in a 500: every error the provider can raise has its branch.
QueuedIsDecided ==
  \A m \in Msg :
    msgs[m].status = "queued" ~>
      msgs[m].status # "queued" \/ request[m] \in {"crashed", "reply500"}

\* Docstring of _dispatch_email: every way out of it updates the row, which
\* never stays queued as an orphan.
NoQueuedOrphan ==
  \A m \in Msg :
    request[m] \in {"reply202", "reply500"} => msgs[m].status # "queued"

\* Docstring of messages_router: the request is answered 202 and the ledger
\* charge is part of the dispatch; the contract tells a client to retry a 500,
\* so a mail the provider took must not be answered with one.
SentIsNot500 ==
  \A m \in Msg : request[m] = "reply500" => m \notin accepted
=============================================================================
