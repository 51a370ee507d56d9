------------------------------ MODULE Webhooks ------------------------------
(***************************************************************************)
(* POST /webhooks/{provider_slug}: receive_webhook looks the message up in *)
(* a first database session, verifies the signature outside of any, and    *)
(* stores the event and the message's new status in a second one.  Between *)
(* the two sessions everything may change.  Handlers run concurrently and  *)
(* the provider delivers at least once, in any order, again after every    *)
(* answer that is not a 2xx.                                               *)
(*                                                                         *)
(* The messages considered are of one tenant.  A webhook is believed when  *)
(* the tenant's active credential holds the secret it was signed with;     *)
(* that of another tenant may be tried too, and the tenant's own may be    *)
(* rotated, broken or removed while the provider retries.                  *)
(*                                                                         *)
(* A provider event is a message and a raw type; parse_event maps the raw  *)
(* type to the event_type of the table message_events.                     *)
(***************************************************************************)
EXTENDS Messages, Sequences

CONSTANTS Handler,     \* concurrent webhook requests
          RawTypes,    \* the raw types the provider may report
          InsertRuns,  \* is the INSERT of message_events a statement that runs?
          OwnStates    \* what the tenant's credential may come to be

KnownRaw == {"sent", "delivery_delayed", "delivered", "bounced", "complained",
             "opened", "clicked"}

ASSUME RawAssumption == RawTypes \subseteq KnownRaw \cup {"unknown"}

\* The INSERT writes its last parameter `:oa::timestamptz`.  text() of SQLAlchemy
\* takes no name that is followed by a colon for a parameter, and then the
\* statement fails on every execution; InsertRuns is TRUE for a library, or a
\* corrected text, that binds it.
ASSUME InsertAssumption == InsertRuns \in BOOLEAN

\* A credential as the loop over the candidates meets it: it cannot be decrypted
\* or built a provider from; it has no webhook_secret or another one than the
\* delivery is signed with; or it verifies the signature.
CredentialState == {"broken", "other", "signs"}

ASSUME OwnAssumption == "signs" \in OwnStates /\ OwnStates \subseteq CredentialState \cup {"missing"}

VARIABLES
  emitted,      \* the events the provider has to report
  acked,        \* the events that were stored and answered 204
  dropped,      \* the events that were answered 204 without a message to match
  handler,      \* handler -> the event in its hands and the status it read
  events,       \* the rows of message_events: message and event_type
  eventsCount,  \* messages.events_count
  credential    \* the tenant's active credential for the provider

hookVars == <<emitted, acked, dropped, handler, events, eventsCount, credential>>
webhookVars == <<msgs, hookVars>>

EventType == {"sent", "delivered", "bounced", "complaint", "opened", "clicked",
              "failed", "dropped"}
RawEvent  == Msg \X RawTypes

Free == [at |-> "idle"]
Found(e, status) == [at |-> "found", event |-> e, seen |-> status]

WebhookTypeOK ==
  /\ RowsTypeOK
  /\ emitted \subseteq RawEvent /\ acked \subseteq RawEvent /\ dropped \subseteq RawEvent
  /\ handler \in [Handler -> {Free} \cup {Found(e, s) : e \in RawEvent, s \in Status}]
  /\ events \subseteq Msg \X EventType
  /\ eventsCount \in [Msg -> Nat]
  /\ credential \in OwnStates

HooksInit ==
  /\ emitted = {} /\ acked = {} /\ dropped = {}
  /\ handler = [h \in Handler |-> Free]
  /\ events = {}
  /\ eventsCount = [m \in Msg |-> 0]
  /\ credential = "signs"

WebhookInit == msgs = [m \in Msg |-> AbsentRow] /\ HooksInit

-----------------------------------------------------------------------------
\* Slip for the mutation checks: the raw type is stored as it came.
ParseEventRaw(raw) == raw

SameName == {"delivered", "bounced", "opened", "clicked"}

\* ResendProvider.parse_event: a raw type it does not know becomes a failure.
ParseEvent(raw) ==
  CASE raw \in {"sent", "delivery_delayed"} -> "sent"
    [] raw = "complained"                   -> "complaint"
    [] raw \in SameName                     -> raw
    [] OTHER                                -> "failed"

\* Slip: bounces are not among the statuses.
HasStatusNoBounce(type) == type \in {"delivered", "failed", "dropped"}

\* Slip: a bounce is stored as a failure.
EventToStatusBounceFails(type) ==
  IF type \in {"dropped", "bounced"} THEN "failed" ELSE type

\* _EVENT_TO_STATUS, and the event types that do not touch the status.
HasStatus(type) == type \in {"delivered", "bounced", "failed", "dropped"}
EventToStatus(type) == IF type = "dropped" THEN "failed" ELSE type

\* The mail has left: the provider has something to say about it.
Emit(e) ==
  /\ msgs[e[1]].status # "absent"
  /\ emitted' = emitted \cup {e}
  /\ UNCHANGED <<acked, dropped, handler, events, eventsCount, credential>>

\* First session, no row with this external_message_id: 204, nothing stored.
Drop(e) ==
  /\ e \in emitted
  /\ ~msgs[e[1]].external
  /\ dropped' = dropped \cup {e}
  /\ UNCHANGED <<emitted, acked, handler, events, eventsCount, credential>>

\* The credentials other tenants have for the provider, in the query's order;
\* two are enough for one to be tried before the other.
Others == UNION {[1 .. n -> CredentialState] : n \in 0 .. 2}

Candidate(tenant, state) == [tenant |-> tenant, state |-> state]

\* Slip: is_default and created_at come before the tenant in the ORDER BY.
CandidatesByAge(own, others) ==
  [i \in DOMAIN others |-> Candidate("another", others[i])]
  \o (IF own = "missing" THEN <<>> ELSE <<Candidate("target", own)>>)

\* The active credentials of the provider, the target tenant's first.
Candidates(own, others) ==
  (IF own = "missing" THEN <<>> ELSE <<Candidate("target", own)>>)
  \o [i \in DOMAIN others |-> Candidate("another", others[i])]

\* The loop stops at the first candidate that is not passed over for its
\* signature: a broken one raises, and whose it is decides the rest.
Verdict(candidates) ==
  LET stops == {i \in DOMAIN candidates : candidates[i].state # "other"}
      first == candidates[CHOOSE i \in stops : \A j \in stops : i <= j]
  IN CASE stops = {} -> IF candidates = <<>> THEN "404" ELSE "401"
       [] stops # {} -> IF first.state = "broken" THEN "500"
                        ELSE IF first.tenant = "target" THEN "valid" ELSE "401"

\* First session: the row with its status of that moment, and the candidates;
\* then, outside of any session, the signature.  A webhook that does not pass is
\* answered an error, and leaves nothing behind.
LookUp(h, e) ==
  /\ e \in emitted
  /\ handler[h] = Free
  /\ msgs[e[1]].external
  /\ \E others \in Others : Verdict(Candidates(credential, others)) = "valid"
  /\ handler' = [handler EXCEPT ![h] = Found(e, msgs[e[1]].status)]
  /\ UNCHANGED <<emitted, acked, dropped, events, eventsCount, credential>>

\* An error after that, or a process that dies: a timestamp out of tolerance,
\* 400 for the payload, 500 without a database.  The provider will retry.
Refuse(h) ==
  /\ handler[h] # Free
  /\ handler' = [handler EXCEPT ![h] = Free]
  /\ UNCHANGED <<emitted, acked, dropped, events, eventsCount, credential>>

\* An administrator changes or removes the credential, the provider's secret is
\* rotated, or AES_KEY is.
Rotate(state) ==
  /\ credential # state
  /\ credential' = state
  /\ UNCHANGED <<emitted, acked, dropped, handler, events, eventsCount>>

\* Slip: the trigger is BEFORE INSERT and counts the duplicates too.
RecordEventTwice(m, type) ==
  /\ events' = events \cup {<<m, type>>}
  /\ eventsCount' = [eventsCount EXCEPT ![m] = IF @ < 9 THEN @ + 1 ELSE @]

\* INSERT ... ON CONFLICT DO NOTHING, with its events_count trigger.
RecordEvent(m, type) ==
  /\ events' = events \cup {<<m, type>>}
  /\ eventsCount' = [eventsCount EXCEPT ![m] = IF <<m, type>> \in events THEN @ ELSE @ + 1]

\* Slip: the UPDATE trusts the status of the first session.
RowAfterStale(m, type, seen) ==
  IF HasStatus(type) /\ seen \in {"queued", "sent"}
  THEN [msgs[m] EXCEPT !.status = EventToStatus(type)]
  ELSE msgs[m]

\* UPDATE messages SET status ... WHERE status IN ('queued', 'sent'), skipped
\* when the status read in the first session was already another.
RowAfter(m, type, seen) ==
  IF /\ HasStatus(type)
     /\ seen \in {"queued", "sent"}
     /\ msgs[m].status \in {"queued", "sent"}
  THEN [msgs[m] EXCEPT !.status = EventToStatus(type)]
  ELSE msgs[m]

\* Second session: one transaction, and a 500 if a statement of it fails.
Persist(h) ==
  LET e    == handler[h].event
      type == ParseEvent(e[2])
      row  == RowAfter(e[1], type, handler[h].seen)
  IN /\ handler[h] # Free
     /\ handler' = [handler EXCEPT ![h] = Free]
     /\ IF InsertRuns /\ TriggersAllow(msgs[e[1]], row)
        THEN /\ RecordEvent(e[1], type)
             /\ msgs' = [msgs EXCEPT ![e[1]] = row]
             /\ acked' = acked \cup {e}
        ELSE UNCHANGED <<msgs, events, eventsCount, acked>>
     /\ UNCHANGED <<emitted, dropped, credential>>

\* The rest of the system, as a webhook sees it: the dispatch of a message, or
\* the record of one that was sent elsewhere.
Dispatches(m) ==
  /\ \/ /\ msgs[m].status = "absent"
        /\ \E s \in {"queued", "sent"} : msgs' = [msgs EXCEPT ![m].status = s]
     \/ msgs[m].status = "queued" /\ msgs' = [msgs EXCEPT ![m].status = "failed"]
     \/ /\ msgs[m].status = "queued"
        /\ msgs' = [msgs EXCEPT ![m].status = "sent", ![m].external = TRUE]
  /\ UNCHANGED hookVars

\* The steps of the webhook side that leave the table alone.
Report ==
  \/ \E e \in RawEvent : Emit(e) \/ Drop(e) \/ \E h \in Handler : LookUp(h, e)
  \/ \E h \in Handler : Refuse(h)
  \/ \E state \in OwnStates : Rotate(state)

WebhookNext ==
  \/ Report /\ UNCHANGED msgs
  \/ \E h \in Handler : Persist(h)
  \/ \E m \in Msg : Dispatches(m)

WebhookSpec == WebhookInit /\ [][WebhookNext]_webhookVars

\* The provider delivers an event again until it gets a 2xx; a credential that
\* does not verify is put right at some time, and some delivery finds it so and
\* the database up; handlers come to an end.
Deliver(e) == (Drop(e) \/ \E h \in Handler : LookUp(h, e)) /\ UNCHANGED msgs

WebhookFairness ==
  /\ \A e \in RawEvent :
       /\ SF_webhookVars(e \notin acked \cup dropped /\ Deliver(e))
       /\ SF_webhookVars(\E h \in Handler :
                            handler[h] # Free /\ handler[h].event = e /\ Persist(h))
  /\ WF_webhookVars(Rotate("signs") /\ UNCHANGED msgs)
  /\ \A h \in Handler : WF_webhookVars((Refuse(h) /\ UNCHANGED msgs) \/ Persist(h))

WebhookFairSpec == WebhookSpec /\ WebhookFairness

-----------------------------------------------------------------------------
\* A final status a webhook gave is backed by the stored event that caused it:
\* the UPDATE and the INSERT are one transaction whatever the interleaving.
StatusHasEvent ==
  \A m \in Msg : msgs[m].external /\ msgs[m].status \in Terminal =>
    <<m, msgs[m].status>> \in events

\* The converse: no stored delivery, bounce or failure leaves its message
\* `sent`, although the handler decides with a status it read earlier.
EventIsApplied ==
  \A m \in Msg :
    (\E type \in Terminal : <<m, type>> \in events) => msgs[m].status \in Terminal

\* Whatever credentials other tenants have, broken ones or one with the same
\* secret, they never keep out a webhook the tenant's own credential verifies, and
\* never let in one that it does not.
OwnSecretDecides ==
  \A others \in Others :
    Verdict(Candidates(credential, others)) = "valid" <=> credential = "signs"

\* The status trigger never turns a webhook into a 500: with the status read
\* in the first session out of date, the UPDATE still asks for a legal step.
PersistIsLegal ==
  \A h \in Handler : handler[h] # Free =>
    LET e == handler[h].event
    IN TriggersAllow(msgs[e[1]], RowAfter(e[1], ParseEvent(e[2]), handler[h].seen))

\* What the provider reports about a mail's end reaches the message's status,
\* unless a delivery of the report came before the row had its provider id.
ReportedOutcomeLands ==
  \A e \in RawEvent :
    (e \in emitted /\ ParseEvent(e[2]) \in {"delivered", "bounced", "failed"}) ~>
      (e \in dropped \/ msgs[e[1]].status \in Terminal)
=============================================================================
