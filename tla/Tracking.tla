------------------------------ MODULE Tracking ------------------------------
(***************************************************************************)
(* The other writer and the reader of message_events, next to the webhook  *)
(* handlers of Webhooks.                                                   *)
(*                                                                         *)
(* GET /v1/track/email/open and /click insert an event for a signed link   *)
(* of a mail.  Their rows have no external_message_id, and a UNIQUE        *)
(* constraint takes two NULLs for different: every load of the pixel is a  *)
(* row.  An INSERT that fails is rolled back, logged, and answered like    *)
(* one that does not.                                                      *)
(*                                                                         *)
(* GET /v1/messages/{id} reads the message's row and then its events, in   *)
(* two SELECTs between which either writer may commit.                     *)
(***************************************************************************)
EXTENDS Webhooks

CONSTANTS
  OpenTracked,    \* the messages with tracking_open
  ClickTracked,   \* the messages with tracking_click
  Links,          \* the domains of the links in the mails
  Allowlist,      \* the tenant's active rows of tenant_tracking_allowlist
  MaxTracked      \* bound of the model: tracking events of one message

ASSUME TrackedAssumption == OpenTracked \subseteq Msg /\ ClickTracked \subseteq Msg

\* A domain is the sequence of its labels.
ASSUME DomainAssumption == \A d \in Links \cup Allowlist : d \in Seq(STRING)

ASSUME MaxTrackedAssumption == MaxTracked \in Nat

VARIABLES
  tracked,   \* message -> its rows of message_events without external_message_id
  reading    \* what a GET of a message has read of its row

trackingVars == <<webhookVars, tracked, reading>>

NotReading == [at |-> "idle"]
RowRead(m, row, count) == [at |-> "row", msg |-> m, row |-> row, count |-> count]

TrackingTypeOK ==
  /\ WebhookTypeOK
  /\ tracked \in [Msg -> 0 .. MaxTracked]
  /\ reading = NotReading \/
     \E m \in Msg : /\ reading = RowRead(m, reading.row, reading.count)
                    /\ reading.row \in Row /\ reading.count \in Nat

TrackingInit ==
  /\ WebhookInit
  /\ tracked = [m \in Msg |-> 0]
  /\ reading = NotReading

-----------------------------------------------------------------------------
\* The domain is a listed one or a subdomain of one.
MatchesAllowlist(domain, allowed) ==
  \E listed \in allowed, n \in 0 .. Len(domain) - 1 :
    SubSeq(domain, n + 1, Len(domain)) = listed

\* Slip for the mutation checks: the trigger passes over rows without an id.
RecordTrackedUncounted(m) ==
  /\ tracked[m] < MaxTracked
  /\ tracked' = [tracked EXCEPT ![m] = @ + 1]
  /\ UNCHANGED <<webhookVars, reading>>

\* INSERT INTO message_events, its events_count trigger, and the commit.
RecordTracked(m) ==
  /\ tracked[m] < MaxTracked
  /\ tracked' = [tracked EXCEPT ![m] = @ + 1]
  /\ eventsCount' = [eventsCount EXCEPT ![m] = @ + 1]
  /\ UNCHANGED <<msgs, emitted, acked, dropped, handler, events, credential, reading>>

\* The pixel of a message that exists and has tracking_open.  Otherwise, and when
\* the INSERT fails, the answer is the pixel too and nothing is stored.
TrackOpen(m) ==
  /\ msgs[m].status # "absent"
  /\ m \in OpenTracked
  /\ RecordTracked(m)

\* A signed link: 404 without the message, its flag or, for a tenant with an
\* allowlist, a listed domain.
TrackClick(m, domain) ==
  /\ msgs[m].status # "absent"
  /\ m \in ClickTracked
  /\ Allowlist # {} => MatchesAllowlist(domain, Allowlist)
  /\ RecordTracked(m)

\* get_message: the first SELECT, 404 without a row.
GetRow(m) ==
  /\ reading = NotReading
  /\ msgs[m].status # "absent"
  /\ reading' = RowRead(m, msgs[m], eventsCount[m])
  /\ UNCHANGED <<webhookVars, tracked>>

\* The second SELECT lists the events of this moment, and the answer is complete.
GetEvents ==
  /\ reading # NotReading
  /\ reading' = NotReading
  /\ UNCHANGED <<webhookVars, tracked>>

TrackingNext ==
  \/ WebhookNext /\ UNCHANGED <<tracked, reading>>
  \/ \E m \in Msg :
       \/ TrackOpen(m) \/ GetRow(m)
       \/ \E domain \in Links : TrackClick(m, domain)
  \/ GetEvents

TrackingSpec == TrackingInit /\ [][TrackingNext]_trackingVars

TrackingFairSpec == TrackingSpec /\ WebhookFairness

-----------------------------------------------------------------------------
\* The rows of message_events that GET /v1/messages/{id} would list.
Listed(m) == Cardinality({t \in EventType : <<m, t>> \in events}) + tracked[m]

\* events_count is the number of stored events: an event delivered again or by
\* two handlers at once adds none, a pixel loaded again adds one to both.
EventsCountIsExact == \A m \in Msg : eventsCount[m] = Listed(m)

\* A caller of GET /v1/messages/{id} is never shown a count of events, or a final
\* status a webhook gave, that the events listed under it do not account for,
\* although they are read later than the row.
DetailIsCoherent ==
  reading # NotReading =>
    /\ reading.count <= Listed(reading.msg)
    /\ reading.row.external /\ reading.row.status \in Terminal =>
         <<reading.msg, reading.row.status>> \in events
=============================================================================
