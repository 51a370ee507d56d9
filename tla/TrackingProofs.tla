--------------------------- MODULE TrackingProofs ---------------------------
(***************************************************************************)
(* Proofs about message_events with its three users: the webhook handlers, *)
(* the tracking endpoints and GET /v1/messages/{id}, for any messages, any *)
(* number of handlers and any number of pixel loads.                       *)
(*                                                                         *)
(* What a reader has read stays covered by the events it will read later   *)
(* because rows of message_events are only ever added.                     *)
(***************************************************************************)
EXTENDS Tracking, WebhooksProofs, FiniteSetTheorems

\* The event types stored for a message with an external_message_id.
StoredTypes(m) == {t \in EventType : <<m, t>> \in events}

TrackingInv ==
  /\ WebhookInv
  /\ TrackingTypeOK
  /\ EventsCountIsExact
  /\ DetailIsCoherent

-----------------------------------------------------------------------------
\* The constraint of message_events lists finitely many event types.
LEMMA EventTypesFinite == IsFiniteSet(EventType)
<1>1. IsFiniteSet({}) /\ \A S, x : IsFiniteSet(S) => IsFiniteSet(S \cup {x})
  BY FS_EmptySet, FS_AddElement
<1>2. EventType = ((((((({} \cup {"sent"}) \cup {"delivered"}) \cup {"bounced"})
                    \cup {"complaint"}) \cup {"opened"}) \cup {"clicked"})
                    \cup {"failed"}) \cup {"dropped"}
  BY DEF EventType
<1> QED
  BY <1>1, <1>2, Zenon

\* How many events of a message are listed is a number.
LEMMA ListedTyped ==
  ASSUME NEW m \in Msg, tracked \in [Msg -> Nat]
  PROVE  /\ IsFiniteSet(StoredTypes(m))
         /\ Cardinality(StoredTypes(m)) \in Nat
         /\ Listed(m) = Cardinality(StoredTypes(m)) + tracked[m]
         /\ Listed(m) \in Nat
<1>1. StoredTypes(m) \in SUBSET EventType
  BY DEF StoredTypes
<1>2. IsFiniteSet(StoredTypes(m)) /\ Cardinality(StoredTypes(m)) \in Nat
  BY <1>1, EventTypesFinite, FS_Subset, FS_CardinalityType
<1>3. Listed(m) = Cardinality(StoredTypes(m)) + tracked[m]
  BY DEF Listed, StoredTypes
<1> QED
  BY <1>2, <1>3

\* The numbers of tracked events, without their bound.
LEMMA TrackedTyped == TrackingTypeOK => tracked \in [Msg -> Nat]
BY MaxTrackedAssumption DEF TrackingTypeOK

\* A stored event that is stored again adds none; a new one adds one to the list
\* of its message and none to the others.
LEMMA ListedAfterEvent ==
  ASSUME TrackingTypeOK, NEW m \in Msg, NEW type \in EventType, NEW n \in Msg,
         events' = events \cup {<<m, type>>}, tracked' = tracked
  PROVE  Listed(n)' = IF n = m /\ <<m, type>> \notin events THEN Listed(n) + 1 ELSE Listed(n)
<1>1. tracked \in [Msg -> Nat]
  BY TrackedTyped
<1>2. /\ Listed(n) = Cardinality(StoredTypes(n)) + tracked[n]
      /\ IsFiniteSet(StoredTypes(n)) /\ Cardinality(StoredTypes(n)) \in Nat
  BY <1>1, ListedTyped
<1>3. Listed(n)' = Cardinality(StoredTypes(n)') + tracked[n]
  BY DEF Listed, StoredTypes
<1>4. CASE n = m /\ <<m, type>> \notin events
  <2>1. StoredTypes(n)' = StoredTypes(n) \cup {type} /\ type \notin StoredTypes(n)
    BY <1>4 DEF StoredTypes
  <2>2. Cardinality(StoredTypes(n) \cup {type}) = Cardinality(StoredTypes(n)) + 1
    BY <1>2, <2>1, FS_AddElement
  <2> QED
    BY <1>1, <1>2, <1>3, <1>4, <2>1, <2>2
<1>5. CASE ~(n = m /\ <<m, type>> \notin events)
  <2>1. StoredTypes(n)' = StoredTypes(n)
    BY <1>5 DEF StoredTypes
  <2> QED
    BY <1>2, <1>3, <1>5, <2>1
<1> QED
  BY <1>4, <1>5

-----------------------------------------------------------------------------
(* The invariant, one lemma per kind of step.                              *)

\* No events, no count, nobody reading.
LEMMA TrackingInitInv == TrackingInit => TrackingInv
<1> SUFFICES ASSUME TrackingInit PROVE TrackingInv
  OBVIOUS
<1>1. WebhookInv
  BY WebhookInitInv DEF TrackingInit
<1>2. tracked = [m \in Msg |-> 0] /\ reading = NotReading
      /\ events = {} /\ eventsCount = [m \in Msg |-> 0]
  BY DEF TrackingInit, WebhookInit, HooksInit
<1>3. TrackingTypeOK
  <2>1. 0 \in 0 .. MaxTracked
    BY MaxTrackedAssumption
  <2> QED
    BY <1>1, <1>2, <2>1 DEF WebhookInv, TrackingTypeOK
<1>4. \A m \in Msg : Listed(m) = 0
  <2> SUFFICES ASSUME NEW m \in Msg PROVE Listed(m) = 0
    OBVIOUS
  <2>1. StoredTypes(m) = {} /\ Cardinality({}) = 0
    BY <1>2, FS_EmptySet DEF StoredTypes
  <2> QED
    BY <1>2, <2>1 DEF Listed, StoredTypes
<1>5. EventsCountIsExact /\ DetailIsCoherent
  BY <1>2, <1>4 DEF EventsCountIsExact, DetailIsCoherent
<1> QED
  BY <1>1, <1>3, <1>5 DEF TrackingInv

\* A step that leaves the reader alone, counts what it stores and only adds to the
\* events keeps the answer of a reader in the middle of its two SELECTs coherent.
LEMMA WriterInv ==
  ASSUME TrackingInv, WebhookInv',
         tracked' \in [Msg -> 0 .. MaxTracked],
         reading' = reading,
         events \subseteq events',
         \A m \in Msg : Listed(m)' \in Nat /\ Listed(m) \in Nat /\ Listed(m) <= Listed(m)',
         EventsCountIsExact'
  PROVE  TrackingInv'
<1>1. TrackingTypeOK'
  BY DEF TrackingInv, TrackingTypeOK, WebhookInv
<1>2. DetailIsCoherent'
  <2> SUFFICES ASSUME reading # NotReading PROVE DetailIsCoherent'
    BY DEF DetailIsCoherent
  <2>1. PICK m \in Msg : /\ reading = RowRead(m, reading.row, reading.count)
                         /\ reading.row \in Row /\ reading.count \in Nat
    BY DEF TrackingInv, TrackingTypeOK
  <2>2. reading.msg = m
    BY <2>1 DEF RowRead
  <2> QED
    BY <2>1, <2>2 DEF TrackingInv, DetailIsCoherent
<1> QED
  BY <1>1, <1>2 DEF TrackingInv

\* The webhook side: the one step that stores an event counts it exactly when it
\* is new.
LEMMA WebhookWrites ==
  ASSUME TrackingInv, WebhookNext, UNCHANGED <<tracked, reading>>
  PROVE  TrackingInv'
<1>1. WebhookInv' /\ TrackingTypeOK /\ tracked \in [Msg -> 0 .. MaxTracked]
  BY WebhookNextInv DEF TrackingInv, TrackingTypeOK
<1>2. \A n \in Msg : Listed(n) \in Nat
  BY <1>1, TrackedTyped, ListedTyped
<1>3. CASE UNCHANGED <<events, eventsCount>>
  <2>1. \A n \in Msg : Listed(n)' = Listed(n)
    BY <1>3 DEF Listed
  <2>2. EventsCountIsExact'
    BY <1>3, <2>1 DEF TrackingInv, EventsCountIsExact
  <2> QED
    BY <1>1, <1>2, <1>3, <2>1, <2>2, WriterInv
<1>4. ASSUME NEW m \in Msg, NEW type \in EventType, RecordEvent(m, type)
      PROVE  TrackingInv'
  <2>1. events' = events \cup {<<m, type>>}
    BY <1>4 DEF RecordEvent
  <2>2. \A n \in Msg :
          Listed(n)' = IF n = m /\ <<m, type>> \notin events THEN Listed(n) + 1 ELSE Listed(n)
    BY <1>1, <2>1, ListedAfterEvent
  <2>3. eventsCount \in [Msg -> Nat]
    BY DEF TrackingInv, WebhookInv, WebhookTypeOK
  <2>4. \A n \in Msg :
          eventsCount'[n] = IF n = m /\ <<m, type>> \notin events THEN eventsCount[n] + 1
                                                                ELSE eventsCount[n]
    BY <1>4, <2>3 DEF RecordEvent
  <2>5. EventsCountIsExact'
    BY <2>2, <2>4 DEF TrackingInv, EventsCountIsExact
  <2>6. \A n \in Msg : Listed(n)' \in Nat /\ Listed(n) <= Listed(n)'
    BY <1>2, <2>2
  <2> QED
    BY <1>1, <1>2, <2>1, <2>5, <2>6, WriterInv
<1>5. ASSUME NEW h \in Handler, Persist(h) PROVE TrackingInv'
  <2>1. HeldMsg(h) \in Msg /\ HeldType(h) \in EventType
    <3>1. handler[h] # Free /\ WebhookTypeOK
      BY <1>5 DEF Persist, TrackingInv, WebhookInv
    <3> QED
      BY <3>1, HandlerHolds, ParsedTypes DEF HeldMsg, HeldType
  <2>2. RecordEvent(HeldMsg(h), HeldType(h)) \/ UNCHANGED <<events, eventsCount>>
    BY <1>5 DEF Persist, HeldMsg, HeldType
  <2>3. CASE RecordEvent(HeldMsg(h), HeldType(h))
    <3>1. PICK m \in Msg, type \in EventType : RecordEvent(m, type)
      BY <2>1, <2>3
    <3> QED
      BY <1>4, <3>1
  <2> QED
    BY <1>3, <2>2, <2>3
<1>6. CASE Report \/ \E m \in Msg : Dispatches(m)
  BY <1>3, <1>6 DEF Report, Emit, Drop, LookUp, Refuse, Rotate, Dispatches, hookVars
<1> QED
  BY <1>5, <1>6 DEF WebhookNext

\* A pixel or a link: one row more and one more on the count.
LEMMA TrackInv ==
  ASSUME TrackingInv, NEW m \in Msg, RecordTracked(m)
  PROVE  TrackingInv'
<1>1. /\ tracked[m] < MaxTracked
      /\ tracked' = [tracked EXCEPT ![m] = @ + 1]
      /\ eventsCount' = [eventsCount EXCEPT ![m] = @ + 1]
      /\ UNCHANGED <<msgs, emitted, acked, dropped, handler, events, credential, reading>>
  BY DEF RecordTracked
<1>2. /\ tracked \in [Msg -> 0 .. MaxTracked] /\ tracked \in [Msg -> Nat]
      /\ eventsCount \in [Msg -> Nat]
  BY TrackedTyped DEF TrackingInv, TrackingTypeOK, WebhookTypeOK
<1>3. tracked' \in [Msg -> 0 .. MaxTracked] /\ eventsCount' \in [Msg -> Nat]
  BY <1>1, <1>2, MaxTrackedAssumption
<1>4. WebhookInv'
  <2>1. WebhookTypeOK'
    BY <1>1, <1>3 DEF TrackingInv, WebhookInv, WebhookTypeOK, RowsTypeOK
  <2>2. \A h \in Handler : SeenHolds(h)'
    BY <1>1 DEF TrackingInv, WebhookInv, SeenHolds, HeldMsg
  <2> QED
    BY <1>1, <2>1, <2>2
    DEF TrackingInv, WebhookInv, IdComesWithSending, StatusHasEvent, EventIsApplied
<1>5. ASSUME NEW n \in Msg
      PROVE  /\ Listed(n) \in Nat
             /\ Listed(n)' = IF n = m THEN Listed(n) + 1 ELSE Listed(n)
  <2>1. /\ Listed(n) = Cardinality(StoredTypes(n)) + tracked[n]
        /\ Cardinality(StoredTypes(n)) \in Nat /\ Listed(n) \in Nat
    BY <1>2, ListedTyped
  <2>2. Listed(n)' = Cardinality(StoredTypes(n)) + tracked'[n]
    BY <1>1 DEF Listed, StoredTypes
  <2> QED
    BY <1>1, <1>2, <2>1, <2>2
<1>6. EventsCountIsExact'
  BY <1>1, <1>2, <1>5 DEF TrackingInv, EventsCountIsExact
<1>7. \A n \in Msg : Listed(n)' \in Nat /\ Listed(n) \in Nat /\ Listed(n) <= Listed(n)'
  BY <1>5
<1> QED
  BY <1>1, <1>3, <1>4, <1>6, <1>7, WriterInv

\* The first SELECT of a reader: its count is the list of that moment, and a final
\* status has its event; the second one ends the read.
LEMMA ReaderInv ==
  ASSUME TrackingInv, GetEvents \/ \E m \in Msg : GetRow(m)
  PROVE  TrackingInv'
<1>1. /\ UNCHANGED <<msgs, emitted, acked, dropped, handler, events, eventsCount, credential>>
      /\ tracked' = tracked
  BY DEF GetEvents, GetRow, webhookVars, hookVars
<1>2. WebhookInv'
  <2>1. WebhookTypeOK'
    BY <1>1 DEF TrackingInv, WebhookInv, WebhookTypeOK, RowsTypeOK
  <2>2. \A h \in Handler : SeenHolds(h)'
    BY <1>1 DEF TrackingInv, WebhookInv, SeenHolds, HeldMsg
  <2> QED
    BY <1>1, <2>1, <2>2
    DEF TrackingInv, WebhookInv, IdComesWithSending, StatusHasEvent, EventIsApplied
<1>3. \A n \in Msg : Listed(n)' = Listed(n) /\ Listed(n) \in Nat
  BY <1>1, TrackedTyped, ListedTyped DEF Listed, TrackingInv
<1>4. EventsCountIsExact'
  BY <1>1, <1>3 DEF TrackingInv, EventsCountIsExact
<1>5. CASE GetEvents
  <2>1. reading' = NotReading
    BY <1>5 DEF GetEvents
  <2> QED
    BY <1>1, <1>2, <1>4, <2>1
    DEF TrackingInv, TrackingTypeOK, WebhookInv, DetailIsCoherent
<1>6. ASSUME NEW m \in Msg, GetRow(m) PROVE TrackingInv'
  <2>1. reading' = RowRead(m, msgs[m], eventsCount[m])
    BY <1>6 DEF GetRow
  <2>2. reading'.msg = m /\ reading'.row = msgs[m] /\ reading'.count = eventsCount[m]
    BY <2>1 DEF RowRead
  <2>3. msgs[m] \in Row /\ eventsCount[m] \in Nat
    BY DEF TrackingInv, WebhookInv, WebhookTypeOK, RowsTypeOK
  <2>4. eventsCount[m] <= Listed(m)'
    BY <1>3, <2>3 DEF TrackingInv, EventsCountIsExact
  <2>5. msgs[m].external /\ msgs[m].status \in Terminal => <<m, msgs[m].status>> \in events'
    BY <1>1 DEF TrackingInv, WebhookInv, StatusHasEvent
  <2>6. DetailIsCoherent'
    BY <2>2, <2>4, <2>5 DEF DetailIsCoherent
  <2>7. TrackingTypeOK'
    BY <1>1, <1>2, <2>1, <2>2, <2>3 DEF TrackingInv, TrackingTypeOK, WebhookInv
  <2> QED
    BY <1>2, <1>4, <2>6, <2>7 DEF TrackingInv
<1> QED
  BY <1>5, <1>6

\* The invariant is inductive.
LEMMA TrackingNextInv == TrackingInv /\ [TrackingNext]_trackingVars => TrackingInv'
<1> SUFFICES ASSUME TrackingInv, [TrackingNext]_trackingVars PROVE TrackingInv'
  OBVIOUS
<1>1. CASE WebhookNext /\ UNCHANGED <<tracked, reading>>
  BY <1>1, WebhookWrites
<1>2. ASSUME NEW m \in Msg, TrackOpen(m) \/ \E domain \in Links : TrackClick(m, domain)
      PROVE  TrackingInv'
  BY <1>2, TrackInv DEF TrackOpen, TrackClick
<1>3. CASE GetEvents \/ \E m \in Msg : GetRow(m)
  BY <1>3, ReaderInv
<1>4. CASE UNCHANGED trackingVars
  <2>1. UNCHANGED <<events, tracked, eventsCount, reading>> /\ UNCHANGED webhookVars
    BY <1>4 DEF trackingVars, webhookVars, hookVars
  <2>2. WebhookInv'
    BY <2>1, WebhookNextInv DEF TrackingInv
  <2>3. \A n \in Msg : Listed(n)' = Listed(n) /\ Listed(n) \in Nat
    BY <2>1, TrackedTyped, ListedTyped DEF Listed, TrackingInv
  <2>4. EventsCountIsExact'
    BY <2>1, <2>3 DEF TrackingInv, EventsCountIsExact
  <2> QED
    BY <2>1, <2>2, <2>3, <2>4, WriterInv DEF TrackingInv, TrackingTypeOK
<1> QED
  BY <1>1, <1>2, <1>3, <1>4 DEF TrackingNext

-----------------------------------------------------------------------------
(* The theorems.                                                           *)

\* In every reachable state events, counts, statuses and what a reader has read
\* agree.
THEOREM TrackingInvariance == TrackingSpec => []TrackingInv
BY TrackingInitInv, TrackingNextInv, PTL DEF TrackingSpec

\* Every variable of the event writers and the reader keeps its type.
THEOREM TrackingTypeCorrect == TrackingSpec => []TrackingTypeOK
<1>1. TrackingInv => TrackingTypeOK
  BY DEF TrackingInv
<1> QED
  BY <1>1, TrackingInvariance, PTL

\* events_count is the number of stored events, whoever stores them and however
\* often.
THEOREM EventsCountIsExactHolds == TrackingSpec => []EventsCountIsExact
<1>1. TrackingInv => EventsCountIsExact
  BY DEF TrackingInv
<1> QED
  BY <1>1, TrackingInvariance, PTL

\* The two SELECTs of GET /v1/messages/{id} make a coherent answer.
THEOREM DetailIsCoherentHolds == TrackingSpec => []DetailIsCoherent
<1>1. TrackingInv => DetailIsCoherent
  BY DEF TrackingInv
<1> QED
  BY <1>1, TrackingInvariance, PTL

\* A final status that a webhook gave has its event.
THEOREM StatusHasEventHolds == TrackingSpec => []StatusHasEvent
<1>1. TrackingInv => StatusHasEvent
  BY DEF TrackingInv, WebhookInv
<1> QED
  BY <1>1, TrackingInvariance, PTL

\* A stored final event has its status.
THEOREM EventIsAppliedHolds == TrackingSpec => []EventIsApplied
<1>1. TrackingInv => EventIsApplied
  BY DEF TrackingInv, WebhookInv
<1> QED
  BY <1>1, TrackingInvariance, PTL

\* No second session is made a 500 by the status trigger.
THEOREM PersistIsLegalHolds == TrackingSpec => []PersistIsLegal
<1>1. TrackingInv => PersistIsLegal
  BY InvPersistIsLegal DEF TrackingInv
<1> QED
  BY <1>1, TrackingInvariance, PTL

\* The tenant's own secret decides whose webhooks are believed.
THEOREM OwnSecretDecidesHolds == TrackingSpec => []OwnSecretDecides
<1>1. TrackingInv => OwnSecretDecides
  BY OwnSecretLemma DEF TrackingInv, WebhookInv, WebhookTypeOK
<1> QED
  BY <1>1, TrackingInvariance, PTL
=============================================================================
